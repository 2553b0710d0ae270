-------------------------- MODULE CryptoStreamProofs --------------------------
(***************************************************************************)
(* What is proved of CryptoStream, for packages, reads and writes of any   *)
(* sizes and any credentials: nothing the server sends is lost, and what   *)
(* the client writes arrives.                                              *)
(***************************************************************************)
EXTENDS CryptoStream, SequenceTheorems, NaturalsInduction, WellFoundedInduction, TLAPS

(* A server that asks for none may send its result too early. *)
CredentialsAsked == "none" \notin Subtypes

Bytes == [package : Nat, size : Nat, at : Nat, val : Nat]

Overhead == LengthSize + TagSize

(* Byte i of package p, which holds n bytes after number a. *)
Sealed(p, n, a, i) ==
  [package |-> p, size |-> n, at |-> i,
   val |-> IF i \in LengthSize + 1 .. LengthSize + n THEN a + i - LengthSize ELSE 0]

Rising(F, lo, hi) == \A p, q \in lo .. hi : p < q => F[p] < F[q]

Covers(F, lo, hi) == \A v \in F[lo] + 1 .. F[hi] : \E p \in lo .. hi - 1 : v \in F[p] + 1 .. F[p + 1]

IsPackage(k, p, n, a) == k = [i \in 1 .. Overhead + n |-> Sealed(p, n, a, i)]

(* u is the packages lo to hi - 1: B numbers the bytes of data before each,
   and E the bytes of u. *)
Links(u, lo, hi, a, z, B, E) ==
  /\ B[lo] = a /\ B[hi] = z /\ E[lo] = 0 /\ E[hi] = Len(u)
  /\ Rising(B, lo, hi) /\ Rising(E, lo, hi) /\ Covers(B, lo, hi) /\ Covers(E, lo, hi)
  /\ \A p \in lo .. hi - 1 :
       /\ E[p + 1] = E[p] + Overhead + (B[p + 1] - B[p])
       /\ \A i \in 1 .. E[p + 1] - E[p] : u[E[p] + i] = Sealed(p, B[p + 1] - B[p], B[p], i)

(* u is whole packages, from lo on, with the data a + 1 .. z. *)
Chain(u, lo, hi, a, z) ==
  /\ u \in Seq(Bytes) /\ lo \in Nat /\ hi \in Nat /\ lo <= hi
  /\ \E B, E \in [lo .. hi -> Nat] : Links(u, lo, hi, a, z, B, E)

-----------------------------------------------------------------------------
(* Packages on end. *)
LEMMA Sizes == LengthSize = 2 /\ Overhead \in Nat \ {0} /\ TagSize \in Nat
  BY SizesAssumption DEF LengthSize, Overhead

LEMMA NoPackage ==
  ASSUME NEW lo \in Nat, NEW a \in Nat
  PROVE  Chain(<<>>, lo, lo, a, a)
  <1> DEFINE B == [p \in lo .. lo |-> a]
             E == [p \in lo .. lo |-> 0]
  <1>1. B \in [lo .. lo -> Nat] /\ E \in [lo .. lo -> Nat]
    OBVIOUS
  <1>2. Links(<<>>, lo, lo, a, a, B, E)
    BY DEF Links, Rising, Covers
  <1> HIDE DEF B, E
  <1>3. \E C, D \in [lo .. lo -> Nat] : Links(<<>>, lo, lo, a, a, C, D)
    BY <1>1, <1>2
  <1> QED BY <1>3 DEF Chain

LEMMA SealedIsByte ==
  ASSUME NEW p \in Nat, NEW n \in Nat, NEW a \in Nat, NEW i \in Nat
  PROVE  Sealed(p, n, a, i) \in Bytes
  <1>1. a + i - LengthSize \in Nat \/ ~(i \in LengthSize + 1 .. LengthSize + n)
    BY Sizes
  <1> QED BY <1>1 DEF Sealed, Bytes

LEMMA IsSeqOf ==
  ASSUME NEW S, NEW n \in Nat, NEW f \in [1 .. n -> S]
  PROVE  f \in Seq(S) /\ Len(f) = n
  OBVIOUS

LEMMA PackageIs ==
  ASSUME NEW k, NEW p \in Nat, NEW n \in Nat, NEW a \in Nat, IsPackage(k, p, n, a)
  PROVE  /\ k \in Seq(Bytes) /\ Len(k) = Overhead + n
         /\ \A i \in 1 .. Overhead + n : k[i] = Sealed(p, n, a, i)
  <1> DEFINE m == Overhead + n
  <1>1. m \in Nat
    BY Sizes
  <1>2. \A i \in 1 .. m : Sealed(p, n, a, i) \in Bytes
    <2> SUFFICES ASSUME NEW i \in 1 .. m PROVE Sealed(p, n, a, i) \in Bytes
      OBVIOUS
    <2>1. i \in Nat
      BY <1>1
    <2> QED BY <2>1, SealedIsByte
  <1>3. k = [i \in 1 .. m |-> Sealed(p, n, a, i)]
    BY DEF IsPackage
  <1> HIDE DEF m
  <1>4. k \in [1 .. m -> Bytes] /\ \A i \in 1 .. m : k[i] = Sealed(p, n, a, i)
    BY <1>2, <1>3
  <1>5. k \in Seq(Bytes) /\ Len(k) = m
    BY <1>1, <1>4, IsSeqOf
  <1> QED BY <1>4, <1>5 DEF m

LEMMA JoinIs ==
  ASSUME NEW S, NEW u \in Seq(S), NEW k \in Seq(S)
  PROVE  /\ u \o k \in Seq(S) /\ Len(u \o k) = Len(u) + Len(k) /\ Len(u) \in Nat /\ Len(k) \in Nat
         /\ \A i \in 1 .. Len(u) : (u \o k)[i] = u[i]
         /\ \A i \in 1 .. Len(k) : (u \o k)[Len(u) + i] = k[i]
  OBVIOUS

(* One more package at the end. *)
LEMMA OneMore ==
  ASSUME NEW u, NEW lo, NEW hi, NEW a, NEW z, Chain(u, lo, hi, a, z), NEW n \in Nat \ {0}, a \in Nat, z \in Nat,
         NEW k, IsPackage(k, hi, n, z)
  PROVE  Chain(u \o k, lo, hi + 1, a, z + n)
  <1>0. u \in Seq(Bytes) /\ lo \in Nat /\ hi \in Nat /\ lo <= hi
    BY DEF Chain
  <1>1. PICK B, E \in [lo .. hi -> Nat] : Links(u, lo, hi, a, z, B, E)
    BY DEF Chain
  <1> DEFINE m == Overhead + n
             w == u \o k
             C == [p \in lo .. hi + 1 |-> IF p = hi + 1 THEN z + n ELSE B[p]]
             D == [p \in lo .. hi + 1 |-> IF p = hi + 1 THEN Len(u) + m ELSE E[p]]
  <1>2. m \in Nat \ {0}
    BY Sizes
  <1>3. k \in Seq(Bytes) /\ Len(k) = m /\ \A i \in 1 .. m : k[i] = Sealed(hi, n, z, i)
    BY <1>0, PackageIs
  <1>4. w \in Seq(Bytes) /\ Len(w) = Len(u) + m /\ Len(u) \in Nat
    <2> HIDE DEF m
    <2> QED BY <1>0, <1>3, JoinIs
  <1>5. (\A i \in 1 .. Len(u) : w[i] = u[i]) /\ (\A i \in 1 .. m : w[Len(u) + i] = Sealed(hi, n, z, i))
    <2> HIDE DEF m
    <2> QED BY <1>0, <1>3, JoinIs
  <1>6. C \in [lo .. hi + 1 -> Nat] /\ D \in [lo .. hi + 1 -> Nat]
    <2> HIDE DEF m, w
    <2> QED BY <1>0, <1>1, <1>2, <1>4
  <1>7. /\ \A p \in lo .. hi : C[p] = B[p] /\ D[p] = E[p]
        /\ C[hi + 1] = z + n /\ D[hi + 1] = Len(u) + m
    BY <1>0
  <1>8. /\ B[lo] = a /\ B[hi] = z /\ E[lo] = 0 /\ E[hi] = Len(u)
        /\ Rising(B, lo, hi) /\ Rising(E, lo, hi) /\ Covers(B, lo, hi) /\ Covers(E, lo, hi)
    BY <1>1 DEF Links
  <1> HIDE DEF m, w, C, D
  <1>9. Rising(C, lo, hi + 1) /\ Rising(D, lo, hi + 1)
    <2>1. \A p \in lo .. hi : B[p] <= z /\ E[p] <= Len(u)
      <3> SUFFICES ASSUME NEW p \in lo .. hi PROVE B[p] <= z /\ E[p] <= Len(u)
        OBVIOUS
      <3>1. p \in Nat /\ hi \in lo .. hi /\ (p < hi \/ p = hi)
        BY <1>0
      <3>2. B[p] \in Nat /\ E[p] \in Nat /\ B[hi] \in Nat
        BY <1>1, <3>1
      <3>3. p < hi => B[p] < B[hi] /\ E[p] < E[hi]
        BY <1>8, <3>1 DEF Rising
      <3> QED BY <1>4, <1>8, <3>1, <3>2, <3>3
    <2>2. Rising(C, lo, hi + 1)
      <3> SUFFICES ASSUME NEW p \in lo .. hi + 1, NEW q \in lo .. hi + 1, p < q PROVE C[p] < C[q]
        BY DEF Rising
      <3>1. p \in lo .. hi /\ C[p] = B[p] /\ B[p] \in Nat
        BY <1>0, <1>1, <1>7
      <3>2. CASE q = hi + 1
        BY <1>7, <2>1, <3>1, <3>2
      <3>3. CASE q # hi + 1
        <4>1. q \in lo .. hi /\ C[q] = B[q]
          BY <1>0, <1>7, <3>3
        <4> QED BY <1>8, <3>1, <4>1 DEF Rising
      <3> QED BY <3>2, <3>3
    <2>3. Rising(D, lo, hi + 1)
      <3> SUFFICES ASSUME NEW p \in lo .. hi + 1, NEW q \in lo .. hi + 1, p < q PROVE D[p] < D[q]
        BY DEF Rising
      <3>1. p \in lo .. hi /\ D[p] = E[p] /\ E[p] \in Nat
        BY <1>0, <1>1, <1>7
      <3>2. CASE q = hi + 1
        BY <1>2, <1>4, <1>7, <2>1, <3>1, <3>2
      <3>3. CASE q # hi + 1
        <4>1. q \in lo .. hi /\ D[q] = E[q]
          BY <1>0, <1>7, <3>3
        <4> QED BY <1>8, <3>1, <4>1 DEF Rising
      <3> QED BY <3>2, <3>3
    <2> QED BY <2>2, <2>3
  <1>10. Covers(C, lo, hi + 1)
    <2> SUFFICES ASSUME NEW v \in C[lo] + 1 .. C[hi + 1]
                 PROVE  \E p \in lo .. hi : v \in C[p] + 1 .. C[p + 1]
      BY <1>0 DEF Covers
    <2>1. CASE v <= z
      <3>1. v \in B[lo] + 1 .. B[hi] /\ lo \in lo .. hi /\ hi \in lo .. hi
        BY <1>0, <1>4, <1>7, <1>8, <2>1
      <3>2. PICK p \in lo .. hi - 1 : v \in B[p] + 1 .. B[p + 1]
        BY <1>8, <3>1 DEF Covers
      <3>3. p \in lo .. hi /\ p + 1 \in lo .. hi
        BY <1>0
      <3>4. C[p] = B[p] /\ C[p + 1] = B[p + 1]
        BY <1>7, <3>3
      <3> QED BY <3>2, <3>3, <3>4
    <2>2. CASE v > z
      <3>1. hi \in lo .. hi
        BY <1>0
      <3>2. C[hi] = z
        BY <1>7, <1>8, <3>1
      <3>3. C[lo] \in Nat /\ C[hi + 1] = z + n
        BY <1>0, <1>6, <1>7
      <3> QED BY <2>2, <3>1, <3>2, <3>3
    <2> QED BY <1>0, <1>7, <2>1, <2>2
  <1>11. Covers(D, lo, hi + 1)
    <2> SUFFICES ASSUME NEW v \in D[lo] + 1 .. D[hi + 1]
                 PROVE  \E p \in lo .. hi : v \in D[p] + 1 .. D[p + 1]
      BY <1>0 DEF Covers
    <2>1. CASE v <= Len(u)
      <3>1. v \in E[lo] + 1 .. E[hi] /\ lo \in lo .. hi /\ hi \in lo .. hi
        BY <1>0, <1>4, <1>7, <1>8, <2>1
      <3>2. PICK p \in lo .. hi - 1 : v \in E[p] + 1 .. E[p + 1]
        BY <1>8, <3>1 DEF Covers
      <3>3. p \in lo .. hi /\ p + 1 \in lo .. hi
        BY <1>0
      <3>4. D[p] = E[p] /\ D[p + 1] = E[p + 1]
        BY <1>7, <3>3
      <3> QED BY <3>2, <3>3, <3>4
    <2>2. CASE v > Len(u)
      <3>1. hi \in lo .. hi
        BY <1>0
      <3>2. D[hi] = Len(u)
        BY <1>7, <1>8, <3>1
      <3> QED BY <1>0, <1>2, <1>4, <1>7, <2>2, <3>1, <3>2
    <2> QED BY <1>0, <1>4, <1>7, <2>1, <2>2
  <1>12. ASSUME NEW p \in lo .. hi
         PROVE  /\ D[p + 1] = D[p] + Overhead + (C[p + 1] - C[p])
                /\ \A i \in 1 .. D[p + 1] - D[p] : w[D[p] + i] = Sealed(p, C[p + 1] - C[p], C[p], i)
    <2>1. CASE p = hi
      <3>1. C[p] = z /\ D[p] = Len(u) /\ C[p + 1] = z + n /\ D[p + 1] = Len(u) + m
        BY <1>0, <1>7, <1>8, <2>1
      <3>2. D[p + 1] - D[p] = m /\ C[p + 1] - C[p] = n /\ m = Overhead + n
        BY <1>2, <1>4, <3>1 DEF m
      <3> QED BY <1>4, <1>5, <2>1, <3>1, <3>2, Sizes
    <2>2. CASE p # hi
      <3>1. p \in lo .. hi - 1 /\ p \in lo .. hi /\ p + 1 \in lo .. hi
        BY <1>0, <2>2
      <3>2. C[p] = B[p] /\ D[p] = E[p] /\ C[p + 1] = B[p + 1] /\ D[p + 1] = E[p + 1]
        BY <1>7, <3>1
      <3>3. /\ E[p + 1] = E[p] + Overhead + (B[p + 1] - B[p])
            /\ \A i \in 1 .. E[p + 1] - E[p] : u[E[p] + i] = Sealed(p, B[p + 1] - B[p], B[p], i)
        BY <1>1, <3>1 DEF Links
      <3>4. E[p + 1] <= Len(u) /\ E[p] \in Nat /\ E[p + 1] \in Nat
        BY <1>0, <1>1, <1>8, <3>1 DEF Rising
      <3>5. \A i \in 1 .. E[p + 1] - E[p] : E[p] + i \in 1 .. Len(u)
        BY <1>4, <3>4
      <3> QED BY <1>5, <3>2, <3>3, <3>5
    <2> QED BY <2>1, <2>2
  <1>13. Links(w, lo, hi + 1, a, z + n, C, D)
    <2>1. C[lo] = a /\ C[hi + 1] = z + n /\ D[lo] = 0 /\ D[hi + 1] = Len(w)
      BY <1>0, <1>4, <1>7, <1>8
    <2>2. (hi + 1) - 1 = hi
      BY <1>0
    <2> QED BY <1>9, <1>10, <1>11, <1>12, <2>1, <2>2 DEF Links
  <1>14. \E X, Y \in [lo .. hi + 1 -> Nat] : Links(w, lo, hi + 1, a, z + n, X, Y)
    BY <1>6, <1>13
  <1>15. hi + 1 \in Nat /\ lo <= hi + 1
    BY <1>0
  <1> QED BY <1>0, <1>4, <1>14, <1>15 DEF Chain, w

(* The first package, and those after it. *)
First(u, lo, hi, a, z, n) ==
  /\ lo < hi /\ Len(u) >= Overhead + n /\ a + n <= z
  /\ \A i \in 1 .. Overhead + n : u[i] = Sealed(lo, n, a, i)
  /\ Chain(SubSeq(u, Overhead + n + 1, Len(u)), lo + 1, hi, a + n, z)

LEMMA CutIs ==
  ASSUME NEW S, NEW u \in Seq(S), NEW m \in Nat, m <= Len(u)
  PROVE  /\ SubSeq(u, m + 1, Len(u)) \in Seq(S) /\ Len(SubSeq(u, m + 1, Len(u))) = Len(u) - m /\ Len(u) \in Nat
         /\ \A i \in 1 .. Len(u) - m : SubSeq(u, m + 1, Len(u))[i] = u[m + i]
  OBVIOUS

LEMMA RisingTo ==
  ASSUME NEW lo \in Nat, NEW hi \in Nat, NEW F \in [lo .. hi -> Nat], Rising(F, lo, hi),
         NEW p \in lo .. hi, NEW q \in lo .. hi, p <= q
  PROVE  F[p] <= F[q]
  BY DEF Rising

LEMMA Shifted ==
  ASSUME NEW e \in Nat, NEW f \in Nat, NEW b \in Nat, NEW c \in Nat, NEW m \in Nat, NEW o \in Nat, f = e + o + (c - b)
  PROVE  (f - m) = (e - m) + o + (c - b) /\ (f - m) - (e - m) = f - e
  OBVIOUS

LEMMA Within ==
  ASSUME NEW e \in Nat, NEW f \in Nat, NEW m \in Nat, NEW l \in Nat, f <= l, e >= m, NEW i \in 1 .. f - e
  PROVE  (e - m) + i \in 1 .. l - m /\ m + ((e - m) + i) = e + i
  OBVIOUS

LEMMA FirstOff ==
  ASSUME NEW u, NEW lo, NEW hi, NEW a \in Nat, NEW z \in Nat, Chain(u, lo, hi, a, z), u # <<>>
  PROVE  \E n \in Nat \ {0} : First(u, lo, hi, a, z, n)
  <1>0. u \in Seq(Bytes) /\ lo \in Nat /\ hi \in Nat /\ lo <= hi
    BY DEF Chain
  <1>1. PICK B, E \in [lo .. hi -> Nat] : Links(u, lo, hi, a, z, B, E)
    BY DEF Chain
  <1>2. Len(u) \in Nat \ {0}
    BY <1>0
  <1>3. /\ B[lo] = a /\ B[hi] = z /\ E[lo] = 0 /\ E[hi] = Len(u)
        /\ Rising(B, lo, hi) /\ Rising(E, lo, hi) /\ Covers(B, lo, hi) /\ Covers(E, lo, hi)
    BY <1>1 DEF Links
  <1>4. lo < hi
    BY <1>0, <1>2, <1>3
  <1> DEFINE k == lo + 1
             n == B[k] - a
             m == Overhead + n
             w == SubSeq(u, m + 1, Len(u))
             C == [p \in k .. hi |-> B[p]]
             D == [p \in k .. hi |-> E[p] - m]
  <1>5. k \in Nat /\ k \in lo .. hi /\ lo \in lo .. hi /\ hi \in lo .. hi /\ hi \in k .. hi /\ k \in k .. hi
        /\ k <= hi /\ lo \in lo .. hi - 1 /\ lo < k
    BY <1>0, <1>4
  <1>6. B[k] \in Nat /\ E[k] \in Nat
    BY <1>1, <1>5
  <1>7. /\ E[k] = E[lo] + Overhead + (B[k] - B[lo])
        /\ \A i \in 1 .. E[k] - E[lo] : u[E[lo] + i] = Sealed(lo, B[k] - B[lo], B[lo], i)
    BY <1>1, <1>5 DEF Links
  <1> HIDE DEF k
  <1>8. B[k] > a /\ B[k] <= z
    BY <1>0, <1>1, <1>3, <1>5, RisingTo DEF Rising
  <1>9. n \in Nat \ {0} /\ m \in Nat /\ B[k] = a + n /\ a + n <= z
    BY <1>6, <1>8, Sizes
  <1>10. E[k] = m
    BY <1>3, <1>7, <1>9, Sizes
  <1>11. m <= Len(u)
    BY <1>0, <1>1, <1>3, <1>5, <1>10, RisingTo
  <1>12. \A i \in 1 .. m : u[i] = Sealed(lo, n, a, i)
    <2> SUFFICES ASSUME NEW i \in 1 .. m PROVE u[i] = Sealed(lo, n, a, i)
      OBVIOUS
    <2> HIDE DEF m
    <2>1. E[k] - E[lo] = m /\ B[k] - B[lo] = n /\ E[lo] + i = i
      BY <1>3, <1>9, <1>10
    <2> HIDE DEF n
    <2> QED BY <1>3, <1>7, <2>1
  <1> HIDE DEF n, m
  <1>13. /\ w \in Seq(Bytes) /\ Len(w) = Len(u) - m /\ Len(u) \in Nat
         /\ \A i \in 1 .. Len(u) - m : w[i] = u[m + i]
    BY <1>0, <1>9, <1>11, CutIs
  <1>14. \A p \in k .. hi : p \in lo .. hi /\ B[p] \in Nat /\ E[p] \in Nat /\ E[p] >= m /\ E[p] <= Len(u) /\ p \in Nat
    <2> SUFFICES ASSUME NEW p \in k .. hi
                 PROVE  p \in lo .. hi /\ B[p] \in Nat /\ E[p] \in Nat /\ E[p] >= m /\ E[p] <= Len(u) /\ p \in Nat
      OBVIOUS
    <2>1. p \in lo .. hi /\ k <= p /\ p <= hi /\ p \in Nat
      BY <1>0, <1>5
    <2>2. E[k] <= E[p] /\ E[p] <= E[hi]
      BY <1>0, <1>1, <1>3, <1>5, <2>1, RisingTo
    <2> QED BY <1>1, <1>3, <1>10, <2>1, <2>2
  <1>15. C \in [k .. hi -> Nat] /\ D \in [k .. hi -> Nat]
    BY <1>9, <1>14
  <1>16. \A p \in k .. hi : C[p] = B[p] /\ D[p] = E[p] - m
    OBVIOUS
  <1> HIDE DEF w, C, D
  <1>17. C[k] = a + n /\ C[hi] = z /\ D[k] = 0 /\ D[hi] = Len(w)
    BY <1>3, <1>5, <1>9, <1>10, <1>13, <1>16
  <1>18. Rising(C, k, hi) /\ Rising(D, k, hi)
    <2> SUFFICES ASSUME NEW p \in k .. hi, NEW q \in k .. hi, p < q
                 PROVE  C[p] < C[q] /\ D[p] < D[q]
      BY DEF Rising
    <2>1. B[p] < B[q] /\ E[p] < E[q]
      BY <1>3, <1>14 DEF Rising
    <2> QED BY <1>9, <1>14, <1>16, <2>1
  <1>19. \A p \in lo .. hi - 1 : p # lo => p \in k .. hi - 1 /\ p \in k .. hi /\ p + 1 \in k .. hi
    BY <1>0 DEF k
  <1>20. Covers(C, k, hi)
    <2> SUFFICES ASSUME NEW v \in C[k] + 1 .. C[hi]
                 PROVE  \E p \in k .. hi - 1 : v \in C[p] + 1 .. C[p + 1]
      BY DEF Covers
    <2>1. v \in B[lo] + 1 .. B[hi] /\ ~(v <= B[k])
      BY <1>3, <1>9, <1>17
    <2>2. PICK p \in lo .. hi - 1 : v \in B[p] + 1 .. B[p + 1]
      BY <1>3, <2>1 DEF Covers
    <2>3. p # lo
      <3>1. ASSUME p = lo PROVE FALSE
        <4>1. v \in B[lo] + 1 .. B[k]
          BY <2>2, <3>1 DEF k
        <4> QED BY <1>6, <2>1, <4>1
      <3> QED BY <3>1
    <2>4. C[p] = B[p] /\ C[p + 1] = B[p + 1] /\ p \in k .. hi - 1
      BY <1>16, <1>19, <2>3
    <2> QED BY <2>2, <2>4
  <1>21. Covers(D, k, hi)
    <2> SUFFICES ASSUME NEW v \in D[k] + 1 .. D[hi]
                 PROVE  \E p \in k .. hi - 1 : v \in D[p] + 1 .. D[p + 1]
      BY DEF Covers
    <2>1. v + m \in E[lo] + 1 .. E[hi] /\ ~(v + m <= E[k]) /\ v \in Nat
      BY <1>3, <1>9, <1>10, <1>11, <1>13, <1>17
    <2>2. PICK p \in lo .. hi - 1 : v + m \in E[p] + 1 .. E[p + 1]
      BY <1>3, <2>1 DEF Covers
    <2>3. p # lo
      <3>1. ASSUME p = lo PROVE FALSE
        <4>1. v + m \in E[lo] + 1 .. E[k]
          BY <2>2, <3>1 DEF k
        <4> QED BY <1>6, <2>1, <4>1
      <3> QED BY <3>1
    <2>4. D[p] = E[p] - m /\ D[p + 1] = E[p + 1] - m /\ p \in k .. hi - 1 /\ E[p] \in Nat /\ E[p + 1] \in Nat
      BY <1>14, <1>16, <1>19, <2>3
    <2>5. v \in D[p] + 1 .. D[p + 1]
      BY <1>9, <2>1, <2>2, <2>4
    <2> QED BY <2>4, <2>5
  <1>22. ASSUME NEW p \in k .. hi - 1
         PROVE  /\ D[p + 1] = D[p] + Overhead + (C[p + 1] - C[p])
                /\ \A i \in 1 .. D[p + 1] - D[p] : w[D[p] + i] = Sealed(p, C[p + 1] - C[p], C[p], i)
    <2>1. p \in lo .. hi - 1 /\ p \in k .. hi /\ p + 1 \in k .. hi
      BY <1>0, <1>5
    <2>2. C[p] = B[p] /\ D[p] = E[p] - m /\ C[p + 1] = B[p + 1] /\ D[p + 1] = E[p + 1] - m
      BY <1>16, <2>1
    <2>3. E[p] \in Nat /\ E[p + 1] \in Nat /\ E[p] >= m /\ E[p + 1] <= Len(u) /\ B[p] \in Nat /\ B[p + 1] \in Nat
      BY <1>14, <2>1
    <2>4. /\ E[p + 1] = E[p] + Overhead + (B[p + 1] - B[p])
          /\ \A i \in 1 .. E[p + 1] - E[p] : u[E[p] + i] = Sealed(p, B[p + 1] - B[p], B[p], i)
      BY <1>1, <2>1 DEF Links
    <2> DEFINE e == E[p]
               f == E[p + 1]
               b == B[p]
               c == B[p + 1]
    <2>5. e \in Nat /\ f \in Nat /\ e >= m /\ f <= Len(u) /\ b \in Nat /\ c \in Nat
      BY <2>3
    <2>6. m \in Nat /\ Overhead \in Nat /\ Len(u) \in Nat
      BY <1>9, <1>13, Sizes
    <2>7. C[p] = b /\ D[p] = e - m /\ C[p + 1] = c /\ D[p + 1] = f - m
      BY <2>2
    <2>8. f = e + Overhead + (c - b) /\ \A i \in 1 .. f - e : u[e + i] = Sealed(p, c - b, b, i)
      BY <2>4
    <2> HIDE DEF e, f, b, c
    <2>9. f - m = (e - m) + Overhead + (c - b) /\ (f - m) - (e - m) = f - e
      BY <2>5, <2>6, <2>8, Shifted
    <2>10. ASSUME NEW i \in 1 .. f - e
           PROVE  w[(e - m) + i] = u[e + i]
      <3>1. (e - m) + i \in 1 .. Len(u) - m /\ m + ((e - m) + i) = e + i
        BY <2>5, <2>6, Within
      <3> QED BY <1>13, <3>1
    <2> QED BY <2>7, <2>8, <2>9, <2>10
  <1>23. Links(w, k, hi, a + n, z, C, D)
    BY <1>17, <1>18, <1>20, <1>21, <1>22 DEF Links
  <1>24. \E X, Y \in [k .. hi -> Nat] : Links(w, k, hi, a + n, z, X, Y)
    BY <1>15, <1>23
  <1>25. Chain(w, k, hi, a + n, z)
    BY <1>0, <1>5, <1>13, <1>24 DEF Chain
  <1>26. First(u, lo, hi, a, z, n)
    BY <1>4, <1>9, <1>11, <1>12, <1>25 DEF First, k, m, w
  <1> QED BY <1>9, <1>26

(* The ends of the data, and the data in order. *)
LEMMA ChainEnds ==
  ASSUME NEW u, NEW lo, NEW hi, NEW a \in Nat, NEW z \in Nat, Chain(u, lo, hi, a, z)
  PROVE  a <= z /\ (a = z => u = <<>>)
  <1>0. u \in Seq(Bytes) /\ lo \in Nat /\ hi \in Nat /\ lo <= hi
    BY DEF Chain
  <1>1. PICK B, E \in [lo .. hi -> Nat] : Links(u, lo, hi, a, z, B, E)
    BY DEF Chain
  <1>2. B[lo] = a /\ B[hi] = z /\ Rising(B, lo, hi)
    BY <1>1 DEF Links
  <1>3. lo \in lo .. hi /\ hi \in lo .. hi
    BY <1>0
  <1>4. a <= z
    BY <1>0, <1>1, <1>2, <1>3, RisingTo
  <1>5. ASSUME u # <<>> PROVE a # z
    <2>1. PICK n \in Nat \ {0} : First(u, lo, hi, a, z, n)
      BY <1>5, FirstOff
    <2> QED BY <2>1 DEF First
  <1> QED BY <1>4, <1>5

DataOf(u) == {i \in 1 .. Len(u) : u[i].val # 0}

Listed(u, a, z) ==
  /\ {u[i].val : i \in DataOf(u)} = a + 1 .. z
  /\ \A i, j \in DataOf(u) : i < j => u[i].val < u[j].val


LEMMA SealedVal ==
  ASSUME NEW p, NEW n \in Nat, NEW a \in Nat, NEW j \in Nat
  PROVE  /\ Sealed(p, n, a, j).val = IF j \in 3 .. 2 + n THEN a + j - 2 ELSE 0
         /\ Sealed(p, n, a, j).val # 0 => Sealed(p, n, a, j).val \in a + 1 .. a + n /\ Sealed(p, n, a, j).val = a + j - 2
  <1>1. Sealed(p, n, a, j).val = IF j \in 3 .. 2 + n THEN a + j - 2 ELSE 0
    BY Sizes DEF Sealed
  <1> DEFINE v == Sealed(p, n, a, j).val
  <1>2. v = IF j \in 3 .. 2 + n THEN a + j - 2 ELSE 0
    BY <1>1
  <1> HIDE DEF v
  <1>3. v # 0 => v \in a + 1 .. a + n /\ v = a + j - 2
    BY <1>2
  <1> QED BY <1>1, <1>3 DEF v

LEMMA InRange ==
  ASSUME NEW l \in Nat, NEW h \in Nat, NEW x \in l + 1 .. h
  PROVE  x \in Nat /\ l < x /\ x <= h
  OBVIOUS

LEMMA ChainListed ==
  ASSUME NEW u, NEW lo, NEW hi, NEW a \in Nat, NEW z \in Nat, Chain(u, lo, hi, a, z)
  PROVE  Listed(u, a, z)
  <1>0. u \in Seq(Bytes) /\ lo \in Nat /\ hi \in Nat /\ lo <= hi /\ Len(u) \in Nat
    BY DEF Chain
  <1>1. PICK B, E \in [lo .. hi -> Nat] : Links(u, lo, hi, a, z, B, E)
    BY DEF Chain
  <1>2. /\ B[lo] = a /\ B[hi] = z /\ E[lo] = 0 /\ E[hi] = Len(u)
        /\ Rising(B, lo, hi) /\ Rising(E, lo, hi) /\ Covers(B, lo, hi) /\ Covers(E, lo, hi)
    BY <1>1 DEF Links
  <1>3. ASSUME NEW p \in lo .. hi - 1
        PROVE  /\ p \in lo .. hi /\ p + 1 \in lo .. hi /\ p \in Nat
               /\ B[p] \in Nat /\ B[p + 1] \in Nat /\ E[p] \in Nat /\ E[p + 1] \in Nat
               /\ a <= B[p] /\ B[p + 1] <= z /\ B[p] < B[p + 1]
               /\ E[p + 1] <= Len(u) /\ E[p] < E[p + 1]
    <2>1. p \in lo .. hi /\ p + 1 \in lo .. hi /\ p \in Nat /\ lo \in lo .. hi /\ hi \in lo .. hi /\ lo <= p /\ p + 1 <= hi /\ p < p + 1
      BY <1>0
    <2>2. B[p] \in Nat /\ B[p + 1] \in Nat /\ E[p] \in Nat /\ E[p + 1] \in Nat
      BY <1>1, <2>1
    <2>3. B[lo] <= B[p] /\ B[p + 1] <= B[hi] /\ E[p + 1] <= E[hi]
      BY <1>0, <1>1, <1>2, <2>1, RisingTo
    <2>4. B[p] < B[p + 1] /\ E[p] < E[p + 1]
      BY <1>2, <2>1 DEF Rising
    <2> QED BY <1>2, <2>1, <2>2, <2>3, <2>4
  <1>4. ASSUME NEW p \in lo .. hi - 1, NEW j \in 1 .. E[p + 1] - E[p]
        PROVE  /\ E[p] + j \in 1 .. Len(u) /\ j \in Nat
               /\ u[E[p] + j].val = IF j \in 3 .. 2 + (B[p + 1] - B[p]) THEN B[p] + j - 2 ELSE 0
    <2> DEFINE e == E[p]
               f == E[p + 1]
               b == B[p]
               c == B[p + 1]
    <2>1. e \in Nat /\ f \in Nat /\ b \in Nat /\ c \in Nat /\ f <= Len(u) /\ b < c
      BY <1>3
    <2>2. u[e + j] = Sealed(p, c - b, b, j)
      BY <1>1 DEF Links
    <2> HIDE DEF e, f, b, c
    <2>3. j \in 1 .. f - e
      BY DEF e, f
    <2>4. e + j \in 1 .. Len(u) /\ j \in Nat /\ c - b \in Nat
      BY <1>0, <2>1, <2>3
    <2>5. u[e + j].val = IF j \in 3 .. 2 + (c - b) THEN b + j - 2 ELSE 0
      BY <2>1, <2>2, <2>4, SealedVal
    <2> QED BY <2>4, <2>5 DEF e, f, b, c
  <1>5. ASSUME NEW i \in 1 .. Len(u)
        PROVE  \E p \in lo .. hi - 1 : i \in E[p] + 1 .. E[p + 1]
    BY <1>0, <1>2 DEF Covers
  <1>6. ASSUME NEW i \in DataOf(u)
        PROVE  \E p \in lo .. hi - 1 :
                 /\ i \in E[p] + 1 .. E[p + 1] /\ u[i].val \in B[p] + 1 .. B[p + 1] /\ u[i].val = B[p] + (i - E[p]) - 2
    <2>1. i \in 1 .. Len(u) /\ u[i].val # 0
      BY DEF DataOf
    <2>2. PICK p \in lo .. hi - 1 : i \in E[p] + 1 .. E[p + 1]
      BY <1>5, <2>1
    <2> DEFINE j == i - E[p]
               n == B[p + 1] - B[p]
    <2>3. j \in 1 .. E[p + 1] - E[p] /\ E[p] + j = i
      BY <1>3, <2>2
    <2>4. n \in Nat /\ B[p] \in Nat /\ B[p + 1] = B[p] + n
      BY <1>3
    <2>5. j \in Nat /\ u[i].val = IF j \in 3 .. 2 + n THEN B[p] + j - 2 ELSE 0
      BY <1>4, <2>3
    <2> HIDE DEF j, n
    <2>6. u[i].val \in B[p] + 1 .. B[p] + n /\ u[i].val = B[p] + j - 2
      BY <2>1, <2>4, <2>5
    <2> QED BY <2>2, <2>4, <2>6 DEF j
  <1>7. ASSUME NEW v \in a + 1 .. z
        PROVE  \E i \in DataOf(u) : u[i].val = v
    <2>1. PICK p \in lo .. hi - 1 : v \in B[p] + 1 .. B[p + 1]
      BY <1>2 DEF Covers
    <2> DEFINE j == v - B[p] + 2
               n == B[p + 1] - B[p]
    <2>2. E[p + 1] = E[p] + Overhead + (B[p + 1] - B[p])
      BY <1>1 DEF Links
    <2>3. j \in 3 .. 2 + n /\ B[p] + j - 2 = v /\ v # 0
      BY <1>3, <2>1
    <2>4. j \in 1 .. E[p + 1] - E[p]
      <3>1. Overhead = 2 + TagSize /\ TagSize \in Nat
        BY Sizes DEF Overhead
      <3>2. E[p + 1] - E[p] = Overhead + n /\ n \in Nat
        <4> DEFINE e == E[p]
                   f == E[p + 1]
                   b == B[p]
                   c == B[p + 1]
        <4>1. e \in Nat /\ f \in Nat /\ b \in Nat /\ c \in Nat /\ b < c /\ f = e + Overhead + (c - b) /\ n = c - b
          BY <1>3, <2>2
        <4> HIDE DEF e, f, b, c, n
        <4>2. f - e = Overhead + n /\ n \in Nat
          BY <3>1, <4>1
        <4> QED BY <4>2 DEF e, f
      <3> HIDE DEF j, n
      <3> QED BY <2>3, <3>1, <3>2
    <2>5. E[p] + j \in 1 .. Len(u) /\ u[E[p] + j].val = IF j \in 3 .. 2 + n THEN B[p] + j - 2 ELSE 0
      BY <1>4, <2>4
    <2> HIDE DEF j, n
    <2>6. u[E[p] + j].val = v
      BY <2>3, <2>5
    <2> QED BY <2>3, <2>5, <2>6 DEF DataOf
  <1>8. {u[i].val : i \in DataOf(u)} = a + 1 .. z
    <2>1. ASSUME NEW i \in DataOf(u) PROVE u[i].val \in a + 1 .. z
      <3>1. PICK p \in lo .. hi - 1 : u[i].val \in B[p] + 1 .. B[p + 1]
        BY <1>6
      <3>2. B[p] \in Nat /\ B[p + 1] \in Nat /\ a <= B[p] /\ B[p + 1] <= z
        BY <1>3
      <3> QED BY <3>1, <3>2
    <2> QED BY <1>7, <2>1
  <1>9. ASSUME NEW i \in DataOf(u), NEW j \in DataOf(u), i < j
        PROVE  u[i].val < u[j].val
    <2>0. i \in Nat /\ j \in Nat
      BY <1>0 DEF DataOf
    <2>1. PICK p \in lo .. hi - 1 :
                 /\ i \in E[p] + 1 .. E[p + 1] /\ u[i].val \in B[p] + 1 .. B[p + 1] /\ u[i].val = B[p] + (i - E[p]) - 2
      BY <1>6
    <2>2. PICK q \in lo .. hi - 1 :
                 /\ j \in E[q] + 1 .. E[q + 1] /\ u[j].val \in B[q] + 1 .. B[q + 1] /\ u[j].val = B[q] + (j - E[q]) - 2
      BY <1>6
    <2>3. /\ p \in lo .. hi /\ p + 1 \in lo .. hi /\ q \in lo .. hi /\ q + 1 \in lo .. hi /\ p \in Nat /\ q \in Nat
          /\ B[p] \in Nat /\ B[p + 1] \in Nat /\ E[p] \in Nat /\ E[p + 1] \in Nat
          /\ B[q] \in Nat /\ B[q + 1] \in Nat /\ E[q] \in Nat /\ E[q + 1] \in Nat
      BY <1>3
    <2>7. E[p] < i /\ j <= E[q + 1]
      <3>1. E[p] < i
        BY <2>1, <2>3, InRange
      <3>2. j <= E[q + 1]
        BY <2>2, <2>3, InRange
      <3> QED BY <3>1, <3>2
    <2>8. u[i].val \in Nat /\ u[i].val <= B[p + 1] /\ u[j].val \in Nat /\ B[q] < u[j].val
      <3>1. u[i].val \in Nat /\ u[i].val <= B[p + 1]
        BY <2>1, <2>3, InRange
      <3>2. u[j].val \in Nat /\ B[q] < u[j].val
        BY <2>2, <2>3, InRange
      <3> QED BY <3>1, <3>2
    <2>4. ~(q < p)
      <3>1. ASSUME q < p PROVE FALSE
        <4>1. q + 1 <= p
          BY <2>3, <3>1
        <4>2. E[q + 1] <= E[p]
          BY <1>0, <1>1, <1>2, <2>3, <4>1, RisingTo
        <4> DEFINE e == E[p]
                   f == E[q + 1]
        <4>3. e < i /\ j <= f /\ f <= e /\ e \in Nat /\ f \in Nat
          BY <2>3, <2>7, <4>2
        <4> HIDE DEF e, f
        <4> QED BY <1>9, <2>0, <4>3
      <3> QED BY <3>1
    <2>5. CASE p = q
      <3> DEFINE e == E[p]
                 b == B[p]
                 v == u[i].val
                 w == u[j].val
      <3>1. v = b + (i - e) - 2 /\ w = b + (j - e) - 2 /\ e \in Nat /\ b \in Nat
        BY <2>1, <2>2, <2>3, <2>5
      <3> HIDE DEF e, b, v, w
      <3>2. v < w
        BY <1>9, <2>0, <3>1
      <3> QED BY <3>2 DEF v, w
    <2>6. CASE p < q
      <3>1. p + 1 <= q
        BY <2>3, <2>6
      <3>2. B[p + 1] <= B[q]
        BY <1>0, <1>1, <1>2, <2>3, <3>1, RisingTo
      <3> DEFINE c == B[p + 1]
                 b == B[q]
                 v == u[i].val
                 w == u[j].val
      <3>3. v <= c /\ b < w /\ c <= b /\ c \in Nat /\ b \in Nat /\ v \in Nat /\ w \in Nat
        BY <2>3, <2>8, <3>2
      <3> HIDE DEF c, b, v, w
      <3>4. v < w
        BY <3>3
      <3> QED BY <3>4 DEF v, w
    <2> QED BY <2>3, <2>4, <2>5, <2>6
  <1> QED BY <1>8, <1>9 DEF Listed

-----------------------------------------------------------------------------
(* Induction over the natural numbers, for a set given as such. *)
LEMMA SetInduction ==
  ASSUME NEW T, 0 \in T, \A n \in Nat : n \in T => n + 1 \in T
  PROVE  Nat \subseteq T
  <1> DEFINE R == {ss \in Nat \X Nat : ss[1] < ss[2]}
             U == Nat \ T
  <1>1. IsWellFoundedOn(R, Nat)
    <2>1. IsWellFoundedOn(OpToRel(<, Nat), Nat)
      BY NatLessThanWellFounded
    <2> QED BY <2>1 DEF OpToRel
  <1>2. SUFFICES ASSUME U # {} PROVE FALSE
    OBVIOUS
  <1>3. PICK x \in U : \A y \in U : ~(<<y, x>> \in R)
    <2> HIDE DEF R
    <2>1. U \subseteq Nat
      OBVIOUS
    <2> QED BY <1>1, <1>2, <2>1, WFMin
  <1>4. \A y \in U : ~(y < x)
    <2>1. \A y \in Nat : y < x => <<y, x>> \in R
      BY <1>3
    <2> HIDE DEF R
    <2> QED BY <1>3, <2>1
  <1>5. x # 0 /\ x - 1 \in Nat
    BY <1>3
  <1>6. x - 1 \in T
    BY <1>3, <1>4, <1>5
  <1> QED BY <1>3, <1>5, <1>6

(* What decrypt() has before its loop, and after each of m turns. *)
Turns(f, m, buf, count) == f = [n \in 0 .. m |-> IF n = 0 THEN Begun(buf, count) ELSE Open(f[n - 1])]

LEMMA TurnsExist ==
  ASSUME NEW buf, NEW count, NEW m \in Nat
  PROVE  \E f : Turns(f, m, buf, count)
  <1> DEFINE T == {k \in Nat : \E f : Turns(f, k, buf, count)}
  <1>1. 0 \in T
    <2> DEFINE f == [n \in 0 .. 0 |-> Begun(buf, count)]
    <2>1. Turns(f, 0, buf, count)
      BY DEF Turns
    <2> QED BY <2>1
  <1>2. ASSUME NEW k \in Nat, k \in T PROVE k + 1 \in T
    <2>1. PICK f : Turns(f, k, buf, count)
      BY <1>2
    <2> DEFINE g == [n \in 0 .. k + 1 |-> IF n = k + 1 THEN Open(f[k]) ELSE f[n]]
    <2>2. \A n \in 0 .. k + 1 : g[n] = IF n = 0 THEN Begun(buf, count) ELSE Open(g[n - 1])
      <3> SUFFICES ASSUME NEW n \in 0 .. k + 1 PROVE g[n] = IF n = 0 THEN Begun(buf, count) ELSE Open(g[n - 1])
        OBVIOUS
      <3>1. CASE n = k + 1
        BY <3>1
      <3>2. CASE n # k + 1
        <4>1. n \in 0 .. k /\ g[n] = f[n] /\ (n # 0 => n - 1 \in 0 .. k /\ g[n - 1] = f[n - 1])
          BY <3>2
        <4>2. f[n] = IF n = 0 THEN Begun(buf, count) ELSE Open(f[n - 1])
          BY <2>1, <4>1 DEF Turns
        <4> HIDE DEF g
        <4> QED BY <4>1, <4>2
      <3> QED BY <3>1, <3>2
    <2>3. Turns(g, k + 1, buf, count)
      BY <2>2 DEF Turns
    <2>4. \E h : Turns(h, k + 1, buf, count)
      BY <2>3
    <2> QED BY <2>4
  <1>3. m \in T
    <2> HIDE DEF T
    <2> QED BY <1>1, <1>2, SetInduction
  <1> QED BY <1>3

(* The bytes of data that follow number a. *)
From(s, a) == s \in Seq(Nat) /\ \A i \in 1 .. Len(s) : s[i] = a + i

(* What decrypt() has opened and what it has left of a stream with the data
   a + 1 .. z, of which rest has not come yet. *)
Sound(d, rest, hi, a, z) ==
  /\ d.ok = TRUE /\ d.count \in Nat /\ d.buf \in Seq(Bytes)
  /\ From(d.out, a)
  /\ Chain(d.buf \o rest, d.count + 1, hi, a + Len(d.out), z)

LEMMA SealedFields ==
  ASSUME NEW p, NEW n, NEW a, NEW i
  PROVE  Sealed(p, n, a, i).package = p /\ Sealed(p, n, a, i).size = n /\ Sealed(p, n, a, i).at = i
  BY DEF Sealed

LEMMA CutFront ==
  ASSUME NEW S, NEW u \in Seq(S), NEW k \in Seq(S), NEW m \in Nat, m <= Len(u)
  PROVE  SubSeq(u, m + 1, Len(u)) \o k = SubSeq(u \o k, m + 1, Len(u \o k))
  <1> DEFINE l == SubSeq(u, m + 1, Len(u))
             w == u \o k
             r == SubSeq(w, m + 1, Len(w))
  <1>1. /\ l \in Seq(S) /\ Len(l) = Len(u) - m /\ Len(u) \in Nat
        /\ \A i \in 1 .. Len(u) - m : l[i] = u[m + i]
    BY CutIs
  <1> HIDE DEF l
  <1>2. /\ w \in Seq(S) /\ Len(w) = Len(u) + Len(k) /\ Len(k) \in Nat
        /\ \A i \in 1 .. Len(u) : w[i] = u[i]
        /\ \A i \in 1 .. Len(k) : w[Len(u) + i] = k[i]
    BY JoinIs
  <1> HIDE DEF w
  <1>3. m <= Len(w)
    BY <1>1, <1>2
  <1>4. /\ r \in Seq(S) /\ Len(r) = Len(w) - m
        /\ \A i \in 1 .. Len(w) - m : r[i] = w[m + i]
    BY <1>2, <1>3, CutIs
  <1> HIDE DEF r
  <1>5. l \in Seq(S)
    BY <1>1
  <1> DEFINE j == l \o k
  <1>6. /\ j \in Seq(S) /\ Len(j) = Len(l) + Len(k) /\ Len(l) \in Nat /\ Len(k) \in Nat
        /\ \A i \in 1 .. Len(l) : j[i] = l[i]
        /\ \A i \in 1 .. Len(k) : j[Len(l) + i] = k[i]
    BY <1>5, JoinIs
  <1> HIDE DEF j
  <1>7. Len(j) = Len(r)
    BY <1>1, <1>2, <1>4, <1>6
  <1>8. ASSUME NEW i \in 1 .. Len(j) PROVE j[i] = r[i]
    <2>1. r[i] = w[m + i]
      BY <1>4, <1>7, <1>8
    <2>2. CASE i <= Len(l)
      <3>1. i \in 1 .. Len(l) /\ m + i \in 1 .. Len(u)
        BY <1>1, <1>6, <1>8, <2>2
      <3>2. j[i] = l[i] /\ l[i] = u[m + i] /\ w[m + i] = u[m + i]
        BY <1>1, <1>2, <1>6, <3>1
      <3> QED BY <2>1, <3>2
    <2>3. CASE ~(i <= Len(l))
      <3> DEFINE q == i - Len(l)
      <3>1. q \in 1 .. Len(k) /\ i = Len(l) + q /\ m + i = Len(u) + q
        BY <1>1, <1>2, <1>6, <1>8, <2>3
      <3> HIDE DEF q
      <3>2. j[i] = k[q] /\ w[m + i] = k[q]
        BY <1>2, <1>6, <3>1
      <3> QED BY <2>1, <3>2
    <2> QED BY <2>2, <2>3
  <1>9. j = r
    BY <1>4, <1>6, <1>7, <1>8, SeqEqual
  <1> QED BY <1>9 DEF j, l, r, w

LEMMA CountOn ==
  ASSUME NEW a \in Nat, NEW s, NEW t, From(s, a), From(t, a + Len(s))
  PROVE  From(s \o t, a) /\ Len(s \o t) = Len(s) + Len(t) /\ Len(s) \in Nat /\ Len(t) \in Nat
  <1> DEFINE w == s \o t
  <1>0. s \in Seq(Nat) /\ t \in Seq(Nat)
    BY DEF From
  <1>1. /\ w \in Seq(Nat) /\ Len(w) = Len(s) + Len(t) /\ Len(s) \in Nat /\ Len(t) \in Nat
        /\ \A i \in 1 .. Len(s) : w[i] = s[i]
        /\ \A i \in 1 .. Len(t) : w[Len(s) + i] = t[i]
    BY <1>0, JoinIs
  <1> HIDE DEF w
  <1>2. ASSUME NEW i \in 1 .. Len(w) PROVE w[i] = a + i
    <2>1. CASE i <= Len(s)
      <3>1. i \in 1 .. Len(s)
        BY <1>1, <1>2, <2>1
      <3> QED BY <1>1, <3>1 DEF From
    <2>2. CASE ~(i <= Len(s))
      <3> DEFINE q == i - Len(s)
      <3>1. q \in 1 .. Len(t) /\ Len(s) + q = i /\ a + Len(s) + q = a + i
        BY <1>1, <1>2, <2>2
      <3> HIDE DEF q
      <3>2. t[q] = a + Len(s) + q
        BY <3>1 DEF From
      <3> QED BY <1>1, <3>1, <3>2
    <2> QED BY <2>1, <2>2
  <1> QED BY <1>1, <1>2 DEF w, From

LEMMA OpenSound ==
  ASSUME NEW d, NEW rest \in Seq(Bytes), NEW hi, NEW a \in Nat, NEW z \in Nat, Sound(d, rest, hi, a, z)
  PROVE  Sound(Open(d), rest, hi, a, z)
  <1> DEFINE buf == d.buf
             out == d.out
             c == d.count
             u == buf \o rest
             b == a + Len(out)
  <1>1. d.ok = TRUE /\ c \in Nat /\ buf \in Seq(Bytes) /\ From(out, a) /\ Chain(u, c + 1, hi, b, z)
    BY DEF Sound
  <1>2. CASE ~Complete(buf)
    <2>1. Open(d) = d
      BY <1>2 DEF Open
    <2> QED BY <2>1
  <1>3. CASE Complete(buf)
    <2> HIDE DEF buf, out, c, u, b
    <2>1. Len(buf) \in Nat /\ Len(out) \in Nat /\ b \in Nat /\ Len(buf) >= 2
      BY <1>1, <1>3, Sizes DEF Complete, b, From
    <2>2. /\ u \in Seq(Bytes) /\ Len(u) = Len(buf) + Len(rest) /\ Len(rest) \in Nat
          /\ \A i \in 1 .. Len(buf) : u[i] = buf[i]
      BY <1>1, JoinIs DEF u
    <2>3. u # <<>>
      BY <2>1, <2>2
    <2>4. PICK n \in Nat \ {0} : First(u, c + 1, hi, b, z, n)
      BY <1>1, <2>1, <2>3, FirstOff
    <2> DEFINE m == Overhead + n
    <2>5. /\ b + n <= z /\ \A i \in 1 .. m : u[i] = Sealed(c + 1, n, b, i)
          /\ Chain(SubSeq(u, m + 1, Len(u)), c + 1 + 1, hi, b + n, z)
      BY <2>4 DEF First
    <2>6. m \in Nat /\ m >= 2 + n /\ m = LengthSize + n + TagSize /\ LengthSize = 2
      BY Sizes DEF Overhead
    <2> HIDE DEF m
    <2>7. Head(buf).size = n
      <3>1. 1 \in 1 .. m /\ 1 \in 1 .. Len(buf) /\ Head(buf) = buf[1]
        BY <1>1, <2>1, <2>6
      <3>2. Head(buf) = Sealed(c + 1, n, b, 1)
        BY <2>2, <2>5, <3>1
      <3> QED BY <3>2 DEF Sealed
    <2>8. m <= Len(buf)
      BY <1>3, <2>1, <2>6, <2>7 DEF Complete
    <2>9. \A i \in 1 .. m : buf[i] = Sealed(c + 1, n, b, i)
      BY <2>1, <2>2, <2>5, <2>6, <2>8
    <2>10. Genuine(buf, c)
      <3>1. LengthSize + Head(buf).size + TagSize = m
        BY <2>6, <2>7
      <3>2. \A i \in 1 .. m : buf[i].package = c + 1 /\ buf[i].at = i
        BY <2>9, SealedFields
      <3> QED BY <3>1, <3>2 DEF Genuine
    <2> DEFINE t == [i \in 1 .. n |-> buf[LengthSize + i].val]
               left == SubSeq(buf, m + 1, Len(buf))
    <2>11. \A i \in 1 .. n : buf[LengthSize + i].val = b + i
      <3> SUFFICES ASSUME NEW i \in 1 .. n PROVE buf[LengthSize + i].val = b + i
        OBVIOUS
      <3>1. LengthSize + i \in 1 .. m /\ LengthSize + i \in 3 .. 2 + n /\ LengthSize + i \in Nat /\ b + (LengthSize + i) - 2 = b + i
        BY <2>1, <2>6
      <3> DEFINE j == LengthSize + i
      <3>2. buf[j] = Sealed(c + 1, n, b, j)
        BY <2>9, <3>1
      <3>3. Sealed(c + 1, n, b, j).val = IF j \in 3 .. 2 + n THEN b + j - 2 ELSE 0
        BY <2>1, <3>1, SealedVal
      <3> QED BY <3>1, <3>2, <3>3
    <2>12. t \in Seq(Nat) /\ Len(t) = n /\ \A i \in 1 .. n : t[i] = b + i
      <3>1. t \in [1 .. n -> Nat] /\ \A i \in 1 .. n : t[i] = b + i
        BY <2>1, <2>11
      <3> HIDE DEF t
      <3> QED BY <3>1, IsSeqOf
    <2>13. Open(d) = [ok |-> TRUE, count |-> c + 1, buf |-> left, out |-> out \o t]
      <3>1. d.buf = buf /\ d.out = out /\ d.count = c
        BY DEF buf, out, c
      <3>2. Open(d) = [ok |-> Genuine(buf, c), count |-> c + 1,
                       buf |-> SubSeq(buf, LengthSize + n + TagSize + 1, Len(buf)),
                       out |-> IF Genuine(buf, c) THEN out \o t ELSE out]
        BY <1>1, <1>3, <2>7, <3>1 DEF Open
      <3>3. Genuine(buf, c) = TRUE
        BY <2>10 DEF Genuine
      <3> QED BY <2>6, <3>2, <3>3
    <2>14. From(out \o t, a) /\ Len(out \o t) = Len(out) + n
      <3> HIDE DEF t
      <3>1. From(t, a + Len(out))
        BY <2>12 DEF b, From
      <3>2. From(out, a) /\ Len(t) = n
        BY <1>1, <2>12
      <3> QED BY <3>1, <3>2, CountOn
    <2>15. left \in Seq(Bytes)
      BY <1>1, <2>6, <2>8, CutIs
    <2>16. left \o rest = SubSeq(u, m + 1, Len(u))
      BY <1>1, <2>6, <2>8, CutFront DEF u
    <2>17. a + (Len(out) + n) = b + n /\ c + 1 \in Nat
      BY <1>1, <2>1 DEF b
    <2> HIDE DEF t, left
    <2> DEFINE o == out \o t
               e == Open(d)
    <2>18. e.ok = TRUE /\ e.count = c + 1 /\ e.buf = left /\ e.out = o
      BY <2>13
    <2>19. From(o, a) /\ a + Len(o) = b + n
      BY <2>14, <2>17
    <2>20. Chain(left \o rest, c + 1 + 1, hi, a + Len(o), z)
      BY <2>5, <2>16, <2>19
    <2> HIDE DEF o, e
    <2>21. Sound(e, rest, hi, a, z)
      BY <2>15, <2>17, <2>18, <2>19, <2>20 DEF Sound
    <2> QED BY <2>21 DEF e
  <1> QED BY <1>2, <1>3

(* The packages an honest server has sent open, and what is left of its
   stream is still whole. *)
LEMMA DecryptSound ==
  ASSUME NEW buf \in Seq(Bytes), NEW count \in Nat, NEW rest \in Seq(Bytes), NEW hi, NEW a \in Nat, NEW z \in Nat,
         Chain(buf \o rest, count + 1, hi, a, z)
  PROVE  Sound(Decrypt(buf, count), rest, hi, a, z)
  <1> DEFINE m == Len(buf) \div (LengthSize + TagSize)
             f == CHOOSE g : Turns(g, m, buf, count)
  <1>1. m \in Nat
    <2>1. Len(buf) \in Nat
      OBVIOUS
    <2> DEFINE k == Len(buf)
               o == LengthSize + TagSize
    <2>2. k \in Nat /\ o \in Nat \ {0}
      BY <2>1, Sizes
    <2> HIDE DEF k, o
    <2>3. k \div o \in Nat
      BY <2>2
    <2> QED BY <2>3 DEF k, o
  <1>2. Decrypt(buf, count) = f[m]
    BY DEF Decrypt, Turns
  <1> HIDE DEF m
  <1>3. Turns(f, m, buf, count)
    BY <1>1, TurnsExist
  <1> HIDE DEF f
  <1>4. \A n \in 0 .. m : f[n] = IF n = 0 THEN Begun(buf, count) ELSE Open(f[n - 1])
    BY <1>3 DEF Turns
  <1>5. Sound(Begun(buf, count), rest, hi, a, z)
    <2>1. a + Len(<<>>) = a /\ From(<<>>, a)
      BY DEF From
    <2> QED BY <2>1 DEF Sound, Begun
  <1> DEFINE T == {n \in Nat : n <= m => Sound(f[n], rest, hi, a, z)}
  <1>6. 0 \in T
    BY <1>1, <1>4, <1>5
  <1>7. ASSUME NEW n \in Nat, n \in T PROVE n + 1 \in T
    <2>1. SUFFICES ASSUME n + 1 <= m PROVE Sound(f[n + 1], rest, hi, a, z)
      OBVIOUS
    <2>2. n <= m /\ n + 1 \in 0 .. m /\ n + 1 # 0 /\ (n + 1) - 1 = n
      BY <1>1, <2>1
    <2>3. f[n + 1] = Open(f[n])
      BY <1>4, <2>2
    <2>4. Sound(f[n], rest, hi, a, z)
      BY <1>7, <2>2
    <2> QED BY <2>3, <2>4, OpenSound
  <1>8. m \in T
    <2> HIDE DEF T
    <2> QED BY <1>1, <1>6, <1>7, SetInduction
  <1> QED BY <1>1, <1>2, <1>8

-----------------------------------------------------------------------------
(* The credentials, written one after the other. *)
Sums(f, m) == f = [i \in 0 .. m |-> IF i = 0 THEN 0 ELSE f[i - 1] + CredentialSizes[i]]

LEMMA SumsExist ==
  ASSUME NEW m \in Nat
  PROVE  \E f : Sums(f, m)
  <1> DEFINE T == {k \in Nat : \E f : Sums(f, k)}
  <1>1. 0 \in T
    <2> DEFINE f == [n \in 0 .. 0 |-> 0]
    <2>1. Sums(f, 0)
      BY DEF Sums
    <2> QED BY <2>1
  <1>2. ASSUME NEW k \in Nat, k \in T PROVE k + 1 \in T
    <2>1. PICK f : Sums(f, k)
      BY <1>2
    <2> DEFINE g == [n \in 0 .. k + 1 |-> IF n = k + 1 THEN f[k] + CredentialSizes[k + 1] ELSE f[n]]
    <2>2. \A n \in 0 .. k + 1 : g[n] = IF n = 0 THEN 0 ELSE g[n - 1] + CredentialSizes[n]
      <3> SUFFICES ASSUME NEW n \in 0 .. k + 1 PROVE g[n] = IF n = 0 THEN 0 ELSE g[n - 1] + CredentialSizes[n]
        OBVIOUS
      <3>1. CASE n = k + 1
        BY <3>1
      <3>2. CASE n # k + 1
        <4>1. n \in 0 .. k /\ g[n] = f[n] /\ (n # 0 => n - 1 \in 0 .. k /\ g[n - 1] = f[n - 1])
          BY <3>2
        <4>2. f[n] = IF n = 0 THEN 0 ELSE f[n - 1] + CredentialSizes[n]
          BY <2>1, <4>1 DEF Sums
        <4> HIDE DEF g
        <4> QED BY <4>1, <4>2
      <3> QED BY <3>1, <3>2
    <2>3. Sums(g, k + 1)
      BY <2>2 DEF Sums
    <2>4. \E h : Sums(h, k + 1)
      BY <2>3
    <2> QED BY <2>4
  <1>3. m \in T
    <2> HIDE DEF T
    <2> QED BY <1>1, <1>2, SetInduction
  <1> QED BY <1>3

LEMMA CredentialsAre ==
  /\ Len(CredentialSizes) \in Nat \ {0} /\ CredentialSizes \in Seq(Nat)
  /\ CredentialsUpTo[0] = 0 /\ CredentialsUpTo[1] = 1
  /\ \A i \in 0 .. Len(CredentialSizes) : CredentialsUpTo[i] \in Nat /\ CredentialsUpTo[i] <= CredentialsUpTo[Len(CredentialSizes)]
  /\ \A i \in 1 .. Len(CredentialSizes) : CredentialsUpTo[i] = CredentialsUpTo[i - 1] + CredentialSizes[i]
  <1> DEFINE m == Len(CredentialSizes)
             f == CHOOSE g : Sums(g, m)
  <1>0. CredentialSizes \in Seq(Nat) /\ CredentialSizes # <<>> /\ Head(CredentialSizes) = 1
    BY SizesAssumption
  <1>1. m \in Nat \ {0} /\ CredentialSizes[1] = 1 /\ \A i \in 1 .. m : CredentialSizes[i] \in Nat
    BY <1>0
  <1>2. CredentialsUpTo = f
    BY DEF CredentialsUpTo, Sums
  <1> HIDE DEF m
  <1>3. Sums(f, m)
    BY <1>1, SumsExist
  <1> HIDE DEF f
  <1>4. \A n \in 0 .. m : f[n] = IF n = 0 THEN 0 ELSE f[n - 1] + CredentialSizes[n]
    BY <1>3 DEF Sums
  <1>5. f[0] = 0 /\ f[1] = 1
    BY <1>1, <1>4
  <1> DEFINE T == {n \in Nat : n <= m => f[n] \in Nat /\ \A i \in 0 .. n : f[i] \in Nat /\ f[i] <= f[n]}
  <1>6. 0 \in T
    BY <1>1, <1>5
  <1>7. ASSUME NEW n \in Nat, n \in T PROVE n + 1 \in T
    <2>1. SUFFICES ASSUME n + 1 <= m PROVE f[n + 1] \in Nat /\ \A i \in 0 .. n + 1 : f[i] \in Nat /\ f[i] <= f[n + 1]
      OBVIOUS
    <2>2. n + 1 \in 0 .. m /\ n + 1 # 0 /\ (n + 1) - 1 = n /\ n + 1 \in 1 .. m /\ n <= m
      BY <1>1, <2>1
    <2>3. f[n + 1] = f[n] + CredentialSizes[n + 1] /\ CredentialSizes[n + 1] \in Nat
      BY <1>1, <1>4, <2>2
    <2>4. f[n] \in Nat /\ \A i \in 0 .. n : f[i] \in Nat /\ f[i] <= f[n]
      BY <1>7, <2>2
    <2> DEFINE x == f[n]
               y == f[n + 1]
    <2>5. y = x + CredentialSizes[n + 1] /\ x \in Nat
      BY <2>3, <2>4
    <2>6. y \in Nat /\ x <= y
      <3> HIDE DEF x, y
      <3> QED BY <2>3, <2>5
    <2>7. ASSUME NEW i \in 0 .. n + 1 PROVE f[i] \in Nat /\ f[i] <= y
      <3>1. CASE i = n + 1
        BY <2>6, <3>1
      <3>2. CASE i # n + 1
        <4>1. i \in 0 .. n /\ i <= m
          BY <1>1, <2>2, <3>2
        <4>2. f[i] \in Nat /\ f[i] <= x
          BY <2>4, <4>1
        <4> HIDE DEF x, y
        <4> QED BY <2>5, <2>6, <4>2
      <3> QED BY <3>1, <3>2
    <2> QED BY <2>6, <2>7
  <1>8. \A n \in Nat : n \in T
    <2> HIDE DEF T
    <2> QED BY <1>6, <1>7, SetInduction
  <1>9. \A n \in 0 .. m : f[n] \in Nat /\ f[n] <= f[m]
    BY <1>1, <1>8
  <1>10. \A i \in 1 .. m : f[i] = f[i - 1] + CredentialSizes[i]
    BY <1>4
  <1> QED BY <1>0, <1>1, <1>2, <1>5, <1>9, <1>10 DEF m

(* All a server gets in a login that asks for credentials. *)
LEMMA LoginIs ==
  ASSUME subtype = "credentials"
  PROVE  /\ LoginBytes = HashSize + CredentialsUpTo[Len(CredentialSizes)]
         /\ HashSize \in Nat \ {0} /\ LoginBytes \in Nat /\ LoginBytes > HashSize
  <1> DEFINE m == Len(CredentialSizes)
             e == CredentialsUpTo[m]
             h == HashSize
  <1>1. m \in Nat \ {0} /\ e \in Nat /\ 1 <= e /\ h \in Nat \ {0}
    BY CredentialsAre, SizesAssumption
  <1>2. LoginBytes = h + e
    BY DEF LoginBytes
  <1> HIDE DEF m, e, h
  <1>3. h + e \in Nat /\ h + e > h
    BY <1>1
  <1> QED BY <1>1, <1>2, <1>3 DEF m, e, h

-----------------------------------------------------------------------------
(* What is written: h is what the server has got, up to byte w, and each
   package, or byte, of it is the one due. *)
Units == [nonce : Int, size : Nat, vals : Seq(Nat)]

UpTo(h, i) == IF i = 0 THEN 0 ELSE h[i].vals[Len(h[i].vals)]

(* The unit numbered i, after byte b, where enc says whether the stream stays
   encrypted after byte login. *)
Due(unit, b, i, enc, login) ==
  /\ unit.size = Len(unit.vals) /\ unit.vals # <<>>
  /\ unit.vals = [j \in 1 .. Len(unit.vals) |-> b + j]
  /\ unit.nonce = IF ~enc /\ b >= login THEN -1 ELSE i - 1

Arrived(h, w, enc, login) ==
  /\ h \in Seq(Units) /\ UpTo(h, Len(h)) = w
  /\ \A i \in 1 .. Len(h) : Due(h[i], UpTo(h, i - 1), i, enc, login)

(* writes is what is left of the credentials from the i-th on. *)
Left(i) ==
  /\ Len(writes) = Len(CredentialSizes) - i + 1
  /\ nwritten + writes[1] = HashSize + CredentialsUpTo[i]
  /\ \A j \in 2 .. Len(writes) : writes[j] = CredentialSizes[i + j - 1]

Steps == {"start", "hash", "subtype", "credentials", "agreed", "result"}

(* What both sides agree on at each step. *)
StepInv ==
  /\ step \in Steps /\ server \in ServerLogin
  /\ encrypted \in BOOLEAN /\ provider \in BOOLEAN /\ subtype = "credentials"
  /\ provider = (step \in {"agreed", "result"} => encrypted)
  /\ server = "result" => step \in {"credentials", "agreed", "result"}

WritePlaces ==
  /\ step = "start" =>
       \/ writes = <<>> /\ nwritten = HashSize
       \/ read = "idle" /\ Len(writes) = 1 /\ nwritten + writes[1] = HashSize
  /\ step \in {"hash", "subtype"} => writes = <<>> /\ nwritten = HashSize
  /\ step = "credentials" =>
       \/ writes = <<>> /\ nwritten = LoginBytes
       \/ \E i \in 1 .. Len(CredentialSizes) : Left(i)
  /\ step = "agreed" => writes = <<>>
  /\ step \in {"agreed", "result"} => nwritten >= LoginBytes

WriteInv ==
  /\ writes \in Seq(Nat) /\ nwritten \in Nat /\ encCount \in Nat
  /\ Arrived(heard, nwritten, encrypted, LoginBytes)
  /\ provider => encCount = Len(heard)
  /\ WritePlaces

(* Bytes sent as they are, after number a and up to z. *)
Clear(w, a, z) == w \in Seq(Bytes) /\ z = a + Len(w) /\ \A i \in 1 .. Len(w) : w[i].val = a + i

ReadTypes ==
  /\ wire \in Seq(Bytes) /\ decryptBuf \in Seq(Bytes)
  /\ From(got, 0) /\ From(remaining, Len(got))
  /\ counter \in Nat /\ npackage \in Nat /\ nsent \in Nat /\ want \in Nat
  /\ read \in {"idle", "active", "reset"}

(* What has been sent, and what has been read, at each step. *)
Places ==
  /\ server = "start" => nsent = 0
  /\ server = "hash" => nsent = HashSize
  /\ server = "subtype" => nsent = HashSize + 1
  /\ server = "result" => nsent >= HashSize + 1
  /\ step = "start" => IF read = "idle" THEN got = <<>> ELSE Len(got) + want = HashSize
  /\ step = "hash" => IF read = "idle" THEN Len(got) = HashSize ELSE Len(got) + want = HashSize + 1
  /\ step \in {"subtype", "credentials"} => read = "idle" /\ Len(got) = HashSize + 1
  /\ step \in {"agreed", "result"} => Len(got) >= HashSize + 1

(* All of it is in order, in packages up to where the two have agreed to go
   on without, and nothing is left behind when they do. *)
Stream ==
  /\ IF server # "result" \/ encrypted
     THEN Chain(decryptBuf \o wire, counter + 1, npackage + 1, Len(got) + Len(remaining), nsent)
     ELSE decryptBuf = <<>> /\ remaining = <<>> /\ Clear(wire, Len(got), nsent)
  /\ ~provider => decryptBuf = <<>> /\ remaining = <<>> /\ (server # "result" => wire = <<>>)

ReadInv == ReadTypes /\ Places /\ Stream

IInv == StepInv /\ WriteInv /\ ReadInv

LEMMA DueEnds ==
  ASSUME NEW unit \in Units, NEW b \in Nat, NEW i, NEW enc, NEW login, Due(unit, b, i, enc, login)
  PROVE  /\ Len(unit.vals) \in Nat \ {0} /\ unit.vals[Len(unit.vals)] = b + Len(unit.vals)
  <1> DEFINE v == unit.vals
             n == Len(v)
  <1>1. v \in Seq(Nat) /\ v # <<>> /\ v = [j \in 1 .. n |-> b + j]
    BY DEF Due, Units
  <1>2. n \in Nat \ {0}
    BY <1>1
  <1> HIDE DEF v, n
  <1>3. v[n] = b + n
    BY <1>1, <1>2
  <1> QED BY <1>2, <1>3 DEF v, n

(* B[j] is the byte that j of the new units end with. *)
LEMMA Joined ==
  ASSUME NEW h, NEW w \in Nat, NEW enc, NEW login, Arrived(h, w, enc, login),
         NEW new \in Seq(Units), NEW B \in [0 .. Len(new) -> Nat], B[0] = w,
         \A j \in 1 .. Len(new) :
           Due(new[j], B[j - 1], Len(h) + j, enc, login) /\ B[j] = B[j - 1] + Len(new[j].vals)
  PROVE  Arrived(h \o new, B[Len(new)], enc, login)
  <1> DEFINE k == h \o new
             n == Len(h)
             q == Len(new)
  <1>1. h \in Seq(Units) /\ UpTo(h, n) = w /\ \A i \in 1 .. n : Due(h[i], UpTo(h, i - 1), i, enc, login)
    BY DEF Arrived
  <1>2. /\ k \in Seq(Units) /\ Len(k) = n + q /\ n \in Nat /\ q \in Nat
        /\ \A i \in 1 .. n : k[i] = h[i]
        /\ \A i \in 1 .. q : k[n + i] = new[i]
    BY <1>1, JoinIs
  <1>3. \A j \in 1 .. q : Due(new[j], B[j - 1], n + j, enc, login) /\ B[j] = B[j - 1] + Len(new[j].vals)
    OBVIOUS
  <1>4. B \in [0 .. q -> Nat] /\ \A j \in 1 .. q : new[j] \in Units
    OBVIOUS
  <1> HIDE DEF k, n, q
  <1>5. ASSUME NEW i \in 0 .. n PROVE UpTo(k, i) = UpTo(h, i)
    BY <1>2 DEF UpTo
  <1>6. ASSUME NEW j \in 0 .. q PROVE UpTo(k, n + j) = B[j]
    <2>1. CASE j = 0
      <3>1. n \in 0 .. n /\ n + j = n
        BY <1>2, <2>1
      <3> QED BY <1>1, <1>5, <2>1, <3>1
    <2>2. CASE j # 0
      <3>1. j \in 1 .. q /\ j - 1 \in 0 .. q /\ n + j # 0
        BY <1>2, <2>2
      <3>2. k[n + j] = new[j] /\ new[j] \in Units /\ B[j - 1] \in Nat
        BY <1>2, <1>4, <3>1
      <3>3. new[j].vals[Len(new[j].vals)] = B[j - 1] + Len(new[j].vals)
        BY <1>3, <3>1, <3>2, DueEnds
      <3> QED BY <1>3, <3>1, <3>2, <3>3 DEF UpTo
    <2> QED BY <2>1, <2>2
  <1>7. ASSUME NEW i \in 1 .. Len(k) PROVE Due(k[i], UpTo(k, i - 1), i, enc, login)
    <2>1. CASE i <= n
      <3>1. i \in 1 .. n /\ i - 1 \in 0 .. n
        BY <1>2, <2>1
      <3>2. k[i] = h[i] /\ UpTo(k, i - 1) = UpTo(h, i - 1)
        BY <1>2, <1>5, <3>1
      <3> QED BY <1>1, <3>1, <3>2
    <2>2. CASE ~(i <= n)
      <3> DEFINE j == i - n
      <3>0. i \in 1 .. n + q /\ n \in Nat /\ q \in Nat
        BY <1>2
      <3>1. j \in 1 .. q /\ j - 1 \in 0 .. q /\ i = n + j /\ i - 1 = n + (j - 1)
        BY <2>2, <3>0
      <3> HIDE DEF j
      <3>2. k[i] = new[j] /\ UpTo(k, i - 1) = B[j - 1]
        BY <1>2, <1>6, <3>1
      <3> QED BY <1>3, <3>1, <3>2
    <2> QED BY <2>1, <2>2
  <1>8. q \in 0 .. q /\ UpTo(k, Len(k)) = B[q]
    BY <1>2, <1>6
  <1>9. Arrived(k, B[q], enc, login)
    BY <1>2, <1>7, <1>8 DEF Arrived
  <1> QED BY <1>9 DEF k, q

(* The pieces encrypt() makes of n bytes: piece j begins after (j - 1) * m
   of them, and the last one ends with them. *)
LEMMA Division ==
  ASSUME NEW n \in Nat, NEW m \in Nat \ {0}
  PROVE  LET q == (n + m - 1) \div m
         IN  q \in Nat /\ q * m >= n /\ (q - 1) * m < n
  <1> DEFINE x == n + m - 1
             q == x \div m
  <1>1. x \in Nat
    OBVIOUS
  <1> HIDE DEF x
  <1>2. q \in Nat /\ x = q * m + (x % m) /\ (x % m) \in 0 .. m - 1
    BY <1>1
  <1> DEFINE r == x % m
             p == q * m
  <1>3. p \in Nat /\ (q - 1) * m = p - m
    BY <1>2
  <1>4. x = p + r /\ r \in 0 .. m - 1
    BY <1>2
  <1> HIDE DEF r, p
  <1>5. p >= n /\ p - m < n
    BY <1>3, <1>4 DEF x
  <1> QED BY <1>2, <1>3, <1>5 DEF p, x

LEMMA Times ==
  ASSUME NEW i \in Nat, NEW j \in Nat, i <= j, NEW m \in Nat
  PROVE  i * m \in Nat /\ i * m <= j * m
  <1>1. PICK d \in Nat : j = i + d
    <2>1. j - i \in Nat /\ j = i + (j - i)
      OBVIOUS
    <2> QED BY <2>1
  <1>2. j * m = i * m + d * m /\ d * m \in Nat /\ i * m \in Nat
    BY <1>1
  <1> DEFINE x == i * m
             y == d * m
             z == j * m
  <1>3. z = x + y /\ y \in Nat /\ x \in Nat
    BY <1>2
  <1> HIDE DEF x, y, z
  <1>4. x <= z
    BY <1>3
  <1> QED BY <1>3, <1>4 DEF x, z

LEMMA PiecesAre ==
  ASSUME NEW bytes \in Seq(Nat)
  PROVE  /\ Pieces(bytes) \in Nat
         /\ Least(Pieces(bytes) * MaxPackage, Len(bytes)) = Len(bytes)
         /\ \A j \in 1 .. Pieces(bytes) : (j - 1) * MaxPackage \in Nat /\ (j - 1) * MaxPackage < Len(bytes)
  <1> DEFINE n == Len(bytes)
             m == MaxPackage
             q == Pieces(bytes)
  <1>1. n \in Nat /\ m \in Nat \ {0}
    BY SizesAssumption
  <1>2. q = (n + m - 1) \div m
    BY DEF Pieces
  <1> HIDE DEF n, m, q
  <1>3. q \in Nat /\ q * m >= n /\ (q - 1) * m < n
    BY <1>1, <1>2, Division
  <1>4. Least(q * m, n) = n
    <2> DEFINE p == q * m
    <2>1. p \in Int
      BY <1>1, <1>3
    <2>2. p >= n
      BY <1>3
    <2> HIDE DEF p
    <2>3. Least(p, n) = n
      BY <1>1, <2>1, <2>2 DEF Least
    <2> QED BY <2>3 DEF p
  <1>5. ASSUME NEW j \in 1 .. q PROVE (j - 1) * m \in Nat /\ (j - 1) * m < n
    <2>1. j - 1 \in Nat /\ q - 1 \in Nat /\ j - 1 <= q - 1
      BY <1>3
    <2>2. (j - 1) * m \in Nat /\ (j - 1) * m <= (q - 1) * m
      BY <1>1, <2>1, Times
    <2> DEFINE x == (j - 1) * m
               y == (q - 1) * m
    <2>3. x \in Nat /\ x <= y /\ y < n
      BY <1>3, <2>2
    <2>4. y \in Int
      BY <1>1, <2>1
    <2> HIDE DEF x, y
    <2>5. x < n
      BY <1>1, <2>3, <2>4
    <2> QED BY <2>2, <2>5 DEF x
  <1> QED BY <1>3, <1>4, <1>5 DEF n, m, q

Count(a, n) == [i \in 1 .. n |-> a + i]

LEMMA Part ==
  ASSUME NEW s, NEW a \in Nat, From(s, a), NEW e \in Nat, NEW g \in Nat, e <= g, g <= Len(s)
  PROVE  /\ From(SubSeq(s, e + 1, g), a + e) /\ Len(SubSeq(s, e + 1, g)) = g - e
         /\ SubSeq(s, e + 1, g) = Count(a + e, g - e)
  <1> DEFINE t == SubSeq(s, e + 1, g)
             r == [i \in 1 .. g - e |-> a + e + i]
  <1>1. s \in Seq(Nat) /\ Len(s) \in Nat /\ \A i \in 1 .. Len(s) : s[i] = a + i
    BY DEF From
  <1>2. /\ t \in Seq(Nat) /\ Len(t) = g - e
        /\ \A i \in 1 .. g - e : t[i] = s[e + i]
    BY <1>1
  <1>3. r \in [1 .. g - e -> Nat] /\ \A i \in 1 .. g - e : r[i] = a + e + i
    OBVIOUS
  <1> HIDE DEF t, r
  <1>4. r \in Seq(Nat) /\ Len(r) = g - e
    BY <1>3, IsSeqOf
  <1>5. ASSUME NEW i \in 1 .. g - e PROVE t[i] = a + e + i
    <2>1. e + i \in 1 .. Len(s) /\ t[i] = s[e + i]
      BY <1>1, <1>2
    <2>2. s[e + i] = a + (e + i)
      BY <1>1, <2>1
    <2> QED BY <2>1, <2>2
  <1>6. t = r
    BY <1>2, <1>3, <1>4, <1>5, SeqEqual
  <1>7. From(t, a + e)
    BY <1>2, <1>5 DEF From
  <1> QED BY <1>2, <1>6, <1>7 DEF t, r, Count

LEMMA NextBytesAre ==
  ASSUME NEW n \in Nat, nwritten \in Nat
  PROVE  From(NextBytes(n), nwritten) /\ Len(NextBytes(n)) = n
  <1> DEFINE s == NextBytes(n)
  <1>1. s \in [1 .. n -> Nat] /\ \A i \in 1 .. n : s[i] = nwritten + i
    BY DEF NextBytes
  <1> HIDE DEF s
  <1>2. s \in Seq(Nat) /\ Len(s) = n
    BY <1>1, IsSeqOf
  <1>3. From(s, nwritten)
    BY <1>1, <1>2 DEF From
  <1> QED BY <1>2, <1>3 DEF s

(* The packages that encrypt() makes of the next bytes are the ones due. *)
LEMMA EncryptArrives ==
  ASSUME nwritten \in Nat, Arrived(heard, nwritten, encrypted, LoginBytes), encCount = Len(heard), LoginBytes \in Nat,
         NEW n \in Nat, encrypted \/ nwritten + n <= LoginBytes
  PROVE  /\ Arrived(heard \o Encrypt(NextBytes(n)), nwritten + n, encrypted, LoginBytes)
         /\ Len(heard \o Encrypt(NextBytes(n))) = Len(heard) + Len(Encrypt(NextBytes(n)))
  <1> DEFINE bytes == NextBytes(n)
             q == Pieces(bytes)
             m == MaxPackage
             new == Encrypt(bytes)
             B == [j \in 0 .. q |-> nwritten + Least(j * m, n)]
             l == Len(heard)
  <1>1. From(bytes, nwritten) /\ Len(bytes) = n
    BY NextBytesAre
  <1>2. heard \in Seq(Units) /\ l \in Nat
    BY DEF Arrived
  <1> HIDE DEF bytes
  <1>3. /\ q \in Nat /\ Least(q * m, n) = n
        /\ \A j \in 1 .. q : (j - 1) * m \in Nat /\ (j - 1) * m < n
    BY <1>1, PiecesAre DEF From
  <1>4. m \in Nat \ {0}
    BY SizesAssumption
  <1> DEFINE part(j) == SubSeq(bytes, (j - 1) * m + 1, Least(j * m, n))
  <1>5. new = [j \in 1 .. q |-> [nonce |-> encCount + j - 1, size |-> Len(part(j)), vals |-> part(j)]]
    BY <1>1 DEF Encrypt
  <1> HIDE DEF q, m
  <1>6. ASSUME NEW j \in 1 .. q
        PROVE  /\ part(j) \in Seq(Nat) /\ B[j - 1] \in Nat /\ B[j] \in Nat /\ Len(part(j)) \in Nat
               /\ B[j] = B[j - 1] + Len(part(j))
               /\ Due(new[j], B[j - 1], l + j, encrypted, LoginBytes)
    <2> DEFINE e == (j - 1) * m
               f == j * m
               g == Least(f, n)
               v == SubSeq(bytes, e + 1, g)
    <2>1. e \in Nat /\ e < n
      BY <1>3
    <2>2. f = e + m
      BY <1>3, <1>4
    <2>3. B[j - 1] = nwritten + Least(e, n) /\ B[j] = nwritten + g
      BY <1>3
    <2>4. part(j) = v
      OBVIOUS
    <2> HIDE DEF e, f
    <2>5. g \in Nat /\ e < g /\ g <= n /\ Least(e, n) = e
      BY <1>4, <2>1, <2>2 DEF Least
    <2> HIDE DEF g
    <2>6. From(v, nwritten + e) /\ Len(v) = g - e /\ v = Count(nwritten + e, g - e)
      <3>1. e <= g /\ g <= Len(bytes)
        BY <1>1, <2>1, <2>5
      <3>2. From(bytes, nwritten) /\ e \in Nat /\ g \in Nat
        BY <1>1, <2>1, <2>5
      <3> QED BY <3>1, <3>2, Part
    <2> DEFINE b == B[j - 1]
               c == B[j]
    <2>7. b = nwritten + e /\ c = nwritten + g
      BY <2>3, <2>5
    <2>8. new[j] = [nonce |-> encCount + j - 1, size |-> Len(v), vals |-> v]
      BY <1>5, <2>4
    <2> HIDE DEF b, c, v, new, B, part
    <2>9. v \in Seq(Nat) /\ Len(v) \in Nat \ {0} /\ v # <<>>
      BY <2>1, <2>5, <2>6 DEF From
    <2>10. b \in Nat /\ c \in Nat /\ c = b + Len(v)
      BY <2>1, <2>5, <2>6, <2>7
    <2>11. v = [i \in 1 .. Len(v) |-> b + i]
      BY <2>6, <2>7 DEF Count
    <2>12. encCount + j - 1 = (l + j) - 1
      BY DEF l
    <2>13. ~(~encrypted /\ b >= LoginBytes)
      BY <2>1, <2>7
    <2> DEFINE unit == new[j]
    <2>14. unit.nonce = (l + j) - 1 /\ unit.size = Len(v) /\ unit.vals = v
      BY <2>8, <2>12
    <2> HIDE DEF unit
    <2>15. Due(unit, b, l + j, encrypted, LoginBytes)
      BY <2>9, <2>11, <2>13, <2>14 DEF Due
    <2> QED BY <2>4, <2>9, <2>10, <2>15 DEF b, c, unit
  <1>7. new \in Seq(Units) /\ Len(new) = q
    <2>1. \A j \in 1 .. q : [nonce |-> encCount + j - 1, size |-> Len(part(j)), vals |-> part(j)] \in Units
      <3> SUFFICES ASSUME NEW j \in 1 .. q
                   PROVE  [nonce |-> encCount + j - 1, size |-> Len(part(j)), vals |-> part(j)] \in Units
        OBVIOUS
      <3>1. part(j) \in Seq(Nat) /\ Len(part(j)) \in Nat
        BY <1>6
      <3>2. encCount + j - 1 \in Int
        BY <1>2, <1>3
      <3> HIDE DEF part
      <3> QED BY <3>1, <3>2 DEF Units
    <2> HIDE DEF part, new
    <2>2. new \in [1 .. q -> Units]
      BY <1>5, <2>1
    <2> QED BY <1>3, <2>2, IsSeqOf
  <1>8. B \in [0 .. q -> Nat] /\ B[0] = nwritten /\ B[q] = nwritten + n
    <2>1. \A j \in 0 .. q : j * m \in Nat
      BY <1>4
    <2>2. \A j \in 0 .. q : Least(j * m, n) \in Nat
      BY <2>1 DEF Least
    <2>3. Least(0 * m, n) = 0
      BY <1>4 DEF Least
    <2> QED BY <1>3, <2>2, <2>3
  <1>9. \A j \in 1 .. q : Due(new[j], B[j - 1], l + j, encrypted, LoginBytes) /\ B[j] = B[j - 1] + Len(new[j].vals)
    <2> SUFFICES ASSUME NEW j \in 1 .. q
                 PROVE  Due(new[j], B[j - 1], l + j, encrypted, LoginBytes) /\ B[j] = B[j - 1] + Len(new[j].vals)
      OBVIOUS
    <2>1. new[j].vals = part(j)
      BY <1>5
    <2> HIDE DEF new, B, part
    <2> QED BY <1>6, <2>1
  <1> HIDE DEF new, B, part
  <1>10. Arrived(heard \o new, B[Len(new)], encrypted, LoginBytes)
    BY <1>7, <1>8, <1>9, Joined DEF l
  <1>11. Len(heard \o new) = Len(heard) + Len(new)
    BY <1>2, <1>7, JoinIs
  <1> QED BY <1>7, <1>8, <1>10, <1>11 DEF new, bytes

(* So are the bytes written as they are, after the login. *)
LEMMA PlainArrives ==
  ASSUME nwritten \in Nat, Arrived(heard, nwritten, encrypted, LoginBytes), ~encrypted, LoginBytes \in Nat,
         nwritten >= LoginBytes, NEW n \in Nat
  PROVE  Arrived(heard \o [i \in 1 .. n |-> [nonce |-> -1, size |-> 1, vals |-> <<nwritten + i>>]],
                 nwritten + n, encrypted, LoginBytes)
  <1> DEFINE new == [i \in 1 .. n |-> [nonce |-> -1, size |-> 1, vals |-> <<nwritten + i>>]]
             B == [j \in 0 .. n |-> nwritten + j]
             l == Len(heard)
  <1>1. ASSUME NEW j \in 1 .. n
        PROVE  new[j] \in Units /\ new[j] = [nonce |-> -1, size |-> 1, vals |-> <<nwritten + j>>]
    <2>1. <<nwritten + j>> \in Seq(Nat)
      OBVIOUS
    <2> QED BY <2>1 DEF Units
  <1>2. new \in [1 .. n -> Units]
    BY <1>1
  <1>3. B \in [0 .. n -> Nat] /\ B[0] = nwritten /\ B[n] = nwritten + n
    OBVIOUS
  <1>4. \A j \in 1 .. n : B[j - 1] = nwritten + (j - 1) /\ B[j] = nwritten + j
    OBVIOUS
  <1> HIDE DEF new, B
  <1>5. new \in Seq(Units) /\ Len(new) = n
    BY <1>2, IsSeqOf
  <1>6. ASSUME NEW j \in 1 .. n
        PROVE  Due(new[j], B[j - 1], l + j, encrypted, LoginBytes) /\ B[j] = B[j - 1] + Len(new[j].vals)
    <2> DEFINE b == B[j - 1]
               v == <<nwritten + j>>
               unit == new[j]
    <2>1. b = nwritten + (j - 1) /\ B[j] = nwritten + j
      BY <1>4
    <2>2. unit.nonce = -1 /\ unit.size = 1 /\ unit.vals = v
      <3>1. unit = [nonce |-> -1, size |-> 1, vals |-> v]
        BY <1>1
      <3> HIDE DEF unit, v
      <3> QED BY <3>1
    <2>3. Len(v) = 1 /\ v # <<>> /\ v = [i \in 1 .. 1 |-> (nwritten + (j - 1)) + i]
      OBVIOUS
    <2> HIDE DEF b, v, unit
    <2>4. b >= LoginBytes
      BY <2>1
    <2>5. Due(unit, b, l + j, encrypted, LoginBytes)
      BY <2>1, <2>2, <2>3, <2>4 DEF Due
    <2>6. nwritten + j = nwritten + (j - 1) + 1
      OBVIOUS
    <2> QED BY <2>1, <2>2, <2>3, <2>5, <2>6 DEF unit, b
  <1>7. Arrived(heard \o new, B[Len(new)], encrypted, LoginBytes)
    BY <1>3, <1>5, <1>6, Joined DEF l
  <1> QED BY <1>3, <1>5, <1>7 DEF new

-----------------------------------------------------------------------------
(* What no action but its own disturbs. *)
LEMMA LoginSame ==
  ASSUME UNCHANGED subtype
  PROVE  LoginBytes' = LoginBytes
  BY DEF LoginBytes

LEMMA WriteSame ==
  ASSUME WriteInv, UNCHANGED <<writes, nwritten, encCount, heard, provider, step, read, encrypted, subtype>>
  PROVE  WriteInv'
  <1>1. LoginBytes' = LoginBytes
    BY LoginSame
  <1> QED BY <1>1 DEF WriteInv, WritePlaces, Left

(* A read that goes from one step to the next. *)
LEMMA WriteDuringRead ==
  ASSUME StepInv, WriteInv, UNCHANGED <<writeVars, provider, encrypted, subtype>>,
         \/ UNCHANGED step /\ (step = "start" => writes = <<>>)
         \/ read = "active" /\ step \in {"start", "hash", "agreed", "result"} /\ step' = StepAfter[step]
  PROVE  WriteInv'
  <1>1. LoginBytes' = LoginBytes
    BY LoginSame
  <1>2. LoginBytes > HashSize /\ HashSize \in Nat
    BY LoginIs DEF StepInv
  <1>3. UNCHANGED <<writes, nwritten, encCount, heard>>
    BY DEF writeVars
  <1>4. CASE UNCHANGED step /\ (step = "start" => writes = <<>>)
    <2>1. step = "start" => nwritten = HashSize
      <3>1. ASSUME step = "start" PROVE nwritten = HashSize
        <4>1. writes = <<>> /\ Len(writes) = 0
          BY <1>4, <3>1
        <4> QED BY <3>1, <4>1 DEF WriteInv, WritePlaces
      <3> QED BY <3>1
    <2> QED BY <1>1, <1>3, <1>4, <2>1 DEF WriteInv, WritePlaces, Left
  <1>5. CASE read = "active" /\ step \in {"start", "hash", "agreed", "result"} /\ step' = StepAfter[step]
    <2>1. CASE step = "start"
      <3>1. step' = "hash" /\ writes = <<>> /\ nwritten = HashSize
        BY <1>5, <2>1 DEF WriteInv, WritePlaces, StepAfter
      <3> QED BY <1>1, <1>3, <3>1 DEF WriteInv, WritePlaces
    <2>2. CASE step = "hash"
      <3>1. step' = "subtype" /\ writes = <<>> /\ nwritten = HashSize
        BY <1>5, <2>2 DEF WriteInv, WritePlaces, StepAfter
      <3> QED BY <1>1, <1>3, <3>1 DEF WriteInv, WritePlaces
    <2>3. CASE step \in {"agreed", "result"}
      <3>1. step' = "result" /\ nwritten >= LoginBytes
        BY <1>5, <2>3 DEF WriteInv, WritePlaces, StepAfter
      <3> QED BY <1>1, <1>3, <3>1 DEF WriteInv, WritePlaces
    <2> QED BY <1>5, <2>1, <2>2, <2>3
  <1> QED BY <1>4, <1>5

LEMMA ReadSame ==
  ASSUME ReadInv, UNCHANGED <<serverVars, wire, step, provider, readVars>>
  PROVE  ReadInv'
  BY DEF ReadInv, ReadTypes, Places, Stream, serverVars, readVars

LEMMA StepSame ==
  ASSUME StepInv, UNCHANGED <<server, encrypted, subtype, step, provider>>
  PROVE  StepInv'
  BY DEF StepInv

-----------------------------------------------------------------------------
(* The client writes. *)
LEMMA CredentialsKept ==
  ASSUME IInv, Credentials
  PROVE  IInv'
  <1>1. StepInv /\ WriteInv /\ ReadInv
    BY DEF IInv
  <1>2. /\ step = "subtype" /\ read = "idle" /\ step' = "credentials"
        /\ UNCHANGED <<serverVars, wire, provider, readVars, nwritten, encCount, heard, queued>>
        /\ UNCHANGED <<server, encrypted, subtype, read>>
    BY DEF Credentials, serverVars, readVars
  <1>3. writes' = CredentialSizes
    BY <1>1, <1>2 DEF Credentials, StepInv
  <1>4. StepInv'
    BY <1>1, <1>2 DEF StepInv, Steps
  <1>5. ReadInv'
    BY <1>1, <1>2 DEF ReadInv, ReadTypes, Places, Stream, serverVars, readVars
  <1>6. Left(1)'
    <2> DEFINE m == Len(CredentialSizes)
    <2>1. m \in Nat \ {0} /\ CredentialsUpTo[0] = 0 /\ CredentialsUpTo[1] = CredentialsUpTo[0] + CredentialSizes[1]
      BY CredentialsAre
    <2>2. nwritten = HashSize /\ CredentialSizes[1] = CredentialsUpTo[1]
      <3>1. CredentialsUpTo[1] = 1 /\ CredentialSizes[1] \in Nat
        BY CredentialsAre
      <3> QED BY <1>1, <1>2, <2>1, <3>1 DEF WriteInv, WritePlaces
    <2>3. m = m - 1 + 1 /\ \A j \in 2 .. m : 1 + j - 1 = j
      BY <2>1
    <2> HIDE DEF m
    <2>4. Len(CredentialSizes) = Len(CredentialSizes) - 1 + 1 /\ \A j \in 2 .. Len(CredentialSizes) : 1 + j - 1 = j
      BY <2>3 DEF m
    <2> QED BY <1>2, <1>3, <2>2, <2>4 DEF Left
  <1>7. WriteInv'
    <2>1. LoginBytes' = LoginBytes
      BY <1>2, LoginSame
    <2>2. \E i \in 1 .. Len(CredentialSizes) : Left(i)'
      <3>1. 1 \in 1 .. Len(CredentialSizes)
        BY CredentialsAre
      <3> QED BY <1>6, <3>1
    <2>3. WritePlaces'
      BY <1>2, <2>2 DEF WritePlaces
    <2>4. writes' \in Seq(Nat)
      BY <1>3, CredentialsAre
    <2> QED BY <1>1, <1>2, <2>1, <2>3, <2>4 DEF WriteInv
  <1> QED BY <1>4, <1>5, <1>7 DEF IInv

LEMMA QueueWriteKept ==
  ASSUME IInv, QueueWrite
  PROVE  IInv'
  <1>1. StepInv /\ WriteInv /\ ReadInv
    BY DEF IInv
  <1>2. /\ step = "result" /\ UNCHANGED <<serverVars, wire, step, provider, readVars, nwritten, encCount, heard>>
        /\ UNCHANGED <<server, encrypted, subtype, read>>
    BY DEF QueueWrite, serverVars, readVars
  <1>3. writes' \in Seq(Nat)
    <2>1. PICK n \in WriteSizes : writes' = Append(writes, n)
      BY DEF QueueWrite
    <2>2. n \in Nat /\ writes \in Seq(Nat)
      BY <1>1, SizesAssumption DEF WriteInv
    <2> QED BY <2>1, <2>2
  <1>4. WriteInv'
    BY <1>1, <1>2, <1>3, LoginSame DEF WriteInv, WritePlaces
  <1> QED BY <1>1, <1>2, <1>4, StepSame, ReadSame DEF IInv

LEMMA WrittenPlaces ==
  ASSUME StepInv, WriteInv, writes # <<>>, NEW n \in Nat, n <= Head(writes), Written(n)
  PROVE  writes' \in Seq(Nat) /\ nwritten' \in Nat /\ WritePlaces'
  <1>1. /\ nwritten' = nwritten + n
        /\ writes' = IF n = Head(writes) THEN Tail(writes) ELSE [writes EXCEPT ![1] = @ - n]
        /\ UNCHANGED <<server, encrypted, subtype, step, provider, read>>
    BY DEF Written, serverVars, readVars
  <1>2. writes \in Seq(Nat) /\ nwritten \in Nat /\ WritePlaces /\ Len(writes) \in Nat \ {0} /\ Head(writes) = writes[1] /\ writes[1] \in Nat
    BY DEF WriteInv
  <1>3. LoginBytes' = LoginBytes
    BY <1>1, LoginSame
  <1>4. LoginBytes \in Nat /\ HashSize \in Nat /\ LoginBytes = HashSize + CredentialsUpTo[Len(CredentialSizes)]
    BY LoginIs DEF StepInv
  <1>7. /\ step = "start" => read = "idle" /\ Len(writes) = 1 /\ nwritten + writes[1] = HashSize
        /\ step \notin {"hash", "subtype", "agreed"}
        /\ step = "result" => nwritten >= LoginBytes
    BY <1>2 DEF WritePlaces
  <1>8. nwritten' \in Nat /\ (nwritten >= LoginBytes => nwritten' >= LoginBytes)
    BY <1>1, <1>2, <1>4
  <1>9. step # "credentials" => step \in {"start", "result"}
    BY <1>7 DEF StepInv, Steps
  <1>10. ASSUME step # "credentials",
                step = "start" =>
                  \/ writes' = <<>> /\ nwritten' = HashSize
                  \/ Len(writes') = 1 /\ nwritten' + writes'[1] = HashSize
         PROVE  WritePlaces'
    <2>1. CASE step = "start"
      BY <1>1, <1>7, <1>10, <2>1 DEF WritePlaces
    <2>2. CASE step = "result"
      BY <1>1, <1>3, <1>7, <1>8, <2>2 DEF WritePlaces
    <2> QED BY <1>9, <1>10, <2>1, <2>2
  <1>5. CASE n = Head(writes)
    <2>1. /\ writes' \in Seq(Nat) /\ Len(writes') = Len(writes) - 1
          /\ \A j \in 1 .. Len(writes) - 1 : writes'[j] = writes[j + 1]
      <3>1. writes' = Tail(writes)
        BY <1>1, <1>5
      <3> QED BY <1>2, <3>1
    <2>2. nwritten' = nwritten + writes[1] /\ nwritten' \in Nat
      BY <1>1, <1>2, <1>5
    <2>3. Len(writes) = 1 => writes' = <<>>
      BY <1>2, <2>1
    <2>4. CASE step = "credentials"
      <3>1. PICK i \in 1 .. Len(CredentialSizes) : Left(i)
        BY <1>2, <2>4 DEF WritePlaces
      <3> DEFINE m == Len(CredentialSizes)
      <3>2. m \in Nat \ {0}
        BY CredentialsAre
      <3>3. Len(writes) = m - i + 1 /\ nwritten' = HashSize + CredentialsUpTo[i]
        BY <2>2, <3>1 DEF Left
      <3>4. CASE i = m
        <4>1. Len(writes) = 1
          BY <3>2, <3>3, <3>4
        <4> QED BY <1>1, <1>3, <1>4, <2>1, <2>2, <2>3, <2>4, <3>3, <3>4, <4>1 DEF WritePlaces
      <3>5. CASE i # m
        <4> DEFINE q == i + 1
        <4>1. q \in 1 .. m /\ q - 1 = i /\ Len(writes) >= 2 /\ i \in Nat
          BY <3>2, <3>3, <3>5
        <4>2. CredentialsUpTo[q] = CredentialsUpTo[i] + CredentialSizes[q] /\ CredentialsUpTo[i] \in Nat /\ CredentialSizes[q] \in Nat
          <5>1. CredentialsUpTo[q] = CredentialsUpTo[q - 1] + CredentialSizes[q] /\ CredentialsUpTo[q - 1] \in Nat
            <6>1. q - 1 \in 0 .. m
              BY <3>2, <4>1
            <6> QED BY <4>1, <6>1, CredentialsAre
          <5>2. CredentialSizes[q] \in Nat
            BY <4>1, CredentialsAre
          <5> QED BY <4>1, <5>1, <5>2
        <4>3. \A j \in 2 .. Len(writes) : writes[j] = CredentialSizes[i + j - 1]
          BY <3>1 DEF Left
        <4>4. writes'[1] = CredentialSizes[q]
          <5>1. 1 \in 1 .. Len(writes) - 1 /\ 2 \in 2 .. Len(writes) /\ i + 2 - 1 = q /\ 1 + 1 = 2
            BY <1>2, <4>1
          <5> QED BY <2>1, <4>3, <5>1
        <4>5. nwritten' + writes'[1] = HashSize + CredentialsUpTo[q]
          <5> DEFINE x == CredentialsUpTo[i]
                     y == CredentialsUpTo[q]
                     c == CredentialSizes[q]
          <5>1. nwritten' = HashSize + x /\ y = x + c /\ x \in Nat /\ c \in Nat /\ writes'[1] = c
            BY <3>3, <4>2, <4>4
          <5> HIDE DEF x, y, c
          <5>2. nwritten' + writes'[1] = HashSize + y
            BY <1>4, <5>1
          <5> QED BY <5>2 DEF y
        <4>6. Len(writes') = m - q + 1
          BY <1>2, <2>1, <3>2, <3>3, <4>1
        <4>7. \A j \in 2 .. Len(writes') : writes'[j] = CredentialSizes[q + j - 1]
          <5> SUFFICES ASSUME NEW j \in 2 .. Len(writes') PROVE writes'[j] = CredentialSizes[q + j - 1]
            OBVIOUS
          <5>1. j \in 1 .. Len(writes) - 1 /\ j + 1 \in 2 .. Len(writes) /\ i + (j + 1) - 1 = q + j - 1
            BY <1>2, <2>1, <4>1
          <5> QED BY <2>1, <4>3, <5>1
        <4> HIDE DEF m, q
        <4>8. Left(q)'
          BY <4>5, <4>6, <4>7 DEF Left, m
        <4>9. \E k \in 1 .. Len(CredentialSizes) : Left(k)'
          BY <4>1, <4>8 DEF m
        <4> QED BY <1>1, <2>1, <2>2, <2>4, <4>9 DEF WritePlaces
      <3> QED BY <3>4, <3>5
    <2>5. CASE step # "credentials"
      BY <1>7, <1>10, <2>1, <2>2, <2>3, <2>5
    <2> QED BY <2>4, <2>5
  <1>6. CASE n # Head(writes)
    <2>1. /\ writes' \in Seq(Nat) /\ Len(writes') = Len(writes) /\ writes'[1] = writes[1] - n
          /\ \A j \in 2 .. Len(writes) : writes'[j] = writes[j]
      <3>1. writes' = [writes EXCEPT ![1] = writes[1] - n] /\ writes[1] - n \in Nat
        BY <1>1, <1>2, <1>6
      <3> QED BY <1>2, <3>1
    <2>2. nwritten' + writes'[1] = nwritten + writes[1]
      <3> DEFINE x == writes[1]
                 y == writes'[1]
      <3>1. y = x - n /\ x \in Nat /\ nwritten' = nwritten + n /\ nwritten \in Nat
        BY <1>1, <1>2, <2>1
      <3> HIDE DEF x, y
      <3>2. nwritten' + y = nwritten + x
        BY <3>1
      <3> QED BY <3>2 DEF x, y
    <2>3. \A i \in 1 .. Len(CredentialSizes) : Left(i) => Left(i)'
      BY <2>1, <2>2 DEF Left
    <2>4. CASE step = "credentials"
      BY <1>1, <1>2, <2>1, <2>3, <2>4 DEF WritePlaces
    <2>5. CASE step # "credentials"
      BY <1>7, <1>8, <1>10, <2>1, <2>2, <2>5
    <2> QED BY <1>8, <2>1, <2>4, <2>5
  <1> QED BY <1>5, <1>6

(* No write goes past where the two agree to go on without. *)
LEMMA WriteEnds ==
  ASSUME StepInv, WriteInv, writes # <<>>, provider
  PROVE  encrypted \/ nwritten + writes[1] <= LoginBytes
  <1>1. writes \in Seq(Nat) /\ nwritten \in Nat /\ WritePlaces /\ Len(writes) \in Nat \ {0} /\ writes[1] \in Nat
    BY DEF WriteInv
  <1>2. LoginBytes > HashSize /\ HashSize \in Nat /\ LoginBytes \in Nat /\ LoginBytes = HashSize + CredentialsUpTo[Len(CredentialSizes)]
    BY LoginIs DEF StepInv
  <1>3. SUFFICES ASSUME ~encrypted PROVE nwritten + writes[1] <= LoginBytes
    OBVIOUS
  <1>4. step \in {"start", "credentials"}
    BY <1>1, <1>3 DEF StepInv, Steps, WritePlaces
  <1>5. CASE step = "start"
    BY <1>1, <1>2, <1>5 DEF WritePlaces
  <1>6. CASE step = "credentials"
    <2>1. PICK i \in 1 .. Len(CredentialSizes) : Left(i)
      BY <1>1, <1>6 DEF WritePlaces
    <2> DEFINE m == Len(CredentialSizes)
               x == CredentialsUpTo[i]
               y == CredentialsUpTo[m]
    <2>2. i \in 0 .. m
      BY CredentialsAre
    <2>3. x \in Nat /\ x <= y /\ m \in 0 .. m /\ y \in Nat
      BY <2>2, CredentialsAre
    <2>4. nwritten + writes[1] = HashSize + x /\ LoginBytes = HashSize + y
      BY <1>2, <2>1 DEF Left
    <2> HIDE DEF x, y, m
    <2> QED BY <1>2, <2>3, <2>4
  <1> QED BY <1>4, <1>5, <1>6

LEMMA WriteSealedKept ==
  ASSUME IInv, WriteSealed
  PROVE  IInv'
  <1>1. StepInv /\ WriteInv /\ ReadInv
    BY DEF IInv
  <1> DEFINE n == Least(Head(writes), MaxTransfer)
             packages == Encrypt(NextBytes(n))
  <1>2. /\ writes # <<>> /\ provider /\ Written(n)
        /\ heard' = heard \o packages /\ encCount' = encCount + Len(packages)
    BY DEF WriteSealed
  <1>3. UNCHANGED <<serverVars, wire, step, provider, readVars>> /\ UNCHANGED <<server, encrypted, subtype>> /\ nwritten' = nwritten + n
    BY <1>2 DEF Written, serverVars
  <1>4. n \in Nat /\ n <= writes[1] /\ Head(writes) = writes[1] /\ writes[1] \in Nat /\ nwritten \in Nat
    BY <1>1, <1>2, SizesAssumption DEF WriteInv, Least
  <1> HIDE DEF n
  <1>5. writes' \in Seq(Nat) /\ nwritten' \in Nat /\ WritePlaces'
    BY <1>1, <1>2, <1>4, WrittenPlaces
  <1>6. LoginBytes \in Nat
    BY <1>1, LoginIs DEF StepInv
  <1>7. encrypted \/ nwritten + n <= LoginBytes
    BY <1>1, <1>2, <1>4, <1>6, WriteEnds
  <1>8. /\ Arrived(heard \o packages, nwritten + n, encrypted, LoginBytes)
        /\ Len(heard \o packages) = Len(heard) + Len(packages)
    BY <1>1, <1>2, <1>4, <1>6, <1>7, EncryptArrives DEF WriteInv
  <1> HIDE DEF packages
  <1>9. Arrived(heard', nwritten', encrypted', LoginBytes')
    BY <1>2, <1>3, <1>8, LoginSame
  <1>10. encCount' = Len(heard')
    BY <1>1, <1>2, <1>8 DEF WriteInv
  <1>11. encCount' \in Nat
    BY <1>9, <1>10 DEF Arrived
  <1>12. WriteInv'
    BY <1>5, <1>9, <1>10, <1>11 DEF WriteInv
  <1> QED BY <1>1, <1>3, <1>12, StepSame, ReadSame DEF IInv

LEMMA WritePlainKept ==
  ASSUME IInv, WritePlain
  PROVE  IInv'
  <1>1. StepInv /\ WriteInv /\ ReadInv
    BY DEF IInv
  <1>2. writes # <<>> /\ ~provider /\ UNCHANGED encCount
    BY DEF WritePlain
  <1>3. PICK n \in (IF Head(writes) = 0 THEN 0 ELSE 1) .. Least(Head(writes), MaxTransfer) :
          heard' = heard \o [i \in 1 .. n |-> [nonce |-> -1, size |-> 1, vals |-> <<nwritten + i>>]] /\ Written(n)
    BY DEF WritePlain
  <1>4. UNCHANGED <<serverVars, wire, step, provider, readVars>> /\ UNCHANGED <<server, encrypted, subtype>> /\ nwritten' = nwritten + n
    BY <1>3 DEF Written, serverVars
  <1>5. n \in Nat /\ n <= Head(writes)
    BY <1>1, <1>2, SizesAssumption DEF WriteInv, Least
  <1>6. writes' \in Seq(Nat) /\ nwritten' \in Nat /\ WritePlaces'
    BY <1>1, <1>2, <1>3, <1>5, WrittenPlaces
  <1>7. LoginBytes \in Nat
    BY <1>1, LoginIs DEF StepInv
  <1>8. ~encrypted /\ nwritten >= LoginBytes /\ nwritten \in Nat
    BY <1>1, <1>2 DEF StepInv, WriteInv, WritePlaces
  <1>9. Arrived(heard', nwritten + n, encrypted, LoginBytes)
    BY <1>1, <1>3, <1>5, <1>7, <1>8, PlainArrives DEF WriteInv
  <1>10. Arrived(heard', nwritten', encrypted', LoginBytes')
    BY <1>4, <1>9, LoginSame
  <1>11. WriteInv'
    BY <1>1, <1>2, <1>4, <1>6, <1>10 DEF WriteInv
  <1> QED BY <1>1, <1>4, <1>11, StepSame, ReadSame DEF IInv

-----------------------------------------------------------------------------
(* The server sends. *)
LEMMA PackageSealed ==
  ASSUME npackage \in Nat, nsent \in Nat, NEW n \in Nat
  PROVE  IsPackage(Package(n), npackage + 1, n, nsent)
  <1>1. LengthSize + n + TagSize = Overhead + n
    BY Sizes DEF Overhead
  <1> QED BY <1>1 DEF IsPackage, Package, Sealed

LEMMA SealedOn ==
  ASSUME ReadTypes, NEW a \in Nat, Chain(decryptBuf \o wire, counter + 1, npackage + 1, a, nsent), NEW n \in Nat \ {0}
  PROVE  /\ Chain(decryptBuf \o (wire \o Package(n)), counter + 1, npackage + 1 + 1, a, nsent + n)
         /\ wire \o Package(n) \in Seq(Bytes)
  <1> DEFINE k == Package(n)
  <1>1. wire \in Seq(Bytes) /\ decryptBuf \in Seq(Bytes) /\ npackage \in Nat /\ nsent \in Nat /\ npackage + 1 \in Nat
    BY DEF ReadTypes
  <1>2. IsPackage(k, npackage + 1, n, nsent)
    BY <1>1, PackageSealed
  <1> HIDE DEF k
  <1>3. k \in Seq(Bytes)
    BY <1>1, <1>2, PackageIs
  <1>4. (decryptBuf \o wire) \o k = decryptBuf \o (wire \o k)
    BY <1>1, <1>3, ConcatAssociative
  <1>5. Chain((decryptBuf \o wire) \o k, counter + 1, npackage + 1 + 1, a, nsent + n)
    BY <1>1, <1>2, OneMore
  <1>6. wire \o k \in Seq(Bytes)
    BY <1>1, <1>3, JoinIs
  <1> QED BY <1>4, <1>5, <1>6 DEF k

LEMMA ClearOn ==
  ASSUME NEW w, NEW a \in Nat, nsent \in Nat, Clear(w, a, nsent), NEW n \in Nat
  PROVE  Clear(w \o Plain(n), a, nsent + n)
  <1> DEFINE k == Plain(n)
  <1>1. w \in Seq(Bytes) /\ nsent = a + Len(w) /\ Len(w) \in Nat /\ \A i \in 1 .. Len(w) : w[i].val = a + i
    BY DEF Clear
  <1>2. k \in [1 .. n -> Bytes] /\ \A i \in 1 .. n : k[i].val = nsent + i
    <2>1. \A i \in 1 .. n : [package |-> 0, size |-> n, at |-> i, val |-> nsent + i] \in Bytes
      BY DEF Bytes
    <2> QED BY <2>1 DEF Plain
  <1> HIDE DEF k
  <1>3. k \in Seq(Bytes) /\ Len(k) = n
    BY <1>2, IsSeqOf
  <1> DEFINE u == w \o k
  <1>4. /\ u \in Seq(Bytes) /\ Len(u) = Len(w) + Len(k) /\ Len(w) \in Nat /\ Len(k) \in Nat
        /\ \A i \in 1 .. Len(w) : u[i] = w[i]
        /\ \A i \in 1 .. Len(k) : u[Len(w) + i] = k[i]
    <2>1. w \in Seq(Bytes) /\ k \in Seq(Bytes)
      BY <1>1, <1>3
    <2> QED BY <2>1, JoinIs
  <1> HIDE DEF u
  <1>5. ASSUME NEW i \in 1 .. Len(u) PROVE u[i].val = a + i
    <2>0. i \in 1 .. Len(w) + n
      BY <1>3, <1>4
    <2>1. CASE i <= Len(w)
      <3>1. i \in 1 .. Len(w)
        BY <1>1, <2>0, <2>1
      <3> QED BY <1>1, <1>4, <3>1
    <2>2. CASE ~(i <= Len(w))
      <3> DEFINE j == i - Len(w)
      <3>1. j \in 1 .. n /\ i = Len(w) + j /\ nsent + j = a + i
        BY <1>1, <2>0, <2>2
      <3> HIDE DEF j
      <3>2. u[i] = k[j] /\ k[j].val = nsent + j
        BY <1>2, <1>3, <1>4, <3>1
      <3> QED BY <3>1, <3>2
    <2> QED BY <2>1, <2>2
  <1>6. nsent + n = a + Len(u)
    BY <1>1, <1>3, <1>4
  <1> QED BY <1>4, <1>5, <1>6 DEF Clear, u, k

(* What has been read is what has been sent, when nothing more has. *)
LEMMA AllRead ==
  ASSUME ReadInv, server # "result" \/ encrypted
  PROVE  /\ Len(got) \in Nat /\ Len(remaining) \in Nat /\ Len(got) + Len(remaining) <= nsent
         /\ Len(got) >= nsent => remaining = <<>> /\ decryptBuf = <<>> /\ wire = <<>>
  <1> DEFINE g == Len(got)
             r == Len(remaining)
             u == decryptBuf \o wire
  <1>1. g \in Nat /\ r \in Nat /\ (r = 0 => remaining = <<>>) /\ nsent \in Nat /\ decryptBuf \in Seq(Bytes) /\ wire \in Seq(Bytes)
    BY DEF ReadInv, ReadTypes, From
  <1>2. Chain(u, counter + 1, npackage + 1, g + r, nsent)
    BY DEF ReadInv, Stream
  <1> HIDE DEF g, r
  <1>3. g + r <= nsent /\ (g + r = nsent => u = <<>>)
    <2> HIDE DEF u
    <2>1. g + r \in Nat
      BY <1>1
    <2> QED BY <1>1, <1>2, <2>1, ChainEnds
  <1>4. u = <<>> => decryptBuf = <<>> /\ wire = <<>>
    BY <1>1, ConcatEqualIffEmpty
  <1>5. g >= nsent => r = 0 /\ g + r = nsent
    BY <1>1, <1>3
  <1> QED BY <1>1, <1>3, <1>4, <1>5 DEF g, r

LEMMA SendsKept ==
  ASSUME IInv, NEW n \in Nat \ {0}, NEW closed, ServerSends(n, closed),
         closed <=> server' # "result" \/ encrypted,
         closed => server # "result" \/ encrypted,
         ~closed => Clear(wire, Len(got), nsent) /\ decryptBuf = <<>> /\ remaining = <<>>,
         provider \/ server' = "result"
  PROVE  ReadTypes' /\ Stream' /\ WriteInv' /\ nsent' = nsent + n /\ UNCHANGED <<encrypted, subtype, step, provider, read, want, got>>
  <1>1. StepInv /\ WriteInv /\ ReadInv /\ ReadTypes /\ Stream
    BY DEF IInv, ReadInv
  <1>2. /\ nsent' = nsent + n
        /\ wire' = wire \o IF closed THEN Package(n) ELSE Plain(n)
        /\ npackage' = IF closed THEN npackage + 1 ELSE npackage
        /\ UNCHANGED <<writes, nwritten, encCount, heard, provider, step, read, encrypted, subtype>>
        /\ UNCHANGED <<counter, decryptBuf, remaining, want, got>>
    BY DEF ServerSends, readVars, writeVars
  <1>3. WriteInv'
    BY <1>1, <1>2, WriteSame
  <1>4. Len(got) \in Nat /\ Len(remaining) \in Nat /\ nsent \in Nat /\ npackage \in Nat /\ nsent' \in Nat /\ npackage' \in Nat
    BY <1>1, <1>2 DEF ReadTypes, From
  <1>5. CASE closed
    <2> DEFINE a == Len(got) + Len(remaining)
    <2>1. a \in Nat /\ Chain(decryptBuf \o wire, counter + 1, npackage + 1, a, nsent)
      BY <1>1, <1>4, <1>5 DEF Stream
    <2> HIDE DEF a
    <2>2. /\ Chain(decryptBuf \o wire', counter + 1, npackage' + 1, a, nsent')
          /\ wire' \in Seq(Bytes)
      BY <1>1, <1>2, <1>5, <2>1, SealedOn
    <2>3. ReadTypes'
      BY <1>1, <1>2, <1>4, <2>2 DEF ReadTypes
    <2>4. Stream'
      BY <1>1, <1>2, <1>5, <2>2 DEF Stream, a
    <2> QED BY <1>2, <1>3, <2>3, <2>4
  <1>6. CASE ~closed
    <2>1. Clear(wire', Len(got), nsent')
      BY <1>2, <1>4, <1>6, ClearOn
    <2>2. ReadTypes'
      BY <1>1, <1>2, <1>4, <2>1 DEF ReadTypes, Clear
    <2>3. Stream'
      BY <1>1, <1>2, <1>6, <2>1 DEF Stream
    <2> QED BY <1>2, <1>3, <2>2, <2>3
  <1> QED BY <1>5, <1>6

LEMMA ProviderIs ==
  ASSUME StepInv
  PROVE  /\ step \notin {"agreed", "result"} => provider
         /\ ~provider => step \in {"agreed", "result"} /\ ~encrypted
         /\ provider /\ ~encrypted => step \notin {"agreed", "result"}
         /\ encrypted \in BOOLEAN /\ provider \in BOOLEAN
  BY DEF StepInv

LEMMA ServerHashKept ==
  ASSUME IInv, ServerHash
  PROVE  IInv'
  <1>1. StepInv /\ ReadInv /\ Places
    BY DEF IInv, ReadInv
  <1>2. server = "start" /\ server' = "hash" /\ ServerSends(HashSize, TRUE) /\ HashSize \in Nat \ {0}
    BY SizesAssumption DEF ServerHash
  <1>3. provider
    <2>1. Len(got) <= 0
      BY <1>1, <1>2, AllRead DEF Places
    <2>2. Len(got) \in Nat
      BY <1>1, <1>2, AllRead
    <2>3. step \notin {"agreed", "result"}
      BY <1>1, <1>2, <2>1, <2>2 DEF Places
    <2> QED BY <1>1, <2>3, ProviderIs
  <1>4. ReadTypes' /\ Stream' /\ WriteInv' /\ nsent' = nsent + HashSize /\ UNCHANGED <<encrypted, subtype, step, provider, read, want, got>>
    BY <1>2, <1>3, SendsKept
  <1>5. Places'
    BY <1>1, <1>2, <1>4 DEF Places
  <1>6. StepInv'
    BY <1>1, <1>2, <1>4 DEF StepInv, ServerLogin
  <1> QED BY <1>4, <1>5, <1>6 DEF IInv, ReadInv

LEMMA ServerSubtypeKept ==
  ASSUME IInv, ServerSubtype
  PROVE  IInv'
  <1>1. StepInv /\ ReadInv /\ Places
    BY DEF IInv, ReadInv
  <1>2. server = "hash" /\ server' = "subtype" /\ ServerSends(1, TRUE) /\ HashSize \in Nat \ {0}
    BY SizesAssumption DEF ServerSubtype
  <1>3. provider
    <2>1. Len(got) <= HashSize /\ Len(got) \in Nat
      BY <1>1, <1>2, AllRead DEF Places
    <2>3. step \notin {"agreed", "result"}
      BY <1>1, <1>2, <2>1 DEF Places
    <2> QED BY <1>1, <2>3, ProviderIs
  <1>4. ReadTypes' /\ Stream' /\ WriteInv' /\ nsent' = nsent + 1 /\ UNCHANGED <<encrypted, subtype, step, provider, read, want, got>>
    <2>1. 1 \in Nat \ {0}
      OBVIOUS
    <2>2. server # "result" /\ server' # "result"
      BY <1>2
    <2>3. ServerSends(1, TRUE)
      BY <1>2
    <2> QED BY <1>3, <2>1, <2>2, <2>3, SendsKept
  <1>5. Places'
    BY <1>1, <1>2, <1>4 DEF Places
  <1>6. StepInv'
    BY <1>1, <1>2, <1>4 DEF StepInv, ServerLogin
  <1> QED BY <1>4, <1>5, <1>6 DEF IInv, ReadInv

(* The result comes once the credentials have: the client has read the
   subtype, and nothing more has been sent. *)
LEMMA ServerResultKept ==
  ASSUME IInv, ServerResult
  PROVE  IInv'
  <1>1. StepInv /\ WriteInv /\ ReadInv /\ Places
    BY DEF IInv, ReadInv
  <1>2. server = "subtype" /\ server' = "result" /\ ServerSends(4, encrypted) /\ HashSize \in Nat \ {0} /\ nsent = HashSize + 1
    BY <1>1, SizesAssumption DEF ServerResult, Places
  <1>3. step \in {"credentials", "agreed", "result"}
    <2>1. HeardUpTo(Len(heard)) = nwritten
      BY <1>1 DEF HeardUpTo, WriteInv, Arrived, UpTo
    <2>2. nwritten >= LoginBytes /\ nwritten \in Nat
      BY <1>1, <2>1 DEF ServerResult, WriteInv
    <2>3. LoginBytes > HashSize /\ LoginBytes \in Nat
      BY <1>1, LoginIs DEF StepInv
    <2>4. step \notin {"hash", "subtype"}
      BY <1>1, <1>2, <2>2, <2>3 DEF WriteInv, WritePlaces
    <2>5. step # "start"
      <3>1. ASSUME step = "start" PROVE nwritten <= HashSize
        BY <1>1, <1>2, <2>2, <3>1 DEF WriteInv, WritePlaces
      <3> QED BY <1>2, <2>2, <2>3, <3>1
    <2> QED BY <1>1, <2>4, <2>5 DEF StepInv, Steps
  <1>4. Len(got) >= nsent /\ nsent \in Nat
    BY <1>1, <1>2, <1>3 DEF Places, ReadInv, ReadTypes
  <1>5. Len(got) = nsent /\ remaining = <<>> /\ decryptBuf = <<>> /\ wire = <<>>
    BY <1>1, <1>2, <1>4, AllRead
  <1>6. Clear(wire, Len(got), nsent)
    BY <1>4, <1>5 DEF Clear
  <1>7. ReadTypes' /\ Stream' /\ WriteInv' /\ nsent' = nsent + 4 /\ UNCHANGED <<encrypted, subtype, step, provider, read, want, got>>
    BY <1>2, <1>5, <1>6, SendsKept
  <1>8. Places'
    BY <1>1, <1>2, <1>7 DEF Places
  <1>9. StepInv'
    BY <1>1, <1>2, <1>3, <1>7 DEF StepInv, ServerLogin
  <1> QED BY <1>7, <1>8, <1>9 DEF IInv, ReadInv

LEMMA ServerDataKept ==
  ASSUME IInv, ServerData
  PROVE  IInv'
  <1>1. StepInv /\ ReadInv /\ Places /\ Stream
    BY DEF IInv, ReadInv
  <1>2. PICK n \in PackageSizes : ServerSends(n, encrypted)
    BY DEF ServerData
  <1>3. server = "result" /\ server' = "result" /\ n \in Nat \ {0} /\ HashSize \in Nat
    BY SizesAssumption DEF ServerData
  <1>4. ReadTypes' /\ Stream' /\ WriteInv' /\ nsent' = nsent + n /\ UNCHANGED <<encrypted, subtype, step, provider, read, want, got>>
    BY <1>1, <1>2, <1>3, SendsKept DEF Stream
  <1>5. Places'
    <2>1. nsent >= HashSize + 1 /\ nsent \in Nat
      BY <1>1, <1>3 DEF Places, ReadInv, ReadTypes
    <2>2. nsent' >= HashSize + 1
      BY <1>3, <1>4, <2>1
    <2> QED BY <1>1, <1>3, <1>4, <2>2 DEF Places
  <1>6. StepInv'
    BY <1>1, <1>3, <1>4 DEF StepInv
  <1> QED BY <1>4, <1>5, <1>6 DEF IInv, ReadInv

-----------------------------------------------------------------------------
(* The client reads. *)
LEMMA StartReadKept ==
  ASSUME IInv, StartRead
  PROVE  IInv'
  <1>1. StepInv /\ WriteInv /\ ReadTypes /\ Places /\ Stream
    BY DEF IInv, ReadInv
  <1>2. /\ read = "idle" /\ read' = "active" /\ (step = "start" => writes = <<>>)
        /\ UNCHANGED <<serverVars, wire, step, provider, counter, decryptBuf, remaining, got, writeVars>>
        /\ UNCHANGED <<encrypted, subtype, server, nsent, npackage>>
    BY DEF StartRead, serverVars
  <1>3. PICK n \in NextRead : want' = n
    BY DEF StartRead
  <1>4. /\ step = "start" => n = HashSize
        /\ step = "hash" => n = 1
        /\ step \notin {"subtype", "credentials"}
        /\ n \in Nat /\ HashSize \in Nat
    BY <1>1, SizesAssumption DEF NextRead, StepInv, Steps
  <1>5. Places'
    <2>1. step = "start" => Len(got) + want' = HashSize
      BY <1>1, <1>2, <1>3, <1>4 DEF Places
    <2>2. step = "hash" => Len(got) + want' = HashSize + 1
      BY <1>1, <1>2, <1>3, <1>4 DEF Places
    <2> QED BY <1>1, <1>2, <1>4, <2>1, <2>2 DEF Places
  <1>6. ReadTypes' /\ Stream'
    BY <1>1, <1>2, <1>3, <1>4 DEF ReadTypes, Stream
  <1>7. WriteInv'
    BY <1>1, <1>2, WriteDuringRead
  <1>8. StepInv'
    BY <1>1, <1>2, StepSame
  <1> QED BY <1>5, <1>6, <1>7, <1>8 DEF IInv, ReadInv

(* Every write of the login is done when a read is under way. *)
LEMMA NothingToWrite ==
  ASSUME WriteInv, read # "idle", step = "start"
  PROVE  writes = <<>>
  BY DEF WriteInv, WritePlaces

LEMMA ReadResetKept ==
  ASSUME IInv, ReadReset
  PROVE  IInv'
  <1>1. StepInv /\ WriteInv /\ ReadTypes /\ Places /\ Stream
    BY DEF IInv, ReadInv
  <1>2. /\ read = "active" /\ read' = "reset"
        /\ UNCHANGED <<serverVars, wire, step, provider, counter, decryptBuf, remaining, want, got, writeVars>>
        /\ UNCHANGED <<encrypted, subtype, server, nsent, npackage>>
    BY DEF ReadReset, serverVars
  <1>3. Places'
    BY <1>1, <1>2 DEF Places
  <1>4. ReadTypes' /\ Stream'
    BY <1>1, <1>2 DEF ReadTypes, Stream
  <1>5. step = "start" => writes = <<>>
    BY <1>1, <1>2, NothingToWrite
  <1>6. WriteInv'
    BY <1>1, <1>2, <1>5, WriteDuringRead
  <1>7. StepInv'
    BY <1>1, <1>2, StepSame
  <1> QED BY <1>3, <1>4, <1>6, <1>7 DEF IInv, ReadInv

(* Nothing encrypted is left when the provider is dropped. *)
LEMMA CredentialsWrittenKept ==
  ASSUME IInv, CredentialsWritten
  PROVE  IInv'
  <1>1. StepInv /\ WriteInv /\ ReadInv /\ ReadTypes /\ Places /\ Stream
    BY DEF IInv, ReadInv
  <1>2. /\ step = "credentials" /\ step' = "agreed" /\ writes = <<>> /\ provider' = encrypted
        /\ UNCHANGED <<serverVars, wire, readVars, writeVars>>
        /\ UNCHANGED <<encrypted, subtype, server, nsent, npackage>>
        /\ UNCHANGED <<counter, decryptBuf, remaining, read, want, got>>
        /\ UNCHANGED <<writes, nwritten, encCount, heard>>
    BY DEF CredentialsWritten, serverVars, readVars, writeVars
  <1>3. nwritten = LoginBytes /\ LoginBytes \in Nat
    <2>1. ASSUME NEW i \in 1 .. Len(CredentialSizes), Left(i) PROVE FALSE
      <3>1. Len(writes) = 0 /\ Len(CredentialSizes) \in Nat
        BY <1>2, CredentialsAre
      <3> QED BY <2>1, <3>1 DEF Left
    <2>2. nwritten = LoginBytes
      BY <1>1, <1>2, <2>1 DEF WriteInv, WritePlaces
    <2> QED BY <1>1, <2>2, LoginIs DEF StepInv
  <1>4. provider /\ encrypted \in BOOLEAN
    BY <1>1, <1>2, ProviderIs
  <1>5. WriteInv'
    <2>1. LoginBytes' = LoginBytes
      BY <1>2, LoginSame
    <2>2. WritePlaces'
      BY <1>2, <1>3, <2>1 DEF WritePlaces
    <2> QED BY <1>1, <1>2, <1>4, <2>1, <2>2 DEF WriteInv
  <1>6. StepInv'
    <2>1. provider' = (step' \in {"agreed", "result"} => encrypted')
      <3>1. CASE encrypted
        BY <1>2, <1>4, <3>1
      <3>2. CASE ~encrypted
        BY <1>2, <1>4, <3>2
      <3> QED BY <3>1, <3>2
    <2> QED BY <1>1, <1>2, <1>4, <2>1 DEF StepInv, Steps
  <1>7. Len(got) = HashSize + 1 /\ HashSize \in Nat
    BY <1>1, <1>2, SizesAssumption DEF Places
  <1>8. Places'
    BY <1>1, <1>2, <1>7 DEF Places
  <1>9. server # "result" => remaining = <<>> /\ decryptBuf = <<>> /\ wire = <<>>
    <2>1. SUFFICES ASSUME server # "result" PROVE remaining = <<>> /\ decryptBuf = <<>> /\ wire = <<>>
      OBVIOUS
    <2>2. server \in {"start", "hash", "subtype"}
      BY <1>1, <2>1 DEF StepInv, ServerLogin
    <2>3. Len(got) >= nsent
      BY <1>1, <1>7, <2>2 DEF Places
    <2> QED BY <1>1, <2>1, <2>3, AllRead
  <1>10. ReadTypes'
    BY <1>1, <1>2 DEF ReadTypes
  <1>11. Stream'
    BY <1>1, <1>2, <1>9 DEF Stream
  <1> QED BY <1>5, <1>6, <1>8, <1>10, <1>11 DEF IInv, ReadInv

LEMMA DeliverKept ==
  ASSUME IInv, read = "active", NEW bytes, From(bytes, Len(got)), Len(bytes) <= want, Deliver(bytes),
         UNCHANGED <<serverVars, provider, writeVars>>
  PROVE  /\ StepInv' /\ WriteInv' /\ Places'
         /\ From(got', 0) /\ Len(got') = Len(got) + Len(bytes)
         /\ want' \in Nat /\ read' \in {"idle", "active"}
  <1>1. StepInv /\ WriteInv /\ ReadTypes /\ Places
    BY DEF IInv, ReadInv
  <1>2. UNCHANGED <<encrypted, subtype, server, nsent, npackage>>
    BY DEF serverVars
  <1>3. got' = got \o bytes /\ want' = want - Len(bytes)
    BY DEF Deliver
  <1>4. want \in Nat /\ Len(got) \in Nat /\ Len(bytes) \in Nat /\ From(got, 0) /\ HashSize \in Nat
    BY <1>1, SizesAssumption DEF ReadTypes, From
  <1>5. From(got', 0) /\ Len(got') = Len(got) + Len(bytes)
    <2>1. 0 + Len(got) = Len(got)
      BY <1>4
    <2> QED BY <1>3, <1>4, <2>1, CountOn
  <1>6. want' \in Nat /\ Len(got') + want' = Len(got) + want /\ Len(got') >= Len(got) /\ Len(got') \in Nat
    BY <1>3, <1>4, <1>5
  <1>7. step \in {"start", "hash", "agreed", "result"}
    BY <1>1 DEF StepInv, Steps, Places
  <1>8. /\ step = "start" => Len(got) + want = HashSize
        /\ step = "hash" => Len(got) + want = HashSize + 1
        /\ step \in {"agreed", "result"} => Len(got) >= HashSize + 1
    BY <1>1 DEF Places
  <1>9. CASE want' = 0
    <2>1. read' = "idle" /\ step' = StepAfter[step]
      BY <1>9 DEF Deliver
    <2>2. /\ step = "start" => step' = "hash"
          /\ step = "hash" => step' = "subtype"
          /\ step \in {"agreed", "result"} => step' = "result"
      BY <2>1 DEF StepAfter
    <2>3. WriteInv'
      BY <1>1, <1>2, <1>7, <2>1, WriteDuringRead
    <2>4. StepInv'
      <3>1. (step' \in {"agreed", "result"}) = (step \in {"agreed", "result"}) /\ step' \in Steps
        BY <1>7, <2>2 DEF Steps
      <3>2. server' = "result" => step' \in {"credentials", "agreed", "result"}
        BY <1>1, <1>2, <1>7, <2>2 DEF StepInv
      <3>3. provider' = (step' \in {"agreed", "result"} => encrypted')
        <4>1. provider = (step \in {"agreed", "result"} => encrypted)
          BY <1>1 DEF StepInv
        <4>2. CASE step \in {"agreed", "result"}
          <5>1. step' \in {"agreed", "result"}
            BY <2>2, <4>2
          <5> QED BY <1>2, <4>1, <4>2, <5>1
        <4>3. CASE step \notin {"agreed", "result"}
          <5>1. step' \notin {"agreed", "result"}
            BY <1>7, <2>2, <4>3
          <5> QED BY <1>2, <4>1, <4>3, <5>1
        <4> QED BY <4>2, <4>3
      <3> QED BY <1>1, <1>2, <3>1, <3>2, <3>3 DEF StepInv
    <2>5. Len(got') = Len(got) + want
      BY <1>4, <1>6, <1>9
    <2>6. Places'
      <3>1. CASE step = "start"
        BY <1>1, <1>2, <1>8, <2>1, <2>2, <2>5, <3>1 DEF Places
      <3>2. CASE step = "hash"
        BY <1>1, <1>2, <1>8, <2>1, <2>2, <2>5, <3>2 DEF Places
      <3>3. CASE step \in {"agreed", "result"}
        <4>1. Len(got') >= HashSize + 1 /\ step' = "result"
          BY <1>4, <1>6, <1>8, <2>2, <3>3
        <4> QED BY <1>1, <1>2, <4>1 DEF Places
      <3> QED BY <1>7, <3>1, <3>2, <3>3
    <2> QED BY <1>5, <1>6, <2>1, <2>3, <2>4, <2>6
  <1>10. CASE want' # 0
    <2>1. UNCHANGED <<read, step>>
      BY <1>10 DEF Deliver
    <2>2. WriteInv'
      <3>1. step = "start" => writes = <<>>
        BY <1>1, NothingToWrite
      <3> QED BY <1>1, <1>2, <2>1, <3>1, WriteDuringRead
    <2>3. StepInv'
      BY <1>1, <1>2, <2>1, StepSame
    <2>4. Places'
      <3>1. step \in {"agreed", "result"} => Len(got') >= HashSize + 1
        BY <1>4, <1>6, <1>8
      <3>2. /\ step = "start" => Len(got') + want' = HashSize
            /\ step = "hash" => Len(got') + want' = HashSize + 1
        BY <1>6, <1>8
      <3> QED BY <1>1, <1>2, <1>7, <2>1, <3>1, <3>2 DEF Places
    <2> QED BY <1>5, <1>6, <2>1, <2>2, <2>3, <2>4
  <1> QED BY <1>9, <1>10

LEMMA LeastIs ==
  ASSUME NEW a \in Nat, NEW b \in Nat
  PROVE  Least(a, b) \in Nat /\ Least(a, b) <= a /\ Least(a, b) <= b
  BY DEF Least

(* What is handed out, and what is kept for the next read. *)
LEMMA HandOut ==
  ASSUME NEW s, NEW a \in Nat, From(s, a), NEW n \in Nat, n <= Len(s)
  PROVE  /\ From(SubSeq(s, 1, n), a) /\ Len(SubSeq(s, 1, n)) = n
         /\ From(SubSeq(s, n + 1, Len(s)), a + n) /\ Len(SubSeq(s, n + 1, Len(s))) = Len(s) - n /\ Len(s) \in Nat
  <1>1. Len(s) \in Nat
    BY DEF From
  <1>2. From(SubSeq(s, 0 + 1, n), a + 0) /\ Len(SubSeq(s, 0 + 1, n)) = n - 0
    <2>1. 0 \in Nat /\ 0 <= n
      OBVIOUS
    <2> QED BY <2>1, Part
  <1>3. 0 + 1 = 1 /\ a + 0 = a /\ n - 0 = n
    OBVIOUS
  <1>4. From(SubSeq(s, n + 1, Len(s)), a + n) /\ Len(SubSeq(s, n + 1, Len(s))) = Len(s) - n
    <2>1. Len(s) <= Len(s)
      BY <1>1
    <2> QED BY <1>1, <2>1, Part
  <1> QED BY <1>1, <1>2, <1>3, <1>4

LEMMA ReadRemainingKept ==
  ASSUME IInv, ReadRemaining
  PROVE  IInv'
  <1>1. StepInv /\ ReadTypes /\ Places /\ Stream
    BY DEF IInv, ReadInv
  <1> DEFINE n == Least(want, Len(remaining))
             bytes == SubSeq(remaining, 1, n)
  <1>2. /\ read = "active" /\ remaining # <<>> /\ Deliver(bytes)
        /\ remaining' = SubSeq(remaining, n + 1, Len(remaining))
        /\ UNCHANGED <<serverVars, wire, provider, counter, decryptBuf, writeVars>>
        /\ UNCHANGED <<encrypted, subtype, server, nsent, npackage>>
    BY DEF ReadRemaining, serverVars
  <1>3. Len(remaining) \in Nat /\ Len(got) \in Nat /\ want \in Nat /\ From(remaining, Len(got))
    BY <1>1 DEF ReadTypes, From
  <1>4. n \in Nat /\ n <= want /\ n <= Len(remaining)
    BY <1>3, LeastIs
  <1> HIDE DEF n
  <1>5. /\ From(bytes, Len(got)) /\ Len(bytes) = n
        /\ From(remaining', Len(got) + n) /\ Len(remaining') = Len(remaining) - n
    BY <1>2, <1>3, <1>4, HandOut
  <1> HIDE DEF bytes
  <1>6. /\ StepInv' /\ WriteInv' /\ Places'
        /\ From(got', 0) /\ Len(got') = Len(got) + Len(bytes)
        /\ want' \in Nat /\ read' \in {"idle", "active"}
    BY <1>2, <1>4, <1>5, DeliverKept
  <1>7. ReadTypes'
    BY <1>1, <1>2, <1>5, <1>6 DEF ReadTypes
  <1>8. Len(got') + Len(remaining') = Len(got) + Len(remaining)
    BY <1>3, <1>4, <1>5, <1>6
  <1>9. Stream'
    BY <1>1, <1>2, <1>6, <1>8 DEF Stream, StepInv
  <1> QED BY <1>6, <1>7, <1>9 DEF IInv, ReadInv

(* What comes from the socket, and what stays on the way. *)
LEMMA Taken ==
  ASSUME NEW w \in Seq(Bytes), NEW k \in Nat, k <= Len(w)
  PROVE  /\ SubSeq(w, 1, k) \in Seq(Bytes) /\ SubSeq(w, k + 1, Len(w)) \in Seq(Bytes)
         /\ Len(SubSeq(w, 1, k)) = k /\ \A i \in 1 .. k : SubSeq(w, 1, k)[i] = w[i]
         /\ w = SubSeq(w, 1, k) \o SubSeq(w, k + 1, Len(w))
  <1> DEFINE f == SubSeq(w, 1, k)
             r == SubSeq(w, k + 1, Len(w))
  <1>1. f \in Seq(Bytes) /\ Len(f) = k /\ \A i \in 1 .. k : f[i] = w[i]
    OBVIOUS
  <1>2. r \in Seq(Bytes) /\ Len(r) = Len(w) - k /\ Len(w) \in Nat /\ \A i \in 1 .. Len(w) - k : r[i] = w[k + i]
    BY CutIs
  <1> HIDE DEF f, r
  <1> DEFINE u == f \o r
  <1>3. /\ u \in Seq(Bytes) /\ Len(u) = Len(f) + Len(r) /\ Len(f) \in Nat /\ Len(r) \in Nat
        /\ \A i \in 1 .. Len(f) : u[i] = f[i]
        /\ \A i \in 1 .. Len(r) : u[Len(f) + i] = r[i]
    <2>1. f \in Seq(Bytes) /\ r \in Seq(Bytes)
      BY <1>1, <1>2
    <2> QED BY <2>1, JoinIs
  <1> HIDE DEF u
  <1>4. Len(u) = Len(w)
    BY <1>1, <1>2, <1>3
  <1>5. ASSUME NEW i \in 1 .. Len(w) PROVE w[i] = u[i]
    <2>1. CASE i <= k
      <3>1. i \in 1 .. k
        BY <1>2, <2>1
      <3> QED BY <1>1, <1>3, <3>1
    <2>2. CASE ~(i <= k)
      <3> DEFINE j == i - k
      <3>1. j \in 1 .. Len(w) - k /\ i = k + j
        BY <1>2, <2>2
      <3> HIDE DEF j
      <3>2. u[i] = r[j] /\ r[j] = w[i]
        BY <1>1, <1>2, <1>3, <3>1
      <3> QED BY <3>2
    <2> QED BY <2>1, <2>2
  <1>6. w = u
    BY <1>3, <1>4, <1>5, SeqEqual
  <1> QED BY <1>1, <1>2, <1>6 DEF f, r, u

LEMMA ReadSealedKept ==
  ASSUME IInv, NEW k, ReadSealed(k)
  PROVE  IInv'
  <1>1. StepInv /\ WriteInv /\ ReadTypes /\ Places /\ Stream
    BY DEF IInv, ReadInv
  <1> DEFINE front == SubSeq(wire, 1, k)
             rest == SubSeq(wire, k + 1, Len(wire))
             d == Decrypt(decryptBuf \o front, counter)
             n == Least(want, Len(d.out))
             bytes == SubSeq(d.out, 1, n)
  <1>2. /\ read = "active" /\ provider /\ remaining = <<>> /\ k \in 1 .. Least(want, Len(wire))
        /\ wire' = rest /\ decryptBuf' = d.buf /\ counter' = d.count
        /\ IF ~d.ok
           THEN read' = "refused" /\ UNCHANGED <<step, remaining, want, got>>
           ELSE IF d.out = <<>>
           THEN UNCHANGED <<read, step, remaining, want, got>>
           ELSE Deliver(bytes) /\ remaining' = SubSeq(d.out, n + 1, Len(d.out))
        /\ UNCHANGED <<serverVars, provider, writeVars>>
    BY DEF ReadSealed
  <1>3. UNCHANGED <<encrypted, subtype, server, nsent, npackage>>
    BY <1>2 DEF serverVars
  <1>4. /\ Len(wire) \in Nat /\ wire \in Seq(Bytes) /\ decryptBuf \in Seq(Bytes) /\ counter \in Nat
        /\ Len(got) \in Nat /\ want \in Nat /\ nsent \in Nat
    BY <1>1 DEF ReadTypes, From
  <1>5. k \in Nat /\ k <= Len(wire)
    <2> DEFINE l == Least(want, Len(wire))
    <2>1. l \in Nat /\ l <= Len(wire)
      BY <1>4, LeastIs
    <2>2. k \in 1 .. l
      BY <1>2
    <2> HIDE DEF l
    <2> QED BY <1>4, <2>1, <2>2
  <1>6. server # "result" \/ encrypted
    <2>1. step \in {"agreed", "result"} => encrypted
      BY <1>1, <1>2, ProviderIs
    <2>2. step # "credentials"
      BY <1>1, <1>2 DEF Places
    <2> QED BY <1>1, <2>1, <2>2 DEF StepInv
  <1>7. Chain(decryptBuf \o wire, counter + 1, npackage + 1, Len(got), nsent)
    <2>1. Len(got) + Len(remaining) = Len(got)
      BY <1>2, <1>4
    <2> QED BY <1>1, <1>6, <2>1 DEF Stream
  <1>8. front \in Seq(Bytes) /\ rest \in Seq(Bytes) /\ wire = front \o rest
    BY <1>4, <1>5, Taken
  <1> HIDE DEF front, rest
  <1>9. decryptBuf \o front \in Seq(Bytes) /\ decryptBuf \o wire = (decryptBuf \o front) \o rest
    <2>1. decryptBuf \o front \in Seq(Bytes)
      BY <1>4, <1>8, JoinIs
    <2>2. (decryptBuf \o front) \o rest = decryptBuf \o (front \o rest)
      BY <1>4, <1>8, ConcatAssociative
    <2> QED BY <1>8, <2>1, <2>2
  <1>10. Sound(d, rest, npackage + 1, Len(got), nsent)
    BY <1>4, <1>7, <1>8, <1>9, DecryptSound
  <1> HIDE DEF d
  <1>11. /\ d.ok /\ d.count \in Nat /\ d.buf \in Seq(Bytes) /\ From(d.out, Len(got)) /\ Len(d.out) \in Nat
         /\ Chain(d.buf \o rest, d.count + 1, npackage + 1, Len(got) + Len(d.out), nsent)
    BY <1>10 DEF Sound, From
  <1>12. CASE d.out = <<>>
    <2>1. UNCHANGED <<read, step, remaining, want, got>>
      BY <1>2, <1>11, <1>12
    <2>2. StepInv'
      BY <1>1, <1>2, <1>3, <2>1, StepSame
    <2>3. WriteInv'
      <3>1. step = "start" => writes = <<>>
        BY <1>1, <1>2, NothingToWrite
      <3> QED BY <1>1, <1>2, <1>3, <2>1, <3>1, WriteDuringRead
    <2>4. Places'
      BY <1>1, <1>3, <2>1 DEF Places
    <2>5. ReadTypes'
      BY <1>1, <1>2, <1>3, <1>8, <1>11, <2>1 DEF ReadTypes
    <2>6. Len(got) + Len(d.out) = Len(got') + Len(remaining')
      BY <1>2, <1>12, <2>1
    <2>7. Stream'
      BY <1>2, <1>3, <1>6, <1>11, <2>6 DEF Stream
    <2> QED BY <2>2, <2>3, <2>4, <2>5, <2>7 DEF IInv, ReadInv
  <1>13. CASE d.out # <<>>
    <2>1. Deliver(bytes) /\ remaining' = SubSeq(d.out, n + 1, Len(d.out))
      BY <1>2, <1>11, <1>13
    <2>2. n \in Nat /\ n <= want /\ n <= Len(d.out)
      BY <1>4, <1>11, LeastIs
    <2> HIDE DEF n
    <2>3. /\ From(bytes, Len(got)) /\ Len(bytes) = n
          /\ From(remaining', Len(got) + n) /\ Len(remaining') = Len(d.out) - n
      BY <1>4, <1>11, <2>1, <2>2, HandOut
    <2> HIDE DEF bytes
    <2>4. /\ StepInv' /\ WriteInv' /\ Places'
          /\ From(got', 0) /\ Len(got') = Len(got) + Len(bytes)
          /\ want' \in Nat /\ read' \in {"idle", "active"}
      BY <1>2, <2>1, <2>2, <2>3, DeliverKept
    <2>5. ReadTypes'
      BY <1>1, <1>2, <1>3, <1>8, <1>11, <2>3, <2>4 DEF ReadTypes
    <2>6. Len(got) + Len(d.out) = Len(got') + Len(remaining')
      <3> DEFINE x == Len(d.out)
                 y == Len(got')
                 z == Len(remaining')
                 g == Len(got)
      <3>1. y = g + n /\ z = x - n /\ x \in Nat /\ g \in Nat /\ n \in Nat
        BY <1>4, <1>11, <2>2, <2>3, <2>4
      <3> HIDE DEF x, y, z, g
      <3>2. g + x = y + z
        BY <3>1
      <3> QED BY <3>2 DEF x, y, z, g
    <2>7. Stream'
      BY <1>2, <1>3, <1>6, <1>11, <2>6 DEF Stream
    <2> QED BY <2>4, <2>5, <2>7 DEF IInv, ReadInv
  <1> QED BY <1>12, <1>13

LEMMA ReadPlainKept ==
  ASSUME IInv, NEW k, ReadPlain(k)
  PROVE  IInv'
  <1>1. StepInv /\ WriteInv /\ ReadTypes /\ Places /\ Stream
    BY DEF IInv, ReadInv
  <1> DEFINE bytes == [i \in 1 .. k |-> wire[i].val]
             rest == SubSeq(wire, k + 1, Len(wire))
  <1>2. /\ read = "active" /\ ~provider /\ k \in (IF want = 0 THEN 0 ELSE 1) .. Least(want, Len(wire))
        /\ wire' = rest /\ Deliver(bytes)
        /\ UNCHANGED <<serverVars, provider, counter, decryptBuf, remaining, writeVars>>
        /\ UNCHANGED <<encrypted, subtype, server, nsent, npackage>>
    BY DEF ReadPlain, serverVars
  <1>3. /\ Len(wire) \in Nat /\ wire \in Seq(Bytes) /\ Len(got) \in Nat /\ want \in Nat /\ nsent \in Nat
    BY <1>1 DEF ReadTypes, From
  <1>4. k \in Nat /\ k <= want /\ k <= Len(wire)
    <2> DEFINE l == Least(want, Len(wire))
    <2>1. l \in Nat /\ l <= want /\ l <= Len(wire)
      BY <1>3, LeastIs
    <2> HIDE DEF l
    <2>2. k \in 0 .. l
      BY <1>2, <2>1 DEF l
    <2> QED BY <1>3, <2>1, <2>2
  <1>5. decryptBuf = <<>> /\ remaining = <<>> /\ (server # "result" => wire = <<>>) /\ ~encrypted
    BY <1>1, <1>2, ProviderIs DEF Stream
  <1>6. server = "result" => Clear(wire, Len(got), nsent)
    BY <1>1, <1>5 DEF Stream
  <1>7. rest \in Seq(Bytes) /\ Len(rest) = Len(wire) - k /\ \A i \in 1 .. Len(wire) - k : rest[i] = wire[k + i]
    BY <1>3, <1>4, CutIs
  <1>8. \A i \in 1 .. k : wire[i].val = Len(got) + i
    <2> SUFFICES ASSUME NEW i \in 1 .. k PROVE wire[i].val = Len(got) + i
      OBVIOUS
    <2>1. i \in 1 .. Len(wire) /\ wire # <<>>
      BY <1>3, <1>4
    <2> QED BY <1>5, <1>6, <2>1 DEF Clear
  <1>9. From(bytes, Len(got)) /\ Len(bytes) = k
    <2>1. bytes \in [1 .. k -> Nat] /\ \A i \in 1 .. k : bytes[i] = Len(got) + i
      BY <1>3, <1>8
    <2> HIDE DEF bytes
    <2>2. bytes \in Seq(Nat) /\ Len(bytes) = k
      BY <1>4, <2>1, IsSeqOf
    <2> QED BY <2>1, <2>2 DEF From
  <1> HIDE DEF bytes, rest
  <1>10. /\ StepInv' /\ WriteInv' /\ Places'
         /\ From(got', 0) /\ Len(got') = Len(got) + k
         /\ want' \in Nat /\ read' \in {"idle", "active"}
    BY <1>2, <1>4, <1>9, DeliverKept
  <1>11. From(remaining', Len(got'))
    BY <1>2, <1>5 DEF From
  <1>12. ReadTypes'
    BY <1>1, <1>2, <1>7, <1>10, <1>11 DEF ReadTypes
  <1>13. CASE server = "result"
    <2>1. Clear(rest, Len(got'), nsent)
      <3>1. nsent = Len(got) + Len(wire) /\ \A i \in 1 .. Len(wire) : wire[i].val = Len(got) + i
        BY <1>6, <1>13 DEF Clear
      <3>2. nsent = Len(got') + Len(rest)
        BY <1>3, <1>4, <1>7, <1>10, <3>1
      <3>3. ASSUME NEW i \in 1 .. Len(rest) PROVE rest[i].val = Len(got') + i
        <4>1. i \in 1 .. Len(wire) - k /\ k + i \in 1 .. Len(wire) /\ Len(got) + (k + i) = Len(got') + i
          BY <1>3, <1>4, <1>7, <1>10
        <4> QED BY <1>7, <3>1, <4>1
      <3> QED BY <1>7, <3>2, <3>3 DEF Clear
    <2>2. Stream'
      BY <1>2, <1>5, <1>13, <2>1 DEF Stream
    <2> QED BY <1>10, <1>12, <2>2 DEF IInv, ReadInv
  <1>14. CASE server # "result"
    <2>1. wire = <<>> /\ k = 0 /\ Len(wire) = 0
      BY <1>3, <1>4, <1>5, <1>14
    <2>2. wire' = <<>> /\ Len(got') = Len(got)
      BY <1>2, <1>3, <1>7, <1>10, <2>1
    <2>3. Stream'
      BY <1>1, <1>2, <1>5, <1>14, <2>1, <2>2 DEF Stream
    <2> QED BY <1>10, <1>12, <2>3 DEF IInv, ReadInv
  <1> QED BY <1>13, <1>14

-----------------------------------------------------------------------------
LEMMA InitStream ==
  ASSUME CredentialsAsked, Init
  PROVE  IInv
  <1>1. /\ encrypted \in BOOLEAN /\ subtype = "credentials" /\ server = "start" /\ step = "start"
        /\ nsent = 0 /\ npackage = 0 /\ wire = <<>> /\ provider = TRUE
        /\ counter = 0 /\ decryptBuf = <<>> /\ remaining = <<>> /\ read = "idle" /\ want = 0 /\ got = <<>>
        /\ writes = <<HashSize>> /\ nwritten = 0 /\ encCount = 0 /\ heard = <<>>
    BY SizesAssumption DEF Init, CredentialsAsked
  <1>2. StepInv
    BY <1>1 DEF StepInv, Steps, ServerLogin
  <1>3. WriteInv
    <2>1. Arrived(heard, nwritten, encrypted, LoginBytes)
      BY <1>1 DEF Arrived, UpTo
    <2>2. HashSize \in Nat
      BY SizesAssumption
    <2>3. writes \in Seq(Nat) /\ Len(writes) = 1 /\ nwritten + writes[1] = HashSize /\ Len(heard) = 0
      BY <1>1, <2>2
    <2> QED BY <1>1, <2>1, <2>3 DEF WriteInv, WritePlaces
  <1>4. ReadTypes /\ Places
    BY <1>1 DEF ReadTypes, Places, From
  <1>5. Stream
    <2>1. Chain(<<>>, 1, 1, 0, 0)
      BY NoPackage
    <2>2. decryptBuf \o wire = <<>> /\ counter + 1 = 1 /\ npackage + 1 = 1 /\ Len(got) + Len(remaining) = 0
      BY <1>1
    <2> QED BY <1>1, <2>1, <2>2 DEF Stream
  <1> QED BY <1>2, <1>3, <1>4, <1>5 DEF IInv, ReadInv

LEMMA StreamStep ==
  ASSUME IInv, [Next]_vars
  PROVE  IInv'
  <1>1. CASE ServerHash
    BY <1>1, ServerHashKept
  <1>2. CASE ServerSubtype
    BY <1>2, ServerSubtypeKept
  <1>3. CASE ServerResult
    BY <1>3, ServerResultKept
  <1>4. CASE ServerData
    BY <1>4, ServerDataKept
  <1>5. CASE Client
    <2>1. CASE StartRead
      BY <2>1, StartReadKept
    <2>2. CASE Credentials
      BY <2>2, CredentialsKept
    <2>3. CASE CredentialsWritten
      BY <2>3, CredentialsWrittenKept
    <2>4. CASE ReadRemaining
      BY <2>4, ReadRemainingKept
    <2>5. ASSUME NEW k \in 0 .. MaxBytes, ReadSealed(k) PROVE IInv'
      BY <2>5, ReadSealedKept
    <2>6. ASSUME NEW k \in 0 .. MaxBytes, ReadPlain(k) PROVE IInv'
      BY <2>6, ReadPlainKept
    <2> QED BY <1>5, <2>1, <2>2, <2>3, <2>4, <2>5, <2>6 DEF Client, Read
  <1>6. CASE Write
    <2>1. CASE WriteSealed
      BY <2>1, WriteSealedKept
    <2>2. CASE WritePlain
      BY <2>2, WritePlainKept
    <2> QED BY <1>6, <2>1, <2>2 DEF Write
  <1>7. CASE QueueWrite
    BY <1>7, QueueWriteKept
  <1>8. CASE ReadReset
    BY <1>8, ReadResetKept
  <1>9. CASE UNCHANGED vars
    <2>1. UNCHANGED <<serverVars, wire, step, provider, readVars, writeVars>>
      BY <1>9 DEF vars
    <2>2. /\ UNCHANGED <<serverVars, wire, step, provider, readVars>>
          /\ UNCHANGED <<writes, nwritten, encCount, heard, provider, step, read, encrypted, subtype>>
          /\ UNCHANGED <<server, encrypted, subtype, step, provider>>
      BY <2>1 DEF serverVars, readVars, writeVars
    <2> QED BY <2>2, StepSame, ReadSame, WriteSame DEF IInv
  <1> QED BY <1>1, <1>2, <1>3, <1>4, <1>5, <1>6, <1>7, <1>8, <1>9 DEF Next

LEMMA ClearListed ==
  ASSUME NEW w, NEW a \in Nat, NEW z, Clear(w, a, z)
  PROVE  Listed(w, a, z)
  <1>1. Len(w) \in Nat /\ z = a + Len(w) /\ \A i \in 1 .. Len(w) : w[i].val = a + i
    BY DEF Clear
  <1> DEFINE n == Len(w)
  <1>2. n \in Nat /\ z = a + n /\ \A i \in 1 .. n : w[i].val = a + i
    BY <1>1
  <1>3. DataOf(w) = 1 .. n
    <2> HIDE DEF n
    <2>1. \A i \in 1 .. n : w[i].val # 0
      BY <1>2
    <2> QED BY <2>1 DEF DataOf, n
  <1> HIDE DEF n
  <1>4. {w[i].val : i \in 1 .. n} = a + 1 .. z
    <2>1. \A i \in 1 .. n : w[i].val \in a + 1 .. z
      BY <1>2
    <2>2. ASSUME NEW v \in a + 1 .. z PROVE \E i \in 1 .. n : w[i].val = v
      <3> DEFINE j == v - a
      <3>1. j \in 1 .. n /\ a + j = v
        BY <1>2
      <3> HIDE DEF j
      <3> QED BY <1>2, <3>1
    <2> QED BY <2>1, <2>2
  <1>5. \A i, j \in 1 .. n : i < j => w[i].val < w[j].val
    BY <1>2
  <1> QED BY <1>3, <1>4, <1>5 DEF Listed

LEMMA InvNothingLost ==
  ASSUME IInv
  PROVE  NothingLost
  <1>1. StepInv /\ ReadTypes /\ Stream
    BY DEF IInv, ReadInv
  <1> DEFINE had == got \o IF provider THEN remaining ELSE <<>>
             coming == (IF provider THEN decryptBuf ELSE <<>>) \o wire
  <1>2. (~provider => remaining = <<>> /\ decryptBuf = <<>>) /\ provider \in BOOLEAN
    BY <1>1 DEF Stream, StepInv
  <1>3. had = got \o remaining /\ coming = decryptBuf \o wire
    BY <1>2
  <1> HIDE DEF had, coming
  <1>4. From(got, 0) /\ From(remaining, Len(got)) /\ Len(got) \in Nat /\ wire \in Seq(Bytes) /\ decryptBuf \in Seq(Bytes) /\ nsent \in Nat
    BY <1>1 DEF ReadTypes, From
  <1>5. From(had, 0) /\ Len(had) = Len(got) + Len(remaining) /\ Len(remaining) \in Nat
    <2>1. 0 + Len(got) = Len(got)
      BY <1>4
    <2> QED BY <1>3, <1>4, <2>1, CountOn
  <1>6. had = [i \in 1 .. Len(had) |-> i]
    <2>1. Len(had) \in Nat /\ Len(had) <= Len(had) /\ had \in Seq(Nat)
      BY <1>4, <1>5 DEF From
    <2>2. had \in [1 .. Len(had) -> Nat] /\ \A i \in 1 .. Len(had) : had[i] = i
      BY <1>5, <2>1 DEF From
    <2> QED BY <2>2
  <1>7. Listed(coming, Len(had), nsent)
    <2> DEFINE n == Len(had)
    <2>1. n \in Nat /\ n = Len(got) + Len(remaining)
      BY <1>4, <1>5
    <2> HIDE DEF n
    <2>2. CASE server # "result" \/ encrypted
      <3>1. Chain(coming, counter + 1, npackage + 1, n, nsent)
        BY <1>1, <1>3, <2>1, <2>2 DEF Stream
      <3>2. Listed(coming, n, nsent)
        BY <1>4, <2>1, <3>1, ChainListed
      <3> QED BY <3>2 DEF n
    <2>3. CASE ~(server # "result" \/ encrypted)
      <3>1. decryptBuf = <<>> /\ remaining = <<>> /\ Clear(wire, Len(got), nsent)
        BY <1>1, <2>3 DEF Stream
      <3>2. coming = wire /\ n = Len(got)
        BY <1>3, <1>4, <2>1, <3>1
      <3>3. Listed(coming, n, nsent)
        BY <2>1, <3>1, <3>2, ClearListed
      <3> QED BY <3>3 DEF n
    <2> QED BY <2>2, <2>3
  <1>8. read # "refused"
    BY <1>1 DEF ReadTypes
  <1> QED BY <1>6, <1>7, <1>8 DEF NothingLost, Listed, DataOf, had, coming

LEMMA InvWritesArrive ==
  ASSUME IInv
  PROVE  WritesArrive
  <1>1. Arrived(heard, nwritten, encrypted, LoginBytes)
    BY DEF IInv, WriteInv
  <1>2. \A i : HeardUpTo(i) = UpTo(heard, i)
    BY DEF HeardUpTo, UpTo
  <1> QED BY <1>1, <1>2 DEF WritesArrive, Arrived, Due

(* The inductive invariant: at each step of the login both sides know what has
   been sent, read and written; what is on its way is whole packages up to
   where the two go on without, and what has arrived the packages due. *)
THEOREM StreamInvariance == CredentialsAsked => (Spec => []IInv)
  <1> SUFFICES ASSUME CredentialsAsked PROVE Spec => []IInv
    OBVIOUS
  <1>1. Init => IInv
    BY InitStream
  <1>2. IInv /\ [Next]_vars => IInv'
    BY StreamStep
  <1> QED BY <1>1, <1>2, PTL DEF Spec

(* Nothing the server sends is lost, repeated or taken for a forgery, however
   it is packaged, cut up on the way and read. *)
THEOREM NothingIsLost == CredentialsAsked => (Spec => []NothingLost)
  <1> SUFFICES ASSUME CredentialsAsked PROVE Spec => []NothingLost
    OBVIOUS
  <1>1. Spec => []IInv
    BY StreamInvariance
  <1>2. IInv => NothingLost
    BY InvNothingLost
  <1> QED BY <1>1, <1>2, PTL

(* What the client writes arrives in order, in packages the server can open,
   whatever the sizes of the writes, the packages and the pieces handed over. *)
THEOREM WritesDoArrive == CredentialsAsked => (Spec => []WritesArrive)
  <1> SUFFICES ASSUME CredentialsAsked PROVE Spec => []WritesArrive
    OBVIOUS
  <1>1. Spec => []IInv
    BY StreamInvariance
  <1>2. IInv => WritesArrive
    BY InvWritesArrive
  <1> QED BY <1>1, <1>2, PTL
=============================================================================
