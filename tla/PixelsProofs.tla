---------------------------- MODULE PixelsProofs ----------------------------
(***************************************************************************)
(* Proofs about Pixels, and about FrameBuffer with which it draws.  What a *)
(* codec decodes is compared with what was encoded: the operations it asks *)
(* for lie within the rectangle, and the last one that covers a pixel      *)
(* leaves there what the server shows.  From that an invariant follows for *)
(* the picture: what is still to be drawn leads to it.                     *)
(***************************************************************************)
EXTENDS Pixels, SequenceTheorems, FiniteSetTheorems, NaturalsInduction, WellFoundedInduction, TLAPS

(* Sequences: what the operators of the model do with them. *)

(* Induction over the natural numbers, for a set given as such. *)
LEMMA SetInduction ==
  ASSUME NEW T, 0 \in T, \A n \in Nat : n \in T => n + 1 \in T
  PROVE  Nat \subseteq T
  <1> DEFINE R == {ss \in Nat \X Nat : ss[1] < ss[2]}
             U == Nat \ T
  <1>1. IsWellFoundedOn(R, Nat)
    <2>1. IsWellFoundedOn(OpToRel(<, Nat), Nat)
      BY NatLessThanWellFounded
    <2> QED BY <2>1 DEF OpToRel
  <1>2. SUFFICES ASSUME U # {} PROVE FALSE
    OBVIOUS
  <1>3. PICK x \in U : \A y \in U : ~(<<y, x>> \in R)
    <2> HIDE DEF R
    <2>1. U \subseteq Nat
      OBVIOUS
    <2> QED BY <1>1, <1>2, <2>1, WFMin
  <1>4. \A y \in U : ~(y < x)
    <2>1. \A y \in Nat : y < x => <<y, x>> \in R
      BY <1>3
    <2> HIDE DEF R
    <2> QED BY <1>3, <2>1
  <1>5. x # 0 /\ x - 1 \in Nat
    BY <1>3
  <1>6. x - 1 \in T
    BY <1>3, <1>4, <1>5
  <1> QED BY <1>3, <1>5, <1>6

(* A property of 0 .. n, from one number to the next. *)
LEMMA UpTo ==
  ASSUME NEW n \in Nat, NEW T, 0 \in T, \A k \in 0 .. n - 1 : k \in T => k + 1 \in T
  PROVE  0 .. n \subseteq T
  <1> DEFINE U == {k \in Nat : k <= n => k \in T}
  <1>1. 0 \in U /\ \A k \in Nat : k \in U => k + 1 \in U
    OBVIOUS
  <1>2. Nat \subseteq U
    <2> HIDE DEF U
    <2> QED BY <1>1, SetInduction
  <1> QED BY <1>2

(* A set of numbers has a least one. *)
LEMMA LeastOf ==
  ASSUME NEW T, T \subseteq Nat, T # {}
  PROVE  Min(T) \in T /\ \A y \in T : Min(T) <= y
  <1>1. \E x \in T : \A y \in T : x <= y
    <2> SUFFICES ASSUME \A x \in T : \E y \in T : ~(x <= y) PROVE FALSE
      OBVIOUS
    <2> DEFINE U == {k \in Nat : \A j \in 0 .. k : j \notin T}
    <2>1. 0 \in U
      OBVIOUS
    <2>2. ASSUME NEW k \in Nat, k \in U PROVE k + 1 \in U
      <3>1. \A j \in 0 .. k : j \notin T
        BY <2>2
      <3>2. \A y \in T : k + 1 <= y
        BY <3>1
      <3>3. k + 1 \notin T
        BY <3>2
      <3> QED BY <3>1, <3>3
    <2>3. Nat \subseteq U
      <3> HIDE DEF U
      <3> QED BY <2>1, <2>2, SetInduction
    <2>4. \A x \in T : x \in U /\ x \in 0 .. x
      <3> HIDE DEF U
      <3> QED BY <2>3
    <2> QED BY <2>4
  <1> QED BY <1>1 DEF Min

(* A bounded set of numbers has a greatest one. *)
LEMMA GreatestOf ==
  ASSUME NEW n \in Nat, NEW T, T \subseteq 0 .. n, T # {}
  PROVE  \E x \in T : \A y \in T : y <= x
  <1> DEFINE U == {n - y : y \in T}
  <1>1. U \subseteq Nat /\ U # {}
    <2>1. PICK y \in T : TRUE
      OBVIOUS
    <2>2. n - y \in U
      OBVIOUS
    <2>3. \A z \in T : n - z \in Nat
      OBVIOUS
    <2> QED BY <2>2, <2>3
  <1> HIDE DEF U
  <1>2. Min(U) \in U /\ \A y \in U : Min(U) <= y
    BY <1>1, LeastOf
  <1>3. PICK x \in T : Min(U) = n - x
    BY <1>2 DEF U
  <1>4. ASSUME NEW y \in T PROVE y <= x
    <2>1. n - y \in U
      BY DEF U
    <2>2. n - x <= n - y
      BY <1>2, <1>3, <2>1
    <2> QED BY <2>2
  <1> QED BY <1>4

-----------------------------------------------------------------------------
(* Sequences. *)
LEMMA IsSeqOf ==
  ASSUME NEW S, NEW n \in Nat, NEW f \in [1 .. n -> S]
  PROVE  f \in Seq(S) /\ Len(f) = n /\ DOMAIN f = 1 .. n
  OBVIOUS

(* What stands where when two sequences are joined. *)
LEMMA JoinIs ==
  ASSUME NEW S, NEW u \in Seq(S), NEW k \in Seq(S)
  PROVE  /\ u \o k \in Seq(S) /\ Len(u \o k) = Len(u) + Len(k) /\ Len(u) \in Nat /\ Len(k) \in Nat
         /\ \A i \in 1 .. Len(u) : (u \o k)[i] = u[i]
         /\ \A i \in 1 .. Len(k) : (u \o k)[Len(u) + i] = k[i]
  OBVIOUS

(* What stands where when one more is added. *)
LEMMA AddIs ==
  ASSUME NEW S, NEW u \in Seq(S), NEW e \in S
  PROVE  /\ Append(u, e) \in Seq(S) /\ Len(Append(u, e)) = Len(u) + 1 /\ Len(u) \in Nat
         /\ \A i \in 1 .. Len(u) : Append(u, e)[i] = u[i]
         /\ Append(u, e)[Len(u) + 1] = e
  OBVIOUS

(* What is left when the first ones are dropped. *)
LEMMA DropIs ==
  ASSUME NEW S, NEW u \in Seq(S), NEW m \in Nat, m <= Len(u)
  PROVE  /\ Drop(u, m) \in Seq(S) /\ Len(Drop(u, m)) = Len(u) - m /\ Len(u) \in Nat
         /\ \A i \in 1 .. Len(u) - m : Drop(u, m)[i] = u[m + i]
  BY DEF Drop

(* Dropping twice is dropping once. *)
LEMMA DropDrop ==
  ASSUME NEW S, NEW u \in Seq(S), NEW m \in Nat, NEW n \in Nat, m + n <= Len(u)
  PROVE  Drop(Drop(u, m), n) = Drop(u, m + n)
  <1> DEFINE v == Drop(u, m)
             w == Drop(v, n)
             z == Drop(u, m + n)
  <1>0. Len(u) \in Nat /\ m <= Len(u) /\ m + n \in Nat
    OBVIOUS
  <1>1. v \in Seq(S) /\ Len(v) = Len(u) - m /\ \A i \in 1 .. Len(u) - m : v[i] = u[m + i]
    BY <1>0, DropIs
  <1> HIDE DEF v
  <1>2. w \in Seq(S) /\ Len(w) = Len(v) - n /\ \A i \in 1 .. Len(v) - n : w[i] = v[n + i]
    <2>1. v \in Seq(S) /\ n <= Len(v)
      BY <1>0, <1>1
    <2> QED BY <2>1, DropIs
  <1>3. z \in Seq(S) /\ Len(z) = Len(u) - (m + n) /\ \A i \in 1 .. Len(u) - (m + n) : z[i] = u[(m + n) + i]
    BY <1>0, DropIs
  <1> HIDE DEF w, z
  <1>4. Len(w) = Len(z)
    BY <1>0, <1>1, <1>2, <1>3
  <1>5. ASSUME NEW i \in 1 .. Len(w) PROVE w[i] = z[i]
    <2>1. i \in 1 .. Len(v) - n /\ n + i \in 1 .. Len(u) - m /\ i \in 1 .. Len(u) - (m + n) /\ m + (n + i) = (m + n) + i
      BY <1>0, <1>1, <1>2
    <2> QED BY <1>1, <1>2, <1>3, <2>1
  <1>6. w = z
    BY <1>2, <1>3, <1>4, <1>5, SeqEqual
  <1> QED BY <1>6 DEF w, v, z

-----------------------------------------------------------------------------
(* FlattenSeq: E[k] is where part k ends. *)
Flat(s, f, E) ==
  /\ E \in [0 .. Len(s) -> Nat] /\ E[0] = 0 /\ Len(f) = E[Len(s)]
  /\ \A k \in 1 .. Len(s) : E[k] = E[k - 1] + Len(s[k])
  /\ \A k, l \in 0 .. Len(s) : k <= l => E[k] <= E[l]
  /\ \A k \in 1 .. Len(s) : \A j \in 1 .. Len(s[k]) : f[E[k - 1] + j] = s[k][j]
  /\ \A i \in 1 .. Len(f) : \E k \in 1 .. Len(s) : i \in E[k - 1] + 1 .. E[k]

(* The function by which FlattenSeq is computed. *)
Flattened(g, s, n) == g = [i \in 1 .. n |-> IF i = 1 THEN s[i] ELSE g[i - 1] \o s[i]]

(* The recursive function in FlattenSeq is defined. *)
LEMMA FlattensExist ==
  ASSUME NEW s, NEW n \in Nat
  PROVE  \E g : Flattened(g, s, n)
  <1> DEFINE T == {k \in Nat : \E g : Flattened(g, s, k)}
  <1>1. 0 \in T
    <2> DEFINE g == [i \in 1 .. 0 |-> i]
    <2>1. Flattened(g, s, 0)
      BY DEF Flattened
    <2> QED BY <2>1
  <1>2. ASSUME NEW k \in Nat, k \in T PROVE k + 1 \in T
    <2>1. PICK g : Flattened(g, s, k)
      BY <1>2
    <2> DEFINE h == [i \in 1 .. k + 1 |-> IF i = k + 1 THEN IF k = 0 THEN s[i] ELSE g[k] \o s[i] ELSE g[i]]
    <2>2. \A i \in 1 .. k + 1 : h[i] = IF i = 1 THEN s[i] ELSE h[i - 1] \o s[i]
      <3> SUFFICES ASSUME NEW i \in 1 .. k + 1 PROVE h[i] = IF i = 1 THEN s[i] ELSE h[i - 1] \o s[i]
        OBVIOUS
      <3>1. CASE i = k + 1
        <4>1. i # 1 => k # 0 /\ i - 1 = k /\ k \in 1 .. k + 1 /\ h[i - 1] = g[k]
          BY <3>1
        <4>2. h[i] = IF k = 0 THEN s[i] ELSE g[k] \o s[i]
          BY <3>1
        <4> HIDE DEF h
        <4> QED BY <3>1, <4>1, <4>2
      <3>2. CASE i # k + 1
        <4>1. i \in 1 .. k /\ h[i] = g[i] /\ (i # 1 => i - 1 \in 1 .. k /\ h[i - 1] = g[i - 1])
          BY <3>2
        <4>2. g[i] = IF i = 1 THEN s[i] ELSE g[i - 1] \o s[i]
          BY <2>1, <4>1 DEF Flattened
        <4> HIDE DEF h
        <4> QED BY <4>1, <4>2
      <3> QED BY <3>1, <3>2
    <2>3. Flattened(h, s, k + 1)
      BY <2>2 DEF Flattened
    <2>4. \E f : Flattened(f, s, k + 1)
      BY <2>3
    <2> QED BY <2>4
  <1>3. n \in T
    <2> HIDE DEF T
    <2> QED BY <1>1, <1>2, SetInduction
  <1> QED BY <1>3

(* FlattenSeq puts the parts one after another. *)
LEMMA FlatOf ==
  ASSUME NEW S, NEW s \in Seq(Seq(S))
  PROVE  FlattenSeq(s) \in Seq(S) /\ \E E : Flat(s, FlattenSeq(s), E)
  <1> DEFINE n == Len(s)
             g == CHOOSE g : Flattened(g, s, n)
             E == [k \in 0 .. n |-> IF k = 0 THEN 0 ELSE Len(g[k])]
  <1>0. n \in Nat /\ \A k \in 1 .. n : s[k] \in Seq(S)
    OBVIOUS
  <1>1. CASE n = 0
    <2>1. FlattenSeq(s) = s /\ s = <<>>
      BY <1>1 DEF FlattenSeq
    <2> DEFINE D == [k \in 0 .. 0 |-> 0]
    <2>2. Flat(<<>>, <<>>, D)
      BY DEF Flat
    <2> QED BY <2>1, <2>2
  <1>2. CASE n # 0
    <2>1. FlattenSeq(s) = g[n]
      BY <1>2 DEF FlattenSeq, Flattened
    <2> HIDE DEF n
    <2>2. Flattened(g, s, n)
      BY <1>0, FlattensExist
    <2> HIDE DEF g
    <2>3. \A k \in 1 .. n : g[k] = IF k = 1 THEN s[k] ELSE g[k - 1] \o s[k]
      BY <2>2 DEF Flattened
    <2> DEFINE Good(k) ==
                 /\ g[k] \in Seq(S)
                 /\ \A l \in 1 .. k : E[l] \in Nat /\ E[l - 1] \in Nat /\ E[l] = E[l - 1] + Len(s[l]) /\ E[l] <= E[k]
                 /\ \A l \in 1 .. k : \A j \in 1 .. Len(s[l]) : g[k][E[l - 1] + j] = s[l][j]
                 /\ \A i \in 1 .. Len(g[k]) : \E l \in 1 .. k : i \in E[l - 1] + 1 .. E[l]
               T == {k \in Nat : k > 0 => Good(k)}
    <2>4. E[0] = 0 /\ \A k \in 1 .. n : E[k] = Len(g[k])
      BY <1>0
    <2>5. ASSUME NEW k \in 0 .. n - 1, k \in T PROVE k + 1 \in T
      <3> HIDE DEF E
      <3>0. k \in Nat /\ k + 1 \in 1 .. n /\ (k + 1) - 1 = k
        BY <1>0
      <3>1. CASE k = 0
        <4>1. g[1] = s[1] /\ 1 \in 1 .. n /\ s[1] \in Seq(S)
          BY <1>0, <2>3, <3>0, <3>1
        <4>2. E[0] = 0 /\ E[1] = Len(s[1]) /\ Len(s[1]) \in Nat
          BY <2>4, <4>1
        <4>3. Good(1)
          BY <4>1, <4>2
        <4>4. k + 1 = 1 /\ k + 1 \in Nat
          BY <3>1
        <4> HIDE DEF Good
        <4> QED BY <4>3, <4>4
      <3>2. CASE k # 0
        <4>0. Good(k) /\ k \in 1 .. n
          BY <1>0, <2>5, <3>0, <3>2
        <4> DEFINE u == g[k]
                   v == s[k + 1]
                   w == u \o v
        <4>1. g[k + 1] = w /\ u \in Seq(S) /\ v \in Seq(S)
          <5>1. \A i \in 1 .. n : i # 1 => g[i] = g[i - 1] \o s[i]
            BY <2>3
          <5>2. PICK i \in 1 .. n : i = k + 1 /\ i - 1 = k /\ i # 1
            BY <3>0, <3>2
          <5>3. g[i] = g[k] \o s[i]
            BY <5>1, <5>2
          <5> QED BY <1>0, <4>0, <5>2, <5>3
        <4>2. /\ w \in Seq(S) /\ Len(w) = Len(u) + Len(v) /\ Len(u) \in Nat /\ Len(v) \in Nat
              /\ \A i \in 1 .. Len(u) : w[i] = u[i]
              /\ \A i \in 1 .. Len(v) : w[Len(u) + i] = v[i]
          <5> HIDE DEF u, v
          <5> QED BY <4>1, JoinIs
        <4>3. E[k] = Len(u) /\ E[k + 1] = Len(w)
          BY <2>4, <3>0, <4>0, <4>1
        <4>4. /\ \A l \in 1 .. k : E[l] \in Nat /\ E[l - 1] \in Nat /\ E[l] = E[l - 1] + Len(s[l]) /\ E[l] <= E[k]
              /\ \A l \in 1 .. k : \A j \in 1 .. Len(s[l]) : u[E[l - 1] + j] = s[l][j]
              /\ \A i \in 1 .. Len(u) : \E l \in 1 .. k : i \in E[l - 1] + 1 .. E[l]
          BY <4>0
        <4> HIDE DEF u, w
        <4>5. ASSUME NEW l \in 1 .. k + 1
              PROVE  E[l] \in Nat /\ E[l - 1] \in Nat /\ E[l] = E[l - 1] + Len(s[l]) /\ E[l] <= E[k + 1]
          <5>1. CASE l = k + 1
            <6>1. l - 1 = k /\ s[l] = v
              BY <3>0, <5>1
            <6>2. E[l - 1] = Len(u) /\ E[l] = Len(w) /\ E[k + 1] = Len(w) /\ Len(s[l]) = Len(v)
              BY <4>3, <5>1, <6>1
            <6> QED BY <4>2, <6>2
          <5>2. CASE l # k + 1
            <6>1. l \in 1 .. k
              BY <3>0, <5>2
            <6>2. E[l] \in Nat /\ E[l - 1] \in Nat /\ E[l] = E[l - 1] + Len(s[l]) /\ E[l] <= E[k]
              BY <4>4, <6>1
            <6>3. E[k] \in Nat /\ E[k + 1] \in Nat /\ E[k] <= E[k + 1]
              BY <4>2, <4>3
            <6> QED BY <6>2, <6>3
          <5> QED BY <5>1, <5>2
        <4>6. ASSUME NEW l \in 1 .. k + 1, NEW j \in 1 .. Len(s[l]) PROVE w[E[l - 1] + j] = s[l][j]
          <5>1. CASE l = k + 1
            <6>1. l - 1 = k /\ j \in 1 .. Len(v)
              BY <3>0, <5>1
            <6> QED BY <4>2, <4>3, <5>1, <6>1
          <5>2. CASE l # k + 1
            <6>1. l \in 1 .. k
              BY <3>0, <5>2
            <6>2. E[l - 1] \in Nat /\ E[l] = E[l - 1] + Len(s[l]) /\ E[l] <= E[k]
              BY <4>4, <6>1
            <6>3. Len(s[l]) \in Nat
              BY <1>0, <3>0, <6>1
            <6>4. E[l - 1] + j \in 1 .. Len(u)
              <7> DEFINE e == E[l - 1]
                         q == Len(s[l])
              <7>1. e \in Nat /\ q \in Nat /\ e + q <= Len(u) /\ j \in 1 .. q
                BY <4>3, <6>2, <6>3
              <7> HIDE DEF e, q
              <7>2. e + j \in 1 .. Len(u)
                BY <4>2, <7>1
              <7> QED BY <7>2 DEF e
            <6>5. u[E[l - 1] + j] = s[l][j]
              BY <4>4, <6>1
            <6> QED BY <4>2, <6>4, <6>5
          <5> QED BY <5>1, <5>2
        <4>7. ASSUME NEW i \in 1 .. Len(w) PROVE \E l \in 1 .. k + 1 : i \in E[l - 1] + 1 .. E[l]
          <5>1. CASE i <= Len(u)
            <6>1. i \in 1 .. Len(u)
              BY <4>2, <5>1
            <6>2. PICK l \in 1 .. k : i \in E[l - 1] + 1 .. E[l]
              BY <4>4, <6>1
            <6>3. l \in 1 .. k + 1
              BY <3>0
            <6> QED BY <6>2, <6>3
          <5>2. CASE i > Len(u)
            <6>1. i \in E[k] + 1 .. E[k + 1] /\ k + 1 \in 1 .. k + 1
              BY <3>0, <4>2, <4>3, <5>2
            <6> QED BY <3>0, <6>1
          <5> QED BY <4>2, <5>1, <5>2
        <4>8. Good(k + 1)
          BY <4>1, <4>2, <4>5, <4>6, <4>7
        <4> QED BY <3>0, <4>8
      <3> QED BY <3>1, <3>2
    <2>6. 0 \in T
      OBVIOUS
    <2>7. Good(n)
      <3>1. n \in T
        <4> HIDE DEF T
        <4>1. 0 .. n \subseteq T
          BY <1>0, <2>5, <2>6, UpTo
        <4> QED BY <1>0, <4>1
      <3>2. n > 0 => Good(n)
        <4> HIDE DEF Good
        <4> QED BY <3>1
      <3> HIDE DEF Good
      <3> QED BY <1>0, <1>2, <3>2
    <2>8. E \in [0 .. n -> Nat]
      <3>1. \A k \in 1 .. n : E[k] \in Nat
        <4> HIDE DEF E
        <4> QED BY <2>7
      <3>2. \A k \in 0 .. n : E[k] \in Nat
        BY <1>0, <2>4, <3>1
      <3> QED BY <3>2
    <2>9. \A k, l \in 0 .. n : k <= l => E[k] <= E[l]
      <3> HIDE DEF E
      <3> DEFINE M == {l \in Nat : \A k \in 0 .. l : E[k] <= E[l]}
      <3>1. 0 \in M
        BY <2>4
      <3>2. ASSUME NEW l \in 0 .. n - 1, l \in M PROVE l + 1 \in M
        <4>1. l + 1 \in 1 .. n /\ (l + 1) - 1 = l /\ l \in 0 .. n /\ l + 1 \in 0 .. n /\ l \in Nat
          BY <1>0
        <4>2. E[l + 1] = E[l] + Len(s[l + 1]) /\ Len(s[l + 1]) \in Nat /\ E[l] \in Nat /\ E[l + 1] \in Nat
          BY <1>0, <2>7, <4>1
        <4>3. ASSUME NEW k \in 0 .. l + 1 PROVE E[k] <= E[l + 1]
          <5>1. k \in 0 .. n /\ E[k] \in Nat
            BY <1>0, <2>8, <4>1
          <5>2. k = l + 1 \/ k \in 0 .. l
            BY <4>1
          <5>3. CASE k = l + 1
            BY <4>2, <5>3
          <5>4. CASE k \in 0 .. l
            <6>1. E[k] <= E[l]
              BY <3>2, <5>4
            <6> QED BY <4>2, <5>1, <6>1
          <5> QED BY <5>2, <5>3, <5>4
        <4> QED BY <4>1, <4>3
      <3>3. 0 .. n \subseteq M
        <4> HIDE DEF M
        <4> QED BY <1>0, <3>1, <3>2, UpTo
      <3> QED BY <3>3
    <2>10. Flat(s, g[n], E)
      <3>1. E[n] = Len(g[n])
        BY <1>0, <1>2, <2>4
      <3> HIDE DEF E
      <3> QED BY <2>4, <2>7, <2>8, <2>9, <3>1 DEF Flat, n
    <2> QED BY <2>1, <2>7, <2>10
  <1> QED BY <1>1, <1>2

-----------------------------------------------------------------------------
(* Rows, columns and offsets. *)

(* A cell's offset is in the vector (data(x, y)). *)
LEMMA CellOffset ==
  ASSUME NEW W \in Nat, NEW H \in Nat, NEW a \in 0 .. W - 1, NEW b \in 0 .. H - 1
  PROVE  b * W + a \in 0 .. W * H - 1
<1>1. b * W >= 0
  OBVIOUS
<1>2. (H - 1 - b) * W >= 0
  OBVIOUS
<1>3. (H - 1 - b) * W = H * W - W - b * W
  OBVIOUS
<1> QED BY <1>1, <1>2, <1>3

(* An offset within a stretch of w pixels from (x, y) that does not wrap is in
   row y (the pointer arithmetic of the drawing loops). *)
LEMMA RowOffset ==
  ASSUME NEW W \in Nat, NEW a \in 0 .. W - 1, NEW b \in Int,
         NEW x \in Nat, NEW y \in Int, NEW w \in Nat, x + w <= W,
         (b * W + a) - (y * W + x) \in 0 .. w - 1
  PROVE  b = y /\ a - x \in 0 .. w - 1
<1> DEFINE q == b - y
<1>1. (b * W + a) - (y * W + x) = q * W + a - x
  OBVIOUS
<1>2. ~(q >= 1)
  <2>1. q >= 1 => (q - 1) * W >= 0
    OBVIOUS
  <2>2. (q - 1) * W = q * W - W
    OBVIOUS
  <2> QED BY <1>1, <2>1, <2>2
<1>3. ~(q <= -1)
  <2>1. q <= -1 => (- 1 - q) * W >= 0
    OBVIOUS
  <2>2. (- 1 - q) * W = - W - q * W
    OBVIOUS
  <2> QED BY <1>1, <2>1, <2>2
<1>4. q = 0
  BY <1>2, <1>3
<1> QED BY <1>1, <1>4

(* Quotient and remainder. *)
LEMMA Split ==
  ASSUME NEW w \in Nat \ {0}, NEW n \in Nat
  PROVE  n \div w \in Nat /\ n % w \in 0 .. w - 1 /\ n = (n \div w) * w + (n % w)
  OBVIOUS

(* The row of an offset is one of the block. *)
LEMMA SplitBelow ==
  ASSUME NEW w \in Nat \ {0}, NEW h \in Nat, NEW n \in 0 .. w * h - 1
  PROVE  n \div w \in 0 .. h - 1
  <1> DEFINE q == n \div w
             e == n % w
  <1>0. n \in Nat
    OBVIOUS
  <1>1. n \in Nat /\ q \in Nat /\ e \in 0 .. w - 1 /\ n = q * w + e
    BY <1>0, Split
  <1> HIDE DEF q, e
  <1>2. SUFFICES ASSUME q >= h PROVE FALSE
    BY <1>1 DEF q
  <1>3. (q - h) * w >= 0 /\ (q - h) * w = q * w - w * h
    BY <1>1, <1>2
  <1> DEFINE qw == q * w
             wh == w * h
  <1>4. qw - wh >= 0 /\ n < wh /\ n = qw + e /\ qw \in Int /\ wh \in Int
    BY <1>1, <1>3
  <1> HIDE DEF qw, wh
  <1> QED BY <1>1, <1>4

(* An offset tells its row and its column. *)
LEMMA DivMod ==
  ASSUME NEW w \in Nat \ {0}, NEW a \in 0 .. w - 1, NEW b \in Nat
  PROVE  b * w + a \in Nat /\ (b * w + a) \div w = b /\ (b * w + a) % w = a
  <1> DEFINE n == b * w + a
             q == n \div w
             e == n % w
  <1>0. n \in Nat
    <2>1. b * w \in Nat
      OBVIOUS
    <2> QED BY <2>1
  <1>1. q \in Nat /\ e \in 0 .. w - 1 /\ n = q * w + e
    <2> HIDE DEF n
    <2> QED BY <1>0, Split
  <1>2. n = b * w + a
    OBVIOUS
  <1> HIDE DEF q, e, n
  <1>3. (b * w + a) - (q * w + 0) \in 0 .. w - 1
    <2> DEFINE bw == b * w
               qw == q * w
    <2>1. bw \in Int /\ qw \in Int /\ bw + a = qw + e
      BY <1>1, <1>2
    <2> HIDE DEF bw, qw
    <2>2. (bw + a) - (qw + 0) = e
      BY <1>1, <2>1
    <2> QED BY <1>1, <2>2 DEF bw, qw
  <1>4. b = q
    <2>1. b \in Int /\ q \in Int /\ 0 \in Nat /\ 0 + w <= w /\ w \in Nat
      BY <1>1
    <2> QED BY <1>3, <2>1, RowOffset
  <1>5. e = a
    <2> DEFINE bw == b * w
    <2>1. bw \in Int /\ bw + a = bw + e
      BY <1>1, <1>2, <1>4
    <2> HIDE DEF bw
    <2> QED BY <1>1, <2>1
  <1> QED BY <1>0, <1>4, <1>5 DEF q, e, n

(* Sequences of sequences of one length. *)
LEMMA FlatEven ==
  ASSUME NEW S, NEW s \in Seq(Seq(S)), NEW n \in Nat, \A k \in 1 .. Len(s) : Len(s[k]) = n
  PROVE  /\ FlattenSeq(s) \in Seq(S) /\ Len(FlattenSeq(s)) = Len(s) * n
         /\ \A k \in 1 .. Len(s) : \A j \in 1 .. n : FlattenSeq(s)[(k - 1) * n + j] = s[k][j]
  <1> DEFINE f == FlattenSeq(s)
             m == Len(s)
  <1>1. f \in Seq(S) /\ m \in Nat
    BY FlatOf
  <1>2. PICK E : Flat(s, f, E)
    BY FlatOf
  <1> HIDE DEF f
  <1> DEFINE T == {k \in Nat : E[k] = k * n}
  <1>3. \A k \in 1 .. m : E[k] = E[k - 1] + n /\ E[k - 1] \in Nat
    <2>1. \A k \in 1 .. m : E[k] = E[k - 1] + Len(s[k])
      BY <1>2 DEF Flat
    <2>2. \A k \in 1 .. m : k - 1 \in 0 .. m
      BY <1>1
    <2>3. E \in [0 .. m -> Nat]
      BY <1>2 DEF Flat
    <2> QED BY <2>1, <2>2, <2>3
  <1>4. 0 \in T
    BY <1>2 DEF Flat
  <1>5. ASSUME NEW k \in 0 .. m - 1, k \in T PROVE k + 1 \in T
    <2>1. k \in Nat /\ k + 1 \in 1 .. m /\ (k + 1) - 1 = k
      BY <1>1
    <2>2. E[k + 1] = E[k] + n
      BY <1>3, <2>1
    <2>3. E[k] = k * n
      BY <1>5
    <2>4. (k + 1) * n = k * n + n
      BY <2>1
    <2> QED BY <2>1, <2>2, <2>3, <2>4
  <1>6. 0 .. m \subseteq T
    <2> HIDE DEF T
    <2> QED BY <1>1, <1>4, <1>5, UpTo
  <1>7. \A k \in 0 .. m : E[k] = k * n
    BY <1>6
  <1>8. Len(f) = m * n
    <2>1. Len(f) = E[m] /\ m \in 0 .. m
      BY <1>1, <1>2 DEF Flat
    <2> QED BY <1>7, <2>1
  <1>9. ASSUME NEW k \in 1 .. m, NEW j \in 1 .. n PROVE f[(k - 1) * n + j] = s[k][j]
    <2>1. k - 1 \in 0 .. m /\ j \in 1 .. Len(s[k])
      BY <1>1
    <2>2. f[E[k - 1] + j] = s[k][j]
      BY <1>2, <2>1 DEF Flat
    <2> QED BY <1>7, <2>1, <2>2
  <1> QED BY <1>1, <1>8, <1>9 DEF f

-----------------------------------------------------------------------------
(* Rows of a block. *)
Lines(rows, S, cells, w, h) ==
  /\ rows \in Seq(Seq(S)) /\ Len(rows) = h /\ DOMAIN rows = 1 .. h
  /\ \A y \in 1 .. h : /\ rows[y] \in Seq(S) /\ Len(rows[y]) = w
                       /\ \A x \in 1 .. w : rows[y][x] = cells[(y - 1) * w + x] /\ (y - 1) * w + x \in 1 .. w * h

(* RowsOf cuts a block into its rows. *)
LEMMA RowsAre ==
  ASSUME NEW S, NEW cells \in Seq(S), NEW w \in Nat \ {0}, NEW h \in Nat, Len(cells) = w * h
  PROVE  Lines(RowsOf(cells, w), S, cells, w, h)
  <1>1. Len(cells) \div w = h
    <2>1. h * w + 0 = w * h /\ 0 \in 0 .. w - 1
      OBVIOUS
    <2>2. (h * w + 0) \div w = h
      BY <2>1, DivMod
    <2> QED BY <2>1, <2>2
  <1> DEFINE rows == RowsOf(cells, w)
  <1>2. rows = [y \in 1 .. h |-> SubSeq(cells, (y - 1) * w + 1, y * w)]
    BY <1>1 DEF RowsOf
  <1> HIDE DEF rows
  <1>3. ASSUME NEW y \in 1 .. h
        PROVE  /\ rows[y] \in Seq(S) /\ Len(rows[y]) = w
               /\ \A x \in 1 .. w : rows[y][x] = cells[(y - 1) * w + x] /\ (y - 1) * w + x \in 1 .. w * h
    <2> DEFINE a == (y - 1) * w
               n == w * h
    <2>1. y * w = a + w /\ a \in Nat
      <3>1. y - 1 \in Nat
        OBVIOUS
      <3>2. (y - 1) * w \in Nat /\ y * w = (y - 1) * w + w
        BY <3>1
      <3> QED BY <3>2
    <2>2. a + w <= n
      <3>1. (h - y) * w >= 0 /\ (h - y) * w = h * w - y * w
        OBVIOUS
      <3> QED BY <2>1, <3>1
    <2>3. rows[y] = SubSeq(cells, a + 1, a + w)
      BY <1>2, <2>1
    <2>4. Len(cells) = n /\ n \in Nat
      OBVIOUS
    <2> HIDE DEF a, n
    <2>5. /\ SubSeq(cells, a + 1, a + w) \in Seq(S) /\ Len(SubSeq(cells, a + 1, a + w)) = w
          /\ \A x \in 1 .. w : SubSeq(cells, a + 1, a + w)[x] = cells[a + x]
      BY <2>1, <2>2, <2>4
    <2>6. \A x \in 1 .. w : a + x \in 1 .. n
      BY <2>1, <2>2, <2>4
    <2> QED BY <2>3, <2>5, <2>6 DEF a, n
  <1>4. rows \in [1 .. h -> Seq(S)]
    BY <1>2, <1>3
  <1>5. rows \in Seq(Seq(S)) /\ Len(rows) = h /\ DOMAIN rows = 1 .. h
    BY <1>4, IsSeqOf
  <1> QED BY <1>3, <1>5 DEF rows, Lines

-----------------------------------------------------------------------------
(* The tiles of a rectangle, as the loops go through them. *)

(* Pixel (x, y) is one of the block's. *)
Covers(j, x, y) == x - j.x \in 0 .. j.w - 1 /\ y - j.y \in 0 .. j.h - 1

(* A rectangle with pixels in it. *)
Tile == [x : Int, y : Int, w : Nat \ {0}, h : Nat \ {0}]

(* q tiles along one side, n pixels long. *)
Along(n, side, q) ==
  /\ q \in Nat \ {0}
  /\ \A i \in 0 .. q - 1 : i * side \in Nat /\ i * side < n
  /\ \A u \in 0 .. n - 1 : \E i \in 0 .. q - 1 : u - i * side \in 0 .. side - 1
  /\ \A u \in Nat : \A i, k \in Nat :
       u - i * side \in 0 .. side - 1 /\ u - k * side \in 0 .. side - 1 => i = k

(* The steps of a tile loop cover a side, each pixel once. *)
LEMMA TilesAlong ==
  ASSUME NEW n \in Nat \ {0}, NEW side \in Nat \ {0}, NEW q, q = (n + side - 1) \div side
  PROVE  Along(n, side, q)
  <1>1. q \in Nat /\ q * side >= n /\ (q - 1) * side < n
    <2> DEFINE m == n + side - 1
               e == m % side
    <2>1. m \in Nat
      OBVIOUS
    <2>2. q \in Nat /\ e \in 0 .. side - 1 /\ m = q * side + e
      <3> HIDE DEF m
      <3>1. q = m \div side
        BY DEF m
      <3> QED BY <2>1, <3>1, Split
    <2> DEFINE p == q * side
    <2>3. (q - 1) * side = p - side /\ p \in Nat
      BY <2>2
    <2>4. m = n + side - 1 /\ m = p + e /\ e \in 0 .. side - 1
      BY <2>2
    <2> HIDE DEF m, e, p
    <2>5. p >= n /\ p - side < n
      BY <2>3, <2>4
    <2> QED BY <2>2, <2>3, <2>5 DEF p
  <1>2. q # 0
    <2>1. q = 0 => q * side = 0
      OBVIOUS
    <2> QED BY <1>1, <2>1
  <1>3. ASSUME NEW i \in 0 .. q - 1 PROVE i * side \in Nat /\ i * side < n
    <2> DEFINE a == i * side
               b == (q - 1) * side
    <2>1. (q - 1 - i) * side >= 0 /\ (q - 1 - i) * side = (q - 1) * side - i * side
      BY <1>1
    <2>2. a \in Nat /\ b \in Int /\ b < n /\ b - a >= 0
      BY <1>1, <2>1
    <2> HIDE DEF a, b
    <2>3. a \in Nat /\ a < n
      BY <2>2
    <2> QED BY <2>3 DEF a
  <1>4. ASSUME NEW u \in 0 .. n - 1 PROVE \E i \in 0 .. q - 1 : u - i * side \in 0 .. side - 1
    <2> DEFINE i == u \div side
               e == u % side
    <2>1. i \in Nat /\ e \in 0 .. side - 1 /\ u = i * side + e
      <3>1. u \in Nat
        OBVIOUS
      <3> QED BY <3>1, Split
    <2> HIDE DEF i, e
    <2>2. i < q
      <3> SUFFICES ASSUME i >= q PROVE FALSE
        BY <1>1, <2>1
      <3>1. (i - q) * side >= 0 /\ (i - q) * side = i * side - q * side
        BY <1>1, <2>1
      <3> DEFINE a == i * side
                 b == q * side
      <3>2. a - b >= 0 /\ b >= n /\ u = a + e /\ a \in Int /\ b \in Int
        BY <1>1, <2>1, <3>1
      <3> HIDE DEF a, b
      <3> QED BY <2>1, <3>2
    <2>3. u - i * side \in 0 .. side - 1
      <3> DEFINE a == i * side
      <3>1. a \in Int /\ u = a + e
        BY <2>1
      <3> HIDE DEF a
      <3>2. u - a \in 0 .. side - 1
        BY <2>1, <3>1
      <3> QED BY <3>2 DEF a
    <2>4. i \in 0 .. q - 1
      BY <1>1, <2>1, <2>2
    <2> QED BY <2>3, <2>4
  <1>5. ASSUME NEW u \in Nat, NEW i \in Nat, NEW k \in Nat,
               u - i * side \in 0 .. side - 1, u - k * side \in 0 .. side - 1
        PROVE  i = k
    <2> DEFINE a == u - i * side
               b == i * side
    <2>1. a \in 0 .. side - 1 /\ b \in Int /\ u = b + a
      <3>1. b \in Int
        OBVIOUS
      <3>2. a = u - b
        OBVIOUS
      <3>3. a \in 0 .. side - 1
        BY <1>5
      <3> HIDE DEF a, b
      <3> QED BY <3>1, <3>2, <3>3
    <2>2. (i * side + a) - (k * side + 0) \in 0 .. side - 1
      <3>1. i * side + a = u
        BY <2>1
      <3> DEFINE c == k * side
      <3>2. c \in Int /\ u - c \in 0 .. side - 1
        BY <1>5
      <3> HIDE DEF a, c
      <3>3. u - (c + 0) \in 0 .. side - 1
        BY <3>2
      <3> QED BY <3>1, <3>3 DEF c
    <2> HIDE DEF a
    <2>3. i \in Int /\ k \in Int /\ 0 \in Nat /\ 0 + side <= side /\ side \in Nat
      OBVIOUS
    <2> QED BY <2>1, <2>2, <2>3, RowOffset
  <1> QED BY <1>1, <1>2, <1>3, <1>4, <1>5 DEF Along

(* A tile of a block w by h. *)
Inside(t, w, h) ==
  /\ t.x \in Nat /\ t.y \in Nat /\ t.w \in Nat \ {0} /\ t.h \in Nat \ {0}
  /\ t.x + t.w <= w /\ t.y + t.h <= h

(* The client's tiles are the server's, from the corner of the rectangle on,
   and every pixel is in one of them. *)
Tiling(tiles, cut, r) ==
  /\ tiles \in Seq(Tile) /\ Len(tiles) \in Nat /\ DOMAIN tiles = 1 .. Len(tiles) /\ DOMAIN cut = 1 .. Len(tiles)
  /\ \A k \in 1 .. Len(tiles) :
       /\ Inside(cut[k], r.w, r.h)
       /\ tiles[k].x = r.x + cut[k].x /\ tiles[k].y = r.y + cut[k].y
       /\ tiles[k].w = cut[k].w /\ tiles[k].h = cut[k].h
  /\ \A u \in 0 .. r.w - 1, v \in 0 .. r.h - 1 : \E k \in 1 .. Len(tiles) : Covers(cut[k], u, v)
  /\ \A u \in 0 .. r.w - 1, v \in 0 .. r.h - 1 : \A k, l \in 1 .. Len(tiles) :
       Covers(cut[k], u, v) /\ Covers(cut[l], u, v) => k = l

(* The tiles of a rectangle: those of the server are the client's, from the
   corner of the rectangle on, and every pixel is in one of them. *)
LEMMA TilesAre ==
  ASSUME NEW r \in Tile, NEW side \in Nat \ {0}, NEW tiles, NEW cut,
         tiles = TileLoop(r, side), cut = TilesOf(r.w, r.h, side)
  PROVE  Tiling(tiles, cut, r)
  <1> DEFINE W == r.w
             H == r.h
             nx == (W + side - 1) \div side
             ny == (H + side - 1) \div side
             ext(from, n) == IF n - from < side THEN n - from ELSE side
             T(i, j) == At(r.x + i * side, r.y + j * side, ext(i * side, W), ext(j * side, H))
             C(i, j) == At(i * side, j * side, ext(i * side, W), ext(j * side, H))
             s == [j \in 1 .. ny |-> [i \in 1 .. nx |-> T(i - 1, j - 1)]]
  <1>0. W \in Nat \ {0} /\ H \in Nat \ {0} /\ r.x \in Int /\ r.y \in Int
    BY DEF Tile
  <1>1. tiles = FlattenSeq(s)
    BY DEF TileLoop
  <1>2. /\ nx \in Nat \ {0}
        /\ \A i \in 0 .. nx - 1 : i * side \in Nat /\ i * side < W
        /\ \A u \in 0 .. W - 1 : \E i \in 0 .. nx - 1 : u - i * side \in 0 .. side - 1
        /\ \A u \in Nat : \A i, k \in Nat :
              u - i * side \in 0 .. side - 1 /\ u - k * side \in 0 .. side - 1 => i = k
    <2>1. nx = (W + side - 1) \div side
      OBVIOUS
    <2>2. Along(W, side, nx)
      <3> HIDE DEF W, nx
      <3> QED BY <1>0, <2>1, TilesAlong
    <2> HIDE DEF W, nx
    <2> QED BY <2>2 DEF Along
  <1>3. /\ ny \in Nat \ {0}
        /\ \A i \in 0 .. ny - 1 : i * side \in Nat /\ i * side < H
        /\ \A u \in 0 .. H - 1 : \E i \in 0 .. ny - 1 : u - i * side \in 0 .. side - 1
        /\ \A u \in Nat : \A i, k \in Nat :
              u - i * side \in 0 .. side - 1 /\ u - k * side \in 0 .. side - 1 => i = k
    <2>1. ny = (H + side - 1) \div side
      OBVIOUS
    <2>2. Along(H, side, ny)
      <3> HIDE DEF H, ny
      <3> QED BY <1>0, <2>1, TilesAlong
    <2> HIDE DEF H, ny
    <2> QED BY <2>2 DEF Along
  <1>4. cut = [k \in 1 .. nx * ny |-> C((k - 1) % nx, (k - 1) \div nx)]
    <2>1. \A a, b : ext(a, b) = (IF side < b - a THEN side ELSE b - a) \/ ~(a \in Int /\ b \in Int)
      OBVIOUS
    <2>2. \A k \in 1 .. nx * ny : ((k - 1) % nx) * side \in Int /\ ((k - 1) \div nx) * side \in Int
      <3> HIDE DEF nx, ny
      <3> SUFFICES ASSUME NEW k \in 1 .. nx * ny PROVE ((k - 1) % nx) * side \in Int /\ ((k - 1) \div nx) * side \in Int
        OBVIOUS
      <3>1. k - 1 \in Nat
        OBVIOUS
      <3>2. (k - 1) % nx \in Int /\ (k - 1) \div nx \in Int
        BY <1>2, <3>1
      <3> QED BY <3>2
    <2> DEFINE least(a, b) == IF a < b THEN a ELSE b
    <2>3. cut = [k \in 1 .. nx * ny |->
                  At(((k - 1) % nx) * side, ((k - 1) \div nx) * side,
                     least(side, W - ((k - 1) % nx) * side), least(side, H - ((k - 1) \div nx) * side))]
      BY DEF TilesOf
    <2>4. \A k \in 1 .. nx * ny : /\ least(side, W - ((k - 1) % nx) * side) = ext(((k - 1) % nx) * side, W)
                                  /\ least(side, H - ((k - 1) \div nx) * side) = ext(((k - 1) \div nx) * side, H)
      <3> SUFFICES ASSUME NEW k \in 1 .. nx * ny
                   PROVE  /\ least(side, W - ((k - 1) % nx) * side) = ext(((k - 1) % nx) * side, W)
                          /\ least(side, H - ((k - 1) \div nx) * side) = ext(((k - 1) \div nx) * side, H)
        OBVIOUS
      <3> DEFINE a == ((k - 1) % nx) * side
                 b == ((k - 1) \div nx) * side
      <3>1. a \in Int /\ b \in Int
        BY <2>2
      <3> HIDE DEF a, b, W, H
      <3>2. least(side, W - a) = ext(a, W) /\ least(side, H - b) = ext(b, H)
        BY <1>0, <3>1
      <3> QED BY <3>2 DEF a, b
    <2> HIDE DEF nx, ny, W, H, least, ext
    <2> QED BY <2>3, <2>4
  <1>5. \A i \in 0 .. nx - 1, j \in 0 .. ny - 1 :
          /\ C(i, j).x = i * side /\ C(i, j).y = j * side
          /\ T(i, j).x = r.x + i * side /\ T(i, j).y = r.y + j * side
          /\ T(i, j).w = C(i, j).w /\ T(i, j).h = C(i, j).h
          /\ C(i, j).x \in Nat /\ C(i, j).y \in Nat /\ C(i, j).w \in Nat \ {0} /\ C(i, j).h \in Nat \ {0}
          /\ C(i, j).x + C(i, j).w <= W /\ C(i, j).y + C(i, j).h <= H
          /\ C(i, j).w <= side /\ C(i, j).h <= side
          /\ \A u \in 0 .. W - 1 : u - i * side \in 0 .. side - 1 <=> u - i * side \in 0 .. C(i, j).w - 1
          /\ \A v \in 0 .. H - 1 : v - j * side \in 0 .. side - 1 <=> v - j * side \in 0 .. C(i, j).h - 1
          /\ T(i, j) \in Tile
    <2> SUFFICES ASSUME NEW i \in 0 .. nx - 1, NEW j \in 0 .. ny - 1
                 PROVE  /\ C(i, j).x = i * side /\ C(i, j).y = j * side
                        /\ T(i, j).x = r.x + i * side /\ T(i, j).y = r.y + j * side
                        /\ T(i, j).w = C(i, j).w /\ T(i, j).h = C(i, j).h
                        /\ C(i, j).x \in Nat /\ C(i, j).y \in Nat /\ C(i, j).w \in Nat \ {0} /\ C(i, j).h \in Nat \ {0}
                        /\ C(i, j).x + C(i, j).w <= W /\ C(i, j).y + C(i, j).h <= H
                        /\ C(i, j).w <= side /\ C(i, j).h <= side
                        /\ \A u \in 0 .. W - 1 : u - i * side \in 0 .. side - 1 <=> u - i * side \in 0 .. C(i, j).w - 1
                        /\ \A v \in 0 .. H - 1 : v - j * side \in 0 .. side - 1 <=> v - j * side \in 0 .. C(i, j).h - 1
                        /\ T(i, j) \in Tile
      OBVIOUS
    <2> DEFINE a == i * side
               b == j * side
    <2>1. a \in Nat /\ a < W /\ b \in Nat /\ b < H
      BY <1>2, <1>3
    <2>2. C(i, j) = [x |-> a, y |-> b, w |-> ext(a, W), h |-> ext(b, H)]
      BY DEF At
    <2>3. T(i, j) = [x |-> r.x + a, y |-> r.y + b, w |-> ext(a, W), h |-> ext(b, H)]
      BY DEF At
    <2> HIDE DEF a, b, W, H, T, C
    <2>4. ext(a, W) \in Nat \ {0} /\ a + ext(a, W) <= W /\ ext(a, W) <= side
      BY <1>0, <2>1
    <2>5. ext(b, H) \in Nat \ {0} /\ b + ext(b, H) <= H /\ ext(b, H) <= side
      BY <1>0, <2>1
    <2>6. \A u \in 0 .. W - 1 : u - a \in 0 .. side - 1 <=> u - a \in 0 .. ext(a, W) - 1
      BY <1>0, <2>1
    <2>7. \A v \in 0 .. H - 1 : v - b \in 0 .. side - 1 <=> v - b \in 0 .. ext(b, H) - 1
      BY <1>0, <2>1
    <2>8. T(i, j) \in Tile
      <3>1. r.x + a \in Int /\ r.y + b \in Int
        BY <1>0, <2>1
      <3> HIDE DEF ext
      <3> QED BY <2>3, <2>4, <2>5, <3>1 DEF Tile
    <2>9. i * side = a /\ j * side = b
      BY DEF a, b
    <2> HIDE DEF ext
    <2> QED BY <2>1, <2>2, <2>3, <2>4, <2>5, <2>6, <2>7, <2>8, <2>9
  <1> HIDE DEF nx, ny, W, H, T, C
  <1>14. \A i \in 0 .. nx - 1, j \in 0 .. ny - 1, u \in 0 .. W - 1, v \in 0 .. H - 1 :
           Covers(C(i, j), u, v) <=> u - i * side \in 0 .. side - 1 /\ v - j * side \in 0 .. side - 1
    <2> SUFFICES ASSUME NEW i \in 0 .. nx - 1, NEW j \in 0 .. ny - 1, NEW u \in 0 .. W - 1, NEW v \in 0 .. H - 1
                 PROVE  Covers(C(i, j), u, v) <=> u - i * side \in 0 .. side - 1 /\ v - j * side \in 0 .. side - 1
      OBVIOUS
    <2>1. /\ C(i, j).x = i * side /\ C(i, j).y = j * side
          /\ u - i * side \in 0 .. side - 1 <=> u - i * side \in 0 .. C(i, j).w - 1
          /\ v - j * side \in 0 .. side - 1 <=> v - j * side \in 0 .. C(i, j).h - 1
      BY <1>5
    <2> QED BY <2>1 DEF Covers
  <1>6. /\ tiles \in Seq(Tile) /\ Len(tiles) = ny * nx
        /\ \A j \in 1 .. ny : \A i \in 1 .. nx : tiles[(j - 1) * nx + i] = T(i - 1, j - 1)
    <2>1. \A j \in 1 .. ny : s[j] \in [1 .. nx -> Tile]
      <3> SUFFICES ASSUME NEW j \in 1 .. ny PROVE [i \in 1 .. nx |-> T(i - 1, j - 1)] \in [1 .. nx -> Tile]
        OBVIOUS
      <3>1. j - 1 \in 0 .. ny - 1 /\ \A i \in 1 .. nx : i - 1 \in 0 .. nx - 1
        BY <1>2, <1>3
      <3>2. \A i \in 1 .. nx : T(i - 1, j - 1) \in Tile
        BY <1>5, <3>1
      <3> QED BY <3>2
    <2>2. \A j \in 1 .. ny : s[j] \in Seq(Tile) /\ Len(s[j]) = nx
      <3> HIDE DEF s
      <3> QED BY <1>2, <2>1, IsSeqOf
    <2>3. s \in [1 .. ny -> Seq(Tile)]
      BY <2>2
    <2>4. s \in Seq(Seq(Tile)) /\ Len(s) = ny
      <3> HIDE DEF s
      <3> QED BY <1>3, <2>3, IsSeqOf
    <2>5. \A j \in 1 .. ny : \A i \in 1 .. nx : s[j][i] = T(i - 1, j - 1)
      OBVIOUS
    <2> HIDE DEF s
    <2>6. /\ FlattenSeq(s) \in Seq(Tile) /\ Len(FlattenSeq(s)) = ny * nx
          /\ \A j \in 1 .. ny : \A i \in 1 .. nx : FlattenSeq(s)[(j - 1) * nx + i] = s[j][i]
      <3>1. nx \in Nat /\ \A j \in 1 .. Len(s) : Len(s[j]) = nx
        BY <1>2, <2>2, <2>4
      <3> QED BY <2>4, <3>1, FlatEven
    <2> QED BY <1>1, <2>5, <2>6
  <1>7. nx * ny = ny * nx /\ ny * nx \in Nat
    BY <1>2, <1>3
  <1>8. ASSUME NEW k \in 1 .. ny * nx
        PROVE  \E i \in 0 .. nx - 1, j \in 0 .. ny - 1 :
                 k = j * nx + (i + 1) /\ cut[k] = C(i, j) /\ tiles[k] = T(i, j)
    <2> DEFINE i == (k - 1) % nx
               j == (k - 1) \div nx
    <2>1. k - 1 \in Nat /\ k - 1 \in 0 .. nx * ny - 1
      BY <1>7
    <2>2. j \in Nat /\ i \in 0 .. nx - 1 /\ k - 1 = j * nx + i
      BY <1>2, <2>1, Split
    <2>3. j \in 0 .. ny - 1
      BY <1>2, <1>3, <2>1, SplitBelow
    <2>4. cut[k] = C(i, j)
      BY <1>4, <1>7
    <2> HIDE DEF i, j
    <2>5. k = j * nx + (i + 1)
      <3> DEFINE p == j * nx
      <3>1. p \in Int /\ k - 1 = p + i
        BY <1>2, <2>2
      <3> HIDE DEF p
      <3>2. k = p + (i + 1)
        BY <2>2, <3>1
      <3> QED BY <3>2 DEF p
    <2>6. j + 1 \in 1 .. ny /\ i + 1 \in 1 .. nx /\ (j + 1) - 1 = j /\ (i + 1) - 1 = i
      BY <1>2, <1>3, <2>2, <2>3
    <2>7. tiles[j * nx + (i + 1)] = T(i, j)
      <3>1. tiles[((j + 1) - 1) * nx + (i + 1)] = T((i + 1) - 1, (j + 1) - 1)
        BY <1>6, <2>6
      <3> QED BY <2>6, <3>1
    <2> QED BY <2>2, <2>3, <2>4, <2>5, <2>7
  <1>9. ASSUME NEW i \in 0 .. nx - 1, NEW j \in 0 .. ny - 1
        PROVE  \E k \in 1 .. ny * nx : cut[k] = C(i, j)
    <2>1. j * nx + i \in 0 .. nx * ny - 1
      BY <1>2, <1>3, CellOffset
    <2>2. (j * nx + i) \div nx = j /\ (j * nx + i) % nx = i
      <3>1. j \in Nat
        OBVIOUS
      <3> QED BY <1>2, <3>1, DivMod
    <2> DEFINE p == j * nx + i
               k == p + 1
    <2>3. p \in 0 .. nx * ny - 1 /\ p \div nx = j /\ p % nx = i
      BY <2>1, <2>2
    <2> HIDE DEF p
    <2>4. k - 1 = p /\ k \in 1 .. nx * ny
      <3> DEFINE m == nx * ny
      <3>1. p \in 0 .. m - 1 /\ m \in Nat
        BY <1>2, <1>3, <2>3
      <3> HIDE DEF m
      <3>2. k - 1 = p /\ k \in 1 .. m
        BY <3>1
      <3> QED BY <3>2 DEF m
    <2> HIDE DEF k
    <2>5. cut[k] = C(i, j)
      BY <1>4, <2>3, <2>4
    <2> QED BY <1>7, <2>4, <2>5
  <1>10. DOMAIN tiles = 1 .. Len(tiles) /\ Len(tiles) \in Nat /\ DOMAIN cut = 1 .. Len(tiles)
    BY <1>4, <1>6, <1>7
  <1>11. ASSUME NEW k \in 1 .. Len(tiles)
         PROVE  /\ Inside(cut[k], W, H)
                /\ tiles[k].x = r.x + cut[k].x /\ tiles[k].y = r.y + cut[k].y
                /\ tiles[k].w = cut[k].w /\ tiles[k].h = cut[k].h
    <2>1. PICK i \in 0 .. nx - 1, j \in 0 .. ny - 1 : cut[k] = C(i, j) /\ tiles[k] = T(i, j)
      BY <1>6, <1>8
    <2>2. Inside(cut[k], W, H)
      BY <1>5, <2>1 DEF Inside
    <2> QED BY <1>5, <2>1, <2>2
  <1>12. ASSUME NEW u \in 0 .. W - 1, NEW v \in 0 .. H - 1
         PROVE  \E k \in 1 .. Len(tiles) : Covers(cut[k], u, v)
    <2>1. PICK i \in 0 .. nx - 1 : u - i * side \in 0 .. side - 1
      BY <1>2
    <2>2. PICK j \in 0 .. ny - 1 : v - j * side \in 0 .. side - 1
      BY <1>3
    <2>3. PICK k \in 1 .. ny * nx : cut[k] = C(i, j)
      BY <1>9
    <2>4. Covers(C(i, j), u, v)
      BY <1>14, <2>1, <2>2
    <2> QED BY <1>6, <2>3, <2>4
  <1>13. ASSUME NEW u \in 0 .. W - 1, NEW v \in 0 .. H - 1, NEW k \in 1 .. Len(tiles), NEW l \in 1 .. Len(tiles),
                Covers(cut[k], u, v), Covers(cut[l], u, v)
         PROVE  k = l
    <2>1. PICK i \in 0 .. nx - 1, j \in 0 .. ny - 1 : k = j * nx + (i + 1) /\ cut[k] = C(i, j)
      BY <1>6, <1>8
    <2>2. PICK ii \in 0 .. nx - 1, jj \in 0 .. ny - 1 : l = jj * nx + (ii + 1) /\ cut[l] = C(ii, jj)
      BY <1>6, <1>8
    <2>3. u - i * side \in 0 .. side - 1 /\ u - ii * side \in 0 .. side - 1
      BY <1>13, <1>14, <2>1, <2>2
    <2>4. v - j * side \in 0 .. side - 1 /\ v - jj * side \in 0 .. side - 1
      BY <1>13, <1>14, <2>1, <2>2
    <2>5. u \in Nat /\ v \in Nat /\ i \in Nat /\ ii \in Nat /\ j \in Nat /\ jj \in Nat
      OBVIOUS
    <2>6. i = ii /\ j = jj
      BY <1>2, <1>3, <2>3, <2>4, <2>5
    <2> QED BY <2>1, <2>2, <2>6
  <1> QED BY <1>6, <1>10, <1>11, <1>12, <1>13 DEF W, H, Tiling

-----------------------------------------------------------------------------
(* What operations leave on the screen. *)

(* Operations that bring their pixels. *)
Drawing == {"fill", "bitmap", "rows"}

(* What it shows there. *)
Shown(j, x, y) ==
  IF j.op \in {"bitmap", "rows"} THEN j.pixels[j.w * (y - j.y) + (x - j.x) + 1] ELSE j.colour

(* Operations that stay within a rectangle. *)
Within(js, r) ==
  /\ js \in Seq(Job)
  /\ \A i \in 1 .. Len(js) :
       /\ Filled(js[i]) /\ js[i].op \in Drawing
       /\ js[i].x >= r.x /\ js[i].y >= r.y
       /\ js[i].x + js[i].w <= r.x + r.w /\ js[i].y + js[i].h <= r.y + r.h

(* The last operation that covers the pixel shows v there. *)
Settled(js, x, y, v) ==
  \E i \in 1 .. Len(js) :
    /\ Covers(js[i], x, y) /\ Shown(js[i], x, y) = v
    /\ \A k \in i + 1 .. Len(js) : ~Covers(js[k], x, y)

(* A pixel of a block w wide. *)
Cell(cells, w, u, v) == cells[v * w + u + 1]

(* Operations that draw a block, where it is known. *)
Draws(js, r, cells) ==
  \A u \in 0 .. r.w - 1, v \in 0 .. r.h - 1 :
    Cell(cells, r.w, u, v) # Unknown => Settled(js, r.x + u, r.y + v, Cell(cells, r.w, u, v))

(* Operations within a rectangle that draw it. *)
Good(js, r, cells) == Within(js, r) /\ Draws(js, r, cells)

(* Intervals within intervals. *)
LEMMA Nested ==
  ASSUME NEW x \in Nat, NEW w \in Nat, NEW n \in Nat, x + w <= n, NEW a \in 0 .. w - 1
  PROVE  x + a \in 0 .. n - 1
  OBVIOUS

(* What a fill is. *)
LEMMA FillIs ==
  ASSUME NEW r, r.x \in Int, r.y \in Int, r.w \in Nat, r.h \in Nat, NEW colour \in Nat, NEW j, j = Fill(r, colour)
  PROVE  /\ j \in Job /\ j.op = "fill" /\ j.op \in Drawing /\ j.colour = colour
         /\ j.x = r.x /\ j.y = r.y /\ j.w = r.w /\ j.h = r.h
  <1>0. <<>> \in Seq(Nat) /\ 0 \in Nat /\ 0 \in Int
    OBVIOUS
  <1>1. j = [op |-> "fill", x |-> r.x, y |-> r.y, w |-> r.w, h |-> r.h, sx |-> 0, sy |-> 0, colour |-> colour, pixels |-> <<>>]
    BY DEF Fill, Block, NoJob
  <1> QED BY <1>0, <1>1 DEF Job, Drawing

(* What an operation with pixels of its own is. *)
LEMMA BlockIs ==
  ASSUME NEW r, r.x \in Int, r.y \in Int, r.w \in Nat, r.h \in Nat,
         NEW px \in Seq(Nat), NEW j, j = Rows(r, px) \/ j = Bitmap(r, px)
  PROVE  /\ j \in Job /\ j.op \in Drawing /\ j.x = r.x /\ j.y = r.y /\ j.w = r.w /\ j.h = r.h
         /\ j = Rows(r, px) => j.op = "rows" /\ j.pixels = px
         /\ j = Bitmap(r, px) => j.op = "bitmap" /\ j.pixels = px
  <1>0. <<>> \in Seq(Nat) /\ 0 \in Nat /\ 0 \in Int
    OBVIOUS
  <1>1. CASE j = Rows(r, px)
    <2>1. j = [op |-> "rows", x |-> r.x, y |-> r.y, w |-> r.w, h |-> r.h, sx |-> 0, sy |-> 0, colour |-> 0, pixels |-> px]
      BY <1>1 DEF Rows, Block, NoJob
    <2>2. j.op = "rows"
      BY <2>1
    <2>3. j # Bitmap(r, px)
      BY <2>2 DEF Bitmap, Block, NoJob
    <2> QED BY <1>0, <2>1, <2>3 DEF Job, Drawing
  <1>2. CASE j = Bitmap(r, px)
    <2>1. j = [op |-> "bitmap", x |-> r.x, y |-> r.y, w |-> r.w, h |-> r.h, sx |-> 0, sy |-> 0, colour |-> 0, pixels |-> px]
      BY <1>2 DEF Bitmap, Block, NoJob
    <2>2. j.op = "bitmap"
      BY <2>1
    <2>3. j # Rows(r, px)
      BY <2>2 DEF Rows, Block, NoJob
    <2> QED BY <1>0, <2>1, <2>3 DEF Job, Drawing
  <1> QED BY <1>1, <1>2

(* The offset of a pixel in its block. *)
LEMMA PixelOffset ==
  ASSUME NEW w \in Nat, NEW h \in Nat, NEW u \in 0 .. w - 1, NEW v \in 0 .. h - 1
  PROVE  v * w + u + 1 \in 1 .. w * h /\ w * v + u + 1 = v * w + u + 1
  <1> DEFINE p == v * w + u
             n == w * h
  <1>1. p \in 0 .. n - 1
    BY CellOffset
  <1>2. n \in Nat
    OBVIOUS
  <1> HIDE DEF p, n
  <1>3. p + 1 \in 1 .. n
    BY <1>1, <1>2
  <1>4. p + 1 = v * w + u + 1 /\ w * v + u + 1 = v * w + u + 1
    BY DEF p
  <1> QED BY <1>3, <1>4 DEF n

(* One operation for all of the block. *)
LEMMA OneBlock ==
  ASSUME NEW r \in Tile, NEW px \in Seq(Nat), Len(px) >= r.w * r.h, NEW cells,
         \A k \in 1 .. r.w * r.h : cells[k] # Unknown => cells[k] = px[k],
         NEW j, j = Rows(r, px) \/ j = Bitmap(r, px)
  PROVE  Good(<<j>>, r, cells)
  <1>1. r.x \in Int /\ r.y \in Int /\ r.w \in Nat \ {0} /\ r.h \in Nat \ {0}
    BY DEF Tile
  <1>2. /\ j \in Job /\ j.op \in {"rows", "bitmap"} /\ j.op \in Drawing /\ j.pixels = px
        /\ j.x = r.x /\ j.y = r.y /\ j.w = r.w /\ j.h = r.h
    BY <1>1, BlockIs
  <1>3. Within(<<j>>, r)
    BY <1>1, <1>2 DEF Within, Filled
  <1>4. ASSUME NEW u \in 0 .. r.w - 1, NEW v \in 0 .. r.h - 1, Cell(cells, r.w, u, v) # Unknown
        PROVE  Settled(<<j>>, r.x + u, r.y + v, Cell(cells, r.w, u, v))
    <2>1. (r.x + u) - r.x = u /\ (r.y + v) - r.y = v
      BY <1>1
    <2>2. Covers(j, r.x + u, r.y + v)
      BY <1>2, <2>1 DEF Covers
    <2>3. v * r.w + u + 1 \in 1 .. r.w * r.h /\ r.w * v + u + 1 = v * r.w + u + 1
      BY <1>1, PixelOffset
    <2>4. Shown(j, r.x + u, r.y + v) = px[r.w * v + u + 1]
      BY <1>2, <2>1 DEF Shown
    <2>5. Shown(j, r.x + u, r.y + v) = Cell(cells, r.w, u, v)
      BY <1>4, <2>3, <2>4 DEF Cell
    <2> QED BY <2>2, <2>5 DEF Settled
  <1> QED BY <1>3, <1>4 DEF Good, Draws

(* A fill draws a block of one colour. *)
LEMMA OneFill ==
  ASSUME NEW r \in Tile, NEW colour \in Nat, NEW cells,
         \A k \in 1 .. r.w * r.h : cells[k] # Unknown => cells[k] = colour
  PROVE  Good(<<Fill(r, colour)>>, r, cells)
  <1> DEFINE j == Fill(r, colour)
  <1>1. r.x \in Int /\ r.y \in Int /\ r.w \in Nat \ {0} /\ r.h \in Nat \ {0}
    BY DEF Tile
  <1>2. /\ j \in Job /\ j.op = "fill" /\ j.op \in Drawing /\ j.colour = colour
        /\ j.x = r.x /\ j.y = r.y /\ j.w = r.w /\ j.h = r.h
    BY <1>1, FillIs
  <1> HIDE DEF j
  <1>3. Within(<<j>>, r)
    BY <1>1, <1>2 DEF Within, Filled
  <1>4. ASSUME NEW u \in 0 .. r.w - 1, NEW v \in 0 .. r.h - 1, Cell(cells, r.w, u, v) # Unknown
        PROVE  Settled(<<j>>, r.x + u, r.y + v, Cell(cells, r.w, u, v))
    <2>1. (r.x + u) - r.x = u /\ (r.y + v) - r.y = v
      BY <1>1
    <2>2. Covers(j, r.x + u, r.y + v)
      BY <1>2, <2>1 DEF Covers
    <2>3. v * r.w + u + 1 \in 1 .. r.w * r.h
      BY <1>1, PixelOffset
    <2>4. Shown(j, r.x + u, r.y + v) = colour
      BY <1>2 DEF Shown
    <2>5. Shown(j, r.x + u, r.y + v) = Cell(cells, r.w, u, v)
      BY <1>4, <2>3, <2>4 DEF Cell
    <2> QED BY <2>2, <2>5 DEF Settled
  <1> QED BY <1>3, <1>4 DEF Good, Draws, j

-----------------------------------------------------------------------------
(* Part of a block. *)
LEMMA CutIs ==
  ASSUME NEW S, NEW w \in Nat \ {0}, NEW h \in Nat \ {0}, NEW cells \in Seq(S), Len(cells) = w * h,
         NEW t, Inside(t, w, h)
  PROVE  /\ Cut(cells, w, t) \in Seq(S) /\ Len(Cut(cells, w, t)) = t.w * t.h
         /\ \A a \in 0 .. t.w - 1, b \in 0 .. t.h - 1 :
              Cell(Cut(cells, w, t), t.w, a, b) = Cell(cells, w, t.x + a, t.y + b)
  <1> DEFINE F(k) == cells[(t.y + (k - 1) \div t.w) * w + t.x + ((k - 1) % t.w) + 1]
             n == t.w * t.h
             c == [k \in 1 .. n |-> F(k)]
  <1>0. /\ t.x \in Nat /\ t.y \in Nat /\ t.w \in Nat \ {0} /\ t.h \in Nat \ {0}
        /\ t.x + t.w <= w /\ t.y + t.h <= h
    BY DEF Inside
  <1>1. Cut(cells, w, t) = c
    BY DEF Cut
  <1>2. \A k \in 1 .. n : F(k) \in S
    <2> SUFFICES ASSUME NEW k \in 1 .. n PROVE F(k) \in S
      OBVIOUS
    <2> DEFINE b == (k - 1) \div t.w
               a == (k - 1) % t.w
               v == t.y + b
               u == t.x + a
    <2>1. k - 1 \in Nat /\ k - 1 \in 0 .. n - 1
      BY <1>0
    <2>2. b \in 0 .. t.h - 1 /\ a \in 0 .. t.w - 1
      <3>1. b \in 0 .. t.h - 1
        BY <1>0, <2>1, SplitBelow
      <3>2. a \in 0 .. t.w - 1
        BY <1>0, <2>1, Split
      <3> QED BY <3>1, <3>2
    <2> HIDE DEF a, b
    <2>3. v \in 0 .. h - 1 /\ u \in 0 .. w - 1
      BY <1>0, <2>2, Nested
    <2>4. v * w + u + 1 \in 1 .. w * h
      <3> HIDE DEF u, v
      <3> QED BY <2>3, PixelOffset
    <2>5. v * w + t.x + a + 1 = v * w + u + 1
      <3> DEFINE p == v * w
      <3>1. p \in Int
        BY <2>3
      <3> HIDE DEF p
      <3>2. p + t.x + a + 1 = p + (t.x + a) + 1
        BY <1>0, <2>2, <3>1
      <3> QED BY <3>2 DEF p
    <2>6. F(k) = cells[v * w + u + 1]
      BY <2>5 DEF a, b
    <2> DEFINE q == v * w + u + 1
    <2>7. q \in 1 .. Len(cells) /\ F(k) = cells[q]
      BY <2>4, <2>6
    <2> HIDE DEF q, F
    <2>8. cells[q] \in S
      BY <2>7
    <2> QED BY <2>7, <2>8
  <1>3. c \in Seq(S) /\ Len(c) = n
    <2>1. c \in [1 .. n -> S]
      <3> HIDE DEF F, n
      <3> QED BY <1>2
    <2>2. n \in Nat
      BY <1>0
    <2> HIDE DEF c, n
    <2> QED BY <2>1, <2>2, IsSeqOf
  <1>4. ASSUME NEW a \in 0 .. t.w - 1, NEW b \in 0 .. t.h - 1
        PROVE  c[b * t.w + a + 1] = cells[(t.y + b) * w + (t.x + a) + 1]
    <2> DEFINE p == b * t.w + a
               k == p + 1
    <2>1. p \in Nat /\ p \div t.w = b /\ p % t.w = a
      <3>1. b \in Nat
        OBVIOUS
      <3> QED BY <1>0, <3>1, DivMod
    <2>2. k \in 1 .. n
      BY <1>0, PixelOffset
    <2> HIDE DEF p
    <2>3. k - 1 = p
      BY <2>1
    <2> HIDE DEF k
    <2>4. c[k] = F(k)
      <3> HIDE DEF F
      <3> QED BY <2>2
    <2>5. F(k) = cells[(t.y + b) * w + t.x + a + 1]
      BY <2>1, <2>3
    <2>6. (t.y + b) * w + t.x + a + 1 = (t.y + b) * w + (t.x + a) + 1
      <3> DEFINE y == (t.y + b) * w
      <3>1. y \in Int
        BY <1>0
      <3> HIDE DEF y
      <3>2. y + t.x + a + 1 = y + (t.x + a) + 1
        BY <1>0, <3>1
      <3> QED BY <3>2 DEF y
    <2> QED BY <2>4, <2>5, <2>6 DEF k, p
  <1> HIDE DEF c
  <1> QED BY <1>1, <1>3, <1>4 DEF Cell

(* Tiles drawn one after the other draw the rectangle. *)
LEMMA TilesDraw ==
  ASSUME NEW r \in Tile, NEW side \in Nat \ {0}, NEW tiles, NEW cut,
         tiles = TileLoop(r, side), cut = TilesOf(r.w, r.h, side),
         NEW S, NEW cells \in Seq(S), Len(cells) = r.w * r.h,
         NEW s, NEW f \in Seq(Job), NEW E, Flat(s, f, E), Len(s) = Len(tiles),
         \A k \in 1 .. Len(s) : Within(s[k], tiles[k])
  PROVE  /\ Within(f, r)
         /\ (\A k \in 1 .. Len(s) : Draws(s[k], tiles[k], Cut(cells, r.w, cut[k]))) => Draws(f, r, cells)
  <1> DEFINE n == Len(s)
             W == r.w
             H == r.h
  <1>0. W \in Nat \ {0} /\ H \in Nat \ {0} /\ r.x \in Int /\ r.y \in Int
    BY DEF Tile
  <1>1. n \in Nat
    <2>1. Tiling(tiles, cut, r)
      BY TilesAre
    <2> QED BY <2>1 DEF Tiling
  <1>2. \A k \in 1 .. n : /\ Inside(cut[k], W, H)
                          /\ tiles[k].x = r.x + cut[k].x /\ tiles[k].y = r.y + cut[k].y
                          /\ tiles[k].w = cut[k].w /\ tiles[k].h = cut[k].h
    <2>1. Tiling(tiles, cut, r)
      BY TilesAre
    <2> QED BY <2>1 DEF Tiling
  <1>3. \A u \in 0 .. W - 1, v \in 0 .. H - 1 : \E k \in 1 .. n : Covers(cut[k], u, v)
    <2>1. Tiling(tiles, cut, r)
      BY TilesAre
    <2> QED BY <2>1 DEF Tiling
  <1>4. \A u \in 0 .. W - 1, v \in 0 .. H - 1 : \A k, l \in 1 .. n :
              Covers(cut[k], u, v) /\ Covers(cut[l], u, v) => k = l
    <2>1. Tiling(tiles, cut, r)
      BY TilesAre
    <2> QED BY <2>1 DEF Tiling
  <1> HIDE DEF n, W, H
  <1>5. /\ E \in [0 .. n -> Nat] /\ Len(f) \in Nat
        /\ \A k \in 1 .. n : E[k] = E[k - 1] + Len(s[k])
        /\ \A k, l \in 0 .. n : k <= l => E[k] <= E[l]
        /\ \A k \in 1 .. n : \A j \in 1 .. Len(s[k]) : f[E[k - 1] + j] = s[k][j]
        /\ \A i \in 1 .. Len(f) : \E k \in 1 .. n : i \in E[k - 1] + 1 .. E[k]
        /\ Len(f) = E[n]
    <2>1. Len(f) \in Nat
      OBVIOUS
    <2> QED BY <2>1 DEF Flat, n
  <1>6. \A k \in 1 .. n : k - 1 \in 0 .. n /\ k \in 0 .. n /\ E[k - 1] \in Nat /\ E[k] \in Nat /\ Len(s[k]) \in Nat
    <2> SUFFICES ASSUME NEW k \in 1 .. n
                 PROVE  k - 1 \in 0 .. n /\ k \in 0 .. n /\ E[k - 1] \in Nat /\ E[k] \in Nat /\ Len(s[k]) \in Nat
      OBVIOUS
    <2>1. k - 1 \in 0 .. n /\ k \in 0 .. n
      BY <1>1
    <2>2. Within(s[k], tiles[k])
      BY DEF n
    <2>3. Len(s[k]) \in Nat
      BY <2>2 DEF Within
    <2> QED BY <1>5, <2>1, <2>3
  <1>7. ASSUME NEW i \in 1 .. Len(f)
        PROVE  \E k \in 1 .. n : \E j \in 1 .. Len(s[k]) : i = E[k - 1] + j /\ f[i] = s[k][j]
    <2>1. PICK k \in 1 .. n : i \in E[k - 1] + 1 .. E[k]
      BY <1>5
    <2>2. E[k] = E[k - 1] + Len(s[k]) /\ E[k - 1] \in Nat /\ Len(s[k]) \in Nat
      BY <1>5, <1>6
    <2>3. PICK j \in 1 .. Len(s[k]) : i = E[k - 1] + j
      <3> DEFINE e == E[k - 1]
                 q == Len(s[k])
      <3>1. e \in Nat /\ q \in Nat /\ i \in e + 1 .. e + q
        BY <2>1, <2>2
      <3> HIDE DEF e, q
      <3>2. i - e \in 1 .. q /\ i = e + (i - e)
        BY <3>1
      <3> QED BY <3>2 DEF e, q
    <2>4. f[i] = s[k][j]
      BY <1>5, <2>3
    <2> QED BY <2>3, <2>4
  <1>8. Within(f, r)
    <2>1. ASSUME NEW i \in 1 .. Len(f)
          PROVE  /\ Filled(f[i]) /\ f[i].op \in Drawing
                 /\ f[i].x >= r.x /\ f[i].y >= r.y
                 /\ f[i].x + f[i].w <= r.x + r.w /\ f[i].y + f[i].h <= r.y + r.h
      <3>1. PICK k \in 1 .. n : \E j \in 1 .. Len(s[k]) : i = E[k - 1] + j /\ f[i] = s[k][j]
        BY <1>7
      <3>2. PICK j \in 1 .. Len(s[k]) : i = E[k - 1] + j /\ f[i] = s[k][j]
        BY <3>1
      <3>3. Within(s[k], tiles[k])
        BY DEF n
      <3>4. /\ Filled(f[i]) /\ f[i].op \in Drawing /\ f[i] \in Job
            /\ f[i].x >= tiles[k].x /\ f[i].y >= tiles[k].y
            /\ f[i].x + f[i].w <= tiles[k].x + tiles[k].w /\ f[i].y + f[i].h <= tiles[k].y + tiles[k].h
        BY <3>2, <3>3 DEF Within
      <3>5. f[i].x \in Int /\ f[i].y \in Int /\ f[i].w \in Nat /\ f[i].h \in Nat
        BY <3>4 DEF Job
      <3>6. W = r.w /\ H = r.h
        BY DEF W, H
      <3>7. /\ cut[k].x \in Nat /\ cut[k].y \in Nat /\ cut[k].w \in Nat \ {0} /\ cut[k].h \in Nat \ {0}
            /\ cut[k].x + cut[k].w <= r.w /\ cut[k].y + cut[k].h <= r.h
            /\ tiles[k].x = r.x + cut[k].x /\ tiles[k].y = r.y + cut[k].y
            /\ tiles[k].w = cut[k].w /\ tiles[k].h = cut[k].h
        BY <1>2, <3>6 DEF Inside
      <3>8. r.x \in Int /\ r.w \in Nat /\ r.y \in Int /\ r.h \in Nat /\ cut[k].w \in Nat /\ cut[k].h \in Nat
        BY <1>0, <3>6, <3>7
      <3>9. f[i].x >= r.x /\ f[i].x + f[i].w <= r.x + r.w
        <4> DEFINE a == f[i].x
                   b == f[i].w
                   c == cut[k].x
                   d == cut[k].w
                   e == r.x
                   g == r.w
        <4>1. a >= e + c /\ a + b <= (e + c) + d /\ c + d <= g
          BY <3>4, <3>7
        <4>2. a \in Int /\ b \in Nat /\ c \in Nat /\ d \in Nat /\ e \in Int /\ g \in Nat
          BY <3>5, <3>7, <3>8
        <4> HIDE DEF a, b, c, d, e, g
        <4>3. a >= e /\ a + b <= e + g
          BY <4>1, <4>2
        <4> QED BY <4>3 DEF a, b, e, g
      <3>10. f[i].y >= r.y /\ f[i].y + f[i].h <= r.y + r.h
        <4> DEFINE a == f[i].y
                   b == f[i].h
                   c == cut[k].y
                   d == cut[k].h
                   e == r.y
                   g == r.h
        <4>1. a >= e + c /\ a + b <= (e + c) + d /\ c + d <= g
          BY <3>4, <3>7
        <4>2. a \in Int /\ b \in Nat /\ c \in Nat /\ d \in Nat /\ e \in Int /\ g \in Nat
          BY <3>5, <3>7, <3>8
        <4> HIDE DEF a, b, c, d, e, g
        <4>3. a >= e /\ a + b <= e + g
          BY <4>1, <4>2
        <4> QED BY <4>3 DEF a, b, e, g
      <3> QED BY <3>4, <3>9, <3>10
    <2> QED BY <2>1 DEF Within
  <1>9. ASSUME \A k \in 1 .. n : Draws(s[k], tiles[k], Cut(cells, r.w, cut[k])),
               NEW u \in 0 .. r.w - 1, NEW v \in 0 .. r.h - 1, Cell(cells, r.w, u, v) # Unknown
        PROVE  Settled(f, r.x + u, r.y + v, Cell(cells, r.w, u, v))
    <2>0. W = r.w /\ H = r.h
      BY DEF W, H
    <2>1. PICK k \in 1 .. n : Covers(cut[k], u, v)
      BY <1>3, <2>0
    <2> DEFINE a == u - cut[k].x
               b == v - cut[k].y
               val == Cell(cells, r.w, u, v)
    <2>2. a \in 0 .. cut[k].w - 1 /\ b \in 0 .. cut[k].h - 1
      BY <2>1 DEF Covers
    <2>3. cut[k].x + a = u /\ cut[k].y + b = v
      BY <1>2 DEF Inside
    <2>4. Cell(Cut(cells, r.w, cut[k]), cut[k].w, a, b) = val
      <3> HIDE DEF a, b
      <3> DEFINE t == cut[k]
      <3>3. Inside(t, W, H)
        BY <1>2
      <3> HIDE DEF t
      <3>4. Cell(Cut(cells, W, t), t.w, a, b) = Cell(cells, W, t.x + a, t.y + b)
        <4>1. a \in 0 .. t.w - 1 /\ b \in 0 .. t.h - 1
          BY <2>2 DEF t
        <4>2. Len(cells) = W * H
          BY <2>0
        <4> QED BY <1>0, <3>3, <4>1, <4>2, CutIs
      <3>2. Cell(Cut(cells, r.w, cut[k]), cut[k].w, a, b) = Cell(cells, r.w, cut[k].x + a, cut[k].y + b)
        BY <2>0, <3>4 DEF t
      <3> QED BY <2>3, <3>2
    <2>5. tiles[k].x + a = r.x + u /\ tiles[k].y + b = r.y + v
      <3>1. cut[k].x \in Int /\ cut[k].y \in Int /\ u \in Int /\ v \in Int /\ r.x \in Int /\ r.y \in Int
        BY <1>0, <1>2 DEF Inside
      <3> DEFINE cx == cut[k].x
                 cy == cut[k].y
      <3>2. tiles[k].x = r.x + cx /\ tiles[k].y = r.y + cy
        BY <1>2
      <3> DEFINE rx == r.x
                 ry == r.y
      <3>4. cx \in Int /\ cy \in Int /\ rx \in Int /\ ry \in Int /\ u \in Int /\ v \in Int
        BY <3>1
      <3> HIDE DEF cx, cy, rx, ry
      <3>5. (rx + cx) + (u - cx) = rx + u /\ (ry + cy) + (v - cy) = ry + v
        BY <3>4
      <3>3. (r.x + cx) + (u - cx) = r.x + u /\ (r.y + cy) + (v - cy) = r.y + v
        BY <3>5 DEF rx, ry
      <3> QED BY <3>2, <3>3 DEF cx, cy
    <2>6. Settled(s[k], r.x + u, r.y + v, val)
      <3> HIDE DEF a, b
      <3>1. Draws(s[k], tiles[k], Cut(cells, r.w, cut[k]))
        BY <1>9
      <3>2. tiles[k].w = cut[k].w /\ tiles[k].h = cut[k].h
        BY <1>2
      <3>3. val # Unknown
        BY <1>9
      <3> HIDE DEF val
      <3>4. Settled(s[k], tiles[k].x + a, tiles[k].y + b, val)
        BY <2>2, <2>4, <3>1, <3>2, <3>3 DEF Draws
      <3> QED BY <2>5, <3>4
    <2> DEFINE x == r.x + u
               y == r.y + v
    <2>7. PICK i \in 1 .. Len(s[k]) : /\ Covers(s[k][i], x, y) /\ Shown(s[k][i], x, y) = val
                                      /\ \A l \in i + 1 .. Len(s[k]) : ~Covers(s[k][l], x, y)
      BY <2>6 DEF Settled
    <2> DEFINE p == E[k - 1] + i
    <2>8. p \in 1 .. Len(f) /\ f[p] = s[k][i]
      <3>1. E[k] = E[k - 1] + Len(s[k]) /\ E[k - 1] \in Nat /\ Len(s[k]) \in Nat /\ E[k] \in Nat /\ E[k] <= E[n] /\ E[n] = Len(f)
        <4>1. k \in 0 .. n /\ n \in 0 .. n /\ k <= n
          BY <1>1
        <4> QED BY <1>5, <1>6, <4>1
      <3>2. p \in 1 .. Len(f)
        <4> DEFINE e == E[k - 1]
                   q == Len(s[k])
        <4>1. e \in Nat /\ q \in Nat /\ i \in 1 .. q /\ e + q <= Len(f) /\ Len(f) \in Nat
          BY <1>5, <3>1
        <4> HIDE DEF e, q
        <4>2. e + i \in 1 .. Len(f)
          BY <4>1
        <4> QED BY <4>2 DEF e
      <3> QED BY <1>5, <3>2
    <2>9. ASSUME NEW m \in p + 1 .. Len(f), Covers(f[m], x, y) PROVE FALSE
      <3>0. m \in 1 .. Len(f)
        BY <2>8
      <3>1. PICK l \in 1 .. n : \E j \in 1 .. Len(s[l]) : m = E[l - 1] + j /\ f[m] = s[l][j]
        BY <1>7, <3>0
      <3>2. PICK j \in 1 .. Len(s[l]) : m = E[l - 1] + j /\ f[m] = s[l][j]
        BY <3>1
      <3>3. Covers(s[l][j], x, y)
        BY <2>9, <3>2
      <3>4. Within(s[l], tiles[l])
        BY DEF n
      <3> DEFINE o == s[l][j]
      <3>5. /\ o \in Job
            /\ o.x >= tiles[l].x /\ o.y >= tiles[l].y
            /\ o.x + o.w <= tiles[l].x + tiles[l].w /\ o.y + o.h <= tiles[l].y + tiles[l].h
        BY <3>4 DEF Within
      <3>6. o.x \in Int /\ o.y \in Int /\ o.w \in Nat /\ o.h \in Nat
        BY <3>5 DEF Job
      <3> HIDE DEF o
      <3>7. Covers(o, x, y)
        BY <3>3 DEF o
      <3> DEFINE cx == cut[l].x
                 cy == cut[l].y
                 cw == cut[l].w
                 ch == cut[l].h
      <3>8. /\ cx \in Nat /\ cy \in Nat /\ cw \in Nat \ {0} /\ ch \in Nat \ {0}
            /\ tiles[l].x = r.x + cx /\ tiles[l].y = r.y + cy /\ tiles[l].w = cw /\ tiles[l].h = ch
        BY <1>2 DEF Inside
      <3>9. u - cx \in 0 .. cw - 1 /\ v - cy \in 0 .. ch - 1
        <4> HIDE DEF cx, cy, cw, ch
        <4>1. u \in Int /\ v \in Int /\ r.x \in Int /\ r.y \in Int
          BY <1>0, <2>0
        <4>2. (r.x + u) - o.x \in 0 .. o.w - 1 /\ (r.y + v) - o.y \in 0 .. o.h - 1
          BY <3>7 DEF Covers
        <4>3. u - cx \in 0 .. cw - 1
          <5> DEFINE g == o.x
                     d == o.w
                     e == r.x
          <5>1. g >= e + cx /\ g + d <= (e + cx) + cw /\ (e + u) - g \in 0 .. d - 1
            BY <3>5, <3>8, <4>2
          <5>2. g \in Int /\ d \in Nat /\ e \in Int /\ cx \in Nat /\ cw \in Nat /\ u \in Int
            BY <3>6, <3>8, <4>1
          <5> HIDE DEF g, d, e
          <5> QED BY <5>1, <5>2
        <4>4. v - cy \in 0 .. ch - 1
          <5> DEFINE g == o.y
                     d == o.h
                     e == r.y
          <5>1. g >= e + cy /\ g + d <= (e + cy) + ch /\ (e + v) - g \in 0 .. d - 1
            BY <3>5, <3>8, <4>2
          <5>2. g \in Int /\ d \in Nat /\ e \in Int /\ cy \in Nat /\ ch \in Nat /\ v \in Int
            BY <3>6, <3>8, <4>1
          <5> HIDE DEF g, d, e
          <5> QED BY <5>1, <5>2
        <4> QED BY <4>3, <4>4
      <3>10. Covers(cut[l], u, v)
        BY <3>9 DEF Covers
      <3>11. l = k
        BY <1>4, <2>0, <2>1, <3>10
      <3>12. j \in i + 1 .. Len(s[k])
        BY <1>6, <2>9, <3>2, <3>11
      <3> QED BY <2>7, <3>3, <3>11, <3>12
    <2>10. Covers(f[p], x, y) /\ Shown(f[p], x, y) = val /\ \A m \in p + 1 .. Len(f) : ~Covers(f[m], x, y)
      BY <2>7, <2>8, <2>9
    <2> HIDE DEF p, val, x, y
    <2>11. Settled(f, x, y, val)
      BY <2>8, <2>10 DEF Settled
    <2> QED BY <2>11 DEF x, y, val
  <1>10. (\A k \in 1 .. n : Draws(s[k], tiles[k], Cut(cells, r.w, cut[k]))) => Draws(f, r, cells)
    BY <1>9 DEF Draws
  <1> QED BY <1>8, <1>10 DEF n

-----------------------------------------------------------------------------
(* Stretches of one colour. *)

(* A stretch of one colour. *)
Run == [colour : Nat, from : Nat, length : Nat \ {0}]

(* Where a run ends, the pixels in it, and their colour. *)
End(run) == run.from + run.length
InRun(run, i) == i > run.from /\ i <= End(run)
Coloured(s, run) == \A i \in 1 .. run.length : s[run.from + i] = run.colour

(* Runs of the first n pixels, end to end. *)
IsRuns(s, n, runs) ==
  /\ runs \in Seq(Run) /\ Len(runs) <= n
  /\ n > 0 => Len(runs) > 0 /\ runs[1].from = 0 /\ End(runs[Len(runs)]) = n
  /\ \A k \in 1 .. Len(runs) : End(runs[k]) <= n /\ Coloured(s, runs[k])
  /\ \A k \in 2 .. Len(runs) : runs[k].from = End(runs[k - 1])
  /\ \A k, l \in 1 .. Len(runs) : k < l => End(runs[k]) <= runs[l].from
  /\ \A i \in 1 .. n : \E k \in 1 .. Len(runs) : InRun(runs[k], i)

(* The runs of one more pixel: q of the old ones, then run e. *)
Extends(old, q, e, new) ==
  /\ new \in Seq(Run) /\ Len(new) = q + 1 /\ new[q + 1] = e
  /\ \A k \in 1 .. q : new[k] = old[k]
Reach(old, q, e, n) ==
  /\ q \in 0 .. Len(old) /\ (q = 0 => e.from = 0) /\ (q > 0 => e.from = End(old[q]))
  /\ \A i \in 1 .. n : InRun(e, i) \/ \E k \in 1 .. q : InRun(old[k], i)

(* The fields of a stretch. *)
LEMMA RunIs ==
  ASSUME NEW run \in Run
  PROVE  run.from \in Nat /\ run.length \in Nat \ {0} /\ run.colour \in Nat /\ End(run) \in Nat /\ End(run) > run.from
  <1>1. run.from \in Nat /\ run.length \in Nat \ {0} /\ run.colour \in Nat
    BY DEF Run
  <1> DEFINE a == run.from
             b == run.length
  <1>2. a \in Nat /\ b \in Nat \ {0} /\ End(run) = a + b
    BY <1>1 DEF End
  <1> HIDE DEF a, b
  <1>3. End(run) \in Nat /\ End(run) > a
    BY <1>2
  <1> QED BY <1>1, <1>3 DEF a

(* The runs up to the next pixel: the first q, and the one it is in. *)
LEMMA RunsNext ==
  ASSUME NEW s \in Seq(Nat), NEW n \in Nat, NEW old, IsRuns(s, n, old),
         NEW q \in Nat, NEW e \in Run, End(e) = n + 1, Coloured(s, e),
         NEW new, Reach(old, q, e, n + 1), Extends(old, q, e, new)
  PROVE  IsRuns(s, n + 1, new)
  <1>0. /\ q \in 0 .. Len(old) /\ (q = 0 => e.from = 0) /\ (q > 0 => e.from = End(old[q]))
        /\ \A i \in 1 .. n + 1 : InRun(e, i) \/ \E k \in 1 .. q : InRun(old[k], i)
        /\ new \in Seq(Run) /\ Len(new) = q + 1 /\ new[q + 1] = e
        /\ \A k \in 1 .. q : new[k] = old[k]
    BY DEF Reach, Extends
  <1>1. old \in Seq(Run) /\ Len(old) <= n /\ Len(old) \in Nat /\ q \in Nat /\ q <= Len(old)
    BY <1>0 DEF IsRuns
  <1>2. n > 0 => Len(old) > 0 /\ old[1].from = 0
    BY DEF IsRuns
  <1>3. \A k \in 1 .. Len(old) : End(old[k]) <= n /\ Coloured(s, old[k])
    BY DEF IsRuns
  <1>4. \A k \in 2 .. Len(old) : old[k].from = End(old[k - 1])
    BY DEF IsRuns
  <1>5. \A k, l \in 1 .. Len(old) : k < l => End(old[k]) <= old[l].from
    BY DEF IsRuns
  <1>6. \A k \in 1 .. q : k \in 1 .. Len(old) /\ new[k] = old[k] /\ old[k] \in Run
    BY <1>0, <1>1
  <1>7. \A k \in 1 .. q : End(old[k]) \in Nat /\ old[k].from \in Nat
    BY <1>6, RunIs
  <1>8. \A k \in 1 .. q + 1 : k \in 1 .. q \/ k = q + 1
    BY <1>1
  <1>9. ASSUME NEW k \in 1 .. q + 1 PROVE End(new[k]) <= n + 1 /\ Coloured(s, new[k])
    <2>1. CASE k = q + 1
      BY <1>0, <2>1
    <2>2. CASE k \in 1 .. q
      <3>1. End(old[k]) <= n /\ Coloured(s, old[k]) /\ End(old[k]) \in Nat /\ new[k] = old[k]
        BY <1>3, <1>6, <1>7, <2>2
      <3> QED BY <3>1
    <2> QED BY <1>8, <2>1, <2>2
  <1>10. ASSUME NEW k \in 2 .. q + 1 PROVE new[k].from = End(new[k - 1])
    <2>1. k - 1 \in 1 .. q /\ new[k - 1] = old[k - 1]
      BY <1>1, <1>6
    <2>2. CASE k = q + 1
      <3>1. k - 1 = q /\ q > 0 /\ new[k] = e
        BY <1>0, <1>1, <2>2
      <3> QED BY <1>0, <2>1, <3>1
    <2>3. CASE k # q + 1
      <3>1. k \in 1 .. q /\ k \in 2 .. Len(old)
        BY <1>1, <2>3
      <3> QED BY <1>4, <1>6, <2>1, <3>1
    <2> QED BY <2>2, <2>3
  <1>11. ASSUME NEW k \in 1 .. q PROVE End(old[k]) <= e.from
    <2>1. e.from = End(old[q]) /\ q \in 1 .. q
      BY <1>0, <1>1
    <2>2. CASE k = q
      BY <1>7, <2>1, <2>2
    <2>3. CASE k # q
      <3>1. k < q
        BY <1>1, <2>3
      <3>2. End(old[k]) <= old[q].from
        BY <1>5, <1>6, <2>1, <3>1
      <3>3. old[q].from < End(old[q]) /\ old[q].from \in Nat /\ End(old[q]) \in Nat /\ End(old[k]) \in Nat
        BY <1>6, <2>1, RunIs
      <3> QED BY <2>1, <3>2, <3>3
    <2> QED BY <2>2, <2>3
  <1>12. ASSUME NEW k \in 1 .. q + 1, NEW l \in 1 .. q + 1, k < l PROVE End(new[k]) <= new[l].from
    <2>1. k \in 1 .. q
      BY <1>1, <1>12
    <2>2. CASE l = q + 1
      BY <1>0, <1>6, <1>11, <2>1, <2>2
    <2>3. CASE l # q + 1
      <3>1. l \in 1 .. q
        BY <1>8, <2>3
      <3> QED BY <1>5, <1>6, <1>12, <2>1, <3>1
    <2> QED BY <2>2, <2>3
  <1>13. ASSUME NEW i \in 1 .. n + 1 PROVE \E k \in 1 .. q + 1 : InRun(new[k], i)
    <2>1. CASE InRun(e, i)
      <3>1. q + 1 \in 1 .. q + 1
        BY <1>1
      <3> QED BY <1>0, <2>1, <3>1
    <2>2. CASE \E k \in 1 .. q : InRun(old[k], i)
      <3>1. PICK k \in 1 .. q : InRun(old[k], i)
        BY <2>2
      <3>2. k \in 1 .. q + 1 /\ new[k] = old[k]
        BY <1>0, <1>1
      <3> QED BY <3>1, <3>2
    <2> QED BY <1>0, <2>1, <2>2
  <1>14. Len(new) > 0 /\ new[1].from = 0 /\ End(new[Len(new)]) = n + 1 /\ Len(new) <= n + 1
    <2>1. CASE q = 0
      BY <1>0, <1>1, <2>1
    <2>2. CASE q > 0
      <3>1. 1 \in 1 .. q /\ n > 0
        BY <1>1, <2>2
      <3>2. new[1].from = 0
        BY <1>2, <1>6, <3>1
      <3> QED BY <1>0, <1>1, <3>2
    <2> QED BY <1>1, <2>1, <2>2
  <1>15. \A k \in 1 .. Len(new) : End(new[k]) <= n + 1 /\ Coloured(s, new[k])
    BY <1>0, <1>9
  <1>16. \A k \in 2 .. Len(new) : new[k].from = End(new[k - 1])
    BY <1>0, <1>10
  <1>17. \A k, l \in 1 .. Len(new) : k < l => End(new[k]) <= new[l].from
    BY <1>0, <1>12
  <1>18. \A i \in 1 .. n + 1 : \E k \in 1 .. Len(new) : InRun(new[k], i)
    BY <1>0, <1>13
  <1> QED BY <1>0, <1>14, <1>15, <1>16, <1>17, <1>18 DEF IsRuns

(* The last run one pixel longer. *)
Longer(run) == [run EXCEPT !.length = @ + 1]
Grown(runs) == [runs EXCEPT ![Len(runs)].length = @ + 1]

(* A stretch that is one pixel longer. *)
LEMMA LongerIs ==
  ASSUME NEW run \in Run
  PROVE  /\ Longer(run) \in Run /\ Longer(run).from = run.from
         /\ Longer(run).length = run.length + 1 /\ Longer(run).colour = run.colour
  BY DEF Run, Longer

(* Only the last stretch grows. *)
LEMMA GrownIs ==
  ASSUME NEW runs \in Seq(Run), Len(runs) > 0
  PROVE  /\ Grown(runs) \in Seq(Run) /\ Len(Grown(runs)) = Len(runs) /\ Len(runs) \in Nat
         /\ Grown(runs)[Len(runs)] = Longer(runs[Len(runs)])
         /\ \A k \in 1 .. Len(runs) - 1 : Grown(runs)[k] = runs[k]
  <1> DEFINE m == Len(runs)
             e == Longer(runs[m])
  <1>1. m \in Nat /\ m \in 1 .. m /\ DOMAIN runs = 1 .. m
    OBVIOUS
  <1>2. Grown(runs) = [runs EXCEPT ![m] = e]
    BY DEF Grown, Longer
  <1>3. e \in Run
    <2>1. runs[m] \in Run
      BY <1>1
    <2> QED BY <2>1, LongerIs
  <1> HIDE DEF e
  <1>4. Grown(runs) \in Seq(Run) /\ Len(Grown(runs)) = m
    BY <1>1, <1>2, <1>3
  <1>5. Grown(runs)[m] = e /\ \A k \in 1 .. m - 1 : Grown(runs)[k] = runs[k]
    BY <1>1, <1>2
  <1> QED BY <1>1, <1>4, <1>5 DEF e

(* One pixel more of the colour of the last run. *)
LEMMA RunGrows ==
  ASSUME NEW s \in Seq(Nat), NEW n \in Nat \ {0}, NEW old, IsRuns(s, n, old), n + 1 <= Len(s), s[n + 1] = s[n],
         NEW new, new = Grown(old)
  PROVE  IsRuns(s, n + 1, new)
  <1>1. old \in Seq(Run) /\ Len(old) \in Nat /\ Len(old) > 0 /\ old[1].from = 0 /\ End(old[Len(old)]) = n
    BY DEF IsRuns
  <1>2. \A k \in 1 .. Len(old) : Coloured(s, old[k])
    BY DEF IsRuns
  <1>3. \A k \in 2 .. Len(old) : old[k].from = End(old[k - 1])
    BY DEF IsRuns
  <1>4. \A i \in 1 .. n : \E k \in 1 .. Len(old) : InRun(old[k], i)
    BY DEF IsRuns
  <1> DEFINE m == Len(old)
             last == old[m]
             e == Longer(last)
             q == m - 1
  <1>5. /\ new \in Seq(Run) /\ Len(new) = m /\ new[m] = e
        /\ \A k \in 1 .. m - 1 : new[k] = old[k]
    BY <1>1, GrownIs
  <1>6. m \in Nat /\ m > 0 /\ m \in 1 .. m /\ last \in Run /\ Coloured(s, last) /\ End(last) = n
    BY <1>1, <1>2
  <1>7. m = 1 => last.from = 0
    BY <1>1
  <1>8. q \in Nat /\ q + 1 = m /\ q <= m
    BY <1>1
  <1>9. q > 0 => last.from = End(old[q])
    <2>1. q > 0 => m \in 2 .. Len(old)
      BY <1>1
    <2> QED BY <1>3, <2>1
  <1> HIDE DEF last
  <1>11. last.from \in Nat /\ last.length \in Nat \ {0} /\ last.colour \in Nat
    BY <1>6 DEF Run
  <1> DEFINE a == last.from
             b == last.length
             c == last.colour
  <1>12. e \in Run /\ e.from = a /\ e.length = b + 1 /\ e.colour = c
    BY <1>6, LongerIs
  <1>13. a \in Nat /\ b \in Nat \ {0} /\ c \in Nat /\ a + b = n
    BY <1>6, <1>11 DEF End
  <1>14. \A i \in 1 .. b : s[a + i] = c
    BY <1>6 DEF Coloured
  <1>16. \A i : InRun(last, i) <=> i > a /\ i <= n
    BY <1>6 DEF InRun
  <1>17. (q = 0 => a = 0) /\ (q > 0 => a = End(old[q]))
    BY <1>7, <1>8, <1>9
  <1> HIDE DEF a, b, c, e, q
  <1>18. e \in Run /\ e.from = a /\ e.length = b + 1 /\ e.colour = c
    BY <1>12
  <1>19. End(e) = n + 1
    BY <1>13, <1>18 DEF End
  <1>20. Coloured(s, e)
    <2>1. ASSUME NEW i \in 1 .. b + 1 PROVE s[a + i] = c
      <3>1. CASE i = b + 1
        <4>1. a + i = n + 1 /\ a + b = n /\ b \in 1 .. b
          BY <1>13, <3>1
        <4> QED BY <1>14, <4>1
      <3>2. CASE i # b + 1
        <4>1. i \in 1 .. b
          BY <1>13, <3>2
        <4> QED BY <1>14, <4>1
      <3> QED BY <3>1, <3>2
    <2> QED BY <1>18, <2>1 DEF Coloured
  <1>21. Extends(old, q, e, new)
    <2>1. q = m - 1
      BY DEF q
    <2> QED BY <1>5, <1>8, <2>1 DEF Extends
  <1>22. ASSUME NEW i \in 1 .. n + 1 PROVE InRun(e, i) \/ \E k \in 1 .. q : InRun(old[k], i)
    <2>1. CASE i = n + 1
      <3>1. i > a /\ i <= End(e)
        BY <1>13, <1>19, <2>1
      <3> QED BY <1>18, <3>1 DEF InRun
    <2>2. CASE i # n + 1
      <3>1. i \in 1 .. n
        BY <2>2
      <3>2. PICK k \in 1 .. m : InRun(old[k], i)
        BY <1>4, <3>1
      <3>3. CASE k = m
        <4>1. i > a
          BY <1>16, <3>2, <3>3 DEF last
        <4>2. i > a /\ i <= End(e)
          BY <1>19, <4>1
        <4> QED BY <1>18, <4>2 DEF InRun
      <3>4. CASE k # m
        <4>1. k \in 1 .. q
          BY <1>8, <3>4
        <4> QED BY <3>2, <4>1
      <3> QED BY <3>3, <3>4
    <2> QED BY <2>1, <2>2
  <1>23. Reach(old, q, e, n + 1)
    <2>1. q \in 0 .. Len(old)
      BY <1>8
    <2> QED BY <1>17, <1>18, <1>22, <2>1 DEF Reach
  <1> QED BY <1>8, <1>18, <1>19, <1>20, <1>21, <1>23, RunsNext

(* A run of its own for the next pixel. *)
LEMMA RunStarts ==
  ASSUME NEW s \in Seq(Nat), NEW n \in Nat, NEW old, IsRuns(s, n, old), n + 1 <= Len(s),
         NEW new, new = Append(old, [colour |-> s[n + 1], from |-> n, length |-> 1])
  PROVE  IsRuns(s, n + 1, new)
  <1> DEFINE q == Len(old)
             e == [colour |-> s[n + 1], from |-> n, length |-> 1]
  <1>1. old \in Seq(Run) /\ q \in Nat /\ q <= n /\ (n > 0 => q > 0 /\ End(old[q]) = n)
    BY DEF IsRuns
  <1>2. \A i \in 1 .. n : \E k \in 1 .. q : InRun(old[k], i)
    BY DEF IsRuns
  <1>3. e \in Run /\ e.from = n /\ e.length = 1 /\ e.colour = s[n + 1]
    <2>1. s[n + 1] \in Nat
      OBVIOUS
    <2> QED BY <2>1 DEF Run
  <1>4. new = Append(old, e)
    OBVIOUS
  <1> HIDE DEF e
  <1>5. End(e) = n + 1
    BY <1>3 DEF End
  <1>6. Coloured(s, e)
    <2>1. \A i \in 1 .. 1 : n + i = n + 1
      OBVIOUS
    <2> QED BY <1>3, <2>1 DEF Coloured
  <1>7. new \in Seq(Run) /\ Len(new) = q + 1 /\ new[q + 1] = e /\ \A k \in 1 .. q : new[k] = old[k]
    BY <1>1, <1>3, <1>4, AddIs
  <1>8. ASSUME NEW i \in 1 .. n + 1 PROVE InRun(e, i) \/ \E k \in 1 .. q : InRun(old[k], i)
    <2>1. CASE i = n + 1
      BY <1>3, <1>5, <2>1 DEF InRun
    <2>2. CASE i # n + 1
      <3>1. i \in 1 .. n
        BY <2>2
      <3> QED BY <1>2, <3>1
    <2> QED BY <2>1, <2>2
  <1>9. q \in 0 .. Len(old) /\ (q = 0 => e.from = 0) /\ (q > 0 => e.from = End(old[q]))
    <2>1. q = 0 => n = 0
      BY <1>1
    <2>2. q > 0 => n > 0 /\ End(old[q]) = n
      BY <1>1
    <2> QED BY <1>1, <1>3, <2>1, <2>2
  <1> HIDE DEF q
  <1>10. Reach(old, q, e, n + 1)
    BY <1>8, <1>9 DEF Reach
  <1>11. Extends(old, q, e, new)
    BY <1>7 DEF Extends
  <1> QED BY <1>1, <1>3, <1>5, <1>6, <1>10, <1>11, RunsNext

(* RunsOf, pixel by pixel. *)
LEMMA RunsSteps ==
  ASSUME NEW s \in Seq(Nat)
  PROVE  \E g : /\ RunsOf(s) = g[Len(s)] /\ g[0] = <<>>
                /\ \A k \in 1 .. Len(s) :
                     g[k] = IF k > 1 /\ s[k] = s[k - 1]
                            THEN Grown(g[k - 1])
                            ELSE Append(g[k - 1], [colour |-> s[k], from |-> k - 1, length |-> 1])
  <1> DEFINE N == Len(s)
             Step(k, done) == IF k > 1 /\ s[k] = s[k - 1]
                              THEN Grown(done)
                              ELSE Append(done, [colour |-> s[k], from |-> k - 1, length |-> 1])
             base == <<>>
             Eq(g, n) == g = [k \in 0 .. n |-> IF k = 0 THEN base ELSE Step(k, g[k - 1])]
             g == CHOOSE g : Eq(g, N)
             T == {n \in Nat : \E f : Eq(f, n)}
  <1>1. RunsOf(s) = g[N]
    BY DEF RunsOf, Grown
  <1>2. N \in Nat
    OBVIOUS
  <1> HIDE DEF Step, base, N
  <1>3. 0 \in T
    <2> DEFINE f == [k \in 0 .. 0 |-> base]
    <2>1. Eq(f, 0)
      OBVIOUS
    <2> HIDE DEF f, Eq
    <2> QED BY <2>1
  <1>4. ASSUME NEW n \in Nat, n \in T PROVE n + 1 \in T
    <2>1. PICK f : Eq(f, n)
      BY <1>4
    <2> DEFINE h == [k \in 0 .. n + 1 |-> IF k = n + 1 THEN Step(k, f[n]) ELSE f[k]]
    <2>2. \A k \in 0 .. n + 1 : h[k] = IF k = 0 THEN base ELSE Step(k, h[k - 1])
      <3> SUFFICES ASSUME NEW k \in 0 .. n + 1 PROVE h[k] = IF k = 0 THEN base ELSE Step(k, h[k - 1])
        OBVIOUS
      <3>1. CASE k = n + 1
        <4>1. k # 0 /\ k - 1 = n /\ h[k] = Step(k, f[n]) /\ h[n] = f[n]
          BY <3>1
        <4> HIDE DEF h
        <4> QED BY <4>1
      <3>2. CASE k # n + 1
        <4>1. k \in 0 .. n /\ h[k] = f[k] /\ (k # 0 => h[k - 1] = f[k - 1])
          BY <3>2
        <4>2. f[k] = IF k = 0 THEN base ELSE Step(k, f[k - 1])
          BY <2>1, <4>1
        <4> HIDE DEF h
        <4> QED BY <4>1, <4>2
      <3> QED BY <3>1, <3>2
    <2>3. h = [k \in 0 .. n + 1 |-> h[k]]
      OBVIOUS
    <2>4. Eq(h, n + 1)
      <3> HIDE DEF h
      <3> QED BY <2>2, <2>3
    <2> HIDE DEF h, Eq
    <2> QED BY <2>4
  <1>5. Eq(g, N)
    <2> HIDE DEF Eq
    <2>1. N \in T
      <3> HIDE DEF T
      <3> QED BY <1>2, <1>3, <1>4, SetInduction
    <2>2. \E f : Eq(f, N)
      BY <2>1
    <2> QED BY <2>2
  <1> HIDE DEF g
  <1>6. g[0] = base /\ \A k \in 1 .. N : g[k] = Step(k, g[k - 1])
    <2>1. \A k \in 0 .. N : g[k] = IF k = 0 THEN base ELSE Step(k, g[k - 1])
      BY <1>5
    <2>2. 0 \in 0 .. N /\ \A k \in 1 .. N : k \in 0 .. N /\ k # 0
      BY <1>2
    <2> QED BY <2>1, <2>2
  <1> QED BY <1>1, <1>6 DEF Step, base, N

(* Stretches of one colour, end to end. *)
LEMMA RunsAre ==
  ASSUME NEW s \in Seq(Nat)
  PROVE  IsRuns(s, Len(s), RunsOf(s))
  <1> DEFINE N == Len(s)
  <1>0. N \in Nat
    OBVIOUS
  <1>1. PICK g : /\ RunsOf(s) = g[N] /\ g[0] = <<>>
                 /\ \A k \in 1 .. N :
                      g[k] = IF k > 1 /\ s[k] = s[k - 1]
                             THEN Grown(g[k - 1])
                             ELSE Append(g[k - 1], [colour |-> s[k], from |-> k - 1, length |-> 1])
    BY RunsSteps
  <1> DEFINE U == {n \in Nat : IsRuns(s, n, g[n])}
  <1>2. 0 \in U
    <2>1. IsRuns(s, 0, <<>>)
      BY DEF IsRuns
    <2> QED BY <1>1, <2>1
  <1>3. ASSUME NEW n \in 0 .. N - 1, n \in U PROVE n + 1 \in U
    <2> DEFINE k == n + 1
    <2>0. n \in Nat /\ k \in 1 .. N /\ k - 1 = n /\ n + 1 <= Len(s)
      BY <1>0
    <2>1. IsRuns(s, n, g[n])
      BY <1>3
    <2>2. g[k] = IF k > 1 /\ s[k] = s[k - 1]
                 THEN Grown(g[k - 1])
                 ELSE Append(g[k - 1], [colour |-> s[k], from |-> k - 1, length |-> 1])
      <3> HIDE DEF k, N
      <3> QED BY <1>1, <2>0
    <2>3. CASE k > 1 /\ s[k] = s[n]
      <3>1. g[n + 1] = Grown(g[n])
        BY <2>0, <2>2, <2>3
      <3>2. n \in Nat \ {0}
        BY <2>0, <2>3
      <3>3. IsRuns(s, n + 1, g[n + 1])
        BY <2>0, <2>1, <2>3, <3>1, <3>2, RunGrows
      <3> QED BY <2>0, <3>3
    <2>4. CASE ~(k > 1 /\ s[k] = s[n])
      <3>1. g[n + 1] = Append(g[n], [colour |-> s[n + 1], from |-> n, length |-> 1])
        BY <2>0, <2>2, <2>4
      <3>2. IsRuns(s, n + 1, g[n + 1])
        BY <2>0, <2>1, <3>1, RunStarts
      <3> QED BY <2>0, <3>2
    <2> QED BY <2>3, <2>4
  <1>4. N \in U
    <2> HIDE DEF U, N
    <2>1. 0 .. N \subseteq U
      BY <1>0, <1>2, <1>3, UpTo
    <2> QED BY <1>0, <2>1
  <1> QED BY <1>1, <1>4

-----------------------------------------------------------------------------
(* Subrectangles: rre and co_rre. *)

(* A subrectangle. *)
Sub == [x : Nat, y : Nat, w : Nat \ {0}, h : Nat \ {0}, colour : Nat]

Spans(j, u) == u - j.x \in 0 .. j.w - 1

(* A subrectangle of its row's colour, within the block. *)
OnRow(cells, w, h, j) ==
  /\ j \in Sub /\ j.x + j.w <= w /\ j.y + j.h <= h
  /\ \A u \in 0 .. w - 1 : Spans(j, u) => Cell(cells, w, u, j.y) = j.colour

(* The last one that spans pixel u of row v or below is in row v. *)
LastAt(all, u, v) ==
  \E i \in 1 .. Len(all) :
    /\ all[i].y = v /\ Spans(all[i], u)
    /\ \A l \in i + 1 .. Len(all) : all[l].y <= v => ~Spans(all[l], u)

(* Subrectangles that show a block, as Subrects makes them. *)
Show(all, cells, w, h) ==
  /\ all \in Seq(Sub)
  /\ \A i \in 1 .. Len(all) : OnRow(cells, w, h, all[i]) /\ all[i].y + all[i].h = h
  /\ \A u \in 0 .. w - 1, v \in 0 .. h - 1 : LastAt(all, u, v)

SubOf(run, y, h) == [x |-> run.from, y |-> y - 1, w |-> run.length, h |-> h - y + 1, colour |-> run.colour]

(* A stretch of row y, as a subrectangle that goes down to the bottom. *)
LEMMA SubIs ==
  ASSUME NEW run \in Run, NEW h \in Nat, NEW y \in 1 .. h
  PROVE  /\ SubOf(run, y, h) \in Sub
         /\ SubOf(run, y, h).x = run.from /\ SubOf(run, y, h).w = run.length
         /\ SubOf(run, y, h).y = y - 1 /\ SubOf(run, y, h).h = h - y + 1
         /\ SubOf(run, y, h).colour = run.colour
         /\ \A u \in Int : Spans(SubOf(run, y, h), u) <=> InRun(run, u + 1)
  <1>1. run.from \in Nat /\ run.length \in Nat \ {0} /\ run.colour \in Nat
    BY RunIs
  <1>2. y - 1 \in Nat /\ h - y + 1 \in Nat \ {0}
    OBVIOUS
  <1> DEFINE e == SubOf(run, y, h)
  <1>3. e = [x |-> run.from, y |-> y - 1, w |-> run.length, h |-> h - y + 1, colour |-> run.colour]
    BY DEF SubOf
  <1> HIDE DEF e
  <1>4. e \in Sub /\ e.x = run.from /\ e.w = run.length /\ e.y = y - 1 /\ e.h = h - y + 1 /\ e.colour = run.colour
    BY <1>1, <1>2, <1>3 DEF Sub
  <1>5. ASSUME NEW u \in Int PROVE Spans(e, u) <=> InRun(run, u + 1)
    <2> DEFINE a == run.from
               b == run.length
    <2>1. a \in Nat /\ b \in Nat \ {0} /\ e.x = a /\ e.w = b /\ End(run) = a + b
      BY <1>1, <1>4 DEF End
    <2>2. InRun(run, u + 1) <=> u + 1 > a /\ u + 1 <= a + b
      BY <2>1 DEF InRun
    <2>3. Spans(e, u) <=> u - a \in 0 .. b - 1
      BY <2>1 DEF Spans
    <2> HIDE DEF a, b
    <2> QED BY <2>1, <2>2, <2>3
  <1> QED BY <1>4, <1>5 DEF e

(* Stretches of the rows, each down to the bottom, drawn one row after the
   other, show the block. *)
LEMMA SubrectsShow ==
  ASSUME NEW cells \in Seq(Nat), NEW w \in Nat \ {0}, NEW h \in Nat \ {0}, Len(cells) = w * h
  PROVE  Show(Subrects(cells, w), cells, w, h)
  <1> DEFINE rows == RowsOf(cells, w)
             runs == [y \in 1 .. h |-> RunsOf(rows[y])]
             part == [y \in 1 .. h |-> [k \in 1 .. Len(runs[y]) |-> SubOf(runs[y][k], y, h)]]
             all == Subrects(cells, w)
  <1>1. /\ Len(rows) = h /\ DOMAIN rows = 1 .. h
        /\ \A y \in 1 .. h : rows[y] \in Seq(Nat) /\ Len(rows[y]) = w
        /\ \A y \in 1 .. h : \A x \in 1 .. w : rows[y][x] = cells[(y - 1) * w + x]
    <2>1. Lines(RowsOf(cells, w), Nat, cells, w, h)
      BY RowsAre
    <2> HIDE DEF rows
    <2>2. rows = RowsOf(cells, w)
      BY DEF rows
    <2> QED BY <2>1, <2>2 DEF Lines
  <1> HIDE DEF rows
  <1>2. \A y \in 1 .. h : IsRuns(rows[y], w, runs[y])
    BY <1>1, RunsAre
  <1>3. \A y \in 1 .. h : runs[y] \in Seq(Run) /\ Len(runs[y]) \in Nat /\ DOMAIN runs[y] = 1 .. Len(runs[y])
    <2> HIDE DEF runs
    <2>1. \A y \in 1 .. h : runs[y] \in Seq(Run)
      BY <1>2 DEF IsRuns
    <2> QED BY <2>1
  <1>4. all = FlattenSeq(part)
    <2>1. \A y \in 1 .. h : DOMAIN RunsOf(rows[y]) = 1 .. Len(runs[y])
      BY <1>3
    <2>2. part = [y \in DOMAIN rows |-> [k \in DOMAIN RunsOf(rows[y]) |->
                    [x |-> RunsOf(rows[y])[k].from, y |-> y - 1, w |-> RunsOf(rows[y])[k].length,
                     h |-> Len(rows) - y + 1, colour |-> RunsOf(rows[y])[k].colour]]]
      BY <1>1, <2>1 DEF SubOf
    <2> QED BY <2>2 DEF Subrects, rows
  <1> HIDE DEF runs
  <1>5. \A y \in 1 .. h : \A k \in 1 .. Len(runs[y]) : runs[y][k] \in Run
    BY <1>3
  <1>6. \A y \in 1 .. h : /\ part[y] \in Seq(Sub) /\ Len(part[y]) = Len(runs[y])
                          /\ \A k \in 1 .. Len(part[y]) : part[y][k] = SubOf(runs[y][k], y, h)
    <2> SUFFICES ASSUME NEW y \in 1 .. h
                 PROVE  /\ part[y] \in Seq(Sub) /\ Len(part[y]) = Len(runs[y])
                        /\ \A k \in 1 .. Len(part[y]) : part[y][k] = SubOf(runs[y][k], y, h)
      OBVIOUS
    <2>1. \A k \in 1 .. Len(runs[y]) : SubOf(runs[y][k], y, h) \in Sub
      BY <1>5, SubIs
    <2>2. part[y] \in [1 .. Len(runs[y]) -> Sub]
      BY <2>1
    <2>3. Len(runs[y]) \in Nat
      BY <1>3
    <2>4. part[y] \in Seq(Sub) /\ Len(part[y]) = Len(runs[y])
      <3> HIDE DEF part
      <3> QED BY <2>2, <2>3, IsSeqOf
    <2> QED BY <2>4
  <1>7. part \in Seq(Seq(Sub)) /\ Len(part) = h
    <2>1. part \in [1 .. h -> Seq(Sub)]
      BY <1>6
    <2> HIDE DEF part
    <2> QED BY <2>1, IsSeqOf
  <1> HIDE DEF part
  <1>8. PICK E : Flat(part, FlattenSeq(part), E) /\ FlattenSeq(part) \in Seq(Sub)
    BY <1>7, FlatOf
  <1>9. /\ all \in Seq(Sub) /\ Len(all) = E[h] /\ Len(all) \in Nat
        /\ E \in [0 .. h -> Nat]
        /\ \A k \in 1 .. h : E[k] = E[k - 1] + Len(part[k])
        /\ \A k, l \in 0 .. h : k <= l => E[k] <= E[l]
        /\ \A k \in 1 .. h : \A j \in 1 .. Len(part[k]) : all[E[k - 1] + j] = part[k][j]
        /\ \A i \in 1 .. Len(all) : \E k \in 1 .. h : i \in E[k - 1] + 1 .. E[k]
    <2> HIDE DEF all
    <2>1. Flat(part, all, E) /\ all \in Seq(Sub)
      BY <1>4, <1>8
    <2>2. Len(all) \in Nat
      BY <2>1
    <2> QED BY <1>7, <2>1, <2>2 DEF Flat
  <1> HIDE DEF all
  <1>10. ASSUME NEW i \in 1 .. Len(all)
         PROVE  \E y \in 1 .. h : \E k \in 1 .. Len(runs[y]) : i = E[y - 1] + k /\ all[i] = SubOf(runs[y][k], y, h)
    <2>1. PICK y \in 1 .. h : i \in E[y - 1] + 1 .. E[y]
      BY <1>9
    <2> DEFINE e == E[y - 1]
               q == Len(part[y])
    <2>2. e \in Nat /\ q \in Nat /\ E[y] = e + q
      <3>1. y - 1 \in 0 .. h
        OBVIOUS
      <3> QED BY <1>3, <1>6, <1>9, <3>1
    <2>3. i \in e + 1 .. e + q
      BY <2>1, <2>2
    <2> HIDE DEF e
    <2>4. i - e \in 1 .. q /\ i = e + (i - e)
      BY <2>2, <2>3
    <2>5. PICK k \in 1 .. q : i = e + k
      BY <2>4
    <2>6. all[i] = part[y][k]
      BY <1>9, <2>5 DEF e
    <2> QED BY <1>6, <2>5, <2>6 DEF e
  <1>11. ASSUME NEW y \in 1 .. h, NEW k \in 1 .. Len(runs[y]), NEW j, j = SubOf(runs[y][k], y, h)
         PROVE  OnRow(cells, w, h, j) /\ j.y + j.h = h
    <2> DEFINE run == runs[y][k]
    <2>1. run \in Run /\ End(run) <= w /\ Coloured(rows[y], run)
      <3>1. IsRuns(rows[y], w, runs[y])
        BY <1>2
      <3> QED BY <1>5, <3>1 DEF IsRuns
    <2> HIDE DEF run
    <2>2. /\ j \in Sub /\ j.x = run.from /\ j.w = run.length /\ j.y = y - 1 /\ j.h = h - y + 1 /\ j.colour = run.colour
          /\ \A u \in Int : Spans(j, u) <=> InRun(run, u + 1)
      <3>1. j = SubOf(run, y, h)
        BY <1>11 DEF run
      <3> QED BY <2>1, <3>1, SubIs
    <2>3. run.from \in Nat /\ run.length \in Nat /\ End(run) = run.from + run.length
      BY <2>1, RunIs DEF End
    <2>4. j.x + j.w <= w
      BY <2>1, <2>2, <2>3
    <2>5. j.y + j.h = h
      BY <2>2
    <2>6. ASSUME NEW u \in 0 .. w - 1, Spans(j, u) PROVE Cell(cells, w, u, j.y) = j.colour
      <3>1. InRun(run, u + 1)
        BY <2>2, <2>6
      <3> DEFINE a == run.from
                 b == run.length
      <3>2. u + 1 > a /\ u + 1 <= a + b /\ a \in Nat /\ b \in Nat
        BY <2>3, <3>1 DEF InRun
      <3>3. \A i \in 1 .. b : rows[y][a + i] = run.colour
        BY <2>1 DEF Coloured
      <3> HIDE DEF a, b
      <3>4. u + 1 - a \in 1 .. b /\ a + (u + 1 - a) = u + 1 /\ u + 1 \in 1 .. w
        BY <3>2
      <3>5. rows[y][u + 1] = run.colour
        BY <3>3, <3>4
      <3>6. rows[y][u + 1] = cells[(y - 1) * w + (u + 1)]
        BY <1>1, <3>4
      <3>7. (y - 1) * w + (u + 1) = (y - 1) * w + u + 1
        <4> DEFINE c == (y - 1) * w
        <4>1. c \in Int
          OBVIOUS
        <4> HIDE DEF c
        <4>2. c + (u + 1) = c + u + 1
          BY <4>1
        <4> QED BY <4>2 DEF c
      <3>8. Cell(cells, w, u, j.y) = cells[(y - 1) * w + u + 1]
        BY <2>2 DEF Cell
      <3> QED BY <2>2, <3>5, <3>6, <3>7, <3>8
    <2>7. j.y + j.h <= h
      BY <2>5
    <2> QED BY <2>2, <2>4, <2>5, <2>6, <2>7 DEF OnRow
  <1>12. \A i \in 1 .. Len(all) : OnRow(cells, w, h, all[i]) /\ all[i].y + all[i].h = h
    <2> SUFFICES ASSUME NEW i \in 1 .. Len(all) PROVE OnRow(cells, w, h, all[i]) /\ all[i].y + all[i].h = h
      OBVIOUS
    <2>1. PICK y \in 1 .. h : \E k \in 1 .. Len(runs[y]) : i = E[y - 1] + k /\ all[i] = SubOf(runs[y][k], y, h)
      BY <1>10
    <2> QED BY <1>11, <2>1
  <1>13. ASSUME NEW u \in 0 .. w - 1, NEW v \in 0 .. h - 1
         PROVE  LastAt(all, u, v)
    <2> DEFINE y == v + 1
    <2>1. y \in 1 .. h /\ y - 1 = v /\ u + 1 \in 1 .. w /\ u \in Int
      OBVIOUS
    <2> HIDE DEF y
    <2>2. /\ \A k, l \in 1 .. Len(runs[y]) : k < l => End(runs[y][k]) <= runs[y][l].from
          /\ \A i \in 1 .. w : \E k \in 1 .. Len(runs[y]) : InRun(runs[y][k], i)
      <3>1. IsRuns(rows[y], w, runs[y])
        BY <1>2, <2>1
      <3> QED BY <3>1 DEF IsRuns
    <2>3. PICK k \in 1 .. Len(runs[y]) : InRun(runs[y][k], u + 1)
      BY <2>1, <2>2
    <2> DEFINE e == E[y - 1]
               i == e + k
    <2>4. e \in Nat /\ E[y] = e + Len(runs[y]) /\ E[y] \in Nat /\ E[y] <= Len(all) /\ Len(runs[y]) \in Nat
      <3>1. y \in 0 .. h /\ h \in 0 .. h /\ y <= h /\ y - 1 \in 0 .. h
        BY <2>1
      <3> QED BY <1>3, <1>6, <1>9, <2>1, <3>1
    <2>5. i \in 1 .. Len(all) /\ i \in Nat
      <3> HIDE DEF e
      <3> QED BY <1>9, <2>4
    <2>6. all[i] = SubOf(runs[y][k], y, h)
      BY <1>6, <1>9, <2>1
    <2>7. all[i].y = v /\ Spans(all[i], u)
      <3>1. runs[y][k] \in Run
        BY <1>5, <2>1
      <3> DEFINE run == runs[y][k]
      <3>2. InRun(run, u + 1) /\ run \in Run /\ all[i] = SubOf(run, y, h)
        BY <2>3, <2>6, <3>1
      <3> HIDE DEF i, run
      <3>3. SubOf(run, y, h).y = y - 1 /\ (Spans(SubOf(run, y, h), u) <=> InRun(run, u + 1))
        <4>1. h \in Nat
          OBVIOUS
        <4> QED BY <2>1, <3>2, <4>1, SubIs
      <3> QED BY <2>1, <3>2, <3>3
    <2>8. ASSUME NEW l \in i + 1 .. Len(all), all[l].y <= v, Spans(all[l], u) PROVE FALSE
      <3> HIDE DEF i, e
      <3>0. l \in 1 .. Len(all) /\ l > i /\ l \in Nat
        BY <2>5
      <3>1. PICK z \in 1 .. h : \E q \in 1 .. Len(runs[z]) : l = E[z - 1] + q /\ all[l] = SubOf(runs[z][q], z, h)
        BY <1>10, <3>0
      <3>2. PICK q \in 1 .. Len(runs[z]) : l = E[z - 1] + q /\ all[l] = SubOf(runs[z][q], z, h)
        BY <3>1
      <3>3. runs[z][q] \in Run
        BY <1>5
      <3>4. all[l].y = z - 1 /\ InRun(runs[z][q], u + 1)
        BY <2>1, <2>8, <3>2, <3>3, SubIs
      <3>5. z <= y
        BY <2>1, <2>8, <3>4
      <3>6. E[z] = E[z - 1] + Len(runs[z]) /\ E[z - 1] \in Nat /\ Len(runs[z]) \in Nat /\ l <= E[z] /\ E[z] \in Nat
        <4>1. z - 1 \in 0 .. h
          OBVIOUS
        <4>2. E[z] = E[z - 1] + Len(runs[z]) /\ E[z - 1] \in Nat /\ Len(runs[z]) \in Nat
          BY <1>3, <1>6, <1>9, <4>1
        <4>3. l = E[z - 1] + q
          BY <3>2
        <4> DEFINE ez == E[z - 1]
                   lz == Len(runs[z])
        <4> HIDE DEF ez, lz
        <4>4. ez + q <= ez + lz /\ ez + lz \in Nat
          BY <4>2 DEF ez, lz
        <4> QED BY <4>2, <4>3, <4>4 DEF ez, lz
      <3>7. CASE z = y
        <4>1. k < q
          <5>1. l = e + q /\ i = e + k
            BY <3>2, <3>7 DEF i, e
          <5> QED BY <2>4, <3>0, <5>1, <3>7
        <4>2. End(runs[y][k]) <= runs[y][q].from
          BY <2>2, <3>7, <4>1
        <4>3. u + 1 <= End(runs[y][k]) /\ u + 1 > runs[y][q].from
          BY <2>3, <3>4, <3>7 DEF InRun
        <4>4. End(runs[y][k]) \in Nat /\ runs[y][q].from \in Nat
          <5>1. runs[y][k] \in Run /\ runs[y][q] \in Run
            BY <1>5, <2>1, <3>3, <3>7
          <5> QED BY <5>1, RunIs
        <4> QED BY <4>2, <4>3, <4>4
      <3>8. CASE z # y
        <4>1. z <= y - 1 /\ z \in 0 .. h /\ y - 1 \in 0 .. h
          BY <2>1, <3>5, <3>8
        <4>2. E[z] <= e
          BY <1>9, <4>1 DEF e
        <4>3. i = e + k /\ k >= 1
          BY DEF i
        <4> QED BY <2>4, <3>0, <3>6, <4>2, <4>3
      <3> QED BY <3>7, <3>8
    <2> HIDE DEF i
    <2> QED BY <2>5, <2>7, <2>8 DEF LastAt
  <1> QED BY <1>9, <1>12, <1>13 DEF Show, all

(* A background and subrectangles of their colours, in order. *)
Fills(r, bg, subs, col) == <<Fill(r, bg)>> \o [i \in 1 .. Len(subs) |-> Fill(Moved(r, subs[i]), col[i])]

(* Subrectangles within the block. *)
Fit(subs, w, h) ==
  /\ subs \in Seq(Sub)
  /\ \A i \in 1 .. Len(subs) : subs[i].x + subs[i].w <= w /\ subs[i].y + subs[i].h <= h

(* What they leave at (u, v). *)
Layered(bg, subs, col, u, v, val) ==
  \/ bg = val /\ \A i \in 1 .. Len(subs) : ~Covers(subs[i], u, v)
  \/ \E i \in 1 .. Len(subs) : /\ Covers(subs[i], u, v) /\ col[i] = val
                               /\ \A l \in i + 1 .. Len(subs) : ~Covers(subs[l], u, v)

(* The fields of a subrectangle. *)
LEMMA SubHas ==
  ASSUME NEW s \in Sub
  PROVE  s.x \in Nat /\ s.y \in Nat /\ s.w \in Nat \ {0} /\ s.h \in Nat \ {0} /\ s.colour \in Nat
  BY DEF Sub

(* A subrectangle, filled where its block is, stays within the block. *)
LEMMA SubFills ==
  ASSUME NEW r \in Tile, NEW s \in Sub, NEW c \in Nat, s.x + s.w <= r.w, s.y + s.h <= r.h,
         NEW j, j = Fill(Moved(r, s), c)
  PROVE  /\ j \in Job /\ j.op = "fill" /\ j.colour = c /\ j.x >= r.x /\ j.y >= r.y
         /\ j.x + j.w <= r.x + r.w /\ j.y + j.h <= r.y + r.h
         /\ \A u, v \in Int : Covers(j, r.x + u, r.y + v) <=> Covers(s, u, v)
  <1> DEFINE rx == r.x
             ry == r.y
             rw == r.w
             rh == r.h
             x == s.x
             y == s.y
             w == s.w
             h == s.h
             t == Moved(r, s)
  <1>1. rx \in Int /\ ry \in Int /\ rw \in Nat /\ rh \in Nat /\ x \in Nat /\ y \in Nat /\ w \in Nat /\ h \in Nat
    BY DEF Tile, Sub
  <1>2. x + w <= rw /\ y + h <= rh
    OBVIOUS
  <1>3. t.x = rx + x /\ t.y = ry + y /\ t.w = w /\ t.h = h
    BY DEF Moved, At
  <1> HIDE DEF rx, ry, rw, rh, x, y, w, h
  <1>4. rx + x \in Int /\ ry + y \in Int
    BY <1>1
  <1>5. j = Fill(t, c)
    OBVIOUS
  <1> HIDE DEF t
  <1>6. j \in Job /\ j.op = "fill" /\ j.colour = c /\ j.x = rx + x /\ j.y = ry + y /\ j.w = w /\ j.h = h
    BY <1>1, <1>3, <1>4, <1>5, FillIs
  <1>7. j.x >= rx /\ j.y >= ry /\ j.x + j.w <= rx + rw /\ j.y + j.h <= ry + rh
    BY <1>1, <1>2, <1>6
  <1>8. ASSUME NEW u \in Int, NEW v \in Int PROVE Covers(j, rx + u, ry + v) <=> Covers(s, u, v)
    <2>1. Covers(s, u, v) <=> u - x \in 0 .. w - 1 /\ v - y \in 0 .. h - 1
      BY DEF Covers, x, y, w, h
    <2>2. Covers(j, rx + u, ry + v) <=> (rx + u) - (rx + x) \in 0 .. w - 1 /\ (ry + v) - (ry + y) \in 0 .. h - 1
      BY <1>6 DEF Covers
    <2>3. (rx + u) - (rx + x) = u - x /\ (ry + v) - (ry + y) = v - y
      BY <1>1
    <2> QED BY <2>1, <2>2, <2>3
  <1> QED BY <1>6, <1>7, <1>8 DEF rx, ry, rw, rh

(* A background and subrectangles are fills within the block. *)
LEMMA FillsAre ==
  ASSUME NEW r \in Tile, NEW bg \in Nat, NEW subs, Fit(subs, r.w, r.h), NEW col \in [1 .. Len(subs) -> Nat]
  PROVE  /\ Within(Fills(r, bg, subs, col), r)
         /\ Len(Fills(r, bg, subs, col)) = Len(subs) + 1
         /\ Fills(r, bg, subs, col)[1] = Fill(r, bg)
         /\ \A i \in 1 .. Len(subs) : Fills(r, bg, subs, col)[i + 1] = Fill(Moved(r, subs[i]), col[i])
  <1> DEFINE n == Len(subs)
             js == [i \in 1 .. n |-> Fill(Moved(r, subs[i]), col[i])]
             f == Fills(r, bg, subs, col)
             b == <<Fill(r, bg)>>
  <1>1. subs \in Seq(Sub) /\ n \in Nat /\ \A i \in 1 .. n : subs[i] \in Sub /\ subs[i].x + subs[i].w <= r.w /\ subs[i].y + subs[i].h <= r.h
    BY DEF Fit
  <1>2. \A i \in 1 .. n : /\ js[i] \in Job /\ js[i].op = "fill" /\ js[i].x >= r.x /\ js[i].y >= r.y
                          /\ js[i].x + js[i].w <= r.x + r.w /\ js[i].y + js[i].h <= r.y + r.h
    <2> SUFFICES ASSUME NEW i \in 1 .. n
                 PROVE  /\ js[i] \in Job /\ js[i].op = "fill" /\ js[i].x >= r.x /\ js[i].y >= r.y
                        /\ js[i].x + js[i].w <= r.x + r.w /\ js[i].y + js[i].h <= r.y + r.h
      OBVIOUS
    <2>1. js[i] = Fill(Moved(r, subs[i]), col[i]) /\ col[i] \in Nat
      OBVIOUS
    <2> HIDE DEF js
    <2> QED BY <1>1, <2>1, SubFills
  <1>3. js \in Seq(Job) /\ Len(js) = n
    <2>1. js \in [1 .. n -> Job]
      BY <1>2
    <2> HIDE DEF js
    <2> QED BY <1>1, <2>1, IsSeqOf
  <1>4. /\ r.x \in Int /\ r.y \in Int /\ r.w \in Nat /\ r.h \in Nat
    BY DEF Tile
  <1>5. Fill(r, bg) \in Job /\ Fill(r, bg).op = "fill" /\ Fill(r, bg).x = r.x /\ Fill(r, bg).y = r.y /\ Fill(r, bg).w = r.w /\ Fill(r, bg).h = r.h
    BY <1>4, FillIs
  <1>6. b \in Seq(Job) /\ Len(b) = 1 /\ b[1] = Fill(r, bg)
    BY <1>5
  <1>7. f = b \o js
    BY DEF Fills
  <1>8. \A i \in 1 .. n : js[i] = Fill(Moved(r, subs[i]), col[i])
    OBVIOUS
  <1> HIDE DEF js, b, f
  <1>9. /\ f \in Seq(Job) /\ Len(f) = 1 + n /\ f[1] = b[1] /\ \A i \in 1 .. n : f[1 + i] = js[i]
    <2>1. /\ b \o js \in Seq(Job) /\ Len(b \o js) = Len(b) + Len(js)
          /\ \A i \in 1 .. Len(b) : (b \o js)[i] = b[i]
          /\ \A i \in 1 .. Len(js) : (b \o js)[Len(b) + i] = js[i]
      <3>1. b \in Seq(Job) /\ js \in Seq(Job)
        BY <1>3, <1>6
      <3> QED BY <3>1, JoinIs
    <2> QED BY <1>3, <1>6, <1>7, <2>1
  <1>10. \A i \in 1 .. n : f[i + 1] = js[i]
    BY <1>1, <1>9
  <1>11. ASSUME NEW i \in 1 .. Len(f)
         PROVE  /\ Filled(f[i]) /\ f[i].op \in Drawing /\ f[i].x >= r.x /\ f[i].y >= r.y
                /\ f[i].x + f[i].w <= r.x + r.w /\ f[i].y + f[i].h <= r.y + r.h
    <2>1. i = 1 \/ \E k \in 1 .. n : i = k + 1
      <3>1. i # 1 => i - 1 \in 1 .. n /\ i = (i - 1) + 1
        BY <1>1, <1>9
      <3> QED BY <3>1
    <2>2. CASE i = 1
      BY <1>4, <1>5, <1>6, <1>9, <2>2 DEF Filled, Drawing
    <2>3. CASE \E k \in 1 .. n : i = k + 1
      <3>1. PICK k \in 1 .. n : f[i] = js[k]
        BY <1>10, <2>3
      <3> QED BY <1>2, <3>1 DEF Filled, Drawing
    <2> QED BY <2>1, <2>2, <2>3
  <1>12. Within(f, r)
    BY <1>9, <1>11 DEF Within
  <1> QED BY <1>1, <1>6, <1>8, <1>9, <1>10, <1>12 DEF f

(* Fills draw what the last one that covers a pixel says. *)
LEMMA FillsDraw ==
  ASSUME NEW r \in Tile, NEW bg \in Nat, NEW subs, Fit(subs, r.w, r.h), NEW col \in [1 .. Len(subs) -> Nat],
         NEW cells, \A u \in 0 .. r.w - 1, v \in 0 .. r.h - 1 : Layered(bg, subs, col, u, v, Cell(cells, r.w, u, v))
  PROVE  Draws(Fills(r, bg, subs, col), r, cells)
  <1> DEFINE f == Fills(r, bg, subs, col)
             n == Len(subs)
  <1>1. subs \in Seq(Sub) /\ n \in Nat /\ \A i \in 1 .. n : subs[i] \in Sub /\ subs[i].x + subs[i].w <= r.w /\ subs[i].y + subs[i].h <= r.h
    BY DEF Fit
  <1>2. /\ Len(f) = n + 1 /\ f[1] = Fill(r, bg)
        /\ \A i \in 1 .. n : f[i + 1] = Fill(Moved(r, subs[i]), col[i])
    BY FillsAre
  <1> HIDE DEF f
  <1>3. ASSUME NEW u \in 0 .. r.w - 1, NEW v \in 0 .. r.h - 1
        PROVE  Settled(f, r.x + u, r.y + v, Cell(cells, r.w, u, v))
    <2> DEFINE val == Cell(cells, r.w, u, v)
               x == r.x + u
               y == r.y + v
    <2>1. u \in Int /\ v \in Int /\ r.x \in Int /\ r.y \in Int /\ r.w \in Nat /\ r.h \in Nat
      BY DEF Tile
    <2>2. \A i \in 1 .. n : /\ f[i + 1].op = "fill" /\ f[i + 1].colour = col[i]
                            /\ (Covers(f[i + 1], x, y) <=> Covers(subs[i], u, v))
      <3> SUFFICES ASSUME NEW i \in 1 .. n
                   PROVE  /\ f[i + 1].op = "fill" /\ f[i + 1].colour = col[i]
                          /\ (Covers(f[i + 1], x, y) <=> Covers(subs[i], u, v))
        OBVIOUS
      <3> DEFINE j == f[i + 1]
      <3>1. j = Fill(Moved(r, subs[i]), col[i]) /\ col[i] \in Nat
        BY <1>2
      <3> HIDE DEF j
      <3> QED BY <1>1, <2>1, <3>1, SubFills DEF j
    <2>3. f[1].op = "fill" /\ f[1].colour = bg /\ Covers(f[1], x, y)
      <3> DEFINE j == f[1]
      <3>1. j.op = "fill" /\ j.colour = bg /\ j.x = r.x /\ j.y = r.y /\ j.w = r.w /\ j.h = r.h
        BY <1>2, <2>1, FillIs
      <3> HIDE DEF j
      <3>2. x - r.x = u /\ y - r.y = v
        BY <2>1
      <3> QED BY <3>1, <3>2 DEF Covers, j
    <2> HIDE DEF x, y
    <2>4. Layered(bg, subs, col, u, v, val)
      OBVIOUS
    <2> HIDE DEF val
    <2>5. CASE bg = val /\ \A i \in 1 .. n : ~Covers(subs[i], u, v)
      <3>1. ASSUME NEW k \in 2 .. Len(f) PROVE ~Covers(f[k], x, y)
        <4>1. k - 1 \in 1 .. n /\ k = (k - 1) + 1
          BY <1>1, <1>2
        <4>2. PICK i \in 1 .. n : k = i + 1
          BY <4>1
        <4> QED BY <2>2, <2>5, <4>2
      <3>2. Covers(f[1], x, y) /\ Shown(f[1], x, y) = val
        BY <2>3, <2>5 DEF Shown
      <3>3. 1 \in 1 .. Len(f) /\ 1 + 1 = 2
        BY <1>1, <1>2
      <3> QED BY <3>1, <3>2, <3>3 DEF Settled, x, y, val
    <2>6. CASE \E i \in 1 .. n : /\ Covers(subs[i], u, v) /\ col[i] = val
                                 /\ \A l \in i + 1 .. n : ~Covers(subs[l], u, v)
      <3>1. PICK i \in 1 .. n : /\ Covers(subs[i], u, v) /\ col[i] = val
                                /\ \A l \in i + 1 .. n : ~Covers(subs[l], u, v)
        BY <2>6
      <3> DEFINE p == i + 1
      <3>2. p \in 1 .. Len(f)
        BY <1>1, <1>2
      <3>3. Covers(f[p], x, y) /\ Shown(f[p], x, y) = val
        BY <2>2, <3>1 DEF Shown
      <3>4. ASSUME NEW k \in p + 1 .. Len(f) PROVE ~Covers(f[k], x, y)
        <4>1. k - 1 \in 1 .. n /\ k - 1 \in i + 1 .. n /\ k = (k - 1) + 1
          BY <1>1, <1>2
        <4>2. PICK l \in 1 .. n : k = l + 1 /\ l \in i + 1 .. n
          BY <4>1
        <4> QED BY <2>2, <3>1, <4>2
      <3> HIDE DEF p
      <3> QED BY <3>2, <3>3, <3>4 DEF Settled, x, y, val
    <2> QED BY <2>4, <2>5, <2>6 DEF Layered
  <1> QED BY <1>3 DEF Draws, f

(* Subrectangles of a block, drawn in order, leave it. *)
LEMMA ShowLayers ==
  ASSUME NEW cells, NEW w \in Nat \ {0}, NEW h \in Nat \ {0}, NEW all, Show(all, cells, w, h),
         NEW bg, NEW col, \A i \in 1 .. Len(all) : col[i] = all[i].colour,
         NEW u \in 0 .. w - 1, NEW v \in 0 .. h - 1
  PROVE  Layered(bg, all, col, u, v, Cell(cells, w, u, v))
  <1>1. all \in Seq(Sub) /\ Len(all) \in Nat /\ \A i \in 1 .. Len(all) : all[i] \in Sub /\ OnRow(cells, w, h, all[i]) /\ all[i].y + all[i].h = h
    BY DEF Show
  <1>2. LastAt(all, u, v)
    BY DEF Show
  <1>3. PICK i \in 1 .. Len(all) : /\ all[i].y = v /\ Spans(all[i], u)
                                   /\ \A l \in i + 1 .. Len(all) : all[l].y <= v => ~Spans(all[l], u)
    BY <1>2 DEF LastAt
  <1>4. all[i].colour = Cell(cells, w, u, v)
    BY <1>1, <1>3 DEF OnRow
  <1>5. Covers(all[i], u, v)
    <2>1. all[i].h \in Nat \ {0} /\ v \in Int
      <3>1. all[i] \in Sub
        BY <1>1
      <3> QED BY <3>1, SubHas
    <2> QED BY <1>3, <2>1 DEF Covers, Spans
  <1>6. ASSUME NEW l \in i + 1 .. Len(all), Covers(all[l], u, v) PROVE FALSE
    <2>1. l \in 1 .. Len(all)
      BY <1>1
    <2>2. all[l].y \in Nat /\ all[l].h \in Nat /\ v \in Int
      <3>1. all[l] \in Sub
        BY <1>1, <2>1
      <3> QED BY <3>1, SubHas
    <2>3. Spans(all[l], u) /\ v - all[l].y \in 0 .. all[l].h - 1
      BY <1>6 DEF Covers, Spans
    <2>4. all[l].y <= v
      BY <2>2, <2>3
    <2> QED BY <1>3, <2>3, <2>4
  <1> QED BY <1>3, <1>4, <1>5, <1>6 DEF Layered

(* Subrectangles that show a block lie within it. *)
LEMMA ShowFits ==
  ASSUME NEW cells, NEW w, NEW h, NEW all, Show(all, cells, w, h)
  PROVE  Fit(all, w, h)
  BY DEF Show, OnRow, Fit

(* rre and co_rre. *)
LEMMA RREDraws ==
  ASSUME NEW r \in Tile, NEW cells \in Seq(Nat), Len(cells) = r.w * r.h,
         NEW m, m.rect = r, m.body = [bg |-> cells[1], subs |-> Subrects(cells, r.w)]
  PROVE  Good(DecodeRRE(m), r, cells)
  <1> DEFINE all == Subrects(cells, r.w)
             bg == cells[1]
             col == [i \in 1 .. Len(all) |-> all[i].colour]
             W == r.w
             H == r.h
  <1>1. W \in Nat \ {0} /\ H \in Nat \ {0}
    BY DEF Tile
  <1>2. Show(all, cells, W, H)
    <2>1. Len(cells) = W * H
      OBVIOUS
    <2> HIDE DEF W, H, all
    <2>2. Show(Subrects(cells, W), cells, W, H)
      BY <1>1, <2>1, SubrectsShow
    <2> QED BY <2>2 DEF all, W
  <1>3. bg \in Nat
    <2>1. W * H >= 1
      BY <1>1
    <2> QED BY <2>1
  <1>4. m.body.bg = bg /\ m.body.subs = all
    OBVIOUS
  <1> HIDE DEF all, bg
  <1>5. all \in Seq(Sub) /\ DOMAIN all = 1 .. Len(all) /\ \A i \in 1 .. Len(all) : all[i] \in Sub
    BY <1>2 DEF Show
  <1>6. col \in [1 .. Len(all) -> Nat] /\ \A i \in 1 .. Len(all) : col[i] = all[i].colour
    BY <1>5 DEF Sub
  <1>7. DecodeRRE(m) = Fills(r, bg, all, col)
    BY <1>4, <1>5 DEF DecodeRRE, Fills
  <1> HIDE DEF col, W, H
  <1>8. W = r.w /\ H = r.h
    BY DEF W, H
  <1>9. Fit(all, r.w, r.h)
    BY <1>2, <1>8, ShowFits
  <1>10. \A u \in 0 .. r.w - 1, v \in 0 .. r.h - 1 : Layered(bg, all, col, u, v, Cell(cells, r.w, u, v))
    BY <1>1, <1>2, <1>6, <1>8, ShowLayers
  <1>11. Draws(Fills(r, bg, all, col), r, cells)
    BY <1>3, <1>6, <1>9, <1>10, FillsDraw
  <1>12. Within(Fills(r, bg, all, col), r)
    BY <1>3, <1>6, <1>9, FillsAre
  <1> QED BY <1>7, <1>11, <1>12 DEF Good

-----------------------------------------------------------------------------
(* hextile. *)

(* A subrectangle's first row. *)
Thin(s) == [s EXCEPT !.h = 1]

(* A subrectangle cut down to its first row. *)
LEMMA ThinIs ==
  ASSUME NEW s \in Sub
  PROVE  /\ Thin(s) \in Sub /\ Thin(s).x = s.x /\ Thin(s).y = s.y /\ Thin(s).w = s.w
         /\ Thin(s).h = 1 /\ Thin(s).colour = s.colour
  BY DEF Sub, Thin

(* The subrectangles of another colour than the background, row by row. *)
LineOf(s, bg) == IF s.colour # bg THEN <<Thin(s)>> ELSE <<>>

Picked(lines, all, bg) ==
  /\ lines \in Seq(Sub)
  /\ \A i \in 1 .. Len(lines) : \E k \in 1 .. Len(all) : all[k].colour # bg /\ lines[i] = Thin(all[k])
  /\ \A k \in 1 .. Len(all) : all[k].colour # bg => \E i \in 1 .. Len(lines) : lines[i] = Thin(all[k])

(* A hextile of two colours: the lines that are not the background. *)
LEMMA LinesAre ==
  ASSUME NEW all \in Seq(Sub), NEW bg
  PROVE  Picked(FlattenSeq([i \in DOMAIN all |-> LineOf(all[i], bg)]), all, bg)
  <1> DEFINE n == Len(all)
             s == [i \in DOMAIN all |-> LineOf(all[i], bg)]
             f == FlattenSeq(s)
  <1>1. n \in Nat /\ DOMAIN all = 1 .. n /\ \A k \in 1 .. n : all[k] \in Sub
    OBVIOUS
  <1>2. \A k \in 1 .. n : Thin(all[k]) \in Sub
    BY <1>1, ThinIs
  <1>3. \A k \in 1 .. n : s[k] = IF all[k].colour # bg THEN <<Thin(all[k])>> ELSE <<>>
    BY <1>1 DEF LineOf
  <1>4. s \in Seq(Seq(Sub)) /\ Len(s) = n
    <2>1. \A k \in 1 .. n : LineOf(all[k], bg) \in Seq(Sub)
      BY <1>2 DEF LineOf
    <2>2. s \in [1 .. n -> Seq(Sub)]
      BY <1>1, <2>1
    <2> HIDE DEF s
    <2> QED BY <1>1, <2>2, IsSeqOf
  <1> HIDE DEF s
  <1>5. PICK E : Flat(s, f, E) /\ f \in Seq(Sub)
    BY <1>4, FlatOf
  <1> HIDE DEF f
  <1>6. /\ \A k \in 1 .. n : E[k] = E[k - 1] + Len(s[k])
        /\ E \in [0 .. n -> Nat]
        /\ \A k, l \in 0 .. n : k <= l => E[k] <= E[l]
        /\ Len(f) = E[n]
    BY <1>4, <1>5 DEF Flat
  <1>7. /\ \A k \in 1 .. n : \A j \in 1 .. Len(s[k]) : f[E[k - 1] + j] = s[k][j]
        /\ \A i \in 1 .. Len(f) : \E k \in 1 .. n : i \in E[k - 1] + 1 .. E[k]
    BY <1>4, <1>5 DEF Flat
  <1>8. \A k \in 1 .. n : E[k - 1] \in Nat /\ E[k] \in Nat /\ E[k] <= E[n] /\ E[n] \in Nat
    <2> SUFFICES ASSUME NEW k \in 1 .. n PROVE E[k - 1] \in Nat /\ E[k] \in Nat /\ E[k] <= E[n] /\ E[n] \in Nat
      OBVIOUS
    <2>1. k - 1 \in 0 .. n /\ k \in 0 .. n /\ n \in 0 .. n /\ k <= n
      BY <1>1
    <2> QED BY <1>6, <2>1
  <1>9. ASSUME NEW k \in 1 .. n, all[k].colour # bg
        PROVE  E[k] = E[k - 1] + 1 /\ f[E[k - 1] + 1] = Thin(all[k])
    <2> DEFINE t == Thin(all[k])
               z == s[k]
    <2>1. z = IF all[k].colour # bg THEN <<t>> ELSE <<>>
      BY <1>3
    <2> HIDE DEF t, z
    <2>2. z = <<t>>
      BY <1>9, <2>1
    <2>3. Len(z) = 1 /\ z[1] = t /\ 1 \in 1 .. Len(z)
      BY <2>2
    <2>4. E[k] = E[k - 1] + Len(z)
      BY <1>6 DEF z
    <2>5. f[E[k - 1] + 1] = z[1]
      <3>1. \A j \in 1 .. Len(z) : f[E[k - 1] + j] = z[j]
        BY <1>7 DEF z
      <3> QED BY <2>3, <3>1
    <2> QED BY <2>3, <2>4, <2>5 DEF t
  <1>10. ASSUME NEW i \in 1 .. Len(f)
         PROVE  \E k \in 1 .. n : all[k].colour # bg /\ f[i] = Thin(all[k])
    <2>1. PICK k \in 1 .. n : i \in E[k - 1] + 1 .. E[k]
      BY <1>7
    <2>2. all[k].colour # bg
      <3>1. SUFFICES ASSUME all[k].colour = bg PROVE FALSE
        OBVIOUS
      <3> DEFINE z == s[k]
      <3>2. z = <<>>
        BY <1>3, <3>1
      <3>4. E[k] = E[k - 1] + Len(z)
        BY <1>6
      <3> HIDE DEF z
      <3>3. E[k] = E[k - 1] + 0
        BY <3>2, <3>4
      <3> QED BY <1>8, <2>1, <3>3
    <2>3. i = E[k - 1] + 1
      BY <1>8, <1>9, <2>1, <2>2
    <2> QED BY <1>9, <2>2, <2>3
  <1>11. ASSUME NEW k \in 1 .. n, all[k].colour # bg
         PROVE  \E i \in 1 .. Len(f) : f[i] = Thin(all[k])
    <2>1. E[k - 1] + 1 \in 1 .. Len(f)
      BY <1>6, <1>8, <1>9, <1>11
    <2> QED BY <1>9, <1>11, <2>1
  <1>12. Picked(f, all, bg)
    BY <1>5, <1>10, <1>11 DEF Picked
  <1> QED BY <1>12 DEF f, s

(* The colour a subrectangle is filled with. *)
HexColours(t) == [i \in 1 .. Len(t.subs) |-> IF t.coloured THEN t.subs[i].colour ELSE Sym(t.fg, 1)]

HexShows(t, cells, w, h) ==
  /\ t.cells = cells /\ t.bg = <<cells[1]>> /\ t.fg \in Seq(Nat) /\ Fit(t.subs, w, h)
  /\ \A u \in 0 .. w - 1, v \in 0 .. h - 1 : Layered(cells[1], t.subs, HexColours(t), u, v, Cell(cells, w, u, v))

(* Every colour of a block is that of one of its cells. *)
LEMMA CellIn ==
  ASSUME NEW S, NEW cells \in Seq(S), NEW w \in Nat, NEW h \in Nat, Len(cells) = w * h,
         NEW u \in 0 .. w - 1, NEW v \in 0 .. h - 1
  PROVE  Cell(cells, w, u, v) \in S /\ Cell(cells, w, u, v) \in ToSet(cells)
  <1> DEFINE k == v * w + u + 1
  <1>1. k \in 1 .. Len(cells)
    BY PixelOffset
  <1> HIDE DEF k
  <1>2. cells[k] \in S /\ cells[k] \in ToSet(cells)
    BY <1>1 DEF ToSet
  <1> QED BY <1>2 DEF Cell, k

(* A sequence has finitely many elements. *)
LEMMA ToSetFinite ==
  ASSUME NEW S, NEW s \in Seq(S)
  PROVE  IsFiniteSet(ToSet(s)) /\ ToSet(s) \subseteq S
  <1>1. Len(s) \in Nat /\ DOMAIN s = 1 .. Len(s) /\ s \in [1 .. Len(s) -> ToSet(s)] /\ ToSet(s) \subseteq S
    BY DEF ToSet
  <1>2. s \in Surjection(1 .. Len(s), ToSet(s))
    BY <1>1 DEF Surjection, ToSet
  <1>3. IsFiniteSet(1 .. Len(s))
    BY <1>1, FS_Interval
  <1> QED BY <1>1, <1>2, <1>3, FS_Surjection

(* A set of one element, as a sequence. *)
LEMMA SetToSeqOne == ASSUME NEW c PROVE Len(SetToSeq({c})) = 1 /\ SetToSeq({c})[1] = c /\ SetToSeq({c}) = <<c>>
  <1> DEFINE f == [i \in 1 .. 1 |-> c]
  <1>1. Cardinality({c}) = 1
    BY FS_Singleton
  <1>2. f \in [1 .. 1 -> {c}] /\ IsInjective(f)
    BY DEF IsInjective
  <1>3. SetToSeq({c}) \in [1 .. 1 -> {c}]
    BY <1>1, <1>2 DEF SetToSeq
  <1> HIDE DEF f
  <1> QED BY <1>3

(* No subrectangle where the background shows, and the one other colour's
   elsewhere. *)
LEMMA LinesLayer ==
  ASSUME NEW cells, NEW w \in Nat \ {0}, NEW h \in Nat \ {0}, NEW all, Show(all, cells, w, h),
         NEW bg, NEW c, \A u \in 0 .. w - 1, v \in 0 .. h - 1 : Cell(cells, w, u, v) \in {bg, c},
         NEW lines, Picked(lines, all, bg), NEW col, \A i \in 1 .. Len(lines) : col[i] = c
  PROVE  Fit(lines, w, h) /\ \A u \in 0 .. w - 1, v \in 0 .. h - 1 : Layered(bg, lines, col, u, v, Cell(cells, w, u, v))
  <1>1. all \in Seq(Sub) /\ Len(all) \in Nat /\ \A i \in 1 .. Len(all) : all[i] \in Sub /\ OnRow(cells, w, h, all[i])
    BY DEF Show
  <1>2. lines \in Seq(Sub) /\ Len(lines) \in Nat /\ \A i \in 1 .. Len(lines) : \E k \in 1 .. Len(all) : all[k].colour # bg /\ lines[i] = Thin(all[k])
    BY DEF Picked
  <1>3. \A k \in 1 .. Len(all) : all[k].colour # bg => \E i \in 1 .. Len(lines) : lines[i] = Thin(all[k])
    BY DEF Picked
  <1>4. ASSUME NEW i \in 1 .. Len(lines)
        PROVE  /\ lines[i].x + lines[i].w <= w /\ lines[i].y + lines[i].h <= h
               /\ \A u \in 0 .. w - 1, v \in 0 .. h - 1 : Covers(lines[i], u, v) => Cell(cells, w, u, v) # bg
    <2>1. PICK k \in 1 .. Len(all) : all[k].colour # bg /\ lines[i] = Thin(all[k])
      BY <1>2
    <2> DEFINE j == all[k]
               t == lines[i]
    <2>2. j \in Sub /\ OnRow(cells, w, h, j) /\ j.colour # bg /\ t = Thin(j)
      BY <1>1, <2>1
    <2> HIDE DEF j, t
    <2>3. /\ t.x = j.x /\ t.y = j.y /\ t.w = j.w /\ t.h = 1
          /\ j.x \in Nat /\ j.y \in Nat /\ j.w \in Nat \ {0} /\ j.h \in Nat \ {0}
      BY <2>2, ThinIs, SubHas
    <2>4. j.x + j.w <= w /\ j.y + j.h <= h /\ \A u \in 0 .. w - 1 : Spans(j, u) => Cell(cells, w, u, j.y) = j.colour
      BY <2>2 DEF OnRow
    <2>5. ASSUME NEW u \in 0 .. w - 1, NEW v \in 0 .. h - 1, Covers(t, u, v) PROVE Cell(cells, w, u, v) # bg
      <3>1. u - j.x \in 0 .. j.w - 1 /\ v - j.y \in 0 .. 1 - 1
        BY <2>3, <2>5 DEF Covers
      <3>2. Spans(j, u)
        BY <3>1 DEF Spans
      <3>3. v = j.y
        BY <2>3, <3>1
      <3> QED BY <2>2, <2>4, <3>2, <3>3
    <2>6. t.x + t.w <= w /\ t.y + t.h <= h
      BY <2>3, <2>4
    <2> QED BY <2>5, <2>6 DEF t
  <1>5. Fit(lines, w, h)
    BY <1>2, <1>4 DEF Fit
  <1>6. ASSUME NEW u \in 0 .. w - 1, NEW v \in 0 .. h - 1
        PROVE  Layered(bg, lines, col, u, v, Cell(cells, w, u, v))
    <2> DEFINE val == Cell(cells, w, u, v)
               T == {i \in 1 .. Len(lines) : Covers(lines[i], u, v)}
    <2>1. CASE val = bg
      BY <1>4, <2>1 DEF Layered
    <2>2. CASE val # bg
      <3>1. val = c
        BY <2>2
      <3>2. LastAt(all, u, v)
        BY DEF Show
      <3>3. PICK k \in 1 .. Len(all) : all[k].y = v /\ Spans(all[k], u)
        BY <3>2 DEF LastAt
      <3>4. all[k] \in Sub /\ all[k].colour = val
        BY <1>1, <3>3 DEF OnRow
      <3>5. PICK i \in 1 .. Len(lines) : lines[i] = Thin(all[k])
        BY <1>3, <2>2, <3>4
      <3>6. Covers(lines[i], u, v)
        <4> DEFINE j == all[k]
                   t == lines[i]
        <4>1. t = Thin(j) /\ j \in Sub /\ j.y = v /\ Spans(j, u)
          BY <3>3, <3>4, <3>5
        <4> HIDE DEF j, t
        <4>2. t.x = j.x /\ t.y = v /\ t.w = j.w /\ t.h = 1
          BY <4>1, ThinIs
        <4>3. v - t.y \in 0 .. t.h - 1
          BY <4>2
        <4> QED BY <4>1, <4>2, <4>3 DEF Covers, Spans, t
      <3>7. T # {} /\ T \subseteq 0 .. Len(lines)
        BY <3>6
      <3>8. PICK x \in T : \A y \in T : y <= x
        <4> HIDE DEF T
        <4> QED BY <1>2, <3>7, GreatestOf
      <3>9. \A l \in x + 1 .. Len(lines) : ~Covers(lines[l], u, v)
        <4> SUFFICES ASSUME NEW l \in x + 1 .. Len(lines), Covers(lines[l], u, v) PROVE FALSE
          OBVIOUS
        <4>1. l \in 1 .. Len(lines) /\ l > x
          BY <1>2
        <4>2. l \in T
          BY <4>1
        <4> QED BY <3>8, <4>1, <4>2
      <3> QED BY <3>1, <3>8, <3>9 DEF Layered
    <2> QED BY <2>1, <2>2
  <1> QED BY <1>5, <1>6

(* What the encoder makes of a tile. *)
LEMMA HexTileShows ==
  ASSUME NEW cells \in Seq(Nat), NEW w \in Nat \ {0}, NEW h \in Nat \ {0}, Len(cells) = w * h, NEW mode
  PROVE  HexShows(HexTileOf(cells, w, mode), cells, w, h)
  <1> DEFINE bg == cells[1]
             others == ToSet(cells) \ {bg}
             coloured == mode = "coloured" \/ Cardinality(others) > 1
             all == Subrects(cells, w)
             lines == FlattenSeq([i \in DOMAIN all |-> LineOf(all[i], bg)])
             t == HexTileOf(cells, w, mode)
             fg == IF coloured \/ others = {} THEN <<>> ELSE SetToSeq(others)
             subs == IF others = {} THEN <<>> ELSE IF coloured THEN all ELSE lines
  <1>1. t = [raw |-> mode = "raw", cells |-> cells, bg |-> <<bg>>, coloured |-> coloured, fg |-> fg, subs |-> subs]
    BY DEF HexTileOf, LineOf, Thin
  <1> HIDE DEF t
  <1>2. t.cells = cells /\ t.bg = <<bg>> /\ t.coloured = coloured /\ t.fg = fg /\ t.subs = subs
    BY <1>1
  <1>3. Show(all, cells, w, h)
    BY SubrectsShow
  <1> HIDE DEF all
  <1>4. all \in Seq(Sub)
    BY <1>3 DEF Show
  <1>5. Picked(lines, all, bg)
    BY <1>4, LinesAre
  <1> HIDE DEF lines
  <1>6. IsFiniteSet(others) /\ others \subseteq Nat
    <2>1. IsFiniteSet(ToSet(cells)) /\ ToSet(cells) \subseteq Nat
      BY ToSetFinite
    <2> QED BY <2>1, FS_Subset
  <1>7. \A u \in 0 .. w - 1, v \in 0 .. h - 1 : Cell(cells, w, u, v) \in {bg} \cup others
    BY CellIn
  <1> HIDE DEF bg, others, coloured
  <1>8. CASE others = {}
    <2>1. t.subs = <<>> /\ t.fg = <<>> /\ Len(t.subs) = 0
      BY <1>2, <1>8
    <2>2. t.fg \in Seq(Nat) /\ Fit(t.subs, w, h)
      BY <2>1 DEF Fit
    <2>3. \A u \in 0 .. w - 1, v \in 0 .. h - 1 : Layered(bg, t.subs, HexColours(t), u, v, Cell(cells, w, u, v))
      BY <1>7, <1>8, <2>1 DEF Layered
    <2> QED BY <1>2, <2>2, <2>3 DEF HexShows, bg, t
  <1>9. CASE others # {} /\ coloured
    <2>1. t.subs = all /\ t.fg = <<>> /\ t.coloured
      BY <1>2, <1>9
    <2>2. t.fg \in Seq(Nat) /\ Fit(t.subs, w, h)
      BY <1>3, <2>1, ShowFits
    <2> DEFINE col == HexColours(t)
    <2>3. \A i \in 1 .. Len(all) : col[i] = all[i].colour
      BY <2>1 DEF HexColours
    <2> HIDE DEF col
    <2>4. \A u \in 0 .. w - 1, v \in 0 .. h - 1 : Layered(bg, all, col, u, v, Cell(cells, w, u, v))
      BY <1>3, <2>3, ShowLayers
    <2> QED BY <1>2, <2>1, <2>2, <2>4 DEF HexShows, bg, t, col
  <1>10. CASE others # {} /\ ~coloured
    <2>1. t.subs = lines /\ t.fg = SetToSeq(others) /\ ~t.coloured
      BY <1>2, <1>10
    <2>2. PICK c : others = {c}
      <3>1. Cardinality(others) \in Nat /\ Cardinality(others) # 0
        BY <1>6, <1>10, FS_CardinalityType, FS_EmptySet
      <3>2. ~(Cardinality(others) > 1)
        BY <1>10 DEF coloured
      <3>3. Cardinality(others) = 1
        BY <3>1, <3>2
      <3> QED BY <1>6, <3>3, FS_Singleton
    <2>3. c \in Nat /\ t.fg = <<c>>
      BY <1>6, <2>1, <2>2, SetToSeqOne
    <2>4. Sym(t.fg, 1) = c
      BY <2>3 DEF Sym
    <2> DEFINE col == HexColours(t)
    <2>5. \A i \in 1 .. Len(lines) : col[i] = c
      BY <2>1, <2>4 DEF HexColours
    <2> HIDE DEF col
    <2>6. \A u \in 0 .. w - 1, v \in 0 .. h - 1 : Cell(cells, w, u, v) \in {bg, c}
      BY <1>7, <2>2
    <2>7. Fit(lines, w, h) /\ \A u \in 0 .. w - 1, v \in 0 .. h - 1 : Layered(bg, lines, col, u, v, Cell(cells, w, u, v))
      BY <1>3, <1>5, <2>5, <2>6, LinesLayer
    <2>8. t.fg \in Seq(Nat)
      BY <2>3
    <2> QED BY <1>2, <2>1, <2>7, <2>8 DEF HexShows, bg, t, col
  <1> QED BY <1>8, <1>9, <1>10

(* A hextile, perhaps without its colours. *)
Kept(t, f) ==
  /\ t.raw = f.raw /\ t.cells = f.cells /\ t.coloured = f.coloured /\ t.subs = f.subs
  /\ t.bg \in {f.bg, <<>>} /\ t.fg \in {f.fg, <<>>}

(* handle_hextile stays within its tile, and draws it when no colour is left
   out of it. *)
LEMMA HexTileDraws ==
  ASSUME NEW at \in Tile, NEW cells \in Seq(Nat), Len(cells) = at.w * at.h,
         NEW f, HexShows(f, cells, at.w, at.h), NEW t, Kept(t, f)
  PROVE  /\ Within(DecodeHexTile(t, at), at)
         /\ t.bg = f.bg /\ t.fg = f.fg => Draws(DecodeHexTile(t, at), at, cells)
  <1>1. /\ t.cells = cells /\ f.bg = <<cells[1]>> /\ f.fg \in Seq(Nat) /\ Fit(t.subs, at.w, at.h)
        /\ t.subs = f.subs /\ t.coloured = f.coloured /\ t.bg \in {f.bg, <<>>} /\ t.fg \in {f.fg, <<>>}
    BY DEF HexShows, Kept
  <1>2. at.w \in Nat \ {0} /\ at.h \in Nat \ {0}
    BY DEF Tile
  <1>3. cells[1] \in Nat
    <2> DEFINE n == at.w * at.h
    <2>1. n \in Nat /\ n >= 1
      BY <1>2
    <2> HIDE DEF n
    <2>2. Len(cells) = n
      BY DEF n
    <2> QED BY <2>1, <2>2
  <1>4. CASE t.raw
    <2>1. DecodeHexTile(t, at) = <<Rows(at, cells)>>
      BY <1>1, <1>4 DEF DecodeHexTile
    <2>2. Len(cells) >= at.w * at.h
      <3>1. at.w * at.h \in Nat
        BY <1>2
      <3> QED BY <3>1
    <2>3. Good(<<Rows(at, cells)>>, at, cells)
      BY <2>2, OneBlock
    <2> QED BY <2>1, <2>3 DEF Good
  <1>5. CASE ~t.raw
    <2> DEFINE bg == Sym(t.bg, 1)
               subs == t.subs
               col == HexColours(t)
               n == Len(subs)
    <2>1. bg \in Nat /\ (t.bg = f.bg => bg = cells[1])
      <3>1. t.bg = <<cells[1]>> \/ t.bg = <<>>
        BY <1>1
      <3>2. CASE t.bg = <<cells[1]>>
        BY <1>3, <3>2 DEF Sym
      <3>3. CASE t.bg = <<>>
        <4>1. f.bg # <<>>
          BY <1>1
        <4> QED BY <3>3, <4>1 DEF Sym
      <3> QED BY <3>1, <3>2, <3>3
    <2>2. Sym(t.fg, 1) \in Nat
      <3>1. t.fg \in Seq(Nat)
        <4>1. <<>> \in Seq(Nat)
          OBVIOUS
        <4> HIDE DEF bg, subs, col, n
        <4> QED BY <1>1, <4>1, Zenon
      <3> HIDE DEF bg
      <3> QED BY <3>1 DEF Sym
    <2>3. subs \in Seq(Sub) /\ DOMAIN subs = 1 .. n /\ n \in Nat /\ \A i \in 1 .. n : subs[i] \in Sub
      BY <1>1 DEF Fit
    <2>4. col = [i \in 1 .. n |-> IF t.coloured THEN subs[i].colour ELSE Sym(t.fg, 1)]
      BY DEF HexColours
    <2>5. DecodeHexTile(t, at) = Fills(at, bg, subs, col)
      <3>1. DecodeHexTile(t, at) = <<Fill(at, bg)>> \o [i \in DOMAIN subs |-> Fill(Moved(at, subs[i]),
                                       IF t.coloured THEN subs[i].colour ELSE Sym(t.fg, 1))]
        BY <1>5 DEF DecodeHexTile
      <3>2. [i \in DOMAIN subs |-> Fill(Moved(at, subs[i]), IF t.coloured THEN subs[i].colour ELSE Sym(t.fg, 1))]
            = [i \in 1 .. n |-> Fill(Moved(at, subs[i]), col[i])]
        BY <2>3, <2>4
      <3> HIDE DEF bg, subs, col
      <3> QED BY <3>1, <3>2 DEF Fills
    <2>6. t.fg = f.fg => col = HexColours(f)
      BY <1>1 DEF HexColours
    <2>7. \A i \in 1 .. n : subs[i].colour \in Nat
      <3> HIDE DEF subs, n
      <3> QED BY <2>3, SubHas
    <2>8. Fit(subs, at.w, at.h)
      BY <1>1
    <2> HIDE DEF bg, col, subs
    <2>9. col \in [1 .. n -> Nat]
      BY <2>2, <2>4, <2>7
    <2>10. Within(Fills(at, bg, subs, col), at)
      BY <2>1, <2>8, <2>9, FillsAre
    <2>11. ASSUME t.bg = f.bg, t.fg = f.fg PROVE Draws(Fills(at, bg, subs, col), at, cells)
      <3>1. \A u \in 0 .. at.w - 1, v \in 0 .. at.h - 1 :
              Layered(cells[1], f.subs, HexColours(f), u, v, Cell(cells, at.w, u, v))
        BY DEF HexShows
      <3>2. f.subs = subs /\ HexColours(f) = col /\ bg = cells[1]
        BY <1>1, <2>1, <2>6, <2>11 DEF subs
      <3>3. \A u \in 0 .. at.w - 1, v \in 0 .. at.h - 1 :
              Layered(bg, subs, col, u, v, Cell(cells, at.w, u, v))
        BY <3>1, <3>2
      <3> QED BY <2>1, <2>8, <2>9, <3>3, FillsDraw
    <2> QED BY <2>5, <2>10, <2>11
  <1> QED BY <1>4, <1>5

IsHexTile(t) == \E x1, x2, x3, x4, x5, x6 :
  t = [raw |-> x1, cells |-> x2, bg |-> x3, coloured |-> x4, fg |-> x5, subs |-> x6]

(* HexTileOf is a record of the six fields. *)
LEMMA HexTileHas ==
  ASSUME NEW cells, NEW w, NEW mode
  PROVE  IsHexTile(HexTileOf(cells, w, mode))
  <1> DEFINE bg == cells[1]
             others == ToSet(cells) \ {bg}
             coloured == mode = "coloured" \/ Cardinality(others) > 1
             all == Subrects(cells, w)
             lines == FlattenSeq([i \in DOMAIN all |-> LineOf(all[i], bg)])
             fg == IF coloured \/ others = {} THEN <<>> ELSE SetToSeq(others)
             subs == IF others = {} THEN <<>> ELSE IF coloured THEN all ELSE lines
             raw == mode = "raw"
             one == <<bg>>
  <1>1. HexTileOf(cells, w, mode) = [raw |-> raw, cells |-> cells, bg |-> one, coloured |-> coloured, fg |-> fg, subs |-> subs]
    BY DEF HexTileOf, LineOf, Thin
  <1> HIDE DEF raw, one, coloured, fg, subs
  <1> QED BY <1>1 DEF IsHexTile

(* hextile, a tile at a time. *)
LEMMA HextileDraws ==
  ASSUME NEW r \in Tile, NEW cells \in Seq(Nat), Len(cells) = r.w * r.h, NEW mode,
         NEW m, m.rect = r, m.body = HexTiles(cells, r.w, r.h, mode)
  PROVE  Within(DecodeHextile(m), r) /\ (~Carries => Draws(DecodeHextile(m), r, cells))
  <1> DEFINE tiles == TileLoop(r, HexTile)
             cut == TilesOf(r.w, r.h, HexTile)
             n == Len(tiles)
             full == [k \in DOMAIN cut |-> HexTileOf(Cut(cells, r.w, cut[k]), cut[k].w, mode)]
             s == [k \in DOMAIN tiles |-> DecodeHexTile(m.body[k], tiles[k])]
             f == FlattenSeq(s)
             c(k) == Cut(cells, r.w, cut[k])
  <1>0. HexTile \in Nat \ {0}
    BY PixelsAssumption
  <1>1. Tiling(tiles, cut, r)
    BY <1>0, TilesAre
  <1>2. DecodeHextile(m) = f
    BY DEF DecodeHextile
  <1>3. \A k \in DOMAIN full : Kept(m.body[k], full[k]) /\ (~Carries => m.body[k].bg = full[k].bg /\ m.body[k].fg = full[k].fg)
    <2> SUFFICES ASSUME NEW k \in DOMAIN full
                 PROVE  Kept(m.body[k], full[k]) /\ (~Carries => m.body[k].bg = full[k].bg /\ m.body[k].fg = full[k].fg)
      OBVIOUS
    <2> DEFINE same(a) == Carries /\ k > 1 /\ a # <<>>
               F == full[k]
               b == IF same(F.bg) /\ F.bg = full[k - 1].bg THEN <<>> ELSE F.bg
               g == IF same(F.fg) /\ F.fg = full[k - 1].fg THEN <<>> ELSE F.fg
    <2>1. m.body[k] = [F EXCEPT !.bg = b, !.fg = g]
      <3>1. m.body = [i \in DOMAIN full |->
                       [full[i] EXCEPT !.bg = IF Carries /\ i > 1 /\ @ # <<>> /\ @ = full[i - 1].bg THEN <<>> ELSE @,
                                       !.fg = IF Carries /\ i > 1 /\ @ # <<>> /\ @ = full[i - 1].fg THEN <<>> ELSE @]]
        BY Zenon DEF HexTiles
      <3> HIDE DEF full
      <3> QED BY <3>1
    <2>2. b \in {F.bg, <<>>} /\ g \in {F.fg, <<>>} /\ (~Carries => b = F.bg /\ g = F.fg)
      OBVIOUS
    <2>3. IsHexTile(F)
      <3>1. F = HexTileOf(Cut(cells, r.w, cut[k]), cut[k].w, mode)
        OBVIOUS
      <3> HIDE DEF F
      <3> QED BY <3>1, HexTileHas
    <2> HIDE DEF b, g, F
    <2>4. m.body[k].raw = F.raw /\ m.body[k].cells = F.cells /\ m.body[k].coloured = F.coloured /\ m.body[k].subs = F.subs
          /\ m.body[k].bg = b /\ m.body[k].fg = g
      BY <2>1, <2>3 DEF IsHexTile
    <2>5. Kept(m.body[k], F) /\ (~Carries => m.body[k].bg = F.bg /\ m.body[k].fg = F.fg)
      BY <2>2, <2>4 DEF Kept
    <2> QED BY <2>5 DEF F
  <1>4. /\ n \in Nat /\ Len(cut) = n /\ DOMAIN tiles = 1 .. n /\ DOMAIN cut = 1 .. n
        /\ \A k \in 1 .. n : tiles[k] \in Tile
        /\ \A k \in 1 .. n : Inside(cut[k], r.w, r.h) /\ tiles[k].w = cut[k].w /\ tiles[k].h = cut[k].h
    BY <1>1 DEF Tiling
  <1>5. \A k \in 1 .. n : full[k] = HexTileOf(c(k), cut[k].w, mode) /\ k \in DOMAIN full
    BY <1>4
  <1>6. \A k \in 1 .. n : s[k] = DecodeHexTile(m.body[k], tiles[k])
    BY <1>4
  <1>7. r.w \in Nat \ {0} /\ r.h \in Nat \ {0}
    BY DEF Tile
  <1> HIDE DEF tiles, cut, n, full
  <1>8. \A k \in 1 .. n : /\ Within(s[k], tiles[k])
                          /\ ~Carries => Draws(s[k], tiles[k], c(k))
    <2> SUFFICES ASSUME NEW k \in 1 .. n
                 PROVE  Within(s[k], tiles[k]) /\ (~Carries => Draws(s[k], tiles[k], c(k)))
      OBVIOUS
    <2> DEFINE t == cut[k]
               at == tiles[k]
               F == full[k]
               cc == c(k)
    <2>1. Inside(t, r.w, r.h)
      BY <1>4
    <2>2. cc \in Seq(Nat) /\ Len(cc) = t.w * t.h
      <3>1. r.w \in Nat \ {0} /\ r.h \in Nat \ {0}
        BY <1>7
      <3> HIDE DEF t
      <3>2. Inside(t, r.w, r.h)
        BY <2>1
      <3>3. Cut(cells, r.w, t) \in Seq(Nat) /\ Len(Cut(cells, r.w, t)) = t.w * t.h
        BY <3>1, <3>2, CutIs
      <3> QED BY <3>3 DEF t
    <2>3. t.w \in Nat \ {0} /\ t.h \in Nat \ {0} /\ at \in Tile /\ at.w = t.w /\ at.h = t.h
      BY <1>4, <2>1 DEF Inside
    <2>4. F = HexTileOf(cc, t.w, mode)
      BY <1>5
    <2>5. Kept(m.body[k], F) /\ (~Carries => m.body[k].bg = F.bg /\ m.body[k].fg = F.fg)
      BY <1>3, <1>5
    <2> HIDE DEF t, F, cc, at
    <2>6. HexShows(F, cc, at.w, at.h)
      BY <2>2, <2>3, <2>4, HexTileShows
    <2> DEFINE b == m.body[k]
    <2>8. Kept(b, F)
      BY <2>5
    <2> HIDE DEF b
    <2>7. Within(DecodeHexTile(b, at), at) /\ (b.bg = F.bg /\ b.fg = F.fg => Draws(DecodeHexTile(b, at), at, cc))
      BY <2>2, <2>3, <2>6, <2>8, HexTileDraws
    <2> QED BY <1>6, <2>5, <2>7 DEF at, cc, b
  <1>9. s \in Seq(Seq(Job)) /\ Len(s) = n
    <2>1. \A k \in 1 .. n : s[k] \in Seq(Job)
      BY <1>8 DEF Within
    <2>2. s \in [1 .. n -> Seq(Job)]
      BY <1>4, <2>1
    <2>3. n \in Nat
      BY <1>4
    <2> HIDE DEF s
    <2> QED BY <2>2, <2>3, IsSeqOf
  <1> HIDE DEF s
  <1>10. PICK E : Flat(s, f, E) /\ f \in Seq(Job)
    BY <1>9, FlatOf
  <1> HIDE DEF f
  <1>11. /\ Within(f, r)
         /\ (\A k \in 1 .. Len(s) : Draws(s[k], tiles[k], Cut(cells, r.w, cut[k]))) => Draws(f, r, cells)
    <2>1. Len(s) = Len(tiles) /\ \A k \in 1 .. Len(s) : Within(s[k], tiles[k])
      BY <1>8, <1>9 DEF n
    <2>2. tiles = TileLoop(r, HexTile) /\ cut = TilesOf(r.w, r.h, HexTile)
      BY DEF tiles, cut
    <2> QED BY <1>0, <1>10, <2>1, <2>2, TilesDraw
  <1> QED BY <1>2, <1>8, <1>9, <1>11

-----------------------------------------------------------------------------
(* Palettes. *)

(* PaletteOf, pixel by pixel. *)
LEMMA PaletteSteps ==
  ASSUME NEW S, NEW cells \in Seq(S)
  PROVE  \E g : /\ PaletteOf(cells) = g[Len(cells)] /\ g[0] = <<>>
                /\ \A k \in 1 .. Len(cells) : g[k] = IF cells[k] \in ToSet(g[k - 1]) THEN g[k - 1] ELSE Append(g[k - 1], cells[k])
  <1> DEFINE N == Len(cells)
             Step(k, d) == IF cells[k] \in ToSet(d) THEN d ELSE Append(d, cells[k])
             base == <<>>
             Eq(g, n) == g = [k \in 0 .. n |-> IF k = 0 THEN base ELSE Step(k, g[k - 1])]
             g == CHOOSE g : Eq(g, N)
             T == {n \in Nat : \E f : Eq(f, n)}
  <1>1. PaletteOf(cells) = g[N]
    BY DEF PaletteOf
  <1>2. N \in Nat
    OBVIOUS
  <1> HIDE DEF Step, base, N
  <1>3. 0 \in T
    <2> DEFINE f == [k \in 0 .. 0 |-> base]
    <2>1. Eq(f, 0)
      OBVIOUS
    <2> HIDE DEF f, Eq
    <2> QED BY <2>1
  <1>4. ASSUME NEW n \in Nat, n \in T PROVE n + 1 \in T
    <2>1. PICK f : Eq(f, n)
      BY <1>4
    <2> DEFINE h == [k \in 0 .. n + 1 |-> IF k = n + 1 THEN Step(k, f[n]) ELSE f[k]]
    <2>2. \A k \in 0 .. n + 1 : h[k] = IF k = 0 THEN base ELSE Step(k, h[k - 1])
      <3> SUFFICES ASSUME NEW k \in 0 .. n + 1 PROVE h[k] = IF k = 0 THEN base ELSE Step(k, h[k - 1])
        OBVIOUS
      <3>1. CASE k = n + 1
        <4>1. k # 0 /\ k - 1 = n /\ h[k] = Step(k, f[n]) /\ h[n] = f[n]
          BY <3>1
        <4> HIDE DEF h
        <4> QED BY <4>1
      <3>2. CASE k # n + 1
        <4>1. k \in 0 .. n /\ h[k] = f[k] /\ (k # 0 => h[k - 1] = f[k - 1])
          BY <3>2
        <4>2. f[k] = IF k = 0 THEN base ELSE Step(k, f[k - 1])
          BY <2>1, <4>1
        <4> HIDE DEF h
        <4> QED BY <4>1, <4>2
      <3> QED BY <3>1, <3>2
    <2>3. h = [k \in 0 .. n + 1 |-> h[k]]
      OBVIOUS
    <2>4. Eq(h, n + 1)
      <3> HIDE DEF h
      <3> QED BY <2>2, <2>3
    <2> HIDE DEF h, Eq
    <2> QED BY <2>4
  <1>5. Eq(g, N)
    <2> HIDE DEF Eq
    <2>1. N \in T
      <3> HIDE DEF T
      <3> QED BY <1>2, <1>3, <1>4, SetInduction
    <2>2. \E f : Eq(f, N)
      BY <2>1
    <2> QED BY <2>2
  <1> HIDE DEF g
  <1>6. g[0] = base /\ \A k \in 1 .. N : g[k] = Step(k, g[k - 1])
    <2>1. \A k \in 0 .. N : g[k] = IF k = 0 THEN base ELSE Step(k, g[k - 1])
      BY <1>5
    <2>2. 0 \in 0 .. N /\ \A k \in 1 .. N : k \in 0 .. N /\ k # 0
      BY <1>2
    <2> QED BY <2>1, <2>2
  <1> QED BY <1>1, <1>6 DEF Step, base, N

(* The palette of the first n pixels: each colour once. *)
IsPalette(palette, S, cells, n) ==
  /\ palette \in Seq(S) /\ Len(palette) <= n
  /\ \A i, j \in 1 .. Len(palette) : palette[i] = palette[j] => i = j
  /\ \A k \in 1 .. n : \E i \in 1 .. Len(palette) : palette[i] = cells[k]
  /\ \A i \in 1 .. Len(palette) : \E k \in 1 .. n : palette[i] = cells[k]

(* PaletteOf has every colour of a block once. *)
LEMMA PaletteIs ==
  ASSUME NEW S, NEW cells \in Seq(S)
  PROVE  IsPalette(PaletteOf(cells), S, cells, Len(cells))
  <1> DEFINE N == Len(cells)
  <1>0. N \in Nat /\ \A k \in 1 .. N : cells[k] \in S
    OBVIOUS
  <1>1. PICK g : /\ PaletteOf(cells) = g[N] /\ g[0] = <<>>
                 /\ \A k \in 1 .. N :
                      g[k] = IF cells[k] \in ToSet(g[k - 1]) THEN g[k - 1] ELSE Append(g[k - 1], cells[k])
    BY PaletteSteps
  <1> HIDE DEF N
  <1> DEFINE U == {n \in Nat : IsPalette(g[n], S, cells, n)}
  <1>2. 0 \in U
    <2>1. IsPalette(<<>>, S, cells, 0)
      BY DEF IsPalette
    <2> QED BY <1>1, <2>1
  <1>3. ASSUME NEW n \in 0 .. N - 1, n \in U PROVE n + 1 \in U
    <2> DEFINE p == g[n]
               q == g[n + 1]
               c == cells[n + 1]
    <2>0. n \in Nat /\ n + 1 \in 1 .. N /\ (n + 1) - 1 = n /\ c \in S
      BY <1>0
    <2>1. IsPalette(p, S, cells, n)
      BY <1>3
    <2>2. q = IF c \in ToSet(p) THEN p ELSE Append(p, c)
      <3>1. \A k \in 1 .. N : k = n + 1 => g[k] = IF cells[k] \in ToSet(g[k - 1]) THEN g[k - 1] ELSE Append(g[k - 1], cells[k])
        BY <1>1
      <3> QED BY <2>0, <3>1
    <2> HIDE DEF p, q
    <2>3. p \in Seq(S) /\ Len(p) \in Nat /\ Len(p) <= n /\ DOMAIN p = 1 .. Len(p)
      BY <2>1 DEF IsPalette
    <2>4. \A i, j \in 1 .. Len(p) : p[i] = p[j] => i = j
      BY <2>1 DEF IsPalette
    <2>5. \A k \in 1 .. n : \E i \in 1 .. Len(p) : p[i] = cells[k]
      BY <2>1 DEF IsPalette
    <2>6. \A i \in 1 .. Len(p) : \E k \in 1 .. n : p[i] = cells[k]
      BY <2>1 DEF IsPalette
    <2>7. \A k \in 1 .. n + 1 : k \in 1 .. n \/ k = n + 1
      BY <2>0
    <2>8. \A k \in 1 .. n : k \in 1 .. n + 1
      BY <2>0
    <2>9. c \in ToSet(p) <=> \E i \in 1 .. Len(p) : p[i] = c
      BY <2>3 DEF ToSet
    <2>10. CASE c \in ToSet(p)
      <3>1. q = p
        BY <2>2, <2>10
      <3>2. \A k \in 1 .. n + 1 : \E i \in 1 .. Len(p) : p[i] = cells[k]
        BY <2>5, <2>7, <2>9, <2>10 DEF c
      <3>3. \A i \in 1 .. Len(p) : \E k \in 1 .. n + 1 : p[i] = cells[k]
        BY <2>6, <2>8
      <3>4. Len(p) <= n + 1
        BY <2>0, <2>3
      <3>5. IsPalette(p, S, cells, n + 1)
        BY <2>3, <2>4, <3>2, <3>3, <3>4 DEF IsPalette
      <3> QED BY <2>0, <3>1, <3>5 DEF q
    <2>11. CASE c \notin ToSet(p)
      <3> DEFINE m == Len(p)
      <3>1. /\ q \in Seq(S) /\ Len(q) = m + 1 /\ q[m + 1] = c /\ \A i \in 1 .. m : q[i] = p[i]
        <4>1. q = Append(p, c)
          BY <2>2, <2>11
        <4> HIDE DEF c
        <4> QED BY <2>0, <2>3, <4>1, AddIs
      <3> HIDE DEF c, m
      <3>2. \A i \in 1 .. m + 1 : i \in 1 .. m \/ i = m + 1
        BY <2>3 DEF m
      <3>3. m \in Nat /\ m + 1 \in 1 .. m + 1 /\ (\A i \in 1 .. m : i \in 1 .. m + 1) /\ m + 1 <= n + 1
        BY <2>0, <2>3 DEF m
      <3>4. \A i \in 1 .. m : p[i] # c
        BY <2>9, <2>11 DEF m
      <3>5. \A i, j \in 1 .. m + 1 : q[i] = q[j] => i = j
        BY <2>4, <3>1, <3>2, <3>4 DEF m
      <3>6. \A k \in 1 .. n + 1 : \E i \in 1 .. m + 1 : q[i] = cells[k]
        <4>1. \A k \in 1 .. n : \E i \in 1 .. m + 1 : q[i] = cells[k]
          BY <2>5, <3>1, <3>3 DEF m
        <4>2. \E i \in 1 .. m + 1 : q[i] = cells[n + 1]
          BY <3>1, <3>3 DEF c
        <4> QED BY <2>7, <4>1, <4>2
      <3>7. \A i \in 1 .. m + 1 : \E k \in 1 .. n + 1 : q[i] = cells[k]
        <4>1. \A i \in 1 .. m : \E k \in 1 .. n + 1 : q[i] = cells[k]
          BY <2>6, <2>8, <3>1 DEF m
        <4>2. q[m + 1] = cells[n + 1] /\ n + 1 \in 1 .. n + 1
          BY <2>0, <3>1 DEF c
        <4> QED BY <3>2, <4>1, <4>2
      <3>8. IsPalette(q, S, cells, n + 1)
        BY <3>1, <3>3, <3>5, <3>6, <3>7 DEF IsPalette
      <3> QED BY <2>0, <3>8 DEF q
    <2> QED BY <2>10, <2>11
  <1>4. N \in U
    <2> HIDE DEF U
    <2>1. 0 .. N \subseteq U
      BY <1>0, <1>2, <1>3, UpTo
    <2> QED BY <1>0, <2>1
  <1> QED BY <1>1, <1>4 DEF N

(* Colours are among 99, so a palette is no longer, and an index finds its
   colour in it. *)
LEMMA PaletteFits ==
  ASSUME NEW cells \in Seq(1 .. 99), NEW palette, palette = PaletteOf(cells)
  PROVE  /\ palette \in Seq(1 .. 99) /\ Len(palette) \in Nat /\ Len(palette) <= 99
         /\ Len(cells) > 0 => Len(palette) > 0
         /\ \A k \in 1 .. Len(cells) : \E i \in 1 .. Len(palette) : palette[i] = cells[k]
  <1> DEFINE n == Len(palette)
             C == 1 .. 99
  <1>1. IsPalette(palette, C, cells, Len(cells))
    <2> HIDE DEF C
    <2>1. cells \in Seq(C)
      BY DEF C
    <2> QED BY <2>1, PaletteIs
  <1>2. /\ palette \in Seq(C) /\ n \in Nat /\ palette \in [1 .. n -> C]
        /\ \A i, j \in 1 .. n : palette[i] = palette[j] => i = j
        /\ \A k \in 1 .. Len(cells) : \E i \in 1 .. n : palette[i] = cells[k]
    <2>1. palette \in Seq(C)
      BY <1>1 DEF IsPalette
    <2>2. /\ \A i, j \in 1 .. n : palette[i] = palette[j] => i = j
          /\ \A k \in 1 .. Len(cells) : \E i \in 1 .. n : palette[i] = cells[k]
      BY <1>1 DEF IsPalette
    <2>3. n \in Nat /\ palette \in [1 .. n -> C]
      <3> HIDE DEF C
      <3> QED BY <2>1
    <2> QED BY <2>1, <2>2, <2>3
  <1>3. n <= 99
    <2> HIDE DEF n
    <2>1. IsFiniteSet(C) /\ Cardinality(C) = 99
      <3>1. 1 \in Int /\ 99 \in Int
        OBVIOUS
      <3>2. IsFiniteSet(C) /\ Cardinality(C) = IF 1 > 99 THEN 0 ELSE 99 - 1 + 1
        BY <3>1, FS_Interval
      <3> QED BY <3>2
    <2>2. Cardinality(1 .. n) = n
      <3>1. 1 \in Int /\ n \in Int
        BY <1>2
      <3>2. Cardinality(1 .. n) = IF 1 > n THEN 0 ELSE n - 1 + 1
        BY <3>1, FS_Interval
      <3> QED BY <1>2, <3>2
    <2> HIDE DEF C
    <2>3. palette \in Injection(1 .. n, C)
      BY <1>2 DEF Injection, IsInjective
    <2>4. Cardinality(1 .. n) <= Cardinality(C)
      BY <2>1, <2>3, FS_Injection
    <2> QED BY <2>1, <2>2, <2>4
  <1>4. Len(cells) > 0 => n > 0
    <2>1. Len(cells) \in Nat
      OBVIOUS
    <2>2. Len(cells) > 0 => 1 \in 1 .. Len(cells)
      BY <2>1
    <2> QED BY <1>2, <2>2
  <1> QED BY <1>2, <1>3, <1>4

(* The indices look up the block in its palette. *)
LEMMA IndicesAre ==
  ASSUME NEW cells \in Seq(1 .. 99), NEW palette, palette = PaletteOf(cells), NEW s, s = Indices(cells)
  PROVE  /\ s \in Seq(Nat) /\ Len(s) = Len(cells)
         /\ \A k \in 1 .. Len(cells) : s[k] \in 0 .. Len(palette) - 1 /\ palette[s[k] + 1] = cells[k]
  <1>1. /\ palette \in Seq(1 .. 99) /\ Len(palette) \in Nat
        /\ \A k \in 1 .. Len(cells) : \E i \in 1 .. Len(palette) : palette[i] = cells[k]
    BY PaletteFits
  <1>2. DOMAIN palette = 1 .. Len(palette) /\ Len(cells) \in Nat /\ DOMAIN cells = 1 .. Len(cells)
    BY <1>1
  <1>3. s = [k \in 1 .. Len(cells) |-> (CHOOSE i \in 1 .. Len(palette) : palette[i] = cells[k]) - 1]
    BY <1>2 DEF Indices
  <1>4. ASSUME NEW k \in 1 .. Len(cells)
        PROVE  s[k] \in Nat /\ s[k] \in 0 .. Len(palette) - 1 /\ palette[s[k] + 1] = cells[k]
    <2> DEFINE i == CHOOSE i \in 1 .. Len(palette) : palette[i] = cells[k]
    <2>1. i \in 1 .. Len(palette) /\ palette[i] = cells[k]
      BY <1>1
    <2>2. s[k] = i - 1
      BY <1>3
    <2> HIDE DEF i
    <2>3. s[k] + 1 = i /\ s[k] \in 0 .. Len(palette) - 1 /\ s[k] \in Nat
      BY <1>1, <2>1, <2>2
    <2> QED BY <2>1, <2>3
  <1>5. s \in [1 .. Len(cells) -> Nat]
    BY <1>3, <1>4
  <1>6. s \in Seq(Nat) /\ Len(s) = Len(cells)
    BY <1>2, <1>5, IsSeqOf
  <1> QED BY <1>4, <1>6

-----------------------------------------------------------------------------
(* Numbers packed into bytes, and bits_reader. *)

(* Number j of byte q of a row packed n to the byte. *)
Nth(numbers, q, n, j) == IF (q - 1) * n + j <= Len(numbers) THEN numbers[(q - 1) * n + j] ELSE 0

(* PackedByte, number by number. *)
LEMMA ByteSteps ==
  ASSUME NEW numbers, NEW q, NEW b \in {1, 2, 4, 8}
  PROVE  \E g : /\ PackedByte(numbers, q, b) = g[(8 \div b)] /\ g[0] = 0
                /\ \A k \in 1 .. (8 \div b) : g[k] = g[k - 1] * 2 ^ b + Nth(numbers, q, 8 \div b, k)
  <1> DEFINE N == (8 \div b)
             Step(k, d) == d * 2 ^ b + Nth(numbers, q, 8 \div b, k)
             base == 0
             Eq(g, n) == g = [k \in 0 .. n |-> IF k = 0 THEN base ELSE Step(k, g[k - 1])]
             g == CHOOSE g : Eq(g, N)
             T == {n \in Nat : \E f : Eq(f, n)}
  <1>1. PackedByte(numbers, q, b) = g[N]
    BY DEF PackedByte, Nth
  <1>2. N \in Nat
    <2>1. CASE b = 1
      BY <2>1
    <2>2. CASE b = 2
      BY <2>2
    <2>3. CASE b = 4
      BY <2>3
    <2>4. CASE b = 8
      BY <2>4
    <2> QED BY <2>1, <2>2, <2>3, <2>4
  <1> HIDE DEF Step, base, N
  <1>3. 0 \in T
    <2> DEFINE f == [k \in 0 .. 0 |-> base]
    <2>1. Eq(f, 0)
      OBVIOUS
    <2> HIDE DEF f, Eq
    <2> QED BY <2>1
  <1>4. ASSUME NEW n \in Nat, n \in T PROVE n + 1 \in T
    <2>1. PICK f : Eq(f, n)
      BY <1>4
    <2> DEFINE h == [k \in 0 .. n + 1 |-> IF k = n + 1 THEN Step(k, f[n]) ELSE f[k]]
    <2>2. \A k \in 0 .. n + 1 : h[k] = IF k = 0 THEN base ELSE Step(k, h[k - 1])
      <3> SUFFICES ASSUME NEW k \in 0 .. n + 1 PROVE h[k] = IF k = 0 THEN base ELSE Step(k, h[k - 1])
        OBVIOUS
      <3>1. CASE k = n + 1
        <4>1. k # 0 /\ k - 1 = n /\ h[k] = Step(k, f[n]) /\ h[n] = f[n]
          BY <3>1
        <4> HIDE DEF h
        <4> QED BY <4>1
      <3>2. CASE k # n + 1
        <4>1. k \in 0 .. n /\ h[k] = f[k] /\ (k # 0 => h[k - 1] = f[k - 1])
          BY <3>2
        <4>2. f[k] = IF k = 0 THEN base ELSE Step(k, f[k - 1])
          BY <2>1, <4>1
        <4> HIDE DEF h
        <4> QED BY <4>1, <4>2
      <3> QED BY <3>1, <3>2
    <2>3. h = [k \in 0 .. n + 1 |-> h[k]]
      OBVIOUS
    <2>4. Eq(h, n + 1)
      <3> HIDE DEF h
      <3> QED BY <2>2, <2>3
    <2> HIDE DEF h, Eq
    <2> QED BY <2>4
  <1>5. Eq(g, N)
    <2> HIDE DEF Eq
    <2>1. N \in T
      <3> HIDE DEF T
      <3> QED BY <1>2, <1>3, <1>4, SetInduction
    <2>2. \E f : Eq(f, N)
      BY <2>1
    <2> QED BY <2>2
  <1> HIDE DEF g
  <1>6. g[0] = base /\ \A k \in 1 .. N : g[k] = Step(k, g[k - 1])
    <2>1. \A k \in 0 .. N : g[k] = IF k = 0 THEN base ELSE Step(k, g[k - 1])
      BY <1>5
    <2>2. 0 \in 0 .. N /\ \A k \in 1 .. N : k \in 0 .. N /\ k # 0
      BY <1>2
    <2> QED BY <2>1, <2>2
  <1> QED BY <1>1, <1>6 DEF Step, base, N

(* A number of the row, or a zero that fills it up, is of b bits. *)
LEMMA NthIn ==
  ASSUME NEW c \in Nat \ {0}, NEW numbers \in Seq(0 .. c - 1), NEW q \in Nat \ {0}, NEW n \in Nat, NEW j \in Nat \ {0}
  PROVE  Nth(numbers, q, n, j) \in 0 .. c - 1
  <1> DEFINE i == (q - 1) * n + j
  <1>1. i \in Nat \ {0}
    <2>1. (q - 1) * n \in Nat
      OBVIOUS
    <2> QED BY <2>1
  <1> HIDE DEF i
  <1>2. (IF i <= Len(numbers) THEN numbers[i] ELSE 0) \in 0 .. c - 1
    <2>1. i <= Len(numbers) => i \in 1 .. Len(numbers)
      BY <1>1
    <2>2. 0 \in 0 .. c - 1
      OBVIOUS
    <2> QED BY <2>1, <2>2
  <1> QED BY <1>2 DEF Nth, i

(* Each number can be taken out of its byte. *)
ByteOf(byte, numbers, q, b) ==
  /\ byte \in Nat
  /\ \A e \in 0 .. (8 \div b) - 1 : (byte \div 2 ^ (8 - b - b * e)) % 2 ^ b = Nth(numbers, q, 8 \div b, e + 1)

(* A byte of eight bits. *)
LEMMA Byte1 ==
  ASSUME NEW numbers \in Seq(0 .. 1), NEW q \in Nat \ {0}
  PROVE  ByteOf(PackedByte(numbers, q, 1), numbers, q, 1)
  <1> DEFINE byte == PackedByte(numbers, q, 1)
             x1 == Nth(numbers, q, 8, 1)
             x2 == Nth(numbers, q, 8, 2)
             x3 == Nth(numbers, q, 8, 3)
             x4 == Nth(numbers, q, 8, 4)
             x5 == Nth(numbers, q, 8, 5)
             x6 == Nth(numbers, q, 8, 6)
             x7 == Nth(numbers, q, 8, 7)
             x8 == Nth(numbers, q, 8, 8)
  <1>0. 8 \div 1 = 8 /\ 2 ^ 1 = 2
    OBVIOUS
  <1>1. PICK g : byte = g[8 \div 1] /\ g[0] = 0 /\ \A k \in 1 .. 8 \div 1 : g[k] = g[k - 1] * 2 ^ 1 + Nth(numbers, q, 8 \div 1, k)
    <2>1. 1 \in {1, 2, 4, 8}
      OBVIOUS
    <2> HIDE DEF byte
    <2> QED BY <2>1, ByteSteps DEF byte
  <1>2. byte = g[8] /\ g[0] = 0 /\ \A k \in 1 .. 8 : g[k] = g[k - 1] * 2 + Nth(numbers, q, 8, k)
    BY <1>0, <1>1
  <1>3. g[1] = g[0] * 2 + x1 /\ g[2] = g[1] * 2 + x2 /\ g[3] = g[2] * 2 + x3 /\ g[4] = g[3] * 2 + x4
        /\ g[5] = g[4] * 2 + x5 /\ g[6] = g[5] * 2 + x6 /\ g[7] = g[6] * 2 + x7 /\ g[8] = g[7] * 2 + x8
    BY <1>2
  <1>4. x1 \in 0 .. 1 /\ x2 \in 0 .. 1 /\ x3 \in 0 .. 1 /\ x4 \in 0 .. 1 /\ x5 \in 0 .. 1 /\ x6 \in 0 .. 1 /\ x7 \in 0 .. 1 /\ x8 \in 0 .. 1
    <2> DEFINE c == 2
    <2>1. c \in Nat \ {0} /\ c - 1 = 1
      OBVIOUS
    <2> HIDE DEF c
    <2>2. numbers \in Seq(0 .. c - 1)
      BY <2>1
    <2>3. ASSUME NEW j \in Nat \ {0} PROVE Nth(numbers, q, 8, j) \in 0 .. 1
      <3> DEFINE n == 8
      <3>1. n \in Nat
        OBVIOUS
      <3> HIDE DEF n
      <3>2. Nth(numbers, q, n, j) \in 0 .. c - 1
        BY <2>1, <2>2, <3>1, NthIn
      <3> QED BY <2>1, <3>2 DEF n
    <2>4. {1, 2, 3, 4, 5, 6, 7, 8} \subseteq Nat \ {0}
      OBVIOUS
    <2> QED BY <2>3, <2>4
  <1> HIDE DEF byte, x1, x2, x3, x4, x5, x6, x7, x8
  <1>5. byte = (((((((x1) * 2 + x2) * 2 + x3) * 2 + x4) * 2 + x5) * 2 + x6) * 2 + x7) * 2 + x8
    BY <1>2, <1>3, <1>4
  <1>6. /\ byte \in Nat
        /\ (byte \div 128) % 2 = x1
        /\ (byte \div 64) % 2 = x2
        /\ (byte \div 32) % 2 = x3
        /\ (byte \div 16) % 2 = x4
        /\ (byte \div 8) % 2 = x5
        /\ (byte \div 4) % 2 = x6
        /\ (byte \div 2) % 2 = x7
        /\ (byte \div 1) % 2 = x8
    BY <1>4, <1>5
  <1>7. ASSUME NEW e \in 0 .. 7 PROVE (byte \div 2 ^ (8 - 1 - 1 * e)) % 2 ^ 1 = Nth(numbers, q, 8, e + 1)
    <2>1. CASE e = 0
      <3>1. 8 - 1 - 1 * e = 7 /\ e + 1 = 1 /\ 2 ^ 7 = 128
        BY <2>1
      <3>2. (byte \div 128) % 2 = Nth(numbers, q, 8, 1)
        BY <1>6 DEF x1
      <3> QED BY <1>0, <3>1, <3>2
    <2>2. CASE e = 1
      <3>1. 8 - 1 - 1 * e = 6 /\ e + 1 = 2 /\ 2 ^ 6 = 64
        BY <2>2
      <3>2. (byte \div 64) % 2 = Nth(numbers, q, 8, 2)
        BY <1>6 DEF x2
      <3> QED BY <1>0, <3>1, <3>2
    <2>3. CASE e = 2
      <3>1. 8 - 1 - 1 * e = 5 /\ e + 1 = 3 /\ 2 ^ 5 = 32
        BY <2>3
      <3>2. (byte \div 32) % 2 = Nth(numbers, q, 8, 3)
        BY <1>6 DEF x3
      <3> QED BY <1>0, <3>1, <3>2
    <2>4. CASE e = 3
      <3>1. 8 - 1 - 1 * e = 4 /\ e + 1 = 4 /\ 2 ^ 4 = 16
        BY <2>4
      <3>2. (byte \div 16) % 2 = Nth(numbers, q, 8, 4)
        BY <1>6 DEF x4
      <3> QED BY <1>0, <3>1, <3>2
    <2>5. CASE e = 4
      <3>1. 8 - 1 - 1 * e = 3 /\ e + 1 = 5 /\ 2 ^ 3 = 8
        BY <2>5
      <3>2. (byte \div 8) % 2 = Nth(numbers, q, 8, 5)
        BY <1>6 DEF x5
      <3> QED BY <1>0, <3>1, <3>2
    <2>6. CASE e = 5
      <3>1. 8 - 1 - 1 * e = 2 /\ e + 1 = 6 /\ 2 ^ 2 = 4
        BY <2>6
      <3>2. (byte \div 4) % 2 = Nth(numbers, q, 8, 6)
        BY <1>6 DEF x6
      <3> QED BY <1>0, <3>1, <3>2
    <2>7. CASE e = 6
      <3>1. 8 - 1 - 1 * e = 1 /\ e + 1 = 7 /\ 2 ^ 1 = 2
        BY <2>7
      <3>2. (byte \div 2) % 2 = Nth(numbers, q, 8, 7)
        BY <1>6 DEF x7
      <3> QED BY <1>0, <3>1, <3>2
    <2>8. CASE e = 7
      <3>1. 8 - 1 - 1 * e = 0 /\ e + 1 = 8 /\ 2 ^ 0 = 1
        BY <2>8
      <3>2. (byte \div 1) % 2 = Nth(numbers, q, 8, 8)
        BY <1>6 DEF x8
      <3> QED BY <1>0, <3>1, <3>2
    <2> QED BY <2>1, <2>2, <2>3, <2>4, <2>5, <2>6, <2>7, <2>8
  <1> QED BY <1>0, <1>6, <1>7 DEF ByteOf, byte

(* A byte of four numbers. *)
LEMMA Byte2 ==
  ASSUME NEW numbers \in Seq(0 .. 3), NEW q \in Nat \ {0}
  PROVE  ByteOf(PackedByte(numbers, q, 2), numbers, q, 2)
  <1> DEFINE byte == PackedByte(numbers, q, 2)
             x1 == Nth(numbers, q, 4, 1)
             x2 == Nth(numbers, q, 4, 2)
             x3 == Nth(numbers, q, 4, 3)
             x4 == Nth(numbers, q, 4, 4)
  <1>0. 8 \div 2 = 4 /\ 2 ^ 2 = 4
    OBVIOUS
  <1>1. PICK g : byte = g[8 \div 2] /\ g[0] = 0 /\ \A k \in 1 .. 8 \div 2 : g[k] = g[k - 1] * 2 ^ 2 + Nth(numbers, q, 8 \div 2, k)
    <2>1. 2 \in {1, 2, 4, 8}
      OBVIOUS
    <2> HIDE DEF byte
    <2> QED BY <2>1, ByteSteps DEF byte
  <1>2. byte = g[4] /\ g[0] = 0 /\ \A k \in 1 .. 4 : g[k] = g[k - 1] * 4 + Nth(numbers, q, 4, k)
    BY <1>0, <1>1
  <1>3. g[1] = g[0] * 4 + x1 /\ g[2] = g[1] * 4 + x2 /\ g[3] = g[2] * 4 + x3 /\ g[4] = g[3] * 4 + x4
    BY <1>2
  <1>4. x1 \in 0 .. 3 /\ x2 \in 0 .. 3 /\ x3 \in 0 .. 3 /\ x4 \in 0 .. 3
    <2> DEFINE c == 4
    <2>1. c \in Nat \ {0} /\ c - 1 = 3
      OBVIOUS
    <2> HIDE DEF c
    <2>2. numbers \in Seq(0 .. c - 1)
      BY <2>1
    <2>3. ASSUME NEW j \in Nat \ {0} PROVE Nth(numbers, q, 4, j) \in 0 .. 3
      <3> DEFINE n == 4
      <3>1. n \in Nat
        OBVIOUS
      <3> HIDE DEF n
      <3>2. Nth(numbers, q, n, j) \in 0 .. c - 1
        BY <2>1, <2>2, <3>1, NthIn
      <3> QED BY <2>1, <3>2 DEF n
    <2>4. {1, 2, 3, 4, 5, 6, 7, 8} \subseteq Nat \ {0}
      OBVIOUS
    <2> QED BY <2>3, <2>4
  <1> HIDE DEF byte, x1, x2, x3, x4
  <1>5. byte = (((x1) * 4 + x2) * 4 + x3) * 4 + x4
    BY <1>2, <1>3, <1>4
  <1>6. /\ byte \in Nat
        /\ (byte \div 64) % 4 = x1
        /\ (byte \div 16) % 4 = x2
        /\ (byte \div 4) % 4 = x3
        /\ (byte \div 1) % 4 = x4
    BY <1>4, <1>5
  <1>7. ASSUME NEW e \in 0 .. 3 PROVE (byte \div 2 ^ (8 - 2 - 2 * e)) % 2 ^ 2 = Nth(numbers, q, 4, e + 1)
    <2>1. CASE e = 0
      <3>1. 8 - 2 - 2 * e = 6 /\ e + 1 = 1 /\ 2 ^ 6 = 64
        BY <2>1
      <3>2. (byte \div 64) % 4 = Nth(numbers, q, 4, 1)
        BY <1>6 DEF x1
      <3> QED BY <1>0, <3>1, <3>2
    <2>2. CASE e = 1
      <3>1. 8 - 2 - 2 * e = 4 /\ e + 1 = 2 /\ 2 ^ 4 = 16
        BY <2>2
      <3>2. (byte \div 16) % 4 = Nth(numbers, q, 4, 2)
        BY <1>6 DEF x2
      <3> QED BY <1>0, <3>1, <3>2
    <2>3. CASE e = 2
      <3>1. 8 - 2 - 2 * e = 2 /\ e + 1 = 3 /\ 2 ^ 2 = 4
        BY <2>3
      <3>2. (byte \div 4) % 4 = Nth(numbers, q, 4, 3)
        BY <1>6 DEF x3
      <3> QED BY <1>0, <3>1, <3>2
    <2>4. CASE e = 3
      <3>1. 8 - 2 - 2 * e = 0 /\ e + 1 = 4 /\ 2 ^ 0 = 1
        BY <2>4
      <3>2. (byte \div 1) % 4 = Nth(numbers, q, 4, 4)
        BY <1>6 DEF x4
      <3> QED BY <1>0, <3>1, <3>2
    <2> QED BY <2>1, <2>2, <2>3, <2>4
  <1> QED BY <1>0, <1>6, <1>7 DEF ByteOf, byte

(* A byte of two numbers. *)
LEMMA Byte4 ==
  ASSUME NEW numbers \in Seq(0 .. 15), NEW q \in Nat \ {0}
  PROVE  ByteOf(PackedByte(numbers, q, 4), numbers, q, 4)
  <1> DEFINE byte == PackedByte(numbers, q, 4)
             x1 == Nth(numbers, q, 2, 1)
             x2 == Nth(numbers, q, 2, 2)
  <1>0. 8 \div 4 = 2 /\ 2 ^ 4 = 16
    OBVIOUS
  <1>1. PICK g : byte = g[8 \div 4] /\ g[0] = 0 /\ \A k \in 1 .. 8 \div 4 : g[k] = g[k - 1] * 2 ^ 4 + Nth(numbers, q, 8 \div 4, k)
    <2>1. 4 \in {1, 2, 4, 8}
      OBVIOUS
    <2> HIDE DEF byte
    <2> QED BY <2>1, ByteSteps DEF byte
  <1>2. byte = g[2] /\ g[0] = 0 /\ \A k \in 1 .. 2 : g[k] = g[k - 1] * 16 + Nth(numbers, q, 2, k)
    BY <1>0, <1>1
  <1>3. g[1] = g[0] * 16 + x1 /\ g[2] = g[1] * 16 + x2
    BY <1>2
  <1>4. x1 \in 0 .. 15 /\ x2 \in 0 .. 15
    <2> DEFINE c == 16
    <2>1. c \in Nat \ {0} /\ c - 1 = 15
      OBVIOUS
    <2> HIDE DEF c
    <2>2. numbers \in Seq(0 .. c - 1)
      BY <2>1
    <2>3. ASSUME NEW j \in Nat \ {0} PROVE Nth(numbers, q, 2, j) \in 0 .. 15
      <3> DEFINE n == 2
      <3>1. n \in Nat
        OBVIOUS
      <3> HIDE DEF n
      <3>2. Nth(numbers, q, n, j) \in 0 .. c - 1
        BY <2>1, <2>2, <3>1, NthIn
      <3> QED BY <2>1, <3>2 DEF n
    <2>4. {1, 2, 3, 4, 5, 6, 7, 8} \subseteq Nat \ {0}
      OBVIOUS
    <2> QED BY <2>3, <2>4
  <1> HIDE DEF byte, x1, x2
  <1>5. byte = (x1) * 16 + x2
    BY <1>2, <1>3, <1>4
  <1>6. /\ byte \in Nat
        /\ (byte \div 16) % 16 = x1
        /\ (byte \div 1) % 16 = x2
    BY <1>4, <1>5
  <1>7. ASSUME NEW e \in 0 .. 1 PROVE (byte \div 2 ^ (8 - 4 - 4 * e)) % 2 ^ 4 = Nth(numbers, q, 2, e + 1)
    <2>1. CASE e = 0
      <3>1. 8 - 4 - 4 * e = 4 /\ e + 1 = 1 /\ 2 ^ 4 = 16
        BY <2>1
      <3>2. (byte \div 16) % 16 = Nth(numbers, q, 2, 1)
        BY <1>6 DEF x1
      <3> QED BY <1>0, <3>1, <3>2
    <2>2. CASE e = 1
      <3>1. 8 - 4 - 4 * e = 0 /\ e + 1 = 2 /\ 2 ^ 0 = 1
        BY <2>2
      <3>2. (byte \div 1) % 16 = Nth(numbers, q, 2, 2)
        BY <1>6 DEF x2
      <3> QED BY <1>0, <3>1, <3>2
    <2> QED BY <2>1, <2>2
  <1> QED BY <1>0, <1>6, <1>7 DEF ByteOf, byte

(* A byte of one number. *)
LEMMA Byte8 ==
  ASSUME NEW numbers \in Seq(0 .. 255), NEW q \in Nat \ {0}
  PROVE  ByteOf(PackedByte(numbers, q, 8), numbers, q, 8)
  <1> DEFINE byte == PackedByte(numbers, q, 8)
             x1 == Nth(numbers, q, 1, 1)
  <1>0. 8 \div 8 = 1 /\ 2 ^ 8 = 256
    OBVIOUS
  <1>1. PICK g : byte = g[8 \div 8] /\ g[0] = 0 /\ \A k \in 1 .. 8 \div 8 : g[k] = g[k - 1] * 2 ^ 8 + Nth(numbers, q, 8 \div 8, k)
    <2>1. 8 \in {1, 2, 4, 8}
      OBVIOUS
    <2> HIDE DEF byte
    <2> QED BY <2>1, ByteSteps DEF byte
  <1>2. byte = g[1] /\ g[0] = 0 /\ \A k \in 1 .. 1 : g[k] = g[k - 1] * 256 + Nth(numbers, q, 1, k)
    BY <1>0, <1>1
  <1>3. g[1] = g[0] * 256 + x1
    BY <1>2
  <1>4. x1 \in 0 .. 255
    <2> DEFINE c == 256
    <2>1. c \in Nat \ {0} /\ c - 1 = 255
      OBVIOUS
    <2> HIDE DEF c
    <2>2. numbers \in Seq(0 .. c - 1)
      BY <2>1
    <2>3. ASSUME NEW j \in Nat \ {0} PROVE Nth(numbers, q, 1, j) \in 0 .. 255
      <3> DEFINE n == 1
      <3>1. n \in Nat
        OBVIOUS
      <3> HIDE DEF n
      <3>2. Nth(numbers, q, n, j) \in 0 .. c - 1
        BY <2>1, <2>2, <3>1, NthIn
      <3> QED BY <2>1, <3>2 DEF n
    <2>4. {1, 2, 3, 4, 5, 6, 7, 8} \subseteq Nat \ {0}
      OBVIOUS
    <2> QED BY <2>3, <2>4
  <1> HIDE DEF byte, x1
  <1>5. byte = x1
    BY <1>2, <1>3, <1>4
  <1>6. /\ byte \in Nat
        /\ (byte \div 1) % 256 = x1
    BY <1>4, <1>5
  <1>7. ASSUME NEW e \in 0 .. 0 PROVE (byte \div 2 ^ (8 - 8 - 8 * e)) % 2 ^ 8 = Nth(numbers, q, 1, e + 1)
    <2>1. CASE e = 0
      <3>1. 8 - 8 - 8 * e = 0 /\ e + 1 = 1 /\ 2 ^ 0 = 1
        BY <2>1
      <3>2. (byte \div 1) % 256 = Nth(numbers, q, 1, 1)
        BY <1>6 DEF x1
      <3> QED BY <1>0, <3>1, <3>2
    <2> QED BY <2>1
  <1> QED BY <1>0, <1>6, <1>7 DEF ByteOf, byte

(* A packed byte gives back its numbers, for each width the codecs use. *)
LEMMA ByteHas ==
  ASSUME NEW b \in {1, 2, 4, 8}, NEW numbers \in Seq(0 .. 2 ^ b - 1), NEW q \in Nat \ {0}
  PROVE  ByteOf(PackedByte(numbers, q, b), numbers, q, b)
  <1>1. CASE b = 1
    <2>1. numbers \in Seq(0 .. 1)
      <3>1. 2 ^ b - 1 = 1
        BY <1>1
      <3> QED BY <3>1
    <2> QED BY <1>1, <2>1, Byte1
  <1>2. CASE b = 2
    <2>1. numbers \in Seq(0 .. 3)
      <3>1. 2 ^ b - 1 = 3
        BY <1>2
      <3> QED BY <3>1
    <2> QED BY <1>2, <2>1, Byte2
  <1>3. CASE b = 4
    <2>1. numbers \in Seq(0 .. 15)
      <3>1. 2 ^ b - 1 = 15
        BY <1>3
      <3> QED BY <3>1
    <2> QED BY <1>3, <2>1, Byte4
  <1>4. CASE b = 8
    <2>1. numbers \in Seq(0 .. 255)
      <3>1. 2 ^ b - 1 = 255
        BY <1>4
      <3> QED BY <3>1
    <2> QED BY <1>4, <2>1, Byte8
  <1> QED BY <1>1, <1>2, <1>3, <1>4

(* Data starts with a code. *)
Begins(s, code) == Len(code) <= Len(s) /\ \A i \in 1 .. Len(code) : s[i] = code[i]

(* What fits in b bits. *)
Digits(b) == 0 .. 2 ^ b - 1

(* Where a number of b bits is: its byte, and its place in it. *)
InByte(k, b, n, d, e) ==
  /\ n \in Nat \ {0} /\ (k * b) \div 8 = d /\ (k * b) % 8 = b * e
  /\ d \in Nat /\ e \in 0 .. n - 1 /\ k = d * n + e

(* The byte of a number and its place there. *)
LEMMA BitPlace ==
  ASSUME NEW b \in {1, 2, 4, 8}, NEW k \in Nat, NEW n, n = 8 \div b
  PROVE  InByte(k, b, n, k \div n, k % n)
  <1>1. CASE b = 1
    BY <1>1 DEF InByte
  <1>2. CASE b = 2
    BY <1>2 DEF InByte
  <1>3. CASE b = 4
    BY <1>3 DEF InByte
  <1>4. CASE b = 8
    BY <1>4 DEF InByte
  <1> QED BY <1>1, <1>2, <1>3, <1>4

(* The byte of a number is one of its row. *)
LEMMA BitBelow ==
  ASSUME NEW b \in {1, 2, 4, 8}, NEW L \in Nat, NEW k \in 0 .. L - 1
  PROVE  (k * b) \div 8 \in Nat /\ (k * b) \div 8 + 1 \in 1 .. Padded(L * b) /\ Padded(L * b) \in Nat
  <1>1. CASE b = 1
    BY <1>1 DEF Padded
  <1>2. CASE b = 2
    BY <1>2 DEF Padded
  <1>3. CASE b = 4
    BY <1>3 DEF Padded
  <1>4. CASE b = 8
    BY <1>4 DEF Padded
  <1> QED BY <1>1, <1>2, <1>3, <1>4

(* A row takes a whole number of bytes. *)
LEMMA PaddedIn ==
  ASSUME NEW b \in {1, 2, 4, 8}, NEW L \in Nat
  PROVE  Padded(L * b) \in Nat
  <1>1. CASE b = 1
    BY <1>1 DEF Padded
  <1>2. CASE b = 2
    BY <1>2 DEF Padded
  <1>3. CASE b = 4
    BY <1>3 DEF Padded
  <1>4. CASE b = 8
    BY <1>4 DEF Padded
  <1> QED BY <1>1, <1>2, <1>3, <1>4

RowPacked(line, numbers, b, P) ==
  line \in Seq(Nat) /\ Len(line) = P /\ P \in Nat /\ \A q \in 1 .. P : line[q] = PackedByte(numbers, q, b)

(* A packed row, byte by byte. *)
LEMMA PackRowIs ==
  ASSUME NEW b \in {1, 2, 4, 8}, NEW numbers \in Seq(Digits(b))
  PROVE  RowPacked(PackRow(numbers, b), numbers, b, Padded(Len(numbers) * b))
  <1> DEFINE P == Padded(Len(numbers) * b)
  <1>1. P \in Nat
    <2>1. Len(numbers) \in Nat
      OBVIOUS
    <2> QED BY <2>1, PaddedIn
  <1>2. \A q \in 1 .. P : PackedByte(numbers, q, b) \in Nat
    <2> SUFFICES ASSUME NEW q \in 1 .. P PROVE PackedByte(numbers, q, b) \in Nat
      OBVIOUS
    <2>1. q \in Nat \ {0}
      BY <1>1
    <2>2. ByteOf(PackedByte(numbers, q, b), numbers, q, b)
      BY <2>1, ByteHas DEF Digits
    <2> QED BY <2>2 DEF ByteOf
  <1> DEFINE f == [q \in 1 .. P |-> PackedByte(numbers, q, b)]
  <1>3. f \in [1 .. P -> Nat]
    BY <1>2
  <1>4. PackRow(numbers, b) = f
    BY DEF PackRow
  <1>5. f \in Seq(Nat) /\ Len(f) = P
    <2> HIDE DEF f
    <2> QED BY <1>1, <1>3, IsSeqOf
  <1>6. \A q \in 1 .. P : f[q] = PackedByte(numbers, q, b)
    OBVIOUS
  <1> QED BY <1>1, <1>4, <1>5, <1>6 DEF RowPacked

(* A number read back from the bytes of its row. *)
Place(at, q, first, k, b) == at = first + (k * b) \div 8 /\ q = (k * b) \div 8 + 1
ByteThere(bytes, at, numbers, q, b) == at \in 1 .. Len(bytes) /\ bytes[at] = PackedByte(numbers, q, b)

(* bits_reader takes out of a byte the number that was packed there. *)
LEMMA BitsBack ==
  ASSUME NEW b \in {1, 2, 4, 8}, NEW numbers \in Seq(Digits(b)), NEW k \in 0 .. Len(numbers) - 1,
         NEW bytes \in Seq(Nat), NEW first \in Nat, NEW at, NEW q, Place(at, q, first, k, b),
         ByteThere(bytes, at, numbers, q, b)
  PROVE  BitsAt(bytes, first, k, b) = numbers[k + 1]
  <1> DEFINE n == 8 \div b
             d == k \div n
             e == k % n
             byte == PackedByte(numbers, d + 1, b)
  <1>1. k \in Nat /\ Len(numbers) \in Nat
    OBVIOUS
  <1>2. /\ n \in Nat \ {0} /\ (k * b) \div 8 = d /\ (k * b) % 8 = b * e
        /\ d \in Nat /\ e \in 0 .. n - 1 /\ k = d * n + e
    <2>1. n = 8 \div b
      OBVIOUS
    <2> HIDE DEF n
    <2>2. k \in Nat
      BY <1>1
    <2>3. InByte(k, b, n, d, e)
      BY <2>1, <2>2, BitPlace
    <2> QED BY <2>3 DEF InByte
  <1>3. ByteOf(byte, numbers, d + 1, b)
    <2>1. d + 1 \in Nat \ {0}
      BY <1>2
    <2> HIDE DEF d
    <2> QED BY <2>1, ByteHas DEF Digits
  <1>4. (byte \div 2 ^ (8 - b - b * e)) % 2 ^ b = Nth(numbers, d + 1, n, e + 1)
    <2> HIDE DEF byte, d, e
    <2> QED BY <1>2, <1>3 DEF ByteOf
  <1>5. Nth(numbers, d + 1, n, e + 1) = numbers[k + 1]
    <2> HIDE DEF d, e, n
    <2>1. (d + 1 - 1) * n + (e + 1) = k + 1
      <3>1. d + 1 - 1 = d
        BY <1>2
      <3> QED BY <1>2, <3>1
    <2>2. k + 1 <= Len(numbers)
      BY <1>1
    <2> DEFINE i == (d + 1 - 1) * n + (e + 1)
    <2>3. Nth(numbers, d + 1, n, e + 1) = IF i <= Len(numbers) THEN numbers[i] ELSE 0
      BY <1>2 DEF Nth
    <2>4. i = k + 1
      BY <2>1
    <2> HIDE DEF i
    <2> QED BY <2>2, <2>3, <2>4
  <1>6. Sym(bytes, first + (k * b) \div 8) = byte
    <2>1. DOMAIN bytes = 1 .. Len(bytes)
      OBVIOUS
    <2>2. at \in 1 .. Len(bytes) /\ bytes[at] = PackedByte(numbers, q, b)
      BY DEF ByteThere
    <2>3. q = d + 1 /\ at = first + (k * b) \div 8
      BY <1>2 DEF Place
    <2> QED BY <2>1, <2>2, <2>3 DEF Sym
  <1> QED BY <1>2, <1>4, <1>5, <1>6 DEF BitsAt

(* What is as long all along, one after the other. *)
Even(s, n) == \A k \in 1 .. Len(s) : Len(s[k]) = n
Joined(f, S, s, n) ==
  /\ f \in Seq(S) /\ Len(f) = Len(s) * n
  /\ \A k \in 1 .. Len(s) : \A j \in 1 .. n : f[(k - 1) * n + j] = s[k][j]

(* Parts of one length, joined: where each begins. *)
LEMMA JoinEven ==
  ASSUME NEW S, NEW s \in Seq(Seq(S)), NEW n \in Nat, Even(s, n)
  PROVE  Joined(FlattenSeq(s), S, s, n)
  <1>1. \A k \in 1 .. Len(s) : Len(s[k]) = n
    BY DEF Even
  <1>2. /\ FlattenSeq(s) \in Seq(S) /\ Len(FlattenSeq(s)) = Len(s) * n
        /\ \A k \in 1 .. Len(s) : \A j \in 1 .. n : FlattenSeq(s)[(k - 1) * n + j] = s[k][j]
    BY <1>1, FlatEven
  <1> QED BY <1>2 DEF Joined

(* The bytes of a block, row by row. *)
Packs(code, numbers, w, h, b) ==
  /\ code \in Seq(Nat) /\ Len(code) = Padded(w * b) * h /\ Padded(w * b) \in Nat
  /\ \A y \in 1 .. h : \A q \in 1 .. Padded(w * b) :
       code[(y - 1) * Padded(w * b) + q] = PackedByte(RowsOf(numbers, w)[y], q, b)

LineHas(line, S, w, x, v) == line \in Seq(S) /\ Len(line) = w /\ line[x + 1] = v

(* A row of the block has the pixel of the block. *)
LEMMA LineAt ==
  ASSUME NEW S, NEW rows, NEW cells, NEW w \in Nat, NEW h \in Nat, Lines(rows, S, cells, w, h),
         NEW y \in 0 .. h - 1, NEW x \in 0 .. w - 1, NEW line, line = rows[y + 1], NEW v, v = cells[y * w + x + 1]
  PROVE  LineHas(line, S, w, x, v)
  <1>1. y + 1 \in 1 .. h /\ x + 1 \in 1 .. w /\ (y + 1 - 1) * w + (x + 1) = y * w + x + 1
    <2>1. y + 1 - 1 = y /\ y * w \in Nat
      OBVIOUS
    <2> QED BY <2>1
  <1>2. rows[y + 1] \in Seq(S) /\ Len(rows[y + 1]) = w
    BY <1>1 DEF Lines
  <1>3. rows[y + 1][x + 1] = cells[(y + 1 - 1) * w + (x + 1)]
    BY <1>1 DEF Lines
  <1> QED BY <1>1, <1>2, <1>3 DEF LineHas

(* A byte of a packed block is that of its row. *)
LEMMA PackAt ==
  ASSUME NEW code, NEW numbers, NEW w, NEW h \in Nat, NEW b, Packs(code, numbers, w, h, b),
         NEW y \in 0 .. h - 1, NEW P, P = Padded(w * b), NEW q \in 1 .. P
  PROVE  code[y * P + q] = PackedByte(RowsOf(numbers, w)[y + 1], q, b)
  <1>1. y + 1 \in 1 .. h /\ y + 1 - 1 = y
    OBVIOUS
  <1>2. \A z \in 1 .. h : \A k \in 1 .. P : code[(z - 1) * P + k] = PackedByte(RowsOf(numbers, w)[z], k, b)
    BY DEF Packs
  <1>3. code[(y + 1 - 1) * P + q] = PackedByte(RowsOf(numbers, w)[y + 1], q, b)
    BY <1>1, <1>2
  <1> QED BY <1>1, <1>3

(* A packed block is its packed rows, each of the same length. *)
LEMMA PackIs ==
  ASSUME NEW b \in {1, 2, 4, 8}, NEW w \in Nat \ {0}, NEW h \in Nat,
         NEW numbers \in Seq(Digits(b)), Len(numbers) = w * h
  PROVE  Packs(Pack(numbers, w, b), numbers, w, h, b)
  <1> DEFINE P == Padded(w * b)
             rows == RowsOf(numbers, w)
             s == [y \in 1 .. h |-> PackRow(rows[y], b)]
             code == Pack(numbers, w, b)
             S == Digits(b)
  <1>1. rows \in Seq(Seq(S)) /\ Len(rows) = h /\ DOMAIN rows = 1 .. h /\ \A y \in 1 .. h : rows[y] \in Seq(S) /\ Len(rows[y]) = w
    <2> HIDE DEF S
    <2>1. numbers \in Seq(S)
      BY DEF S
    <2>2. Lines(RowsOf(numbers, w), S, numbers, w, h)
      BY <2>1, RowsAre
    <2> QED BY <2>2 DEF Lines
  <1>2. code = FlattenSeq(s)
    <2>1. [y \in DOMAIN rows |-> PackRow(rows[y], b)] = s
      <3> HIDE DEF rows
      <3> QED BY <1>1
    <2>2. code = FlattenSeq([y \in DOMAIN rows |-> PackRow(rows[y], b)])
      BY DEF Pack
    <2> HIDE DEF code, s, rows
    <2> QED BY <2>1, <2>2
  <1>3. P \in Nat
    <2>1. w \in Nat
      OBVIOUS
    <2> QED BY <2>1, PaddedIn
  <1>4. \A y \in 1 .. h : /\ PackRow(rows[y], b) \in Seq(Nat) /\ Len(PackRow(rows[y], b)) = P
                          /\ \A q \in 1 .. P : PackRow(rows[y], b)[q] = PackedByte(rows[y], q, b)
    <2> SUFFICES ASSUME NEW y \in 1 .. h
                 PROVE  /\ PackRow(rows[y], b) \in Seq(Nat) /\ Len(PackRow(rows[y], b)) = P
                        /\ \A q \in 1 .. P : PackRow(rows[y], b)[q] = PackedByte(rows[y], q, b)
      OBVIOUS
    <2> DEFINE line == rows[y]
    <2>1. line \in Seq(Digits(b)) /\ P = Padded(Len(line) * b)
      <3> HIDE DEF rows
      <3> QED BY <1>1
    <2> HIDE DEF P, rows, line
    <2>2. /\ PackRow(line, b) \in Seq(Nat) /\ Len(PackRow(line, b)) = P
          /\ \A q \in 1 .. P : PackRow(line, b)[q] = PackedByte(line, q, b)
      <3>1. RowPacked(PackRow(line, b), line, b, P)
        BY <2>1, PackRowIs
      <3> QED BY <3>1 DEF RowPacked
    <2> QED BY <2>2 DEF line
  <1>5. s \in Seq(Seq(Nat)) /\ Len(s) = h
    <2> DEFINE T == Seq(Nat)
    <2>1. s \in [1 .. h -> T]
      <3> HIDE DEF rows
      <3> QED BY <1>4
    <2> HIDE DEF T, s
    <2>2. s \in Seq(T) /\ Len(s) = h
      BY <2>1, IsSeqOf
    <2> QED BY <2>2 DEF T
  <1>6. \A y \in 1 .. h : s[y] = PackRow(rows[y], b)
    OBVIOUS
  <1> HIDE DEF s, rows, P, code
  <1>7. \A k \in 1 .. Len(s) : Len(s[k]) = P
    BY <1>4, <1>5, <1>6
  <1>8. /\ FlattenSeq(s) \in Seq(Nat) /\ Len(FlattenSeq(s)) = Len(s) * P
        /\ \A k \in 1 .. Len(s) : \A j \in 1 .. P : FlattenSeq(s)[(k - 1) * P + j] = s[k][j]
    <2>1. Even(s, P)
      BY <1>7 DEF Even
    <2>2. Joined(FlattenSeq(s), Nat, s, P)
      BY <1>3, <1>5, <2>1, JoinEven
    <2> QED BY <2>2 DEF Joined
  <1>9. code \in Seq(Nat) /\ Len(code) = P * h
    <2>1. Len(s) * P = P * h
      BY <1>3, <1>5
    <2> QED BY <1>2, <1>8, <2>1
  <1>10. ASSUME NEW y \in 1 .. h, NEW q \in 1 .. P PROVE code[(y - 1) * P + q] = PackedByte(rows[y], q, b)
    <2>1. code[(y - 1) * P + q] = s[y][q]
      BY <1>2, <1>5, <1>8
    <2> QED BY <1>4, <1>6, <2>1
  <1> QED BY <1>3, <1>9, <1>10 DEF Packs, P, rows, code

(* What is packed row by row is unpacked row by row. *)
IsBlock(s, S, w, h, n) == w \in Nat \ {0} /\ h \in Nat /\ s \in Seq(S) /\ Len(s) = w * h /\ n = w * h

(* Reading with a reader for each row gives back the numbers. *)
LEMMA Unpacked ==
  ASSUME NEW b \in {1, 2, 4, 8}, NEW w, NEW h, NEW area, NEW numbers, IsBlock(numbers, Digits(b), w, h, area),
         NEW bytes \in Seq(Nat), NEW packed, packed = Pack(numbers, w, b), Begins(bytes, packed)
  PROVE  PackedRows(bytes, w, area, b) = numbers
  <1> SUFFICES ASSUME w \in Nat \ {0}, h \in Nat, numbers \in Seq(Digits(b)), Len(numbers) = w * h,
                      Begins(bytes, Pack(numbers, w, b))
               PROVE  PackedRows(bytes, w, w * h, b) = numbers
    BY DEF IsBlock
  <1> DEFINE P == Padded(w * b)
             rows == RowsOf(numbers, w)
             code == Pack(numbers, w, b)
             S == Digits(b)
             n == w * h
             F(k) == BitsAt(bytes, 1 + ((k - 1) \div w) * Padded(w * b), (k - 1) % w, b)
  <1>0. n \in Nat
    OBVIOUS
  <1>1. Lines(rows, S, numbers, w, h)
    <2> HIDE DEF S
    <2>1. numbers \in Seq(S)
      BY DEF S
    <2> QED BY <2>1, RowsAre
  <1>2. Packs(code, numbers, w, h, b)
    BY PackIs
  <1>3. ASSUME NEW k \in 1 .. n PROVE F(k) = numbers[k]
    <2> DEFINE y == (k - 1) \div w
               x == (k - 1) % w
               d == (x * b) \div 8
    <2>1. y \in 0 .. h - 1 /\ x \in 0 .. w - 1 /\ k = y * w + x + 1 /\ y \in Nat
      <3>1. k - 1 \in 0 .. w * h - 1 /\ k - 1 \in Nat
        BY <1>0
      <3>2. y \in 0 .. h - 1
        BY <3>1, SplitBelow
      <3>3. x \in 0 .. w - 1 /\ k - 1 = y * w + x /\ y \in Nat
        BY <3>1, Split
      <3> HIDE DEF x, y
      <3> QED BY <3>1, <3>2, <3>3
    <2> HIDE DEF x, y
    <2>2. y + 1 \in 1 .. h
      BY <2>1
    <2> DEFINE line == rows[y + 1]
    <2>3. line \in Seq(S) /\ Len(line) = w /\ line[x + 1] = numbers[k]
      <3> HIDE DEF S, rows
      <3>3. w \in Nat
        OBVIOUS
      <3> DEFINE v == numbers[y * w + x + 1]
      <3>1. line = rows[y + 1] /\ v = numbers[y * w + x + 1]
        OBVIOUS
      <3>2. v = numbers[k]
        BY <2>1
      <3> HIDE DEF line, v
      <3>4. LineHas(line, S, w, x, v)
        BY <1>1, <2>1, <3>1, <3>3, LineAt
      <3> QED BY <3>2, <3>4 DEF LineHas
    <2>4. d \in Nat /\ d + 1 \in 1 .. P /\ P \in Nat
      <3>1. w \in Nat
        OBVIOUS
      <3> QED BY <2>1, <3>1, BitBelow
    <2> HIDE DEF d
    <2>5. code[y * P + (d + 1)] = PackedByte(line, d + 1, b)
      <3> DEFINE q == d + 1
      <3>1. P = Padded(w * b) /\ q \in 1 .. P
        BY <2>4
      <3> HIDE DEF P, q, code
      <3>2. code[y * P + q] = PackedByte(RowsOf(numbers, w)[y + 1], q, b)
        BY <1>2, <2>1, <3>1, PackAt
      <3> QED BY <3>2 DEF q
    <2>6. y * P + (d + 1) \in 1 .. Len(code)
      <3>1. Len(code) = P * h
        BY <1>2 DEF Packs
      <3>2. d \in 0 .. P - 1
        BY <2>4
      <3> HIDE DEF P, code
      <3>3. y * P + d \in 0 .. P * h - 1
        <4>1. P \in Nat /\ h \in Nat
          BY <2>4
        <4> QED BY <4>1, <2>1, <3>2, CellOffset
      <3>4. y * P \in Nat /\ P * h \in Nat
        BY <2>1, <2>4
      <3> QED BY <3>1, <3>2, <3>3, <3>4
    <2> DEFINE first == 1 + y * P
    <2>7. first + d = y * P + (d + 1) /\ first \in Nat
      <3> DEFINE c == y * P
      <3>1. c \in Nat
        BY <2>1, <2>4
      <3>2. d \in Int
        BY <2>4
      <3>4. first = 1 + c
        OBVIOUS
      <3> HIDE DEF P, c, first
      <3>3. (1 + c) + d = c + (d + 1) /\ 1 + c \in Nat
        BY <3>1, <3>2
      <3> QED BY <3>3, <3>4 DEF c
    <2>8. first + d \in 1 .. Len(bytes) /\ bytes[first + d] = PackedByte(line, d + 1, b)
      <3> HIDE DEF first, P, line, code
      <3>1. Len(code) <= Len(bytes) /\ (\A i \in 1 .. Len(code) : bytes[i] = code[i]) /\ Len(code) \in Nat /\ Len(bytes) \in Nat
        BY <1>2 DEF Begins, code, Packs
      <3> QED BY <2>5, <2>6, <2>7, <3>1
    <2>9. BitsAt(bytes, first, x, b) = line[x + 1]
      <3>1. x \in 0 .. Len(line) - 1
        BY <2>1, <2>3
      <3>2. line \in Seq(Digits(b))
        BY <2>3
      <3> DEFINE at == first + d
                 q == d + 1
      <3>3. ByteThere(bytes, at, line, q, b)
        BY <2>8 DEF ByteThere
      <3>4. Place(at, q, first, x, b)
        BY DEF d, Place
      <3> HIDE DEF first, line, at, q, F, P, code, rows, S, n
      <3> QED BY <2>7, <3>1, <3>2, <3>3, <3>4, BitsBack
    <2> QED BY <2>3, <2>9 DEF y, x
  <1>4. PackedRows(bytes, w, n, b) = [k \in 1 .. n |-> F(k)]
    BY DEF PackedRows
  <1>5. numbers = [k \in 1 .. n |-> numbers[k]]
    OBVIOUS
  <1> HIDE DEF F
  <1> QED BY <1>3, <1>4, <1>5

-----------------------------------------------------------------------------
(* zrle: runs, and the loops that take them. *)

(* Data starts with two codes. *)
BeginsBoth(data0, S, u, v) ==
  /\ Begins(data0, u) /\ Len(u) <= Len(data0) /\ Len(u) \in Nat
  /\ Drop(data0, Len(u)) \in Seq(S) /\ Begins(Drop(data0, Len(u)), v)
  /\ Len(u \o v) = Len(u) + Len(v) /\ u \o v \in Seq(S)

(* Data that begins with two pieces begins with the first, and goes on with
   the second. *)
LEMMA BeginsJoin ==
  ASSUME NEW S, NEW u \in Seq(S), NEW v \in Seq(S), NEW data0 \in Seq(S), NEW c, c = u \o v, Begins(data0, c)
  PROVE  BeginsBoth(data0, S, u, v)
  <1> DEFINE m == Len(u)
             n == Len(v)
             d == Drop(data0, m)
  <1>1. /\ c \in Seq(S) /\ Len(c) = m + n /\ m \in Nat /\ n \in Nat
        /\ (\A i \in 1 .. m : c[i] = u[i]) /\ (\A i \in 1 .. n : c[m + i] = v[i])
    BY JoinIs
  <1>2. Len(c) <= Len(data0) /\ (\A i \in 1 .. Len(c) : data0[i] = c[i]) /\ Len(data0) \in Nat
    BY DEF Begins
  <1> HIDE DEF m, n, d
  <1>3. m <= Len(data0)
    BY <1>1, <1>2
  <1>4. d \in Seq(S) /\ Len(d) = Len(data0) - m /\ \A i \in 1 .. Len(data0) - m : d[i] = data0[m + i]
    BY <1>1, <1>3, DropIs DEF d
  <1>5. \A i \in 1 .. m : data0[i] = u[i]
    BY <1>1, <1>2
  <1>6. n <= Len(d)
    BY <1>1, <1>2, <1>4
  <1>7. ASSUME NEW i \in 1 .. n PROVE d[i] = v[i]
    <2>1. m + i \in 1 .. Len(c) /\ i \in 1 .. Len(data0) - m
      BY <1>1, <1>2
    <2> QED BY <2>1, <1>1, <1>2, <1>4
  <1> QED BY <1>1, <1>3, <1>4, <1>5, <1>6, <1>7 DEF Begins, BeginsBoth, m, n, d

(* A piece of a code is there where the pieces before it end. *)
PieceThere(data0, s, E, k) ==
  /\ E[k - 1] \in Nat /\ E[k] \in Nat /\ E[k - 1] <= Len(data0) /\ E[k] = E[k - 1] + Len(s[k]) /\ E[k] <= Len(data0)
  /\ Begins(Drop(data0, E[k - 1]), s[k]) /\ Drop(data0, E[k - 1]) \in Seq(Nat)
  /\ Drop(Drop(data0, E[k - 1]), Len(s[k])) = Drop(data0, E[k])

(* Each piece of the data is found where the ones before it end. *)
LEMMA PieceAt ==
  ASSUME NEW s \in Seq(Seq(Nat)), NEW f, NEW E, Flat(s, f, E), NEW data0 \in Seq(Nat), Begins(data0, f), NEW k \in 1 .. Len(s)
  PROVE  PieceThere(data0, s, E, k)
  <1> DEFINE m == E[k - 1]
             p == s[k]
             d == Drop(data0, m)
             N == Len(s)
  <1>1. E \in [0 .. N -> Nat] /\ N \in Nat /\ Len(f) = E[N] /\ k \in 1 .. N /\ k - 1 \in 0 .. N /\ k \in 0 .. N /\ N \in 0 .. N
    BY DEF Flat
  <1>2. E[k] = m + Len(p)
    BY DEF Flat
  <1>3. E[k] <= E[N]
    <2>1. \A a, b \in 0 .. N : a <= b => E[a] <= E[b]
      BY DEF Flat
    <2> QED BY <1>1, <2>1
  <1>4. m \in Nat /\ E[k] \in Nat /\ E[N] \in Nat /\ p \in Seq(Nat) /\ Len(p) \in Nat
    <2>1. m \in Nat
      BY <1>1
    <2>2. E[k] \in Nat
      BY <1>1
    <2>3. E[N] \in Nat
      BY <1>1
    <2>4. p \in Seq(Nat)
      OBVIOUS
    <2>5. Len(p) \in Nat
      BY <2>4
    <2> QED BY <2>1, <2>2, <2>3, <2>4, <2>5
  <1>5. E[N] <= Len(data0) /\ (\A i \in 1 .. E[N] : data0[i] = f[i]) /\ Len(data0) \in Nat
    BY <1>1 DEF Begins
  <1>6. \A j \in 1 .. Len(p) : f[m + j] = p[j]
    BY DEF Flat
  <1>7. E[k] \in Nat /\ m <= Len(data0) /\ E[k] <= Len(data0)
    <2> HIDE DEF m, p, N
    <2> QED BY <1>2, <1>3, <1>4, <1>5
  <1> HIDE DEF m, p, N
  <1>8. d \in Seq(Nat) /\ Len(d) = Len(data0) - m /\ \A i \in 1 .. Len(data0) - m : d[i] = data0[m + i]
    BY <1>4, <1>7, DropIs
  <1>9. Drop(d, Len(p)) = Drop(data0, E[k])
    <2>1. Len(p) \in Nat /\ m + Len(p) <= Len(data0)
      BY <1>2, <1>4, <1>7
    <2>2. Drop(Drop(data0, m), Len(p)) = Drop(data0, m + Len(p))
      BY <1>4, <2>1, DropDrop
    <2> QED BY <1>2, <2>2
  <1> HIDE DEF d
  <1>10. Begins(d, p)
    <2>1. Len(p) <= Len(d)
      BY <1>2, <1>4, <1>7, <1>8
    <2>2. ASSUME NEW i \in 1 .. Len(p) PROVE d[i] = p[i]
      <3>1. i \in 1 .. Len(data0) - m /\ m + i \in 1 .. E[N]
        <4> DEFINE a == E[k]
                   b == E[N]
                   q == Len(p)
                   L == Len(data0)
        <4>1. a = m + q /\ a <= b /\ m \in Nat /\ a \in Nat /\ b \in Nat /\ q \in Nat /\ L \in Nat /\ b <= L
          BY <1>2, <1>3, <1>4, <1>5
        <4>2. i \in 1 .. q
          OBVIOUS
        <4> HIDE DEF a, b, q, L
        <4>3. i \in 1 .. L - m /\ m + i \in 1 .. b
          BY <4>1, <4>2
        <4> QED BY <4>3 DEF L, b
      <3> QED BY <3>1, <1>5, <1>6, <1>8
    <2> QED BY <2>1, <2>2 DEF Begins
  <1> QED BY <1>2, <1>4, <1>7, <1>8, <1>9, <1>10 DEF PieceThere, m, p, d

(* The first so many, and then as many of one colour. *)
Repeated(c, n) == [i \in 1 .. n |-> c]
Stretch(out, from, n, c) == \A i \in 1 .. n : out[from + i] = c

(* A prefix and the stretch after it are a longer prefix. *)
LEMMA PrefixGrows ==
  ASSUME NEW out \in Seq(Nat), NEW from \in Nat, NEW n \in Nat, from + n <= Len(out),
         NEW c, Stretch(out, from, n, c)
  PROVE  SubSeq(out, 1, from) \o Repeated(c, n) = SubSeq(out, 1, from + n)
  <1> DEFINE u == SubSeq(out, 1, from)
             k == [i \in 1 .. n |-> c]
             z == SubSeq(out, 1, from + n)
  <1>1. u \in Seq(Nat) /\ Len(u) = from /\ \A i \in 1 .. from : u[i] = out[i]
    OBVIOUS
  <1>2. z \in Seq(Nat) /\ Len(z) = from + n /\ \A i \in 1 .. from + n : z[i] = out[i]
    OBVIOUS
  <1>3. k \in Seq(Nat) /\ Len(k) = n /\ \A i \in 1 .. n : k[i] = c
    <2>1. k \in [1 .. n -> Nat]
      <3>1. \A i \in 1 .. n : c \in Nat
        <4> SUFFICES ASSUME NEW i \in 1 .. n PROVE c \in Nat
          OBVIOUS
        <4>1. from + i \in 1 .. Len(out)
          OBVIOUS
        <4>2. out[from + i] = c
          BY DEF Stretch
        <4>3. out[from + i] \in Nat
          BY <4>1
        <4> QED BY <4>2, <4>3
      <3> QED BY <3>1
    <2>2. \A i \in 1 .. n : k[i] = c
      OBVIOUS
    <2> HIDE DEF k
    <2> QED BY <2>1, <2>2, IsSeqOf
  <1> HIDE DEF u, k, z
  <1> DEFINE x == u \o k
  <1>4. /\ x \in Seq(Nat) /\ Len(x) = from + n
        /\ (\A i \in 1 .. from : x[i] = u[i]) /\ (\A i \in 1 .. n : x[from + i] = k[i])
    <2>1. /\ u \o k \in Seq(Nat) /\ Len(u \o k) = Len(u) + Len(k)
          /\ (\A i \in 1 .. Len(u) : (u \o k)[i] = u[i]) /\ (\A i \in 1 .. Len(k) : (u \o k)[Len(u) + i] = k[i])
      <3>1. u \in Seq(Nat) /\ k \in Seq(Nat)
        BY <1>1, <1>3
      <3> QED BY <3>1, JoinIs
    <2> QED BY <1>1, <1>3, <2>1
  <1> HIDE DEF x
  <1>5. ASSUME NEW i \in 1 .. from + n PROVE x[i] = z[i]
    <2>1. CASE i <= from
      <3>1. i \in 1 .. from
        BY <2>1
      <3> QED BY <3>1, <1>1, <1>2, <1>4
    <2>2. CASE i > from
      <3> DEFINE j == i - from
      <3>1. j \in 1 .. n /\ i = from + j
        BY <2>2
      <3> HIDE DEF j
      <3>2. x[from + j] = k[j] /\ k[j] = c
        BY <3>1, <1>3, <1>4
      <3>3. z[from + j] = out[from + j]
        BY <3>1, <1>2
      <3>4. out[from + j] = c
        BY <3>1 DEF Stretch
      <3> QED BY <3>1, <3>2, <3>3, <3>4
    <2> QED BY <2>1, <2>2
  <1>6. Len(x) = Len(z) /\ x \in Seq(Nat)
    BY <1>2, <1>4
  <1>7. x = z
    BY <1>2, <1>5, <1>6
  <1> QED BY <1>7, Zenon DEF x, u, k, z, Repeated

(* A length of a run: q bytes that another follows, and one that none does. *)
LengthCode(s, n, q) ==
  /\ s \in Seq(Nat) /\ q \in Nat /\ Len(s) = q + 1
  /\ \A i \in 1 .. q : s[i] = Full
  /\ s[q + 1] \in Nat /\ s[q + 1] # Full /\ n = 1 + q * Full + s[q + 1]

(* RunBytes codes a length: full bytes and one that is not. *)
LEMMA RunBytesAre ==
  ASSUME NEW n \in Nat \ {0}
  PROVE  \E q : LengthCode(RunBytes(n), n, q)
  <1> DEFINE q == (n - 1) \div Full
             e == (n - 1) % Full
             u == [i \in 1 .. q |-> Full]
             v == <<e>>
             s == u \o v
  <1>1. Full \in Nat \ {0} /\ n - 1 \in Nat
    BY PixelsAssumption
  <1>2. q \in Nat /\ e \in 0 .. Full - 1 /\ n - 1 = q * Full + e
    BY <1>1, Split
  <1>3. RunBytes(n) = s
    BY DEF RunBytes
  <1> HIDE DEF q, e
  <1>4. u \in Seq(Nat) /\ Len(u) = q /\ \A i \in 1 .. q : u[i] = Full
    <2>1. u \in [1 .. q -> Nat] /\ \A i \in 1 .. q : u[i] = Full
      BY <1>1
    <2> HIDE DEF u
    <2> QED BY <2>1, <1>2, IsSeqOf
  <1>5. v \in Seq(Nat) /\ Len(v) = 1 /\ v[1] = e
    BY <1>1, <1>2
  <1> HIDE DEF u, v
  <1>6. /\ s \in Seq(Nat) /\ Len(s) = q + 1 /\ (\A i \in 1 .. q : s[i] = u[i]) /\ s[q + 1] = v[1]
    <2>1. u \in Seq(Nat) /\ v \in Seq(Nat)
      BY <1>4, <1>5
    <2>2. /\ s \in Seq(Nat) /\ Len(s) = Len(u) + Len(v)
          /\ (\A i \in 1 .. Len(u) : s[i] = u[i]) /\ (\A i \in 1 .. Len(v) : s[Len(u) + i] = v[i])
      BY <2>1, JoinIs
    <2>3. 1 \in 1 .. Len(v)
      BY <1>5
    <2>4. s[Len(u) + 1] = v[1]
      BY <2>2, <2>3
    <2> HIDE DEF s
    <2> QED BY <1>4, <1>5, <2>2, <2>4
  <1> HIDE DEF s
  <1>7. n = 1 + q * Full + e
    <2>1. q * Full \in Nat
      BY <1>1, <1>2
    <2> QED BY <1>1, <1>2, <2>1
  <1>8. LengthCode(s, n, q)
    BY <1>1, <1>2, <1>4, <1>5, <1>6, <1>7 DEF LengthCode
  <1> QED BY <1>3, <1>8

(* The reader finds the last byte of a length. *)
LEMMA LengthEndsAt ==
  ASSUME NEW s, NEW n, NEW q, LengthCode(s, n, q), NEW data0 \in Seq(Nat), Begins(data0, s)
  PROVE  LengthEnds(data0) = q + 1 /\ Sym(data0, q + 1) = s[q + 1] /\ q \in Nat /\ q + 1 <= Len(data0)
  <1> DEFINE L == Len(data0)
             T == {i \in DOMAIN data0 : data0[i] # Full} \cup {L + 1}
  <1>1. DOMAIN data0 = 1 .. L /\ L \in Nat
    OBVIOUS
  <1>2. q \in Nat /\ Len(s) = q + 1 /\ (\A i \in 1 .. q : s[i] = Full) /\ s[q + 1] # Full
    BY DEF LengthCode
  <1>3. q + 1 <= L /\ \A i \in 1 .. q + 1 : data0[i] = s[i]
    BY <1>2 DEF Begins
  <1> HIDE DEF L
  <1>4. q + 1 \in 1 .. L /\ data0[q + 1] = s[q + 1]
    BY <1>1, <1>2, <1>3
  <1>5. q + 1 \in T
    BY <1>1, <1>2, <1>4
  <1>6. T \subseteq Nat
    BY <1>1
  <1>7. ASSUME NEW y \in T PROVE y >= q + 1
    <2>1. CASE y \in 1 .. q
      <3>1. y \in 1 .. q + 1 /\ s[y] = Full /\ y # L + 1
        BY <1>1, <1>2, <1>3, <2>1
      <3>2. data0[y] = Full
        BY <1>3, <3>1
      <3> QED BY <3>1, <3>2
    <2>2. CASE y \notin 1 .. q
      <3>1. y \in 1 .. L + 1
        BY <1>1
      <3> QED BY <1>2, <2>2, <3>1
    <2> QED BY <2>1, <2>2
  <1>8. LengthEnds(data0) = Min(T)
    BY DEF LengthEnds, L
  <1> HIDE DEF T
  <1>9. Min(T) \in T /\ \A y \in T : Min(T) <= y
    BY <1>5, <1>6, LeastOf
  <1>10. Min(T) = q + 1
    <2>1. Min(T) <= q + 1 /\ Min(T) >= q + 1 /\ Min(T) \in Nat
      BY <1>5, <1>6, <1>7, <1>9
    <2> QED BY <2>1, <1>2
  <1>11. Sym(data0, q + 1) = s[q + 1]
    BY <1>1, <1>4 DEF Sym
  <1> QED BY <1>2, <1>3, <1>8, <1>10, <1>11 DEF L

(* What a turn starts from and leaves. *)
Taken(cells, in) == [cells |-> cells, in |-> in]
LongCode(code, f, len) == code = <<f>> \o RunBytes(len)
Coloring(f, n, palette) == IF n = 0 THEN f ELSE palette[f % 128]

(* A turn of the loop takes a run with a length. *)
LEMMA LongTurn ==
  ASSUME NEW pre \in Seq(Nat), NEW in \in Seq(Nat), NEW f \in Nat, NEW len \in Nat \ {0},
         NEW code, LongCode(code, f, len), Begins(in, code),
         NEW n \in Nat, n = 0 \/ f >= 128, NEW palette, NEW area \in Nat, Len(pre) + len <= area
  PROVE  TakeRun(Taken(pre, in), n, palette, area) = Taken(pre \o Repeated(Coloring(f, n, palette), len), Drop(in, Len(code)))
  <1> DEFINE u == <<f>>
             v == RunBytes(len)
             d == Drop(in, 1)
  <1>1. PICK q : LengthCode(v, len, q)
    BY RunBytesAre
  <1>2. u \in Seq(Nat) /\ Len(u) = 1 /\ u[1] = f
    OBVIOUS
  <1>3. v \in Seq(Nat) /\ q \in Nat /\ Len(v) = q + 1 /\ v[q + 1] \in Nat /\ len = 1 + q * Full + v[q + 1]
    BY <1>1 DEF LengthCode
  <1> HIDE DEF u, v
  <1>4. /\ Begins(in, u) /\ Len(u) <= Len(in) /\ Drop(in, Len(u)) \in Seq(Nat) /\ Begins(Drop(in, Len(u)), v)
        /\ Len(code) = Len(u) + Len(v)
    <2>1. code = u \o v
      BY DEF u, v, LongCode
    <2>2. u \in Seq(Nat) /\ v \in Seq(Nat) /\ in \in Seq(Nat) /\ Begins(in, code)
      BY <1>2, <1>3
    <2>3. BeginsBoth(in, Nat, u, v)
      BY <2>1, <2>2, BeginsJoin
    <2> QED BY <2>1, <2>3 DEF BeginsBoth
  <1>5. d \in Seq(Nat) /\ Begins(d, v) /\ Len(code) = q + 2 /\ Sym(in, 1) = f /\ Len(in) >= 1 /\ Len(d) = Len(in) - 1
    <2>1. Len(u) = 1 /\ \A i \in 1 .. 1 : in[i] = u[i]
      BY <1>2, <1>4 DEF Begins
    <2>2. in[1] = f
      BY <1>2, <2>1
    <2>3. 1 \in DOMAIN in
      BY <1>2, <1>4
    <2>4. Len(code) = q + 2
      BY <1>3, <1>4, <2>1
    <2>5. d \in Seq(Nat) /\ Begins(d, v)
      BY <1>4, <2>1
    <2>6. Len(in) >= 1 /\ Len(in) \in Nat
      BY <2>3
    <2>7. Len(d) = Len(in) - 1
      <3>1. 1 \in Nat /\ 1 <= Len(in)
        BY <2>6
      <3> QED BY <3>1, DropIs
    <2> QED BY <2>2, <2>3, <2>4, <2>5, <2>6, <2>7 DEF Sym
  <1>6. LengthEnds(d) = q + 1 /\ Sym(d, q + 1) = v[q + 1] /\ q + 1 <= Len(d)
    BY <1>1, <1>5, LengthEndsAt
  <1>7. Sym(in, q + 2) = v[q + 1]
    <2>1. \A i \in 1 .. Len(in) - 1 : d[i] = in[1 + i]
      <3>1. 1 \in Nat /\ 1 <= Len(in)
        BY <1>5
      <3> QED BY <3>1, DropIs
    <2>2. q + 1 \in 1 .. Len(in) - 1 /\ q + 1 \in DOMAIN d /\ q + 2 \in DOMAIN in
      <3> DEFINE L == Len(in)
      <3>1. DOMAIN d = 1 .. L - 1 /\ DOMAIN in = 1 .. L /\ L \in Nat
        BY <1>5
      <3>2. q + 1 <= L - 1
        BY <1>5, <1>6
      <3> HIDE DEF L, d
      <3>3. q + 1 \in 1 .. L - 1 /\ q + 2 \in 1 .. L
        <4>1. q \in Nat
          BY <1>3
        <4> QED BY <4>1, <3>1, <3>2
      <3> QED BY <3>1, <3>3 DEF L
    <2>3. d[q + 1] = in[1 + (q + 1)]
      BY <2>1, <2>2
    <2>4. 1 + (q + 1) = q + 2
      BY <1>3
    <2> QED BY <1>6, <2>2, <2>3, <2>4 DEF Sym
  <1> DEFINE t == Taken(pre, in)
             ends == q + 1
             length == 1 + (ends - 1) * Full + Sym(in, 1 + ends)
             left == area - Len(pre)
  <1>8. t.cells = pre /\ t.in = in
    BY DEF Taken
  <1>9. length = len
    <2>1. Full \in Nat
      BY PixelsAssumption
    <2>2. q + 1 - 1 = q /\ 1 + (q + 1) = q + 2
      BY <1>3
    <2> QED BY <1>3, <1>7, <2>2
  <1>10. (IF length < left THEN length ELSE left) = len /\ Len(pre) # area
    <2> DEFINE L == Len(pre)
    <2>1. L \in Nat /\ L + len <= area /\ left = area - L
      OBVIOUS
    <2> HIDE DEF length, left, L
    <2>2. (IF length < left THEN length ELSE left) = len /\ L # area
      BY <1>9, <2>1
    <2> QED BY <2>2 DEF L
  <1>11. TakeRun(t, n, palette, area) =
           [cells |-> pre \o [i \in 1 .. (IF length < left THEN length ELSE left) |-> IF n = 0 THEN f ELSE palette[f % 128]],
            in |-> Drop(in, 1 + ends)]
    <2> HIDE DEF t, d, ends
    <2> DEFINE long == n = 0 \/ f >= 128
    <2>1. long
      OBVIOUS
    <2>2. TakeRun(t, n, palette, area) =
           [cells |-> pre \o [i \in 1 .. (IF (IF long THEN 1 + (LengthEnds(Drop(in, 1)) - 1) * Full + Sym(in, 1 + LengthEnds(Drop(in, 1))) ELSE 1) < left
                                      THEN (IF long THEN 1 + (LengthEnds(Drop(in, 1)) - 1) * Full + Sym(in, 1 + LengthEnds(Drop(in, 1))) ELSE 1)
                                      ELSE left) |-> IF n = 0 THEN f ELSE palette[f % 128]],
            in |-> Drop(in, IF long THEN 1 + LengthEnds(Drop(in, 1)) ELSE 1)]
      BY <1>5, <1>8, <1>10, Zenon DEF TakeRun
    <2> DEFINE X == IF long THEN 1 + (LengthEnds(Drop(in, 1)) - 1) * Full + Sym(in, 1 + LengthEnds(Drop(in, 1))) ELSE 1
               Y == IF long THEN 1 + LengthEnds(Drop(in, 1)) ELSE 1
    <2> HIDE DEF long, left
    <2>3. LengthEnds(Drop(in, 1)) = ends
      BY <1>6 DEF d, ends
    <2>4. X = length
      <3> DEFINE G(z) == 1 + (z - 1) * Full + Sym(in, 1 + z)
      <3>1. X = G(LengthEnds(Drop(in, 1)))
        BY <2>1
      <3>2. length = G(ends)
        OBVIOUS
      <3> HIDE DEF G, X, length
      <3> QED BY <2>3, <3>1, <3>2
    <2>5. Y = 1 + ends
      BY <2>1, <2>3
    <2>6. TakeRun(t, n, palette, area) =
           [cells |-> pre \o [i \in 1 .. (IF X < left THEN X ELSE left) |-> IF n = 0 THEN f ELSE palette[f % 128]],
            in |-> Drop(in, Y)]
      BY <2>2, Zenon
    <2> HIDE DEF X, Y, length
    <2> QED BY <2>4, <2>5, <2>6, Zenon
  <1>12. 1 + ends = Len(code)
    <2>1. Len(code) = q + 2 /\ q \in Nat
      BY <1>3, <1>5
    <2> DEFINE L == Len(code)
    <2> HIDE DEF L
    <2>2. 1 + (q + 1) = L
      BY <2>1 DEF L
    <2> QED BY <2>2 DEF L
  <1> HIDE DEF length, left, t, ends
  <1>13. TakeRun(t, n, palette, area) = [cells |-> pre \o [i \in 1 .. len |-> IF n = 0 THEN f ELSE palette[f % 128]], in |-> Drop(in, Len(code))]
    BY <1>10, <1>11, <1>12, Zenon
  <1>14. Taken(pre \o Repeated(Coloring(f, n, palette), len), Drop(in, Len(code)))
           = [cells |-> pre \o [i \in 1 .. len |-> IF n = 0 THEN f ELSE palette[f % 128]], in |-> Drop(in, Len(code))]
    BY Zenon DEF Taken, Repeated, Coloring
  <1> QED BY <1>13, <1>14, Zenon DEF t

ShortCode(code, f) == code = <<f>>

(* A turn of the loop takes a single pixel. *)
LEMMA ShortTurn ==
  ASSUME NEW pre \in Seq(Nat), NEW in \in Seq(Nat), NEW f \in Nat, f < 128, NEW code, ShortCode(code, f), Begins(in, code),
         NEW n \in Nat \ {0}, NEW palette, NEW area \in Nat, Len(pre) + 1 <= area
  PROVE  TakeRun(Taken(pre, in), n, palette, area) = Taken(pre \o Repeated(Coloring(f, n, palette), 1), Drop(in, Len(code)))
  <1> DEFINE t == Taken(pre, in)
             left == area - Len(pre)
             long == n = 0 \/ f >= 128
  <1>1. code \in Seq(Nat) /\ Len(code) = 1 /\ code[1] = f
    BY DEF ShortCode
  <1>2. Sym(in, 1) = f
    <2>1. 1 <= Len(in) /\ in[1] = f
      <3>1. 1 \in 1 .. Len(code)
        BY <1>1
      <3> QED BY <1>1, <3>1 DEF Begins
    <2>2. 1 \in DOMAIN in
      BY <2>1
    <2> QED BY <2>1, <2>2 DEF Sym
  <1>3. t.cells = pre /\ t.in = in
    BY DEF Taken
  <1>4. ~long
    OBVIOUS
  <1>5. (IF 1 < left THEN 1 ELSE left) = 1 /\ Len(pre) # area
    <2> DEFINE L == Len(pre)
    <2>1. L \in Nat /\ L + 1 <= area /\ left = area - L
      OBVIOUS
    <2> HIDE DEF left, L
    <2>2. (IF 1 < left THEN 1 ELSE left) = 1 /\ L # area
      BY <2>1
    <2> QED BY <2>2 DEF L
  <1> DEFINE X == IF long THEN 1 + (LengthEnds(Drop(in, 1)) - 1) * Full + Sym(in, 1 + LengthEnds(Drop(in, 1))) ELSE 1
             Y == IF long THEN 1 + LengthEnds(Drop(in, 1)) ELSE 1
  <1>6. TakeRun(t, n, palette, area) =
         [cells |-> pre \o [i \in 1 .. (IF X < left THEN X ELSE left) |-> IF n = 0 THEN f ELSE palette[f % 128]],
          in |-> Drop(in, Y)]
    <2> HIDE DEF t
    <2> QED BY <1>2, <1>3, <1>5, Zenon DEF TakeRun
  <1>7. X = 1 /\ Y = 1
    <2> HIDE DEF long
    <2> QED BY <1>4
  <1> HIDE DEF X, Y, t, left
  <1>8. TakeRun(t, n, palette, area) = [cells |-> pre \o [i \in 1 .. 1 |-> IF n = 0 THEN f ELSE palette[f % 128]], in |-> Drop(in, 1)]
    BY <1>5, <1>6, <1>7, Zenon
  <1>9. Taken(pre \o Repeated(Coloring(f, n, palette), 1), Drop(in, 1))
          = [cells |-> pre \o [i \in 1 .. 1 |-> IF n = 0 THEN f ELSE palette[f % 128]], in |-> Drop(in, 1)]
    BY Zenon DEF Taken, Repeated, Coloring
  <1> QED BY <1>1, <1>8, <1>9, Zenon DEF t

(* A piece is one turn, which adds the pixels of its run. *)
Turns(piece, run, out, n, palette, area) ==
  \A data0 \in Seq(Nat) : Begins(data0, piece) =>
    TakeRun(Taken(SubSeq(out, 1, run.from), data0), n, palette, area)
      = Taken(SubSeq(out, 1, End(run)), Drop(data0, Len(piece)))

AllTurn(pieces, runs, out, n, palette, area) ==
  \A k \in 1 .. Len(runs) : Turns(pieces[k], runs[k], out, n, palette, area)

Turning(pieces, runs, out, n, palette, area) ==
  pieces \in Seq(Seq(Nat)) /\ Len(pieces) = Len(runs) /\ AllTurn(pieces, runs, out, n, palette, area)

(* TakeRuns, turn by turn. *)
LEMMA TurnSteps ==
  ASSUME NEW in, NEW np, NEW palette, NEW area \in Nat
  PROVE  \E g : /\ TakeRuns(in, np, palette, area) = g[area] /\ g[0] = Taken(<<>>, in)
                /\ \A k \in 1 .. area : g[k] = TakeRun(g[k - 1], np, palette, area)
  <1> DEFINE N == area
             Step(k, d) == TakeRun(d, np, palette, area)
             base == Taken(<<>>, in)
             Eq(g, n) == g = [k \in 0 .. n |-> IF k = 0 THEN base ELSE Step(k, g[k - 1])]
             g == CHOOSE g : Eq(g, N)
             T == {n \in Nat : \E f : Eq(f, n)}
  <1>1. TakeRuns(in, np, palette, area) = g[N]
    BY DEF TakeRuns, Taken
  <1>2. N \in Nat
    OBVIOUS
  <1> HIDE DEF Step, base, N
  <1>3. 0 \in T
    <2> DEFINE f == [k \in 0 .. 0 |-> base]
    <2>1. Eq(f, 0)
      OBVIOUS
    <2> HIDE DEF f, Eq
    <2> QED BY <2>1
  <1>4. ASSUME NEW n \in Nat, n \in T PROVE n + 1 \in T
    <2>1. PICK f : Eq(f, n)
      BY <1>4
    <2> DEFINE h == [k \in 0 .. n + 1 |-> IF k = n + 1 THEN Step(k, f[n]) ELSE f[k]]
    <2>2. \A k \in 0 .. n + 1 : h[k] = IF k = 0 THEN base ELSE Step(k, h[k - 1])
      <3> SUFFICES ASSUME NEW k \in 0 .. n + 1 PROVE h[k] = IF k = 0 THEN base ELSE Step(k, h[k - 1])
        OBVIOUS
      <3>1. CASE k = n + 1
        <4>1. k # 0 /\ k - 1 = n /\ h[k] = Step(k, f[n]) /\ h[n] = f[n]
          BY <3>1
        <4> HIDE DEF h
        <4> QED BY <4>1
      <3>2. CASE k # n + 1
        <4>1. k \in 0 .. n /\ h[k] = f[k] /\ (k # 0 => h[k - 1] = f[k - 1])
          BY <3>2
        <4>2. f[k] = IF k = 0 THEN base ELSE Step(k, f[k - 1])
          BY <2>1, <4>1
        <4> HIDE DEF h
        <4> QED BY <4>1, <4>2
      <3> QED BY <3>1, <3>2
    <2>3. h = [k \in 0 .. n + 1 |-> h[k]]
      OBVIOUS
    <2>4. Eq(h, n + 1)
      <3> HIDE DEF h
      <3> QED BY <2>2, <2>3
    <2> HIDE DEF h, Eq
    <2> QED BY <2>4
  <1>5. Eq(g, N)
    <2> HIDE DEF Eq
    <2>1. N \in T
      <3> HIDE DEF T
      <3> QED BY <1>2, <1>3, <1>4, SetInduction
    <2>2. \E f : Eq(f, N)
      BY <2>1
    <2> QED BY <2>2
  <1> HIDE DEF g
  <1>6. g[0] = base /\ \A k \in 1 .. N : g[k] = Step(k, g[k - 1])
    <2>1. \A k \in 0 .. N : g[k] = IF k = 0 THEN base ELSE Step(k, g[k - 1])
      BY <1>5
    <2>2. 0 \in 0 .. N /\ \A k \in 1 .. N : k \in 0 .. N /\ k # 0
      BY <1>2
    <2> QED BY <2>1, <2>2
  <1> QED BY <1>1, <1>6 DEF Step, base, N

TurnsFrom(g, in, n, palette, area) ==
  /\ TakeRuns(in, n, palette, area) = g[area] /\ g[0] = Taken(<<>>, in)
  /\ \A k \in 1 .. area : g[k] = TakeRun(g[k - 1], n, palette, area)

(* The recursive function in TakeRuns is defined. *)
LEMMA TurnsExist ==
  ASSUME NEW in, NEW np, NEW palette, NEW area \in Nat
  PROVE  \E g : TurnsFrom(g, in, np, palette, area)
  BY TurnSteps DEF TurnsFrom

(* Dropping nothing, taking all and taking nothing. *)
LEMMA WholeIs ==
  ASSUME NEW S, NEW s \in Seq(S)
  PROVE  Drop(s, 0) = s /\ SubSeq(s, 1, Len(s)) = s /\ SubSeq(s, 1, 0) = <<>>
  <1> DEFINE n == Len(s)
             z == SubSeq(s, 1, n)
             e == SubSeq(s, 1, 0)
  <1>1. z \in Seq(S) /\ Len(z) = n /\ n \in Nat /\ \A i \in 1 .. n : z[i] = s[i]
    OBVIOUS
  <1>2. z = s
    <2> HIDE DEF z
    <2> QED BY <1>1
  <1>3. e = <<>>
    <2>1. e \in Seq(S) /\ Len(e) = 0
      OBVIOUS
    <2> HIDE DEF e
    <2> QED BY <2>1
  <1>4. Drop(s, 0) = z
    BY DEF Drop
  <1> QED BY <1>2, <1>3, <1>4

(* Turn after turn the loops take the runs of a tile: its pixels are there
   when it is full, and the data after them is left. *)
LEMMA RunsTaken ==
  ASSUME NEW s, NEW area \in Nat \ {0}, NEW runs, IsRuns(s, area, runs),
         NEW out \in Seq(Nat), Len(out) = area, NEW n, NEW palette,
         NEW pieces, Turning(pieces, runs, out, n, palette, area),
         NEW f, f = FlattenSeq(pieces), NEW in \in Seq(Nat), Begins(in, f)
  PROVE  TakeRuns(in, n, palette, area) = Taken(out, Drop(in, Len(f)))
  <1>0. pieces \in Seq(Seq(Nat)) /\ Len(pieces) = Len(runs) /\ AllTurn(pieces, runs, out, n, palette, area)
    BY DEF Turning
  <1> DEFINE m == Len(runs)
             R(k) == IF k = 0 THEN 0 ELSE End(runs[k])
  <1>1. PICK g : /\ TakeRuns(in, n, palette, area) = g[area] /\ g[0] = Taken(<<>>, in)
                 /\ \A k \in 1 .. area : g[k] = TakeRun(g[k - 1], n, palette, area)
    <2>1. area \in Nat
      OBVIOUS
    <2>2. PICK g : TurnsFrom(g, in, n, palette, area)
      BY <2>1, TurnsExist
    <2> QED BY <2>2 DEF TurnsFrom
  <1>2. PICK E : Flat(pieces, f, E)
    BY <1>0, FlatOf
  <1>3. /\ runs \in Seq(Run) /\ m \in Nat /\ m <= area /\ m > 0 /\ runs[1].from = 0 /\ End(runs[m]) = area
        /\ \A k \in 2 .. m : runs[k].from = End(runs[k - 1])
    BY DEF IsRuns
  <1>4. E[0] = 0 /\ E[m] = Len(f)
    <2>1. E[0] = 0 /\ Len(f) = E[Len(pieces)]
      BY <1>2 DEF Flat
    <2>2. Len(pieces) = m
      BY <1>0
    <2> QED BY <2>1, <2>2
  <1> DEFINE St(k) == Taken(SubSeq(out, 1, R(k)), Drop(in, E[k]))
             T == {k \in Nat : g[k] = St(k)}
  <1>5. 0 \in T
    <2>1. SubSeq(out, 1, 0) = <<>> /\ Drop(in, 0) = in
      BY WholeIs
    <2>2. g[0] = St(0)
      BY <1>1, <1>4, <2>1
    <2> QED BY <2>2
  <1> HIDE DEF m
  <1>6. ASSUME NEW k \in 0 .. m - 1, k \in T PROVE k + 1 \in T
    <2> DEFINE j == k + 1
               d == Drop(in, E[k])
               p == pieces[j]
    <2>1. j \in 1 .. m /\ j - 1 = k /\ j \in 1 .. area /\ k \in Nat /\ j \in Nat
      BY <1>3
    <2>2. g[k] = St(k)
      BY <1>6
    <2> HIDE DEF j
    <2>3. runs[j].from = R(k)
      <3>1. CASE k = 0
        <4>1. j = 1
          BY <2>1, <3>1
        <4> QED BY <1>3, <3>1, <4>1
      <3>2. CASE k # 0
        <4>1. j \in 2 .. m /\ R(k) = End(runs[k])
          BY <2>1, <3>2
        <4> QED BY <1>3, <2>1, <4>1
      <3> QED BY <3>1, <3>2
    <2>4. R(j) = End(runs[j])
      BY <2>1
    <2> HIDE DEF R
    <2>5. PieceThere(in, pieces, E, j)
      <3>1. j \in 1 .. Len(pieces)
        BY <1>0, <2>1 DEF m
      <3> QED BY <1>0, <1>2, <3>1, PieceAt
    <2>6. d \in Seq(Nat) /\ Begins(d, p) /\ Drop(d, Len(p)) = Drop(in, E[j])
      BY <2>1, <2>5 DEF PieceThere
    <2>7. Turns(p, runs[j], out, n, palette, area)
      BY <1>0, <2>1 DEF AllTurn, m
    <2> HIDE DEF d, p
    <2>8. TakeRun(Taken(SubSeq(out, 1, runs[j].from), d), n, palette, area) = Taken(SubSeq(out, 1, End(runs[j])), Drop(d, Len(p)))
      BY <2>6, <2>7 DEF Turns
    <2>9. g[j] = TakeRun(g[k], n, palette, area)
      BY <1>1, <2>1
    <2>10. g[k] = Taken(SubSeq(out, 1, runs[j].from), d)
      BY <2>2, <2>3 DEF d
    <2>11. g[j] = St(j)
      BY <2>4, <2>6, <2>8, <2>9, <2>10
    <2> QED BY <2>1, <2>11 DEF j
  <1>7. 0 .. m \subseteq T
    <2>1. \A k \in 0 .. m - 1 : k \in T => k + 1 \in T
      <3> HIDE DEF T
      <3> QED BY <1>6
    <2> HIDE DEF T
    <2> QED BY <1>3, <1>5, <2>1, UpTo
  <1> DEFINE end == Taken(out, Drop(in, Len(f)))
  <1>8. g[m] = end
    <2>1. m \in T
      <3> HIDE DEF T
      <3>1. m \in 0 .. m
        BY <1>3
      <3> QED BY <1>7, <3>1
    <2>2. R(m) = area
      BY <1>3
    <2>3. SubSeq(out, 1, area) = out
      BY WholeIs
    <2>4. g[m] = St(m)
      BY <2>1
    <2> HIDE DEF R
    <2> QED BY <1>4, <2>2, <2>3, <2>4
  <1>9. TakeRun(end, n, palette, area) = end
    <2>1. end.cells = out
      BY DEF Taken
    <2> HIDE DEF end
    <2> QED BY <2>1 DEF TakeRun
  <1> DEFINE U == {i \in Nat : g[m + i] = end}
             N == area - m
  <1> HIDE DEF end, T
  <1>10. N \in Nat /\ m + N = area
    BY <1>3
  <1> HIDE DEF N
  <1>11. 0 \in U
    <2>1. m + 0 = m
      BY <1>3
    <2> QED BY <1>8, <2>1
  <1>12. ASSUME NEW i \in 0 .. N - 1, i \in U PROVE i + 1 \in U
    <2> DEFINE j == m + (i + 1)
    <2>1. j \in 1 .. area /\ j - 1 = m + i
      BY <1>3, <1>10
    <2> HIDE DEF j
    <2>2. g[j - 1] = end
      BY <1>12, <2>1
    <2>3. g[j] = end
      BY <1>1, <1>9, <2>1, <2>2
    <2>4. i + 1 \in Nat
      BY <1>10
    <2> QED BY <2>3, <2>4 DEF j
  <1>13. 0 .. N \subseteq U
    <2>1. \A i \in 0 .. N - 1 : i \in U => i + 1 \in U
      <3> HIDE DEF U
      <3> QED BY <1>12
    <2> HIDE DEF U
    <2> QED BY <1>10, <1>11, <2>1, UpTo
  <1>14. g[area] = end
    <2>1. N \in 0 .. N
      BY <1>10
    <2>2. N \in U
      BY <1>13, <2>1
    <2> QED BY <1>10, <2>2
  <1> QED BY <1>1, <1>14 DEF end

(* The bytes of one run: with a length, or alone. *)
RunCode(piece, run, f, n) ==
  \/ piece = <<f>> \o RunBytes(run.length) /\ (n = 0 \/ f >= 128)
  \/ piece = <<f>> /\ run.length = 1 /\ n # 0 /\ f < 128

(* One run is one turn. *)
LEMMA OneTurn ==
  ASSUME NEW out \in Seq(Nat), NEW area, area = Len(out), NEW run \in Run, End(run) <= area,
         NEW n \in Nat, NEW palette, NEW f \in Nat, NEW piece, RunCode(piece, run, f, n),
         NEW c, c = Coloring(f, n, palette), Stretch(out, run.from, run.length, c)
  PROVE  Turns(piece, run, out, n, palette, area)
  <1> DEFINE a == run.from
             len == run.length
             pre == SubSeq(out, 1, a)
             to == SubSeq(out, 1, a + len)
  <1>1. a \in Nat /\ len \in Nat \ {0} /\ area \in Nat /\ a + len <= area /\ End(run) = a + len
    <2>1. run.from \in Nat /\ run.length \in Nat \ {0}
      BY RunIs
    <2> QED BY <2>1 DEF End
  <1>2. Stretch(out, a, len, c)
    OBVIOUS
  <1> HIDE DEF a, len
  <1>3. pre \o Repeated(c, len) = to
    <2>1. a + len <= Len(out) /\ len \in Nat
      BY <1>1
    <2>3. SubSeq(out, 1, a) \o Repeated(c, len) = SubSeq(out, 1, a + len)
      <3>1. a \in Nat /\ len \in Nat /\ a + len <= Len(out)
        BY <1>1, <2>1
      <3> QED BY <1>2, <3>1, PrefixGrows
    <2> QED BY <2>3
  <1>4. pre \in Seq(Nat) /\ Len(pre) = a
    BY <1>1
  <1> HIDE DEF pre, to
  <1>5. ASSUME NEW data0 \in Seq(Nat), Begins(data0, piece)
        PROVE  TakeRun(Taken(pre, data0), n, palette, area) = Taken(pre \o Repeated(c, len), Drop(data0, Len(piece)))
    <2>1. CASE piece = <<f>> \o RunBytes(run.length) /\ (n = 0 \/ f >= 128)
      <3>1. LongCode(piece, f, len) /\ (n = 0 \/ f >= 128) /\ Len(pre) + len <= area
        BY <1>1, <1>4, <2>1 DEF len, LongCode
      <3>2. TakeRun(Taken(pre, data0), n, palette, area) = Taken(pre \o Repeated(Coloring(f, n, palette), len), Drop(data0, Len(piece)))
        <4>1. len \in Nat \ {0} /\ area \in Nat
          BY <1>1
        <4>2. pre \in Seq(Nat)
          BY <1>4
        <4>3. data0 \in Seq(Nat) /\ Begins(data0, piece)
          BY <1>5
        <4>4. LongCode(piece, f, len)
          BY <3>1
        <4>5. (n = 0 \/ f >= 128) /\ Len(pre) + len <= area
          BY <3>1
        <4> QED BY <4>1, <4>2, <4>3, <4>4, <4>5, LongTurn
      <3> QED BY <3>2
    <2>2. CASE piece = <<f>> /\ run.length = 1 /\ n # 0 /\ f < 128
      <3>1. ShortCode(piece, f) /\ n \in Nat \ {0} /\ f < 128 /\ Len(pre) + 1 <= area /\ len = 1
        BY <1>1, <1>4, <2>2 DEF len, ShortCode
      <3>2. TakeRun(Taken(pre, data0), n, palette, area) = Taken(pre \o Repeated(Coloring(f, n, palette), 1), Drop(data0, Len(piece)))
        BY <1>1, <1>4, <1>5, <3>1, ShortTurn
      <3> QED BY <3>1, <3>2
    <2> QED BY <2>1, <2>2 DEF RunCode
  <1>6. pre = SubSeq(out, 1, run.from) /\ to = SubSeq(out, 1, End(run))
    BY <1>1 DEF pre, to, a
  <1> QED BY <1>3, <1>5, <1>6 DEF Turns

(* A run is bytes. *)
LEMMA RunBytesIn ==
  ASSUME NEW f \in Nat, NEW n \in Nat \ {0}
  PROVE  <<f>> \o RunBytes(n) \in Seq(Nat)
  <1>1. PICK q : LengthCode(RunBytes(n), n, q)
    BY RunBytesAre
  <1>2. RunBytes(n) \in Seq(Nat)
    BY <1>1 DEF LengthCode
  <1> HIDE DEF RunBytes
  <1> QED BY <1>2

(* Runs of colours. *)
PlainCode(run) == <<run.colour>> \o RunBytes(run.length)

PlainPieces(pieces, runs) == pieces = [k \in 1 .. Len(runs) |-> PlainCode(runs[k])]

(* Runs of colours. *)
LEMMA PlainTurns ==
  ASSUME NEW cells \in Seq(Nat), NEW area, area = Len(cells), NEW runs, IsRuns(cells, area, runs),
         NEW pieces, PlainPieces(pieces, runs), NEW palette
  PROVE  Turning(pieces, runs, cells, 0, palette, area)
  <1> USE DEF PlainPieces
  <1> DEFINE m == Len(runs)
  <1>1. runs \in Seq(Run) /\ m \in Nat /\ \A k \in 1 .. m : End(runs[k]) <= area /\ Coloured(cells, runs[k])
    BY DEF IsRuns
  <1>2. \A k \in 1 .. m : runs[k] \in Run /\ PlainCode(runs[k]) \in Seq(Nat)
    <2> SUFFICES ASSUME NEW k \in 1 .. m PROVE runs[k] \in Run /\ PlainCode(runs[k]) \in Seq(Nat)
      OBVIOUS
    <2> DEFINE run == runs[k]
    <2>1. run \in Run
      BY <1>1
    <2> HIDE DEF run
    <2>2. run.colour \in Nat /\ run.length \in Nat \ {0}
      BY <2>1, RunIs
    <2>3. PlainCode(run) \in Seq(Nat)
      BY <2>2, RunBytesIn DEF PlainCode
    <2> QED BY <2>1, <2>3 DEF run
  <1>3. pieces \in Seq(Seq(Nat)) /\ Len(pieces) = m
    <2> DEFINE S == Seq(Nat)
    <2>1. pieces \in [1 .. m -> S]
      BY <1>2
    <2> HIDE DEF S, m
    <2>2. pieces \in Seq(S) /\ Len(pieces) = m
      BY <1>1, <2>1, IsSeqOf
    <2> QED BY <2>2 DEF S
  <1>4. ASSUME NEW k \in 1 .. m PROVE Turns(pieces[k], runs[k], cells, 0, palette, area)
    <2> DEFINE run == runs[k]
               f == run.colour
               piece == pieces[k]
    <2>1. run \in Run /\ End(run) <= area /\ Coloured(cells, run)
      BY <1>1, <1>2
    <2>2. piece = PlainCode(run)
      OBVIOUS
    <2> HIDE DEF run, piece
    <2>3. f \in Nat
      BY <2>1, RunIs
    <2>4. RunCode(piece, run, f, 0)
      BY <2>2 DEF RunCode, PlainCode
    <2>5. f = Coloring(f, 0, palette)
      BY DEF Coloring
    <2>6. Stretch(cells, run.from, run.length, f)
      BY <2>1 DEF Coloured, Stretch
    <2> HIDE DEF f
    <2>7. Turns(piece, run, cells, 0, palette, area)
      <3>1. 0 \in Nat
        OBVIOUS
      <3> QED BY <2>1, <2>3, <2>4, <2>5, <2>6, <3>1, OneTurn
    <2> QED BY <2>7 DEF run, piece
  <1>5. AllTurn(pieces, runs, cells, 0, palette, area)
    BY <1>4 DEF AllTurn
  <1> QED BY <1>3, <1>5 DEF Turning

(* The flag of an index does not change it. *)
LEMMA Below128 ==
  ASSUME NEW n \in 1 .. 99, NEW v \in 0 .. n - 1
  PROVE  v % 128 = v /\ (v + 128) % 128 = v /\ v < 128
  <1>1. v \in 0 .. 98
    OBVIOUS
  <1> QED BY <1>1

(* Runs of places in a palette. *)
IndexedCode(run) ==
  IF run.length = 1 THEN <<run.colour>> ELSE <<run.colour + 128>> \o RunBytes(run.length)

IndexedPieces(pieces, runs) == pieces = [k \in 1 .. Len(runs) |-> IndexedCode(runs[k])]
Looks(palette, s, n, cells, area) == \A i \in 1 .. area : s[i] \in 0 .. n - 1 /\ palette[s[i]] = cells[i]

(* Runs of indices into a palette. *)
LEMMA IndexedTurns ==
  ASSUME NEW cells \in Seq(Nat), NEW area, area = Len(cells), NEW s, NEW runs, IsRuns(s, area, runs),
         NEW n \in 1 .. 99, NEW palette,
         Looks(palette, s, n, cells, area), NEW pieces, IndexedPieces(pieces, runs)
  PROVE  Turning(pieces, runs, cells, n, palette, area)
  <1> USE DEF IndexedPieces, Looks
  <1> DEFINE m == Len(runs)
  <1>1. runs \in Seq(Run) /\ m \in Nat /\ \A k \in 1 .. m : End(runs[k]) <= area /\ Coloured(s, runs[k])
    BY DEF IsRuns
  <1>2. \A k \in 1 .. m : runs[k] \in Run /\ IndexedCode(runs[k]) \in Seq(Nat)
    <2> SUFFICES ASSUME NEW k \in 1 .. m PROVE runs[k] \in Run /\ IndexedCode(runs[k]) \in Seq(Nat)
      OBVIOUS
    <2> DEFINE run == runs[k]
               f == run.colour + 128
    <2>1. run \in Run
      BY <1>1
    <2> HIDE DEF run
    <2>2. run.colour \in Nat /\ run.length \in Nat \ {0}
      BY <2>1, RunIs
    <2>3. <<run.colour>> \in Seq(Nat) /\ f \in Nat
      BY <2>2
    <2> HIDE DEF f
    <2>4. <<f>> \o RunBytes(run.length) \in Seq(Nat)
      BY <2>2, <2>3, RunBytesIn
    <2>5. IndexedCode(run) \in Seq(Nat)
      BY <2>3, <2>4, Zenon DEF IndexedCode, f
    <2> QED BY <2>1, <2>5 DEF run
  <1>3. pieces \in Seq(Seq(Nat)) /\ Len(pieces) = m
    <2> DEFINE S == Seq(Nat)
    <2>1. pieces \in [1 .. m -> S]
      BY <1>2
    <2> HIDE DEF S, m
    <2>2. pieces \in Seq(S) /\ Len(pieces) = m
      BY <1>1, <2>1, IsSeqOf
    <2> QED BY <2>2 DEF S
  <1>4. ASSUME NEW k \in 1 .. m PROVE Turns(pieces[k], runs[k], cells, n, palette, area)
    <2> DEFINE run == runs[k]
               v == run.colour
               a == run.from
               len == run.length
               f == IF len = 1 THEN v ELSE v + 128
               piece == pieces[k]
               c == palette[v]
    <2>1. run \in Run /\ End(run) <= area /\ Coloured(s, run)
      BY <1>1, <1>2
    <2>2. piece = IndexedCode(run)
      OBVIOUS
    <2> HIDE DEF run, piece
    <2>3. v \in Nat /\ a \in Nat /\ len \in Nat \ {0} /\ a + len <= area
      <3>1. v \in Nat /\ a \in Nat /\ len \in Nat \ {0}
        BY <2>1, RunIs
      <3> QED BY <2>1, <3>1 DEF End
    <2>4. \A i \in 1 .. len : s[a + i] = v
      BY <2>1 DEF Coloured
    <2> HIDE DEF v, a, len
    <2>5. ASSUME NEW i \in 1 .. len PROVE a + i \in 1 .. area /\ v \in 0 .. n - 1 /\ cells[a + i] = c
      <3>1. a + i \in 1 .. area
        <4>1. area \in Nat
          OBVIOUS
        <4> QED BY <2>3, <4>1
      <3> DEFINE j == a + i
      <3>2. s[j] = v /\ j \in 1 .. area
        BY <2>4, <3>1
      <3> HIDE DEF j
      <3>3. s[j] \in 0 .. n - 1 /\ palette[s[j]] = cells[j]
        BY <3>2
      <3>4. v \in 0 .. n - 1 /\ cells[j] = c
        BY <3>2, <3>3
      <3> QED BY <3>1, <3>4 DEF j
    <2>6. v \in 0 .. n - 1
      <3>1. 1 \in 1 .. len
        BY <2>3
      <3> QED BY <2>5, <3>1
    <2>7. f \in Nat /\ f % 128 = v /\ (len # 1 => f >= 128) /\ (len = 1 => f < 128)
      <3>1. v % 128 = v /\ (v + 128) % 128 = v /\ v < 128
        BY <2>6, Below128
      <3>2. CASE len = 1
        BY <2>3, <3>1, <3>2
      <3>3. CASE len # 1
        BY <2>3, <3>1, <3>3
      <3> QED BY <3>2, <3>3
    <2>8. RunCode(piece, run, f, n)
      <3>1. piece = IF len = 1 THEN <<v>> ELSE <<v + 128>> \o RunBytes(len)
        BY <2>2, Zenon DEF IndexedCode, v, len
      <3>2. CASE len = 1
        <4>1. piece = <<f>> /\ n # 0 /\ f < 128
          BY <2>7, <3>1, <3>2
        <4>2. run.length = 1
          BY <3>2 DEF len
        <4> QED BY <4>1, <4>2 DEF RunCode
      <3>3. CASE len # 1
        <4>1. f >= 128
          BY <2>7, <3>3
        <4>2. piece = <<f>> \o RunBytes(len)
          BY <3>1, <3>3, Zenon
        <4> HIDE DEF f
        <4> QED BY <4>1, <4>2 DEF RunCode, len
      <3> QED BY <3>2, <3>3
    <2>9. c = Coloring(f, n, palette)
      <3>1. n # 0
        OBVIOUS
      <3> HIDE DEF f
      <3> QED BY <2>7, <3>1 DEF Coloring
    <2>10. Stretch(cells, run.from, run.length, c)
      BY <2>5 DEF a, len, Stretch
    <2> HIDE DEF f, c
    <2>11. Turns(piece, run, cells, n, palette, area)
      <3>1. n \in Nat
        OBVIOUS
      <3> QED BY <2>1, <2>7, <2>8, <2>9, <2>10, <3>1, OneTurn
    <2> QED BY <2>11 DEF run, piece
  <1>5. AllTurn(pieces, runs, cells, n, palette, area)
    BY <1>4 DEF AllTurn
  <1> QED BY <1>3, <1>5 DEF Turning

-----------------------------------------------------------------------------
(* zrle: one tile, in each mode. *)

(* An operation with the pixels of a block draws it. *)
LEMMA BlockExact ==
  ASSUME NEW r \in Tile, NEW cells \in Seq(Nat), Len(cells) = r.w * r.h, NEW j, j \in {Rows(r, cells), Bitmap(r, cells)}
  PROVE  Good(<<j>>, r, cells)
  <1>1. Len(cells) >= r.w * r.h
    <2>1. Len(cells) \in Nat
      OBVIOUS
    <2> QED BY <2>1
  <1>2. \A k \in 1 .. r.w * r.h : cells[k] # Unknown => cells[k] = cells[k]
    OBVIOUS
  <1>3. j = Rows(r, cells) \/ j = Bitmap(r, cells)
    OBVIOUS
  <1> QED BY <1>1, <1>2, <1>3, OneBlock

AllAre(cells, n, c) == \A k \in 1 .. n : cells[k] = c

(* A fill draws a block that is of its colour everywhere. *)
LEMMA FillExact ==
  ASSUME NEW r \in Tile, NEW c \in Nat, NEW cells, AllAre(cells, r.w * r.h, c)
  PROVE  Good(<<Fill(r, c)>>, r, cells)
  <1>1. \A k \in 1 .. r.w * r.h : cells[k] # Unknown => cells[k] = c
    BY DEF AllAre
  <1> QED BY <1>1, OneFill

(* A tile's code: its mode, its palette and the rest. *)
Headed(code, m, P, rest) == code = <<m>> \o P \o rest

AfterHead(data0, m, P, rest, code, in) ==
  /\ in \in Seq(Nat) /\ Begins(in, rest) /\ Sym(data0, 1) = m
  /\ \A i \in 1 .. Len(P) : Sym(data0, i + 1) = P[i]
  /\ code \in Seq(Nat) /\ Drop(in, Len(rest)) = Drop(data0, Len(code)) /\ Len(rest) \in Nat /\ Len(rest) <= Len(in)

(* The mode and the palette are read, and what follows them is left. *)
LEMMA HeadTaken ==
  ASSUME NEW m \in Nat, NEW P \in Seq(Nat), NEW rest \in Seq(Nat), NEW code, Headed(code, m, P, rest),
         NEW data0 \in Seq(Nat), Begins(data0, code), NEW in, in = Drop(data0, Len(P) + 1)
  PROVE  AfterHead(data0, m, P, rest, code, in)
  <1> DEFINE u == <<m>>
             h == u \o P
             L == Len(P)
  <1>1. u \in Seq(Nat) /\ Len(u) = 1 /\ u[1] = m
    OBVIOUS
  <1>2. code = h \o rest
    BY DEF Headed
  <1> HIDE DEF u
  <1>3. /\ h \in Seq(Nat) /\ Len(h) = L + 1 /\ L \in Nat /\ h[1] = m /\ \A i \in 1 .. L : h[i + 1] = P[i]
    <2>1. /\ u \o P \in Seq(Nat) /\ Len(u \o P) = Len(u) + Len(P) /\ Len(P) \in Nat
          /\ (\A i \in 1 .. Len(u) : (u \o P)[i] = u[i]) /\ (\A i \in 1 .. Len(P) : (u \o P)[Len(u) + i] = P[i])
      <3>1. u \in Seq(Nat) /\ P \in Seq(Nat)
        BY <1>1
      <3> HIDE DEF h, L
      <3> QED BY <3>1, JoinIs
    <2> HIDE DEF h
    <2>2. /\ h \in Seq(Nat) /\ Len(h) = 1 + L /\ L \in Nat
          /\ (\A i \in 1 .. 1 : h[i] = u[i]) /\ (\A i \in 1 .. L : h[1 + i] = P[i])
      BY <1>1, <2>1 DEF h
    <2>3. h[1] = m
      BY <1>1, <2>2
    <2>4. \A i \in 1 .. L : h[i + 1] = P[i]
      <3> SUFFICES ASSUME NEW i \in 1 .. L PROVE h[i + 1] = P[i]
        OBVIOUS
      <3>1. h[1 + i] = P[i]
        BY <2>2
      <3>2. 1 + i = i + 1
        OBVIOUS
      <3> QED BY <3>1, <3>2
    <2> QED BY <2>2, <2>3, <2>4
  <1> HIDE DEF h
  <1>4. BeginsBoth(data0, Nat, h, rest)
    <2>1. h \in Seq(Nat) /\ rest \in Seq(Nat) /\ data0 \in Seq(Nat) /\ Begins(data0, code)
      BY <1>3
    <2> QED BY <1>2, <2>1, BeginsJoin
  <1> HIDE DEF L
  <1>5. /\ Begins(data0, h) /\ L + 1 <= Len(data0) /\ in \in Seq(Nat) /\ Begins(in, rest)
        /\ Len(code) = L + 1 + Len(rest) /\ code \in Seq(Nat) /\ in = Drop(data0, L + 1)
    BY <1>2, <1>3, <1>4 DEF BeginsBoth, L
  <1>6. \A i \in 1 .. L + 1 : Sym(data0, i) = h[i]
    <2>1. \A i \in 1 .. L + 1 : data0[i] = h[i]
      BY <1>3, <1>5 DEF Begins
    <2>2. \A i \in 1 .. L + 1 : i \in DOMAIN data0
      BY <1>3, <1>5
    <2> QED BY <2>1, <2>2 DEF Sym
  <1>7. Sym(data0, 1) = m
    <2>1. 1 \in 1 .. L + 1
      BY <1>3
    <2> QED BY <1>3, <1>6, <2>1
  <1>8. ASSUME NEW i \in 1 .. L PROVE Sym(data0, i + 1) = P[i]
    <2>1. i + 1 \in 1 .. L + 1
      BY <1>3
    <2> QED BY <1>3, <1>6, <2>1
  <1>9. Len(rest) \in Nat /\ Len(rest) <= Len(in)
    BY <1>5 DEF Begins
  <1>10. Drop(in, Len(rest)) = Drop(data0, Len(code))
    <2> DEFINE a == L + 1
               b == Len(rest)
    <2>1. a \in Nat /\ b \in Nat /\ Len(code) = a + b /\ Len(code) <= Len(data0)
      <3>1. Len(code) <= Len(data0)
        BY DEF Begins
      <3> QED BY <1>3, <1>5, <1>9, <3>1
    <2> HIDE DEF a, b
    <2>2. Drop(Drop(data0, a), b) = Drop(data0, a + b)
      <3>1. a + b <= Len(data0)
        BY <2>1
      <3> QED BY <2>1, <3>1, DropDrop
    <2> QED BY <1>5, <2>1, <2>2 DEF a, b
  <1> QED BY <1>5, <1>7, <1>8, <1>9, <1>10 DEF AfterHead, L

(* Joining nothing. *)
LEMMA JoinEmpty ==
  ASSUME NEW S, NEW s \in Seq(S)
  PROVE  s \o <<>> = s
  <1> DEFINE e == <<>>
             z == s \o e
  <1>1. e \in Seq(S) /\ Len(e) = 0
    OBVIOUS
  <1> HIDE DEF e
  <1>2. z \in Seq(S) /\ Len(z) = Len(s) + Len(e) /\ \A i \in 1 .. Len(s) : z[i] = s[i]
    BY <1>1, JoinIs
  <1>3. Len(z) = Len(s) /\ Len(s) \in Nat
    <2>1. Len(s) \in Nat
      OBVIOUS
    <2> QED BY <1>1, <1>2, <2>1
  <1> HIDE DEF z
  <1>4. z = s
    BY <1>2, <1>3
  <1> QED BY <1>4 DEF z, e

-----------------------------------------------------------------------------
(* handle_zrle_tile, mode by mode. *)
ZrlePalette(data0, n) == [i \in 0 .. 255 |-> IF i < n THEN Sym(data0, i + 2) ELSE 0]
ZrleBits(n) == IF n > 16 THEN 8 ELSE IF n > 4 THEN 4 ELSE IF n > 2 THEN 2 ELSE 1

ZrleChoice(n, mode, solid, raw, packed, runs) ==
  CASE n = 1 -> solid
    [] n = 0 /\ mode < 128 -> raw
    [] n > 1 /\ mode < 128 -> packed
    [] OTHER -> runs

(* By mode, palette and the data after them. *)
ZrleBy(t, mode, n, in, palette) ==
  ZrleChoice(n, mode,
    [job |-> Fill(t, palette[0]), in |-> in],
    [job |-> Rows(t, Take(in, t.w * t.h)), in |-> Drop(in, t.w * t.h)],
    [job |-> Bitmap(t, [k \in 1 .. t.w * t.h |-> palette[PackedRows(in, t.w, t.w * t.h, ZrleBits(n))[k]]]),
     in |-> Drop(in, Padded(t.w * ZrleBits(n)) * t.h)],
    [job |-> Bitmap(t, TakeRuns(in, n, palette, t.w * t.h).cells), in |-> TakeRuns(in, n, palette, t.w * t.h).in])

(* DecodeZrleTile, as a choice by the mode. *)
LEMMA ZrleChooses ==
  ASSUME NEW data0, NEW t
  PROVE  DecodeZrleTile(data0, t) =
           ZrleBy(t, Sym(data0, 1), Sym(data0, 1) % 128, Drop(data0, (Sym(data0, 1) % 128) + 1), ZrlePalette(data0, Sym(data0, 1) % 128))
  BY Zenon DEF DecodeZrleTile, ZrlePalette, ZrleBits, ZrleChoice, ZrleBy

(* What the choice gives in each case. *)
LEMMA ZrleChosen ==
  ASSUME NEW mode \in Nat, NEW n \in Nat, NEW solid, NEW raw, NEW packed, NEW runs
  PROVE  /\ n = 1 => ZrleChoice(n, mode, solid, raw, packed, runs) = solid
         /\ n = 0 /\ mode < 128 => ZrleChoice(n, mode, solid, raw, packed, runs) = raw
         /\ n > 1 /\ mode < 128 => ZrleChoice(n, mode, solid, raw, packed, runs) = packed
         /\ n # 1 /\ mode >= 128 => ZrleChoice(n, mode, solid, raw, packed, runs) = runs
  BY DEF ZrleChoice

TileTaken(r, data0, code, t, cells) ==
  r.in = Drop(data0, Len(code)) /\ Good(<<r.job>>, t, cells)

(* What is known of a tile's data once its mode is. *)
Moded(data0, mode, n, in, palette) ==
  /\ mode = Sym(data0, 1) /\ n = mode % 128 /\ mode \in Nat /\ n \in Nat
  /\ in = Drop(data0, n + 1) /\ palette = ZrlePalette(data0, n)

Read(r, j, in) == r = [job |-> j, in |-> in]

(* The choice, for a mode and a palette that were read. *)
LEMMA ZrleByMode ==
  ASSUME NEW data0, NEW t, NEW mode, NEW n, NEW in, NEW palette, Moded(data0, mode, n, in, palette)
  PROVE  DecodeZrleTile(data0, t) = ZrleBy(t, mode, n, in, palette)
  <1>1. DecodeZrleTile(data0, t) =
         ZrleBy(t, Sym(data0, 1), Sym(data0, 1) % 128, Drop(data0, (Sym(data0, 1) % 128) + 1), ZrlePalette(data0, Sym(data0, 1) % 128))
    BY ZrleChooses
  <1>2. Sym(data0, 1) = mode /\ Sym(data0, 1) % 128 = n /\ Drop(data0, (Sym(data0, 1) % 128) + 1) = in /\ ZrlePalette(data0, Sym(data0, 1) % 128) = palette
    BY DEF Moded
  <1> QED BY <1>1, <1>2, Zenon

(* A tile of one colour is a fill. *)
LEMMA ReadSolid ==
  ASSUME NEW data0, NEW t, NEW mode, NEW n, NEW in, NEW palette, Moded(data0, mode, n, in, palette), n = 1,
         NEW area, area = t.w * t.h
  PROVE  Read(DecodeZrleTile(data0, t), Fill(t, palette[0]), in)
  <1> DEFINE solid == [job |-> Fill(t, palette[0]), in |-> in]
             raw == [job |-> Rows(t, Take(in, area)), in |-> Drop(in, area)]
             packed == [job |-> Bitmap(t, [k \in 1 .. area |-> palette[PackedRows(in, t.w, area, ZrleBits(n))[k]]]),
                        in |-> Drop(in, Padded(t.w * ZrleBits(n)) * t.h)]
             rest == [job |-> Bitmap(t, TakeRuns(in, n, palette, area).cells), in |-> TakeRuns(in, n, palette, area).in]
  <1>1. DecodeZrleTile(data0, t) = ZrleBy(t, mode, n, in, palette)
    BY ZrleByMode
  <1>2. ZrleBy(t, mode, n, in, palette) = ZrleChoice(n, mode, solid, raw, packed, rest)
    BY Zenon DEF ZrleBy
  <1>3. mode \in Nat /\ n \in Nat
    BY DEF Moded
  <1> HIDE DEF solid, raw, packed, rest
  <1>4. ZrleChoice(n, mode, solid, raw, packed, rest) = solid
    BY <1>3, ZrleChosen
  <1>5. DecodeZrleTile(data0, t) = solid
    BY <1>1, <1>2, <1>4
  <1> QED BY <1>5, Zenon DEF Read, solid

(* A raw tile is its pixels. *)
LEMMA ReadRaw ==
  ASSUME NEW data0, NEW t, NEW mode, NEW n, NEW in, NEW palette, Moded(data0, mode, n, in, palette), n = 0, mode < 128,
         NEW area, area = t.w * t.h
  PROVE  Read(DecodeZrleTile(data0, t), Rows(t, Take(in, area)), Drop(in, area))
  <1> DEFINE solid == [job |-> Fill(t, palette[0]), in |-> in]
             raw == [job |-> Rows(t, Take(in, area)), in |-> Drop(in, area)]
             packed == [job |-> Bitmap(t, [k \in 1 .. area |-> palette[PackedRows(in, t.w, area, ZrleBits(n))[k]]]),
                        in |-> Drop(in, Padded(t.w * ZrleBits(n)) * t.h)]
             rest == [job |-> Bitmap(t, TakeRuns(in, n, palette, area).cells), in |-> TakeRuns(in, n, palette, area).in]
  <1>1. DecodeZrleTile(data0, t) = ZrleBy(t, mode, n, in, palette)
    BY ZrleByMode
  <1>2. ZrleBy(t, mode, n, in, palette) = ZrleChoice(n, mode, solid, raw, packed, rest)
    BY Zenon DEF ZrleBy
  <1>3. mode \in Nat /\ n \in Nat
    BY DEF Moded
  <1> HIDE DEF solid, raw, packed, rest
  <1>4. ZrleChoice(n, mode, solid, raw, packed, rest) = raw
    BY <1>3, ZrleChosen
  <1>5. DecodeZrleTile(data0, t) = raw
    BY <1>1, <1>2, <1>4
  <1> QED BY <1>5, Zenon DEF Read, raw

Looked(palette, s, n) == [k \in 1 .. n |-> palette[s[k]]]

(* A packed tile is looked up. *)
LEMMA ReadPacked ==
  ASSUME NEW data0, NEW t, NEW mode, NEW n, NEW in, NEW palette, Moded(data0, mode, n, in, palette), n > 1, mode < 128,
         NEW area, area = t.w * t.h
  PROVE  Read(DecodeZrleTile(data0, t), Bitmap(t, Looked(palette, PackedRows(in, t.w, area, ZrleBits(n)), area)), Drop(in, Padded(t.w * ZrleBits(n)) * t.h))
  <1> DEFINE solid == [job |-> Fill(t, palette[0]), in |-> in]
             raw == [job |-> Rows(t, Take(in, area)), in |-> Drop(in, area)]
             packed == [job |-> Bitmap(t, [k \in 1 .. area |-> palette[PackedRows(in, t.w, area, ZrleBits(n))[k]]]),
                        in |-> Drop(in, Padded(t.w * ZrleBits(n)) * t.h)]
             rest == [job |-> Bitmap(t, TakeRuns(in, n, palette, area).cells), in |-> TakeRuns(in, n, palette, area).in]
  <1>1. DecodeZrleTile(data0, t) = ZrleBy(t, mode, n, in, palette)
    BY ZrleByMode
  <1>2. ZrleBy(t, mode, n, in, palette) = ZrleChoice(n, mode, solid, raw, packed, rest)
    BY Zenon DEF ZrleBy
  <1>3. mode \in Nat /\ n \in Nat
    BY DEF Moded
  <1> HIDE DEF solid, raw, packed, rest
  <1>4. ZrleChoice(n, mode, solid, raw, packed, rest) = packed
    BY <1>3, ZrleChosen
  <1>5. DecodeZrleTile(data0, t) = packed
    BY <1>1, <1>2, <1>4
  <1> QED BY <1>5, Zenon DEF Read, packed, Looked

(* A tile of runs is what the loops take. *)
LEMMA ReadRuns ==
  ASSUME NEW data0, NEW t, NEW mode, NEW n, NEW in, NEW palette, Moded(data0, mode, n, in, palette), n # 1, mode >= 128,
         NEW area, area = t.w * t.h
  PROVE  Read(DecodeZrleTile(data0, t), Bitmap(t, TakeRuns(in, n, palette, area).cells), TakeRuns(in, n, palette, area).in)
  <1> DEFINE solid == [job |-> Fill(t, palette[0]), in |-> in]
             raw == [job |-> Rows(t, Take(in, area)), in |-> Drop(in, area)]
             packed == [job |-> Bitmap(t, [k \in 1 .. area |-> palette[PackedRows(in, t.w, area, ZrleBits(n))[k]]]),
                        in |-> Drop(in, Padded(t.w * ZrleBits(n)) * t.h)]
             rest == [job |-> Bitmap(t, TakeRuns(in, n, palette, area).cells), in |-> TakeRuns(in, n, palette, area).in]
  <1>1. DecodeZrleTile(data0, t) = ZrleBy(t, mode, n, in, palette)
    BY ZrleByMode
  <1>2. ZrleBy(t, mode, n, in, palette) = ZrleChoice(n, mode, solid, raw, packed, rest)
    BY Zenon DEF ZrleBy
  <1>3. mode \in Nat /\ n \in Nat
    BY DEF Moded
  <1> HIDE DEF solid, raw, packed, rest
  <1>4. ZrleChoice(n, mode, solid, raw, packed, rest) = rest
    BY <1>3, ZrleChosen
  <1>5. DecodeZrleTile(data0, t) = rest
    BY <1>1, <1>2, <1>4
  <1> QED BY <1>5, Zenon DEF Read, rest

(* The fields of a tile and its area. *)
LEMMA AreaIs ==
  ASSUME NEW t \in Tile
  PROVE  /\ t.x \in Int /\ t.y \in Int /\ t.w \in Nat \ {0} /\ t.h \in Nat \ {0}
         /\ t.w * t.h \in Nat \ {0}
  <1>1. t.x \in Int /\ t.y \in Int /\ t.w \in Nat \ {0} /\ t.h \in Nat \ {0}
    BY DEF Tile
  <1> DEFINE w == t.w
             h == t.h
  <1> HIDE DEF w, h
  <1>2. w * h \in Nat \ {0}
    <2>1. w \in Nat \ {0} /\ h \in Nat \ {0}
      BY <1>1 DEF w, h
    <2> QED BY <2>1
  <1> QED BY <1>1, <1>2 DEF w, h

(* A raw tile is drawn, and no more than it is taken. *)
LEMMA RawTaken ==
  ASSUME NEW t \in Tile, NEW cells \in Seq(Nat), Len(cells) = t.w * t.h,
         NEW code, Headed(code, 0, <<>>, cells), NEW data0 \in Seq(Nat), Begins(data0, code)
  PROVE  TileTaken(DecodeZrleTile(data0, t), data0, code, t, cells)
  <1> DEFINE P == <<>>
             in == Drop(data0, 1)
             area == t.w * t.h
             px == Take(in, area)
             r == DecodeZrleTile(data0, t)
  <1>1. P \in Seq(Nat) /\ Len(P) = 0 /\ area \in Nat
    <2>1. area \in Nat
      BY AreaIs
    <2> QED BY <2>1
  <1>2. in = Drop(data0, Len(P) + 1)
    BY <1>1
  <1>3. AfterHead(data0, 0, P, cells, code, in)
    <2>1. 0 \in Nat /\ Headed(code, 0, P, cells)
      OBVIOUS
    <2> HIDE DEF P, in
    <2> QED BY <1>1, <1>2, <2>1, HeadTaken
  <1> HIDE DEF P
  <1>4. /\ in \in Seq(Nat) /\ Begins(in, cells) /\ Sym(data0, 1) = 0
        /\ Drop(in, area) = Drop(data0, Len(code)) /\ area <= Len(in)
    BY <1>3 DEF AfterHead
  <1> HIDE DEF in, area, r
  <1>5. r = [job |-> Rows(t, px), in |-> Drop(in, area)]
    <2> DEFINE mode == Sym(data0, 1)
               n == mode % 128
               palette == ZrlePalette(data0, n)
    <2>1. mode = 0 /\ n = 0 /\ mode \in Nat /\ n \in Nat /\ mode < 128
      BY <1>4
    <2>2. mode = Sym(data0, 1) /\ n = mode % 128 /\ palette = ZrlePalette(data0, n)
      OBVIOUS
    <2> HIDE DEF mode, n, palette
    <2>3. in = Drop(data0, n + 1)
      BY <2>1 DEF in
    <2>4. Moded(data0, mode, n, in, palette)
      BY <2>1, <2>2, <2>3 DEF Moded
    <2>5. area = t.w * t.h
      BY DEF area
    <2> HIDE DEF px
    <2>6. Read(DecodeZrleTile(data0, t), Rows(t, Take(in, area)), Drop(in, area))
      <3>1. n = 0 /\ mode < 128
        BY <2>1
      <3> QED BY <3>1, <2>4, <2>5, ReadRaw
    <2> QED BY <2>6 DEF r, px, Read
  <1>6. px = cells
    <2>1. \A i \in 1 .. area : Sym(in, i) = cells[i]
      <3>1. \A i \in 1 .. area : in[i] = cells[i]
        BY <1>4 DEF Begins, area
      <3>2. \A i \in 1 .. area : i \in DOMAIN in
        BY <1>1, <1>4
      <3> QED BY <3>1, <3>2 DEF Sym
    <2>2. px = [i \in 1 .. area |-> Sym(in, i)]
      BY DEF Take
    <2>3. cells = [i \in 1 .. area |-> cells[i]]
      BY DEF area
    <2> QED BY <2>1, <2>2, <2>3
  <1> HIDE DEF px
  <1>7. r.in = Drop(data0, Len(code)) /\ r.job = Rows(t, cells)
    BY <1>4, <1>5, <1>6
  <1>8. Good(<<r.job>>, t, cells)
    <2> DEFINE j == r.job
    <2>1. j \in {Rows(t, cells), Bitmap(t, cells)}
      BY <1>7
    <2> HIDE DEF j
    <2>2. Good(<<j>>, t, cells)
      BY <2>1, BlockExact
    <2> QED BY <2>2 DEF j
  <1> QED BY <1>7, <1>8 DEF TileTaken, r

(* The head of a tile's code is its mode and palette, and the palette is read. *)
HeadRead(data0, mode, P, rest, code, n, in, palette) ==
  /\ Moded(data0, mode, n, in, palette)
  /\ AfterHead(data0, mode, P, rest, code, in)
  /\ \A i \in 0 .. n - 1 : palette[i] = P[i + 1]

(* The head of a tile, with its palette. *)
LEMMA HeadIsRead ==
  ASSUME NEW mode \in Nat, NEW n, n = mode % 128, NEW P \in Seq(Nat), Len(P) = n, NEW rest \in Seq(Nat),
         NEW code, Headed(code, mode, P, rest), NEW data0 \in Seq(Nat), Begins(data0, code),
         NEW in, in = Drop(data0, n + 1), NEW palette, palette = ZrlePalette(data0, n)
  PROVE  HeadRead(data0, mode, P, rest, code, n, in, palette)
  <1>1. n \in 0 .. 127 /\ n \in Nat
    OBVIOUS
  <1>2. AfterHead(data0, mode, P, rest, code, in)
    <2>1. in = Drop(data0, Len(P) + 1)
      OBVIOUS
    <2> QED BY <2>1, HeadTaken
  <1>3. Sym(data0, 1) = mode /\ \A i \in 1 .. Len(P) : Sym(data0, i + 1) = P[i]
    BY <1>2 DEF AfterHead
  <1>4. Moded(data0, mode, n, in, palette)
    BY <1>1, <1>3 DEF Moded
  <1>5. ASSUME NEW i \in 0 .. n - 1 PROVE palette[i] = P[i + 1]
    <2>1. i \in 0 .. 255 /\ i < n /\ i + 1 \in 1 .. Len(P) /\ (i + 1) + 1 = i + 2
      BY <1>1
    <2>2. palette[i] = Sym(data0, i + 2)
      BY <2>1 DEF ZrlePalette
    <2>3. Sym(data0, (i + 1) + 1) = P[i + 1]
      BY <1>3, <2>1
    <2> QED BY <2>1, <2>2, <2>3
  <1> QED BY <1>2, <1>4, <1>5 DEF HeadRead

(* A tile of one colour. *)
LEMMA SolidTaken ==
  ASSUME NEW t \in Tile, NEW cells, NEW P \in Seq(Nat), Len(P) = 1, AllAre(cells, t.w * t.h, P[1]),
         NEW code, Headed(code, 1, P, <<>>), NEW data0 \in Seq(Nat), Begins(data0, code)
  PROVE  TileTaken(DecodeZrleTile(data0, t), data0, code, t, cells)
  <1> DEFINE mode == 1
             n == 1
             rest == <<>>
             in == Drop(data0, n + 1)
             palette == ZrlePalette(data0, n)
             r == DecodeZrleTile(data0, t)
             c == P[1]
  <1>1. /\ mode \in Nat /\ n = mode % 128 /\ rest \in Seq(Nat) /\ Len(rest) = 0 /\ Len(P) = n
        /\ in = Drop(data0, n + 1) /\ palette = ZrlePalette(data0, n) /\ n = 1 /\ 1 \in DOMAIN P
        /\ Headed(code, mode, P, rest)
    OBVIOUS
  <1> HIDE DEF mode, n, rest, in, palette
  <1>2. HeadRead(data0, mode, P, rest, code, n, in, palette)
    BY <1>1, HeadIsRead
  <1>3. /\ Moded(data0, mode, n, in, palette) /\ palette[0] = c /\ in \in Seq(Nat)
        /\ Drop(in, Len(rest)) = Drop(data0, Len(code))
    <2>1. Moded(data0, mode, n, in, palette) /\ AfterHead(data0, mode, P, rest, code, in)
      BY <1>2 DEF HeadRead
    <2>2. palette[0] = c
      <3>1. \A i \in 0 .. n - 1 : palette[i] = P[i + 1]
        BY <1>2 DEF HeadRead
      <3> QED BY <1>1, <3>1
    <2> QED BY <2>1, <2>2 DEF AfterHead
  <1>4. c \in Nat
    BY <1>1
  <1>5. Drop(in, Len(rest)) = in
    <2>1. Drop(in, 0) = in
      BY <1>3, WholeIs
    <2> QED BY <1>1, <2>1
  <1> HIDE DEF r
  <1>6. r.job = Fill(t, c) /\ r.in = in
    <2> DEFINE area == t.w * t.h
    <2>1. area = t.w * t.h
      OBVIOUS
    <2> HIDE DEF area, c
    <2>2. Read(DecodeZrleTile(data0, t), Fill(t, palette[0]), in)
      BY <1>1, <1>3, <2>1, ReadSolid
    <2> QED BY <1>3, <2>2 DEF Read, r
  <1>7. Good(<<r.job>>, t, cells)
    <2>1. AllAre(cells, t.w * t.h, c)
      OBVIOUS
    <2> HIDE DEF c
    <2>2. Good(<<Fill(t, c)>>, t, cells)
      BY <1>4, <2>1, FillExact
    <2> QED BY <1>6, <2>2
  <1>8. r.in = Drop(data0, Len(code))
    BY <1>3, <1>5, <1>6
  <1> QED BY <1>7, <1>8 DEF TileTaken, r

(* Runs of colours. *)
LEMMA PlainTaken ==
  ASSUME NEW t \in Tile, NEW cells \in Seq(Nat), Len(cells) = t.w * t.h,
         NEW runs, IsRuns(cells, t.w * t.h, runs),
         NEW pieces, PlainPieces(pieces, runs),
         NEW code, Headed(code, 128, <<>>, FlattenSeq(pieces)), NEW data0 \in Seq(Nat), Begins(data0, code)
  PROVE  TileTaken(DecodeZrleTile(data0, t), data0, code, t, cells)
  <1> DEFINE mode == 128
             n == 0
             P == <<>>
             rest == FlattenSeq(pieces)
             in == Drop(data0, n + 1)
             palette == ZrlePalette(data0, n)
             r == DecodeZrleTile(data0, t)
             area == t.w * t.h
  <1>1. /\ mode \in Nat /\ n = mode % 128 /\ Len(P) = n /\ P \in Seq(Nat)
        /\ in = Drop(data0, n + 1) /\ palette = ZrlePalette(data0, n) /\ n = 0 /\ n \in Nat /\ n # 1 /\ mode >= 128
        /\ Headed(code, mode, P, rest)
    OBVIOUS
  <1>2. area \in Nat \ {0} /\ area = Len(cells) /\ area = t.w * t.h /\ IsRuns(cells, area, runs)
    BY AreaIs
  <1> HIDE DEF mode, n, P, in, palette, area
  <1>3. pieces \in Seq(Seq(Nat)) /\ Turning(pieces, runs, cells, n, palette, area)
    <2>1. Turning(pieces, runs, cells, 0, palette, area)
      BY <1>2, PlainTurns
    <2> QED BY <1>1, <2>1 DEF Turning
  <1>4. rest \in Seq(Nat)
    BY <1>3, FlatOf
  <1> HIDE DEF rest
  <1>5. HeadRead(data0, mode, P, rest, code, n, in, palette)
    BY <1>1, <1>4, HeadIsRead
  <1>6. /\ Moded(data0, mode, n, in, palette) /\ in \in Seq(Nat) /\ Begins(in, rest)
        /\ Drop(in, Len(rest)) = Drop(data0, Len(code))
    BY <1>5 DEF HeadRead, AfterHead
  <1>7. TakeRuns(in, n, palette, area) = Taken(cells, Drop(in, Len(rest)))
    <2>1. rest = FlattenSeq(pieces) /\ Len(cells) = area
      BY <1>2 DEF rest
    <2> QED BY <1>2, <1>3, <1>6, <2>1, RunsTaken
  <1> HIDE DEF r
  <1>8. r.job = Bitmap(t, cells) /\ r.in = Drop(in, Len(rest))
    <2>1. Read(DecodeZrleTile(data0, t), Bitmap(t, TakeRuns(in, n, palette, area).cells), TakeRuns(in, n, palette, area).in)
      BY <1>1, <1>2, <1>6, ReadRuns
    <2> QED BY <1>7, <2>1 DEF Read, r, Taken
  <1>9. Good(<<r.job>>, t, cells)
    BY <1>8, BlockExact
  <1> QED BY <1>6, <1>8, <1>9 DEF TileTaken, r

Palette(cells, P, n, s) == P = PaletteOf(cells) /\ n = Len(P) /\ n > 1 /\ s = Indices(cells)

(* Sequences over a larger set. *)
LEMMA SeqWithin ==
  ASSUME NEW S, NEW T, S \subseteq T, NEW s \in Seq(S)
  PROVE  s \in Seq(T)
  OBVIOUS

(* Colours are numbers. *)
LEMMA SeqNat ==
  ASSUME NEW s \in Seq(1 .. 99)
  PROVE  s \in Seq(Nat)
  <1> DEFINE C == 1 .. 99
  <1>1. C \subseteq Nat /\ s \in Seq(C)
    OBVIOUS
  <1> HIDE DEF C
  <1> QED BY <1>1, SeqWithin

IndexMode(n, mode) == mode \in Nat /\ n = mode % 128 /\ mode >= 128 /\ n # 1 /\ n \in 1 .. 99
PackedMode(n) == n \in Nat /\ n = n % 128 /\ n < 128 /\ n > 1

(* The two modes with a palette tell its size. *)
LEMMA ModeOf ==
  ASSUME NEW n \in 2 .. 99
  PROVE  PackedMode(n) /\ IndexMode(n, n + 128)
  BY DEF PackedMode, IndexMode

PaletteFacts(cells, P, n, s) ==
  /\ P \in Seq(Nat) /\ cells \in Seq(Nat) /\ n \in 2 .. 99 /\ n = Len(P)
  /\ s \in Seq(Nat) /\ Len(s) = Len(cells)
  /\ \A k \in 1 .. Len(cells) : s[k] \in 0 .. n - 1 /\ P[s[k] + 1] = cells[k]

(* What is used of a palette. *)
LEMMA PaletteHas ==
  ASSUME NEW cells \in Seq(1 .. 99), NEW P, NEW n, NEW s, Palette(cells, P, n, s)
  PROVE  PaletteFacts(cells, P, n, s)
  <1>1. P = PaletteOf(cells) /\ n = Len(P) /\ n > 1 /\ s = Indices(cells)
    BY DEF Palette
  <1>2. P \in Seq(1 .. 99) /\ Len(P) \in Nat /\ Len(P) <= 99
    BY <1>1, PaletteFits
  <1>3. P \in Seq(Nat) /\ cells \in Seq(Nat)
    BY <1>2, SeqNat
  <1>4. n \in 2 .. 99
    <2>1. n > 1 /\ n \in Nat /\ n <= 99
      BY <1>1, <1>2
    <2> QED BY <2>1
  <1>5. s \in Seq(Nat) /\ Len(s) = Len(cells) /\ \A k \in 1 .. Len(cells) : s[k] \in 0 .. Len(P) - 1 /\ P[s[k] + 1] = cells[k]
    BY <1>1, IndicesAre
  <1> QED BY <1>1, <1>3, <1>4, <1>5 DEF PaletteFacts

(* The indices of a tile lead to its pixels by the palette that was read. *)
LEMMA IndicesLook ==
  ASSUME NEW cells, NEW area, area = Len(cells), NEW P, NEW n, NEW s, PaletteFacts(cells, P, n, s),
         NEW palette, \A i \in 0 .. n - 1 : palette[i] = P[i + 1]
  PROVE  Looks(palette, s, n, cells, area)
  <1>1. ASSUME NEW k \in 1 .. area PROVE s[k] \in 0 .. n - 1 /\ palette[s[k]] = cells[k]
    <2>1. s[k] \in 0 .. n - 1 /\ P[s[k] + 1] = cells[k]
      BY DEF PaletteFacts
    <2> QED BY <2>1
  <1> QED BY <1>1 DEF Looks

(* The palette that was read looks up the pixels. *)
LEMMA HeadLooks ==
  ASSUME NEW cells, NEW area, area = Len(cells), NEW P, NEW n, NEW s, PaletteFacts(cells, P, n, s),
         NEW data0, NEW mode, NEW rest, NEW code, NEW in, NEW palette,
         HeadRead(data0, mode, P, rest, code, n, in, palette)
  PROVE  Looks(palette, s, n, cells, area)
  <1>1. \A i \in 0 .. n - 1 : palette[i] = P[i + 1]
    BY DEF HeadRead
  <1> QED BY <1>1, IndicesLook

(* Runs of indices are bytes. *)
LEMMA IndexedIn ==
  ASSUME NEW cells \in Seq(Nat), NEW area, area = Len(cells), NEW P, NEW n \in 1 .. 99, NEW s,
         PaletteFacts(cells, P, n, s), NEW runs, IsRuns(s, area, runs), NEW pieces, IndexedPieces(pieces, runs)
  PROVE  pieces \in Seq(Seq(Nat)) /\ FlattenSeq(pieces) \in Seq(Nat)
  <1> DEFINE look == [i \in 0 .. n - 1 |-> P[i + 1]]
  <1>1. Looks(look, s, n, cells, area)
    <2>1. \A i \in 0 .. n - 1 : look[i] = P[i + 1]
      OBVIOUS
    <2> HIDE DEF look
    <2> QED BY <2>1, IndicesLook
  <1> HIDE DEF look
  <1>2. Turning(pieces, runs, cells, n, look, area)
    BY <1>1, IndexedTurns
  <1>3. pieces \in Seq(Seq(Nat))
    BY <1>2 DEF Turning
  <1> QED BY <1>3, FlatOf

(* Runs of places in the palette. *)
LEMMA IndexedTaken ==
  ASSUME NEW t \in Tile, NEW cells \in Seq(1 .. 99), Len(cells) = t.w * t.h,
         NEW P, NEW n, NEW s, Palette(cells, P, n, s), NEW runs, IsRuns(s, t.w * t.h, runs), NEW pieces, IndexedPieces(pieces, runs),
         NEW mode, mode = n + 128,
         NEW code, Headed(code, mode, P, FlattenSeq(pieces)), NEW data0 \in Seq(Nat), Begins(data0, code)
  PROVE  TileTaken(DecodeZrleTile(data0, t), data0, code, t, cells)
  <1> DEFINE rest == FlattenSeq(pieces)
             in == Drop(data0, n + 1)
             palette == ZrlePalette(data0, n)
             r == DecodeZrleTile(data0, t)
             area == t.w * t.h
  <1>1. area \in Nat \ {0} /\ area = Len(cells) /\ area = t.w * t.h /\ IsRuns(s, area, runs)
    BY AreaIs
  <1>2. PaletteFacts(cells, P, n, s)
    BY PaletteHas
  <1>3. n \in 2 .. 99 /\ P \in Seq(Nat) /\ cells \in Seq(Nat) /\ Len(P) = n
    BY <1>2 DEF PaletteFacts
  <1>4. n \in 1 .. 99 /\ mode \in Nat /\ n = mode % 128 /\ n # 1 /\ mode >= 128
    BY <1>3, ModeOf DEF IndexMode
  <1>5. in = Drop(data0, n + 1) /\ palette = ZrlePalette(data0, n)
    OBVIOUS
  <1> HIDE DEF in, palette, area
  <1>6. rest \in Seq(Nat) => HeadRead(data0, mode, P, rest, code, n, in, palette)
    <2> SUFFICES ASSUME rest \in Seq(Nat) PROVE HeadRead(data0, mode, P, rest, code, n, in, palette)
      OBVIOUS
    <2>1. Headed(code, mode, P, rest)
      OBVIOUS
    <2> HIDE DEF rest
    <2> QED BY <1>3, <1>4, <1>5, <2>1, HeadIsRead
  <1>7. Looks(palette, s, n, cells, area) =>
          pieces \in Seq(Seq(Nat)) /\ Turning(pieces, runs, cells, n, palette, area)
    <2> SUFFICES ASSUME Looks(palette, s, n, cells, area)
                 PROVE  pieces \in Seq(Seq(Nat)) /\ Turning(pieces, runs, cells, n, palette, area)
      OBVIOUS
    <2>1. Turning(pieces, runs, cells, n, palette, area)
      BY <1>1, <1>3, <1>4, IndexedTurns
    <2> QED BY <2>1 DEF Turning
  <1>8. rest \in Seq(Nat)
    BY <1>1, <1>2, <1>3, <1>4, IndexedIn
  <1> HIDE DEF rest
  <1>9. HeadRead(data0, mode, P, rest, code, n, in, palette)
    BY <1>6, <1>8
  <1>10. /\ Moded(data0, mode, n, in, palette) /\ in \in Seq(Nat) /\ Begins(in, rest)
         /\ Drop(in, Len(rest)) = Drop(data0, Len(code))
    BY <1>9 DEF HeadRead, AfterHead
  <1>11. pieces \in Seq(Seq(Nat)) /\ Turning(pieces, runs, cells, n, palette, area)
    <2>1. Looks(palette, s, n, cells, area)
      BY <1>1, <1>2, <1>9, HeadLooks
    <2> QED BY <1>7, <2>1
  <1>12. TakeRuns(in, n, palette, area) = Taken(cells, Drop(in, Len(rest)))
    <2>1. rest = FlattenSeq(pieces) /\ Len(cells) = area
      BY <1>1 DEF rest
    <2> QED BY <1>1, <1>3, <1>10, <1>11, <2>1, RunsTaken
  <1> HIDE DEF r
  <1>13. r.job = Bitmap(t, cells) /\ r.in = Drop(in, Len(rest))
    <2>1. Read(DecodeZrleTile(data0, t), Bitmap(t, TakeRuns(in, n, palette, area).cells), TakeRuns(in, n, palette, area).in)
      BY <1>1, <1>4, <1>10, ReadRuns
    <2> QED BY <1>12, <2>1 DEF Read, r, Taken
  <1>14. Good(<<r.job>>, t, cells)
    BY <1>3, <1>13, BlockExact
  <1> QED BY <1>10, <1>13, <1>14 DEF TileTaken, r

(* A number of n fits in the bits that are used for a palette of n colours. *)
LEMMA FitsBits ==
  ASSUME NEW n \in 2 .. 99
  PROVE  ZrleBits(n) \in {1, 2, 4, 8} /\ 0 .. n - 1 \subseteq Digits(ZrleBits(n))
  <1>1. CASE n > 16
    <2>1. ZrleBits(n) = 8
      BY <1>1 DEF ZrleBits
    <2>2. Digits(8) = 0 .. 255
      BY DEF Digits
    <2> QED BY <2>1, <2>2
  <1>2. CASE n > 4 /\ n <= 16
    <2>1. ZrleBits(n) = 4
      BY <1>2 DEF ZrleBits
    <2>2. Digits(4) = 0 .. 15
      BY DEF Digits
    <2> QED BY <1>2, <2>1, <2>2
  <1>3. CASE n > 2 /\ n <= 4
    <2>1. ZrleBits(n) = 2
      BY <1>3 DEF ZrleBits
    <2>2. Digits(2) = 0 .. 3
      BY DEF Digits
    <2> QED BY <1>3, <2>1, <2>2
  <1>4. CASE n = 2
    <2>1. ZrleBits(n) = 1
      BY <1>4 DEF ZrleBits
    <2>2. Digits(1) = 0 .. 1
      BY DEF Digits
    <2> QED BY <1>4, <2>1, <2>2
  <1> QED BY <1>1, <1>2, <1>3, <1>4

(* Packed places in the palette. *)
LEMMA PackedTaken ==
  ASSUME NEW t \in Tile, NEW cells \in Seq(1 .. 99), Len(cells) = t.w * t.h,
         NEW P, NEW n, NEW s, Palette(cells, P, n, s), NEW w, w = t.w, NEW rest, rest = Pack(s, w, ZrleBits(n)),
         NEW code, Headed(code, n, P, rest), NEW data0 \in Seq(Nat), Begins(data0, code)
  PROVE  TileTaken(DecodeZrleTile(data0, t), data0, code, t, cells)
  <1> DEFINE in == Drop(data0, n + 1)
             palette == ZrlePalette(data0, n)
             r == DecodeZrleTile(data0, t)
             h == t.h
             area == w * h
             b == ZrleBits(n)
             mode == n
  <1>1. area \in Nat \ {0} /\ area = Len(cells) /\ area = t.w * t.h /\ w \in Nat \ {0} /\ h \in Nat
    BY AreaIs
  <1>2. PaletteFacts(cells, P, n, s)
    BY PaletteHas
  <1>4. n \in 2 .. 99 /\ P \in Seq(Nat) /\ cells \in Seq(Nat) /\ Len(P) = n
    BY <1>2 DEF PaletteFacts
  <1>3. mode \in Nat /\ n = mode % 128 /\ mode < 128 /\ n > 1
    BY <1>4, ModeOf DEF PackedMode
  <1>5. in = Drop(data0, n + 1) /\ palette = ZrlePalette(data0, n) /\ Headed(code, mode, P, rest)
    OBVIOUS
  <1>6. b \in {1, 2, 4, 8} /\ 0 .. n - 1 \subseteq Digits(b)
    BY <1>4, FitsBits
  <1>7. area = w * h
    OBVIOUS
  <1> HIDE DEF in, palette, area, h, mode, b
  <1>8. s \in Seq(Digits(b)) /\ Len(s) = w * h
    <2>1. s \in Seq(Nat) /\ Len(s) = Len(cells) /\ \A k \in 1 .. Len(cells) : s[k] \in 0 .. n - 1
      BY <1>2 DEF PaletteFacts
    <2>2. \A k \in 1 .. Len(s) : s[k] \in Digits(b)
      BY <1>6, <2>1
    <2>3. s \in Seq(Digits(b))
      BY <2>1, <2>2
    <2> QED BY <1>1, <1>7, <2>1, <2>3
  <1>9. rest = Pack(s, w, b)
    BY DEF b
  <1>10. Packs(rest, s, w, h, b)
    <2>1. Packs(Pack(s, w, b), s, w, h, b)
      BY <1>1, <1>6, <1>8, PackIs
    <2> QED BY <1>9, <2>1
  <1>11. rest \in Seq(Nat) /\ Len(rest) = Padded(w * b) * h
    BY <1>10 DEF Packs
  <1>12. HeadRead(data0, mode, P, rest, code, n, in, palette)
    BY <1>3, <1>4, <1>5, <1>11, HeadIsRead
  <1>13. /\ Moded(data0, mode, n, in, palette) /\ in \in Seq(Nat) /\ Begins(in, rest)
         /\ Drop(in, Len(rest)) = Drop(data0, Len(code))
    BY <1>12 DEF HeadRead, AfterHead
  <1>14. PackedRows(in, w, area, b) = s
    <2>1. IsBlock(s, Digits(b), w, h, area)
      BY <1>1, <1>7, <1>8 DEF IsBlock
    <2> QED BY <1>6, <1>9, <1>13, <2>1, Unpacked
  <1>15. Looked(palette, s, area) = cells
    <2>1. Looks(palette, s, n, cells, area)
      BY <1>1, <1>2, <1>12, HeadLooks
    <2>2. \A k \in 1 .. area : palette[s[k]] = cells[k]
      BY <2>1 DEF Looks
    <2>3. cells = [k \in 1 .. area |-> cells[k]]
      BY <1>1
    <2> QED BY <2>2, <2>3 DEF Looked
  <1> HIDE DEF r
  <1>16. r.job = Bitmap(t, cells) /\ r.in = Drop(in, Len(rest))
    <2>1. Read(DecodeZrleTile(data0, t), Bitmap(t, Looked(palette, PackedRows(in, t.w, area, ZrleBits(n)), area)),
               Drop(in, Padded(t.w * ZrleBits(n)) * t.h))
      BY <1>1, <1>3, <1>13, ReadPacked
    <2>2. ZrleBits(n) = b /\ t.w = w /\ t.h = h
      BY DEF b, h
    <2> QED BY <1>11, <1>14, <1>15, <2>1, <2>2 DEF Read, r
  <1>17. Good(<<r.job>>, t, cells)
    <2>1. Len(cells) = t.w * t.h
      OBVIOUS
    <2> QED BY <1>4, <1>16, <2>1, BlockExact
  <1> QED BY <1>13, <1>16, <1>17 DEF TileTaken, r

(* The modes the server chooses from. *)
ZrleModes == {"raw", "packed", "runs", "indexed"}

IsRaw(code, cells) == Headed(code, 0, <<>>, cells)
IsSolid(code, cells, area) ==
  \E P \in Seq(Nat) : Len(P) = 1 /\ AllAre(cells, area, P[1]) /\ Headed(code, 1, P, <<>>)
IsPlain(code, cells, area) ==
  \E runs, pieces : IsRuns(cells, area, runs) /\ PlainPieces(pieces, runs) /\ Headed(code, 128, <<>>, FlattenSeq(pieces))
IsPacked(code, cells, w) ==
  \E P, n, s : Palette(cells, P, n, s) /\ Headed(code, n, P, Pack(s, w, ZrleBits(n)))
IsIndexed(code, cells, area) ==
  \E P, n, s, runs, pieces :
    /\ Palette(cells, P, n, s) /\ IsRuns(s, area, runs) /\ IndexedPieces(pieces, runs)
    /\ Headed(code, n + 128, P, FlattenSeq(pieces))

ZrleCode(mode, n, raw, runs, solid, packed, other) ==
  CASE mode = "raw" -> raw
    [] mode = "runs" -> runs
    [] mode \notin {"raw", "runs"} /\ n = 1 -> solid
    [] mode = "packed" /\ n > 1 -> packed
    [] OTHER -> other

(* The server codes a tile in one of five ways. *)
LEMMA ZrleCoded ==
  ASSUME NEW mode, mode \in ZrleModes, NEW n \in Nat \ {0}, NEW raw, NEW runs, NEW solid, NEW packed, NEW other
  PROVE  LET c == ZrleCode(mode, n, raw, runs, solid, packed, other)
         IN c = raw \/ c = runs \/ (n = 1 /\ c = solid) \/ (n > 1 /\ c = packed) \/ (n > 1 /\ c = other)
  BY DEF ZrleCode, ZrleModes

(* The code of a tile has one of five forms. *)
LEMMA ZrleForm ==
  ASSUME NEW cells \in Seq(1 .. 99), NEW area, area = Len(cells), area # 0, NEW w, NEW mode, mode \in ZrleModes,
         NEW code, code = ZrleTileOf(cells, w, mode)
  PROVE  \/ IsRaw(code, cells) \/ IsSolid(code, cells, area) \/ IsPlain(code, cells, area)
         \/ IsPacked(code, cells, w) \/ IsIndexed(code, cells, area)
  <1> DEFINE P == PaletteOf(cells)
             n == Len(P)
             s == Indices(cells)
             runs == RunsOf(cells)
             indexed == RunsOf(s)
             plains == [k \in DOMAIN runs |-> <<runs[k].colour>> \o RunBytes(runs[k].length)]
             places == [k \in DOMAIN indexed |->
                          IF indexed[k].length = 1 THEN <<indexed[k].colour>>
                          ELSE <<indexed[k].colour + 128>> \o RunBytes(indexed[k].length)]
             cRaw == <<0>> \o cells
             cRuns == <<128>> \o FlattenSeq(plains)
             cSolid == <<1>> \o P
             cPacked == <<n>> \o P \o Pack(s, w, ZrleBits(n))
             cOther == <<128 + n>> \o P \o FlattenSeq(places)
  <1>1. code = ZrleCode(mode, n, cRaw, cRuns, cSolid, cPacked, cOther)
    BY Zenon DEF ZrleTileOf, ZrleCode, ZrleBits
  <1>2. /\ P \in Seq(1 .. 99) /\ n \in Nat /\ n <= 99 /\ (Len(cells) > 0 => n > 0)
        /\ \A k \in 1 .. Len(cells) : \E i \in 1 .. n : P[i] = cells[k]
    BY PaletteFits
  <1>3. n \in Nat \ {0} /\ area \in Nat
    <2>1. Len(cells) \in Nat
      OBVIOUS
    <2>2. Len(cells) > 0
      BY <2>1
    <2>3. n \in Nat /\ n > 0
      BY <1>2, <2>2
    <2> HIDE DEF n
    <2> QED BY <2>1, <2>3
  <1>4. P \in Seq(Nat) /\ cells \in Seq(Nat) /\ s \in Seq(Nat) /\ Len(s) = area
    BY <1>2, SeqNat, IndicesAre
  <1>5. IsRuns(cells, area, runs) /\ IsRuns(s, area, indexed)
    BY <1>4, RunsAre
  <1>6. runs \in Seq(Run) /\ indexed \in Seq(Run)
    BY <1>5 DEF IsRuns
  <1>7. PlainPieces(plains, runs) /\ IndexedPieces(places, indexed)
    <2>1. DOMAIN runs = 1 .. Len(runs) /\ DOMAIN indexed = 1 .. Len(indexed)
      BY <1>6
    <2> HIDE DEF runs, indexed
    <2> QED BY <2>1 DEF PlainPieces, IndexedPieces, PlainCode, IndexedCode
  <1>8. n > 1 => Palette(cells, P, n, s)
    BY DEF Palette
  <1> HIDE DEF P, n, s, runs, indexed, plains, places
  <1> DEFINE zero == <<0>>
             one == <<1>>
             all == <<128>>
             none == <<>>
  <1>9. zero \in Seq(Nat) /\ one \in Seq(Nat) /\ all \in Seq(Nat)
    OBVIOUS
  <1>10. CASE code = cRaw
    <2>1. zero \o none = zero
      <3> HIDE DEF zero
      <3> QED BY <1>9, JoinEmpty
    <2>2. Headed(code, 0, <<>>, cells)
      BY <1>10, <2>1 DEF Headed
    <2> QED BY <2>2 DEF IsRaw
  <1>11. CASE code = cRuns
    <2>1. all \o none = all
      <3> HIDE DEF all
      <3> QED BY <1>9, JoinEmpty
    <2>2. Headed(code, 128, <<>>, FlattenSeq(plains))
      BY <1>11, <2>1 DEF Headed
    <2> QED BY <1>5, <1>7, <2>2 DEF IsPlain
  <1>12. CASE n = 1 /\ code = cSolid
    <2>1. one \o P \in Seq(Nat)
      <3> HIDE DEF one
      <3> QED BY <1>4, <1>9
    <2>2. (one \o P) \o none = one \o P
      <3> DEFINE z == one \o P
      <3>1. z \in Seq(Nat)
        BY <2>1
      <3> HIDE DEF z
      <3>2. z \o <<>> = z
        BY <3>1, JoinEmpty
      <3> QED BY <3>2 DEF z
    <2>3. Headed(code, 1, P, <<>>)
      BY <1>12, <2>2 DEF Headed
    <2>4. AllAre(cells, area, P[1])
      <3>1. \A k \in 1 .. area : \E i \in 1 .. n : P[i] = cells[k]
        BY <1>2 DEF P, n
      <3>2. \A k \in 1 .. area : P[1] = cells[k]
        BY <1>12, <3>1
      <3> QED BY <3>2 DEF AllAre
    <2>5. Len(P) = 1
      BY <1>12 DEF n
    <2> QED BY <1>4, <2>3, <2>4, <2>5 DEF IsSolid
  <1>13. CASE n > 1 /\ code = cPacked
    <2>1. Headed(code, n, P, Pack(s, w, ZrleBits(n)))
      BY <1>13 DEF Headed
    <2> QED BY <1>8, <1>13, <2>1 DEF IsPacked
  <1>14. CASE n > 1 /\ code = cOther
    <2>1. 128 + n = n + 128
      BY <1>3
    <2>2. Headed(code, n + 128, P, FlattenSeq(places))
      BY <1>14, <2>1 DEF Headed
    <2> QED BY <1>5, <1>7, <1>8, <1>14, <2>2 DEF IsIndexed
  <1> HIDE DEF cRaw, cRuns, cSolid, cPacked, cOther
  <1>15. \/ code = cRaw \/ code = cRuns \/ (n = 1 /\ code = cSolid)
         \/ (n > 1 /\ code = cPacked) \/ (n > 1 /\ code = cOther)
    BY <1>1, <1>3, ZrleCoded
  <1> QED BY <1>10, <1>11, <1>12, <1>13, <1>14, <1>15

(* A code is bytes. *)
LEMMA CodeIn ==
  ASSUME NEW m \in Nat, NEW P \in Seq(Nat), NEW rest \in Seq(Nat), NEW code, Headed(code, m, P, rest)
  PROVE  code \in Seq(Nat)
  <1> DEFINE u == <<m>>
  <1>1. u \in Seq(Nat)
    OBVIOUS
  <1>2. code = u \o P \o rest
    BY DEF Headed
  <1> HIDE DEF u
  <1>3. u \o P \in Seq(Nat)
    BY <1>1
  <1> QED BY <1>2, <1>3

ZrleReads(code, t, cells) ==
  /\ code \in Seq(Nat)
  /\ \A data0 \in Seq(Nat) : Begins(data0, code) => TileTaken(DecodeZrleTile(data0, t), data0, code, t, cells)

(* handle_zrle_tile takes a tile's code, and no more, and draws the tile. *)
LEMMA ZrleTileTaken ==
  ASSUME NEW t \in Tile, NEW cells \in Seq(1 .. 99), Len(cells) = t.w * t.h,
         NEW mode, mode \in ZrleModes, NEW code, code = ZrleTileOf(cells, t.w, mode)
  PROVE  ZrleReads(code, t, cells)
  <1> DEFINE area == t.w * t.h
             w == t.w
             h == t.h
             Took(data0) == TileTaken(DecodeZrleTile(data0, t), data0, code, t, cells)
             none == <<>>
  <1>1. area \in Nat \ {0} /\ area = Len(cells) /\ area # 0 /\ w \in Nat \ {0} /\ h \in Nat
    BY AreaIs
  <1>2. cells \in Seq(Nat) /\ none \in Seq(Nat)
    BY SeqNat
  <1>3. \/ IsRaw(code, cells) \/ IsSolid(code, cells, area) \/ IsPlain(code, cells, area)
        \/ IsPacked(code, cells, w) \/ IsIndexed(code, cells, area)
    <2> HIDE DEF area
    <2> QED BY <1>1, ZrleForm
  <1> HIDE DEF Took
  <1>4. CASE IsRaw(code, cells)
    <2>1. Headed(code, 0, none, cells)
      BY <1>4 DEF IsRaw
    <2>2. code \in Seq(Nat)
      <3>1. 0 \in Nat
        OBVIOUS
      <3> HIDE DEF none
      <3> QED BY <1>2, <2>1, <3>1, CodeIn
    <2>3. ASSUME NEW data0 \in Seq(Nat), Begins(data0, code) PROVE Took(data0)
      BY <1>2, <2>1, <2>3, RawTaken DEF Took
    <2> QED BY <2>2, <2>3 DEF ZrleReads, Took
  <1>5. CASE IsSolid(code, cells, area)
    <2>1. PICK P \in Seq(Nat) : Len(P) = 1 /\ AllAre(cells, area, P[1]) /\ Headed(code, 1, P, none)
      BY <1>5 DEF IsSolid
    <2>2. code \in Seq(Nat)
      <3>1. 1 \in Nat
        OBVIOUS
      <3> HIDE DEF none
      <3> QED BY <1>2, <2>1, <3>1, CodeIn
    <2>3. ASSUME NEW data0 \in Seq(Nat), Begins(data0, code) PROVE Took(data0)
      BY <2>1, <2>3, SolidTaken DEF Took
    <2> QED BY <2>2, <2>3 DEF ZrleReads, Took
  <1>6. CASE IsPlain(code, cells, area)
    <2>1. PICK runs, pieces : IsRuns(cells, area, runs) /\ PlainPieces(pieces, runs) /\ Headed(code, 128, none, FlattenSeq(pieces))
      BY <1>6 DEF IsPlain
    <2>2. FlattenSeq(pieces) \in Seq(Nat)
      <3> DEFINE palette == <<>>
      <3> HIDE DEF palette, area
      <3>1. Turning(pieces, runs, cells, 0, palette, area)
        BY <1>1, <1>2, <2>1, PlainTurns
      <3>2. pieces \in Seq(Seq(Nat))
        BY <3>1 DEF Turning
      <3> QED BY <3>2, FlatOf
    <2>3. code \in Seq(Nat)
      <3>1. 128 \in Nat
        OBVIOUS
      <3> HIDE DEF none
      <3> QED BY <1>2, <2>1, <2>2, <3>1, CodeIn
    <2>4. ASSUME NEW data0 \in Seq(Nat), Begins(data0, code) PROVE Took(data0)
      BY <1>2, <2>1, <2>4, PlainTaken DEF Took
    <2> QED BY <2>3, <2>4 DEF ZrleReads, Took
  <1>7. CASE IsPacked(code, cells, w)
    <2>1. PICK P, n, s : Palette(cells, P, n, s) /\ Headed(code, n, P, Pack(s, w, ZrleBits(n)))
      BY <1>7 DEF IsPacked
    <2>2. PaletteFacts(cells, P, n, s)
      BY <2>1, PaletteHas
    <2>3. n \in 2 .. 99 /\ n \in Nat /\ P \in Seq(Nat)
      <3>1. n \in 2 .. 99 /\ P \in Seq(Nat)
        BY <2>2 DEF PaletteFacts
      <3> QED BY <3>1
    <2> DEFINE rest == Pack(s, w, ZrleBits(n))
    <2>4. rest \in Seq(Nat)
      <3> DEFINE b == ZrleBits(n)
      <3>1. b \in {1, 2, 4, 8} /\ 0 .. n - 1 \subseteq Digits(b)
        BY <2>3, FitsBits
      <3> HIDE DEF b
      <3>2. s \in Seq(Nat) /\ Len(s) = area /\ \A k \in 1 .. area : s[k] \in 0 .. n - 1
        <4> HIDE DEF area
        <4> QED BY <1>1, <2>2 DEF PaletteFacts
      <3>3. s \in Seq(Digits(b))
        <4> HIDE DEF area
        <4>1. \A k \in 1 .. Len(s) : s[k] \in Digits(b)
          BY <3>1, <3>2
        <4> QED BY <3>2, <4>1
      <3>4. Len(s) = w * h
        BY <3>2
      <3> HIDE DEF w, h, area
      <3>5. Packs(Pack(s, w, b), s, w, h, b)
        BY <1>1, <3>1, <3>3, <3>4, PackIs
      <3> QED BY <3>5 DEF Packs, b
    <2>5. Headed(code, n, P, rest)
      BY <2>1
    <2>6. w = t.w /\ rest = Pack(s, w, ZrleBits(n))
      OBVIOUS
    <2> HIDE DEF rest, w
    <2>7. code \in Seq(Nat)
      BY <2>3, <2>4, <2>5, CodeIn
    <2>8. ASSUME NEW data0 \in Seq(Nat), Begins(data0, code) PROVE Took(data0)
      <3>1. n > 1
        BY <2>1 DEF Palette
      <3> QED BY <2>1, <2>5, <2>6, <2>8, <3>1, PackedTaken DEF Took
    <2> QED BY <2>7, <2>8 DEF ZrleReads, Took
  <1>8. CASE IsIndexed(code, cells, area)
    <2>1. PICK P, n, s, runs, pieces :
            /\ Palette(cells, P, n, s) /\ IsRuns(s, area, runs) /\ IndexedPieces(pieces, runs)
            /\ Headed(code, n + 128, P, FlattenSeq(pieces))
      BY <1>8 DEF IsIndexed
    <2>2. PaletteFacts(cells, P, n, s)
      BY <2>1, PaletteHas
    <2>3. n \in 2 .. 99 /\ P \in Seq(Nat)
      BY <2>2 DEF PaletteFacts
    <2> DEFINE mode0 == n + 128
    <2>4. mode0 \in Nat /\ n \in 1 .. 99
      BY <2>3
    <2>5. mode0 = n + 128 /\ Headed(code, mode0, P, FlattenSeq(pieces))
      BY <2>1
    <2> HIDE DEF mode0
    <2>6. FlattenSeq(pieces) \in Seq(Nat)
      <3> HIDE DEF area
      <3> QED BY <1>1, <1>2, <2>1, <2>2, <2>4, IndexedIn
    <2>7. code \in Seq(Nat)
      BY <2>3, <2>4, <2>5, <2>6, CodeIn
    <2>8. ASSUME NEW data0 \in Seq(Nat), Begins(data0, code) PROVE Took(data0)
      BY <2>1, <2>5, <2>8, IndexedTaken DEF Took
    <2> QED BY <2>7, <2>8 DEF ZrleReads, Took
  <1> HIDE DEF area, w
  <1> QED BY <1>3, <1>4, <1>5, <1>6, <1>7, <1>8

-----------------------------------------------------------------------------
(* zrle: the tiles of a rectangle, one after another. *)

(* One tile after another. *)
ZrleStep(d, t) == [jobs |-> Append(d.jobs, DecodeZrleTile(d.in, t).job), in |-> DecodeZrleTile(d.in, t).in]

(* DecodeZrle, tile by tile. *)
LEMMA ZrleSteps ==
  ASSUME NEW m, NEW left, Len(TileLoop(m.rect, ZrleTile)) \in Nat
  PROVE  \E g : /\ DecodeZrle(m, left) = g[Len(TileLoop(m.rect, ZrleTile))] /\ g[0] = [jobs |-> <<>>, in |-> left \o m.body]
                /\ \A k \in 1 .. Len(TileLoop(m.rect, ZrleTile)) : g[k] = ZrleStep(g[k - 1], TileLoop(m.rect, ZrleTile)[k])
  <1> DEFINE N == Len(TileLoop(m.rect, ZrleTile))
             Step(k, d) == ZrleStep(d, TileLoop(m.rect, ZrleTile)[k])
             base == [jobs |-> <<>>, in |-> left \o m.body]
             Eq(g, n) == g = [k \in 0 .. n |-> IF k = 0 THEN base ELSE Step(k, g[k - 1])]
             g == CHOOSE g : Eq(g, N)
             T == {n \in Nat : \E f : Eq(f, n)}
  <1>1. DecodeZrle(m, left) = g[N]
    BY DEF DecodeZrle, ZrleStep
  <1>2. N \in Nat
    OBVIOUS
  <1> HIDE DEF Step, base, N
  <1>3. 0 \in T
    <2> DEFINE f == [k \in 0 .. 0 |-> base]
    <2>1. Eq(f, 0)
      OBVIOUS
    <2> HIDE DEF f, Eq
    <2> QED BY <2>1
  <1>4. ASSUME NEW n \in Nat, n \in T PROVE n + 1 \in T
    <2>1. PICK f : Eq(f, n)
      BY <1>4
    <2> DEFINE h == [k \in 0 .. n + 1 |-> IF k = n + 1 THEN Step(k, f[n]) ELSE f[k]]
    <2>2. \A k \in 0 .. n + 1 : h[k] = IF k = 0 THEN base ELSE Step(k, h[k - 1])
      <3> SUFFICES ASSUME NEW k \in 0 .. n + 1 PROVE h[k] = IF k = 0 THEN base ELSE Step(k, h[k - 1])
        OBVIOUS
      <3>1. CASE k = n + 1
        <4>1. k # 0 /\ k - 1 = n /\ h[k] = Step(k, f[n]) /\ h[n] = f[n]
          BY <3>1
        <4> HIDE DEF h
        <4> QED BY <4>1
      <3>2. CASE k # n + 1
        <4>1. k \in 0 .. n /\ h[k] = f[k] /\ (k # 0 => h[k - 1] = f[k - 1])
          BY <3>2
        <4>2. f[k] = IF k = 0 THEN base ELSE Step(k, f[k - 1])
          BY <2>1, <4>1
        <4> HIDE DEF h
        <4> QED BY <4>1, <4>2
      <3> QED BY <3>1, <3>2
    <2>3. h = [k \in 0 .. n + 1 |-> h[k]]
      OBVIOUS
    <2>4. Eq(h, n + 1)
      <3> HIDE DEF h
      <3> QED BY <2>2, <2>3
    <2> HIDE DEF h, Eq
    <2> QED BY <2>4
  <1>5. Eq(g, N)
    <2> HIDE DEF Eq
    <2>1. N \in T
      <3> HIDE DEF T
      <3> QED BY <1>2, <1>3, <1>4, SetInduction
    <2>2. \E f : Eq(f, N)
      BY <2>1
    <2> QED BY <2>2
  <1> HIDE DEF g
  <1>6. g[0] = base /\ \A k \in 1 .. N : g[k] = Step(k, g[k - 1])
    <2>1. \A k \in 0 .. N : g[k] = IF k = 0 THEN base ELSE Step(k, g[k - 1])
      BY <1>5
    <2>2. 0 \in 0 .. N /\ \A k \in 1 .. N : k \in 0 .. N /\ k # 0
      BY <1>2
    <2> QED BY <2>1, <2>2
  <1> QED BY <1>1, <1>6 DEF Step, base, N

ZrleFrom(g, m, left, tiles, in) ==
  /\ DecodeZrle(m, left) = g[Len(tiles)] /\ g[0] = [jobs |-> <<>>, in |-> in]
  /\ \A k \in 1 .. Len(tiles) : g[k] = ZrleStep(g[k - 1], tiles[k])

(* The recursive function in DecodeZrle is defined. *)
LEMMA ZrleExists ==
  ASSUME NEW m, NEW left, NEW tiles, tiles = TileLoop(m.rect, ZrleTile), Len(tiles) \in Nat, NEW in, in = left \o m.body
  PROVE  \E g : ZrleFrom(g, m, left, tiles, in)
  <1>1. Len(TileLoop(m.rect, ZrleTile)) \in Nat
    OBVIOUS
  <1>2. PICK g : ZrleFrom(g, m, left, TileLoop(m.rect, ZrleTile), left \o m.body)
    BY <1>1, ZrleSteps DEF ZrleFrom
  <1>3. ZrleFrom(g, m, left, tiles, in)
    BY <1>2
  <1> QED BY <1>3

(* Joining to nothing. *)
LEMMA EmptyJoin ==
  ASSUME NEW S, NEW s \in Seq(S), NEW e, e = <<>>
  PROVE  e \o s = s
  <1> DEFINE z == e \o s
  <1>1. e \in Seq(S) /\ Len(e) = 0
    OBVIOUS
  <1>2. z \in Seq(S) /\ Len(z) = Len(e) + Len(s) /\ Len(s) \in Nat /\ \A i \in 1 .. Len(s) : z[Len(e) + i] = s[i]
    BY <1>1, JoinIs
  <1>3. Len(z) = Len(s)
    BY <1>1, <1>2
  <1>4. \A i \in 1 .. Len(s) : z[i] = s[i]
    <2> SUFFICES ASSUME NEW i \in 1 .. Len(s) PROVE z[i] = s[i]
      OBVIOUS
    <2>1. z[Len(e) + i] = s[i]
      BY <1>2
    <2>2. Len(e) + i = i
      BY <1>1, <1>2
    <2> HIDE DEF z
    <2> QED BY <2>1, <2>2
  <1> HIDE DEF z
  <1>5. z = s
    BY <1>2, <1>3, <1>4
  <1> QED BY <1>5 DEF z

(* Sequences of one piece each. *)
Singles(s, j, n, E) == n = Len(j) /\ s = [k \in 1 .. n |-> <<j[k]>>] /\ E = [k \in 0 .. n |-> k]

(* A sequence is flat parts of one element. *)
LEMMA SinglesFlat ==
  ASSUME NEW S, NEW j \in Seq(S), NEW n, NEW s, NEW E, Singles(s, j, n, E)
  PROVE  Flat(s, j, E) /\ Len(s) = n
  <1> USE DEF Singles
  <1>1. n \in Nat /\ Len(s) = n /\ E \in [0 .. n -> Nat] /\ E[0] = 0 /\ E[n] = n
    OBVIOUS
  <1>2. \A k \in 0 .. n : E[k] = k
    OBVIOUS
  <1>3. \A k \in 1 .. n : Len(s[k]) = 1 /\ s[k][1] = j[k]
    OBVIOUS
  <1>6. Len(j) = n
    OBVIOUS
  <1> HIDE DEF Flat
  <1>4. ASSUME NEW k \in 1 .. n
        PROVE  /\ E[k] = E[k - 1] + Len(s[k]) /\ \A i \in 1 .. Len(s[k]) : j[E[k - 1] + i] = s[k][i]
    <2>1. E[k] = k /\ E[k - 1] = k - 1 /\ (k - 1) + 1 = k
      BY <1>1, <1>2
    <2>2. Len(s[k]) = 1 /\ s[k][1] = j[k]
      BY <1>3
    <2>3. \A i \in 1 .. 1 : i = 1
      OBVIOUS
    <2> QED BY <2>1, <2>2, <2>3
  <1>5. \A i \in 1 .. n : i \in E[i - 1] + 1 .. E[i]
    <2> SUFFICES ASSUME NEW i \in 1 .. n PROVE i \in E[i - 1] + 1 .. E[i]
      OBVIOUS
    <2>1. E[i] = i /\ E[i - 1] = i - 1
      BY <1>1, <1>2
    <2> QED BY <2>1
  <1>7. \A k, l \in 0 .. n : k <= l => E[k] <= E[l]
    BY <1>2
  <1> QED BY <1>1, <1>4, <1>5, <1>6, <1>7 DEF Flat

(* One operation for each tile draws the block. *)
LEMMA TileJobsDraw ==
  ASSUME NEW r \in Tile, NEW side \in Nat \ {0}, NEW tiles, NEW cut,
         tiles = TileLoop(r, side), cut = TilesOf(r.w, r.h, side),
         NEW S, NEW cells \in Seq(S), Len(cells) = r.w * r.h,
         NEW js, NEW n, n = Len(tiles), n \in Nat, js \in [1 .. n -> Job],
         \A k \in 1 .. n : Good(<<js[k]>>, tiles[k], Cut(cells, r.w, cut[k]))
  PROVE  Good(js, r, cells)
  <1> DEFINE s == [k \in 1 .. n |-> <<js[k]>>]
             E == [k \in 0 .. n |-> k]
  <1>1. js \in Seq(Job) /\ Len(js) = n
    BY IsSeqOf
  <1>2. Flat(s, js, E) /\ Len(s) = n
    <2>1. Singles(s, js, n, E)
      BY <1>1 DEF Singles
    <2> HIDE DEF s, E
    <2> QED BY <1>1, <2>1, SinglesFlat
  <1>3. \A k \in 1 .. Len(s) : s[k] = <<js[k]>>
    BY <1>2
  <1> HIDE DEF s, E
  <1>4. \A k \in 1 .. Len(s) : Within(s[k], tiles[k]) /\ Draws(s[k], tiles[k], Cut(cells, r.w, cut[k]))
    BY <1>2, <1>3 DEF Good
  <1>5. Len(s) = Len(tiles)
    BY <1>2
  <1>6. /\ Within(js, r)
        /\ (\A k \in 1 .. Len(s) : Draws(s[k], tiles[k], Cut(cells, r.w, cut[k]))) => Draws(js, r, cells)
    BY <1>1, <1>2, <1>4, <1>5, TilesDraw
  <1> QED BY <1>4, <1>6 DEF Good

(* A prefix and the next element. *)
LEMMA PrefixAppend ==
  ASSUME NEW S, NEW s \in Seq(S), NEW k \in Nat, k + 1 <= Len(s), NEW e, e = s[k + 1]
  PROVE  Append(SubSeq(s, 1, k), e) = SubSeq(s, 1, k + 1)
  <1> DEFINE u == SubSeq(s, 1, k)
             v == SubSeq(s, 1, k + 1)
             z == Append(u, e)
             L == k + 1
  <1>0. L \in Nat /\ L = k + 1 /\ L \in 1 .. Len(s) /\ s[L] \in S
    OBVIOUS
  <1>1. u \in Seq(S) /\ Len(u) = k /\ \A i \in 1 .. k : u[i] = s[i]
    OBVIOUS
  <1>2. v \in Seq(S) /\ Len(v) = k + 1 /\ \A i \in 1 .. k + 1 : v[i] = s[i]
    OBVIOUS
  <1> HIDE DEF u, v
  <1>3. z \in Seq(S) /\ Len(z) = Len(u) + 1 /\ (\A i \in 1 .. Len(u) : z[i] = u[i]) /\ z[Len(u) + 1] = e
    <2>1. e \in S
      BY <1>0
    <2> HIDE DEF z
    <2> QED BY <1>1, <2>1, AddIs DEF z
  <1> HIDE DEF z
  <1>4. Len(z) = k + 1 /\ \A i \in 1 .. k + 1 : z[i] = v[i]
    <2>1. Len(z) = k + 1 /\ (\A i \in 1 .. k : z[i] = u[i]) /\ z[k + 1] = e
      BY <1>1, <1>3
    <2>2. ASSUME NEW i \in 1 .. k + 1 PROVE z[i] = v[i]
      <3>1. CASE i = k + 1
        BY <1>2, <2>1, <3>1
      <3>2. CASE i # k + 1
        <4>1. i \in 1 .. k
          BY <3>2
        <4> QED BY <1>1, <1>2, <2>1, <4>1
      <3> QED BY <3>1, <3>2
    <2> QED BY <2>1, <2>2
  <1>5. z = v
    BY <1>2, <1>3, <1>4
  <1> QED BY <1>5 DEF z, u, v

(* The element of a sequence of one. *)
LEMMA OnlyIn ==
  ASSUME NEW S, NEW j, <<j>> \in Seq(S)
  PROVE  j \in S
  <1> DEFINE one == <<j>>
  <1>1. one \in Seq(S) /\ Len(one) = 1 /\ one[1] = j
    OBVIOUS
  <1> HIDE DEF one
  <1>2. 1 \in 1 .. Len(one)
    BY <1>1
  <1>3. one[1] \in S
    BY <1>1, <1>2
  <1> QED BY <1>1, <1>3

(* Dropping all leaves nothing. *)
LEMMA DropAll ==
  ASSUME NEW S, NEW s \in Seq(S), NEW n, n = Len(s)
  PROVE  Drop(s, n) = <<>>
  <1> DEFINE d == Drop(s, n)
  <1>1. n \in Nat /\ n <= Len(s)
    OBVIOUS
  <1>2. d \in Seq(S) /\ Len(d) = Len(s) - n
    BY <1>1, DropIs
  <1>3. Len(s) - n = 0
    BY <1>1
  <1> HIDE DEF d
  <1>4. d = <<>>
    BY <1>2, <1>3
  <1> QED BY <1>4 DEF d

(* handle_zrle: the tiles' codes end to end, and nothing is left of them. *)
LEMMA ZrleDraws ==
  ASSUME NEW r \in Tile, NEW cells \in Seq(1 .. 99), Len(cells) = r.w * r.h,
         NEW mode, mode \in ZrleModes,
         NEW m, m.rect = r, m.body = ZrleTiles(cells, r.w, r.h, mode), NEW left, left = <<>>
  PROVE  Good(DecodeZrle(m, left).jobs, r, cells) /\ DecodeZrle(m, left).in = <<>>
  <1> DEFINE C == 1 .. 99
             tiles == TileLoop(r, ZrleTile)
             cut == TilesOf(r.w, r.h, ZrleTile)
             n == Len(tiles)
             c(k) == Cut(cells, r.w, cut[k])
             pieces == [k \in DOMAIN cut |-> ZrleTileOf(c(k), cut[k].w, mode)]
             body == FlattenSeq(pieces)
  <1>0. ZrleTile \in Nat \ {0}
    BY PixelsAssumption
  <1>1. Tiling(tiles, cut, r)
    BY <1>0, TilesAre
  <1>2. m.body = body /\ m.rect = r
    BY DEF ZrleTiles
  <1>3. /\ n \in Nat /\ DOMAIN tiles = 1 .. n /\ DOMAIN cut = 1 .. n
        /\ \A k \in 1 .. n : tiles[k] \in Tile
        /\ \A k \in 1 .. n : Inside(cut[k], r.w, r.h) /\ tiles[k].w = cut[k].w /\ tiles[k].h = cut[k].h
    BY <1>1 DEF Tiling
  <1>4. r.w \in Nat \ {0} /\ r.h \in Nat \ {0} /\ cells \in Seq(C)
    BY DEF Tile
  <1>5. \A k \in 1 .. n : pieces[k] = ZrleTileOf(c(k), tiles[k].w, mode)
    BY <1>3
  <1>6. DOMAIN pieces = 1 .. n
    BY <1>3
  <1>14. tiles = TileLoop(r, ZrleTile) /\ cut = TilesOf(r.w, r.h, ZrleTile) /\ n = Len(tiles)
    OBVIOUS
  <1>15. pieces = [k \in 1 .. n |-> pieces[k]]
    BY <1>3
  <1> HIDE DEF tiles, cut, n, pieces
  <1>7. ASSUME NEW k \in 1 .. n PROVE ZrleReads(pieces[k], tiles[k], c(k))
    <2> DEFINE t == cut[k]
               at == tiles[k]
               cc == c(k)
               p == pieces[k]
    <2>1. Inside(t, r.w, r.h) /\ at \in Tile /\ at.w = t.w /\ at.h = t.h
      BY <1>3
    <2>2. cc \in Seq(C) /\ Len(cc) = t.w * t.h
      <3> HIDE DEF t, C
      <3> QED BY <1>4, <2>1, CutIs DEF t
    <2>3. Len(cc) = at.w * at.h /\ cc \in Seq(1 .. 99)
      BY <2>1, <2>2
    <2>4. p = ZrleTileOf(cc, at.w, mode)
      BY <1>5
    <2> HIDE DEF t, at, cc, p, C
    <2>5. ZrleReads(p, at, cc)
      BY <2>1, <2>3, <2>4, ZrleTileTaken
    <2> QED BY <2>5 DEF p, at, cc
  <1>8. pieces \in Seq(Seq(Nat)) /\ Len(pieces) = n
    <2>1. \A k \in 1 .. n : pieces[k] \in Seq(Nat)
      BY <1>7 DEF ZrleReads
    <2>2. pieces \in [1 .. n -> Seq(Nat)]
      BY <1>15, <2>1
    <2> QED BY <1>3, <2>2, IsSeqOf
  <1>9. PICK E : body \in Seq(Nat) /\ Flat(pieces, body, E)
    BY <1>8, FlatOf
  <1> DEFINE d(k) == Drop(body, E[k - 1])
             got(k) == DecodeZrleTile(d(k), tiles[k])
             js == [k \in 1 .. n |-> got(k).job]
  <1>16. \A k \in 1 .. n : js[k] = got(k).job
    OBVIOUS
  <1> HIDE DEF body
  <1>10. ASSUME NEW k \in 1 .. n
         PROVE  got(k).in = Drop(body, E[k]) /\ Good(<<got(k).job>>, tiles[k], c(k))
    <2> DEFINE p == pieces[k]
               at == tiles[k]
               dd == d(k)
               cc == c(k)
    <2>1. PieceThere(body, pieces, E, k)
      <3>1. Begins(body, body)
        BY <1>9 DEF Begins
      <3>2. k \in 1 .. Len(pieces)
        BY <1>8
      <3> QED BY <1>8, <1>9, <3>1, <3>2, PieceAt
    <2>2. Begins(dd, p) /\ dd \in Seq(Nat) /\ Drop(dd, Len(p)) = Drop(body, E[k])
      BY <2>1 DEF PieceThere
    <2>3. ZrleReads(p, at, cc)
      BY <1>7
    <2>5. got(k) = DecodeZrleTile(dd, at)
      OBVIOUS
    <2> HIDE DEF p, at, dd, cc, got
    <2>4. TileTaken(DecodeZrleTile(dd, at), dd, p, at, cc)
      BY <2>2, <2>3 DEF ZrleReads
    <2>6. got(k).in = Drop(body, E[k]) /\ Good(<<got(k).job>>, at, cc)
      BY <2>2, <2>4, <2>5 DEF TileTaken
    <2> QED BY <2>6 DEF at, cc
  <1>11. js \in [1 .. n -> Job]
    <2> SUFFICES ASSUME NEW k \in 1 .. n PROVE got(k).job \in Job
      OBVIOUS
    <2> DEFINE j == got(k).job
    <2>1. <<j>> \in Seq(Job)
      BY <1>10 DEF Good, Within
    <2> HIDE DEF j
    <2>2. j \in Job
      BY <2>1, OnlyIn
    <2> QED BY <2>2 DEF j
  <1>12. Good(js, r, cells)
    <2>1. \A k \in 1 .. n : Good(<<js[k]>>, tiles[k], Cut(cells, r.w, cut[k]))
      <3> HIDE DEF js, got
      <3> QED BY <1>10, <1>16
    <2> HIDE DEF js, C
    <2> QED BY <1>0, <1>3, <1>4, <1>11, <1>14, <2>1, TileJobsDraw
  <1>13. DecodeZrle(m, left) = [jobs |-> js, in |-> <<>>]
    <2>1. left \o m.body = body
      <3>1. body \in Seq(Nat)
        BY <1>9
      <3> QED BY <1>2, <3>1, EmptyJoin
    <2>2. PICK g : ZrleFrom(g, m, left, tiles, body)
      <3>1. tiles = TileLoop(m.rect, ZrleTile) /\ Len(tiles) \in Nat /\ body = left \o m.body
        BY <1>2, <1>3, <1>14, <2>1
      <3> QED BY <3>1, ZrleExists
    <2>3. /\ DecodeZrle(m, left) = g[n] /\ g[0] = [jobs |-> <<>>, in |-> body]
          /\ \A k \in 1 .. n : g[k] = ZrleStep(g[k - 1], tiles[k])
      BY <1>14, <2>2 DEF ZrleFrom
    <2>4. js \in Seq(Job) /\ Len(js) = n
      <3> HIDE DEF js
      <3> QED BY <1>3, <1>11, IsSeqOf
    <2> HIDE DEF js
    <2>5. E[0] = 0 /\ E[n] = Len(body)
      <3>1. E[0] = 0 /\ Len(body) = E[Len(pieces)]
        BY <1>9 DEF Flat
      <3> QED BY <1>8, <3>1
    <2> DEFINE St(k) == [jobs |-> SubSeq(js, 1, k), in |-> Drop(body, E[k])]
               T == {k \in Nat : g[k] = St(k)}
    <2>6. 0 \in T
      <3>1. SubSeq(js, 1, 0) = <<>>
        BY <2>4, WholeIs
      <3>2. Drop(body, 0) = body
        BY <1>9, WholeIs
      <3>3. g[0] = St(0)
        BY <2>3, <2>5, <3>1, <3>2
      <3> HIDE DEF St
      <3> QED BY <3>3
    <2>7. ASSUME NEW k \in 0 .. n - 1, k \in T PROVE k + 1 \in T
      <3> DEFINE i == k + 1
                 in == Drop(body, E[k])
                 t == tiles[i]
      <3>1. i \in 1 .. n /\ i - 1 = k /\ k \in Nat /\ i \in Nat /\ i <= n
        BY <1>3
      <3>2. g[k] = St(k)
        BY <2>7
      <3>3. g[k].jobs = SubSeq(js, 1, k) /\ g[k].in = in
        BY <3>2
      <3> HIDE DEF St
      <3>4. g[i] = [jobs |-> Append(g[k].jobs, DecodeZrleTile(g[k].in, t).job), in |-> DecodeZrleTile(g[k].in, t).in]
        <4>1. g[i] = ZrleStep(g[i - 1], tiles[i])
          BY <2>3, <3>1
        <4> HIDE DEF i
        <4>2. g[i] = ZrleStep(g[k], t)
          BY <3>1, <4>1
        <4> QED BY <4>2 DEF ZrleStep
      <3> HIDE DEF i
      <3>5. DecodeZrleTile(in, t) = got(i)
        <4>1. E[i - 1] = E[k]
          BY <3>1
        <4> QED BY <4>1
      <3>6. got(i).in = Drop(body, E[i]) /\ got(i).job = js[i]
        <4> HIDE DEF got
        <4> QED BY <1>10, <1>16, <3>1
      <3> HIDE DEF in, t, got
      <3>7. Append(SubSeq(js, 1, k), js[i]) = SubSeq(js, 1, i)
        <4>1. k + 1 <= Len(js) /\ js[i] = js[k + 1]
          BY <2>4, <3>1 DEF i
        <4>2. Append(SubSeq(js, 1, k), js[i]) = SubSeq(js, 1, k + 1)
          BY <2>4, <3>1, <4>1, PrefixAppend
        <4> QED BY <4>2 DEF i
      <3>8. g[i] = [jobs |-> SubSeq(js, 1, i), in |-> Drop(body, E[i])]
        BY <3>3, <3>4, <3>5, <3>6, <3>7
      <3>9. g[i] = St(i)
        BY <3>8 DEF St
      <3> QED BY <3>1, <3>9 DEF i
    <2>8. n \in T
      <3> HIDE DEF T
      <3>1. \A k \in 0 .. n - 1 : k \in T => k + 1 \in T
        BY <2>7
      <3>2. 0 .. n \subseteq T
        BY <1>3, <2>6, <3>1, UpTo
      <3>3. n \in 0 .. n
        BY <1>3
      <3> QED BY <3>2, <3>3
    <2>9. g[n] = [jobs |-> SubSeq(js, 1, n), in |-> Drop(body, E[n])]
      BY <2>8
    <2>10. SubSeq(js, 1, n) = js
      <3>1. SubSeq(js, 1, Len(js)) = js
        BY <2>4, WholeIs
      <3> QED BY <2>4, <3>1
    <2>11. Drop(body, E[n]) = <<>>
      BY <1>9, <2>5, DropAll
    <2> QED BY <2>3, <2>9, <2>10, <2>11
  <1> HIDE DEF js
  <1> QED BY <1>12, <1>13

-----------------------------------------------------------------------------
(* tight: three bytes to a pixel, where they are. *)

(* One pixel's bytes become four. *)
Turned(old, p, offsets) ==
  [a \in offsets |-> CASE a \div 4 # p -> old[a]
                       [] a \div 4 = p /\ a % 4 = 3 -> 0
                       [] OTHER -> old[3 * p + (a % 4)]]
Coloured4(b, n) == [k \in 1 .. n |-> ToColour(b[4 * k - 4], b[4 * k - 3], b[4 * k - 2])]

(* ConvertInPlace, pixel by pixel. *)
LEMMA ConvertSteps ==
  ASSUME NEW rgb, NEW order, Len(order) \in Nat
  PROVE  \E g : /\ ConvertInPlace(rgb, order) = Coloured4(g[Len(order)], Len(order)) /\ g[0] = [a \in 0 .. 4 * Len(order) - 1 |-> Sym(rgb, a + 1)]
                /\ \A k \in 1 .. Len(order) : g[k] = Turned(g[k - 1], order[k], 0 .. 4 * Len(order) - 1)
  <1> DEFINE N == Len(order)
             Step(k, d) == Turned(d, order[k], 0 .. 4 * Len(order) - 1)
             base == [a \in 0 .. 4 * Len(order) - 1 |-> Sym(rgb, a + 1)]
             Eq(g, n) == g = [k \in 0 .. n |-> IF k = 0 THEN base ELSE Step(k, g[k - 1])]
             g == CHOOSE g : Eq(g, N)
             T == {n \in Nat : \E f : Eq(f, n)}
  <1>1. ConvertInPlace(rgb, order) = Coloured4(g[N], N)
    BY DEF ConvertInPlace, Turned, Coloured4
  <1>2. N \in Nat
    OBVIOUS
  <1> HIDE DEF Step, base, N
  <1>3. 0 \in T
    <2> DEFINE f == [k \in 0 .. 0 |-> base]
    <2>1. Eq(f, 0)
      OBVIOUS
    <2> HIDE DEF f, Eq
    <2> QED BY <2>1
  <1>4. ASSUME NEW n \in Nat, n \in T PROVE n + 1 \in T
    <2>1. PICK f : Eq(f, n)
      BY <1>4
    <2> DEFINE h == [k \in 0 .. n + 1 |-> IF k = n + 1 THEN Step(k, f[n]) ELSE f[k]]
    <2>2. \A k \in 0 .. n + 1 : h[k] = IF k = 0 THEN base ELSE Step(k, h[k - 1])
      <3> SUFFICES ASSUME NEW k \in 0 .. n + 1 PROVE h[k] = IF k = 0 THEN base ELSE Step(k, h[k - 1])
        OBVIOUS
      <3>1. CASE k = n + 1
        <4>1. k # 0 /\ k - 1 = n /\ h[k] = Step(k, f[n]) /\ h[n] = f[n]
          BY <3>1
        <4> HIDE DEF h
        <4> QED BY <4>1
      <3>2. CASE k # n + 1
        <4>1. k \in 0 .. n /\ h[k] = f[k] /\ (k # 0 => h[k - 1] = f[k - 1])
          BY <3>2
        <4>2. f[k] = IF k = 0 THEN base ELSE Step(k, f[k - 1])
          BY <2>1, <4>1
        <4> HIDE DEF h
        <4> QED BY <4>1, <4>2
      <3> QED BY <3>1, <3>2
    <2>3. h = [k \in 0 .. n + 1 |-> h[k]]
      OBVIOUS
    <2>4. Eq(h, n + 1)
      <3> HIDE DEF h
      <3> QED BY <2>2, <2>3
    <2> HIDE DEF h, Eq
    <2> QED BY <2>4
  <1>5. Eq(g, N)
    <2> HIDE DEF Eq
    <2>1. N \in T
      <3> HIDE DEF T
      <3> QED BY <1>2, <1>3, <1>4, SetInduction
    <2>2. \E f : Eq(f, N)
      BY <2>1
    <2> QED BY <2>2
  <1> HIDE DEF g
  <1>6. g[0] = base /\ \A k \in 1 .. N : g[k] = Step(k, g[k - 1])
    <2>1. \A k \in 0 .. N : g[k] = IF k = 0 THEN base ELSE Step(k, g[k - 1])
      BY <1>5
    <2>2. 0 \in 0 .. N /\ \A k \in 1 .. N : k \in 0 .. N /\ k # 0
      BY <1>2
    <2> QED BY <2>1, <2>2
  <1> QED BY <1>1, <1>6 DEF Step, base, N

ConvertFrom(g, rgb, order, n) ==
  /\ ConvertInPlace(rgb, order) = Coloured4(g[n], n) /\ g[0] = [a \in 0 .. 4 * n - 1 |-> Sym(rgb, a + 1)]
  /\ \A k \in 1 .. n : g[k] = Turned(g[k - 1], order[k], 0 .. 4 * n - 1)

(* The recursive function in ConvertInPlace is defined. *)
LEMMA ConvertExists ==
  ASSUME NEW rgb, NEW order, NEW n \in Nat, Len(order) = n
  PROVE  \E g : ConvertFrom(g, rgb, order, n)
  <1>1. Len(order) \in Nat
    OBVIOUS
  <1>2. PICK g : ConvertFrom(g, rgb, order, Len(order))
    BY <1>1, ConvertSteps DEF ConvertFrom
  <1>3. ConvertFrom(g, rgb, order, n)
    BY <1>2
  <1> QED BY <1>3

(* Byte e of pixel p. *)
LEMMA ByteOfPixel ==
  ASSUME NEW p \in Nat, NEW e \in 0 .. 2, NEW n \in Nat, p < n, NEW a, a = 4 * p + e
  PROVE  a \in 0 .. 4 * n - 1 /\ a \div 4 = p /\ a % 4 = e /\ a % 4 # 3
  OBVIOUS

(* Its source is not yet overwritten when the last pixels are converted. *)
LEMMA SourceBefore ==
  ASSUME NEW n \in Nat, NEW p \in 0 .. n - 1, NEW e \in 0 .. 2, NEW c, c = 3 * p + e
  PROVE  c \in 0 .. 4 * n - 1 /\ c \div 4 < p + 1 /\ c + 1 \in Nat
  OBVIOUS

(* What is converted so far: the pixels from n - i on. *)
ConvertedTo(b, rgb, n, i) ==
  \A a \in 0 .. 4 * n - 1 :
    /\ a \div 4 >= n - i => b[a] = IF a % 4 = 3 THEN 0 ELSE Sym(rgb, 3 * (a \div 4) + (a % 4) + 1)
    /\ a \div 4 < n - i => b[a] = Sym(rgb, a + 1)

(* rgb24_to_pixel: one more pixel is converted, from the last on, and the
   bytes of those before it are still there. *)
LEMMA TurnConverts ==
  ASSUME NEW rgb, NEW n \in Nat, NEW i \in 1 .. n, NEW b, ConvertedTo(b, rgb, n, i - 1)
  PROVE  ConvertedTo(Turned(b, n - i, 0 .. 4 * n - 1), rgb, n, i)
  <1> DEFINE p == n - i
             new == Turned(b, p, 0 .. 4 * n - 1)
  <1>0. p \in 0 .. n - 1 /\ n - (i - 1) = p + 1 /\ p \in Int
    OBVIOUS
  <1> HIDE DEF p
  <1>1. ASSUME NEW a \in 0 .. 4 * n - 1
        PROVE  /\ a \div 4 >= p => new[a] = IF a % 4 = 3 THEN 0 ELSE Sym(rgb, 3 * (a \div 4) + (a % 4) + 1)
               /\ a \div 4 < p => new[a] = Sym(rgb, a + 1)
    <2> DEFINE d == a \div 4
               e == a % 4
               c == 3 * p + e
    <2>1. d \in Int /\ e \in 0 .. 3
      OBVIOUS
    <2>2. new[a] = CASE d # p -> b[a] [] d = p /\ e = 3 -> 0 [] OTHER -> b[c]
      BY DEF Turned
    <2>3. /\ d >= p + 1 => b[a] = IF e = 3 THEN 0 ELSE Sym(rgb, 3 * d + e + 1)
          /\ d < p + 1 => b[a] = Sym(rgb, a + 1)
      BY <1>0 DEF ConvertedTo
    <2>4. e # 3 => c \in 0 .. 4 * n - 1 /\ c \div 4 < p + 1
      <3> SUFFICES ASSUME e # 3 PROVE c \in 0 .. 4 * n - 1 /\ c \div 4 < p + 1
        OBVIOUS
      <3>1. e \in 0 .. 2
        BY <2>1
      <3> HIDE DEF e
      <3> QED BY <1>0, <3>1, SourceBefore
    <2>5. e # 3 => b[c] = Sym(rgb, c + 1)
      <3> SUFFICES ASSUME e # 3 PROVE b[c] = Sym(rgb, c + 1)
        OBVIOUS
      <3> HIDE DEF c, e
      <3> QED BY <1>0, <2>4 DEF ConvertedTo
    <2> HIDE DEF new, d, e
    <2>6. CASE d # p
      <3>1. new[a] = b[a] /\ (d >= p <=> d >= p + 1) /\ (d < p => d < p + 1)
        BY <1>0, <2>1, <2>2, <2>6
      <3> QED BY <2>3, <3>1 DEF d, e
    <2>7. CASE d = p /\ e = 3
      <3>1. new[a] = 0 /\ ~(d < p)
        BY <1>0, <2>2, <2>7
      <3> QED BY <2>7, <3>1 DEF d, e
    <2>8. CASE d = p /\ e # 3
      <3>1. new[a] = b[c] /\ ~(d < p)
        BY <1>0, <2>2, <2>8
      <3>2. b[c] = Sym(rgb, 3 * d + e + 1)
        BY <2>5, <2>8
      <3> QED BY <2>8, <3>1, <3>2 DEF d, e
    <2> QED BY <2>6, <2>7, <2>8
  <1> HIDE DEF new
  <1>2. ConvertedTo(new, rgb, n, i)
    BY <1>1 DEF ConvertedTo, p
  <1> QED BY <1>2 DEF new, p

(* What is sent in three bytes each comes back. *)
LEMMA TriplesBack ==
  ASSUME NEW cells \in Seq(Nat), NEW rgb, rgb = Triples(cells)
  PROVE  Converted(rgb) = cells
  <1> DEFINE n == Len(cells)
             s == [k \in DOMAIN cells |-> RGB(cells[k])]
             order == [k \in 1 .. n |-> n - k]
  <1>1. n \in Nat /\ DOMAIN cells = 1 .. n
    OBVIOUS
  <1>2. s \in Seq(Seq(Nat)) /\ Len(s) = n /\ Even(s, 3) /\ \A k \in 1 .. n : s[k] = RGB(cells[k])
    <2>1. \A c \in Nat : RGB(c) \in Seq(Nat) /\ Len(RGB(c)) = 3
      BY DEF RGB
    <2>2. \A k \in 1 .. n : cells[k] \in Nat
      OBVIOUS
    <2>3. s \in [1 .. n -> Seq(Nat)] /\ \A k \in 1 .. n : s[k] = RGB(cells[k])
      BY <1>1, <2>1, <2>2
    <2> HIDE DEF s
    <2>4. s \in Seq(Seq(Nat)) /\ Len(s) = n
      BY <1>1, <2>3, IsSeqOf
    <2>5. Even(s, 3)
      BY <2>1, <2>2, <2>3, <2>4 DEF Even
    <2> QED BY <2>3, <2>4, <2>5
  <1>3. rgb = FlattenSeq(s)
    BY DEF Triples
  <1> HIDE DEF s, n
  <1>4. Joined(rgb, Nat, s, 3)
    <2>1. 3 \in Nat
      OBVIOUS
    <2>2. Joined(FlattenSeq(s), Nat, s, 3)
      BY <1>2, <2>1, JoinEven
    <2> QED BY <1>3, <2>2
  <1>5. rgb \in Seq(Nat) /\ Len(rgb) = n * 3
    BY <1>2, <1>4 DEF Joined
  <1>6. \A k \in 1 .. n : \A e \in 0 .. 2 : Sym(rgb, 3 * (k - 1) + e + 1) = cells[k] + 100 * e
    <2> SUFFICES ASSUME NEW k \in 1 .. n, NEW e \in 0 .. 2 PROVE Sym(rgb, 3 * (k - 1) + e + 1) = cells[k] + 100 * e
      OBVIOUS
    <2> DEFINE q == 3 * (k - 1) + e + 1
    <2>1. q \in 1 .. n * 3 /\ q = (k - 1) * 3 + (e + 1) /\ e + 1 \in 1 .. 3
      BY <1>1
    <2>2. rgb[(k - 1) * 3 + (e + 1)] = s[k][e + 1]
      BY <1>2, <1>4, <2>1 DEF Joined
    <2>3. s[k][e + 1] = cells[k] + 100 * e
      <3>1. cells[k] \in Nat
        BY <1>1
      <3>2. s[k] = <<cells[k], cells[k] + 100, cells[k] + 200>>
        BY <1>2 DEF RGB
      <3> DEFINE c == cells[k]
      <3> HIDE DEF c
      <3>3. <<c, c + 100, c + 200>>[e + 1] = c + 100 * e
        <4>1. e = 0 \/ e = 1 \/ e = 2
          OBVIOUS
        <4>2. c \in Nat
          BY <3>1 DEF c
        <4> QED BY <4>1, <4>2
      <3> QED BY <3>2, <3>3 DEF c
    <2> HIDE DEF q
    <2>4. q \in DOMAIN rgb
      BY <1>5, <2>1
    <2>5. Sym(rgb, q) = cells[k] + 100 * e
      BY <2>1, <2>2, <2>3, <2>4 DEF Sym
    <2> QED BY <2>5 DEF q
  <1>7. Len(rgb) \div 3 = n
    <2>1. (n * 3) \div 3 = n
      BY <1>1
    <2> QED BY <1>5, <2>1
  <1>8. Converted(rgb) = ConvertInPlace(rgb, order)
    BY <1>7 DEF Converted
  <1>9. Len(order) = n /\ \A k \in 1 .. n : order[k] = n - k
    BY <1>1
  <1> HIDE DEF order
  <1>10. PICK g : ConvertFrom(g, rgb, order, n)
    BY <1>1, <1>9, ConvertExists
  <1>11. /\ ConvertInPlace(rgb, order) = Coloured4(g[n], n) /\ g[0] = [a \in 0 .. 4 * n - 1 |-> Sym(rgb, a + 1)]
         /\ \A k \in 1 .. n : g[k] = Turned(g[k - 1], order[k], 0 .. 4 * n - 1)
    BY <1>10 DEF ConvertFrom
  <1> DEFINE T == {i \in Nat : ConvertedTo(g[i], rgb, n, i)}
  <1>12. 0 \in T
    <2>1. \A a \in 0 .. 4 * n - 1 : ~(a \div 4 >= n - 0) /\ g[0][a] = Sym(rgb, a + 1)
      BY <1>1, <1>11
    <2>2. ConvertedTo(g[0], rgb, n, 0)
      BY <2>1 DEF ConvertedTo
    <2> QED BY <2>2
  <1>13. ASSUME NEW i \in 0 .. n - 1, i \in T PROVE i + 1 \in T
    <2> DEFINE j == i + 1
    <2>1. j \in 1 .. n /\ j - 1 = i /\ j \in Nat
      BY <1>1
    <2>2. ConvertedTo(g[i], rgb, n, i)
      BY <1>13
    <2> HIDE DEF j
    <2>3. g[j] = Turned(g[i], n - j, 0 .. 4 * n - 1)
      BY <1>9, <1>11, <2>1
    <2>4. ConvertedTo(g[i], rgb, n, j - 1)
      BY <2>1, <2>2
    <2>5. ConvertedTo(g[j], rgb, n, j)
      BY <1>1, <2>1, <2>3, <2>4, TurnConverts
    <2> QED BY <2>1, <2>5 DEF j
  <1>14. ConvertedTo(g[n], rgb, n, n)
    <2> HIDE DEF T
    <2>1. \A i \in 0 .. n - 1 : i \in T => i + 1 \in T
      BY <1>13
    <2>2. 0 .. n \subseteq T
      BY <1>1, <1>12, <2>1, UpTo
    <2>3. n \in 0 .. n
      BY <1>1
    <2>4. n \in T
      BY <2>2, <2>3
    <2> QED BY <2>4 DEF T
  <1> DEFINE b == g[n]
  <1>15. ASSUME NEW k \in 1 .. n PROVE ToColour(b[4 * k - 4], b[4 * k - 3], b[4 * k - 2]) = cells[k]
    <2> DEFINE p == k - 1
    <2>1. p \in Nat /\ p < n /\ p + 1 = k /\ 4 * k - 4 = 4 * p + 0 /\ 4 * k - 3 = 4 * p + 1 /\ 4 * k - 2 = 4 * p + 2
      BY <1>1
    <2>2. ASSUME NEW e \in 0 .. 2 PROVE b[4 * p + e] = cells[k] + 100 * e
      <3> DEFINE a == 4 * p + e
      <3> HIDE DEF p
      <3>1. a \in 0 .. 4 * n - 1 /\ a \div 4 = p /\ a % 4 = e /\ a % 4 # 3
        BY <1>1, <2>1, ByteOfPixel
      <3>2. p >= n - n
        BY <1>1, <2>1
      <3> HIDE DEF a, b
      <3>3. b[a] = Sym(rgb, 3 * p + e + 1)
        BY <1>14, <3>1, <3>2 DEF ConvertedTo, b
      <3>4. Sym(rgb, 3 * (k - 1) + e + 1) = cells[k] + 100 * e
        BY <1>6
      <3> QED BY <3>3, <3>4 DEF a, p
    <2> HIDE DEF b, p
    <2>3. cells[k] \in Nat
      BY <1>1 DEF n
    <2>4. b[4 * p + 0] = cells[k] + 100 * 0 /\ b[4 * p + 1] = cells[k] + 100 * 1 /\ b[4 * p + 2] = cells[k] + 100 * 2
      BY <2>2
    <2> DEFINE c == cells[k]
    <2>6. c \in Nat /\ b[4 * k - 4] = c /\ b[4 * k - 3] = c + 100 /\ b[4 * k - 2] = c + 200
      <3>1. b[4 * k - 4] = c + 100 * 0 /\ b[4 * k - 3] = c + 100 * 1 /\ b[4 * k - 2] = c + 100 * 2
        BY <2>1, <2>4
      <3>2. c \in Nat
        BY <2>3
      <3> HIDE DEF c
      <3>3. c + 100 * 0 = c /\ c + 100 * 1 = c + 100 /\ c + 100 * 2 = c + 200
        BY <3>2
      <3> QED BY <3>1, <3>2, <3>3
    <2> HIDE DEF c
    <2>7. ToColour(c, c + 100, c + 200) = c
      BY <2>6 DEF ToColour
    <2> QED BY <2>6, <2>7 DEF c
  <1> HIDE DEF b
  <1>16. Coloured4(b, n) = [k \in 1 .. n |-> cells[k]]
    BY <1>15 DEF Coloured4
  <1>17. cells = [k \in 1 .. n |-> cells[k]]
    BY DEF n
  <1> QED BY <1>8, <1>11, <1>16, <1>17 DEF b

-----------------------------------------------------------------------------
(* What is sent, encoding by encoding, and what the client makes of it. *)

(* What a codec's name stands for. *)
LEMMA DecodeIs ==
  ASSUME NEW m, NEW left
  PROVE  /\ m.codec \in {"raw", "zlib", "jpeg"} => Decode(m, left) = DecodeRows(m)
         /\ m.codec = "ultra" => Decode(m, left) = DecodeUltra(m)
         /\ m.codec \in {"rre", "corre"} => Decode(m, left) = DecodeRRE(m)
         /\ m.codec = "copyrect" => Decode(m, left) = DecodeCopyRect(m)
         /\ m.codec = "ultrazip" => Decode(m, left) = DecodeUltraZip(m)
         /\ m.codec = "hextile" => Decode(m, left) = DecodeHextile(m)
         /\ m.codec = "zrle" => Decode(m, left) = DecodeZrle(m, left).jobs
         /\ m.codec = "fill" => Decode(m, left) = DecodeFill(m)
         /\ m.codec = "copy" => Decode(m, left) = DecodeCopy(m)
         /\ m.codec = "palette" => Decode(m, left) = DecodePalette(m)
         /\ m.codec \in {"gradient", "newfbsize", "xcursor", "richcursor", "none"} => Decode(m, left) = <<>>
  BY DEF Decode

(* The pixels of a pattern. *)
LEMMA ContentIn ==
  ASSUME NEW p \in Patterns, NEW n \in Nat
  PROVE  Content(p, n) \in Seq(1 .. 99) /\ Len(Content(p, n)) = n
  <1> DEFINE e == p[1]
             c == p[2]
  <1>1. e \in Nat \ {0} /\ c \in 1 .. 99
    BY PixelsAssumption
  <1> DEFINE v(k) == 1 + (((k - 1) \div e) % c)
  <1>2. \A k \in 1 .. n : v(k) \in 1 .. 99
    <2> SUFFICES ASSUME NEW k \in 1 .. n PROVE v(k) \in 1 .. 99
      OBVIOUS
    <2> DEFINE d == (k - 1) \div e
    <2>1. d \in Nat
      BY <1>1
    <2> HIDE DEF d, e, c
    <2>2. d % c \in 0 .. c - 1
      BY <1>1, <2>1
    <2>3. 1 + (d % c) \in 1 .. 99
      BY <1>1, <2>2
    <2> QED BY <2>3 DEF d
  <1>3. Content(p, n) = [k \in 1 .. n |-> v(k)]
    BY DEF Content
  <1> HIDE DEF v
  <1> DEFINE s == [k \in 1 .. n |-> v(k)]
             C == 1 .. 99
  <1>4. s \in [1 .. n -> C]
    BY <1>2
  <1> HIDE DEF C, s
  <1>5. s \in Seq(C) /\ Len(s) = n
    BY <1>4, IsSeqOf
  <1> QED BY <1>3, <1>5 DEF C, s

(* raw, zlib, a JPEG and ultra. *)
LEMMA RowsDraw ==
  ASSUME NEW r \in Tile, NEW cells \in Seq(Nat), Len(cells) = r.w * r.h, NEW m, m.rect = r, m.body = cells
  PROVE  Good(DecodeRows(m), r, cells) /\ Good(DecodeUltra(m), r, cells)
  <1>1. DecodeRows(m) = <<Rows(r, cells)>> /\ DecodeUltra(m) = <<Bitmap(r, cells)>>
    BY DEF DecodeRows, DecodeUltra
  <1> DEFINE i == Rows(r, cells)
             j == Bitmap(r, cells)
  <1>2. i \in {Rows(r, cells), Bitmap(r, cells)} /\ j \in {Rows(r, cells), Bitmap(r, cells)}
    OBVIOUS
  <1> HIDE DEF i, j
  <1>3. Good(<<i>>, r, cells) /\ Good(<<j>>, r, cells)
    BY <1>2, BlockExact
  <1> QED BY <1>1, <1>3 DEF i, j

(* Three bytes a colour, for one of them. *)
LEMMA OneTriple ==
  ASSUME NEW c \in Nat
  PROVE  Converted(RGB(c)) = <<c>>
  <1> DEFINE one == <<c>>
             s == [k \in DOMAIN one |-> RGB(one[k])]
             f == FlattenSeq(s)
             rgb == RGB(c)
  <1>1. one \in Seq(Nat) /\ DOMAIN one = 1 .. 1 /\ one[1] = c
    OBVIOUS
  <1>2. rgb \in Seq(Nat) /\ Len(rgb) = 3
    BY DEF RGB
  <1>3. s = [k \in 1 .. 1 |-> rgb]
    BY <1>1
  <1>6. Triples(one) = f
    BY DEF Triples
  <1> HIDE DEF one, rgb
  <1>4. s \in Seq(Seq(Nat)) /\ Len(s) = 1 /\ s[1] = rgb
    <2>1. s \in [1 .. 1 -> Seq(Nat)]
      BY <1>2, <1>3
    <2> QED BY <1>3, <2>1, IsSeqOf
  <1> HIDE DEF s
  <1>5. Joined(f, Nat, s, 3)
    <2>1. Even(s, 3)
      BY <1>2, <1>4 DEF Even
    <2> QED BY <1>4, <2>1, JoinEven
  <1> HIDE DEF f
  <1>7. f = rgb
    <2>1. f \in Seq(Nat) /\ Len(f) = 3 /\ \A j \in 1 .. 3 : f[(1 - 1) * 3 + j] = s[1][j]
      BY <1>4, <1>5 DEF Joined
    <2>2. \A j \in 1 .. 3 : f[j] = rgb[j]
      BY <1>4, <2>1
    <2>3. f = [j \in 1 .. 3 |-> f[j]] /\ rgb = [j \in 1 .. 3 |-> rgb[j]]
      BY <1>2, <2>1
    <2> QED BY <2>2, <2>3
  <1>8. Converted(rgb) = one
    BY <1>1, <1>6, <1>7, TriplesBack
  <1> QED BY <1>8 DEF one, rgb

(* What a message of pixels is decoded to, and what it leaves in the inflater. *)
SentOK(m, left, r, cells) ==
  /\ Within(Decode(m, left), r) /\ (~Carries => Draws(Decode(m, left), r, cells))
  /\ m.codec = "zrle" => DecodeZrle(m, left).in = <<>>

(* A message of pixels. *)
Sending(m, codec, r, body) == m.codec = codec /\ m.rect = r /\ m.body = body

(* A message whose operations draw its rectangle. *)
LEMMA GoodSent ==
  ASSUME NEW m, NEW left, NEW r, NEW cells, NEW js, Decode(m, left) = js, Good(js, r, cells), m.codec # "zrle"
  PROVE  SentOK(m, left, r, cells)
  BY DEF SentOK, Good

(* raw, zlib, ultra and a JPEG. *)
LEMMA RawSent ==
  ASSUME NEW r \in Tile, NEW cells \in Seq(Nat), Len(cells) = r.w * r.h, NEW m, NEW left,
         NEW codec \in {"raw", "zlib", "jpeg", "ultra"}, Sending(m, codec, r, cells)
  PROVE  SentOK(m, left, r, cells)
  <1>1. m.codec = codec /\ m.rect = r /\ m.body = cells
    BY DEF Sending
  <1>2. Good(DecodeRows(m), r, cells) /\ Good(DecodeUltra(m), r, cells)
    BY <1>1, RowsDraw
  <1>3. m.codec # "zrle"
    BY <1>1
  <1>4. Decode(m, left) = DecodeRows(m) \/ Decode(m, left) = DecodeUltra(m)
    BY <1>1, DecodeIs
  <1> QED BY <1>2, <1>3, <1>4, GoodSent

(* rre and co_rre. *)
LEMMA RRESent ==
  ASSUME NEW r \in Tile, NEW cells \in Seq(Nat), Len(cells) = r.w * r.h, NEW m, NEW left,
         NEW codec \in {"rre", "corre"}, Sending(m, codec, r, [bg |-> cells[1], subs |-> Subrects(cells, r.w)])
  PROVE  SentOK(m, left, r, cells)
  <1>1. m.codec = codec /\ m.rect = r /\ m.body = [bg |-> cells[1], subs |-> Subrects(cells, r.w)]
    BY DEF Sending
  <1>2. Good(DecodeRRE(m), r, cells)
    BY <1>1, RREDraws
  <1>3. m.codec # "zrle"
    BY <1>1
  <1>4. Decode(m, left) = DecodeRRE(m)
    BY <1>1, DecodeIs
  <1> QED BY <1>2, <1>3, <1>4, GoodSent

(* hextile. *)
LEMMA HextileSent ==
  ASSUME NEW r \in Tile, NEW cells \in Seq(Nat), Len(cells) = r.w * r.h, NEW m, NEW left, NEW mode,
         Sending(m, "hextile", r, HexTiles(cells, r.w, r.h, mode))
  PROVE  SentOK(m, left, r, cells)
  <1>1. m.codec = "hextile" /\ m.rect = r /\ m.body = HexTiles(cells, r.w, r.h, mode)
    BY DEF Sending
  <1>2. Within(DecodeHextile(m), r) /\ (~Carries => Draws(DecodeHextile(m), r, cells))
    BY <1>1, HextileDraws
  <1>3. m.codec # "zrle"
    BY <1>1
  <1>4. Decode(m, left) = DecodeHextile(m)
    BY <1>1, DecodeIs
  <1> QED BY <1>2, <1>3, <1>4 DEF SentOK

(* zrle, in every mode. *)
LEMMA ZrleSent ==
  ASSUME NEW r \in Tile, NEW cells \in Seq(1 .. 99), Len(cells) = r.w * r.h, NEW m, NEW left, left = <<>>,
         NEW mode, mode \in ZrleModes, Sending(m, "zrle", r, ZrleTiles(cells, r.w, r.h, mode))
  PROVE  SentOK(m, left, r, cells)
  <1>1. m.codec = "zrle" /\ m.rect = r /\ m.body = ZrleTiles(cells, r.w, r.h, mode)
    BY DEF Sending
  <1>2. Good(DecodeZrle(m, left).jobs, r, cells) /\ DecodeZrle(m, left).in = <<>>
    BY <1>1, ZrleDraws
  <1>4. Decode(m, left) = DecodeZrle(m, left).jobs
    BY <1>1, DecodeIs
  <1> QED BY <1>2, <1>4 DEF SentOK, Good

(* copy_filter. *)
LEMMA CopySent ==
  ASSUME NEW r \in Tile, NEW cells \in Seq(Nat), Len(cells) = r.w * r.h, NEW m, NEW left,
         Sending(m, "copy", r, Triples(cells))
  PROVE  SentOK(m, left, r, cells)
  <1>1. m.codec = "copy" /\ m.rect = r /\ m.body = Triples(cells)
    BY DEF Sending
  <1>2. Converted(Triples(cells)) = cells
    BY TriplesBack
  <1> DEFINE j == Rows(r, cells)
  <1>3. DecodeCopy(m) = <<j>>
    BY <1>1, <1>2 DEF DecodeCopy
  <1>4. j \in {Rows(r, cells), Bitmap(r, cells)}
    OBVIOUS
  <1> HIDE DEF j
  <1>5. Good(<<j>>, r, cells)
    BY <1>4, BlockExact
  <1>6. m.codec # "zrle"
    BY <1>1
  <1>7. Decode(m, left) = <<j>>
    BY <1>1, <1>3, DecodeIs
  <1> QED BY <1>5, <1>6, <1>7, GoodSent

(* A fill of tight. *)
LEMMA FillSent ==
  ASSUME NEW r \in Tile, NEW cells \in Seq(1 .. 99), Len(cells) = r.w * r.h, NEW m, NEW left,
         NEW palette, palette = PaletteOf(cells), Len(palette) = 1, Sending(m, "fill", r, RGB(palette[1]))
  PROVE  SentOK(m, left, r, cells)
  <1>1. m.codec = "fill" /\ m.rect = r /\ m.body = RGB(palette[1])
    BY DEF Sending
  <1> DEFINE c == palette[1]
             n == r.w * r.h
  <1>2. palette \in Seq(1 .. 99) /\ \A k \in 1 .. Len(cells) : \E i \in 1 .. Len(palette) : palette[i] = cells[k]
    BY PaletteFits
  <1>3. c \in Nat
    <2>1. palette \in Seq(Nat)
      BY <1>2, SeqNat
    <2>2. Len(palette) = 1
      OBVIOUS
    <2>3. 1 \in 1 .. Len(palette)
      BY <2>2
    <2> HIDE DEF c
    <2>4. palette[1] \in Nat
      BY <2>1, <2>3, ElementOfSeq
    <2> QED BY <2>4 DEF c
  <1>4. AllAre(cells, n, c)
    <2>1. \A k \in 1 .. n : \E i \in 1 .. 1 : palette[i] = cells[k]
      BY <1>2
    <2> QED BY <2>1 DEF AllAre
  <1> HIDE DEF c
  <1>5. Converted(RGB(c)) = <<c>>
    BY <1>3, OneTriple
  <1>6. Converted(m.body)[1] = c
    <2>1. m.body = RGB(c)
      BY <1>1 DEF c
    <2> QED BY <1>5, <2>1
  <1>7. DecodeFill(m) = <<Fill(r, c)>>
    BY <1>1, <1>6 DEF DecodeFill
  <1>8. Good(<<Fill(r, c)>>, r, cells)
    BY <1>3, <1>4, FillExact
  <1>9. m.codec # "zrle"
    BY <1>1
  <1>10. Decode(m, left) = <<Fill(r, c)>>
    BY <1>1, <1>7, DecodeIs
  <1> QED BY <1>8, <1>9, <1>10, GoodSent

(* Nothing is known of what is not decoded. *)
LEMMA GradientSent ==
  ASSUME NEW r \in Tile, NEW n, n = r.w * r.h, NEW cells, \A k \in 1 .. n : cells[k] = Unknown,
         NEW m, NEW left, NEW body, Sending(m, "gradient", r, body)
  PROVE  SentOK(m, left, r, cells)
  <1>1. m.codec = "gradient"
    BY DEF Sending
  <1> DEFINE js == <<>>
  <1>2. Decode(m, left) = js
    BY <1>1, DecodeIs
  <1>3. Within(js, r)
    BY DEF Within
  <1>4. Draws(js, r, cells)
    <2> SUFFICES ASSUME NEW u \in 0 .. r.w - 1, NEW v \in 0 .. r.h - 1 PROVE Cell(cells, r.w, u, v) = Unknown
      BY DEF Draws
    <2>1. v * r.w + u + 1 \in 1 .. n
      <3>1. r.w \in Nat /\ r.h \in Nat
        BY DEF Tile
      <3> QED BY <3>1, PixelOffset
    <2> QED BY <2>1 DEF Cell
  <1> HIDE DEF js
  <1> QED BY <1>1, <1>2, <1>3, <1>4 DEF SentOK

-----------------------------------------------------------------------------
(* tight: palette_filter. *)

(* A bit is 0 or 1. *)
LEMMA BitIn ==
  ASSUME NEW bytes \in Seq(Nat), NEW k \in Nat
  PROVE  BitsAt(bytes, 1, k, 1) \in 0 .. 1
  <1> DEFINE d == (k * 1) \div 8
             e == (k * 1) % 8
             byte == Sym(bytes, 1 + d)
  <1>1. d \in Nat /\ e \in 0 .. 7
    OBVIOUS
  <1>2. byte \in Nat
    <2>1. 1 + d \in DOMAIN bytes => bytes[1 + d] \in Nat
      OBVIOUS
    <2> HIDE DEF d
    <2> QED BY <2>1 DEF Sym
  <1>3. BitsAt(bytes, 1, k, 1) = (byte \div 2 ^ (8 - 1 - e)) % 2 ^ 1
    BY DEF BitsAt
  <1> HIDE DEF byte, e, d
  <1>4. 2 ^ (8 - 1 - e) \in Nat \ {0} /\ 2 ^ 1 = 2
    <2>1. e = 0 \/ e = 1 \/ e = 2 \/ e = 3 \/ e = 4 \/ e = 5 \/ e = 6 \/ e = 7
      BY <1>1
    <2>2. /\ 2 ^ 1 = 2
          /\ 2 ^ (8 - 1 - 0) = 128 /\ 2 ^ (8 - 1 - 1) = 64 /\ 2 ^ (8 - 1 - 2) = 32 /\ 2 ^ (8 - 1 - 3) = 16
          /\ 2 ^ (8 - 1 - 4) = 8 /\ 2 ^ (8 - 1 - 5) = 4 /\ 2 ^ (8 - 1 - 6) = 2 /\ 2 ^ (8 - 1 - 7) = 1
      OBVIOUS
    <2>3. /\ e = 0 => 2 ^ (8 - 1 - e) = 128
          /\ e = 1 => 2 ^ (8 - 1 - e) = 64
          /\ e = 2 => 2 ^ (8 - 1 - e) = 32
          /\ e = 3 => 2 ^ (8 - 1 - e) = 16
          /\ e = 4 => 2 ^ (8 - 1 - e) = 8
          /\ e = 5 => 2 ^ (8 - 1 - e) = 4
          /\ e = 6 => 2 ^ (8 - 1 - e) = 2
          /\ e = 7 => 2 ^ (8 - 1 - e) = 1
      BY <2>2
    <2> DEFINE p == 2 ^ (8 - 1 - e)
    <2> HIDE DEF p
    <2>4. p \in {128, 64, 32, 16, 8, 4, 2, 1}
      BY <2>1, <2>3 DEF p
    <2>5. p \in Nat \ {0}
      BY <2>4
    <2> QED BY <2>2, <2>5 DEF p
  <1> DEFINE p == 2 ^ (8 - 1 - e)
             q == byte \div p
  <1>5. q \in Nat
    <2>1. p \in Nat \ {0}
      BY <1>4
    <2> HIDE DEF p
    <2> QED BY <1>2, <2>1
  <1>6. BitsAt(bytes, 1, k, 1) = q % 2
    BY <1>3, <1>4
  <1> HIDE DEF q
  <1>7. q % 2 \in 0 .. 1
    BY <1>5
  <1> QED BY <1>6, <1>7

(* palette_filter's one reader finds what a reader for each row would, while
   rows fill their bytes and within the first row. *)
Unsheared(w, k) == w % 8 = 0 \/ k < w

SamePlace(w, k, first) ==
  1 + (k * 1) \div 8 = first + ((k % w) * 1) \div 8 /\ (k * 1) % 8 = ((k % w) * 1) % 8

(* One reader for all rows is where a reader for each row would be, in the
   first row and when rows fill their bytes. *)
LEMMA OneReader ==
  ASSUME NEW w \in Nat \ {0}, NEW k \in Nat, Unsheared(w, k)
  PROVE  SamePlace(w, k, 1 + (k \div w) * Padded(w * 1))
  <1> DEFINE y == k \div w
             x == k % w
             P == Padded(w * 1)
  <1>1. y \in Nat /\ x \in 0 .. w - 1 /\ k = y * w + x
    BY Split
  <1>2. P \in Nat
    BY DEF Padded
  <1>3. CASE k < w
    <2>1. y = 0 /\ x = k
      <3>1. 0 * w + k \in Nat /\ (0 * w + k) \div w = 0 /\ (0 * w + k) % w = k
        <4>1. k \in 0 .. w - 1 /\ 0 \in Nat
          BY <1>3
        <4> QED BY <4>1, DivMod
      <3>2. 0 * w + k = k
        OBVIOUS
      <3> QED BY <3>1, <3>2
    <2>2. y * P = 0
      BY <1>2, <2>1
    <2> QED BY <2>1, <2>2 DEF SamePlace
  <1>4. CASE w % 8 = 0
    <2> DEFINE q == w \div 8
               d == x \div 8
               e == x % 8
    <2>1. q \in Nat /\ w = q * 8
      BY <1>4
    <2>2. P = q
      BY <2>1 DEF Padded
    <2>3. d \in Nat /\ e \in 0 .. 7 /\ x = d * 8 + e
      BY <1>1
    <2> HIDE DEF P, q, d, e
    <2> DEFINE c == y * q
    <2>4. c \in Nat /\ y * w = c * 8
      BY <1>1, <2>1
    <2>5. k = (c + d) * 8 + e
      <3> HIDE DEF c, y, x
      <3> QED BY <1>1, <2>3, <2>4
    <2>6. k \div 8 = c + d /\ k % 8 = e
      <3>1. c + d \in Nat
        BY <2>3, <2>4
      <3> HIDE DEF c
      <3>2. ((c + d) * 8 + e) \div 8 = c + d /\ ((c + d) * 8 + e) % 8 = e
        <4> DEFINE b == c + d
        <4>1. b \in Nat /\ e \in 0 .. 8 - 1 /\ 8 \in Nat \ {0}
          BY <2>3, <3>1
        <4> HIDE DEF b
        <4>2. (b * 8 + e) \div 8 = b /\ (b * 8 + e) % 8 = e
          BY <4>1, DivMod
        <4> QED BY <4>2 DEF b
      <3> QED BY <2>5, <3>2
    <2>7. y * P = c
      BY <2>2
    <2>8. x * 1 = x /\ k * 1 = k
      BY <1>1
    <2>9. x \div 8 = d /\ x % 8 = e
      BY DEF d, e
    <2> HIDE DEF c, y, x
    <2>10. 1 + (k * 1) \div 8 = 1 + y * P + (x * 1) \div 8 /\ (k * 1) % 8 = (x * 1) % 8
      BY <2>3, <2>4, <2>6, <2>7, <2>8, <2>9
    <2> QED BY <2>10 DEF SamePlace, x, y, P
  <1> QED BY <1>3, <1>4 DEF Unsheared

(* There it reads the same bit. *)
LEMMA OneReaderBits ==
  ASSUME NEW w \in Nat \ {0}, NEW k \in Nat, Unsheared(w, k), NEW bytes
  PROVE  BitsAt(bytes, 1, k, 1) = BitsAt(bytes, 1 + (k \div w) * Padded(w * 1), k % w, 1)
  <1> DEFINE first == 1 + (k \div w) * Padded(w * 1)
  <1>1. SamePlace(w, k, first)
    BY OneReader
  <1> HIDE DEF first
  <1>2. BitsAt(bytes, 1, k, 1) = BitsAt(bytes, first, k % w, 1)
    BY <1>1 DEF SamePlace, BitsAt
  <1> QED BY <1>2 DEF first

PaletteIndex(data0, n, k) == IF n = 2 THEN BitsAt(data0, 1, k, 1) ELSE Sym(data0, k + 1)
PaletteRow(P, data0, area) == [k \in 1 .. area |-> P[PaletteIndex(data0, Len(P), k - 1) + 1]]

(* palette_filter, with its palette converted. *)
LEMMA PaletteRead ==
  ASSUME NEW m, NEW P, P = Converted(m.body.palette), NEW data0, data0 = m.body.data, NEW r, m.rect = r
  PROVE  DecodePalette(m) = <<Rows(r, PaletteRow(P, data0, r.w * r.h))>>
  <1>1. DecodePalette(m) = <<Rows(m.rect, PaletteRow(Converted(m.body.palette), m.body.data, m.rect.w * m.rect.h))>>
    BY Zenon DEF DecodePalette, PaletteRow, PaletteIndex
  <1> QED BY <1>1

(* The bits of two colours. *)
TwoColours(s, w, h, area) == IsBlock(s, Digits(1), w, h, area)

(* Indices into two colours are bits. *)
LEMMA TwoAre ==
  ASSUME NEW cells, NEW P, NEW n, NEW s, PaletteFacts(cells, P, n, s), n = 2, NEW w \in Nat \ {0}, NEW h \in Nat,
         NEW area, area = w * h, Len(cells) = area
  PROVE  TwoColours(s, w, h, area)
  <1>1. 0 .. 1 \subseteq Digits(1)
    <2>1. ZrleBits(2) = 1 /\ 2 \in 2 .. 99
      BY DEF ZrleBits
    <2>2. 0 .. 2 - 1 \subseteq Digits(ZrleBits(2))
      BY <2>1, FitsBits
    <2> QED BY <2>1, <2>2
  <1>2. s \in Seq(Nat) /\ Len(s) = Len(cells) /\ \A k \in 1 .. Len(cells) : s[k] \in 0 .. n - 1
    BY DEF PaletteFacts
  <1>3. \A k \in 1 .. Len(s) : s[k] \in Digits(1)
    BY <1>1, <1>2
  <1>4. s \in Seq(Digits(1))
    BY <1>2, <1>3
  <1>5. Len(s) = w * h
    BY <1>2
  <1> QED BY <1>4, <1>5 DEF TwoColours, IsBlock

(* Data begins with itself. *)
LEMMA BeginsSelf == ASSUME NEW s PROVE Begins(s, s) \/ Len(s) \notin Nat
  BY DEF Begins

(* The bits of two colours, read on from row to row. *)
LEMMA TwoBack ==
  ASSUME NEW s, NEW w, NEW h, NEW area, TwoColours(s, w, h, area), NEW data0, data0 = Pack(s, w, 1), NEW k \in 0 .. area - 1
  PROVE  /\ BitsAt(data0, 1, k, 1) \in 0 .. 1
         /\ Unsheared(w, k) => BitsAt(data0, 1, k, 1) = s[k + 1]
  <1>0. IsBlock(s, Digits(1), w, h, area)
    BY DEF TwoColours
  <1>1. w \in Nat \ {0} /\ h \in Nat /\ s \in Seq(Digits(1)) /\ Len(s) = w * h /\ area = w * h
    BY <1>0 DEF IsBlock
  <1>2. 1 \in {1, 2, 4, 8}
    OBVIOUS
  <1> DEFINE one == 1
  <1> HIDE DEF one
  <1>9. one = 1
    BY DEF one
  <1>3. data0 \in Seq(Nat)
    <2>1. Packs(Pack(s, w, 1), s, w, h, 1)
      BY <1>1, <1>2, PackIs
    <2> QED BY <2>1 DEF Packs
  <1>4. PackedRows(data0, w, area, 1) = s
    <2>1. Begins(data0, data0)
      BY <1>3, BeginsSelf
    <2> QED BY <1>0, <1>2, <1>3, <2>1, Unpacked
  <1>5. k \in Nat /\ k + 1 \in 1 .. area /\ (k + 1) - 1 = k
    <2>1. area \in Nat
      BY <1>1
    <2> QED BY <2>1
  <1>6. BitsAt(data0, 1, k, 1) \in 0 .. 1
    BY <1>3, <1>5, BitIn
  <1>7. ASSUME Unsheared(w, k) PROVE BitsAt(data0, 1, k, 1) = s[k + 1]
    <2>1. BitsAt(data0, 1, k, 1) = BitsAt(data0, 1 + (k \div w) * Padded(w * 1), k % w, 1)
      BY <1>1, <1>5, <1>7, OneReaderBits
    <2>2. PackedRows(data0, w, area, 1)[k + 1] = BitsAt(data0, 1 + (((k + 1) - 1) \div w) * Padded(w * 1), ((k + 1) - 1) % w, 1)
      BY <1>5 DEF PackedRows
    <2>3. PackedRows(data0, w, area, 1)[k + 1] = BitsAt(data0, 1 + (k \div w) * Padded(w * 1), k % w, 1)
      BY <1>5, <2>2
    <2> QED BY <1>4, <2>1, <2>3
  <1> QED BY <1>6, <1>7

(* Indices are read where they are, two colours where rows are not sheared. *)
IndexRead(i, s, n, w, k) == i \in 0 .. n - 1 /\ (n # 2 \/ Unsheared(w, k) => i = s[k + 1])

PaletteData(data0, n, s, w) == data0 = IF n = 2 THEN Pack(s, w, 1) ELSE s

(* An index that palette_filter reads is one of the palette, and the right
   one where rows are not sheared. *)
LEMMA IndexIs ==
  ASSUME NEW cells, NEW P, NEW n, NEW s, PaletteFacts(cells, P, n, s), NEW w \in Nat \ {0}, NEW h \in Nat,
         NEW area, area = w * h, Len(cells) = area, NEW data0, PaletteData(data0, n, s, w), NEW k \in 0 .. area - 1
  PROVE  IndexRead(PaletteIndex(data0, n, k), s, n, w, k)
  <1>1. s \in Seq(Nat) /\ Len(s) = Len(cells) /\ n \in 2 .. 99 /\ \A i \in 1 .. Len(cells) : s[i] \in 0 .. n - 1
    BY DEF PaletteFacts
  <1>2. CASE n = 2
    <2>1. TwoColours(s, w, h, area)
      BY <1>2, TwoAre
    <2>2. data0 = Pack(s, w, 1)
      BY <1>2 DEF PaletteData
    <2>3. BitsAt(data0, 1, k, 1) \in 0 .. 1 /\ (Unsheared(w, k) => BitsAt(data0, 1, k, 1) = s[k + 1])
      BY <2>1, <2>2, TwoBack
    <2> QED BY <1>2, <2>3 DEF PaletteIndex, IndexRead
  <1>3. CASE n # 2
    <2>1. data0 = s /\ PaletteIndex(data0, n, k) = Sym(data0, k + 1)
      BY <1>3 DEF PaletteData, PaletteIndex
    <2>2. area \in Nat
      OBVIOUS
    <2>3. k + 1 \in 1 .. area /\ DOMAIN s = 1 .. area
      BY <1>1, <2>2
    <2>4. Sym(s, k + 1) = s[k + 1] /\ s[k + 1] \in 0 .. n - 1
      BY <1>1, <2>3 DEF Sym
    <2> QED BY <2>1, <2>4 DEF IndexRead
  <1> QED BY <1>2, <1>3

(* The pixels that are known: not those of sheared rows. *)
KnownPixel(cells, cells2, n, w, k) == cells2[k] # Unknown => cells2[k] = cells[k] /\ (n # 2 \/ Unsheared(w, k - 1))

PaletteBlock(px, cells2, area) ==
  /\ px \in Seq(Nat) /\ Len(px) = area
  /\ \A k \in 1 .. area : cells2[k] # Unknown => cells2[k] = px[k]

(* palette_filter shows every pixel that is known. *)
LEMMA PaletteRows ==
  ASSUME NEW cells, NEW P, NEW n, NEW s, PaletteFacts(cells, P, n, s), NEW w \in Nat \ {0}, NEW h \in Nat,
         NEW area, area = w * h, Len(cells) = area, NEW data0, PaletteData(data0, n, s, w),
         NEW cells2, \A k \in 1 .. area : KnownPixel(cells, cells2, n, w, k)
  PROVE  PaletteBlock(PaletteRow(P, data0, area), cells2, area)
  <1> DEFINE px == PaletteRow(P, data0, area)
             I(k) == PaletteIndex(data0, n, k - 1)
  <1>1. P \in Seq(Nat) /\ Len(P) = n /\ n \in Nat /\ Len(s) = Len(cells) /\ \A k \in 1 .. Len(cells) : P[s[k] + 1] = cells[k]
    BY DEF PaletteFacts
  <1>2. area \in Nat
    OBVIOUS
  <1>3. px = [k \in 1 .. area |-> P[I(k) + 1]]
    BY <1>1 DEF PaletteRow
  <1>4. \A k \in 1 .. area : IndexRead(I(k), s, n, w, k - 1)
    <2> SUFFICES ASSUME NEW k \in 1 .. area PROVE IndexRead(I(k), s, n, w, k - 1)
      OBVIOUS
    <2> DEFINE i == k - 1
    <2>1. i \in 0 .. area - 1
      BY <1>2
    <2> HIDE DEF i
    <2>2. IndexRead(PaletteIndex(data0, n, i), s, n, w, i)
      BY <2>1, IndexIs
    <2> QED BY <2>2 DEF i
  <1> HIDE DEF I, px
  <1>5. \A k \in 1 .. area : P[I(k) + 1] \in Nat
    <2> SUFFICES ASSUME NEW k \in 1 .. area PROVE P[I(k) + 1] \in Nat
      OBVIOUS
    <2> DEFINE q == I(k) + 1
    <2>1. I(k) \in 0 .. n - 1
      BY <1>4 DEF IndexRead
    <2>2. q \in 1 .. Len(P)
      BY <1>1, <2>1
    <2> HIDE DEF q
    <2>3. P[q] \in Nat
      BY <1>1, <2>2, ElementOfSeq
    <2> QED BY <2>3 DEF q
  <1>6. px \in Seq(Nat) /\ Len(px) = area
    <2>1. px \in [1 .. area -> Nat]
      BY <1>3, <1>5
    <2> QED BY <1>2, <2>1, IsSeqOf
  <1>7. ASSUME NEW k \in 1 .. area, cells2[k] # Unknown
        PROVE  cells2[k] = px[k]
    <2>1. KnownPixel(cells, cells2, n, w, k)
      OBVIOUS
    <2>2. cells2[k] = cells[k] /\ (n # 2 \/ Unsheared(w, k - 1))
      BY <1>7, <2>1 DEF KnownPixel
    <2>3. (k - 1) + 1 = k
      BY <1>2
    <2>4. I(k) = s[k]
      BY <1>4, <2>2, <2>3 DEF IndexRead
    <2>5. px[k] = P[s[k] + 1]
      BY <1>3, <2>4
    <2>6. P[s[k] + 1] = cells[k]
      BY <1>1
    <2> QED BY <2>2, <2>5, <2>6
  <1> QED BY <1>6, <1>7 DEF PaletteBlock, px

(* palette_filter. *)
LEMMA PaletteSent ==
  ASSUME NEW r \in Tile, NEW cells \in Seq(1 .. 99), Len(cells) = r.w * r.h, NEW P, P = PaletteOf(cells), Len(P) > 1,
         NEW m, NEW left,
         Sending(m, "palette", r, [palette |-> Triples(P),
                                   data |-> IF Len(P) = 2 THEN Pack(Indices(cells), r.w, 1) ELSE Indices(cells)]),
         NEW cells2, \A k \in 1 .. r.w * r.h : KnownPixel(cells, cells2, Len(P), r.w, k)
  PROVE  SentOK(m, left, r, cells2)
  <1> DEFINE n == Len(P)
             s == Indices(cells)
             w == r.w
             h == r.h
             area == w * h
             data0 == m.body.data
  <1>1. m.codec = "palette" /\ m.rect = r /\ m.body.palette = Triples(P)
        /\ m.body.data = IF Len(P) = 2 THEN Pack(Indices(cells), r.w, 1) ELSE Indices(cells)
    BY DEF Sending
  <1>2. PaletteFacts(cells, P, n, s)
    <2>1. Palette(cells, P, n, s)
      BY DEF Palette
    <2> HIDE DEF n, s
    <2> QED BY <2>1, PaletteHas
  <1>3. P \in Seq(Nat)
    BY <1>2 DEF PaletteFacts
  <1>4. Converted(m.body.palette) = P
    BY <1>1, <1>3, TriplesBack
  <1>5. DecodePalette(m) = <<Rows(r, PaletteRow(P, data0, area))>>
    BY <1>1, <1>4, PaletteRead
  <1>6. w \in Nat \ {0} /\ h \in Nat /\ Len(cells) = area
    BY DEF Tile
  <1>7. PaletteData(data0, n, s, w)
    BY <1>1 DEF PaletteData
  <1>8. \A k \in 1 .. area : KnownPixel(cells, cells2, n, w, k)
    OBVIOUS
  <1> DEFINE px == PaletteRow(P, data0, area)
             j == Rows(r, px)
  <1>13. area = w * h /\ area = r.w * r.h
    OBVIOUS
  <1> HIDE DEF n, s, w, h, data0, area
  <1>9. PaletteBlock(px, cells2, area)
    BY <1>2, <1>6, <1>7, <1>8, <1>13, PaletteRows
  <1>10. Good(<<j>>, r, cells2)
    <2>1. px \in Seq(Nat) /\ Len(px) = area /\ \A k \in 1 .. area : cells2[k] # Unknown => cells2[k] = px[k]
      BY <1>9 DEF PaletteBlock
    <2>2. area \in Nat
      BY <1>6, <1>13
    <2>3. \A k \in 1 .. r.w * r.h : cells2[k] # Unknown => cells2[k] = px[k]
      BY <1>13, <2>1
    <2>4. Len(px) >= r.w * r.h
      BY <1>13, <2>1, <2>2
    <2>5. j = Rows(r, px)
      OBVIOUS
    <2> HIDE DEF j, px
    <2> QED BY <2>1, <2>3, <2>4, <2>5, OneBlock
  <1> HIDE DEF j, px
  <1>11. Decode(m, left) = <<j>>
    <2>1. DecodePalette(m) = <<j>>
      BY <1>5 DEF j, px
    <2> QED BY <1>1, <2>1, DecodeIs
  <1>12. m.codec # "zrle"
    BY <1>1
  <1> QED BY <1>10, <1>11, <1>12, GoodSent

-----------------------------------------------------------------------------
(* ultra_zip. *)

(* One row of a block as an operation. *)
StripIs(j, r, y, line) ==
  /\ j \in Job /\ j.op \in Drawing /\ j.op = "bitmap" /\ j.pixels = line
  /\ j.x = r.x /\ j.y = r.y + y - 1 /\ j.w = r.w /\ j.h = 1

(* A rectangle of ultra_zip, one row high. *)
LEMMA StripJob ==
  ASSUME NEW r \in Tile, NEW y \in Nat \ {0}, NEW line \in Seq(Nat), NEW j, j = Bitmap(At(r.x, r.y + y - 1, r.w, 1), line)
  PROVE  StripIs(j, r, y, line)
  <1> DEFINE at == At(r.x, r.y + y - 1, r.w, 1)
  <1>1. r.x \in Int /\ r.y \in Int /\ r.w \in Nat /\ r.h \in Nat
    BY DEF Tile
  <1>2. at.x = r.x /\ at.y = r.y + y - 1 /\ at.w = r.w /\ at.h = 1
    BY DEF At
  <1>3. at.x \in Int /\ at.y \in Int /\ at.w \in Nat /\ at.h \in Nat
    BY <1>1, <1>2
  <1> HIDE DEF at
  <1>4. j = Bitmap(at, line)
    BY DEF at
  <1>5. j \in Job /\ j.op \in Drawing /\ j.x = at.x /\ j.y = at.y /\ j.w = at.w /\ j.h = at.h /\ j.op = "bitmap" /\ j.pixels = line
    BY <1>3, <1>4, BlockIs
  <1> QED BY <1>2, <1>5 DEF StripIs

IsStrips(js, r, rows) ==
  /\ js \in Seq(Job) /\ Len(js) = r.h
  /\ \A y \in 1 .. r.h : StripIs(js[y], r, y, rows[y])

(* The rectangles of ultra_zip are the rows. *)
LEMMA StripsAre ==
  ASSUME NEW r \in Tile, NEW cells \in Seq(Nat), Len(cells) = r.w * r.h, NEW m, m.body = Strips(cells, r)
  PROVE  IsStrips(DecodeUltraZip(m), r, RowsOf(cells, r.w))
  <1> DEFINE rows == RowsOf(cells, r.w)
             js == DecodeUltraZip(m)
             J(y) == Bitmap(At(r.x, r.y + y - 1, r.w, 1), rows[y])
  <1>1. r.w \in Nat \ {0} /\ r.h \in Nat
    BY DEF Tile
  <1>2. Lines(rows, Nat, cells, r.w, r.h)
    BY <1>1, RowsAre
  <1>3. DOMAIN rows = 1 .. r.h /\ \A y \in 1 .. r.h : rows[y] \in Seq(Nat)
    BY <1>2 DEF Lines
  <1>4. m.body = [y \in DOMAIN rows |-> [at |-> At(r.x, r.y + y - 1, r.w, 1), cells |-> rows[y]]]
    BY Zenon DEF Strips
  <1> HIDE DEF rows
  <1>5. js = [y \in 1 .. r.h |-> J(y)]
    BY <1>3, <1>4 DEF DecodeUltraZip
  <1>6. \A y \in 1 .. r.h : StripIs(J(y), r, y, rows[y])
    <2> SUFFICES ASSUME NEW y \in 1 .. r.h PROVE StripIs(J(y), r, y, rows[y])
      OBVIOUS
    <2>1. y \in Nat \ {0} /\ rows[y] \in Seq(Nat)
      BY <1>1, <1>3
    <2> QED BY <2>1, StripJob
  <1> HIDE DEF J, js
  <1>7. js \in Seq(Job) /\ Len(js) = r.h
    <2>1. js \in [1 .. r.h -> Job]
      BY <1>5, <1>6 DEF StripIs
    <2> QED BY <1>1, <2>1, IsSeqOf
  <1>8. \A y \in 1 .. r.h : js[y] = J(y)
    BY <1>5
  <1> QED BY <1>6, <1>7, <1>8 DEF IsStrips, rows, js

(* Rows drawn one by one draw the block. *)
LEMMA StripsDraw ==
  ASSUME NEW r \in Tile, NEW cells \in Seq(Nat), Len(cells) = r.w * r.h,
         NEW js, IsStrips(js, r, RowsOf(cells, r.w))
  PROVE  Good(js, r, cells)
  <1> DEFINE rows == RowsOf(cells, r.w)
             w == r.w
             h == r.h
  <1>1. w \in Nat \ {0} /\ h \in Nat \ {0} /\ r.x \in Int /\ r.y \in Int
    BY DEF Tile
  <1>2. Lines(rows, Nat, cells, w, h)
    <2>1. h \in Nat
      BY <1>1
    <2> QED BY <1>1, <2>1, RowsAre
  <1>3. js \in Seq(Job) /\ Len(js) = h /\ \A y \in 1 .. h : StripIs(js[y], r, y, rows[y])
    BY DEF IsStrips
  <1> HIDE DEF rows, w, h
  <1>4. \A y \in 1 .. h : Len(rows[y]) = w
    BY <1>2 DEF Lines
  <1>5. Within(js, r)
    <2> SUFFICES ASSUME NEW y \in 1 .. h
                 PROVE  /\ Filled(js[y]) /\ js[y].op \in Drawing
                        /\ js[y].x >= r.x /\ js[y].y >= r.y
                        /\ js[y].x + js[y].w <= r.x + r.w /\ js[y].y + js[y].h <= r.y + r.h
      BY <1>3 DEF Within
    <2>1. /\ js[y].op \in Drawing /\ js[y].pixels = rows[y] /\ js[y].x = r.x /\ js[y].y = r.y + y - 1
          /\ js[y].w = w /\ js[y].h = 1
      BY <1>3 DEF StripIs, w
    <2>2. Filled(js[y])
      <3>1. Len(rows[y]) = w /\ w * 1 = w
        BY <1>1, <1>4
      <3> QED BY <1>1, <2>1, <3>1 DEF Filled
    <2>3. y >= 1 /\ y <= h /\ y \in Int
      BY <1>1
    <2>4. r.w = w /\ r.h = h
      BY DEF w, h
    <2> QED BY <1>1, <2>1, <2>2, <2>3, <2>4
  <1>6. Draws(js, r, cells)
    <2> SUFFICES ASSUME NEW u \in 0 .. r.w - 1, NEW v \in 0 .. r.h - 1
                 PROVE  Settled(js, r.x + u, r.y + v, Cell(cells, r.w, u, v))
      BY DEF Draws
    <2> DEFINE i == v + 1
               line == rows[i]
               x == r.x + u
               y == r.y + v
    <2>1. u \in 0 .. w - 1 /\ v \in 0 .. h - 1 /\ u \in Int /\ v \in Int
      BY DEF w, h
    <2>2. i \in 1 .. h /\ i - 1 = v
      BY <1>1, <2>1
    <2>3. LineHas(line, Nat, w, u, Cell(cells, w, u, v))
      <3>1. w \in Nat /\ h \in Nat
        BY <1>1
      <3> QED BY <1>2, <2>1, <3>1, LineAt DEF Cell
    <2>4. StripIs(js[i], r, i, line)
      BY <1>3, <2>2
    <2> HIDE DEF i, line
    <2>5. Covers(js[i], x, y)
      <3>1. js[i].x = r.x /\ js[i].y = r.y + i - 1 /\ js[i].w = w /\ js[i].h = 1
        BY <2>4 DEF StripIs, w
      <3>2. x - r.x = u /\ y - (r.y + i - 1) = 0
        BY <1>1, <2>1, <2>2
      <3> QED BY <2>1, <3>1, <3>2 DEF Covers
    <2>6. Shown(js[i], x, y) = Cell(cells, w, u, v)
      <3>1. js[i].op = "bitmap" /\ js[i].pixels = line /\ js[i].x = r.x /\ js[i].y = r.y + i - 1 /\ js[i].w = w
        BY <2>4 DEF StripIs, w
      <3>2. w * (y - (r.y + i - 1)) + (x - r.x) + 1 = u + 1
        <4>1. x - r.x = u /\ y - (r.y + i - 1) = 0 /\ w * 0 = 0
          BY <1>1, <2>1, <2>2
        <4> QED BY <2>1, <4>1
      <3>3. Shown(js[i], x, y) = line[u + 1]
        <4> HIDE DEF x, y
        <4> QED BY <3>1, <3>2 DEF Shown
      <3>4. line[u + 1] = Cell(cells, w, u, v)
        BY <2>3 DEF LineHas
      <3> QED BY <3>3, <3>4
    <2>7. \A k \in i + 1 .. h : ~Covers(js[k], x, y)
      <3> SUFFICES ASSUME NEW k \in i + 1 .. h PROVE ~Covers(js[k], x, y)
        OBVIOUS
      <3>1. k \in 1 .. h /\ k > i
        BY <1>1, <2>2
      <3>2. js[k].y = r.y + k - 1 /\ js[k].h = 1
        BY <1>3, <3>1 DEF StripIs
      <3>3. y - (r.y + k - 1) < 0
        BY <1>1, <2>1, <2>2, <3>1
      <3> QED BY <3>2, <3>3 DEF Covers
    <2> HIDE DEF x, y
    <2>8. Settled(js, x, y, Cell(cells, w, u, v))
      BY <1>3, <2>2, <2>5, <2>6, <2>7 DEF Settled
    <2> QED BY <2>8 DEF x, y, w
  <1> QED BY <1>5, <1>6 DEF Good

(* ultra_zip. *)
LEMMA UltraZipSent ==
  ASSUME NEW r \in Tile, NEW cells \in Seq(Nat), Len(cells) = r.w * r.h, NEW m, NEW left,
         Sending(m, "ultrazip", r, Strips(cells, r))
  PROVE  SentOK(m, left, r, cells)
  <1>1. m.codec = "ultrazip" /\ m.body = Strips(cells, r)
    BY DEF Sending
  <1>2. IsStrips(DecodeUltraZip(m), r, RowsOf(cells, r.w))
    BY <1>1, StripsAre
  <1>3. Good(DecodeUltraZip(m), r, cells)
    BY <1>2, StripsDraw
  <1>4. m.codec # "zrle"
    BY <1>1
  <1>5. Decode(m, left) = DecodeUltraZip(m)
    BY <1>1, DecodeIs
  <1> QED BY <1>3, <1>4, <1>5, GoodSent

-----------------------------------------------------------------------------
(* Any rectangle that the server sends. *)

(* Encodings of pixels. *)
PixelCodecs == FrameCodecs \cup {"ultrazip"}

(* Colours, or pixels not known. *)
CellsOK(cells, n) == \A k \in 1 .. n : cells[k] \in Nat \cup {Unknown}

(* A rectangle of the screen is sent. *)
RectSent(r, cells) ==
  /\ message'.codec \in PixelCodecs /\ message'.rect = r /\ SentOK(message', <<>>, r, cells)
  /\ CellsOK(cells, r.w * r.h) /\ Shows(r, cells) /\ shape' = shape

(* What sending a rectangle leaves. *)
LEMMA SendsIs ==
  ASSUME NEW codec, NEW r, NEW body, NEW cells, Sends(codec, r, body, cells)
  PROVE  Sending(message', codec, r, body) /\ message'.rect = r /\ message'.codec = codec /\ Shows(r, cells) /\ shape' = shape
  BY DEF Sends, Sending

(* A rectangle was sent when its operations draw it. *)
LEMMA SendIsRect ==
  ASSUME NEW codec, NEW r, NEW body, NEW cells, Sends(codec, r, body, cells), codec \in PixelCodecs,
         SentOK(message', <<>>, r, cells), CellsOK(cells, r.w * r.h)
  PROVE  RectSent(r, cells)
  BY SendsIs DEF RectSent

(* Colours are known pixels. *)
LEMMA SeqCells ==
  ASSUME NEW cells \in Seq(Nat), NEW n, Len(cells) = n
  PROVE  CellsOK(cells, n)
  BY DEF CellsOK

(* A rectangle of the screen. *)
LEMMA OnScreenTile ==
  ASSUME NEW r \in OnScreen
  PROVE  r \in Tile /\ r.x \in Nat /\ r.y \in Nat /\ r.w \in Nat \ {0} /\ r.h \in Nat \ {0}
  <1>1. r \in Rects
    BY DEF OnScreen
  <1>2. r \in [x : Nat, y : Nat, w : Nat \ {0}, h : Nat \ {0}]
    BY <1>1, PixelsAssumption
  <1>3. r \in Tile
    BY <1>2 DEF Tile
  <1> QED BY <1>2, <1>3

(* tight, whichever way it is sent. *)
LEMMA TightSent ==
  ASSUME NEW r \in Tile, NEW cells \in Seq(1 .. 99), Len(cells) = r.w * r.h, SendTight(r, cells)
  PROVE  \E c : RectSent(r, c)
  <1> DEFINE P == PaletteOf(cells)
             n == r.w * r.h
             sheared == Len(P) = 2 /\ r.w % 8 # 0
             none == [k \in DOMAIN cells |-> Unknown]
             some == [k \in DOMAIN cells |-> IF sheared /\ k > r.w THEN Unknown ELSE cells[k]]
             body == [palette |-> Triples(P), data |-> IF Len(P) = 2 THEN Pack(Indices(cells), r.w, 1) ELSE Indices(cells)]
             left == <<>>
  <1>1. cells \in Seq(Nat) /\ Len(cells) = n /\ DOMAIN cells = 1 .. n
    <2>1. cells \in Seq(Nat)
      BY SeqNat
    <2> QED BY <2>1
  <1>2. CellsOK(cells, n)
    BY <1>1, SeqCells
  <1>3. \/ Len(P) = 1 /\ Sends("fill", r, RGB(P[1]), cells)
        \/ Sends("jpeg", r, cells, cells)
        \/ Sends("copy", r, Triples(cells), cells)
        \/ Sends("gradient", r, <<>>, none)
        \/ Len(P) > 1 /\ Sends("palette", r, body, some)
    BY Zenon DEF SendTight
  <1>4. {"fill", "jpeg", "copy", "gradient", "palette"} \subseteq PixelCodecs
    BY DEF PixelCodecs, FrameCodecs
  <1>5. none = [k \in 1 .. n |-> Unknown] /\ some = [k \in 1 .. n |-> IF sheared /\ k > r.w THEN Unknown ELSE cells[k]]
    BY <1>1
  <1>14. r.w \in Nat \ {0} /\ r.h \in Nat
    BY DEF Tile
  <1> HIDE DEF P, n, none, some, body
  <1>6. CASE Len(P) = 1 /\ Sends("fill", r, RGB(P[1]), cells)
    <2>1. Sending(message', "fill", r, RGB(P[1]))
      BY <1>6, SendsIs
    <2>2. SentOK(message', left, r, cells)
      BY <1>6, <2>1, FillSent DEF P
    <2> QED BY <1>2, <1>4, <1>6, <2>2, SendIsRect DEF n
  <1>7. CASE Sends("jpeg", r, cells, cells)
    <2>1. Sending(message', "jpeg", r, cells)
      BY <1>7, SendsIs
    <2>2. SentOK(message', left, r, cells)
      BY <1>1, <2>1, RawSent DEF n
    <2> QED BY <1>2, <1>4, <1>7, <2>2, SendIsRect DEF n
  <1>8. CASE Sends("copy", r, Triples(cells), cells)
    <2>1. Sending(message', "copy", r, Triples(cells))
      BY <1>8, SendsIs
    <2>2. SentOK(message', left, r, cells)
      BY <1>1, <2>1, CopySent DEF n
    <2> QED BY <1>2, <1>4, <1>8, <2>2, SendIsRect DEF n
  <1>9. CASE Sends("gradient", r, <<>>, none)
    <2>1. Sending(message', "gradient", r, <<>>)
      BY <1>9, SendsIs
    <2>2. \A k \in 1 .. n : none[k] = Unknown
      BY <1>5
    <2>3. n = r.w * r.h
      BY DEF n
    <2>4. SentOK(message', left, r, none)
      BY <2>1, <2>2, <2>3, GradientSent
    <2>5. CellsOK(none, n)
      BY <2>2 DEF CellsOK
    <2> QED BY <1>4, <1>9, <2>4, <2>5, SendIsRect DEF n
  <1>10. CASE Len(P) > 1 /\ Sends("palette", r, body, some)
    <2>1. Sending(message', "palette", r, body)
      BY <1>10, SendsIs
    <2>2. \A k \in 1 .. n : KnownPixel(cells, some, Len(P), r.w, k)
      <3> SUFFICES ASSUME NEW k \in 1 .. n, some[k] # Unknown
                   PROVE  some[k] = cells[k] /\ (Len(P) # 2 \/ Unsheared(r.w, k - 1))
        BY DEF KnownPixel
      <3>1. some[k] = IF sheared /\ k > r.w THEN Unknown ELSE cells[k]
        BY <1>5
      <3>2. ~(sheared /\ k > r.w) /\ some[k] = cells[k]
        BY <3>1
      <3>3. n \in Nat
        BY <1>14 DEF n
      <3>4. k \in Nat /\ (k - 1 < r.w \/ k > r.w)
        BY <1>14, <3>3
      <3>5. Len(P) # 2 \/ r.w % 8 = 0 \/ k - 1 < r.w
        BY <3>2, <3>4
      <3> QED BY <3>2, <3>5 DEF Unsheared
    <2>3. SentOK(message', left, r, some)
      <3>1. \A k \in 1 .. r.w * r.h : KnownPixel(cells, some, Len(P), r.w, k)
        BY <2>2 DEF n
      <3>2. Len(P) > 1
        BY <1>10
      <3> QED BY <2>1, <3>1, <3>2, PaletteSent DEF P, body
    <2>4. CellsOK(some, n)
      BY <1>2, <1>5 DEF CellsOK
    <2> QED BY <1>4, <1>10, <2>3, <2>4, SendIsRect DEF n
  <1> QED BY <1>3, <1>6, <1>7, <1>8, <1>9, <1>10

(* Every encoder of rectangles. *)
LEMMA RectIsSent ==
  ASSUME SendRect
  PROVE  \E r \in OnScreen : \E c : RectSent(r, c)
  <1>1. PICK r \in OnScreen, p \in Patterns :
          LET cells == Content(p, r.w * r.h)
          IN \/ \E codec \in {"raw", "zlib", "ultra"} : Sends(codec, r, cells, cells)
             \/ \E codec \in {"rre", "corre"} :
                  Sends(codec, r, [bg |-> cells[1], subs |-> Subrects(cells, r.w)], cells)
             \/ Sends("ultrazip", r, Strips(cells, r), cells)
             \/ \E mode \in {"raw", "plain", "coloured"} :
                  Sends("hextile", r, HexTiles(cells, r.w, r.h, mode), cells)
             \/ \E mode \in {"raw", "packed", "runs", "indexed"} :
                  Sends("zrle", r, ZrleTiles(cells, r.w, r.h, mode), cells)
             \/ SendTight(r, cells)
    BY Zenon DEF SendRect
  <1> DEFINE n == r.w * r.h
             cells == Content(p, n)
             left == <<>>
  <1>2. r \in Tile /\ n \in Nat
    BY OnScreenTile
  <1>3. cells \in Seq(1 .. 99) /\ Len(cells) = n
    BY <1>2, ContentIn
  <1> HIDE DEF cells
  <1>4. cells \in Seq(Nat)
    BY <1>3, SeqNat
  <1>5. CellsOK(cells, r.w * r.h)
    BY <1>3, <1>4, SeqCells
  <1>6. Len(cells) = r.w * r.h
    BY <1>3
  <1>7. \/ \E codec \in {"raw", "zlib", "ultra"} : Sends(codec, r, cells, cells)
        \/ \E codec \in {"rre", "corre"} :
             Sends(codec, r, [bg |-> cells[1], subs |-> Subrects(cells, r.w)], cells)
        \/ Sends("ultrazip", r, Strips(cells, r), cells)
        \/ \E mode \in {"raw", "plain", "coloured"} :
             Sends("hextile", r, HexTiles(cells, r.w, r.h, mode), cells)
        \/ \E mode \in {"raw", "packed", "runs", "indexed"} :
             Sends("zrle", r, ZrleTiles(cells, r.w, r.h, mode), cells)
        \/ SendTight(r, cells)
    BY <1>1, Zenon DEF cells, n
  <1> HIDE DEF n
  <1>8. SUFFICES \E c : RectSent(r, c)
    OBVIOUS
  <1>9. {"raw", "zlib", "ultra", "rre", "corre", "ultrazip", "hextile", "zrle"} \subseteq PixelCodecs
    BY DEF PixelCodecs, FrameCodecs
  <1>10. CASE \E codec \in {"raw", "zlib", "ultra"} : Sends(codec, r, cells, cells)
    <2>1. PICK codec \in {"raw", "zlib", "ultra"} : Sends(codec, r, cells, cells)
      BY <1>10
    <2>2. codec \in {"raw", "zlib", "jpeg", "ultra"} /\ codec \in PixelCodecs
      BY <1>9
    <2>3. Sending(message', codec, r, cells)
      BY <2>1, SendsIs
    <2>4. SentOK(message', left, r, cells)
      BY <1>2, <1>4, <1>6, <2>2, <2>3, RawSent
    <2> QED BY <1>5, <2>1, <2>2, <2>4, SendIsRect
  <1>11. CASE \E codec \in {"rre", "corre"} :
                Sends(codec, r, [bg |-> cells[1], subs |-> Subrects(cells, r.w)], cells)
    <2> DEFINE body == [bg |-> cells[1], subs |-> Subrects(cells, r.w)]
    <2>1. PICK codec \in {"rre", "corre"} : Sends(codec, r, body, cells)
      BY <1>11
    <2>2. codec \in PixelCodecs
      BY <1>9
    <2>3. Sending(message', codec, r, body)
      <3> HIDE DEF body
      <3> QED BY <2>1, SendsIs
    <2>4. SentOK(message', left, r, cells)
      BY <1>2, <1>4, <1>6, <2>3, RRESent
    <2> HIDE DEF body
    <2> QED BY <1>5, <2>1, <2>2, <2>4, SendIsRect
  <1>12. CASE Sends("ultrazip", r, Strips(cells, r), cells)
    <2>1. Sending(message', "ultrazip", r, Strips(cells, r))
      BY <1>12, SendsIs
    <2>2. SentOK(message', left, r, cells)
      BY <1>2, <1>4, <1>6, <2>1, UltraZipSent
    <2> QED BY <1>5, <1>9, <1>12, <2>2, SendIsRect
  <1>13. CASE \E mode \in {"raw", "plain", "coloured"} :
                Sends("hextile", r, HexTiles(cells, r.w, r.h, mode), cells)
    <2>1. PICK mode \in {"raw", "plain", "coloured"} : Sends("hextile", r, HexTiles(cells, r.w, r.h, mode), cells)
      BY <1>13
    <2>2. Sending(message', "hextile", r, HexTiles(cells, r.w, r.h, mode))
      BY <2>1, SendsIs
    <2>3. SentOK(message', left, r, cells)
      BY <1>2, <1>4, <1>6, <2>2, HextileSent
    <2> QED BY <1>5, <1>9, <2>1, <2>3, SendIsRect
  <1>14. CASE \E mode \in {"raw", "packed", "runs", "indexed"} :
                Sends("zrle", r, ZrleTiles(cells, r.w, r.h, mode), cells)
    <2>1. PICK mode \in ZrleModes : Sends("zrle", r, ZrleTiles(cells, r.w, r.h, mode), cells)
      BY <1>14 DEF ZrleModes
    <2>2. Sending(message', "zrle", r, ZrleTiles(cells, r.w, r.h, mode))
      BY <2>1, SendsIs
    <2>3. SentOK(message', left, r, cells)
      BY <1>2, <1>3, <1>6, <2>2, ZrleSent
    <2> QED BY <1>5, <1>9, <2>1, <2>3, SendIsRect
  <1>15. CASE SendTight(r, cells)
    BY <1>2, <1>3, <1>6, <1>15, TightSent
  <1> QED BY <1>7, <1>10, <1>11, <1>12, <1>13, <1>14, <1>15

-----------------------------------------------------------------------------
(* A cursor's bits, as the client reads them. *)
Bits(s, w, h, n) == w \in Nat \ {0} /\ h \in Nat /\ s \in Seq({0, 1}) /\ Len(s) = w * h /\ n = w * h

(* A bitmap of a cursor comes back. *)
LEMMA BitsBackAgain ==
  ASSUME NEW s, NEW w, NEW h, NEW n, Bits(s, w, h, n)
  PROVE  PackedRows(Pack(s, w, 1), w, n, 1) = s
  <1>1. w \in Nat \ {0} /\ h \in Nat /\ s \in Seq({0, 1}) /\ Len(s) = w * h /\ n = w * h
    BY DEF Bits
  <1>2. {0, 1} \subseteq Digits(1)
    <2>1. ZrleBits(2) = 1 /\ 2 \in 2 .. 99
      BY DEF ZrleBits
    <2>2. 0 .. 2 - 1 \subseteq Digits(ZrleBits(2))
      BY <2>1, FitsBits
    <2>3. 0 .. 2 - 1 = {0, 1}
      OBVIOUS
    <2> QED BY <2>1, <2>2, <2>3
  <1>3. s \in Seq(Digits(1))
    BY <1>1, <1>2, SeqWithin
  <1>4. IsBlock(s, Digits(1), w, h, n)
    BY <1>1, <1>3 DEF IsBlock
  <1> DEFINE data0 == Pack(s, w, 1)
  <1>5. 1 \in {1, 2, 4, 8}
    OBVIOUS
  <1>6. data0 \in Seq(Nat)
    <2>1. Packs(Pack(s, w, 1), s, w, h, 1)
      BY <1>1, <1>3, <1>5, PackIs
    <2> QED BY <2>1 DEF Packs
  <1> HIDE DEF data0
  <1>7. Begins(data0, data0)
    BY <1>6, BeginsSelf
  <1>8. data0 = Pack(s, w, 1)
    BY DEF data0
  <1>9. PackedRows(data0, w, n, 1) = s
    BY <1>4, <1>5, <1>6, <1>7, <1>8, Unpacked
  <1> QED BY <1>8, <1>9

-----------------------------------------------------------------------------
(* The cursor. *)

(* Encodings of cursors. *)
CursorCodecs == {"xcursor", "richcursor"}

(* A cursor has colours and a mask of bits. *)
ShapeOK(c) == c.source \in Seq(Nat) /\ c.mask \in Seq({0, 1})

(* The source and the mask of a cursor. *)
CursorOf(w, h, source, mask) == [w |-> w, h |-> h, source |-> source, mask |-> mask]

(* cursor::decode, for either message. *)
LEMMA DecodedCursor ==
  ASSUME NEW m, NEW w, NEW h, m.rect.w = w, m.rect.h = h, NEW mask, PackedRows(m.body.mask, w, w * h, 1) = mask
  PROVE  /\ m.codec = "richcursor" => DecodeCursor(m) = CursorOf(w, h, m.body.source, mask)
         /\ m.codec = "xcursor" =>
              DecodeCursor(m) = CursorOf(w, h, [k \in 1 .. w * h |-> IF PackedRows(m.body.source, w, w * h, 1)[k] = 1
                                                                     THEN m.body.fore ELSE m.body.back], mask)
  <1>1. DecodeCursor(m) =
          [w |-> m.rect.w, h |-> m.rect.h,
           source |-> IF m.codec = "richcursor" THEN m.body.source
                      ELSE [k \in 1 .. m.rect.w * m.rect.h |->
                              IF PackedRows(m.body.source, m.rect.w, m.rect.w * m.rect.h, 1)[k] = 1 THEN m.body.fore ELSE m.body.back],
           mask |-> PackedRows(m.body.mask, m.rect.w, m.rect.w * m.rect.h, 1)]
    BY Zenon DEF DecodeCursor
  <1> DEFINE colours == [k \in 1 .. w * h |-> IF PackedRows(m.body.source, w, w * h, 1)[k] = 1 THEN m.body.fore ELSE m.body.back]
  <1>2. DecodeCursor(m) = [w |-> w, h |-> h, source |-> IF m.codec = "richcursor" THEN m.body.source ELSE colours, mask |-> mask]
    BY <1>1
  <1> HIDE DEF colours
  <1>3. DecodeCursor(m) = CursorOf(w, h, IF m.codec = "richcursor" THEN m.body.source ELSE colours, mask)
    BY <1>2 DEF CursorOf
  <1>4. m.codec = "richcursor" => (IF m.codec = "richcursor" THEN m.body.source ELSE colours) = m.body.source
    OBVIOUS
  <1>5. m.codec = "xcursor" => (IF m.codec = "richcursor" THEN m.body.source ELSE colours) = colours
    OBVIOUS
  <1> QED BY <1>3, <1>4, <1>5 DEF colours

(* The message is decoded to the cursor of the server. *)
CursorMessage ==
  /\ message'.codec \in CursorCodecs /\ DecodeCursor(message') = shape'
  /\ ShapeOK(shape') /\ picture' = picture

(* The client decodes the cursor that the server sends. *)
LEMMA CursorSent ==
  ASSUME SendCursor
  PROVE  CursorMessage
  <1>1. PICK s \in Shapes, p \in Patterns, q \in Patterns :
          LET source == Content(p, s[1] * s[2])
              mask == [k \in 1 .. s[1] * s[2] |-> Content(q, s[1] * s[2])[k] % 2]
          IN /\ \/ /\ ToSet(source) \subseteq {1, 2}
                   /\ message' = [codec |-> "xcursor", rect |-> At(0, 0, s[1], s[2]),
                                  body |-> [source |-> Pack([k \in DOMAIN source |-> source[k] - 1], s[1], 1),
                                            mask |-> Pack(mask, s[1], 1), back |-> 1, fore |-> 2]]
                \/ message' = [codec |-> "richcursor", rect |-> At(0, 0, s[1], s[2]),
                               body |-> [source |-> source, mask |-> Pack(mask, s[1], 1)]]
             /\ shape' = [w |-> s[1], h |-> s[2], source |-> source, mask |-> mask]
             /\ picture' = picture
    BY Zenon DEF SendCursor
  <1> DEFINE w == s[1]
             h == s[2]
             n == w * h
             source == Content(p, n)
             other == Content(q, n)
             mask == [k \in 1 .. n |-> other[k] % 2]
             bits == [k \in DOMAIN source |-> source[k] - 1]
             m == message'
  <1>2. w \in Nat \ {0} /\ h \in Nat \ {0} /\ n \in Nat
    BY PixelsAssumption
  <1>3. source \in Seq(1 .. 99) /\ Len(source) = n /\ other \in Seq(1 .. 99) /\ Len(other) = n
    BY <1>2, ContentIn
  <1>4. /\ \/ /\ ToSet(source) \subseteq {1, 2}
              /\ m = [codec |-> "xcursor", rect |-> At(0, 0, w, h),
                      body |-> [source |-> Pack(bits, w, 1), mask |-> Pack(mask, w, 1), back |-> 1, fore |-> 2]]
           \/ m = [codec |-> "richcursor", rect |-> At(0, 0, w, h), body |-> [source |-> source, mask |-> Pack(mask, w, 1)]]
        /\ shape' = CursorOf(w, h, source, mask)
        /\ picture' = picture
    BY <1>1, Zenon DEF CursorOf
  <1> HIDE DEF source, other
  <1>5. source \in Seq(Nat) /\ other \in Seq(Nat)
    BY <1>3, SeqNat
  <1>6. Bits(mask, w, h, n)
    <2>1. \A k \in 1 .. n : other[k] % 2 \in {0, 1}
      <3> SUFFICES ASSUME NEW k \in 1 .. n PROVE other[k] % 2 \in {0, 1}
        OBVIOUS
      <3>1. other[k] \in Nat
        BY <1>3, <1>5, ElementOfSeq
      <3> QED BY <3>1
    <2>2. mask \in [1 .. n -> {0, 1}]
      BY <2>1
    <2> HIDE DEF mask
    <2>3. mask \in Seq({0, 1}) /\ Len(mask) = n
      BY <1>2, <2>2, IsSeqOf
    <2> QED BY <1>2, <2>3 DEF Bits
  <1>7. n = w * h
    OBVIOUS
  <1> HIDE DEF mask, w, h, n
  <1>8. PackedRows(Pack(mask, w, 1), w, w * h, 1) = mask
    BY <1>6, <1>7, BitsBackAgain
  <1>9. ShapeOK(shape')
    <2>1. mask \in Seq({0, 1})
      BY <1>6 DEF Bits
    <2> QED BY <1>4, <1>5, <2>1 DEF ShapeOK, CursorOf
  <1>10. At(0, 0, w, h).w = w /\ At(0, 0, w, h).h = h
    BY DEF At
  <1>11. CASE m = [codec |-> "richcursor", rect |-> At(0, 0, w, h), body |-> [source |-> source, mask |-> Pack(mask, w, 1)]]
    <2>1. m.codec = "richcursor" /\ m.rect.w = w /\ m.rect.h = h /\ m.body.source = source /\ m.body.mask = Pack(mask, w, 1)
      BY <1>10, <1>11
    <2> HIDE DEF m
    <2>2. PackedRows(m.body.mask, w, w * h, 1) = mask
      BY <1>8, <2>1
    <2>3. DecodeCursor(m) = CursorOf(w, h, source, mask)
      <3>1. m.rect.w = w /\ m.rect.h = h /\ m.codec = "richcursor"
        BY <2>1
      <3>2. DecodeCursor(m) = CursorOf(w, h, m.body.source, mask)
        BY <2>2, <3>1, DecodedCursor
      <3> QED BY <2>1, <3>2
    <2>4. m.codec \in CursorCodecs
      BY <2>1 DEF CursorCodecs
    <2> QED BY <1>4, <1>9, <2>3, <2>4 DEF CursorMessage, m
  <1>12. CASE /\ ToSet(source) \subseteq {1, 2}
              /\ m = [codec |-> "xcursor", rect |-> At(0, 0, w, h),
                      body |-> [source |-> Pack(bits, w, 1), mask |-> Pack(mask, w, 1), back |-> 1, fore |-> 2]]
    <2>1. /\ m.codec = "xcursor" /\ m.rect.w = w /\ m.rect.h = h
          /\ m.body.source = Pack(bits, w, 1) /\ m.body.mask = Pack(mask, w, 1) /\ m.body.back = 1 /\ m.body.fore = 2
      BY <1>10, <1>12
    <2> HIDE DEF m
    <2>2. PackedRows(m.body.mask, w, w * h, 1) = mask
      BY <1>8, <2>1
    <2>3. DOMAIN source = 1 .. n /\ \A k \in 1 .. n : source[k] \in {1, 2}
      <3>1. DOMAIN source = 1 .. n
        BY <1>3, <1>5
      <3>2. \A k \in 1 .. n : source[k] \in ToSet(source)
        BY <3>1 DEF ToSet
      <3> QED BY <1>12, <3>1, <3>2
    <2>4. \A k \in 1 .. n : bits[k] \in {0, 1} /\ bits[k] = source[k] - 1
      BY <2>3
    <2>5. Bits(bits, w, h, n)
      <3>1. bits \in [1 .. n -> {0, 1}]
        BY <2>3, <2>4
      <3> HIDE DEF bits
      <3>2. bits \in Seq({0, 1}) /\ Len(bits) = n
        BY <1>2, <3>1, IsSeqOf
      <3> QED BY <1>2, <1>7, <3>2 DEF Bits
    <2> HIDE DEF bits
    <2>6. PackedRows(m.body.source, w, w * h, 1) = bits
      BY <1>7, <2>1, <2>5, BitsBackAgain
    <2> DEFINE colours == [k \in 1 .. w * h |-> IF PackedRows(m.body.source, w, w * h, 1)[k] = 1
                                                THEN m.body.fore ELSE m.body.back]
    <2>7. colours = source
      <3>1. colours = [k \in 1 .. n |-> IF bits[k] = 1 THEN 2 ELSE 1]
        BY <1>7, <2>1, <2>6
      <3>2. \A k \in 1 .. n : (IF bits[k] = 1 THEN 2 ELSE 1) = source[k]
        BY <2>3, <2>4
      <3>3. source = [k \in 1 .. n |-> source[k]]
        BY <1>3, <1>5
      <3> HIDE DEF colours
      <3> QED BY <3>1, <3>2, <3>3
    <2>8. DecodeCursor(m) = CursorOf(w, h, colours, mask)
      BY <2>1, <2>2, DecodedCursor
    <2>9. m.codec \in CursorCodecs
      BY <2>1 DEF CursorCodecs
    <2> HIDE DEF colours
    <2> QED BY <1>4, <1>9, <2>7, <2>8, <2>9 DEF CursorMessage, m
  <1> QED BY <1>4, <1>11, <1>12

-----------------------------------------------------------------------------
(* The frame buffer, whatever it is used for. *)

(* The rectangles were checked and the loop counter is where a loop can be. *)
JobOK ==
  /\ Filled(job)
  /\ CheckRect(job.x, job.y, job.w, job.h)
  /\ job.op = "copy" => CheckRect(job.sx, job.sy, job.w, job.h)
  /\ row \in -1 .. job.h
  /\ Upwards(job) => row < job.h
  /\ ~Upwards(job) => row >= 0

(* Rows of the rectangle that are still to be drawn. *)
Pending == {r \in 0 .. job.h - 1 : IF Upwards(job) THEN r <= row ELSE r >= row}

(* Half-way through, the rows drawn are what they are to be, and the rest of
   the picture is as it was. *)
RowsDrawn ==
  \A a \in 0 .. width - 1, b \in 0 .. height - 1 : data[Addr(a, b)] =
    IF b - job.y \in Pending THEN before[Addr(a, b)] ELSE Drawn(a, b)

(* The inductive invariant of the frame buffer. *)
IInv == FrameTypeOK /\ JobOK /\ RowsDrawn

(* A step of a loop: what it finds in the source row is what was there when
   the operation was called, because copy_rect turns round when it overlaps. *)
LEMMA SourceIntact ==
  ASSUME IInv, ~Done, NEW i \in 0 .. job.w - 1
  PROVE  /\ row \in 0 .. job.h - 1
         /\ Pixel(job, row, i, data) \in Nat
         /\ Pixel(job, row, i, data) = Pixel(job, row, i, before)
<1>1. FrameTypeOK /\ JobOK /\ RowsDrawn
  BY DEF IInv
<1>2. /\ job.x \in Int /\ job.y \in Int /\ job.w \in Nat /\ job.h \in Nat
      /\ job.sx \in Int /\ job.sy \in Int /\ job.colour \in Nat
      /\ width \in Nat /\ height \in Nat /\ row \in Int
  BY <1>1 DEF FrameTypeOK, Job
<1>3. row \in 0 .. job.h - 1
  BY <1>1, <1>2 DEF JobOK, Done
<1>4. CASE job.op = "copy"
  <2>1. PICK a \in 0 .. width - 1, b \in 0 .. height - 1 : a = job.sx + i /\ b = job.sy + row
    BY <1>1, <1>2, <1>3, <1>4 DEF JobOK, CheckRect
  <2>2. b - job.y \in Pending \/ Drawn(a, b) = before[Addr(a, b)]
    <3>1. CASE b - job.y \notin 0 .. job.h - 1 \/ a - job.x \notin 0 .. job.w - 1
      BY <3>1 DEF Drawn
    <3>2. CASE b - job.y \in 0 .. job.h - 1 /\ a - job.x \in 0 .. job.w - 1
      <4>1. Upwards(job) => b - job.y <= row
        BY <1>2, <2>1 DEF Upwards, Overlap
      <4>2. ~Upwards(job) => b - job.y >= row
        BY <1>2, <1>3, <1>4, <2>1, <3>2 DEF Upwards, Overlap
      <4> QED BY <3>2, <4>1, <4>2 DEF Pending
    <3> QED BY <3>1, <3>2
  <2>3. data[Addr(a, b)] = before[Addr(a, b)]
    BY <1>1, <2>2 DEF RowsDrawn
  <2>4. Addr(a, b) \in 0 .. width * height - 1
    BY <1>2, CellOffset DEF Addr
  <2>5. data[Addr(a, b)] \in Nat
    BY <1>1, <2>4 DEF FrameTypeOK
  <2> QED BY <1>3, <1>4, <2>1, <2>3, <2>5 DEF Pixel
<1>5. CASE job.op \in {"bitmap", "rows"}
  <2>1. row * job.w + i \in 0 .. job.w * job.h - 1
    BY <1>2, <1>3, CellOffset
  <2>2. job.pixels \in Seq(Nat)
    BY <1>1 DEF FrameTypeOK, Job
  <2>3. Len(job.pixels) \in Nat /\ Len(job.pixels) >= job.w * job.h
    BY <1>1, <1>5, <2>2 DEF JobOK, Filled
  <2>4. job.w * row = row * job.w /\ job.w * job.h \in Nat
    BY <1>2, <1>3
  <2>5. job.w * row + i + 1 \in 1 .. Len(job.pixels)
    <3> DEFINE p == job.w * row + i
               n == job.w * job.h
    <3>1. p \in 0 .. n - 1
      BY <2>1, <2>4
    <3> HIDE DEF p, n
    <3>2. Len(job.pixels) >= n /\ n \in Nat
      BY <2>3, <2>4 DEF n
    <3>3. p + 1 \in 1 .. Len(job.pixels)
      BY <2>3, <3>1, <3>2
    <3> QED BY <3>3 DEF p
  <2>6. job.pixels[job.w * row + i + 1] \in Nat
    <3> DEFINE q == job.w * row + i + 1
    <3>1. q \in 1 .. Len(job.pixels)
      BY <2>5
    <3> HIDE DEF q
    <3>2. job.pixels[q] \in Nat
      BY <2>2, <3>1
    <3> QED BY <3>2 DEF q
  <2> QED BY <1>3, <1>5, <2>6 DEF Pixel
<1>6. CASE job.op \notin {"copy", "bitmap", "rows"}
  BY <1>2, <1>3, <1>6 DEF Pixel
<1> QED BY <1>4, <1>5, <1>6

(* The frame starts so. *)
LEMMA InitInv == FrameInit => IInv
<1> SUFFICES ASSUME FrameInit PROVE IInv
  OBVIOUS
<1> USE DEF FrameInit
<1>1. NoJob \in Job /\ NoJob.h = 0 /\ NoJob.w = 0 /\ NoJob.x = 0 /\ NoJob.y = 0 /\ NoJob.op = "none"
  BY DEF NoJob, Job
<1>2. FrameTypeOK
  BY <1>1 DEF FrameTypeOK
<1>3. JobOK
  BY <1>1 DEF JobOK, Filled, CheckRect, Upwards
<1>4. RowsDrawn
  BY DEF RowsDrawn
<1> QED BY <1>2, <1>3, <1>4 DEF IInv

(* init and set_size keep it. *)
LEMMA ResizeInv ==
  ASSUME IInv, width' \in Nat, height' \in Nat, Resize(width', height')
  PROVE  IInv'
<1> USE DEF Resize, MallocFrameBuffer
<1>1. NoJob \in Job /\ NoJob.h = 0 /\ NoJob.w = 0 /\ NoJob.x = 0 /\ NoJob.y = 0 /\ NoJob.op = "none"
  BY DEF NoJob, Job
<1>2. FrameTypeOK
  BY DEF IInv
<1>3. data' \in [0 .. width' * height' - 1 -> Nat]
  <2>1. ASSUME NEW a \in 0 .. width' * height' - 1
        PROVE  (IF a < width * height THEN data[a] ELSE 0) \in Nat
    <3> DEFINE cells == width * height
    <3>1. cells \in Nat /\ data \in [0 .. cells - 1 -> Nat]
      BY <1>2 DEF FrameTypeOK
    <3> HIDE DEF cells
    <3>2. a \in Nat
      OBVIOUS
    <3>3. (IF a < cells THEN data[a] ELSE 0) \in Nat
      BY <3>1, <3>2
    <3> QED BY <3>3 DEF cells
  <2>2. data' = [a \in 0 .. width' * height' - 1 |-> IF a < width * height THEN data[a] ELSE 0]
    OBVIOUS
  <2> QED BY <2>1, <2>2
<1>4. FrameTypeOK'
  <2>1. job' \in Job /\ row' \in Int /\ before' = data'
    BY <1>1
  <2> HIDE DEF Resize, MallocFrameBuffer
  <2> QED BY <1>3, <2>1 DEF FrameTypeOK
<1>5. JobOK'
  BY <1>1 DEF JobOK, Filled, CheckRect, Upwards
<1>6. RowsDrawn'
  BY <1>1 DEF RowsDrawn, Drawn, Pending, Addr
<1> QED BY <1>4, <1>5, <1>6 DEF IInv

(* The start of an operation keeps it. *)
LEMMA CallInv ==
  ASSUME IInv, job' \in Job, Filled(job'), Call(job')
  PROVE  IInv'
<1> USE DEF Call, Allowed, Begin
<1>1. job'.x \in Int /\ job'.y \in Int /\ job'.w \in Nat /\ job'.h \in Nat
  BY DEF Job
<1>2. FrameTypeOK'
  BY <1>1 DEF IInv, FrameTypeOK
<1>3. JobOK'
  BY <1>1 DEF JobOK, Filled, CheckRect, Upwards, Overlap
<1>4. RowsDrawn'
  <2> SUFFICES ASSUME NEW a \in 0 .. width - 1, NEW b \in 0 .. height - 1,
                      b - job'.y \notin Pending'
               PROVE  data[Addr(a, b)] = Drawn(a, b)'
    BY DEF RowsDrawn, Addr
  <2>1. b - job'.y \in 0 .. job'.h - 1 => b - job'.y \in Pending'
    BY <1>1 DEF Pending, Upwards
  <2> QED BY <2>1 DEF Drawn, Addr
<1> QED BY <1>2, <1>3, <1>4 DEF IInv

(* The rows before the step, the row it draws and the rest of the picture. *)
LEMMA DrawRowInv == ASSUME IInv, DrawRow PROVE IInv'
<1>1. FrameTypeOK /\ JobOK /\ RowsDrawn
  BY DEF IInv
<1>2. /\ job.x \in Int /\ job.y \in Int /\ job.w \in Nat /\ job.h \in Nat
      /\ width \in Nat /\ height \in Nat /\ row \in Int
  BY <1>1 DEF FrameTypeOK, Job
<1>3. \A i \in 0 .. job.w - 1 :
         Pixel(job, row, i, data) \in Nat /\ Pixel(job, row, i, data) = Pixel(job, row, i, before)
  BY SourceIntact DEF DrawRow
<1>4. row \in 0 .. job.h - 1
  BY <1>1, <1>2 DEF JobOK, Done, DrawRow
<1>5. FrameTypeOK'
  <2>1. data' \in [0 .. width * height - 1 -> Nat]
    BY <1>1, <1>3 DEF FrameTypeOK, DrawRow
  <2> QED BY <1>1, <1>2, <2>1 DEF FrameTypeOK, DrawRow
<1>6. JobOK'
  BY <1>1, <1>2, <1>4 DEF JobOK, CheckRect, Upwards, Overlap, DrawRow
<1>7. RowsDrawn'
  <2> SUFFICES ASSUME NEW a \in 0 .. width - 1, NEW b \in 0 .. height - 1
               PROVE  data'[Addr(a, b)] =
                        IF b - job.y \in Pending' THEN before[Addr(a, b)] ELSE Drawn(a, b)
    <3> SUFFICES ASSUME NEW a \in 0 .. width - 1, NEW b \in 0 .. height - 1
                 PROVE  (data[Addr(a, b)] =
                          IF b - job.y \in Pending THEN before[Addr(a, b)] ELSE Drawn(a, b))'
      BY DEF RowsDrawn, DrawRow
    <3>1. Addr(a, b)' = Addr(a, b) /\ Drawn(a, b)' = Drawn(a, b)
      BY DEF DrawRow, Addr, Drawn, Pixel
    <3> QED BY <3>1 DEF DrawRow
  <2>0. a \in Int /\ b \in Int
    OBVIOUS
  <2> DEFINE i == Addr(a, b) - Addr(job.x, job.y + row)
  <2>1. Addr(a, b) \in 0 .. width * height - 1
    BY <1>2, CellOffset DEF Addr
  <2>2. data'[Addr(a, b)] = IF i \in 0 .. job.w - 1 THEN Pixel(job, row, i, data) ELSE data[Addr(a, b)]
    BY <2>1 DEF DrawRow
  <2>3. Pending' = Pending \ {row}
    BY <1>2, <1>4 DEF Pending, Upwards, DrawRow
  <2>4. CASE i \in 0 .. job.w - 1
    <3>1. b = job.y + row /\ a - job.x \in 0 .. job.w - 1
      <4>1. job.x \in Nat /\ job.x + job.w <= width
        BY <1>1, <1>2 DEF JobOK, CheckRect
      <4>2. job.y + row \in Int
        BY <1>2
      <4>3. (b * width + a) - ((job.y + row) * width + job.x) \in 0 .. job.w - 1
        BY <2>4 DEF Addr
      <4>4. width \in Nat /\ job.w \in Nat
        BY <1>2
      <4>5. a \in 0 .. width - 1
        OBVIOUS
      <4> HIDE DEF i
      <4> QED BY <4>1, <4>2, <4>3, <4>4, <4>5, <2>0, RowOffset, SMTT(30)
    <3>2. i = a - job.x
      BY <2>0, <3>1, <1>2 DEF Addr
    <3>3. Drawn(a, b) = Pixel(job, row, i, before)
      BY <2>0, <3>1, <3>2, <1>2, <1>4 DEF Drawn
    <3> QED BY <1>2, <1>3, <2>2, <2>3, <2>4, <3>1, <3>3
  <2>5. CASE i \notin 0 .. job.w - 1
    <3>1. data'[Addr(a, b)] = data[Addr(a, b)]
      BY <2>2, <2>5
    <3>2. CASE b # job.y + row
      BY <1>1, <1>2, <2>3, <3>1, <3>2 DEF RowsDrawn
    <3>3. CASE b = job.y + row
      <4>1. i = a - job.x
        BY <2>0, <3>3, <1>2 DEF Addr
      <4>2. Drawn(a, b) = before[Addr(a, b)]
        BY <2>5, <4>1 DEF Drawn
      <4> QED BY <1>1, <3>1, <4>2 DEF RowsDrawn
    <3> QED BY <3>2, <3>3
  <2> QED BY <2>4, <2>5
<1> QED BY <1>5, <1>6, <1>7 DEF IInv

(* A step of anything else keeps it. *)
LEMMA StutterInv == ASSUME IInv, UNCHANGED frameVars PROVE IInv'
BY DEF frameVars, IInv, FrameTypeOK, JobOK, Filled, RowsDrawn, CheckRect, Upwards, Pending, Drawn, Pixel, Addr

(* It holds of every use of the frame buffer. *)
LEMMA Inductive == FrameSpec => []IInv
<1>1. IInv /\ [FrameNext]_frameVars => IInv'
  BY ResizeInv, CallInv, DrawRowInv, StutterInv DEF FrameNext
<1> QED BY InitInv, <1>1, PTL DEF FrameSpec

-----------------------------------------------------------------------------
(* The vector always has width by height pixels (init, set_size). *)
THEOREM TypeCorrect == FrameSpec => []FrameTypeOK
<1>1. IInv => FrameTypeOK
  BY DEF IInv
<1> QED BY Inductive, <1>1, PTL

(* copy_rect, fill_rect and got_bitmap leave the picture they are to leave,
   for every pair of rectangles that check_rect lets through. *)
THEOREM BlocksDrawn == FrameSpec => []BlockDrawn
<1>1. IInv => BlockDrawn
  <2> SUFFICES ASSUME IInv, Done PROVE BlockDrawn
    BY DEF BlockDrawn
  <2>1. Pending = {}
    BY DEF IInv, FrameTypeOK, JobOK, Pending, Done, Job
  <2> QED BY <2>1 DEF IInv, RowsDrawn, BlockDrawn
<1> QED BY Inductive, <1>1, PTL

(* The loops never leave the vector: check_rect is enough. *)
THEOREM AlwaysInBounds == FrameSpec => []InBounds
<1>1. IInv => InBounds
  <2> SUFFICES ASSUME IInv, NEW r \in 0 .. job.h - 1, job.w > 0
               PROVE  /\ Addr(job.x, job.y + r) >= 0
                      /\ Addr(job.x, job.y + r) + job.w <= width * height
                      /\ job.op = "copy" =>
                           /\ Addr(job.sx, job.sy + r) >= 0
                           /\ Addr(job.sx, job.sy + r) + job.w <= width * height
    BY DEF InBounds
  <2>1. /\ job.x \in Int /\ job.y \in Int /\ job.w \in Nat /\ job.h \in Nat
        /\ job.sx \in Int /\ job.sy \in Int
        /\ width \in Nat /\ height \in Nat
    BY DEF IInv, FrameTypeOK, Job
  <2>2. ASSUME NEW x \in Int, NEW y \in Int, CheckRect(x, y, job.w, job.h)
        PROVE  Addr(x, y + r) >= 0 /\ Addr(x, y + r) + job.w <= width * height
    <3>1. x \in 0 .. width - 1 /\ x + job.w - 1 \in 0 .. width - 1 /\ y + r \in 0 .. height - 1
      BY <2>1, <2>2 DEF CheckRect
    <3>2. /\ (y + r) * width + x \in 0 .. width * height - 1
          /\ (y + r) * width + (x + job.w - 1) \in 0 .. width * height - 1
      BY <2>1, <3>1, CellOffset
    <3> QED BY <2>1, <3>2 DEF Addr
  <2> QED BY <2>1, <2>2 DEF IInv, JobOK
<1> QED BY Inductive, <1>1, PTL

-----------------------------------------------------------------------------
(* The picture: what holds between a message and the last row drawn. *)

(* What is still to be drawn: the operations a message is going to be decoded
   to, or those left of the last one. *)
Queue == IF message.codec = "none" THEN jobs ELSE Decode(message, <<>>)

RectIn(x, y, w, h, W, H) == x >= 0 /\ y >= 0 /\ x + w <= W /\ y + h <= H
AllowedIn(j, W, H) == RectIn(j.x, j.y, j.w, j.h, W, H) /\ (j.op = "copy" => RectIn(j.sx, j.sy, j.w, j.h, W, H))

(* Operations within bounds; only copy_rect, which comes alone, reads the frame. *)
QueueIn(js, W, H) ==
  /\ js \in Seq(Job)
  /\ \A i \in 1 .. Len(js) : Filled(js[i]) /\ AllowedIn(js[i], W, H)
  /\ (\A i \in 1 .. Len(js) : js[i].op \in Drawing) \/ (Len(js) = 1 /\ js[1].op = "copy")

(* The screen when the operation under way is done. *)
Screen == [p \in (0 .. width - 1) \X (0 .. height - 1) |-> Drawn(p[1], p[2])]

(* What an operation puts at a pixel of its rectangle. *)
Puts(j, D, x, y) == IF j.op = "copy" THEN D[<<j.sx + (x - j.x), j.sy + (y - j.y)>>] ELSE Shown(j, x, y)

(* What is there when they are all done: the last one that covers the pixel
   tells, or what was there before. *)
LastOf(js, i, x, y) == Covers(js[i], x, y) /\ \A k \in i + 1 .. Len(js) : ~Covers(js[k], x, y)
Bare(js, x, y) == \A i \in 1 .. Len(js) : ~Covers(js[i], x, y)
Leaves(js, D, x, y, v) ==
  \/ \E i \in 1 .. Len(js) : LastOf(js, i, x, y) /\ Puts(js[i], D, x, y) = v
  \/ Bare(js, x, y) /\ D[<<x, y>>] = v

(* The operations lead from screen D to picture pic, wherever that is known.
   *)
Known(js, pic, D, W, H) ==
  \A x \in 0 .. W - 1, y \in 0 .. H - 1 :
    pic[y * W + x] # Unknown => Leaves(js, D, x, y, pic[y * W + x])

(* A new size is on its way. *)
Sizing == message.codec = "newfbsize"

(* A message comes when all before it is drawn, and zrle leaves nothing. *)
MessageInv ==
  /\ message.codec \in PixelCodecs \cup CursorCodecs \cup {"none", "newfbsize"}
  /\ message.codec = "none" => message = NoMessage
  /\ message.codec # "none" => jobs = <<>> /\ Done
  /\ inflated = <<>> /\ sent \in 0 .. MaxRects
  /\ message.codec = "zrle" => DecodeZrle(message, <<>>).in = <<>>

Pictures(W, H) == [0 .. W * H - 1 -> Nat \cup {Unknown}]
Blank(W, H) == [a \in 0 .. W * H - 1 |-> Unknown]

(* The picture has the size of the frame that it is for. *)
PictureInv ==
  IF Sizing
  THEN /\ message.rect.w \in Nat /\ message.rect.h \in Nat
       /\ picture = Blank(message.rect.w, message.rect.h)
  ELSE picture \in Pictures(width, height)

(* The cursor is the server's, or will be once the message is decoded. *)
CursorInv ==
  /\ ShapeOK(shape) /\ ShapeOK(cursor)
  /\ IF message.codec \in CursorCodecs THEN DecodeCursor(message) = shape ELSE cursor = shape

(* What is still to be drawn leads to the picture. *)
KnownInv == ~Carries /\ ~Sizing => Known(Queue, picture, Screen, width, height)

(* The inductive invariant. *)
PixelsInv == IInv /\ MessageInv /\ QueueIn(Queue, width, height) /\ PictureInv /\ CursorInv /\ KnownInv

-----------------------------------------------------------------------------
(* check_rect, with the size of the frame. *)
LEMMA AllowedIs ==
  ASSUME NEW j
  PROVE  Allowed(j) <=> AllowedIn(j, width, height)
  BY DEF Allowed, AllowedIn, CheckRect, RectIn

(* The screen, pixel by pixel. *)
LEMMA ScreenIs ==
  ASSUME NEW x \in 0 .. width - 1, NEW y \in 0 .. height - 1
  PROVE  Screen[<<x, y>>] = Drawn(x, y)
  BY DEF Screen

(* Nothing to draw. *)
LEMMA EmptyQueue ==
  ASSUME NEW js, js = <<>>, NEW W, NEW H
  PROVE  QueueIn(js, W, H)
  BY DEF QueueIn

(* The first of a sequence and the rest. *)
LEMMA TailIs ==
  ASSUME NEW js \in Seq(Job), js # <<>>
  PROVE  /\ Len(js) \in Nat \ {0} /\ Tail(js) \in Seq(Job) /\ Len(Tail(js)) = Len(js) - 1 /\ Head(js) = js[1] /\ js[1] \in Job
         /\ \A i \in 1 .. Len(js) - 1 : Tail(js)[i] = js[i + 1]
  OBVIOUS

(* The first operation and the rest are within bounds as well. *)
LEMMA QueueTail ==
  ASSUME NEW js, NEW W, NEW H, QueueIn(js, W, H), js # <<>>
  PROVE  /\ QueueIn(Tail(js), W, H) /\ Head(js) \in Job /\ Filled(Head(js)) /\ AllowedIn(Head(js), W, H)
         /\ Tail(js) # <<>> => Head(js).op \in Drawing
  <1> DEFINE n == Len(js)
             t == Tail(js)
  <1>1. js \in Seq(Job) /\ \A i \in 1 .. n : Filled(js[i]) /\ AllowedIn(js[i], W, H)
    BY DEF QueueIn
  <1>2. n \in Nat \ {0} /\ t \in Seq(Job) /\ Len(t) = n - 1 /\ Head(js) = js[1] /\ js[1] \in Job
        /\ \A i \in 1 .. n - 1 : t[i] = js[i + 1]
    BY <1>1, TailIs
  <1>3. (\A i \in 1 .. n : js[i].op \in Drawing) \/ (n = 1 /\ js[1].op = "copy")
    BY DEF QueueIn
  <1> HIDE DEF n, t
  <1>4. \A i \in 1 .. Len(t) : i + 1 \in 1 .. n /\ t[i] = js[i + 1]
    BY <1>2
  <1>5. \A i \in 1 .. Len(t) : Filled(t[i]) /\ AllowedIn(t[i], W, H)
    BY <1>1, <1>4
  <1>6. 1 \in 1 .. n
    BY <1>2
  <1>7. n = 1 => t = <<>>
    BY <1>2
  <1>8. t # <<>> => \A i \in 1 .. n : js[i].op \in Drawing
    BY <1>3, <1>7
  <1>9. \A i \in 1 .. Len(t) : t[i].op \in Drawing
    <2>1. t = <<>> => Len(t) = 0
      OBVIOUS
    <2> QED BY <1>4, <1>8, <2>1
  <1>10. QueueIn(t, W, H)
    BY <1>2, <1>5, <1>9 DEF QueueIn
  <1> QED BY <1>1, <1>2, <1>6, <1>8, <1>10 DEF t, n

(* An operation is started: its rectangle will be what it puts there. *)
Redrawn(E, j, D, W, H) ==
  \A x \in 0 .. W - 1, y \in 0 .. H - 1 : E[<<x, y>>] = IF Covers(j, x, y) THEN Puts(j, D, x, y) ELSE D[<<x, y>>]

(* Once the first operation is called, the rest still leads to the picture.
   *)
LEMMA CallKnown ==
  ASSUME NEW js, NEW W, NEW H, QueueIn(js, W, H), js # <<>>, NEW D, NEW E, NEW pic, Known(js, pic, D, W, H),
         NEW j, j = Head(js), Redrawn(E, j, D, W, H), NEW t, t = Tail(js)
  PROVE  Known(t, pic, E, W, H)
  <1> DEFINE n == Len(js)
  <1>1. js \in Seq(Job)
    BY DEF QueueIn
  <1>2. n \in Nat \ {0} /\ Len(t) = n - 1 /\ j = js[1] /\ \A i \in 1 .. n - 1 : t[i] = js[i + 1]
    BY <1>1, TailIs
  <1>3. \A i \in 1 .. Len(t) : t[i].op \in Drawing
    <2>1. t # <<>> => \A i \in 1 .. n : js[i].op \in Drawing
      <3>1. (\A i \in 1 .. n : js[i].op \in Drawing) \/ n = 1
        BY DEF QueueIn
      <3>2. n = 1 => t = <<>>
        BY <1>1, TailIs
      <3> QED BY <3>1, <3>2
    <2>2. t = <<>> => Len(t) = 0
      OBVIOUS
    <2>3. \A i \in 1 .. n - 1 : i + 1 \in 1 .. n
      BY <1>2
    <2> HIDE DEF n
    <2> QED BY <1>2, <2>1, <2>2, <2>3
  <1> HIDE DEF n
  <1> SUFFICES ASSUME NEW x \in 0 .. W - 1, NEW y \in 0 .. H - 1, NEW v, v = pic[y * W + x], v # Unknown
               PROVE  Leaves(t, E, x, y, v)
    BY DEF Known
  <1>4. Leaves(js, D, x, y, v)
    BY DEF Known
  <1>5. E[<<x, y>>] = IF Covers(j, x, y) THEN Puts(j, D, x, y) ELSE D[<<x, y>>]
    BY DEF Redrawn
  <1>6. CASE \E i \in 1 .. Len(js) : LastOf(js, i, x, y) /\ Puts(js[i], D, x, y) = v
    <2>1. PICK i \in 1 .. n : LastOf(js, i, x, y) /\ Puts(js[i], D, x, y) = v
      BY <1>6 DEF n
    <2>2. Covers(js[i], x, y) /\ \A k \in i + 1 .. n : ~Covers(js[k], x, y)
      BY <2>1 DEF LastOf, n
    <2>3. CASE i = 1
      <3>1. E[<<x, y>>] = v
        BY <1>2, <1>5, <2>1, <2>2, <2>3
      <3>2. \A k \in 1 .. Len(t) : t[k] = js[k + 1] /\ k + 1 \in i + 1 .. n
        BY <1>2, <2>3
      <3>3. Bare(t, x, y)
        BY <2>2, <3>2 DEF Bare
      <3> QED BY <3>1, <3>3 DEF Leaves
    <2>4. CASE i # 1
      <3> DEFINE l == i - 1
      <3>1. l \in 1 .. Len(t) /\ l + 1 = i
        BY <1>2, <2>4
      <3>2. t[l] = js[i]
        BY <1>2, <3>1
      <3>3. \A k \in l + 1 .. Len(t) : t[k] = js[k + 1] /\ k + 1 \in i + 1 .. n
        BY <1>2, <2>4
      <3> HIDE DEF l
      <3>4. LastOf(t, l, x, y)
        BY <2>2, <3>2, <3>3 DEF LastOf
      <3>5. Puts(t[l], E, x, y) = v
        <4>1. t[l].op # "copy"
          BY <1>3, <3>1 DEF Drawing
        <4> QED BY <2>1, <3>2, <4>1 DEF Puts
      <3> QED BY <3>1, <3>4, <3>5 DEF Leaves
    <2> QED BY <2>3, <2>4
  <1>7. CASE Bare(js, x, y) /\ D[<<x, y>>] = v
    <2>1. ~Covers(j, x, y)
      <3>1. 1 \in 1 .. n
        BY <1>2
      <3> QED BY <1>2, <1>7, <3>1 DEF Bare, n
    <2>2. E[<<x, y>>] = v
      BY <1>5, <1>7, <2>1
    <2>3. \A k \in 1 .. Len(t) : t[k] = js[k + 1] /\ k + 1 \in 1 .. n
      BY <1>2
    <2>4. Bare(t, x, y)
      BY <1>7, <2>3 DEF Bare, n
    <2> QED BY <2>2, <2>4 DEF Leaves
  <1> QED BY <1>4, <1>6, <1>7 DEF Leaves

-----------------------------------------------------------------------------
(* A rectangle shows something new. *)
Repainted(new, pic, r, cells, W, H) ==
  \A x \in 0 .. W - 1, y \in 0 .. H - 1 :
    new[y * W + x] = IF Covers(r, x, y) THEN Cell(cells, r.w, x - r.x, y - r.y) ELSE pic[y * W + x]

(* Within a stretch, within one around it. *)
LEMMA Outer ==
  ASSUME NEW a \in Int, NEW w \in Nat, NEW b \in Int, NEW n \in Nat, a >= b, a + w <= b + n, NEW x \in Int, x - a \in 0 .. w - 1
  PROVE  x - b \in 0 .. n - 1
  OBVIOUS

(* Operations within a rectangle cover pixels of it. *)
LEMMA WithinCovers ==
  ASSUME NEW r \in Tile, NEW js, Within(js, r), NEW i \in 1 .. Len(js), NEW x \in Int, NEW y \in Int, Covers(js[i], x, y)
  PROVE  Covers(r, x, y)
  <1> DEFINE j == js[i]
  <1>1. js \in Seq(Job) /\ j.x >= r.x /\ j.y >= r.y /\ j.x + j.w <= r.x + r.w /\ j.y + j.h <= r.y + r.h
    BY DEF Within
  <1>2. j \in Job
    BY <1>1, ElementOfSeq
  <1>3. j.x \in Int /\ j.y \in Int /\ j.w \in Nat /\ j.h \in Nat
    BY <1>2 DEF Job
  <1>4. r.x \in Int /\ r.y \in Int /\ r.w \in Nat /\ r.h \in Nat
    BY DEF Tile
  <1>5. x - j.x \in 0 .. j.w - 1 /\ y - j.y \in 0 .. j.h - 1
    BY DEF Covers
  <1> HIDE DEF j
  <1>6. x - r.x \in 0 .. r.w - 1 /\ y - r.y \in 0 .. r.h - 1
    <2>1. x - r.x \in 0 .. r.w - 1
      BY <1>1, <1>3, <1>4, <1>5, Outer
    <2>2. y - r.y \in 0 .. r.h - 1
      BY <1>1, <1>3, <1>4, <1>5, Outer
    <2> QED BY <2>1, <2>2
  <1> QED BY <1>6 DEF Covers

(* Operations that draw a rectangle lead to the picture with the rectangle.
   *)
LEMMA SendKnown ==
  ASSUME NEW W \in Nat, NEW H \in Nat, NEW D, NEW pic, NEW none, none = <<>>, Known(none, pic, D, W, H),
         NEW r \in Tile, NEW cells, NEW js, Within(js, r), Draws(js, r, cells),
         NEW new, Repainted(new, pic, r, cells, W, H)
  PROVE  Known(js, new, D, W, H)
  <1> SUFFICES ASSUME NEW x \in 0 .. W - 1, NEW y \in 0 .. H - 1, NEW v, v = new[y * W + x], v # Unknown
               PROVE  Leaves(js, D, x, y, v)
    BY DEF Known
  <1>1. x \in Int /\ y \in Int
    OBVIOUS
  <1>2. v = IF Covers(r, x, y) THEN Cell(cells, r.w, x - r.x, y - r.y) ELSE pic[y * W + x]
    BY DEF Repainted
  <1>3. CASE Covers(r, x, y)
    <2> DEFINE a == x - r.x
               b == y - r.y
    <2>1. a \in 0 .. r.w - 1 /\ b \in 0 .. r.h - 1
      BY <1>3 DEF Covers
    <2>2. v = Cell(cells, r.w, a, b)
      BY <1>2, <1>3
    <2>3. r.x + a = x /\ r.y + b = y
      BY <1>1 DEF Tile
    <2> HIDE DEF a, b
    <2>4. Settled(js, r.x + a, r.y + b, v)
      BY <2>1, <2>2 DEF Draws
    <2>5. Settled(js, x, y, v)
      BY <2>3, <2>4
    <2>6. PICK i \in 1 .. Len(js) : LastOf(js, i, x, y) /\ Shown(js[i], x, y) = v
      BY <2>5 DEF Settled, LastOf
    <2>7. js[i].op # "copy"
      BY DEF Within, Drawing
    <2>8. Puts(js[i], D, x, y) = v
      BY <2>6, <2>7 DEF Puts
    <2> QED BY <2>6, <2>8 DEF Leaves
  <1>4. CASE ~Covers(r, x, y)
    <2>1. Bare(js, x, y)
      BY <1>1, <1>4, WithinCovers DEF Bare
    <2>2. Leaves(none, D, x, y, v)
      BY <1>2, <1>4 DEF Known
    <2>3. D[<<x, y>>] = v
      BY <2>2 DEF Leaves
    <2> QED BY <2>1, <2>3 DEF Leaves
  <1> QED BY <1>3, <1>4

(* What SendCopy shows is the block elsewhere on the screen. *)
Copied(cells, pic, r, s, W) ==
  \A k \in 1 .. r.w * r.h : cells[k] = pic[(s.y + (k - 1) \div r.w) * W + (s.x + ((k - 1) % r.w))]

(* The operation of copy_rect. *)
CopyJob(j, r, s) ==
  /\ j \in Job /\ j.op = "copy" /\ j.x = r.x /\ j.y = r.y /\ j.w = r.w /\ j.h = r.h /\ j.sx = s.x /\ j.sy = s.y

(* A pixel of the copied block. *)
LEMMA CopiedCell ==
  ASSUME NEW cells, NEW pic, NEW r \in Tile, NEW s, NEW W, Copied(cells, pic, r, s, W),
         NEW a \in 0 .. r.w - 1, NEW b \in 0 .. r.h - 1
  PROVE  Cell(cells, r.w, a, b) = pic[(s.y + b) * W + (s.x + a)]
  <1> DEFINE k == b * r.w + a + 1
  <1>1. r.w \in Nat \ {0} /\ r.h \in Nat
    BY DEF Tile
  <1>2. k \in 1 .. r.w * r.h
    BY <1>1, PixelOffset
  <1>3. k - 1 = b * r.w + a /\ b \in Nat
    BY <1>1
  <1>4. (k - 1) \div r.w = b /\ (k - 1) % r.w = a
    BY <1>1, <1>3, DivMod
  <1>5. Cell(cells, r.w, a, b) = cells[k]
    BY DEF Cell
  <1> HIDE DEF k
  <1>6. cells[k] = pic[(s.y + (k - 1) \div r.w) * W + (s.x + ((k - 1) % r.w))]
    BY <1>2 DEF Copied
  <1> QED BY <1>4, <1>5, <1>6

(* copy_rect leads to the picture with the copied block, which it reads from
   a screen that shows the picture. *)
LEMMA CopyKnown ==
  ASSUME NEW W \in Nat, NEW H \in Nat, NEW D, NEW pic, NEW none, none = <<>>, Known(none, pic, D, W, H),
         NEW r \in Tile, NEW s \in Tile, s.w = r.w, s.h = r.h, RectIn(s.x, s.y, s.w, s.h, W, H),
         NEW cells, Copied(cells, pic, r, s, W), NEW j, CopyJob(j, r, s), NEW js, js = <<j>>,
         NEW new, Repainted(new, pic, r, cells, W, H)
  PROVE  Known(js, new, D, W, H)
  <1> SUFFICES ASSUME NEW x \in 0 .. W - 1, NEW y \in 0 .. H - 1, NEW v, v = new[y * W + x], v # Unknown
               PROVE  Leaves(js, D, x, y, v)
    BY DEF Known
  <1>1. Len(js) = 1 /\ js[1] = j /\ 1 \in 1 .. Len(js)
    OBVIOUS
  <1>2. v = IF Covers(r, x, y) THEN Cell(cells, r.w, x - r.x, y - r.y) ELSE pic[y * W + x]
    BY DEF Repainted
  <1>3. j.op = "copy" /\ j.x = r.x /\ j.y = r.y /\ j.w = r.w /\ j.h = r.h /\ j.sx = s.x /\ j.sy = s.y
    BY DEF CopyJob
  <1>4. Covers(j, x, y) <=> Covers(r, x, y)
    BY <1>3 DEF Covers
  <1>5. CASE Covers(r, x, y)
    <2> DEFINE a == x - r.x
               b == y - r.y
               xx == s.x + a
               yy == s.y + b
    <2>1. a \in 0 .. r.w - 1 /\ b \in 0 .. r.h - 1
      BY <1>5 DEF Covers
    <2>2. v = Cell(cells, r.w, a, b)
      BY <1>2, <1>5
    <2>3. s.x \in Int /\ s.y \in Int /\ s.x >= 0 /\ s.y >= 0 /\ s.x + r.w <= W /\ s.y + r.h <= H /\ r.w \in Nat /\ r.h \in Nat
      BY DEF Tile, RectIn
    <2> HIDE DEF a, b
    <2>4. xx \in 0 .. W - 1 /\ yy \in 0 .. H - 1
      <3>1. s.x \in Nat /\ s.y \in Nat
        BY <2>3
      <3> QED BY <2>1, <2>3, <3>1, Nested
    <2>5. v = pic[yy * W + xx]
      BY <2>1, <2>2, CopiedCell
    <2> HIDE DEF xx, yy
    <2>6. Leaves(none, D, xx, yy, v)
      BY <2>4, <2>5 DEF Known
    <2>7. D[<<xx, yy>>] = v
      BY <2>6 DEF Leaves
    <2>8. Puts(j, D, x, y) = D[<<s.x + (x - r.x), s.y + (y - r.y)>>]
      BY <1>3 DEF Puts
    <2>9. Puts(js[1], D, x, y) = v
      BY <1>1, <2>7, <2>8 DEF xx, yy, a, b
    <2>10. LastOf(js, 1, x, y)
      BY <1>1, <1>4, <1>5 DEF LastOf
    <2> QED BY <1>1, <2>9, <2>10 DEF Leaves
  <1>6. CASE ~Covers(r, x, y)
    <2>1. Bare(js, x, y)
      <3>1. ~Covers(js[1], x, y)
        BY <1>1, <1>4, <1>6
      <3> QED BY <1>1, <3>1 DEF Bare
    <2>2. Leaves(none, D, x, y, v)
      BY <1>2, <1>6 DEF Known
    <2>3. D[<<x, y>>] = v
      BY <2>2 DEF Leaves
    <2> QED BY <2>1, <2>3 DEF Leaves
  <1> QED BY <1>5, <1>6

-----------------------------------------------------------------------------
(* The screen, when the frame is at rest, is what the vector holds. *)
LEMMA AtRest ==
  ASSUME IInv, Done, NEW x \in 0 .. width - 1, NEW y \in 0 .. height - 1
  PROVE  Screen[<<x, y>>] = data[y * width + x] /\ Drawn(x, y) = data[y * width + x]
  <1>1. Pending = {}
    BY DEF IInv, FrameTypeOK, JobOK, Pending, Done, Job
  <1>2. data[Addr(x, y)] = Drawn(x, y)
    BY <1>1 DEF IInv, RowsDrawn
  <1> QED BY <1>2, ScreenIs DEF Addr

(* An operation is called: the screen is going to be what it puts there. *)
LEMMA CallRedraws ==
  ASSUME IInv, NEW j, j \in Job, AllowedIn(j, width, height), Begin(j)
  PROVE  Redrawn(Screen', j, Screen, width, height)
  <1> SUFFICES ASSUME NEW x \in 0 .. width - 1, NEW y \in 0 .. height - 1
               PROVE  Screen'[<<x, y>>] = IF Covers(j, x, y) THEN Puts(j, Screen, x, y) ELSE Screen[<<x, y>>]
    BY DEF Redrawn
  <1>1. Done /\ job' = j /\ before' = data /\ width' = width /\ height' = height
    BY DEF Begin
  <1>2. Screen[<<x, y>>] = data[y * width + x]
    BY <1>1, AtRest
  <1>3. Screen'[<<x, y>>] = IF Covers(j, x, y) THEN Pixel(j, y - j.y, x - j.x, data) ELSE data[y * width + x]
    <2>1. Screen' = [p \in (0 .. width - 1) \X (0 .. height - 1) |-> Drawn(p[1], p[2])']
      BY <1>1 DEF Screen
    <2>2. Screen'[<<x, y>>] = Drawn(x, y)'
      BY <2>1
    <2>3. Drawn(x, y)' = IF x - j.x \in 0 .. j.w - 1 /\ y - j.y \in 0 .. j.h - 1
                         THEN Pixel(j, y - j.y, x - j.x, data) ELSE data[y * width + x]
      BY <1>1 DEF Drawn, Pixel, Addr
    <2> QED BY <2>2, <2>3 DEF Covers
  <1>4. /\ j.x \in Int /\ j.y \in Int /\ j.w \in Nat /\ j.h \in Nat /\ j.sx \in Int /\ j.sy \in Int
        /\ width \in Nat /\ height \in Nat
    BY DEF Job, IInv, FrameTypeOK
  <1>5. ASSUME Covers(j, x, y) PROVE Pixel(j, y - j.y, x - j.x, data) = Puts(j, Screen, x, y)
    <2> DEFINE a == x - j.x
               b == y - j.y
    <2>1. a \in 0 .. j.w - 1 /\ b \in 0 .. j.h - 1
      BY <1>5 DEF Covers
    <2>2. CASE j.op = "copy"
      <3> DEFINE xx == j.sx + a
                 yy == j.sy + b
      <3>1. xx \in 0 .. width - 1 /\ yy \in 0 .. height - 1
        <4>1. j.sx >= 0 /\ j.sy >= 0 /\ j.sx + j.w <= width /\ j.sy + j.h <= height
          BY <2>2 DEF AllowedIn, RectIn
        <4> HIDE DEF a, b
        <4> QED BY <1>4, <2>1, <4>1
      <3>2. Pixel(j, b, a, data) = data[yy * width + xx]
        BY <2>2 DEF Pixel, Addr
      <3>3. Puts(j, Screen, x, y) = Screen[<<xx, yy>>]
        BY <2>2 DEF Puts
      <3> HIDE DEF xx, yy, a, b
      <3>4. Screen[<<xx, yy>>] = data[yy * width + xx]
        BY <1>1, <3>1, AtRest
      <3> QED BY <3>2, <3>3, <3>4 DEF a, b
    <2>3. CASE j.op # "copy"
      <3>1. Puts(j, Screen, x, y) = Shown(j, x, y)
        BY <2>3 DEF Puts
      <3> QED BY <2>3, <3>1 DEF Pixel, Shown
    <2> QED BY <2>2, <2>3
  <1> QED BY <1>2, <1>3, <1>5

(* Nothing is known of a new picture. *)
LEMMA BlankKnown ==
  ASSUME NEW W \in Nat, NEW H \in Nat, NEW pic, pic = Blank(W, H), NEW js, NEW D
  PROVE  Known(js, pic, D, W, H)
  <1> SUFFICES ASSUME NEW x \in 0 .. W - 1, NEW y \in 0 .. H - 1 PROVE pic[y * W + x] = Unknown
    BY DEF Known
  <1> DEFINE a == y * W + x
  <1>1. a \in 0 .. W * H - 1
    BY CellOffset
  <1> HIDE DEF a
  <1>2. pic[a] = Unknown
    BY <1>1 DEF Blank
  <1> QED BY <1>2 DEF a

(* Where a pixel of the rectangle is, from its offset in the vector. *)
InTile(r, x, y) == x \in r.x .. r.x + r.w - 1 /\ y \in r.y .. r.y + r.h - 1

(* A pixel of a rectangle and its place in it. *)
LEMMA InTileIs ==
  ASSUME NEW r \in Tile, NEW x \in Int, NEW y \in Int
  PROVE  /\ InTile(r, x, y) <=> Covers(r, x, y)
         /\ InTile(r, x, y) => (y - r.y) * r.w + x - r.x + 1 \in 1 .. r.w * r.h
         /\ (y - r.y) * r.w + x - r.x + 1 = (y - r.y) * r.w + (x - r.x) + 1
  <1>1. r.x \in Int /\ r.y \in Int /\ r.w \in Nat /\ r.h \in Nat
    BY DEF Tile
  <1> DEFINE c == (y - r.y) * r.w
             u == x - r.x
             v == y - r.y
  <1>2. c \in Int
    BY <1>1
  <1>6. u \in Int /\ v \in Int
    BY <1>1
  <1>3. InTile(r, x, y) <=> Covers(r, x, y)
    BY <1>1 DEF InTile, Covers
  <1>5. ASSUME InTile(r, x, y) PROVE v * r.w + u + 1 \in 1 .. r.w * r.h
    <2>1. u \in 0 .. r.w - 1 /\ v \in 0 .. r.h - 1
      BY <1>3, <1>5 DEF Covers
    <2> HIDE DEF u, v
    <2> QED BY <1>1, <2>1, PixelOffset
  <1> HIDE DEF c
  <1>4. c + x - r.x + 1 = c + u + 1
    BY <1>1, <1>2
  <1> QED BY <1>3, <1>4, <1>5 DEF c

(* The server shows the rectangle in its picture. *)
LEMMA ShowsPaints ==
  ASSUME width \in Nat, height \in Nat, picture \in Pictures(width, height),
         NEW r \in OnScreen, NEW cells, CellsOK(cells, r.w * r.h), Shows(r, cells)
  PROVE  Repainted(picture', picture, r, cells, width, height) /\ picture' \in Pictures(width, height)
  <1> DEFINE new == picture'
             W == width
             H == height
  <1>1. r \in Tile /\ r.x \in Nat /\ r.y \in Nat /\ r.w \in Nat \ {0} /\ r.h \in Nat \ {0}
    BY OnScreenTile
  <1>2. r.x + r.w <= W /\ r.y + r.h <= H
    BY DEF OnScreen
  <1>3. W \in Nat \ {0} /\ H \in Nat
    BY <1>1, <1>2
  <1>4. new = [a \in 0 .. W * H - 1 |->
                 IF InTile(r, a % W, a \div W) THEN cells[(a \div W - r.y) * r.w + (a % W) - r.x + 1] ELSE picture[a]]
    <2>1. DOMAIN picture = 0 .. W * H - 1
      BY DEF Pictures
    <2>2. new = [a \in DOMAIN picture |->
                 IF InTile(r, a % W, a \div W) THEN cells[(a \div W - r.y) * r.w + (a % W) - r.x + 1] ELSE picture[a]]
      BY Zenon DEF Shows, InRect, InTile
    <2> QED BY <2>1, <2>2
  <1>5. picture \in [0 .. W * H - 1 -> Nat \cup {Unknown}]
    BY DEF Pictures
  <1> HIDE DEF W, H, new
  <1>6. Repainted(new, picture, r, cells, W, H)
    <2> SUFFICES ASSUME NEW x \in 0 .. W - 1, NEW y \in 0 .. H - 1
                 PROVE  new[y * W + x] = IF Covers(r, x, y) THEN Cell(cells, r.w, x - r.x, y - r.y) ELSE picture[y * W + x]
      BY DEF Repainted
    <2> DEFINE a == y * W + x
    <2>1. a \in 0 .. W * H - 1
      BY <1>3, CellOffset
    <2>2. a \div W = y /\ a % W = x
      <3>1. y \in Nat
        BY <1>3
      <3> QED BY <1>3, <3>1, DivMod
    <2>3. x \in Int /\ y \in Int
      OBVIOUS
    <2> HIDE DEF a
    <2>4. new[a] = IF InTile(r, x, y) THEN cells[(y - r.y) * r.w + x - r.x + 1] ELSE picture[a]
      BY <1>4, <2>1, <2>2
    <2>5. (InTile(r, x, y) <=> Covers(r, x, y)) /\ (y - r.y) * r.w + x - r.x + 1 = (y - r.y) * r.w + (x - r.x) + 1
      BY <1>1, <2>3, InTileIs
    <2>6. new[a] = IF Covers(r, x, y) THEN Cell(cells, r.w, x - r.x, y - r.y) ELSE picture[a]
      BY <2>4, <2>5 DEF Cell
    <2> QED BY <2>6 DEF a
  <1>7. \A a \in 0 .. W * H - 1 : new[a] \in Nat \cup {Unknown}
    <2> SUFFICES ASSUME NEW a \in 0 .. W * H - 1 PROVE new[a] \in Nat \cup {Unknown}
      OBVIOUS
    <2> DEFINE x == a % W
               y == a \div W
               q == (y - r.y) * r.w + x - r.x + 1
    <2>1. x \in Int /\ y \in Int
      <3> DEFINE n == W * H
      <3>1. n \in Nat /\ a \in 0 .. n - 1
        BY <1>3
      <3> HIDE DEF n
      <3>2. a \in Nat
        BY <3>1
      <3> QED BY <1>3, <3>2, Split
    <2>2. new[a] = IF InTile(r, x, y) THEN cells[q] ELSE picture[a]
      BY <1>4
    <2>3. InTile(r, x, y) => q \in 1 .. r.w * r.h
      <3> HIDE DEF x, y
      <3> QED BY <1>1, <2>1, InTileIs
    <2> HIDE DEF x, y, q
    <2>4. InTile(r, x, y) => cells[q] \in Nat \cup {Unknown}
      BY <2>3 DEF CellsOK
    <2>5. picture[a] \in Nat \cup {Unknown}
      BY <1>5
    <2> QED BY <2>2, <2>4, <2>5
  <1>8. new \in Pictures(W, H)
    <2>1. new = [a \in 0 .. W * H - 1 |-> new[a]]
      BY <1>4
    <2> QED BY <1>7, <2>1 DEF Pictures
  <1> QED BY <1>6, <1>8 DEF new, W, H

(* A stretch within one that is within bounds. *)
LEMMA Inner ==
  ASSUME NEW a \in Int, NEW w \in Int, NEW b \in Int, NEW n \in Int, NEW m \in Int,
         b >= 0, b + n <= m, a >= b, a + w <= b + n
  PROVE  a >= 0 /\ a + w <= m
  OBVIOUS

(* Operations within a rectangle of the screen are within bounds. *)
LEMMA WithinQueue ==
  ASSUME NEW W \in Nat, NEW H \in Nat, NEW r \in Tile, RectIn(r.x, r.y, r.w, r.h, W, H), NEW js, Within(js, r)
  PROVE  QueueIn(js, W, H)
  <1>1. js \in Seq(Job)
    BY DEF Within
  <1>2. r.x \in Int /\ r.y \in Int /\ r.w \in Nat /\ r.h \in Nat /\ r.x >= 0 /\ r.y >= 0 /\ r.x + r.w <= W /\ r.y + r.h <= H
    BY DEF Tile, RectIn
  <1>3. ASSUME NEW i \in 1 .. Len(js) PROVE Filled(js[i]) /\ AllowedIn(js[i], W, H) /\ js[i].op \in Drawing
    <2> DEFINE j == js[i]
    <2>1. Filled(j) /\ j.op \in Drawing /\ j.x >= r.x /\ j.y >= r.y /\ j.x + j.w <= r.x + r.w /\ j.y + j.h <= r.y + r.h
      BY DEF Within
    <2>2. j \in Job
      BY <1>1, ElementOfSeq
    <2> HIDE DEF j
    <2>3. j.x \in Int /\ j.y \in Int /\ j.w \in Nat /\ j.h \in Nat
      BY <2>2 DEF Job
    <2>4. RectIn(j.x, j.y, j.w, j.h, W, H)
      <3>1. j.x >= 0 /\ j.y >= 0 /\ j.x + j.w <= W /\ j.y + j.h <= H
        <4>1. j.w \in Int /\ j.h \in Int /\ r.w \in Int /\ r.h \in Int /\ W \in Int /\ H \in Int
          BY <1>2, <2>3
        <4>2. j.x >= 0 /\ j.x + j.w <= W
          BY <1>2, <2>1, <2>3, <4>1, Inner
        <4>3. j.y >= 0 /\ j.y + j.h <= H
          BY <1>2, <2>1, <2>3, <4>1, Inner
        <4> QED BY <4>2, <4>3
      <3> QED BY <3>1 DEF RectIn
    <2>5. AllowedIn(j, W, H)
      BY <2>1, <2>4 DEF AllowedIn, Drawing
    <2> QED BY <2>1, <2>5 DEF j
  <1> QED BY <1>1, <1>3 DEF QueueIn

-----------------------------------------------------------------------------
(* The steps of the server. *)

(* The invariant, for a message that was just sent. *)
SentInv ==
  /\ message'.codec \in PixelCodecs \cup CursorCodecs \cup {"newfbsize"}
  /\ message'.codec = "zrle" => DecodeZrle(message', <<>>).in = <<>>
  /\ QueueIn(Decode(message', <<>>), width, height)
  /\ PictureInv' /\ CursorInv'
  /\ ~Carries /\ message'.codec # "newfbsize" => Known(Decode(message', <<>>), picture', Screen, width, height)

(* Nothing is under way when the server sends. *)
AtIdle ==
  /\ Idle /\ picture \in Pictures(width, height) /\ width \in Nat /\ height \in Nat
  /\ ShapeOK(shape) /\ ShapeOK(cursor) /\ cursor = shape
  /\ ~Carries => Known(<<>>, picture, Screen, width, height)

(* The invariant, when nothing is under way. *)
LEMMA IdleIs ==
  ASSUME PixelsInv, Idle
  PROVE  AtIdle
  <1>1. message = NoMessage /\ jobs = <<>> /\ message.codec = "none"
    BY DEF Idle, NoMessage
  <1>2. ~Sizing /\ message.codec \notin CursorCodecs
    BY <1>1 DEF Sizing, CursorCodecs
  <1>3. Queue = <<>>
    BY <1>1 DEF Queue
  <1>4. picture \in Pictures(width, height)
    BY <1>2 DEF PixelsInv, PictureInv
  <1>5. width \in Nat /\ height \in Nat
    BY DEF PixelsInv, IInv, FrameTypeOK
  <1>6. ShapeOK(shape) /\ ShapeOK(cursor) /\ cursor = shape
    BY <1>2 DEF PixelsInv, CursorInv
  <1>7. ~Carries => Known(<<>>, picture, Screen, width, height)
    BY <1>2, <1>3 DEF PixelsInv, KnownInv
  <1> QED BY <1>4, <1>5, <1>6, <1>7 DEF AtIdle

(* The kinds of messages are different. *)
LEMMA CodecsApart ==
  ASSUME NEW c
  PROVE  /\ c \in PixelCodecs => c \notin CursorCodecs /\ c # "none" /\ c # "newfbsize"
         /\ c \in CursorCodecs => c # "none" /\ c # "newfbsize" /\ c # "zrle"
         /\ "copyrect" \in PixelCodecs
  BY DEF PixelCodecs, FrameCodecs, CursorCodecs

(* What no server changes. *)
Held == UNCHANGED frameVars /\ UNCHANGED cursor

(* A new size is sent. *)
LEMMA SendSizeInv ==
  ASSUME AtIdle, Held, SendSize
  PROVE  SentInv
  <1>1. PICK s \in Frames : /\ message' = [codec |-> "newfbsize", rect |-> At(0, 0, s[1], s[2])]
                            /\ picture' = [a \in 0 .. s[1] * s[2] - 1 |-> Unknown]
                            /\ shape' = shape
    BY DEF SendSize
  <1>2. s[1] \in Nat /\ s[2] \in Nat
    BY PixelsAssumption
  <1>3. message'.codec = "newfbsize" /\ message'.rect.w = s[1] /\ message'.rect.h = s[2]
    BY <1>1 DEF At
  <1>4. Decode(message', <<>>) = <<>>
    BY <1>3, DecodeIs
  <1>5. QueueIn(Decode(message', <<>>), width, height)
    BY <1>4, EmptyQueue
  <1>6. PictureInv'
    <2>1. Sizing'
      BY <1>3 DEF Sizing
    <2>2. picture' = Blank(s[1], s[2])
      BY <1>1 DEF Blank
    <2>3. message'.rect.w \in Nat /\ message'.rect.h \in Nat /\ picture' = Blank(message'.rect.w, message'.rect.h)
      BY <1>2, <1>3, <2>2
    <2> QED BY <2>1, <2>3 DEF PictureInv
  <1>7. CursorInv'
    <2>1. ShapeOK(shape') /\ ShapeOK(cursor') /\ cursor' = shape'
      BY <1>1 DEF AtIdle, Held
    <2>2. message'.codec \notin CursorCodecs
      BY <1>3 DEF CursorCodecs
    <2> QED BY <2>1, <2>2 DEF CursorInv
  <1> QED BY <1>3, <1>5, <1>6, <1>7 DEF SentInv

(* A cursor is sent. *)
LEMMA SendCursorInv ==
  ASSUME AtIdle, Held, SendCursor
  PROVE  SentInv
  <1>1. /\ message'.codec \in CursorCodecs /\ DecodeCursor(message') = shape'
        /\ ShapeOK(shape') /\ picture' = picture
    BY CursorSent DEF CursorMessage
  <1>2. message'.codec # "none" /\ message'.codec # "newfbsize" /\ message'.codec # "zrle"
    BY <1>1, CodecsApart
  <1>3. Decode(message', <<>>) = <<>>
    BY <1>1, DecodeIs DEF CursorCodecs
  <1>4. QueueIn(Decode(message', <<>>), width, height)
    BY <1>3, EmptyQueue
  <1>5. width' = width /\ height' = height /\ cursor' = cursor
    BY DEF Held, frameVars
  <1>6. PictureInv'
    <2>1. ~Sizing'
      BY <1>2 DEF Sizing
    <2>2. picture' \in Pictures(width', height')
      BY <1>1, <1>5 DEF AtIdle
    <2> QED BY <2>1, <2>2 DEF PictureInv
  <1>7. CursorInv'
    <2>1. ShapeOK(cursor')
      BY <1>5 DEF AtIdle
    <2> QED BY <1>1, <2>1 DEF CursorInv
  <1>8. ~Carries => Known(Decode(message', <<>>), picture', Screen, width, height)
    BY <1>1, <1>3 DEF AtIdle
  <1> QED BY <1>1, <1>2, <1>4, <1>6, <1>7, <1>8 DEF SentInv

(* The pictures and the cursor, for a message of pixels. *)
LEMMA PixelsSentInv ==
  ASSUME AtIdle, Held, message'.codec \in PixelCodecs, shape' = shape, picture' \in Pictures(width, height)
  PROVE  PictureInv' /\ CursorInv'
  <1>1. message'.codec \notin CursorCodecs /\ message'.codec # "newfbsize"
    BY CodecsApart
  <1>2. width' = width /\ height' = height /\ cursor' = cursor
    BY DEF Held, frameVars
  <1>3. PictureInv'
    <2>1. ~Sizing'
      BY <1>1 DEF Sizing
    <2> QED BY <1>2, <2>1 DEF PictureInv
  <1>4. CursorInv'
    BY <1>1, <1>2 DEF CursorInv, AtIdle
  <1> QED BY <1>3, <1>4

(* A rectangle is sent. *)
LEMMA SendRectInv ==
  ASSUME AtIdle, Held, SendRect
  PROVE  SentInv
  <1>0. PICK r \in OnScreen : \E c : RectSent(r, c)
    BY RectIsSent
  <1>1. PICK c : RectSent(r, c)
    BY <1>0
  <1>2. /\ message'.codec \in PixelCodecs /\ SentOK(message', <<>>, r, c)
        /\ CellsOK(c, r.w * r.h) /\ Shows(r, c) /\ shape' = shape
    BY <1>1 DEF RectSent
  <1>3. r \in Tile /\ r.x \in Nat /\ r.y \in Nat /\ r.w \in Nat \ {0} /\ r.h \in Nat \ {0}
    BY OnScreenTile
  <1>4. width \in Nat /\ height \in Nat /\ picture \in Pictures(width, height)
    BY DEF AtIdle
  <1>5. Repainted(picture', picture, r, c, width, height) /\ picture' \in Pictures(width, height)
    BY <1>2, <1>4, ShowsPaints
  <1> DEFINE js == Decode(message', <<>>)
             none == <<>>
  <1>6. Within(js, r) /\ (~Carries => Draws(js, r, c)) /\ (message'.codec = "zrle" => DecodeZrle(message', <<>>).in = <<>>)
    BY <1>2 DEF SentOK
  <1>9. ~Carries => Known(none, picture, Screen, width, height)
    BY DEF AtIdle
  <1>10. none = <<>>
    OBVIOUS
  <1> HIDE DEF js, none
  <1>7. QueueIn(js, width, height)
    <2>1. RectIn(r.x, r.y, r.w, r.h, width, height)
      BY <1>3 DEF OnScreen, RectIn
    <2> QED BY <1>3, <1>4, <1>6, <2>1, WithinQueue
  <1>8. ~Carries => Known(js, picture', Screen, width, height)
    BY <1>3, <1>4, <1>5, <1>6, <1>9, <1>10, SendKnown
  <1>11. PictureInv' /\ CursorInv'
    BY <1>2, <1>5, PixelsSentInv
  <1> QED BY <1>2, <1>6, <1>7, <1>8, <1>11 DEF SentInv, js

(* What SendCopy sends and shows. *)
LEMMA CopySends ==
  ASSUME SendCopy
  PROVE  \E r \in OnScreen : \E s \in OnScreen : \E cells :
           /\ r.w = s.w /\ r.h = s.h /\ Sends("copyrect", r, <<s.x, s.y>>, cells)
           /\ Copied(cells, picture, r, s, width)
  <1>1. PICK r \in OnScreen, s \in OnScreen :
          /\ r.w = s.w /\ r.h = s.h
          /\ Sends("copyrect", r, <<s.x, s.y>>,
                   [k \in 1 .. r.w * r.h |-> picture[Addr(s.x + ((k - 1) % r.w), s.y + (k - 1) \div r.w)]])
    BY Zenon DEF SendCopy
  <1> DEFINE cells == [k \in 1 .. r.w * r.h |-> picture[Addr(s.x + ((k - 1) % r.w), s.y + (k - 1) \div r.w)]]
  <1>2. Copied(cells, picture, r, s, width)
    <2> SUFFICES ASSUME NEW k \in 1 .. r.w * r.h
                 PROVE  cells[k] = picture[(s.y + (k - 1) \div r.w) * width + (s.x + ((k - 1) % r.w))]
      BY Zenon DEF Copied
    <2> QED BY DEF Addr
  <1>3. Sends("copyrect", r, <<s.x, s.y>>, cells)
    BY <1>1
  <1> HIDE DEF cells
  <1> QED BY <1>1, <1>2, <1>3

(* What is copied are colours. *)
LEMMA CopiedOK ==
  ASSUME NEW W \in Nat, NEW H \in Nat, NEW pic, pic \in Pictures(W, H), NEW r, NEW s,
         r.w \in Nat \ {0}, r.h \in Nat, s.x \in Nat, s.y \in Nat, s.x + r.w <= W, s.y + r.h <= H,
         NEW cells, Copied(cells, pic, r, s, W)
  PROVE  CellsOK(cells, r.w * r.h)
  <1> SUFFICES ASSUME NEW k \in 1 .. r.w * r.h PROVE cells[k] \in Nat \cup {Unknown}
    BY DEF CellsOK
  <1> DEFINE u == (k - 1) % r.w
             v == (k - 1) \div r.w
             n == r.w * r.h
  <1>1. n \in Nat
    OBVIOUS
  <1>2. k - 1 \in 0 .. n - 1 /\ k - 1 \in Nat
    BY <1>1
  <1>3. u \in 0 .. r.w - 1 /\ v \in 0 .. r.h - 1
    BY <1>2, Split, SplitBelow
  <1>4. cells[k] = pic[(s.y + v) * W + (s.x + u)]
    BY DEF Copied
  <1> HIDE DEF u, v, n
  <1> DEFINE x == s.x + u
             y == s.y + v
  <1>5. x \in 0 .. W - 1 /\ y \in 0 .. H - 1
    BY <1>3, Nested
  <1> HIDE DEF x, y
  <1>6. y * W + x \in 0 .. W * H - 1
    BY <1>5, CellOffset
  <1> QED BY <1>4, <1>6 DEF Pictures, x, y

CopyOf(r, x, y) == [Block("copy", r) EXCEPT !.sx = x, !.sy = y]

(* The operation that copy_rect is decoded to, field by field. *)
LEMMA CopyOfIs ==
  ASSUME NEW r, NEW x, NEW y
  PROVE  CopyOf(r, x, y) = [op |-> "copy", x |-> r.x, y |-> r.y, w |-> r.w, h |-> r.h, sx |-> x, sy |-> y, colour |-> 0, pixels |-> <<>>]
  <1>1. PICK b : b = Block("copy", r)
    OBVIOUS
  <1>2. b = [op |-> "copy", x |-> r.x, y |-> r.y, w |-> r.w, h |-> r.h, sx |-> 0, sy |-> 0, colour |-> 0, pixels |-> <<>>]
    BY <1>1 DEF Block, NoJob
  <1>3. PICK c : c = CopyOf(r, x, y)
    OBVIOUS
  <1>4. c = [b EXCEPT !.sx = x, !.sy = y]
    BY <1>1, <1>3 DEF CopyOf
  <1>5. c = [op |-> "copy", x |-> r.x, y |-> r.y, w |-> r.w, h |-> r.h, sx |-> x, sy |-> y, colour |-> 0, pixels |-> <<>>]
    BY <1>2, <1>4
  <1> QED BY <1>3, <1>5

(* A message of copy_rect is decoded to this one operation. *)
LEMMA CopyDecoded ==
  ASSUME NEW m, NEW r \in Tile, NEW s, s.x \in Int, s.y \in Int, m.codec = "copyrect", m.rect = r, m.body = <<s.x, s.y>>
  PROVE  \E j : Decode(m, <<>>) = <<j>> /\ CopyJob(j, r, s)
  <1> DEFINE j == CopyOf(r, s.x, s.y)
  <1>1. m.body[1] = s.x /\ m.body[2] = s.y
    OBVIOUS
  <1>2. DecodeCopyRect(m) = <<j>>
    BY <1>1 DEF DecodeCopyRect, CopyOf
  <1>3. Decode(m, <<>>) = <<j>>
    BY <1>2, DecodeIs
  <1>4. r.x \in Int /\ r.y \in Int /\ r.w \in Nat /\ r.h \in Nat
    BY DEF Tile
  <1>0. <<>> \in Seq(Nat) /\ 0 \in Nat
    OBVIOUS
  <1>6. j = [op |-> "copy", x |-> r.x, y |-> r.y, w |-> r.w, h |-> r.h, sx |-> s.x, sy |-> s.y, colour |-> 0, pixels |-> <<>>]
    BY CopyOfIs
  <1> HIDE DEF j
  <1>5. CopyJob(j, r, s)
    BY <1>0, <1>4, <1>6 DEF CopyJob, Job
  <1> QED BY <1>3, <1>5

(* It is within bounds. *)
LEMMA CopyQueue ==
  ASSUME NEW js, NEW j, js = <<j>>, NEW r, NEW s, CopyJob(j, r, s), s.w = r.w, s.h = r.h, NEW W, NEW H,
         RectIn(r.x, r.y, r.w, r.h, W, H), RectIn(s.x, s.y, s.w, s.h, W, H)
  PROVE  QueueIn(js, W, H)
  <1>1. j \in Job /\ j.op = "copy" /\ j.x = r.x /\ j.y = r.y /\ j.w = r.w /\ j.h = r.h /\ j.sx = s.x /\ j.sy = s.y
    BY DEF CopyJob
  <1>2. js \in Seq(Job) /\ Len(js) = 1 /\ js[1] = j
    BY <1>1
  <1>3. Filled(j)
    BY <1>1 DEF Filled
  <1>4. AllowedIn(j, W, H)
    BY <1>1 DEF AllowedIn
  <1>5. \A i \in 1 .. Len(js) : js[i] = j
    BY <1>2
  <1> QED BY <1>1, <1>2, <1>3, <1>4, <1>5 DEF QueueIn

(* A copy is sent. *)
LEMMA SendCopyInv ==
  ASSUME AtIdle, Held, SendCopy
  PROVE  SentInv
  <1>1. PICK r \in OnScreen, s \in OnScreen : \E cells :
          /\ r.w = s.w /\ r.h = s.h /\ Sends("copyrect", r, <<s.x, s.y>>, cells)
          /\ Copied(cells, picture, r, s, width)
    BY CopySends
  <1>2. PICK cells : /\ Sends("copyrect", r, <<s.x, s.y>>, cells)
                     /\ Copied(cells, picture, r, s, width)
    BY <1>1
  <1>3. r.w = s.w /\ r.h = s.h
    BY <1>1
  <1>4. r \in Tile /\ r.x \in Nat /\ r.y \in Nat /\ r.w \in Nat \ {0} /\ r.h \in Nat \ {0}
    BY OnScreenTile
  <1>5. s \in Tile /\ s.x \in Nat /\ s.y \in Nat /\ s.w \in Nat \ {0} /\ s.h \in Nat \ {0}
    BY OnScreenTile
  <1>6. width \in Nat /\ height \in Nat /\ picture \in Pictures(width, height)
    BY DEF AtIdle
  <1>7. r.x + r.w <= width /\ r.y + r.h <= height /\ s.x + s.w <= width /\ s.y + s.h <= height
    BY DEF OnScreen
  <1>8. RectIn(r.x, r.y, r.w, r.h, width, height) /\ RectIn(s.x, s.y, s.w, s.h, width, height)
    BY <1>4, <1>5, <1>7 DEF RectIn
  <1>9. CellsOK(cells, r.w * r.h)
    BY <1>2, <1>3, <1>4, <1>5, <1>6, <1>7, CopiedOK
  <1>10. Sending(message', "copyrect", r, <<s.x, s.y>>) /\ Shows(r, cells) /\ shape' = shape
    BY <1>2, SendsIs
  <1>11. message'.codec = "copyrect" /\ message'.rect = r /\ message'.body = <<s.x, s.y>>
    BY <1>10 DEF Sending
  <1>12. Repainted(picture', picture, r, cells, width, height) /\ picture' \in Pictures(width, height)
    BY <1>6, <1>9, <1>10, ShowsPaints
  <1>13. PICK j : Decode(message', <<>>) = <<j>> /\ CopyJob(j, r, s)
    BY <1>4, <1>5, <1>11, CopyDecoded
  <1> DEFINE js == Decode(message', <<>>)
             none == <<>>
  <1>14. js = <<j>> /\ none = <<>>
    BY <1>13
  <1>15. ~Carries => Known(none, picture, Screen, width, height)
    BY DEF AtIdle
  <1> HIDE DEF js, none
  <1>16. QueueIn(js, width, height)
    BY <1>3, <1>8, <1>13, <1>14, CopyQueue
  <1>17. ~Carries => Known(js, picture', Screen, width, height)
    BY <1>2, <1>3, <1>4, <1>5, <1>6, <1>8, <1>12, <1>13, <1>14, <1>15, CopyKnown
  <1>18. message'.codec \in PixelCodecs /\ message'.codec # "zrle"
    BY <1>11, CodecsApart
  <1>19. PictureInv' /\ CursorInv'
    BY <1>10, <1>12, <1>18, PixelsSentInv
  <1> QED BY <1>16, <1>17, <1>18, <1>19 DEF SentInv, js

-----------------------------------------------------------------------------
(* The steps of the client. *)

(* A row that is drawn does not change what the screen is going to be. *)
LEMMA ScreenKeeps ==
  ASSUME UNCHANGED <<width, height, job, before>>
  PROVE  Screen' = Screen
  BY DEF Screen, Drawn, Pixel, Addr

(* Nothing changes for a frame that is left alone. *)
LEMMA FrameKeeps ==
  ASSUME UNCHANGED frameVars
  PROVE  /\ Screen' = Screen /\ (Done' <=> Done) /\ width' = width /\ height' = height
         /\ IInv => IInv'
  <1>1. Screen' = Screen
    BY ScreenKeeps DEF frameVars
  <1>2. Done' <=> Done
    BY DEF frameVars, Done, Upwards, Overlap
  <1>3. width' = width /\ height' = height
    BY DEF frameVars
  <1>4. IInv => IInv'
    BY StutterInv
  <1> QED BY <1>1, <1>2, <1>3, <1>4

(* The server sends: PixelsInv is kept. *)
LEMMA SendsInv ==
  ASSUME PixelsInv, ServerSends
  PROVE  PixelsInv'
  <1>1. Idle /\ sent < MaxRects /\ sent' = sent + 1 /\ jobs' = jobs /\ inflated' = inflated
        /\ UNCHANGED frameVars /\ cursor' = cursor
    BY DEF ServerSends
  <1>2. Held
    BY <1>1 DEF Held
  <1>3. AtIdle
    BY <1>1, IdleIs
  <1>4. SendRect \/ SendCopy \/ SendSize \/ SendCursor
    BY Zenon DEF ServerSends
  <1>5. SentInv
    BY <1>2, <1>3, <1>4, SendRectInv, SendCopyInv, SendSizeInv, SendCursorInv
  <1>6. IInv' /\ Screen' = Screen /\ (Done' <=> Done) /\ width' = width /\ height' = height
    BY <1>1, FrameKeeps DEF PixelsInv
  <1>7. /\ message'.codec \in PixelCodecs \cup CursorCodecs \cup {"newfbsize"}
        /\ message'.codec = "zrle" => DecodeZrle(message', <<>>).in = <<>>
        /\ QueueIn(Decode(message', <<>>), width, height)
        /\ PictureInv' /\ CursorInv'
        /\ ~Carries /\ message'.codec # "newfbsize" => Known(Decode(message', <<>>), picture', Screen, width, height)
    BY <1>5 DEF SentInv
  <1>8. message'.codec # "none"
    BY <1>7, CodecsApart
  <1>9. Queue' = Decode(message', <<>>)
    BY <1>8 DEF Queue
  <1>10. MessageInv'
    <2>1. jobs' = <<>> /\ Done'
      BY <1>1, <1>6 DEF Idle
    <2>2. inflated' = <<>> /\ sent' \in 0 .. MaxRects
      <3>1. inflated = <<>> /\ sent \in 0 .. MaxRects
        BY DEF PixelsInv, MessageInv
      <3>2. MaxRects \in Nat
        BY PixelsAssumption
      <3> QED BY <1>1, <3>1, <3>2
    <2> QED BY <1>7, <1>8, <2>1, <2>2 DEF MessageInv
  <1>11. QueueIn(Queue, width, height)'
    BY <1>6, <1>7, <1>9
  <1>12. KnownInv'
    BY <1>6, <1>7, <1>9 DEF KnownInv, Sizing
  <1> QED BY <1>6, <1>7, <1>10, <1>11, <1>12 DEF PixelsInv

-----------------------------------------------------------------------------
(* What holds of every message before it is decoded. *)
LEMMA MessageIs ==
  ASSUME PixelsInv, message.codec # "none"
  PROVE  /\ jobs = <<>> /\ Done /\ inflated = <<>> /\ Queue = Decode(message, <<>>)
         /\ message.codec = "zrle" => DecodeZrle(message, <<>>).in = <<>>
  BY DEF PixelsInv, MessageInv, Queue

(* The frame, when a message is decoded. *)
LEMMA DecodesFrame ==
  ASSUME PixelsInv, ClientDecodes
  PROVE  /\ IInv'
         /\ ~Sizing => UNCHANGED frameVars
         /\ Sizing => width' = message.rect.w /\ height' = message.rect.h
  <1> DEFINE w == message.rect.w
             h == message.rect.h
  <1>1. /\ \/ Sizing /\ (w # width \/ h # height) /\ Resize(w, h)
           \/ ~(Sizing /\ (w # width \/ h # height)) /\ UNCHANGED frameVars
    <2>1. <<w, h>> # <<width, height>> <=> (w # width \/ h # height)
      OBVIOUS
    <2> QED BY <2>1 DEF ClientDecodes, Sizing
  <1>2. IInv
    BY DEF PixelsInv
  <1>3. CASE Sizing /\ Resize(w, h)
    <2>1. w \in Nat /\ h \in Nat
      BY <1>3 DEF PixelsInv, PictureInv
    <2>2. width' = w /\ height' = h
      BY <1>3 DEF Resize
    <2>3. width' \in Nat /\ height' \in Nat /\ Resize(width', height')
      BY <1>3, <2>1, <2>2
    <2> QED BY <1>2, <1>3, <2>2, <2>3, ResizeInv
  <1>4. CASE ~(Sizing /\ (w # width \/ h # height)) /\ UNCHANGED frameVars
    <2>1. width' = width /\ height' = height
      BY <1>4, FrameKeeps
    <2> QED BY <1>2, <1>4, <2>1, FrameKeeps
  <1> QED BY <1>1, <1>3, <1>4

(* The client decodes a message: PixelsInv is kept. *)
LEMMA DecodesInv ==
  ASSUME PixelsInv, ClientDecodes
  PROVE  PixelsInv'
  <1>1. /\ message.codec # "none" /\ message' = NoMessage /\ jobs' = Decode(message, inflated)
        /\ inflated' = (IF message.codec = "zrle" THEN DecodeZrle(message, inflated).in ELSE inflated)
        /\ cursor' = (IF message.codec \in CursorCodecs THEN DecodeCursor(message) ELSE cursor)
        /\ picture' = picture /\ shape' = shape /\ sent' = sent
    BY Zenon DEF ClientDecodes, CursorCodecs
  <1>2. /\ jobs = <<>> /\ Done /\ inflated = <<>> /\ Queue = Decode(message, <<>>)
        /\ message.codec = "zrle" => DecodeZrle(message, <<>>).in = <<>>
    BY <1>1, MessageIs
  <1>3. message'.codec = "none"
    BY <1>1 DEF NoMessage
  <1>4. ~Sizing' /\ message'.codec \notin CursorCodecs
    BY <1>3 DEF Sizing, CursorCodecs
  <1>5. Queue' = Queue /\ Queue' = jobs'
    BY <1>1, <1>2, <1>3 DEF Queue
  <1>6. inflated' = <<>>
    BY <1>1, <1>2
  <1>7. /\ IInv'
        /\ ~Sizing => UNCHANGED frameVars
        /\ Sizing => width' = message.rect.w /\ height' = message.rect.h
    BY DecodesFrame
  <1>8. MessageInv'
    <2>1. sent \in 0 .. MaxRects
      BY DEF PixelsInv, MessageInv
    <2> QED BY <1>1, <1>3, <1>6, <2>1 DEF MessageInv
  <1>9. CursorInv'
    <2>1. /\ ShapeOK(shape) /\ ShapeOK(cursor)
          /\ IF message.codec \in CursorCodecs THEN DecodeCursor(message) = shape ELSE cursor = shape
      BY DEF PixelsInv, CursorInv
    <2>2. cursor' = shape
      BY <1>1, <2>1
    <2> QED BY <1>1, <1>4, <2>1, <2>2 DEF CursorInv
  <1>10. CASE Sizing
    <2>1. message.rect.w \in Nat /\ message.rect.h \in Nat /\ picture = Blank(message.rect.w, message.rect.h)
      BY <1>10 DEF PixelsInv, PictureInv
    <2>2. width' \in Nat /\ height' \in Nat /\ picture' = Blank(width', height')
      BY <1>1, <1>7, <1>10, <2>1
    <2>3. Queue' = <<>>
      BY <1>2, <1>5, <1>10, DecodeIs DEF Sizing
    <2>4. QueueIn(Queue, width, height)'
      BY <2>3, EmptyQueue
    <2>5. PictureInv'
      BY <1>4, <2>2 DEF PictureInv, Pictures, Blank
    <2>6. KnownInv'
      BY <2>2, BlankKnown DEF KnownInv
    <2> QED BY <1>7, <1>8, <1>9, <2>4, <2>5, <2>6 DEF PixelsInv
  <1>11. CASE ~Sizing
    <2>1. Screen' = Screen /\ width' = width /\ height' = height
      BY <1>7, <1>11, FrameKeeps
    <2>2. QueueIn(Queue, width, height)'
      BY <1>5, <2>1 DEF PixelsInv
    <2>3. PictureInv'
      BY <1>1, <1>4, <1>11, <2>1 DEF PixelsInv, PictureInv
    <2>4. KnownInv'
      BY <1>1, <1>5, <1>11, <2>1 DEF PixelsInv, KnownInv
    <2> QED BY <1>7, <1>8, <1>9, <2>2, <2>3, <2>4 DEF PixelsInv
  <1> QED BY <1>10, <1>11

(* The next operation is within bounds and is called. *)
LEMMA CallIs ==
  ASSUME PixelsInv, ClientCalls
  PROVE  /\ message.codec = "none" /\ Queue = jobs /\ jobs # <<>> /\ Done
         /\ Head(jobs) \in Job /\ Filled(Head(jobs)) /\ AllowedIn(Head(jobs), width, height) /\ Begin(Head(jobs))
         /\ QueueIn(Tail(jobs), width, height)
         /\ message' = message /\ jobs' = Tail(jobs)
         /\ UNCHANGED <<inflated, cursor, picture, shape, sent>>
  <1>1. /\ jobs # <<>> /\ Done /\ jobs' = Tail(jobs) /\ message' = message
        /\ (Head(jobs).op = "rows" \/ Allowed(Head(jobs)) => Begin(Head(jobs)))
        /\ UNCHANGED <<inflated, cursor, picture, shape, sent>>
    BY DEF ClientCalls
  <1>2. message.codec = "none"
    BY <1>1, MessageIs
  <1>3. Queue = jobs
    BY <1>2 DEF Queue
  <1>4. QueueIn(jobs, width, height)
    BY <1>3 DEF PixelsInv
  <1>5. /\ QueueIn(Tail(jobs), width, height) /\ Head(jobs) \in Job /\ Filled(Head(jobs))
        /\ AllowedIn(Head(jobs), width, height)
    BY <1>1, <1>4, QueueTail
  <1>6. Allowed(Head(jobs))
    BY <1>5, AllowedIs
  <1> QED BY <1>1, <1>2, <1>3, <1>5, <1>6

(* An operation is called: PixelsInv is kept. *)
LEMMA CallsInv ==
  ASSUME PixelsInv, ClientCalls
  PROVE  PixelsInv'
  <1> DEFINE j == Head(jobs)
  <1>1. /\ message.codec = "none" /\ Queue = jobs /\ jobs # <<>> /\ Done
        /\ j \in Job /\ Filled(j) /\ AllowedIn(j, width, height) /\ Begin(j)
        /\ QueueIn(Tail(jobs), width, height)
        /\ message' = message /\ jobs' = Tail(jobs)
        /\ inflated' = inflated /\ cursor' = cursor /\ picture' = picture /\ shape' = shape /\ sent' = sent
    BY CallIs
  <1> HIDE DEF j
  <1>2. job' = j /\ width' = width /\ height' = height
    BY <1>1 DEF Begin
  <1>3. IInv
    BY DEF PixelsInv
  <1>4. IInv'
    <2>1. Allowed(j)
      BY <1>1, AllowedIs
    <2>2. job' \in Job /\ Filled(job') /\ Call(job')
      BY <1>1, <1>2, <2>1 DEF Call
    <2> QED BY <1>3, <2>2, CallInv
  <1>5. message'.codec = "none" /\ ~Sizing' /\ ~Sizing
    BY <1>1 DEF Sizing
  <1>6. Queue' = Tail(jobs)
    BY <1>1, <1>5 DEF Queue
  <1>7. MessageInv'
    BY <1>1, <1>5 DEF PixelsInv, MessageInv
  <1>8. QueueIn(Queue, width, height)'
    BY <1>1, <1>2, <1>6
  <1>9. PictureInv'
    BY <1>1, <1>2, <1>5 DEF PixelsInv, PictureInv
  <1>10. CursorInv'
    BY <1>1 DEF PixelsInv, CursorInv
  <1>11. KnownInv'
    <2>1. ~Carries => Known(jobs, picture, Screen, width, height)
      BY <1>1, <1>5 DEF PixelsInv, KnownInv
    <2>2. Redrawn(Screen', j, Screen, width, height)
      BY <1>1, <1>3, CallRedraws
    <2>3. QueueIn(jobs, width, height)
      BY <1>1 DEF PixelsInv
    <2>4. ~Carries => Known(Queue', picture, Screen', width, height)
      BY <1>1, <1>6, <2>1, <2>2, <2>3, CallKnown DEF j
    <2> QED BY <1>1, <1>2, <2>4 DEF KnownInv
  <1> QED BY <1>4, <1>7, <1>8, <1>9, <1>10, <1>11 DEF PixelsInv

(* A row is drawn: PixelsInv is kept. *)
LEMMA DrawsInv ==
  ASSUME PixelsInv, ClientDraws
  PROVE  PixelsInv'
  <1>1. DrawRow /\ message' = message /\ jobs' = jobs /\ inflated' = inflated /\ cursor' = cursor
        /\ picture' = picture /\ shape' = shape /\ sent' = sent
    BY DEF ClientDraws
  <1>2. ~Done /\ UNCHANGED <<width, height, job, before>>
    BY <1>1 DEF DrawRow
  <1>3. message.codec = "none"
    BY <1>2, MessageIs
  <1>4. Queue' = Queue
    BY <1>1, <1>3 DEF Queue
  <1>5. Screen' = Screen /\ width' = width /\ height' = height
    BY <1>2, ScreenKeeps
  <1>6. IInv'
    BY <1>1, DrawRowInv DEF PixelsInv
  <1>7. MessageInv'
    BY <1>1, <1>3 DEF PixelsInv, MessageInv
  <1>8. QueueIn(Queue, width, height)'
    BY <1>4, <1>5 DEF PixelsInv
  <1>9. PictureInv'
    BY <1>1, <1>5 DEF PixelsInv, PictureInv, Sizing
  <1>10. CursorInv'
    BY <1>1 DEF PixelsInv, CursorInv
  <1>11. KnownInv'
    BY <1>1, <1>4, <1>5 DEF PixelsInv, KnownInv, Sizing
  <1> QED BY <1>6, <1>7, <1>8, <1>9, <1>10, <1>11 DEF PixelsInv

(* Nothing happens: PixelsInv is kept. *)
LEMMA StaysInv ==
  ASSUME PixelsInv, UNCHANGED vars
  PROVE  PixelsInv'
  <1>1. UNCHANGED frameVars /\ message' = message /\ jobs' = jobs /\ inflated' = inflated /\ cursor' = cursor
        /\ picture' = picture /\ shape' = shape /\ sent' = sent
    BY DEF vars
  <1>2. Queue' = Queue
    BY <1>1 DEF Queue
  <1>3. IInv' /\ Screen' = Screen /\ (Done' <=> Done) /\ width' = width /\ height' = height
    BY <1>1, FrameKeeps DEF PixelsInv
  <1>4. MessageInv'
    BY <1>1, <1>3 DEF PixelsInv, MessageInv
  <1>5. QueueIn(Queue, width, height)'
    BY <1>2, <1>3 DEF PixelsInv
  <1>6. PictureInv'
    BY <1>1, <1>3 DEF PixelsInv, PictureInv, Sizing
  <1>7. CursorInv'
    BY <1>1 DEF PixelsInv, CursorInv
  <1>8. KnownInv'
    BY <1>1, <1>2, <1>3 DEF PixelsInv, KnownInv, Sizing
  <1> QED BY <1>3, <1>4, <1>5, <1>6, <1>7, <1>8 DEF PixelsInv

(* PixelsInv holds at the start. *)
LEMMA StartsInv ==
  ASSUME Init
  PROVE  PixelsInv
  <1>1. FrameInit /\ message = NoMessage /\ jobs = <<>> /\ inflated = <<>> /\ cursor = NoCursor /\ shape = NoCursor
        /\ picture = data /\ sent = 0
    BY DEF Init
  <1>2. message.codec = "none"
    BY <1>1 DEF NoMessage
  <1>3. ~Sizing /\ message.codec \notin CursorCodecs
    BY <1>2 DEF Sizing, CursorCodecs
  <1>4. Queue = <<>>
    BY <1>1, <1>2 DEF Queue
  <1>5. IInv
    BY <1>1, InitInv
  <1>6. MessageInv
    <2>1. MaxRects \in Nat
      BY PixelsAssumption
    <2> QED BY <1>1, <1>2, <2>1 DEF MessageInv
  <1>7. QueueIn(Queue, width, height)
    BY <1>4, EmptyQueue
  <1>8. PictureInv
    <2>1. data \in [0 .. width * height - 1 -> Nat]
      BY <1>5 DEF IInv, FrameTypeOK
    <2> QED BY <1>1, <1>3, <2>1 DEF PictureInv, Pictures
  <1>9. CursorInv
    BY <1>1, <1>3 DEF CursorInv, ShapeOK, NoCursor
  <1>10. KnownInv
    <2>1. width = 0
      BY <1>1 DEF FrameInit
    <2> QED BY <2>1 DEF KnownInv, Known
  <1> QED BY <1>5, <1>6, <1>7, <1>8, <1>9, <1>10 DEF PixelsInv

(* Every step keeps PixelsInv. *)
LEMMA NextInv ==
  ASSUME PixelsInv, [Next]_vars
  PROVE  PixelsInv'
  BY SendsInv, DecodesInv, CallsInv, DrawsInv, StaysInv DEF Next

(* PixelsInv holds in every behaviour. *)
LEMMA AlwaysInv == Spec => []PixelsInv
  <1>1. PixelsInv /\ [Next]_vars => PixelsInv'
    BY NextInv
  <1> QED BY StartsInv, <1>1, PTL DEF Spec

-----------------------------------------------------------------------------
(* The results. *)

(* PixelsInv has the types. *)
LEMMA TypesHold == PixelsInv => TypeOK
  <1> SUFFICES ASSUME PixelsInv PROVE TypeOK
    OBVIOUS
  <1>1. FrameTypeOK
    BY DEF PixelsInv, IInv
  <1>2. sent \in 0 .. MaxRects /\ inflated \in Seq(Nat)
    BY DEF PixelsInv, MessageInv
  <1>3. jobs \in Seq(Job) /\ \A i \in 1 .. Len(jobs) : Filled(jobs[i])
    <2>1. CASE message.codec = "none"
      <3>1. QueueIn(jobs, width, height)
        BY <2>1 DEF PixelsInv, Queue
      <3> QED BY <3>1 DEF QueueIn
    <2>2. CASE message.codec # "none"
      <3>1. jobs = <<>>
        BY <2>2, MessageIs
      <3> QED BY <3>1
    <2> QED BY <2>1, <2>2
  <1>4. \A j \in ToSet(jobs) : Filled(j)
    BY <1>3 DEF ToSet
  <1>5. picture \in [DOMAIN picture -> Nat \cup {Unknown}]
    <2>1. CASE Sizing
      <3>1. picture = Blank(message.rect.w, message.rect.h)
        BY <2>1 DEF PixelsInv, PictureInv
      <3> QED BY <3>1 DEF Blank
    <2>2. CASE ~Sizing
      <3>1. picture \in Pictures(width, height)
        BY <2>2 DEF PixelsInv, PictureInv
      <3> QED BY <3>1 DEF Pictures
    <2> QED BY <2>1, <2>2
  <1>6. \A c \in {cursor, shape} : c.source \in Seq(Nat) /\ c.mask \in Seq({0, 1})
    BY DEF PixelsInv, CursorInv, ShapeOK
  <1> QED BY <1>1, <1>2, <1>3, <1>4, <1>5, <1>6 DEF TypeOK

(* A step of the codecs is one of the frame buffer, or leaves it alone. *)
LEMMA FrameSteps ==
  ASSUME PixelsInv, [Next]_vars
  PROVE  [FrameNext]_frameVars
  <1>1. CASE ServerSends
    BY <1>1 DEF ServerSends
  <1>2. CASE ClientDecodes
    <2> DEFINE w == message.rect.w
               h == message.rect.h
    <2>1. CASE Sizing /\ Resize(w, h)
      <3>1. w \in Nat /\ h \in Nat
        BY <2>1 DEF PixelsInv, PictureInv
      <3>2. width' = w /\ height' = h
        BY <2>1 DEF Resize
      <3> QED BY <2>1, <3>1, <3>2 DEF FrameNext
    <2>2. CASE UNCHANGED frameVars
      BY <2>2
    <2> QED BY <1>2, <2>1, <2>2 DEF ClientDecodes, Sizing
  <1>3. CASE ClientCalls
    <2>1. Head(jobs) \in Job /\ Filled(Head(jobs)) /\ AllowedIn(Head(jobs), width, height) /\ Begin(Head(jobs))
      BY <1>3, CallIs
    <2>2. Allowed(Head(jobs))
      BY <2>1, AllowedIs
    <2>3. job' = Head(jobs)
      BY <2>1 DEF Begin
    <2>4. job' \in Job /\ Filled(job') /\ Call(job')
      BY <2>1, <2>2, <2>3 DEF Call
    <2> QED BY <2>4 DEF FrameNext
  <1>4. CASE ClientDraws
    BY <1>4 DEF ClientDraws, FrameNext
  <1>5. CASE UNCHANGED vars
    BY <1>5 DEF vars
  <1> QED BY <1>1, <1>2, <1>3, <1>4, <1>5 DEF Next

(* At rest, the frame shows what is known of the picture. *)
LEMMA PictureHolds ==
  ASSUME Carries = FALSE, PixelsInv
  PROVE  PictureDrawn
  <1> SUFFICES ASSUME Idle
               PROVE  /\ inflated = <<>> /\ DOMAIN picture = DOMAIN data
                      /\ \A a \in DOMAIN data : picture[a] \in {data[a], Unknown}
    BY DEF PictureDrawn
  <1>1. IInv /\ inflated = <<>>
    BY DEF PixelsInv, MessageInv
  <1>2. Done
    BY DEF Idle
  <1>3. width \in Nat /\ height \in Nat /\ picture \in Pictures(width, height) /\ data \in [0 .. width * height - 1 -> Nat]
    <2>1. AtIdle
      BY IdleIs
    <2> QED BY <1>1, <2>1 DEF AtIdle, IInv, FrameTypeOK
  <1> DEFINE none == <<>>
  <1>4. Known(none, picture, Screen, width, height)
    BY IdleIs DEF AtIdle
  <1>5. \A i \in 1 .. Len(none) : FALSE
    OBVIOUS
  <1> HIDE DEF none
  <1>6. ASSUME NEW a \in 0 .. width * height - 1 PROVE picture[a] \in {data[a], Unknown}
    <2> DEFINE x == a % width
               y == a \div width
    <2>1. width # 0
      BY <1>3
    <2>2. x \in 0 .. width - 1 /\ y \in 0 .. height - 1 /\ a = y * width + x
      <3>1. a \in Nat
        BY <1>3
      <3> QED BY <1>3, <2>1, <3>1, Split, SplitBelow
    <2> HIDE DEF x, y
    <2>3. Screen[<<x, y>>] = data[a]
      BY <1>1, <1>2, <2>2, AtRest
    <2>4. ASSUME picture[a] # Unknown PROVE picture[a] = data[a]
      <3>1. Leaves(none, Screen, x, y, picture[a])
        BY <1>4, <2>2, <2>4 DEF Known
      <3>2. Screen[<<x, y>>] = picture[a]
        BY <1>5, <3>1 DEF Leaves
      <3> QED BY <2>3, <3>2
    <2> QED BY <2>4
  <1> QED BY <1>1, <1>3, <1>6 DEF Pictures

(* With no message on the way, the cursor is the server's. *)
LEMMA CursorHolds == PixelsInv => CursorDrawn
  <1> SUFFICES ASSUME PixelsInv, message = NoMessage PROVE cursor = shape
    BY DEF CursorDrawn
  <1>1. message.codec \notin CursorCodecs
    BY DEF NoMessage, CursorCodecs
  <1> QED BY <1>1 DEF PixelsInv, CursorInv

(* The operations the codecs ask for have a pixel for each they cover, the
   picture has colours, and the cursor has a mask of bits. *)
THEOREM PixelsTyped == Spec => []TypeOK
  BY AlwaysInv, TypesHold, PTL

(* The codecs use the frame buffer as it may be used: within bounds, each
   operation with its pixels, and one after another.  What is proved of
   FrameSpec holds of them too. *)
THEOREM FrameImplemented == Spec => FrameSpec
  <1>1. Init => FrameInit
    BY DEF Init
  <1>2. PixelsInv /\ [Next]_vars => [FrameNext]_frameVars
    BY FrameSteps
  <1> QED BY AlwaysInv, <1>1, <1>2, PTL DEF Spec, FrameSpec

(* cursor::decode: the cursor handed to the delegate is the server's, pixel
   by pixel, whatever its size and its bitmaps. *)
THEOREM CursorIsDrawn == Spec => []CursorDrawn
  BY AlwaysInv, CursorHolds, PTL

(* Whatever a server sends, in whichever encoding and order, when all is
   drawn the frame shows the picture of the server wherever that is known,
   provided hextiles say their colours (handle_hextile forgets them). *)
THEOREM PictureIsDrawn ==
  ASSUME Carries = FALSE
  PROVE  Spec => []PictureDrawn
  <1>1. PixelsInv => PictureDrawn
    BY PictureHolds
  <1> QED BY AlwaysInv, <1>1, PTL
=============================================================================
