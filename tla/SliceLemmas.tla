---------------------------- MODULE SliceLemmas -----------------------------
(***************************************************************************)
(* Facts about contiguous pieces of a sequence, empty ones included, that  *)
(* the proofs about offsets into a byte stream rest on.                    *)
(***************************************************************************)
EXTENDS Integers, Sequences, SequenceTheorems, TLAPS

(* A piece of a sequence is a sequence over the same set, of that length. *)
LEMMA SliceType ==
  ASSUME NEW S, NEW s \in Seq(S),
         NEW m \in 1 .. Len(s) + 1, NEW n \in m - 1 .. Len(s)
  PROVE  /\ SubSeq(s, m, n) \in Seq(S)
         /\ Len(SubSeq(s, m, n)) = n - m + 1
         /\ \A i \in 1 .. n - m + 1 : SubSeq(s, m, n)[i] = s[m + i - 1]
<1>1. m \in Int /\ n \in Int /\ Len(s) \in Nat
  BY LenProperties
<1>2. \A i \in m .. n : s[i] \in S
  BY <1>1, ElementOfSeq
<1> QED
  BY <1>1, <1>2, SubSeqProperties

(* A piece that lies in the first of two joined sequences is a piece of it. *)
LEMMA SliceOfLeft ==
  ASSUME NEW S, NEW s \in Seq(S), NEW t \in Seq(S),
         NEW m \in 1 .. Len(s) + 1, NEW n \in m - 1 .. Len(s)
  PROVE  SubSeq(s \o t, m, n) = SubSeq(s, m, n)
<1>1. /\ s \o t \in Seq(S) /\ Len(s \o t) = Len(s) + Len(t)
      /\ \A i \in 1 .. Len(s) : (s \o t)[i] = s[i]
  BY ConcatProperties, LenProperties
<1>2. Len(s) \in Nat /\ Len(t) \in Nat
  BY LenProperties
<1>3. /\ SubSeq(s, m, n) \in Seq(S)
      /\ Len(SubSeq(s, m, n)) = n - m + 1
      /\ \A i \in 1 .. n - m + 1 : SubSeq(s, m, n)[i] = s[m + i - 1]
  BY SliceType
<1>4. /\ SubSeq(s \o t, m, n) \in Seq(S)
      /\ Len(SubSeq(s \o t, m, n)) = n - m + 1
      /\ \A i \in 1 .. n - m + 1 : SubSeq(s \o t, m, n)[i] = (s \o t)[m + i - 1]
  BY <1>1, <1>2, SliceType
<1>5. \A i \in 1 .. n - m + 1 : m + i - 1 \in 1 .. Len(s)
  BY <1>2
<1> QED
  BY <1>1, <1>3, <1>4, <1>5, SeqEqual

(* Appending to a sequence extends each of its tails. *)
LEMMA TailOfConcat ==
  ASSUME NEW S, NEW s \in Seq(S), NEW t \in Seq(S),
         NEW m \in 1 .. Len(s) + 1
  PROVE  SubSeq(s, m, Len(s)) \o t = SubSeq(s \o t, m, Len(s \o t))
<1> DEFINE u == SubSeq(s, m, Len(s))
           v == SubSeq(s \o t, m, Len(s \o t))
<1>1. /\ s \o t \in Seq(S) /\ Len(s \o t) = Len(s) + Len(t)
      /\ \A i \in 1 .. Len(s) + Len(t) :
           (s \o t)[i] = IF i <= Len(s) THEN s[i] ELSE t[i - Len(s)]
  BY ConcatProperties
<1>2. Len(s) \in Nat /\ Len(t) \in Nat
  BY LenProperties
<1>3. /\ u \in Seq(S)
      /\ Len(u) = Len(s) - m + 1
      /\ \A i \in 1 .. Len(s) - m + 1 : u[i] = s[m + i - 1]
  BY <1>2, SliceType
<1>4. /\ v \in Seq(S)
      /\ Len(v) = Len(s) + Len(t) - m + 1
      /\ \A i \in 1 .. Len(s) + Len(t) - m + 1 : v[i] = (s \o t)[m + i - 1]
  BY <1>1, <1>2, SliceType
<1>5. /\ u \o t \in Seq(S) /\ Len(u \o t) = Len(u) + Len(t)
      /\ \A i \in 1 .. Len(u) + Len(t) :
           (u \o t)[i] = IF i <= Len(u) THEN u[i] ELSE t[i - Len(u)]
  BY <1>3, ConcatProperties
<1> HIDE DEF u, v
<1>6. Len(u \o t) = Len(v)
  BY <1>2, <1>3, <1>4, <1>5
<1>7. ASSUME NEW i \in 1 .. Len(u \o t)
      PROVE  (u \o t)[i] = v[i]
  <2>1. i \in 1 .. Len(u) + Len(t) /\ i \in 1 .. Len(s) + Len(t) - m + 1
    BY <1>2, <1>3, <1>5
  <2>2. m + i - 1 \in 1 .. Len(s) + Len(t)
    BY <1>2, <2>1
  <2>3. CASE i <= Len(u)
    BY <1>1, <1>2, <1>3, <1>4, <1>5, <2>1, <2>2, <2>3
  <2>4. CASE i > Len(u)
    <3>1. ~(m + i - 1 <= Len(s)) /\ m + i - 1 - Len(s) = i - Len(u)
      BY <1>2, <1>3, <2>1, <2>4
    <3>2. v[i] = t[m + i - 1 - Len(s)]
      BY <1>1, <1>4, <2>1, <2>2, <3>1
    <3>3. (u \o t)[i] = t[i - Len(u)]
      BY <1>2, <1>3, <1>5, <2>1, <2>4
    <3> QED
      BY <3>1, <3>2, <3>3
  <2> QED
    BY <1>2, <1>3, <2>1, <2>3, <2>4
<1>8. u \o t = v
  BY <1>4, <1>5, <1>6, <1>7, SeqEqual
<1> QED
  BY <1>8 DEF u, v

(* A piece of a piece is a piece. *)
LEMMA SliceOfSlice ==
  ASSUME NEW S, NEW s \in Seq(S),
         NEW i \in 1 .. Len(s) + 1, NEW j \in i - 1 .. Len(s),
         NEW m \in 1 .. j - i + 2, NEW n \in m - 1 .. j - i + 1
  PROVE  SubSeq(SubSeq(s, i, j), m, n) = SubSeq(s, i + m - 1, i + n - 1)
<1> DEFINE u == SubSeq(s, i, j)
           v == SubSeq(u, m, n)
           w == SubSeq(s, i + m - 1, i + n - 1)
<1>1. Len(s) \in Nat
  BY LenProperties
<1>2. /\ u \in Seq(S)
      /\ Len(u) = j - i + 1
      /\ \A k \in 1 .. j - i + 1 : u[k] = s[i + k - 1]
  BY SliceType
<1>3. i + m - 1 \in 1 .. Len(s) + 1 /\ i + n - 1 \in (i + m - 1) - 1 .. Len(s)
  BY <1>1
<1>4. /\ w \in Seq(S)
      /\ Len(w) = n - m + 1
      /\ \A k \in 1 .. n - m + 1 : w[k] = s[i + m - 1 + k - 1]
  <2>1. (i + n - 1) - (i + m - 1) + 1 = n - m + 1
    BY <1>1
  <2> QED
    BY <1>3, <2>1, SliceType
<1> HIDE DEF u
<1>5. /\ v \in Seq(S)
      /\ Len(v) = n - m + 1
      /\ \A k \in 1 .. n - m + 1 : v[k] = u[m + k - 1]
  <2>1. m \in 1 .. Len(u) + 1 /\ n \in m - 1 .. Len(u)
    BY <1>1, <1>2
  <2> QED
    BY <1>2, <2>1, SliceType
<1> HIDE DEF v, w
<1>6. ASSUME NEW k \in 1 .. n - m + 1
      PROVE  v[k] = w[k]
  <2>1. m + k - 1 \in 1 .. j - i + 1 /\ i + (m + k - 1) - 1 = i + m - 1 + k - 1
    BY <1>1
  <2>2. u[m + k - 1] = s[i + (m + k - 1) - 1]
    BY <1>2, <2>1
  <2> QED
    BY <1>4, <1>5, <2>1, <2>2
<1>7. v = w
  BY <1>4, <1>5, <1>6, SeqEqual
<1> QED
  BY <1>7 DEF u, v, w

(* Adjacent pieces join. *)
LEMMA SlicesJoin ==
  ASSUME NEW S, NEW s \in Seq(S), NEW k \in 0 .. Len(s), NEW n \in k .. Len(s)
  PROVE  SubSeq(s, 1, k) \o SubSeq(s, k + 1, n) = SubSeq(s, 1, n)
<1>1. Len(s) \in Nat
  BY LenProperties
<1>2. 1 \in 1 .. Len(s) + 1 /\ k \in 1 - 1 .. Len(s)
  BY <1>1
<1> QED
  BY <1>2, ConcatAdjacentSubSeq
----------------------------------------------------------------------------
(* s is the piece of w from offset a up to offset b. *)
IsSlice(w, s, a, b) ==
  /\ a \in Nat /\ b \in Nat /\ a <= b /\ b <= Len(w)
  /\ s = SubSeq(w, a + 1, b)

LEMMA SliceIsSeq ==
  ASSUME NEW S, NEW w \in Seq(S), NEW s, NEW a, NEW b, IsSlice(w, s, a, b)
  PROVE  s \in Seq(S) /\ Len(s) = b - a /\ Len(w) \in Nat
<1> DEFINE i == a + 1
<1>1. Len(w) \in Nat
  BY LenProperties
<1>2. /\ i \in 1 .. Len(w) + 1 /\ b \in i - 1 .. Len(w)
      /\ s = SubSeq(w, i, b) /\ b - i + 1 = b - a
  BY <1>1 DEF IsSlice
<1> HIDE DEF i
<1>3. SubSeq(w, i, b) \in Seq(S) /\ Len(SubSeq(w, i, b)) = b - i + 1
  BY <1>2, SliceType
<1> QED
  BY <1>1, <1>2, <1>3

(* Any offset cuts a slice into two. *)
LEMMA SliceSplits ==
  ASSUME NEW S, NEW w \in Seq(S), NEW s, NEW a, NEW b, IsSlice(w, s, a, b),
         NEW n \in 0 .. b - a
  PROVE  /\ IsSlice(w, SubSeq(s, 1, n), a, a + n)
         /\ IsSlice(w, SubSeq(s, n + 1, Len(s)), a + n, b)
<1> DEFINE i == a + 1
           l == n + 1
           r == b - a
<1>1. /\ Len(w) \in Nat /\ a \in Nat /\ b \in Nat /\ a <= b /\ b <= Len(w)
      /\ Len(s) = b - a /\ s = SubSeq(w, i, b) /\ n \in Nat /\ n <= b - a
  BY SliceIsSeq DEF IsSlice
<1>2. /\ i \in 1 .. Len(w) + 1 /\ b \in i - 1 .. Len(w)
      /\ 1 \in 1 .. b - i + 2 /\ n \in 1 - 1 .. b - i + 1
      /\ l \in 1 .. b - i + 2 /\ r \in l - 1 .. b - i + 1
      /\ i + 1 - 1 = a + 1 /\ i + n - 1 = a + n
      /\ i + l - 1 = a + n + 1 /\ i + r - 1 = b
  BY <1>1
<1>0. SubSeq(s, n + 1, Len(s)) = SubSeq(SubSeq(w, i, b), l, r)
  BY <1>1
<1> HIDE DEF i, l, r
<1>3. SubSeq(SubSeq(w, i, b), 1, n) = SubSeq(w, i + 1 - 1, i + n - 1)
  BY <1>2, SliceOfSlice
<1>4. SubSeq(SubSeq(w, i, b), l, r) = SubSeq(w, i + l - 1, i + r - 1)
  <2>1. /\ i \in 1 .. Len(w) + 1 /\ b \in i - 1 .. Len(w)
        /\ l \in 1 .. b - i + 2 /\ r \in l - 1 .. b - i + 1
    BY <1>2
  <2> QED
    BY <2>1, SliceOfSlice
<1>5. SubSeq(s, 1, n) = SubSeq(w, a + 1, a + n)
  BY <1>1, <1>2, <1>3
<1>6. SubSeq(s, n + 1, Len(s)) = SubSeq(w, a + n + 1, b)
  BY <1>0, <1>2, <1>4
<1> QED
  BY <1>1, <1>5, <1>6 DEF IsSlice

(* Two adjacent slices join. *)
LEMMA SlicesAppend ==
  ASSUME NEW S, NEW w \in Seq(S), NEW s, NEW t, NEW a, NEW b, NEW c,
         IsSlice(w, s, a, b), IsSlice(w, t, b, c)
  PROVE  IsSlice(w, s \o t, a, c)
<1> DEFINE i == a + 1
<1>1. /\ Len(w) \in Nat /\ a \in Nat /\ b \in Nat /\ c \in Nat
      /\ a <= b /\ b <= c /\ c <= Len(w)
      /\ s = SubSeq(w, i, b) /\ t = SubSeq(w, b + 1, c)
  BY SliceIsSeq DEF IsSlice
<1>2. /\ i \in 1 .. Len(w) + 1 /\ b \in i - 1 .. Len(w)
      /\ c \in b .. Len(w)
  BY <1>1
<1> HIDE DEF i
<1>3. SubSeq(w, i, b) \o SubSeq(w, b + 1, c) = SubSeq(w, i, c)
  BY <1>2, ConcatAdjacentSubSeq
<1>4. s \o t = SubSeq(w, i, c)
  BY <1>1, <1>3
<1> QED
  BY <1>1, <1>4 DEF IsSlice, i

LEMMA EmptySlice ==
  ASSUME NEW S, NEW w \in Seq(S), NEW a \in Nat, a <= Len(w)
  PROVE  IsSlice(w, <<>>, a, a)
<1>1. SubSeq(w, a + 1, a) = <<>>
  BY SubSeqEmpty
<1> QED
  BY <1>1 DEF IsSlice

(* A slice of a sequence is one of its extensions too. *)
LEMMA SliceKept ==
  ASSUME NEW S, NEW w \in Seq(S), NEW p \in Seq(S),
         NEW s, NEW a, NEW b, IsSlice(w, s, a, b)
  PROVE  IsSlice(w \o p, s, a, b)
<1>1. Len(w) \in Nat /\ Len(p) \in Nat /\ Len(w \o p) = Len(w) + Len(p)
  BY LenProperties, ConcatProperties
<1>2. a + 1 \in 1 .. Len(w) + 1 /\ b \in a + 1 - 1 .. Len(w)
  BY <1>1 DEF IsSlice
<1>3. SubSeq(w \o p, a + 1, b) = SubSeq(w, a + 1, b)
  BY <1>2, SliceOfLeft
<1> QED
  BY <1>1, <1>3 DEF IsSlice
============================================================================
