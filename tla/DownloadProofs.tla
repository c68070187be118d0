--------------------------- MODULE DownloadProofs ----------------------------
(***************************************************************************)
(* Proofs about the download path for every byte set, write, window,       *)
(* bound, number of GETs, copy buffer and network capacity.                *)
(***************************************************************************)
EXTENDS Download, SliceLemmas

(***************************************************************************)
(* The replay buffer.  The conjunction below is inductive: ContentExact    *)
(* needs WindowExact, since dropping bytes keeps the tail only if no more  *)
(* bytes are dropped than the buffer holds, and WindowExact needs the      *)
(* length that ContentExact gives the buffer.                              *)
(***************************************************************************)

BufInv == BufTypeOK /\ ContentExact /\ WindowExact

(* The length of the buffer and its end, in terms of the history. *)
LEMMA BufLength ==
  ASSUME BufInv
  PROVE  /\ Len(log) \in Nat
         /\ discarded \in 0 .. Len(log)
         /\ delivered \in 0 .. Len(log)
         /\ discarded <= delivered
         /\ delivered <= discarded + MaxRetain
         /\ Len(buf) = Len(log) - discarded
         /\ End = Len(log)
<1>1. Len(log) \in Nat /\ discarded \in Nat /\ delivered \in Nat
  BY LenProperties DEF BufInv, BufTypeOK
<1>2. /\ discarded \in 0 .. Len(log) /\ delivered \in 0 .. Len(log)
      /\ discarded <= delivered /\ delivered <= discarded + MaxRetain
  BY <1>1, RetainAssumption DEF BufInv, WindowExact
<1>3. discarded + 1 \in 1 .. Len(log) + 1 /\ Len(log) \in discarded .. Len(log)
  BY <1>1, <1>2
<1>4. Len(buf) = Len(log) - discarded
  BY <1>1, <1>2, <1>3, SliceType DEF BufInv, BufTypeOK, ContentExact
<1> QED
  BY <1>1, <1>2, <1>4 DEF End

(* Compaction with the watermark that is already reflected in the floor has  *)
(* nothing to drop: the branch in Write never fires.                         *)
LEMMA WriteNeverCompacts ==
  ASSUME BufInv, NEW b
  PROVE  ~Droppable(b, delivered)
<1> QED
  BY BufLength, RetainAssumption DEF BufInv, WindowExact, Droppable

(* Compaction to a higher watermark within the stream drops exactly up to    *)
(* the new replay window and keeps the rest of the tail.                     *)
LEMMA CompactKeepsTail ==
  ASSUME BufInv, NEW d \in delivered .. Len(log), CompactLocked(buf, d)
  PROVE  /\ buf' \in Seq(Byte)
         /\ discarded' \in 0 .. d
         /\ discarded' = (IF d > MaxRetain THEN d - MaxRetain ELSE 0)
         /\ buf' = SubSeq(log, discarded' + 1, Len(log))
<1>0. /\ buf \in Seq(Byte) /\ log \in Seq(Byte)
      /\ buf = SubSeq(log, discarded + 1, Len(log))
  BY DEF BufInv, BufTypeOK, ContentExact
<1>1. /\ Len(log) \in Nat /\ discarded \in Nat /\ delivered \in Nat
      /\ delivered <= Len(log) /\ discarded <= delivered
      /\ Len(buf) = Len(log) - discarded
      /\ MaxRetain \in Nat /\ MaxRetain > 0
      /\ d \in Nat /\ delivered <= d /\ d <= Len(log)
      /\ delivered > MaxRetain => discarded = delivered - MaxRetain
      /\ ~(delivered > MaxRetain) => discarded = 0
  BY BufLength, RetainAssumption DEF BufInv, WindowExact
<1>2. CASE Droppable(buf, d)
  <2>1. /\ buf' = SubSeq(buf, d - MaxRetain - discarded + 1, Len(buf))
        /\ discarded' = d - MaxRetain
        /\ d - MaxRetain > discarded
    BY <1>2 DEF CompactLocked, Droppable
  <2>a. discarded' \in 0 .. d /\ discarded' = IF d > MaxRetain THEN d - MaxRetain ELSE 0
    BY <1>1, <2>1
  <2> DEFINE i == discarded + 1
             j == Len(log)
             m == d - MaxRetain - discarded + 1
             n == Len(log) - discarded
  <2>2. /\ i \in 1 .. Len(log) + 1 /\ j \in i - 1 .. Len(log)
        /\ m \in 1 .. j - i + 2 /\ n \in m - 1 .. j - i + 1
    BY <1>1, <2>1
  <2>3. i + m - 1 = discarded' + 1 /\ i + n - 1 = Len(log)
    BY <1>1, <2>1
  <2>4. buf' = SubSeq(SubSeq(log, i, j), m, n)
    BY <1>0, <1>1, <2>1
  <2> HIDE DEF i, j, m, n
  <2>5. SubSeq(SubSeq(log, i, j), m, n) = SubSeq(log, i + m - 1, i + n - 1)
    BY <1>0, <2>2, SliceOfSlice
  <2>6. buf' = SubSeq(log, discarded' + 1, Len(log))
    BY <2>3, <2>4, <2>5
  <2>7. discarded' + 1 \in 1 .. Len(log) + 1 /\ Len(log) \in discarded' + 1 - 1 .. Len(log)
    BY <1>1, <2>1
  <2>8. buf' \in Seq(Byte)
    BY <1>0, <2>6, <2>7, SliceType
  <2> QED
    BY <2>a, <2>6, <2>8
<1>3. CASE ~Droppable(buf, d)
  <2>1. buf' = buf /\ discarded' = discarded
    BY <1>3 DEF CompactLocked
  <2>2. ~(d - MaxRetain > discarded)
    BY <1>1, <1>3 DEF Droppable
  <2>3. discarded = IF d > MaxRetain THEN d - MaxRetain ELSE 0
    BY <1>1, <2>2
  <2>4. discarded \in 0 .. d
    BY <1>1
  <2> QED
    BY <1>0, <2>1, <2>3, <2>4
<1> QED
  BY <1>2, <1>3

(* Each operation preserves the invariant, whoever calls it and when. *)
LEMMA WritePreserves ==
  ASSUME BufInv, NEW p \in Seq(Byte), Write(p)
  PROVE  BufInv' /\ buf' = buf \o p /\ discarded' = discarded
<1>0. /\ buf \in Seq(Byte) /\ log \in Seq(Byte)
      /\ buf = SubSeq(log, discarded + 1, Len(log))
  BY DEF BufInv, BufTypeOK, ContentExact
<1>1. Len(log) \in Nat /\ discarded \in 0 .. Len(log)
  BY BufLength
<1>2. buf' = buf \o p /\ discarded' = discarded
  <2>1. ~Droppable(buf \o p, delivered)
    BY WriteNeverCompacts
  <2> QED
    BY <2>1 DEF Write, CompactLocked
<1>3. log' = log \o p /\ delivered' = delivered /\ done' = done /\ notify' = TRUE
  BY DEF Write
<1>4. /\ log' \in Seq(Byte) /\ buf' \in Seq(Byte)
      /\ Len(log') = Len(log) + Len(p) /\ Len(p) \in Nat
  BY <1>0, <1>2, <1>3, ConcatProperties, LenProperties
<1>5. BufTypeOK'
  BY <1>2, <1>3, <1>4 DEF BufInv, BufTypeOK
<1>6. ContentExact'
  <2>1. discarded + 1 \in 1 .. Len(log) + 1
    BY <1>1
  <2>2. SubSeq(log, discarded + 1, Len(log)) \o p
          = SubSeq(log \o p, discarded + 1, Len(log \o p))
    BY <1>0, <2>1, TailOfConcat
  <2> QED
    BY <1>0, <1>2, <1>3, <2>2 DEF ContentExact
<1>7. WindowExact'
  BY <1>1, <1>2, <1>3, <1>4 DEF BufInv, BufTypeOK, WindowExact
<1> QED
  BY <1>2, <1>5, <1>6, <1>7 DEF BufInv

LEMMA AdvancePreserves ==
  ASSUME BufInv, NEW from \in Nat, Advance(from)
  PROVE  /\ BufInv'
         /\ delivered' = delivered \/ delivered' = (IF from > Len(log) THEN Len(log) ELSE from)
         /\ delivered' >= delivered /\ discarded' >= discarded
         /\ UNCHANGED <<done, notify, log>>
<1> DEFINE d == IF from > End THEN End ELSE from
<1>1. /\ Len(log) \in Nat /\ End = Len(log)
      /\ discarded \in 0 .. Len(log) /\ delivered \in 0 .. Len(log)
  BY BufLength
<1>2. UNCHANGED <<done, notify, log>>
  BY DEF Advance
<1>3. CASE d <= delivered
  <2>1. UNCHANGED <<buf, discarded, delivered>>
    BY <1>3 DEF Advance
  <2>2. BufInv'
    BY <1>2, <2>1 DEF BufInv, BufTypeOK, ContentExact, WindowExact
  <2> QED
    BY <1>1, <1>2, <2>1, <2>2
<1>4. CASE ~(d <= delivered)
  <2>1. d \in delivered .. Len(log) /\ d = IF from > Len(log) THEN Len(log) ELSE from
    BY <1>1, <1>4
  <2>2. delivered' = d /\ CompactLocked(buf, d)
    BY <1>4 DEF Advance
  <2> HIDE DEF d
  <2>3. /\ buf' \in Seq(Byte) /\ discarded' \in 0 .. d
        /\ discarded' = IF d > MaxRetain THEN d - MaxRetain ELSE 0
        /\ buf' = SubSeq(log, discarded' + 1, Len(log))
    BY <2>1, <2>2, CompactKeepsTail
  <2>4. BufTypeOK'
    BY <1>1, <1>2, <2>1, <2>2, <2>3 DEF BufInv, BufTypeOK
  <2>5. ContentExact' /\ WindowExact'
    BY <1>1, <1>2, <2>1, <2>2, <2>3 DEF ContentExact, WindowExact
  <2>6. discarded' >= discarded /\ delivered' >= delivered
    BY <1>1, <2>1, <2>2, <2>3, RetainAssumption DEF BufInv, WindowExact
  <2> QED
    BY <1>2, <2>1, <2>2, <2>4, <2>5, <2>6 DEF BufInv
<1> QED
  BY <1>3, <1>4

LEMMA OthersPreserve ==
  ASSUME BufInv, Close \/ TakeToken \/ UNCHANGED bufVars
  PROVE  /\ BufInv'
         /\ UNCHANGED <<buf, discarded, delivered, log>>
<1> QED
  BY DEF BufInv, BufTypeOK, ContentExact, WindowExact, Close, TakeToken, bufVars

LEMMA BufInitInv == ASSUME BufInit PROVE BufInv
<1>1. buf = <<>> /\ log = <<>> /\ discarded = 0 /\ delivered = 0
  BY DEF BufInit
<1>2. SubSeq(log, 1, Len(log)) = <<>> /\ <<>> \in Seq(Byte) /\ Len(log) = 0
  BY <1>1, EmptySeq, SubSeqEmpty
<1>3. BufTypeOK
  <2>1. buf \in Seq(Byte) /\ log \in Seq(Byte)
    BY <1>1, EmptySeq
  <2> QED
    BY <2>1 DEF BufTypeOK, BufInit
<1>4. ContentExact
  BY <1>1, <1>2 DEF ContentExact
<1>5. WindowExact
  BY <1>1, <1>2, RetainAssumption DEF WindowExact
<1> QED
  BY <1>3, <1>4, <1>5 DEF BufInv

LEMMA BufStep == ASSUME BufInv, [BufNext]_bufVars PROVE BufInv'
<1>1. ASSUME NEW p \in Chunk, Write(p) PROVE BufInv'
  BY <1>1, ChunkAssumption, WritePreserves
<1>2. ASSUME NEW from \in 0 .. MaxLog + 1, Advance(from) PROVE BufInv'
  BY <1>2, MaxLogAssumption, AdvancePreserves
<1>3. CASE Close \/ TakeToken \/ UNCHANGED bufVars
  BY <1>3, OthersPreserve
<1> QED
  BY <1>1, <1>2, <1>3 DEF BufNext

(* Under any sequence of calls the buffer is the exact tail of the stream    *)
(* behind the floor, and the floor is exactly the replay window behind the   *)
(* acknowledged watermark.                                                   *)
THEOREM BufferCorrect == BufSpec => [](BufTypeOK /\ ContentExact /\ WindowExact)
<1>1. BufInit => BufInv
  BY BufInitInv
<1>2. BufInv /\ [BufNext]_bufVars => BufInv'
  BY BufStep
<1> QED
  BY <1>1, <1>2, PTL DEF BufSpec, BufInv

(* Offsets, watermarks and history only grow, and nothing is written after   *)
(* Close.                                                                    *)
THEOREM BufferMonotone == BufSpec => Monotone
<1> DEFINE A == /\ delivered' >= delivered
                /\ discarded' >= discarded
                /\ done => done' /\ log' = log
<1>1. BufInit => BufInv
  BY BufInitInv
<1>2. BufInv /\ [BufNext]_bufVars => BufInv'
  BY BufStep
<1>3. BufInv /\ [BufNext]_bufVars => [A]_bufVars
  <2> SUFFICES ASSUME BufInv, BufNext PROVE A
    OBVIOUS
  <2>0. discarded \in Nat /\ delivered \in Nat
    BY DEF BufInv, BufTypeOK
  <2>1. ASSUME NEW p \in Chunk, Write(p) PROVE A
    <3>1. discarded' = discarded
      BY <2>1, ChunkAssumption, WritePreserves
    <3> QED
      BY <2>0, <2>1, <3>1 DEF Write
  <2>2. ASSUME NEW from \in 0 .. MaxLog + 1, Advance(from) PROVE A
    BY <2>2, MaxLogAssumption, AdvancePreserves
  <2>3. CASE Close \/ TakeToken
    BY <2>0, <2>3 DEF Close, TakeToken
  <2> QED
    BY <2>1, <2>2, <2>3 DEF BufNext
<1> QED
  BY <1>1, <1>2, <1>3, PTL DEF BufSpec, Monotone

----------------------------------------------------------------------------
(***************************************************************************)
(* The requests.  The invariant accounts for every byte a request has in   *)
(* hand: what its response still holds and what its handler has yet to     *)
(* write are adjacent pieces of the stream that end at the handler's       *)
(* offset, and they start no further than the client has read -- exactly   *)
(* there for the request the client is reading.                            *)
(***************************************************************************)

(* s is the piece of the stream from offset a up to offset b. *)
Piece(s, a, b) ==
  /\ a \in Nat /\ b \in Nat /\ a <= b /\ b <= Len(log)
  /\ s = SubSeq(log, a + 1, b)

Written(g) == off[g] - Len(chunk[g])
Base(g) == Written(g) - Len(wire[g])

Accounted(g) ==
  /\ Piece(wire[g], Base(g), Written(g))
  /\ Piece(chunk[g], Written(g), off[g])
  /\ Len(wire[g]) <= Cap
  /\ Base(g) <= Len(received)
  /\ body = g => Base(g) = Len(received)

(* Nothing is in hand before a request starts and between two reads. *)
EmptyHanded(g) ==
  /\ pc[g] = "idle" => wire[g] = <<>>
  /\ pc[g] \in {"idle", "read", "ack", "wait"} => chunk[g] = <<>>

(* The readers never acknowledge more than a response can hold ahead of what *)
(* the client has read: what makes a resume possible.                        *)
BoundedLead == delivered <= Len(received) + Cap

Inv ==
  /\ TypeOK
  /\ BufInv
  /\ Piece(received, 0, Len(received))
  /\ BoundedLead
  /\ \A g \in Gets : Accounted(g) /\ EmptyHanded(g)

----------------------------------------------------------------------------
(* Facts about pieces of the stream. *)
LEMMA PieceType ==
  ASSUME log \in Seq(Byte), NEW s, NEW a, NEW b, Piece(s, a, b)
  PROVE  s \in Seq(Byte) /\ Len(s) = b - a /\ Len(log) \in Nat
<1>1. IsSlice(log, s, a, b)
  BY DEF Piece, IsSlice
<1> QED
  BY <1>1, SliceIsSeq

LEMMA PieceGrows ==
  ASSUME log \in Seq(Byte), NEW p \in Seq(Byte), log' = log \o p,
         NEW s, NEW a, NEW b, Piece(s, a, b)
  PROVE  /\ b <= Len(log')
         /\ s = SubSeq(log', a + 1, b)
<1>1. IsSlice(log, s, a, b)
  BY DEF Piece, IsSlice
<1>2. IsSlice(log \o p, s, a, b)
  BY <1>1, SliceKept
<1> QED
  BY <1>2 DEF IsSlice

LEMMA PieceSplits ==
  ASSUME log \in Seq(Byte), NEW s, NEW a, NEW b, Piece(s, a, b),
         NEW n \in 0 .. b - a
  PROVE  /\ Piece(SubSeq(s, 1, n), a, a + n)
         /\ Piece(SubSeq(s, n + 1, Len(s)), a + n, b)
<1>1. IsSlice(log, s, a, b)
  BY DEF Piece, IsSlice
<1>2. /\ IsSlice(log, SubSeq(s, 1, n), a, a + n)
      /\ IsSlice(log, SubSeq(s, n + 1, Len(s)), a + n, b)
  BY <1>1, SliceSplits
<1> QED
  BY <1>2 DEF Piece, IsSlice

LEMMA PiecesJoin ==
  ASSUME log \in Seq(Byte), NEW s, NEW t, NEW a, NEW b, NEW c,
         Piece(s, a, b), Piece(t, b, c)
  PROVE  Piece(s \o t, a, c)
<1>1. IsSlice(log, s, a, b) /\ IsSlice(log, t, b, c)
  BY DEF Piece, IsSlice
<1>2. IsSlice(log, s \o t, a, c)
  BY <1>1, SlicesAppend
<1> QED
  BY <1>2 DEF Piece, IsSlice

LEMMA EmptyPiece ==
  ASSUME log \in Seq(Byte), NEW a \in Nat, a <= Len(log)
  PROVE  Piece(<<>>, a, a)
<1>1. IsSlice(log, <<>>, a, a)
  BY EmptySlice
<1> QED
  BY <1>1 DEF Piece, IsSlice

(* What ReadFrom returns at an offset the buffer answers for. *)
LEMMA ReadFromExact ==
  ASSUME BufInv, NEW o \in Nat, NEW n \in Nat \ {0}, Available(o)
  PROVE  \E k \in 1 .. n : Piece(ReadFrom(o, n), o, o + k)
<1>1. /\ log \in Seq(Byte) /\ discarded \in Nat /\ Len(log) \in Nat
      /\ discarded <= Len(log) /\ End = Len(log)
      /\ Len(buf) = Len(log) - discarded
  BY BufLength DEF BufInv, BufTypeOK
<1>2. Piece(buf, discarded, Len(log))
  BY <1>1 DEF Piece, BufInv, ContentExact
<1>3. o \in Nat /\ discarded <= o /\ o < Len(log)
  BY <1>1 DEF Available, TooOld
<1> DEFINE k == IF o + n < Len(log) THEN n ELSE Len(log) - o
           m == o - discarded
           t == SubSeq(buf, m + 1, Len(buf))
<1>4. k \in 1 .. n /\ k \in 0 .. Len(log) - o /\ m \in 0 .. Len(log) - discarded
      /\ discarded + m = o
  BY <1>1, <1>3
<1>5. Piece(t, o, Len(log))
  BY <1>1, <1>2, <1>4, PieceSplits
<1>6. Piece(SubSeq(t, 1, k), o, o + k)
  BY <1>1, <1>4, <1>5, PieceSplits
<1>7. ReadFrom(o, n) = SubSeq(t, 1, k)
  <2>1. ReadFrom(o, n) = SubSeq(buf, m + 1, m + k)
    BY <1>1, <1>3 DEF ReadFrom
  <2>a. m \in Nat /\ k \in Nat /\ m + k <= Len(buf) /\ buf \in Seq(Byte)
    <3>1. m \in Nat /\ k \in Nat /\ m + k <= Len(buf)
      BY <1>1, <1>3
    <3> QED
      BY <3>1 DEF BufInv, BufTypeOK
  <2> HIDE DEF k, m
  <2> DEFINE j == m + 1
  <2>2. /\ j \in 1 .. Len(buf) + 1 /\ Len(buf) \in j - 1 .. Len(buf)
        /\ 1 \in 1 .. Len(buf) - j + 2 /\ k \in 1 - 1 .. Len(buf) - j + 1
        /\ j + 1 - 1 = m + 1 /\ j + k - 1 = m + k
    BY <1>1, <2>a
  <2> HIDE DEF j
  <2>3. SubSeq(SubSeq(buf, j, Len(buf)), 1, k) = SubSeq(buf, j + 1 - 1, j + k - 1)
    BY <2>a, <2>2, SliceOfSlice
  <2> QED
    BY <2>1, <2>2, <2>3 DEF j
<1> QED
  BY <1>4, <1>6, <1>7

----------------------------------------------------------------------------
(* Types of what the accounting is about. *)
LEMMA InvTypes ==
  ASSUME Inv
  PROVE  /\ log \in Seq(Byte) /\ Len(log) \in Nat
         /\ received \in Seq(Byte) /\ Len(received) \in Nat
         /\ Len(received) <= Len(log)
         /\ Cap \in Nat \ {0} /\ BufSize \in Nat \ {0}
         /\ delivered \in Nat
         /\ \A g \in Gets : /\ off[g] \in Nat /\ off[g] <= Len(log)
                           /\ chunk[g] \in Seq(Byte) /\ Len(chunk[g]) \in Nat
                           /\ wire[g] \in Seq(Byte) /\ Len(wire[g]) \in Nat
<1>1. /\ log \in Seq(Byte) /\ received \in Seq(Byte) /\ delivered \in Nat
      /\ \A g \in Gets : /\ off[g] \in Nat /\ chunk[g] \in Seq(Byte)
                        /\ wire[g] \in Seq(Byte)
  BY DEF Inv, TypeOK, BufTypeOK
<1>2. /\ Len(received) <= Len(log)
      /\ \A g \in Gets : off[g] <= Len(log)
  BY DEF Inv, Accounted, Piece
<1> QED
  BY <1>1, <1>2, LenProperties, CapAssumption, BufSizeAssumption

(* A step that leaves a request alone, lets the stream grow and the client   *)
(* read on (from another request) keeps the request accounted for.           *)
LEMMA Frame ==
  ASSUME Inv, NEW g \in Gets,
         off'[g] = off[g], chunk'[g] = chunk[g], wire'[g] = wire[g],
         log' = log \/ \E p \in Seq(Byte) : log' = log \o p,
         Len(received') \in Nat, Len(received) <= Len(received'),
         body' = g => body = g /\ received' = received
  PROVE  Accounted(g)'
<1>1. log \in Seq(Byte)
  BY InvTypes
<1>2. ASSUME NEW s, NEW a, NEW b, Piece(s, a, b)
      PROVE  b <= Len(log') /\ s = SubSeq(log', a + 1, b)
  <2>1. CASE log' = log
    BY <1>2, <2>1 DEF Piece
  <2>2. CASE \E p \in Seq(Byte) : log' = log \o p
    BY <1>1, <1>2, <2>2, PieceGrows
  <2> QED
    BY <2>1, <2>2
<1>3. Accounted(g)
  BY DEF Inv
<1>4. Written(g)' = Written(g) /\ Base(g)' = Base(g)
  BY DEF Written, Base
<1>5. Piece(wire[g], Base(g), Written(g))'
  <2>1. Piece(wire[g], Base(g), Written(g))
    BY <1>3 DEF Accounted
  <2>2. Written(g) <= Len(log') /\ wire[g] = SubSeq(log', Base(g) + 1, Written(g))
    BY <1>2, <2>1
  <2> QED
    BY <1>4, <2>1, <2>2 DEF Piece
<1>6. Piece(chunk[g], Written(g), off[g])'
  <2>1. Piece(chunk[g], Written(g), off[g])
    BY <1>3 DEF Accounted
  <2>2. off[g] <= Len(log') /\ chunk[g] = SubSeq(log', Written(g) + 1, off[g])
    BY <1>2, <2>1
  <2> QED
    BY <1>4, <2>1, <2>2 DEF Piece
<1>7. Base(g)' <= Len(received')
  <2>1. Base(g) <= Len(received) /\ Base(g) \in Nat /\ Len(received) \in Nat
    BY <1>3, InvTypes DEF Accounted, Piece
  <2> QED
    BY <1>4, <2>1
<1>8. Len(wire'[g]) <= Cap /\ (body' = g => Base(g)' = Len(received'))
  BY <1>3, <1>4 DEF Accounted
<1> QED
  BY <1>5, <1>6, <1>7, <1>8 DEF Accounted

(* The stream and its read prefix under a step of the relay or of nobody.    *)
LEMMA PrefixFrame ==
  ASSUME Inv, received' = received,
         log' = log \/ \E p \in Seq(Byte) : log' = log \o p
  PROVE  Piece(received, 0, Len(received))'
<1>1. log \in Seq(Byte) /\ Piece(received, 0, Len(received))
  BY InvTypes DEF Inv
<1>2. CASE log' = log
  BY <1>1, <1>2 DEF Piece
<1>3. CASE \E p \in Seq(Byte) : log' = log \o p
  BY <1>1, <1>3, PieceGrows DEF Piece
<1> QED
  BY <1>2, <1>3

----------------------------------------------------------------------------
(* One lemma per action. *)
LEMMA RelayWriteInv == ASSUME Inv, RelayWrite PROVE Inv'
<1>1. PICK p \in Chunk : Write(p)
  BY DEF RelayWrite
<1>2. p \in Seq(Byte)
  BY ChunkAssumption
<1>3. UNCHANGED <<pc, off, chunk, wire, link, body, received>>
  BY DEF RelayWrite, handlerVars, netVars, clientVars
<1>4. BufInv' /\ log' = log \o p /\ delivered' = delivered
  BY <1>1, <1>2, WritePreserves DEF Inv, Write
<1>5. TypeOK'
  BY <1>3, <1>4 DEF Inv, TypeOK, BufInv
<1>6. Piece(received, 0, Len(received))'
  BY <1>2, <1>3, <1>4, PrefixFrame
<1>7. ASSUME NEW g \in Gets PROVE Accounted(g)'
  <2>1. Len(received') \in Nat /\ Len(received) <= Len(received')
    BY <1>3, InvTypes
  <2>2. /\ off'[g] = off[g] /\ chunk'[g] = chunk[g] /\ wire'[g] = wire[g]
        /\ body' = g => body = g /\ received' = received
        /\ \E q \in Seq(Byte) : log' = log \o q
    BY <1>2, <1>3, <1>4
  <2> QED
    BY <2>1, <2>2, Frame
<1>8. BoundedLead' /\ \A g \in Gets : EmptyHanded(g)'
  BY <1>3, <1>4 DEF Inv, BoundedLead, EmptyHanded
<1> QED
  BY <1>4, <1>5, <1>6, <1>7, <1>8 DEF Inv

LEMMA QuietInv ==
  ASSUME Inv, RelayClose \/ ClientEOF \/ UNCHANGED vars \/ \E g \in Gets : Cut(g)
  PROVE  Inv'
<1>1. /\ UNCHANGED <<pc, off, chunk, wire, received, log, delivered>>
      /\ body' \in {body, NoGet}
      /\ BufInv'
  <2>1. CASE RelayClose
    BY <2>1, OthersPreserve DEF Inv, RelayClose, Close, handlerVars, netVars, clientVars
  <2>2. CASE ClientEOF \/ UNCHANGED vars \/ \E g \in Gets : Cut(g)
    <3>1. UNCHANGED bufVars
      BY <2>2 DEF ClientEOF, vars, Cut
    <3>2. BufInv'
      BY <3>1, OthersPreserve DEF Inv
    <3> QED
      BY <2>2, <3>1, <3>2 DEF ClientEOF, vars, Cut, bufVars, handlerVars, netVars, clientVars
  <2> QED
    BY <2>1, <2>2
<1>2. TypeOK'
  <2>1. link' \in [Gets -> {"none", "up", "cut"}]
    BY DEF Inv, TypeOK, RelayClose, ClientEOF, vars, Cut, netVars
  <2>2. body' \in Gets \cup {NoGet}
    BY <1>1 DEF Inv, TypeOK
  <2> QED
    BY <1>1, <2>1, <2>2 DEF Inv, TypeOK, BufInv
<1>3. Piece(received, 0, Len(received))'
  BY <1>1, PrefixFrame
<1>4. \A g \in Gets : Accounted(g)'
  BY <1>1, NoGetAssumption, Frame, InvTypes
<1>5. BoundedLead' /\ \A g \in Gets : EmptyHanded(g)'
  BY <1>1 DEF Inv, BoundedLead, EmptyHanded
<1> QED
  BY <1>1, <1>2, <1>3, <1>4, <1>5 DEF Inv

(* Any other request during a step of g that leaves stream and reader alone. *)
LEMMA OthersAccounted ==
  ASSUME Inv, NEW g \in Gets, UNCHANGED <<log, received>>,
         body' = body \/ body' = g,
         \A h \in Gets \ {g} : /\ off'[h] = off[h] /\ chunk'[h] = chunk[h]
                              /\ wire'[h] = wire[h]
  PROVE  \A h \in Gets \ {g} : Accounted(h)'
<1> SUFFICES ASSUME NEW h \in Gets \ {g} PROVE Accounted(h)'
  OBVIOUS
<1>1. Len(received') \in Nat /\ Len(received) <= Len(received')
  BY InvTypes
<1> QED
  BY <1>1, Frame

LEMMA StartDownloadInv ==
  ASSUME Inv, NEW g \in Gets, StartDownload(g) PROVE Inv'
<1>1. /\ pc[g] = "idle" /\ pc' = [pc EXCEPT ![g] = "read"]
      /\ off' = [off EXCEPT ![g] = Len(received)]
      /\ body' = g /\ link' = [link EXCEPT ![g] = "up"]
      /\ UNCHANGED <<bufVars, chunk, wire, received>>
  BY DEF StartDownload
<1>2. /\ wire[g] = <<>> /\ chunk[g] = <<>>
      /\ Len(received) \in Nat /\ Len(received) <= Len(log) /\ log \in Seq(Byte)
  BY <1>1, InvTypes DEF Inv, EmptyHanded
<1>3. BufInv' /\ log' = log /\ delivered' = delivered
  BY <1>1, OthersPreserve DEF Inv
<1>4. TypeOK'
  BY <1>1, <1>2, <1>3 DEF Inv, TypeOK, BufInv
<1>5. Accounted(g)'
  <2>1. /\ off'[g] = Len(received) /\ wire'[g] = <<>> /\ chunk'[g] = <<>>
        /\ Len(<<>>) = 0
    BY <1>1, <1>2 DEF Inv, TypeOK
  <2>2. Written(g)' = Len(received) /\ Base(g)' = Len(received)
    BY <1>2, <2>1 DEF Written, Base
  <2>3. Piece(<<>>, Len(received), Len(received))
    BY <1>2, EmptyPiece
  <2>4. Piece(wire[g], Base(g), Written(g))' /\ Piece(chunk[g], Written(g), off[g])'
    BY <1>3, <2>1, <2>2, <2>3 DEF Piece
  <2> QED
    BY <1>1, <1>2, <2>1, <2>2, <2>4, CapAssumption DEF Accounted
<1>6. \A h \in Gets \ {g} : Accounted(h)'
  BY <1>1, <1>3, OthersAccounted DEF Inv, TypeOK
<1>7. Piece(received, 0, Len(received))'
  BY <1>1, <1>3, PrefixFrame
<1>8. BoundedLead' /\ \A h \in Gets : EmptyHanded(h)'
  BY <1>1, <1>2, <1>3 DEF Inv, TypeOK, BoundedLead, EmptyHanded
<1> QED
  BY <1>3, <1>4, <1>5, <1>6, <1>7, <1>8 DEF Inv

(* A step that only moves a handler's pc between places where it holds no    *)
(* chunk, or to its end.                                                     *)
LEMMA PcStepInv ==
  ASSUME Inv, NEW g \in Gets,
         \/ HandlerWriteFails(g) \/ HandlerWake(g) \/ HandlerCancel(g)
  PROVE  Inv'
<1>1. /\ pc[g] # "idle" /\ UNCHANGED <<off, chunk, wire, link, body, received>>
      /\ \/ pc' = [pc EXCEPT ![g] = "returned"]
         \/ pc[g] = "wait" /\ pc' = [pc EXCEPT ![g] = "read"]
  BY DEF HandlerWriteFails, HandlerWake, HandlerCancel, netVars, clientVars
<1>2. BufInv' /\ log' = log /\ delivered' = delivered
  BY OthersPreserve DEF Inv, HandlerWriteFails, HandlerWake, HandlerCancel
<1>3. TypeOK'
  BY <1>1, <1>2 DEF Inv, TypeOK, BufInv
<1>4. Piece(received, 0, Len(received))'
  BY <1>1, <1>2, PrefixFrame
<1>5. ASSUME NEW h \in Gets PROVE Accounted(h)'
  <2>1. Len(received') \in Nat /\ Len(received) <= Len(received')
    BY <1>1, InvTypes
  <2> QED
    BY <1>1, <1>2, <2>1, Frame
<1>6. BoundedLead' /\ \A h \in Gets : EmptyHanded(h)'
  BY <1>1, <1>2 DEF Inv, TypeOK, BoundedLead, EmptyHanded
<1> QED
  BY <1>2, <1>3, <1>4, <1>5, <1>6 DEF Inv

LEMMA HandlerReadInv ==
  ASSUME Inv, NEW g \in Gets, HandlerRead(g) PROVE Inv'
<1>1. /\ pc[g] = "read"
      /\ UNCHANGED <<buf, discarded, delivered, done, notify, log>>
      /\ UNCHANGED <<wire, link, body, received>>
  BY DEF HandlerRead, bufVars, netVars, clientVars
<1>2. BufInv'
  BY <1>1, OthersPreserve DEF Inv, bufVars
<1>3. /\ chunk[g] = <<>> /\ Len(<<>>) = 0 /\ off[g] \in Nat /\ off[g] <= Len(log)
      /\ wire[g] \in Seq(Byte) /\ Len(wire[g]) \in Nat /\ log \in Seq(Byte)
      /\ Accounted(g)
  BY <1>1, InvTypes DEF Inv, EmptyHanded
<1>4. \/ /\ pc' \in {[pc EXCEPT ![g] = "returned"], [pc EXCEPT ![g] = "wait"]}
         /\ UNCHANGED <<off, chunk>>
      \/ /\ pc' = [pc EXCEPT ![g] = "write"]
         /\ \E s, k : /\ k \in Nat /\ Piece(s, off[g], off[g] + k)
                     /\ chunk' = [chunk EXCEPT ![g] = s]
                     /\ off' = [off EXCEPT ![g] = @ + k]
  <2>1. CASE Available(off[g]) /\ pc' = [pc EXCEPT ![g] = "write"]
             /\ chunk' = [chunk EXCEPT ![g] = ReadFrom(off[g], BufSize)]
             /\ off' = [off EXCEPT ![g] = @ + Len(ReadFrom(off[g], BufSize))]
    <3> DEFINE s == ReadFrom(off[g], BufSize)
    <3>1. PICK k \in 1 .. BufSize : Piece(s, off[g], off[g] + k)
      BY <1>3, <2>1, BufSizeAssumption, ReadFromExact DEF Inv
    <3>2. Len(s) = off[g] + k - off[g]
      BY <1>3, <3>1, PieceType
    <3>3. k \in Nat /\ Len(s) = k
      BY <1>3, <3>1, <3>2, BufSizeAssumption
    <3> QED
      BY <2>1, <3>1, <3>3
  <2> QED
    BY <2>1 DEF HandlerRead
<1>5. CASE /\ pc' \in {[pc EXCEPT ![g] = "returned"], [pc EXCEPT ![g] = "wait"]}
           /\ UNCHANGED <<off, chunk>>
  <2>1. TypeOK'
    BY <1>1, <1>2, <1>5 DEF Inv, TypeOK, BufInv
  <2>2. ASSUME NEW h \in Gets PROVE Accounted(h)'
    <3>1. Len(received') \in Nat /\ Len(received) <= Len(received')
      BY <1>1, InvTypes
    <3> QED
      BY <1>1, <1>5, <3>1, Frame
  <2>3. Piece(received, 0, Len(received))'
    BY <1>1, PrefixFrame
  <2>4. BoundedLead' /\ \A h \in Gets : EmptyHanded(h)'
    BY <1>1, <1>3, <1>5 DEF Inv, TypeOK, BoundedLead, EmptyHanded
  <2> QED
    BY <1>2, <2>1, <2>2, <2>3, <2>4 DEF Inv
<1>6. ASSUME pc' = [pc EXCEPT ![g] = "write"],
             NEW s, NEW k \in Nat, Piece(s, off[g], off[g] + k),
             chunk' = [chunk EXCEPT ![g] = s],
             off' = [off EXCEPT ![g] = @ + k]
      PROVE  Inv'
  <2>1. s \in Seq(Byte) /\ Len(s) = k
    <3>1. s \in Seq(Byte) /\ Len(s) = off[g] + k - off[g]
      BY <1>3, <1>6, PieceType
    <3> QED
      BY <1>3, <3>1
  <2>2. TypeOK'
    BY <1>1, <1>2, <1>3, <1>6, <2>1 DEF Inv, TypeOK, BufInv
  <2>3. off'[g] = off[g] + k /\ chunk'[g] = s /\ wire'[g] = wire[g]
    BY <1>1, <1>6 DEF Inv, TypeOK
  <2>4. /\ Written(g) = off[g] /\ Written(g)' = off[g]
        /\ Base(g)' = Base(g)
    BY <1>3, <2>1, <2>3 DEF Written, Base
  <2>5. Accounted(g)'
    <3>1. Piece(wire[g], Base(g), Written(g))'
      BY <1>1, <1>3, <2>4 DEF Accounted, Piece
    <3>2. Piece(chunk[g], Written(g), off[g])'
      BY <1>1, <1>6, <2>3, <2>4 DEF Piece
    <3> QED
      BY <1>1, <1>3, <2>3, <2>4, <3>1, <3>2 DEF Accounted
  <2>6. \A h \in Gets \ {g} : Accounted(h)'
    <3>1. \A h \in Gets \ {g} : /\ off'[h] = off[h] /\ chunk'[h] = chunk[h]
                               /\ wire'[h] = wire[h]
      BY <1>1, <1>6 DEF Inv, TypeOK
    <3> QED
      BY <1>1, <3>1, OthersAccounted
  <2>7. Piece(received, 0, Len(received))'
    BY <1>1, PrefixFrame
  <2>8. BoundedLead' /\ \A h \in Gets : EmptyHanded(h)'
    BY <1>1, <1>6 DEF Inv, TypeOK, BoundedLead, EmptyHanded
  <2> QED
    BY <1>2, <2>2, <2>5, <2>6, <2>7, <2>8 DEF Inv
<1> QED
  BY <1>4, <1>5, <1>6

(* A piece of the chunk moves to the response: the border between the two    *)
(* moves, their outer ends do not.                                           *)
LEMMA HandlerWriteInv ==
  ASSUME Inv, NEW g \in Gets, HandlerWrite(g) PROVE Inv'
<1>1. PICK n \in 1 .. Len(chunk[g]) :
        /\ Len(wire[g]) + n <= Cap
        /\ wire' = [wire EXCEPT ![g] = @ \o SubSeq(chunk[g], 1, n)]
        /\ chunk' = [chunk EXCEPT ![g] = SubSeq(@, n + 1, Len(@))]
        /\ pc' = [pc EXCEPT ![g] = IF n = Len(chunk[g]) THEN "ack" ELSE @]
  BY DEF HandlerWrite
<1>2. pc[g] = "write" /\ UNCHANGED <<bufVars, off, link, body, received>>
  BY DEF HandlerWrite, clientVars
<1>3. BufInv' /\ log' = log /\ delivered' = delivered
  BY <1>2, OthersPreserve DEF Inv
<1>4. /\ log \in Seq(Byte) /\ off[g] \in Nat /\ Len(chunk[g]) \in Nat
      /\ chunk[g] \in Seq(Byte) /\ wire[g] \in Seq(Byte) /\ Len(wire[g]) \in Nat
      /\ Accounted(g) /\ n \in Nat /\ n <= Len(chunk[g]) /\ n >= 1
  BY <1>1, InvTypes DEF Inv
<1> DEFINE s == SubSeq(chunk[g], 1, n)
           t == SubSeq(chunk[g], n + 1, Len(chunk[g]))
           a == Base(g)
           b == Written(g)
<1>5. /\ Piece(wire[g], a, b) /\ Piece(chunk[g], b, off[g])
      /\ a \in Nat /\ b \in Nat /\ Len(chunk[g]) = off[g] - b /\ Len(wire[g]) = b - a
  <2>1. Piece(wire[g], a, b) /\ Piece(chunk[g], b, off[g])
    BY <1>4 DEF Accounted
  <2>2. a \in Nat /\ b \in Nat
    BY <2>1 DEF Piece
  <2>3. Len(chunk[g]) = off[g] - b
    BY <1>4, <2>1, PieceType
  <2>4. Len(wire[g]) = b - a
    BY <1>4, <2>1, PieceType
  <2> QED
    BY <2>1, <2>2, <2>3, <2>4
<1>6. Piece(s, b, b + n) /\ Piece(t, b + n, off[g])
  <2>1. n \in 0 .. off[g] - b
    BY <1>4, <1>5
  <2> QED
    BY <1>4, <1>5, <2>1, PieceSplits
<1>7. Piece(wire[g] \o s, a, b + n)
  BY <1>4, <1>5, <1>6, PiecesJoin
<1>8. /\ s \in Seq(Byte) /\ t \in Seq(Byte) /\ wire[g] \o s \in Seq(Byte)
      /\ Len(t) = off[g] - (b + n) /\ Len(wire[g] \o s) = b + n - a
  <2>1. s \in Seq(Byte)
    BY <1>4, <1>6, PieceType
  <2>2. t \in Seq(Byte) /\ Len(t) = off[g] - (b + n)
    BY <1>4, <1>6, PieceType
  <2>3. wire[g] \o s \in Seq(Byte) /\ Len(wire[g] \o s) = b + n - a
    <3> DEFINE c == b + n
    <3>1. Piece(wire[g] \o s, a, c)
      BY <1>7
    <3> HIDE DEF a, b, c, s
    <3>2. wire[g] \o s \in Seq(Byte) /\ Len(wire[g] \o s) = c - a
      BY <1>4, <3>1, PieceType
    <3> QED
      BY <1>4, <1>5, <3>2 DEF c
  <2> QED
    BY <2>1, <2>2, <2>3
<1>9. /\ off'[g] = off[g] /\ chunk'[g] = t /\ wire'[g] = wire[g] \o s
      /\ \A h \in Gets \ {g} : /\ off'[h] = off[h] /\ chunk'[h] = chunk[h]
                             /\ wire'[h] = wire[h]
  BY <1>1, <1>2 DEF Inv, TypeOK
<1>10. n = Len(chunk[g]) => t = <<>>
  <2>1. n = Len(chunk[g]) => Len(t) = 0
    BY <1>4, <1>5, <1>8
  <2> QED
    BY <1>8, <2>1, EmptySeq
<1>11. TypeOK'
  <2>1. chunk' \in [Gets -> Seq(Byte)] /\ wire' \in [Gets -> Seq(Byte)]
    BY <1>1, <1>8 DEF Inv, TypeOK
  <2>2. pc' \in [Gets -> {"idle", "read", "write", "ack", "wait", "returned"}]
    BY <1>1 DEF Inv, TypeOK
  <2> QED
    BY <1>2, <1>3, <2>1, <2>2 DEF Inv, TypeOK, BufInv
<1> HIDE DEF s, t
<1>12. Written(g)' = b + n /\ Base(g)' = a
  <2> HIDE DEF a, b
  <2>0. a \in Nat /\ b \in Nat /\ n \in Nat /\ off[g] \in Nat
    BY <1>4, <1>5
  <2>1. off'[g] - Len(chunk'[g]) = b + n
    <3>1. off'[g] - Len(chunk'[g]) = off[g] - (off[g] - (b + n))
      BY <1>8, <1>9, Zenon
    <3>2. \A x, y, z \in Nat : x - (x - (y + z)) = y + z
      OBVIOUS
    <3> QED
      BY <2>0, <3>1, <3>2, Zenon
  <2>2. (b + n) - Len(wire'[g]) = a
    <3>1. (b + n) - Len(wire'[g]) = (b + n) - (b + n - a)
      BY <1>8, <1>9, Zenon
    <3>2. \A x, y, z \in Nat : (y + z) - (y + z - x) = x
      OBVIOUS
    <3> QED
      BY <2>0, <3>1, <3>2, Zenon
  <2> QED
    BY <2>1, <2>2 DEF Written, Base
<1> HIDE DEF a, b
<1>13. Accounted(g)'
  <2>1. Piece(wire[g], Base(g), Written(g))'
    BY <1>3, <1>7, <1>9, <1>12 DEF Piece
  <2>2. Piece(chunk[g], Written(g), off[g])'
    BY <1>3, <1>6, <1>9, <1>12 DEF Piece
  <2>3. Len(wire'[g]) <= Cap
    <3>1. Len(wire'[g]) = Len(wire[g]) + n
      BY <1>4, <1>5, <1>8, <1>9
    <3> QED
      BY <1>1, <3>1
  <2>4. Base(g)' <= Len(received') /\ (body' = g => Base(g)' = Len(received'))
    BY <1>2, <1>4, <1>12 DEF Accounted, a
  <2> QED
    BY <2>1, <2>2, <2>3, <2>4 DEF Accounted
<1>14. \A h \in Gets \ {g} : Accounted(h)'
  BY <1>2, <1>3, <1>9, OthersAccounted
<1>15. Piece(received, 0, Len(received))'
  BY <1>2, <1>3, PrefixFrame
<1>16. BoundedLead'
  BY <1>2, <1>3 DEF Inv, BoundedLead
<1>17. \A h \in Gets : EmptyHanded(h)'
  <2>1. EmptyHanded(g)'
    <3>1. pc'[g] = IF n = Len(chunk[g]) THEN "ack" ELSE "write"
      BY <1>1, <1>2 DEF Inv, TypeOK
    <3> QED
      BY <1>9, <1>10, <3>1 DEF EmptyHanded
  <2>2. ASSUME NEW h \in Gets \ {g} PROVE EmptyHanded(h)'
    <3>1. pc'[h] = pc[h]
      BY <1>1 DEF Inv, TypeOK
    <3> QED
      BY <1>9, <3>1 DEF EmptyHanded, Inv
  <2> QED
    BY <2>1, <2>2
<1> QED
  BY <1>3, <1>11, <1>13, <1>14, <1>15, <1>16, <1>17 DEF Inv

(* The acknowledged offset is at most what the response can hold ahead of    *)
(* what the client has read: BoundedLead is kept.                            *)
LEMMA HandlerAckInv ==
  ASSUME Inv, NEW g \in Gets, HandlerAck(g) PROVE Inv'
<1>1. /\ pc[g] = "ack" /\ pc' = [pc EXCEPT ![g] = "read"] /\ Advance(off[g])
      /\ UNCHANGED <<off, chunk, wire, link, body, received>>
  BY DEF HandlerAck, netVars, clientVars
<1>2. /\ off[g] \in Nat /\ off[g] <= Len(log) /\ Len(log) \in Nat
      /\ Len(received) \in Nat /\ Len(wire[g]) \in Nat /\ Cap \in Nat
      /\ chunk[g] = <<>> /\ Len(<<>>) = 0 /\ Accounted(g)
  BY <1>1, InvTypes DEF Inv, EmptyHanded
<1>3. /\ BufInv' /\ log' = log
      /\ delivered' = delivered \/ delivered' = off[g]
  BY <1>1, <1>2, AdvancePreserves DEF Inv
<1>4. TypeOK'
  BY <1>1, <1>3 DEF Inv, TypeOK, BufInv
<1>5. ASSUME NEW h \in Gets PROVE Accounted(h)'
  <2>1. Len(received') \in Nat /\ Len(received) <= Len(received')
    BY <1>1, InvTypes
  <2> QED
    BY <1>1, <1>3, <2>1, Frame
<1>6. Piece(received, 0, Len(received))'
  BY <1>1, <1>3, PrefixFrame
<1>7. BoundedLead'
  <2>1. off[g] - Len(wire[g]) <= Len(received) /\ Len(wire[g]) <= Cap
    BY <1>2 DEF Accounted, Base, Written
  <2>2. off[g] <= Len(received) + Cap
    BY <1>2, <2>1
  <2> QED
    BY <1>1, <1>3, <2>2 DEF Inv, BoundedLead
<1>8. \A h \in Gets : EmptyHanded(h)'
  BY <1>1, <1>2 DEF Inv, TypeOK, EmptyHanded
<1> QED
  BY <1>3, <1>4, <1>5, <1>6, <1>7, <1>8 DEF Inv

(* The client takes the front of the response it reads: the prefix it has    *)
(* and the start of what that response holds move together.                  *)
LEMMA ClientReadInv == ASSUME Inv, ClientRead PROVE Inv'
<1> DEFINE R == Len(received)
<1>0. PICK g \in Gets : g = body
  BY DEF ClientRead, Inv, TypeOK
<1>1. /\ g \in Gets /\ body' = g /\ body = g
      /\ UNCHANGED <<bufVars, pc, off, chunk, link>>
  BY <1>0 DEF ClientRead, handlerVars
<1>2. PICK n \in 1 .. Len(wire[g]) :
        /\ received' = received \o SubSeq(wire[g], 1, n)
        /\ wire' = [wire EXCEPT ![g] = SubSeq(@, n + 1, Len(@))]
  BY <1>0 DEF ClientRead
<1>3. BufInv' /\ log' = log /\ delivered' = delivered
  BY <1>1, OthersPreserve DEF Inv
<1>4. /\ log \in Seq(Byte) /\ Len(log) \in Nat /\ R \in Nat /\ delivered \in Nat
      /\ off[g] \in Nat /\ Len(chunk[g]) \in Nat /\ Len(wire[g]) \in Nat /\ Cap \in Nat
      /\ Accounted(g) /\ Base(g) = R /\ n \in Nat /\ n >= 1 /\ n <= Len(wire[g])
      /\ Piece(received, 0, R)
  BY <1>1, <1>2, InvTypes DEF Inv, Accounted
<1> DEFINE s == SubSeq(wire[g], 1, n)
           t == SubSeq(wire[g], n + 1, Len(wire[g]))
           b == Written(g)
<1>5. Piece(wire[g], R, b) /\ b \in Nat /\ Len(wire[g]) = b - R
  <2>1. Piece(wire[g], R, b)
    BY <1>4 DEF Accounted
  <2> QED
    BY <1>4, <2>1, PieceType DEF Piece
<1>6. Piece(s, R, R + n) /\ Piece(t, R + n, b)
  <2>1. n \in 0 .. b - R
    BY <1>4, <1>5
  <2> QED
    BY <1>4, <1>5, <2>1, PieceSplits
<1>7. Piece(received \o s, 0, R + n)
  BY <1>4, <1>6, PiecesJoin
<1>8. /\ t \in Seq(Byte) /\ received \o s \in Seq(Byte)
      /\ Len(t) = b - (R + n) /\ Len(received \o s) = R + n
  <2>1. t \in Seq(Byte) /\ Len(t) = b - (R + n)
    BY <1>4, <1>6, PieceType
  <2>2. received \o s \in Seq(Byte) /\ Len(received \o s) = R + n - 0
    <3> DEFINE c == R + n
    <3>1. Piece(received \o s, 0, c)
      BY <1>7
    <3> HIDE DEF c, s
    <3>2. received \o s \in Seq(Byte) /\ Len(received \o s) = c - 0
      BY <1>4, <3>1, PieceType
    <3> QED
      BY <3>2 DEF c
  <2> QED
    BY <1>4, <2>1, <2>2
<1>9. /\ off'[g] = off[g] /\ chunk'[g] = chunk[g] /\ wire'[g] = t
      /\ received' = received \o s
      /\ \A h \in Gets \ {g} : /\ off'[h] = off[h] /\ chunk'[h] = chunk[h]
                             /\ wire'[h] = wire[h]
  BY <1>1, <1>2 DEF Inv, TypeOK
<1>10. TypeOK'
  <2>1. wire' \in [Gets -> Seq(Byte)] /\ received' \in Seq(Byte)
    BY <1>2, <1>8, <1>9 DEF Inv, TypeOK
  <2> QED
    BY <1>1, <1>3, <2>1 DEF Inv, TypeOK, BufInv
<1>11. wire[g] # <<>> /\ pc[g] # "idle"
  <2>1. wire[g] # <<>>
    BY <1>4, EmptySeq
  <2> QED
    BY <1>1, <2>1 DEF Inv, EmptyHanded
<1> HIDE DEF s, t, R
<1>12. Written(g)' = b /\ Base(g)' = R + n /\ Len(received') = R + n
  <2>1. off'[g] - Len(chunk'[g]) = b
    BY <1>9 DEF Written
  <2>2. b - Len(wire'[g]) = R + n
    BY <1>4, <1>5, <1>8, <1>9
  <2> QED
    BY <1>1, <1>8, <1>9, <2>1, <2>2 DEF Written, Base
<1> HIDE DEF b
<1>13. Accounted(g)'
  <2>1. Piece(wire[g], Base(g), Written(g))'
    BY <1>1, <1>3, <1>6, <1>9, <1>12 DEF Piece
  <2>2. Piece(chunk[g], Written(g), off[g])'
    BY <1>1, <1>3, <1>4, <1>9, <1>12 DEF Piece, Accounted, b
  <2>3. Len(wire'[g]) <= Cap
    BY <1>4, <1>5, <1>8, <1>9 DEF Accounted
  <2>4. Base(g)' <= Len(received') /\ (body' = g => Base(g)' = Len(received'))
    BY <1>4, <1>12
  <2> QED
    BY <1>1, <2>1, <2>2, <2>3, <2>4 DEF Accounted
<1>14. ASSUME NEW h \in Gets \ {g} PROVE Accounted(h)'
  <2>1. Len(received') \in Nat /\ Len(received) <= Len(received')
    BY <1>4, <1>12 DEF R
  <2>2. body' # h
    BY <1>1
  <2> QED
    BY <1>3, <1>9, <2>1, <2>2, Frame
<1>15. Piece(received, 0, Len(received))'
  BY <1>3, <1>7, <1>9, <1>12 DEF Piece
<1>16. BoundedLead'
  <2>1. delivered <= R + Cap
    BY DEF Inv, BoundedLead, R
  <2> QED
    BY <1>3, <1>4, <1>12, <2>1 DEF BoundedLead
<1>17. \A h \in Gets : EmptyHanded(h)'
  BY <1>1, <1>9, <1>11 DEF EmptyHanded, Inv
<1> QED
  BY <1>3, <1>10, <1>13, <1>14, <1>15, <1>16, <1>17 DEF Inv

----------------------------------------------------------------------------
LEMMA InitInv == ASSUME Init PROVE Inv
<1>1. /\ received = <<>> /\ Len(<<>>) = 0 /\ <<>> \in Seq(Byte) /\ delivered = 0
      /\ log = <<>>
  BY EmptySeq DEF Init, BufInit
<1>2. BufInv
  BY BufInitInv DEF Init
<1>3. TypeOK
  BY <1>1, <1>2 DEF Init, TypeOK, BufInv
<1>4. log \in Seq(Byte) /\ Len(log) = 0
  BY <1>1
<1>5. Piece(<<>>, 0, 0)
  BY <1>4, EmptyPiece
<1>6. BoundedLead
  BY <1>1, CapAssumption DEF BoundedLead
<1>7. ASSUME NEW g \in Gets PROVE Accounted(g) /\ EmptyHanded(g)
  <2>1. off[g] = 0 /\ chunk[g] = <<>> /\ wire[g] = <<>> /\ pc[g] = "idle"
    BY DEF Init
  <2>2. Written(g) = 0 /\ Base(g) = 0
    <3>1. off[g] = 0 /\ Len(chunk[g]) = 0 /\ Len(wire[g]) = 0
      BY <1>1, <2>1
    <3> QED
      BY <3>1 DEF Written, Base
  <2> QED
    BY <1>1, <1>5, <2>1, <2>2, CapAssumption DEF Accounted, EmptyHanded
<1> QED
  BY <1>1, <1>2, <1>3, <1>5, <1>6, <1>7 DEF Inv

LEMMA StepInv == ASSUME Inv, [Next]_vars PROVE Inv'
<1>1. CASE RelayWrite
  BY <1>1, RelayWriteInv
<1>2. CASE RelayClose \/ ClientEOF \/ UNCHANGED vars \/ \E g \in Gets : Cut(g)
  BY <1>2, QuietInv
<1>3. ASSUME NEW g \in Gets, StartDownload(g) PROVE Inv'
  BY <1>3, StartDownloadInv
<1>4. ASSUME NEW g \in Gets, Handler(g) PROVE Inv'
  BY <1>4, HandlerReadInv, HandlerWriteInv, HandlerAckInv, PcStepInv DEF Handler
<1>5. CASE ClientRead
  BY <1>5, ClientReadInv
<1> QED
  BY <1>1, <1>2, <1>3, <1>4, <1>5 DEF Next

(* The type invariant of the download path. *)
THEOREM DownloadTypes == Spec => []TypeOK
<1>1. Init => Inv
  BY InitInv
<1>2. Inv /\ [Next]_vars => Inv'
  BY StepInv
<1> QED
  BY <1>1, <1>2, PTL DEF Spec, Inv

(* Over any number of GETs, cuts and stale handlers, the client has read a   *)
(* prefix of what the relay wrote.                                           *)
THEOREM NoLossNoDup == Spec => []ZeroLossZeroDup
<1>1. Init => Inv
  BY InitInv
<1>2. Inv /\ [Next]_vars => Inv'
  BY StepInv
<1>3. Inv => ZeroLossZeroDup
  <2> SUFFICES ASSUME Inv PROVE ZeroLossZeroDup
    OBVIOUS
  <2>1. received = SubSeq(log, 0 + 1, Len(received)) /\ Len(received) <= Len(log)
    BY DEF Inv, Piece
  <2> QED
    BY <2>1 DEF ZeroLossZeroDup
<1> QED
  BY <1>1, <1>2, <1>3, PTL DEF Spec

(* With responses that hold no more than the replay window, a reconnect at   *)
(* the client's offset never meets ErrOffsetTooOld.                          *)
THEOREM AlwaysResumable == Spec => []Resumable
<1>1. Init => Inv
  BY InitInv
<1>2. Inv /\ [Next]_vars => Inv'
  BY StepInv
<1>3. Inv => Resumable
  <2> SUFFICES ASSUME Inv, Cap <= MaxRetain PROVE discarded <= Len(received)
    BY InvTypes, BufLength DEF Resumable, TooOld, Inv
  <2>1. /\ delivered <= Len(received) + Cap
        /\ discarded = IF delivered > MaxRetain THEN delivered - MaxRetain ELSE 0
    BY DEF Inv, BoundedLead, BufInv, WindowExact
  <2> QED
    BY <2>1, InvTypes, RetainAssumption
<1> QED
  BY <1>1, <1>2, <1>3, PTL DEF Spec

(* Every step of the download path is a step of one reliable stream. *)
LEMMA StreamStep ==
  ASSUME Inv, Inv', [Next]_vars
  PROVE  [Stream!Next]_(Stream!streamVars)
<1>0. Len(received) \in Nat /\ Len(log) \in Nat /\ log \in Seq(Byte)
  BY InvTypes
<1>1. CASE RelayWrite
  <2>1. PICK p \in Chunk : Write(p)
    BY <1>1 DEF RelayWrite
  <2>2. p \in Seq(Byte) /\ log' = log \o p /\ ~done /\ done' = done
    BY <2>1, ChunkAssumption DEF Write
  <2>3. log' \in Seq(Byte) /\ Len(log') >= Len(log)
    BY <1>0, <2>2, ConcatProperties, LenProperties
  <2>4. log = SubSeq(log', 1, Len(log))
    <3> DEFINE m == Len(log)
    <3>1. 1 \in 1 .. Len(log) + 1 /\ m \in 1 - 1 .. Len(log)
      BY <1>0
    <3> HIDE DEF m
    <3>2. SubSeq(log \o p, 1, m) = SubSeq(log, 1, m)
      BY <1>0, <2>2, <3>1, SliceOfLeft
    <3> QED
      BY <1>0, <2>2, <3>2, SubSeqFull DEF m
  <2>5. received' = received
    BY <1>1 DEF RelayWrite, clientVars
  <2> QED
    BY <2>2, <2>3, <2>4, <2>5 DEF Stream!Next, Stream!Send
<1>2. CASE RelayClose
  BY <1>2 DEF RelayClose, Close, clientVars, Stream!Next, Stream!Finish
<1>3. CASE ClientRead
  <2>1. UNCHANGED <<log, done>>
    BY <1>3 DEF ClientRead, bufVars
  <2>2. Piece(received, 0, Len(received))'
    BY DEF Inv
  <2>3. /\ Len(received') \in Nat /\ Len(received') <= Len(log)
        /\ received' = SubSeq(log, 1, Len(received'))
    <3>1. received' = SubSeq(log', 0 + 1, Len(received'))
      BY <2>2 DEF Piece
    <3> QED
      BY <2>1, <2>2, <3>1 DEF Piece
  <2>4. Len(received') >= Len(received)
    <3>1. body \in Gets
      BY <1>3 DEF ClientRead, Inv, TypeOK
    <3>2. PICK n \in 1 .. Len(wire[body]) :
            received' = received \o SubSeq(wire[body], 1, n)
      BY <1>3 DEF ClientRead
    <3>3. 1 \in 1 .. Len(wire[body]) + 1 /\ n \in 1 - 1 .. Len(wire[body])
      BY <3>1, InvTypes
    <3>4. SubSeq(wire[body], 1, n) \in Seq(Byte)
      BY <3>1, <3>3, InvTypes, SliceType
    <3>5. Len(received') = Len(received) + Len(SubSeq(wire[body], 1, n))
      BY <3>2, <3>4, InvTypes, ConcatProperties
    <3> QED
      BY <1>0, <3>4, <3>5, LenProperties
  <2>5. Len(received') \in Len(received) .. Len(log)
    BY <1>0, <2>3, <2>4
  <2> QED
    BY <2>1, <2>3, <2>5 DEF Stream!Next, Stream!Deliver
<1>4. CASE ClientEOF \/ UNCHANGED vars \/ \E g \in Gets : StartDownload(g) \/ Cut(g)
  BY <1>4 DEF ClientEOF, StartDownload, Cut, vars, bufVars, clientVars, Stream!streamVars
<1>5. ASSUME NEW g \in Gets, Handler(g) PROVE UNCHANGED Stream!streamVars
  <2>1. UNCHANGED <<log, done, received>>
    BY <1>5 DEF Handler, HandlerRead, HandlerWrite, HandlerWriteFails, HandlerAck,
       HandlerWake, HandlerCancel, Advance, TakeToken, bufVars, clientVars
  <2> QED
    BY <2>1 DEF Stream!streamVars
<1> QED
  BY <1>1, <1>2, <1>3, <1>4, <1>5 DEF Next

(* The replay buffer, the handlers and the reconnecting client implement the *)
(* reliable stream.                                                          *)
THEOREM DownloadImplementsStream == Spec => ImplementsStream
<1>1. Init => Inv
  BY InitInv
<1>2. Inv /\ [Next]_vars => Inv'
  BY StepInv
<1>3. Init => Stream!Init
  BY DEF Init, BufInit, Stream!Init
<1>4. Inv /\ Inv' /\ [Next]_vars => [Stream!Next]_(Stream!streamVars)
  BY StreamStep
<1> QED
  BY <1>1, <1>2, <1>3, <1>4, PTL DEF Spec, ImplementsStream, Stream!Spec
=============================================================================
