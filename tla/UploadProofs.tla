---------------------------- MODULE UploadProofs -----------------------------
(***************************************************************************)
(* Proofs about the upload path for any stream, any way to cut it into     *)
(* chunks, any number of POSTs in flight and any size of the relay's       *)
(* reads.                                                                  *)
(***************************************************************************)
EXTENDS Upload, SliceLemmas

(***************************************************************************)
(* The server's side (Session).  The invariant says where every byte is in *)
(* the two modes -- what the reader was given, what splitConn keeps and    *)
(* what the stream handler has still to hand over are adjacent pieces of   *)
(* the stream -- and which places of the reader, the handler and Close can *)
(* be met together.                                                        *)
(***************************************************************************)

(* s is the piece of the stream from offset a up to offset b. *)
Part(s, a, b) == IsSlice(Stream, s, a, b)

(* A client uses one of the two ways to upload, and the other stays unused. *)
ModesApart ==
  /\ mode = "packet" =>
       ~streamMode /\ pipe = "none" /\ spost = "none" /\ taken = 0 /\ piece = <<>>
  /\ mode = "stream" =>
       posted = {} /\ uploadBuf = {} /\ nextSeq = 0 /\ leftover = <<>>

(* How far Close, the pipe and the stream handler have come. *)
ControlOK ==
  /\ uploadDone <=> closer \in {"pipe", "closed"}
  /\ streamMode <=> pipe # "none"
  /\ streamMode <=> spost \notin {"none", "ensure"}
  /\ pipe = "shut" /\ closer # "closed" => spost = "returned"

(* Why the reader is where it is. *)
ReaderOK ==
  /\ rpc \in {"queue", "wait"} => leftover = <<>>
  /\ rpc = "recheck" => streamMode \/ uploadDone
  /\ rpc = "pipe" => streamMode
  /\ rpc = "failed" => uploadDone \/ pipe = "shut"

(* Where the bytes are. *)
BytesOK ==
  /\ Part(got, 0, Len(got))
  /\ mode = "packet" => Part(leftover, Len(got), Bound[nextSeq])
  /\ mode = "stream" =>
       /\ Len(got) <= taken
       /\ spost = "write" => Part(piece, Len(got), taken)
       /\ spost # "write" => piece = <<>>
       /\ spost \in {"none", "ensure", "announce", "copy"} => Len(got) = taken
       /\ spost \in {"finish", "returned"} /\ closer # "closed" => Len(got) = taken

SessInv ==
  /\ SessTypeOK
  /\ ModesApart
  /\ ControlOK
  /\ NoStoreAfterClose
  /\ WaitIsJustified
  /\ ReaderOK
  /\ BytesOK

----------------------------------------------------------------------------
(* Chunk i is the piece of the stream between its two bounds. *)
LEMMA ChunkIsPart ==
  ASSUME NEW i \in Seqs
  PROVE  Part(Chunk(i), Bound[i], Bound[i + 1])
<1>1. /\ N \in Nat /\ Len(Stream) \in Nat /\ Stream \in Seq(Byte)
      /\ i \in 0 .. N /\ i + 1 \in 0 .. N
  BY NAssumption, StreamAssumption, LenProperties DEF Seqs
<1>2. Bound[i] \in 0 .. Len(Stream) /\ Bound[i + 1] \in 0 .. Len(Stream)
  BY <1>1, BoundAssumption
<1>3. Bound[i] <= Bound[i + 1]
  BY <1>1, BoundAssumption
<1> QED
  BY <1>1, <1>2, <1>3 DEF Part, IsSlice, Chunk

(* Handing over bytes that follow what was given keeps everything adjacent,  *)
(* whatever the size of the reader's buffer.                                 *)
LEMMA HandExact ==
  ASSUME NEW b, NEW c, NEW n \in 1 .. RdSize,
         Part(got, 0, Len(got)), Part(b, Len(got), c), Hand(b, n)
  PROVE  /\ Part(got', 0, Len(got')) /\ Part(leftover', Len(got'), c)
         /\ got' \in Seq(Byte) /\ leftover' \in Seq(Byte)
<1> DEFINE k == IF n < Len(b) THEN n ELSE Len(b)
<1>a. /\ Stream \in Seq(Byte) /\ n \in Nat \ {0}
      /\ Len(got) \in Nat /\ c \in Nat /\ Len(got) <= c
  BY StreamAssumption, RdSizeAssumption DEF Part, IsSlice
<1>b. b \in Seq(Byte) /\ Len(b) = c - Len(got)
  BY <1>a, SliceIsSeq DEF Part
<1>c. got \in Seq(Byte)
  BY <1>a, SliceIsSeq DEF Part
<1>1. /\ Stream \in Seq(Byte) /\ b \in Seq(Byte) /\ Len(b) = c - Len(got)
      /\ got \in Seq(Byte) /\ Len(got) \in Nat /\ Len(b) \in Nat /\ c \in Nat
      /\ n \in Nat \ {0}
  BY <1>a, <1>b, <1>c
<1>2. k \in 0 .. c - Len(got) /\ k \in Nat
  BY <1>1
<1>3. /\ Part(SubSeq(b, 1, k), Len(got), Len(got) + k)
      /\ Part(SubSeq(b, k + 1, Len(b)), Len(got) + k, c)
  BY <1>1, <1>2, SliceSplits DEF Part
<1>4. SubSeq(b, n + 1, Len(b)) = SubSeq(b, k + 1, Len(b))
  <2>1. CASE n < Len(b)
    BY <2>1
  <2>2. CASE ~(n < Len(b))
    <3>1. n + 1 > Len(b) /\ k + 1 > Len(b) /\ n + 1 \in Int /\ k + 1 \in Int /\ Len(b) \in Int
      BY <1>1, <2>2
    <3>2. SubSeq(b, n + 1, Len(b)) = <<>> /\ SubSeq(b, k + 1, Len(b)) = <<>>
      BY <3>1, SubSeqEmpty
    <3> QED
      BY <3>2
  <2> QED
    BY <2>1, <2>2
<1>5. got' = got \o SubSeq(b, 1, k) /\ leftover' = SubSeq(b, k + 1, Len(b))
  BY <1>4 DEF Hand
<1> HIDE DEF k
<1>6. Part(got', 0, Len(got) + k)
  BY <1>1, <1>3, <1>5, SlicesAppend DEF Part
<1>7. got' \in Seq(Byte) /\ Len(got') = Len(got) + k
  BY <1>1, <1>2, <1>6, SliceIsSeq DEF Part
<1>8. leftover' \in Seq(Byte)
  BY <1>1, <1>3, <1>5, SliceIsSeq DEF Part
<1> QED
  BY <1>3, <1>5, <1>6, <1>7, <1>8

(* What the code says of the reader follows from the invariant. *)
LEMMA SessInvImplies ==
  ASSUME SessInv
  PROVE  UploadInOrder /\ EndIsReal
<1>1. UploadInOrder
  BY StreamAssumption, SliceIsSeq DEF SessInv, BytesOK, Part, IsSlice, UploadInOrder
<1>2. ASSUME rpc = "failed", closer = "open"
      PROVE  spost = "returned" /\ Len(got) = taken
  <2>1. spost = "returned"
    BY <1>2 DEF SessInv, ControlOK, ReaderOK
  <2>2. mode = "stream"
    BY <2>1 DEF SessInv, SessTypeOK, ModesApart
  <2> QED
    BY <1>2, <2>1, <2>2 DEF SessInv, BytesOK
<1> QED
  BY <1>1, <1>2 DEF EndIsReal

----------------------------------------------------------------------------
(* Initially nothing was uploaded. *)
LEMMA SessInvInit == SessInit => SessInv
<1> SUFFICES ASSUME SessInit PROVE SessInv
  OBVIOUS
<1>1. Stream \in Seq(Byte) /\ Len(Stream) \in Nat /\ N \in Nat
  BY StreamAssumption, NAssumption, LenProperties
<1>2. Part(<<>>, 0, 0)
  BY <1>1, EmptySlice DEF Part
<1>3. Len(<<>>) = 0 /\ <<>> \in Seq(Byte)
  OBVIOUS
<1>4. SessTypeOK
  <2>1. nextSeq \in 0 .. N /\ taken \in 0 .. Len(Stream)
    BY <1>1 DEF SessInit
  <2>2. piece \in Seq(Byte) /\ leftover \in Seq(Byte) /\ got \in Seq(Byte)
    BY <1>3 DEF SessInit
  <2> QED
    BY <2>1, <2>2 DEF SessInit, SessTypeOK
<1>5. ModesApart /\ ControlOK /\ NoStoreAfterClose /\ WaitIsJustified /\ ReaderOK
  BY DEF SessInit, ModesApart, ControlOK, NoStoreAfterClose, WaitIsJustified, ReaderOK
<1>6. BytesOK
  BY <1>2, <1>3, BoundAssumption DEF SessInit, BytesOK
<1> QED
  BY <1>4, <1>5, <1>6 DEF SessInv

(* Every step keeps the invariant. *)
LEMMA SessInvStep == SessInv /\ [SessNext]_sessVars => SessInv'
<1> SUFFICES ASSUME SessInv, [SessNext]_sessVars PROVE SessInv'
  OBVIOUS
<1> USE DEF SessInv, SessTypeOK, ModesApart, ControlOK, NoStoreAfterClose,
            WaitIsJustified, ReaderOK, BytesOK, Wake,
            queueVars, streamVars, postVars, readVars
<1>1. ASSUME NEW i \in Seqs, PushUpload(i) PROVE SessInv'
  BY <1>1 DEF PushUpload
<1>2. CASE StreamPost
  BY <1>2 DEF StreamPost
<1>3. CASE EnsurePipe
  BY <1>3 DEF EnsurePipe
<1>4. CASE EnsureBroadcast
  BY <1>4 DEF EnsureBroadcast
<1>5. CASE CopyRead
  <2>1. PICK n \in 1 .. Len(Stream) - taken :
          /\ piece' = SubSeq(Stream, taken + 1, taken + n)
          /\ taken' = taken + n
    BY <1>5 DEF CopyRead
  <2>2. /\ spost = "copy" /\ spost' = "write" /\ mode = "stream" /\ Len(got) = taken
        /\ UNCHANGED <<mode, uploadBuf, nextSeq, uploadDone, streamMode, pipe,
                       closer, posted, rpc, leftover, got>>
    BY <1>5 DEF CopyRead
  <2>a. Stream \in Seq(Byte) /\ Len(Stream) \in Nat /\ taken \in 0 .. Len(Stream)
    BY StreamAssumption, LenProperties
  <2>3. Stream \in Seq(Byte) /\ Len(Stream) \in Nat /\ taken' \in 0 .. Len(Stream)
    BY <2>1, <2>a
  <2>b. /\ taken \in Nat /\ taken' \in Nat /\ taken <= taken' /\ taken' <= Len(Stream)
        /\ piece' = SubSeq(Stream, taken + 1, taken')
    BY <2>1, <2>a
  <2>4. Part(piece', taken, taken')
    BY <2>b DEF Part, IsSlice
  <2>5. piece' \in Seq(Byte)
    BY <2>3, <2>4, SliceIsSeq DEF Part
  <2>6. Len(got') <= taken'
    BY <2>2, <2>b
  <2> QED
    BY <2>2, <2>3, <2>4, <2>5, <2>6
<1>6. CASE CopyEnd
  BY <1>6 DEF CopyEnd
<1>7. CASE PipeWriteFails
  BY <1>7 DEF PipeWriteFails
<1>8. CASE CloseStreamUpload
  BY <1>8 DEF CloseStreamUpload
<1>9. CASE Read
  <2>1. /\ rpc = "idle"
        /\ UNCHANGED <<mode, uploadBuf, nextSeq, uploadDone, streamMode, pipe,
                       closer, posted, spost, taken, piece>>
    BY <1>9 DEF Read
  <2>2. CASE UNCHANGED <<leftover, got>>
    BY <1>9, <2>1, <2>2 DEF Read
  <2>3. CASE rpc' = rpc /\ leftover # <<>> /\ \E n \in 1 .. RdSize : Hand(leftover, n)
    <3>1. mode = "packet"
      BY <2>3
    <3>2. PICK n \in 1 .. RdSize : Hand(leftover, n)
      BY <2>3
    <3>3. /\ Part(got', 0, Len(got')) /\ Part(leftover', Len(got'), Bound[nextSeq])
          /\ got' \in Seq(Byte) /\ leftover' \in Seq(Byte)
      BY <3>1, <3>2, HandExact
    <3> QED
      BY <2>1, <2>3, <3>1, <3>3
  <2> QED
    BY <1>9, <2>2, <2>3 DEF Read
<1>10. CASE ReadUpload
  <2>1. /\ rpc = "queue"
        /\ UNCHANGED <<mode, uploadDone, streamMode, pipe, closer, posted, spost,
                       taken, piece>>
    BY <1>10 DEF ReadUpload
  <2>2. CASE UNCHANGED <<uploadBuf, nextSeq, leftover, got>>
    BY <1>10, <2>1, <2>2 DEF ReadUpload
  <2>3. CASE /\ nextSeq \in uploadBuf
             /\ uploadBuf' = uploadBuf \ {nextSeq}
             /\ nextSeq' = nextSeq + 1
             /\ \E n \in 1 .. RdSize : Hand(Chunk(nextSeq), n)
             /\ rpc' = "idle"
    <3>1. mode = "packet" /\ nextSeq \in Seqs /\ leftover = <<>>
      BY <2>1, <2>3
    <3>2. Part(<<>>, Len(got), Bound[nextSeq])
      BY <3>1
    <3>3. Len(got) = Bound[nextSeq]
      <4>1. Len(got) \in Nat /\ Bound[nextSeq] \in Nat
        BY <3>2 DEF Part, IsSlice
      <4>2. Len(<<>>) = Bound[nextSeq] - Len(got)
        BY <3>2, StreamAssumption, SliceIsSeq DEF Part
      <4> QED
        BY <4>1, <4>2
    <3>4. Part(Chunk(nextSeq), Len(got), Bound[nextSeq + 1])
      BY <3>1, <3>3, ChunkIsPart
    <3>5. PICK n \in 1 .. RdSize : Hand(Chunk(nextSeq), n)
      BY <2>3
    <3>6. /\ Part(got', 0, Len(got')) /\ Part(leftover', Len(got'), Bound[nextSeq + 1])
          /\ got' \in Seq(Byte) /\ leftover' \in Seq(Byte)
      BY <3>4, <3>5, HandExact
    <3>7. nextSeq' \in 0 .. N /\ uploadBuf' \subseteq Seqs
      BY <2>3, <3>1, NAssumption DEF Seqs
    <3> QED
      BY <2>1, <2>3, <3>1, <3>6, <3>7
  <2> QED
    BY <1>10, <2>2, <2>3 DEF ReadUpload
<1>11. CASE Recheck
  BY <1>11 DEF Recheck
<1>12. CASE ReadPipe
  <2>1. /\ rpc = "pipe"
        /\ UNCHANGED <<mode, uploadBuf, nextSeq, uploadDone, streamMode, pipe,
                       closer, posted, leftover>>
    BY <1>12 DEF ReadPipe
  <2>2. CASE /\ pipe = "shut" /\ rpc' = "failed"
             /\ UNCHANGED <<got, spost, taken, piece>>
    BY <2>1, <2>2
  <2>3. CASE /\ spost = "write" /\ rpc' = "idle" /\ taken' = taken
             /\ \E n \in 1 .. RdSize :
                  LET k == IF n < Len(piece) THEN n ELSE Len(piece) IN
                  /\ got' = got \o SubSeq(piece, 1, k)
                  /\ piece' = SubSeq(piece, k + 1, Len(piece))
                  /\ spost' = IF k = Len(piece) THEN "copy" ELSE spost
    <3>1. mode = "stream" /\ Part(got, 0, Len(got)) /\ Part(piece, Len(got), taken)
      BY <2>3
    <3>2. /\ Stream \in Seq(Byte) /\ Len(piece) = taken - Len(got)
          /\ Len(got) \in Nat /\ Len(piece) \in Nat /\ taken \in Nat
      <4>1. Len(got) \in Nat /\ taken \in Nat /\ Len(got) <= taken
        BY <3>1 DEF Part, IsSlice
      <4>2. Len(piece) = taken - Len(got)
        BY <3>1, StreamAssumption, SliceIsSeq DEF Part
      <4> QED
        BY <4>1, <4>2, StreamAssumption
    <3>3. PICK n \in 1 .. RdSize :
            LET k == IF n < Len(piece) THEN n ELSE Len(piece) IN
            /\ got' = got \o SubSeq(piece, 1, k)
            /\ piece' = SubSeq(piece, k + 1, Len(piece))
            /\ spost' = IF k = Len(piece) THEN "copy" ELSE spost
      BY <2>3
    <3> DEFINE k == IF n < Len(piece) THEN n ELSE Len(piece)
    <3>4. k \in 0 .. taken - Len(got)
      BY <3>2, RdSizeAssumption
    <3>5. /\ got' = got \o SubSeq(piece, 1, k)
          /\ piece' = SubSeq(piece, k + 1, Len(piece))
          /\ spost' = IF k = Len(piece) THEN "copy" ELSE spost
      BY <3>3
    <3> HIDE DEF k
    <3>6. /\ Part(SubSeq(piece, 1, k), Len(got), Len(got) + k)
          /\ Part(piece', Len(got) + k, taken)
      BY <3>1, <3>2, <3>4, <3>5, SliceSplits DEF Part
    <3>7. Part(got', 0, Len(got) + k)
      BY <3>1, <3>2, <3>5, <3>6, SlicesAppend DEF Part
    <3>8. got' \in Seq(Byte) /\ Len(got') = Len(got) + k
      BY <3>2, <3>4, <3>7, SliceIsSeq DEF Part
    <3>9. piece' \in Seq(Byte) /\ Len(piece') = Len(piece) - k
      <4>1. piece' \in Seq(Byte) /\ Len(piece') = taken - (Len(got) + k)
        BY <3>2, <3>6, SliceIsSeq DEF Part
      <4> QED
        BY <3>2, <3>4, <4>1
    <3>10. Part(got', 0, Len(got')) /\ Part(piece', Len(got'), taken')
      BY <2>3, <3>6, <3>7, <3>8
    <3>a. Len(got') <= taken'
      BY <3>10 DEF Part, IsSlice
    <3>11. CASE k = Len(piece)
      <4>1. spost' = "copy" /\ piece' = <<>> /\ Len(got') = taken'
        <5>1. Len(piece') = 0 /\ piece' \in Seq(Byte)
          BY <3>2, <3>9, <3>11
        <5>2. piece' = <<>>
          BY <5>1, EmptySeq
        <5>3. Len(got') = taken
          BY <3>2, <3>8, <3>11
        <5>4. spost' = "copy"
          BY <3>5, <3>11
        <5> QED
          BY <2>3, <5>2, <5>3, <5>4
      <4> QED
        BY <2>1, <2>3, <3>1, <3>8, <3>9, <3>10, <3>a, <4>1
    <3>12. CASE k # Len(piece)
      BY <2>1, <2>3, <3>1, <3>5, <3>8, <3>9, <3>10, <3>a, <3>12
    <3> QED
      BY <3>11, <3>12
  <2> QED
    BY <1>12, <2>2, <2>3 DEF ReadPipe
<1>13. CASE ReaderStops
  BY <1>13 DEF ReaderStops
<1>14. CASE CloseBegin
  BY <1>14 DEF CloseBegin
<1>15. CASE CloseQueue
  BY <1>15 DEF CloseQueue
<1>16. CASE ClosePipe
  BY <1>16 DEF ClosePipe
<1>17. CASE UNCHANGED sessVars
  BY <1>17 DEF sessVars
<1> QED
  BY <1>1, <1>2, <1>3, <1>4, <1>5, <1>6, <1>7, <1>8, <1>9, <1>10, <1>11, <1>12,
     <1>13, <1>14, <1>15, <1>16, <1>17
     DEF SessNext, StreamHandler, Reader, CloseRest

(* Handing over some of a sequence lengthens what the reader was given. *)
LEMMA AppendLengthens ==
  ASSUME NEW s \in Seq(Byte), NEW b \in Seq(Byte), NEW k \in 0 .. Len(b)
  PROVE  Len(s \o SubSeq(b, 1, k)) >= Len(s)
<1>1. Len(b) \in Nat /\ 1 \in 1 .. Len(b) + 1 /\ k \in 1 - 1 .. Len(b)
  BY LenProperties
<1>2. SubSeq(b, 1, k) \in Seq(Byte)
  BY <1>1, SliceType
<1> QED
  BY <1>2, ConcatProperties, LenProperties

(* No step takes back a byte the relay was given. *)
LEMMA GotGrows ==
  ASSUME SessInv, [SessNext]_sessVars
  PROVE  Len(got') >= Len(got)
<1>1. got \in Seq(Byte) /\ leftover \in Seq(Byte) /\ piece \in Seq(Byte) /\ Len(got) \in Nat
  BY LenProperties DEF SessInv, SessTypeOK
<1>2. ASSUME NEW b \in Seq(Byte), NEW n \in 1 .. RdSize, Hand(b, n)
      PROVE  Len(got') >= Len(got)
  <2> DEFINE k == IF n < Len(b) THEN n ELSE Len(b)
  <2>1. k \in 0 .. Len(b)
    BY RdSizeAssumption, LenProperties
  <2>2. got' = got \o SubSeq(b, 1, k)
    BY <1>2 DEF Hand
  <2> HIDE DEF k
  <2> QED
    BY <1>1, <2>1, <2>2, AppendLengthens
<1>3. CASE Read
  BY <1>1, <1>2, <1>3 DEF Read
<1>4. CASE ReadUpload
  <2>1. CASE nextSeq \in uploadBuf /\ \E n \in 1 .. RdSize : Hand(Chunk(nextSeq), n)
    <3>1. nextSeq \in Seqs
      BY <2>1 DEF SessInv, SessTypeOK
    <3>2. Chunk(nextSeq) \in Seq(Byte)
      BY <3>1, ChunkIsPart, StreamAssumption, SliceIsSeq DEF Part
    <3> QED
      BY <1>2, <2>1, <3>2
  <2>2. CASE got' = got
    BY <1>1, <2>2
  <2> QED
    BY <1>4, <2>1, <2>2 DEF ReadUpload
<1>5. CASE ReadPipe
  <2>1. CASE got' = got
    BY <1>1, <2>1
  <2>2. CASE \E n \in 1 .. RdSize :
               got' = got \o SubSeq(piece, 1, IF n < Len(piece) THEN n ELSE Len(piece))
    <3>1. PICK n \in 1 .. RdSize :
            got' = got \o SubSeq(piece, 1, IF n < Len(piece) THEN n ELSE Len(piece))
      BY <2>2
    <3>2. (IF n < Len(piece) THEN n ELSE Len(piece)) \in 0 .. Len(piece)
      BY <1>1, RdSizeAssumption, LenProperties
    <3> QED
      BY <1>1, <3>1, <3>2, AppendLengthens
  <2> QED
    BY <1>5, <2>1, <2>2 DEF ReadPipe
<1>6. CASE UNCHANGED got
  BY <1>1, <1>6
<1> QED
  BY <1>3, <1>4, <1>5, <1>6
     DEF SessNext, sessVars, PushUpload, StreamPost, StreamHandler, EnsurePipe,
         EnsureBroadcast, CopyRead, CopyEnd, PipeWriteFails, CloseStreamUpload,
         Reader, Recheck, ReaderStops, CloseBegin, CloseRest, CloseQueue,
         ClosePipe, readVars

(* The invariant holds in every reachable state. *)
LEMMA SessInvAlways == SessSpec => []SessInv
  BY SessInvInit, SessInvStep, PTL DEF SessSpec

(* Type correctness of the upload side of a session. *)
THEOREM SessionTypes == SessSpec => []SessTypeOK
<1>1. SessInv => SessTypeOK
  BY DEF SessInv
<1> QED
  BY <1>1, SessInvAlways, PTL

(* The relay is given a prefix of what the client uploads, whatever the      *)
(* stream, its chunks, the mode, the order of the POSTs, the sizes of the    *)
(* reads and the moment of Close (PushUpload, ReadUpload, splitConn.Read).   *)
THEOREM UploadLossless == SessSpec => []UploadInOrder
<1>1. SessInv => UploadInOrder
  BY SessInvImplies
<1> QED
  BY <1>1, SessInvAlways, PTL

(* splitConn.Read reports the end only when Close runs, or when the stream   *)
(* POST ended and all it carried was read.                                   *)
THEOREM EndsAreReal == SessSpec => []EndIsReal
<1>1. SessInv => EndIsReal
  BY SessInvImplies
<1> QED
  BY <1>1, SessInvAlways, PTL

(* No POST stores into the map that Close has set to nil. *)
THEOREM NoStoreIntoNil == SessSpec => []NoStoreAfterClose
<1>1. SessInv => NoStoreAfterClose
  BY DEF SessInv
<1> QED
  BY <1>1, SessInvAlways, PTL

(* A reader that waits on uploadCond has nothing to wake up for. *)
THEOREM NoLostWakeup == SessSpec => []WaitIsJustified
<1>1. SessInv => WaitIsJustified
  BY DEF SessInv
<1> QED
  BY <1>1, SessInvAlways, PTL

----------------------------------------------------------------------------
(***************************************************************************)
(* Both ends (Upload).  Every step of the two together is a step of        *)
(* Session, so what is proved above holds here; the invariant UpInv adds   *)
(* what the client was told of its POSTs, and from both follow that a gap  *)
(* is the end of what is stored and that the whole implements              *)
(* ReliableStream.                                                         *)
(***************************************************************************)

(* The numbers below base are settled, and so are all between two Writes. *)
Settled ==
  /\ \A i \in InFlight : base <= i
  /\ wpc = "idle" => InFlight = {}

(* What the client was told of its POSTs is so, while the token is good. *)
ResultsOK ==
  /\ \A i \in Seqs : result[i] # "none" => i \in sent
  /\ \A i \in Seqs : result[i] = "ok" => i \in posted \/ expired
  /\ \A i \in Seqs : result[i] = "err" => base <= i

(* While the conn is not broken the Writes that ended have succeeded. *)
WritesOK ==
  /\ wpc = "send" => base = acked
  /\ wpc = "idle" /\ ~broken =>
       acked = uploadSeq /\ \A i \in Seqs : result[i] # "err"
  /\ \A i \in 0 .. acked - 1 : i \in posted \/ expired

(* A chunk of an earlier Write is missing only if the token was too old for  *)
(* it, and so it was for all that was sent since.                            *)
GapsOK ==
  \A i \in 0 .. base - 1 :
    i \in posted \/ (expired /\ posted \subseteq 0 .. base - 1)

(* Nothing reaches the server, or the relay, that was not sent. *)
SentFirst ==
  /\ posted \subseteq sent
  /\ uploadBuf \subseteq posted
  /\ nextSeq <= uploadSeq
  /\ taken <= Bound[streamed]

UpInv == UpTypeOK /\ Settled /\ ResultsOK /\ WritesOK /\ GapsOK /\ SentFirst

----------------------------------------------------------------------------
(* Every step of the client and the server is a step of the server or none.  *)
LEMMA StepsAreSessionSteps == [UpNext]_upVars => [SessNext]_sessVars
  BY DEF UpNext, upVars, WriteBegin, Launch, WriteEnd, Arrive, Answer, Fail,
         WriteStream, StreamFails, Expire, Pump, ServerStep, SessNext

(* The upload path is a session as Session describes it. *)
THEOREM UploadRefinesSession == UpSpec => SessSpec
<1>1. UpInit => SessInit
  BY DEF UpInit
<1> QED
  BY <1>1, StepsAreSessionSteps, PTL DEF UpSpec, SessSpec

LEMMA UpInvInit == UpInit => UpInv
<1> SUFFICES ASSUME UpInit PROVE UpInv
  OBVIOUS
<1>1. SessTypeOK
  BY SessInvInit DEF UpInit, SessInv
<1>2. N \in Nat
  BY NAssumption
<1>3. UpTypeOK
  <2>1. uploadSeq \in 0 .. N /\ acked \in 0 .. uploadSeq /\ base \in 0 .. uploadSeq
    BY <1>2 DEF UpInit
  <2>2. sent \subseteq 0 .. uploadSeq - 1
    BY DEF UpInit
  <2>3. streamed \in 0 .. N
    BY <1>2 DEF UpInit
  <2>4. result \in [Seqs -> {"none", "ok", "err"}] /\ wpc \in {"idle", "send"}
       /\ broken \in BOOLEAN /\ expired \in BOOLEAN
    BY DEF UpInit
  <2> QED
    BY <1>1, <2>1, <2>2, <2>3, <2>4 DEF UpTypeOK
<1>4. Settled /\ ResultsOK /\ WritesOK /\ GapsOK
  BY <1>2 DEF UpInit, Settled, ResultsOK, WritesOK, GapsOK, InFlight, Seqs
<1>5. SentFirst
  BY BoundAssumption DEF UpInit, SessInit, SentFirst
<1> QED
  BY <1>3, <1>4, <1>5 DEF UpInv

LEMMA NumbersGrow ==
  ASSUME NEW m \in Nat, NEW n \in Nat, m <= n
  PROVE  0 .. m - 1 \subseteq 0 .. n - 1
  OBVIOUS

(* The client's steps: the session is left alone. *)
LEMMA ClientStep ==
  ASSUME UpInv, UNCHANGED sessVars,
         \/ WriteBegin \/ Launch \/ WriteEnd
         \/ \E i \in Seqs : Answer(i) \/ Fail(i)
         \/ WriteStream \/ StreamFails \/ Expire
  PROVE  UpInv'
<1> USE DEF UpInv, UpTypeOK, Settled, ResultsOK, WritesOK, GapsOK, SentFirst
<1>0. /\ N \in Nat /\ SessTypeOK' /\ nextSeq \in 0 .. N /\ taken \in 0 .. Len(Stream)
      /\ UNCHANGED <<mode, posted, uploadBuf, nextSeq, taken>>
  BY NAssumption DEF sessVars, SessTypeOK, queueVars, streamVars, postVars, readVars
<1>1. CASE WriteBegin
  <2>1. /\ wpc = "idle" /\ ~broken /\ wpc' = "send" /\ base' = uploadSeq
        /\ uploadSeq' \in uploadSeq + 1 .. N
        /\ UNCHANGED <<acked, sent, result, streamed, broken, expired>>
    BY <1>1 DEF WriteBegin
  <2>2. InFlight = {} /\ InFlight' = {}
    BY <2>1 DEF InFlight
  <2>3. acked = uploadSeq /\ \A i \in Seqs : result[i] # "err"
    BY <2>1
  <2>4. UpTypeOK'
    <3>a. N \in Nat /\ uploadSeq \in 0 .. N
      BY <1>0
    <3>1. /\ uploadSeq \in Nat /\ uploadSeq' \in Nat /\ uploadSeq <= uploadSeq'
          /\ uploadSeq' \in 0 .. N
      BY <3>a, <2>1
    <3>2. acked' \in 0 .. uploadSeq' /\ base' \in 0 .. uploadSeq'
      <4>1. acked' = uploadSeq /\ base' = uploadSeq
        BY <2>1, <2>3
      <4> HIDE DEF UpInv, UpTypeOK, Settled, ResultsOK, WritesOK, GapsOK, SentFirst
      <4>2. uploadSeq \in 0 .. uploadSeq'
        BY <3>1
      <4> QED
        BY <4>1, <4>2
    <3>3. sent' \subseteq 0 .. uploadSeq' - 1
      <4>1. sent \subseteq 0 .. uploadSeq - 1 /\ sent' = sent
        BY <2>1
      <4> HIDE DEF UpInv, UpTypeOK, Settled, ResultsOK, WritesOK, GapsOK, SentFirst
      <4>2. 0 .. uploadSeq - 1 \subseteq 0 .. uploadSeq' - 1
        BY <3>1, NumbersGrow
      <4> QED
        BY <4>1, <4>2
    <3> QED
      BY <1>0, <2>1, <3>1, <3>2, <3>3
  <2>5. Settled' /\ ResultsOK' /\ WritesOK'
    BY <1>0, <2>1, <2>2, <2>3
  <2>6. SentFirst'
    BY <1>0, <2>1
  <2>7. GapsOK'
    <3>1. posted' \subseteq 0 .. base' - 1
      BY <1>0, <2>1
    <3>2. \A i \in 0 .. base' - 1 : i \in posted' \/ expired'
      BY <1>0, <2>1, <2>3
    <3> QED
      BY <3>1, <3>2
  <2> QED
    BY <2>4, <2>5, <2>6, <2>7
<1>2. CASE Launch
  BY <1>0, <1>2 DEF Launch, InFlight, Batch, Seqs
<1>3. CASE WriteEnd
  <2>1. /\ wpc = "send" /\ wpc' = "idle" /\ base = acked
        /\ \A i \in base .. uploadSeq - 1 : result[i] # "none"
        /\ UNCHANGED <<uploadSeq, base, sent, result, streamed, expired>>
    BY <1>3 DEF WriteEnd, Collected, Batch
  <2>2. InFlight' = {}
    <3>1. ASSUME NEW i \in InFlight PROVE FALSE
      <4>1. i \in 0 .. uploadSeq - 1 /\ base <= i /\ result[i] = "none"
        BY DEF InFlight
      <4> QED
        BY <1>0, <2>1, <4>1
    <3> QED
      BY <2>1, <3>1 DEF InFlight
  <2>3. CASE /\ \A i \in Batch : result[i] = "ok"
             /\ acked' = uploadSeq /\ broken' = broken
    <3>1. \A i \in 0 .. uploadSeq - 1 : i \in posted \/ expired
      <4> TAKE i \in 0 .. uploadSeq - 1
      <4>1. CASE i < base
        BY <1>0, <2>1, <4>1
      <4>2. CASE base <= i
        BY <1>0, <2>3, <4>2 DEF Batch, Seqs
      <4> QED
        BY <1>0, <4>1, <4>2
    <3>2. \A i \in Seqs : result[i] # "err"
      <4> SUFFICES ASSUME NEW i \in Seqs, result[i] = "err" PROVE FALSE
        OBVIOUS
      <4>1. base <= i /\ i \in 0 .. uploadSeq - 1
        OBVIOUS
      <4> QED
        BY <1>0, <2>3, <4>1 DEF Batch
    <3> QED
      BY <1>0, <2>1, <2>2, <2>3, <3>1, <3>2
  <2>4. CASE broken' = TRUE /\ acked' = acked
    BY <1>0, <2>1, <2>2, <2>4
  <2> QED
    BY <1>3, <2>3, <2>4 DEF WriteEnd
<1>4. ASSUME NEW i \in Seqs, Answer(i) PROVE UpInv'
  BY <1>0, <1>4 DEF Answer, Validates, InFlight, Seqs
<1>5. ASSUME NEW i \in Seqs, Fail(i) PROVE UpInv'
  BY <1>0, <1>5 DEF Fail, InFlight, Seqs
<1>6. CASE WriteStream
  <2>1. /\ streamed' \in 0 .. N /\ streamed <= streamed'
        /\ UNCHANGED <<packetVars, broken, expired>>
    BY <1>0, <1>6 DEF WriteStream
  <2>2. Bound[streamed] <= Bound[streamed']
    BY <1>0, <2>1, BoundAssumption
  <2>3. taken' <= Bound[streamed']
    <3>1. Bound[streamed] \in 0 .. Len(Stream) /\ Bound[streamed'] \in 0 .. Len(Stream)
      BY <1>0, <2>1, BoundAssumption
    <3>2. Len(Stream) \in Nat
      BY StreamAssumption, LenProperties
    <3> QED
      BY <1>0, <2>2, <3>1, <3>2
  <2> QED
    BY <1>0, <2>1, <2>3 DEF packetVars, InFlight
<1>7. CASE StreamFails
  BY <1>0, <1>7 DEF StreamFails, packetVars, InFlight
<1>8. CASE Expire
  BY <1>0, <1>8 DEF Expire, Validates, packetVars, InFlight
<1> QED
  BY <1>1, <1>2, <1>3, <1>4, <1>5, <1>6, <1>7, <1>8

(* The server's steps: the client is left alone. *)
LEMMA ServerStepInv ==
  ASSUME UpInv, SessInv, SessInv', UNCHANGED writeVars,
         \/ \E i \in Seqs : Arrive(i)
         \/ Pump \/ ServerStep
  PROVE  UpInv'
<1>0. /\ SessTypeOK' /\ N \in Nat /\ nextSeq \in 0 .. N
      /\ UNCHANGED <<uploadSeq, base, acked, sent, result, wpc, streamed, broken,
                   expired>>
  BY NAssumption DEF SessInv, SessTypeOK, writeVars, packetVars
<1>1. UpTypeOK' /\ Settled'
  BY <1>0 DEF UpInv, UpTypeOK, Settled, InFlight
<1>2. posted \subseteq posted' /\ SentFirst'
  <2> USE <1>0 DEF UpInv, SentFirst
  <2>1. ASSUME NEW i \in Seqs, Arrive(i) PROVE posted \subseteq posted' /\ SentFirst'
    BY <2>1 DEF Arrive, PushUpload, postVars
  <2>2. CASE Pump
    <3>1. UNCHANGED <<posted, uploadBuf, nextSeq>>
      BY <2>2 DEF Pump, StreamHandler, EnsurePipe, EnsureBroadcast, CopyRead, CopyEnd,
                  PipeWriteFails, CloseStreamUpload, queueVars
    <3>2. taken' <= Bound[streamed]
      BY <2>2 DEF Pump
    <3> QED
      BY <3>1, <3>2
  <2>3. CASE ServerStep /\ ReadUpload
    <3>1. UNCHANGED <<posted, taken>>
      BY <2>3 DEF ReadUpload, postVars
    <3>2. CASE UNCHANGED <<uploadBuf, nextSeq>>
      BY <3>1, <3>2
    <3>3. CASE nextSeq \in uploadBuf /\ uploadBuf' = uploadBuf \ {nextSeq} /\ nextSeq' = nextSeq + 1
      <4>1. nextSeq \in 0 .. uploadSeq - 1 /\ uploadSeq \in Nat
        BY <3>3 DEF UpTypeOK
      <4> QED
        BY <3>1, <3>3, <4>1
    <3> QED
      BY <2>3, <3>2, <3>3 DEF ReadUpload
  <2>4. CASE ServerStep /\ ~ReadUpload
    <3>1. UNCHANGED <<posted, taken, nextSeq>> /\ (uploadBuf' = uploadBuf \/ uploadBuf' = {})
      BY <2>4 DEF ServerStep, StreamPost, Reader, Read, Recheck, ReadPipe, ReaderStops,
                  CloseBegin, CloseRest, CloseQueue, ClosePipe, queueVars, postVars
    <3> QED
      BY <3>1
  <2> QED
    BY <2>1, <2>2, <2>3, <2>4
<1>3. GapsOK'
  <2>1. CASE posted' = posted
    BY <1>0, <2>1 DEF UpInv, GapsOK
  <2>2. CASE \E i \in Seqs : Arrive(i)
    <3>1. ~expired
      BY <2>2 DEF Arrive, Validates
    <3>2. \A i \in 0 .. base - 1 : i \in posted'
      BY <1>2, <3>1 DEF UpInv, GapsOK
    <3> QED
      BY <1>0, <3>2 DEF GapsOK
  <2>3. CASE Pump
    BY <2>1, <2>3 DEF Pump, StreamHandler, EnsurePipe, EnsureBroadcast, CopyRead, CopyEnd,
                      PipeWriteFails, CloseStreamUpload
  <2>4. CASE ServerStep
    BY <2>1, <2>4 DEF ServerStep, StreamPost, Reader, Read, ReadUpload, Recheck, ReadPipe,
                      ReaderStops, CloseBegin, CloseRest, CloseQueue, ClosePipe
  <2> QED
    BY <2>2, <2>3, <2>4
<1> QED
  BY <1>0, <1>1, <1>2, <1>3 DEF UpInv, ResultsOK, WritesOK

LEMMA UpInvStep == UpInv /\ SessInv /\ SessInv' /\ [UpNext]_upVars => UpInv'
<1> SUFFICES ASSUME UpInv, SessInv, SessInv', [UpNext]_upVars PROVE UpInv'
  OBVIOUS
<1>1. CASE UNCHANGED upVars
  BY <1>1 DEF upVars, sessVars, writeVars, packetVars, queueVars, postVars, UpInv, UpTypeOK,
     Settled, ResultsOK, WritesOK, GapsOK, SentFirst, InFlight, SessInv
<1>2. CASE \/ WriteBegin \/ Launch \/ WriteEnd
           \/ \E i \in Seqs : Answer(i) \/ Fail(i)
           \/ WriteStream \/ StreamFails \/ Expire
  <2>1. UNCHANGED sessVars
    BY <1>2 DEF WriteBegin, Launch, WriteEnd, Answer, Fail, WriteStream, StreamFails, Expire
  <2> QED
    BY <1>2, <2>1, ClientStep
<1>3. CASE (\E i \in Seqs : Arrive(i)) \/ Pump \/ ServerStep
  <2>1. UNCHANGED writeVars
    BY <1>3 DEF Arrive, Pump, ServerStep
  <2> QED
    BY <1>3, <2>1, ServerStepInv
<1> QED
  BY <1>1, <1>2, <1>3 DEF UpNext

LEMMA UpInvAlways == UpSpec => [](SessInv /\ UpInv)
<1>1. UpSpec => []SessInv
  BY UploadRefinesSession, SessInvAlways
<1>2. UpInit => UpInv
  BY UpInvInit
<1>3. UpInv /\ SessInv /\ SessInv' /\ [UpNext]_upVars => UpInv'
  BY UpInvStep
<1> QED
  BY <1>1, <1>2, <1>3, PTL DEF UpSpec

(* Type correctness of both ends of the upload. *)
THEOREM UploadTypes == UpSpec => []UpTypeOK
<1>1. UpInv => UpTypeOK
  BY DEF UpInv
<1> QED
  BY <1>1, UpInvAlways, PTL

(* Behind a chunk that the session will never have no data of a later Write  *)
(* is stored, whatever the number of chunks, POSTs in flight and failures    *)
(* and whenever the token grows old; until it does, the session has what     *)
(* Write reported (clientConn.Write's error path and markBroken).            *)
THEOREM GapEndsTheConn == UpSpec => []GapIsLast
<1>1. UpInv => GapIsLast
  <2> SUFFICES ASSUME UpInv PROVE GapIsLast
    OBVIOUS
  <2> USE DEF UpInv, UpTypeOK
  <2>1. ASSUME NEW i \in Seqs, result[i] = "err" PROVE i \in Batch
    <3>1. base <= i /\ i \in 0 .. uploadSeq - 1
      BY <2>1 DEF ResultsOK
    <3> QED
      BY <3>1 DEF Batch
  <2>2. posted \subseteq 0 .. uploadSeq - 1
    BY DEF SentFirst
  <2>3. ~expired => 0 .. acked - 1 \subseteq posted
    BY DEF WritesOK
  <2>4. ~(0 .. base - 1 \subseteq posted) => posted \subseteq 0 .. base - 1
    BY DEF GapsOK
  <2> QED
    BY <2>1, <2>2, <2>3, <2>4 DEF GapIsLast
<1> QED
  BY <1>1, UpInvAlways, PTL

----------------------------------------------------------------------------
(* The relay has read no more than the client wrote. *)
GotOK ==
  /\ Written \in Seq(Byte)
  /\ Len(got) \in Nat /\ Len(got) <= Len(Written)
  /\ got = SubSeq(Written, 1, Len(got))

LEMMA GotWritten == ASSUME UpInv, SessInv PROVE GotOK
<1> DEFINE w == Bound[IF mode = "packet" THEN uploadSeq ELSE streamed]
           l == Len(got)
<1>1. /\ N \in Nat /\ Stream \in Seq(Byte) /\ Len(Stream) \in Nat
      /\ mode \in {"packet", "stream"} /\ got \in Seq(Byte) /\ l \in Nat
      /\ nextSeq \in 0 .. N /\ uploadSeq \in 0 .. N /\ streamed \in 0 .. N
      /\ taken \in Nat /\ nextSeq <= uploadSeq /\ taken <= Bound[streamed]
  BY NAssumption, StreamAssumption, LenProperties
     DEF UpInv, UpTypeOK, SessTypeOK, SentFirst
<1>2. w \in 0 .. Len(Stream)
  BY <1>1, BoundAssumption
<1>3. l <= w
  <2>1. CASE mode = "packet"
    <3>1. l <= Bound[nextSeq]
      BY <2>1 DEF SessInv, BytesOK, Part, IsSlice
    <3>2. Bound[nextSeq] <= Bound[uploadSeq]
      BY <1>1, BoundAssumption
    <3>3. Bound[nextSeq] \in 0 .. Len(Stream)
      BY <1>1, BoundAssumption
    <3> QED
      BY <1>1, <1>2, <2>1, <3>1, <3>2, <3>3
  <2>2. CASE mode = "stream"
    <3>1. l <= taken
      BY <2>2 DEF SessInv, BytesOK
    <3> QED
      BY <1>1, <1>2, <2>2, <3>1
  <2> QED
    BY <1>1, <2>1, <2>2
<1>4. got = SubSeq(Stream, 1, l)
  BY DEF SessInv, BytesOK, Part, IsSlice
<1>5. Written = SubSeq(Stream, 1, w)
  BY DEF Written
<1> HIDE DEF w, l
<1>6. /\ 1 \in 1 .. Len(Stream) + 1 /\ w \in 1 - 1 .. Len(Stream)
      /\ 1 \in 1 .. w - 1 + 2 /\ l \in 1 - 1 .. w - 1 + 1
      /\ 1 + 1 - 1 = 1 /\ 1 + l - 1 = l /\ w - 1 + 1 = w
  BY <1>1, <1>2, <1>3
<1>7. SubSeq(Stream, 1, w) \in Seq(Byte) /\ Len(SubSeq(Stream, 1, w)) = w
  BY <1>1, <1>6, SliceType
<1>8. SubSeq(SubSeq(Stream, 1, w), 1, l) = SubSeq(Stream, 1 + 1 - 1, 1 + l - 1)
  BY <1>1, <1>6, SliceOfSlice
<1> QED
  BY <1>1, <1>3, <1>4, <1>5, <1>6, <1>7, <1>8 DEF l, GotOK

(* What is written stays written. *)
LEMMA WrittenGrows ==
  ASSUME UpInv, UpInv', mode' = mode,
         uploadSeq <= uploadSeq', streamed <= streamed'
  PROVE  /\ Written' \in Seq(Byte)
         /\ Len(Written') >= Len(Written)
         /\ Written = SubSeq(Written', 1, Len(Written))
<1> DEFINE w == Bound[IF mode = "packet" THEN uploadSeq ELSE streamed]
           v == Bound[IF mode = "packet" THEN uploadSeq' ELSE streamed']
<1>1. /\ N \in Nat /\ Stream \in Seq(Byte) /\ Len(Stream) \in Nat
      /\ uploadSeq \in 0 .. N /\ streamed \in 0 .. N
      /\ uploadSeq' \in 0 .. N /\ streamed' \in 0 .. N
  BY NAssumption, StreamAssumption, LenProperties DEF UpInv, UpTypeOK
<1>2. w \in 0 .. Len(Stream) /\ v \in 0 .. Len(Stream) /\ w <= v
  BY <1>1, BoundAssumption
<1>3. Written = SubSeq(Stream, 1, w) /\ Written' = SubSeq(Stream, 1, v)
  BY DEF Written
<1> HIDE DEF w, v
<1>4. /\ 1 \in 1 .. Len(Stream) + 1
      /\ w \in 1 - 1 .. Len(Stream) /\ v \in 1 - 1 .. Len(Stream)
      /\ 1 \in 1 .. v - 1 + 2 /\ w \in 1 - 1 .. v - 1 + 1
      /\ 1 + 1 - 1 = 1 /\ 1 + w - 1 = w /\ w - 1 + 1 = w /\ v - 1 + 1 = v
  BY <1>1, <1>2
<1>5. SubSeq(Stream, 1, w) \in Seq(Byte) /\ Len(SubSeq(Stream, 1, w)) = w
  BY <1>1, <1>4, SliceType
<1>6. SubSeq(Stream, 1, v) \in Seq(Byte) /\ Len(SubSeq(Stream, 1, v)) = v
  BY <1>1, <1>4, SliceType
<1>7. SubSeq(SubSeq(Stream, 1, v), 1, w) = SubSeq(Stream, 1 + 1 - 1, 1 + w - 1)
  BY <1>1, <1>4, SliceOfSlice
<1> QED
  BY <1>2, <1>3, <1>4, <1>5, <1>6, <1>7

(* Every step of the upload is a step of one reliable stream. *)
LEMMA UpStreamStep ==
  ASSUME UpInv, UpInv', SessInv, GotOK, GotOK', [UpNext]_upVars
  PROVE  [UpStream!Next]_(UpStream!streamVars)
<1>0. /\ uploadSeq \in Nat /\ streamed \in Nat
  BY NAssumption DEF UpInv, UpTypeOK
<1>1. CASE WriteBegin \/ WriteStream
  <2>1. ~broken /\ broken' = broken /\ got' = got /\ mode' = mode
    BY <1>1 DEF WriteBegin, WriteStream, sessVars, readVars
  <2>2. uploadSeq <= uploadSeq' /\ streamed <= streamed'
    BY <1>0, <1>1 DEF WriteBegin, WriteStream, packetVars
  <2> QED
    BY <2>1, <2>2, WrittenGrows DEF UpStream!Next, UpStream!Send
<1>2. CASE \/ Launch \/ WriteEnd \/ StreamFails \/ Expire \/ UNCHANGED upVars
           \/ \E i \in Seqs : Answer(i) \/ Fail(i)
  <2>1. Written' = Written /\ got' = got
    BY <1>2 DEF Launch, WriteEnd, StreamFails, Expire, Answer, Fail, upVars, sessVars, readVars,
                writeVars, packetVars, Written
  <2>2. broken' = broken \/ broken' = TRUE
    BY <1>2 DEF Launch, WriteEnd, StreamFails, Expire, Answer, Fail, upVars, writeVars
  <2> QED
    BY <2>1, <2>2 DEF UpStream!Next, UpStream!Finish, UpStream!streamVars
<1>3. CASE (\E i \in Seqs : Arrive(i)) \/ Pump \/ ServerStep
  <2>1. UNCHANGED writeVars
    BY <1>3 DEF Arrive, Pump, ServerStep
  <2>2. mode' = mode
    BY <1>3 DEF Arrive, PushUpload, Pump, StreamHandler, EnsurePipe, EnsureBroadcast,
                CopyRead, CopyEnd, PipeWriteFails, CloseStreamUpload, ServerStep,
                StreamPost, Reader, Read, ReadUpload, Recheck, ReadPipe, ReaderStops,
                CloseBegin, CloseRest, CloseQueue, ClosePipe
  <2>3. Written' = Written /\ broken' = broken
    BY <2>1, <2>2 DEF Written, writeVars, packetVars
  <2>4. Len(got') >= Len(got)
    BY StepsAreSessionSteps, GotGrows
  <2>5. /\ Len(got') \in Nat /\ Len(got') <= Len(Written)
        /\ got' = SubSeq(Written, 1, Len(got'))
    BY <2>3 DEF GotOK
  <2>6. Len(got') \in Len(got) .. Len(Written)
    <3>1. Len(got) \in Nat /\ Len(Written) \in Nat
      BY LenProperties DEF GotOK
    <3> QED
      BY <2>4, <2>5, <3>1
  <2> QED
    BY <2>3, <2>5, <2>6 DEF UpStream!Next, UpStream!Deliver
<1> QED
  BY <1>1, <1>2, <1>3 DEF UpNext

(* The concurrent POSTs, the reassembly and the stream POST implement the    *)
(* reliable stream, for any stream, chunking and number of POSTs in flight.  *)
THEOREM UploadImplementsStream == UpSpec => ImplementsStream
<1>1. UpInit => UpStream!Init
  <2> SUFFICES ASSUME UpInit PROVE UpStream!Init
    OBVIOUS
  <2>1. uploadSeq = 0 /\ streamed = 0 /\ got = <<>> /\ broken = FALSE
    BY DEF UpInit, SessInit
  <2>2. Written = <<>>
    <3>1. Bound[0] = 0
      BY BoundAssumption
    <3>2. Written = SubSeq(Stream, 1, 0)
      BY <2>1, <3>1 DEF Written
    <3>3. SubSeq(Stream, 1, 0) = <<>>
      BY SubSeqEmpty
    <3> QED
      BY <3>2, <3>3
  <2> QED
    BY <2>1, <2>2 DEF UpStream!Init
<1>2. UpInv /\ UpInv' /\ SessInv /\ GotOK /\ GotOK' /\ [UpNext]_upVars
        => [UpStream!Next]_(UpStream!streamVars)
  BY UpStreamStep
<1>3. UpInv /\ SessInv => GotOK
  BY GotWritten
<1> QED
  BY <1>1, <1>2, <1>3, UpInvAlways, PTL DEF UpSpec, ImplementsStream, UpStream!Spec
=============================================================================
