------------------------------ MODULE Session -------------------------------
(***************************************************************************)
(* The upload side of one session on the server: Session of                *)
(* src/internal/session/manager.go, the POST handlers that feed it, the    *)
(* splitConn the relay reads it through, and Close, which may run at any   *)
(* time.  A client uploads either in packets (one POST per numbered chunk, *)
(* in any order) or in one long-lived stream POST, pumped through a pipe.  *)
(* One action is one critical section (uploadMu or streamMu), one load of  *)
(* streamMode, or one rendezvous on the pipe.                              *)
(***************************************************************************)
EXTENDS Integers, Sequences

CONSTANTS
  Byte,      \* what a byte may be
  Stream,    \* the bytes the client uploads
  N,         \* how many chunks it cuts them into
  Bound,     \* Bound[i]: where chunk i starts and chunk i - 1 ends
  RdSize     \* the most one Read of the relay asks for

ASSUME StreamAssumption == Stream \in Seq(Byte)
ASSUME NAssumption == N \in Nat
ASSUME BoundAssumption ==
  /\ Bound \in [0 .. N -> 0 .. Len(Stream)]
  /\ Bound[0] = 0 /\ Bound[N] = Len(Stream)
  /\ \A i, j \in 0 .. N : i <= j => Bound[i] <= Bound[j]
ASSUME RdSizeAssumption == RdSize \in Nat \ {0}

Seqs == 0 .. N - 1
Chunk(i) == SubSeq(Stream, Bound[i] + 1, Bound[i + 1])

VARIABLES
  mode,        \* the client's upload mode, fixed when it dials
  uploadBuf,   \* Session.uploadBuf: the sequence numbers of the chunks held
  nextSeq,     \* Session.nextSeq
  uploadDone,  \* Session.uploadDone
  streamMode,  \* Session.streamMode
  pipe,        \* the stream pipe: "none", "open", or "shut" at either end
  closer,      \* Session.Close: "open" before it, then its next section
  posted,      \* packet POSTs handled so far
  spost,       \* where the handler of the stream POST is
  taken,       \* bytes it has read from the request's body
  piece,       \* what is left of the write it is in
  rpc,         \* where the relay's reader is
  leftover,    \* splitConn.leftover
  got          \* bytes the reader was given

queueVars == <<uploadBuf, nextSeq, uploadDone>>
streamVars == <<streamMode, pipe>>
postVars == <<spost, taken, piece>>
readVars == <<rpc, leftover, got>>
sessVars == <<mode, queueVars, streamVars, closer, posted, postVars, readVars>>

SessInit ==
  /\ mode \in {"packet", "stream"}
  /\ uploadBuf = {} /\ nextSeq = 0 /\ uploadDone = FALSE
  /\ streamMode = FALSE /\ pipe = "none"
  /\ closer = "open"
  /\ posted = {}
  /\ spost = "none" /\ taken = 0 /\ piece = <<>>
  /\ rpc = "idle" /\ leftover = <<>> /\ got = <<>>

(* Signal and Broadcast: the one reader, if it waits, will check again. *)
Wake == rpc' = IF rpc = "wait" THEN "queue" ELSE rpc

----------------------------------------------------------------------------
(* PushUpload gone wrong: no look at uploadDone, or no signal. *)
PushUploadUnchecked(i) ==
  /\ mode = "packet"
  /\ i \in Seqs \ posted
  /\ posted' = posted \cup {i}
  /\ uploadBuf' = uploadBuf \cup {i}
  /\ Wake
  /\ UNCHANGED <<mode, nextSeq, uploadDone, streamVars, closer, postVars,
                 leftover, got>>
PushUploadSilent(i) ==
  /\ mode = "packet"
  /\ i \in Seqs \ posted
  /\ posted' = posted \cup {i}
  /\ uploadBuf' = IF uploadDone THEN uploadBuf ELSE uploadBuf \cup {i}
  /\ UNCHANGED <<mode, nextSeq, uploadDone, streamVars, closer, postVars,
                 readVars>>

(* handleUpload and PushUpload: a chunk that finds the session done is       *)
(* dropped, and its POST is answered 200 all the same.                       *)
PushUpload(i) ==
  /\ mode = "packet"
  /\ i \in Seqs \ posted
  /\ posted' = posted \cup {i}
  /\ \/ /\ uploadDone
        /\ UNCHANGED <<uploadBuf, rpc>>
     \/ /\ ~uploadDone
        /\ uploadBuf' = uploadBuf \cup {i}
        /\ Wake
  /\ UNCHANGED <<mode, nextSeq, uploadDone, streamVars, closer, postVars,
                 leftover, got>>

(* The stream POST arrives: handleUploadStream is called. *)
StreamPost ==
  /\ mode = "stream"
  /\ spost = "none"
  /\ spost' = "ensure"
  /\ UNCHANGED <<mode, queueVars, streamVars, closer, posted, taken, piece,
                 readVars>>

(* ensureStreamPipe, its first section: create the pipe, flip the mode. *)
EnsurePipe ==
  /\ spost = "ensure"
  /\ IF pipe = "none"
       THEN pipe' = "open" /\ streamMode' = TRUE /\ spost' = "announce"
       ELSE spost' = "copy" /\ UNCHANGED streamVars
  /\ UNCHANGED <<mode, queueVars, closer, posted, taken, piece, readVars>>

(* The pipe is created but no waiting reader is told. *)
EnsureSilent ==
  /\ spost = "announce"
  /\ spost' = "copy"
  /\ UNCHANGED <<mode, queueVars, streamVars, closer, posted, taken, piece,
                 readVars>>

(* ... and its second: wake a reader that waits for packets. *)
EnsureBroadcast ==
  /\ spost = "announce"
  /\ Wake
  /\ spost' = "copy"
  /\ UNCHANGED <<mode, queueVars, streamVars, closer, posted, taken, piece,
                 leftover, got>>

(* io.CopyBuffer takes some of the body and enters the pipe's Write. *)
CopyRead ==
  /\ spost = "copy"
  /\ \E n \in 1 .. Len(Stream) - taken :
       /\ piece' = SubSeq(Stream, taken + 1, taken + n)
       /\ taken' = taken + n
  /\ spost' = "write"
  /\ UNCHANGED <<mode, queueVars, streamVars, closer, posted, readVars>>

(* The body ends, at its end or because the request broke. *)
CopyEnd ==
  /\ spost = "copy"
  /\ spost' = "finish"
  /\ UNCHANGED <<mode, queueVars, streamVars, closer, posted, taken, piece,
                 readVars>>

(* A Write on a pipe that was shut returns an error and ends the copy. *)
PipeWriteFails ==
  /\ spost = "write"
  /\ pipe = "shut"
  /\ spost' = "finish"
  /\ piece' = <<>>
  /\ UNCHANGED <<mode, queueVars, streamVars, closer, posted, taken, readVars>>

(* CloseStreamUpload, and the handler returns. *)
CloseStreamUpload ==
  /\ spost = "finish"
  /\ pipe' = IF pipe = "none" THEN "none" ELSE "shut"
  /\ spost' = "returned"
  /\ UNCHANGED <<mode, queueVars, streamMode, closer, posted, taken, piece,
                 readVars>>

----------------------------------------------------------------------------
(* What conn.go:18-23 says the code once did: the rest of a chunk is lost.   *)
HandTruncating(b, n) ==
  /\ got' = got \o SubSeq(b, 1, IF n < Len(b) THEN n ELSE Len(b))
  /\ leftover' = <<>>

(* What Read hands over of the bytes b, for a buffer of n: the rest is kept. *)
Hand(b, n) ==
  /\ got' = got \o SubSeq(b, 1, IF n < Len(b) THEN n ELSE Len(b))
  /\ leftover' = SubSeq(b, n + 1, Len(b))

(* splitConn.Read is entered: stream mode, leftover, or the packet queue.    *)
Read ==
  /\ rpc = "idle"
  /\ \/ /\ streamMode
        /\ rpc' = "pipe"
        /\ UNCHANGED <<leftover, got>>
     \/ /\ ~streamMode /\ leftover # <<>>
        /\ \E n \in 1 .. RdSize : Hand(leftover, n)
        /\ rpc' = rpc
     \/ /\ ~streamMode /\ leftover = <<>>
        /\ rpc' = "queue"
        /\ UNCHANGED <<leftover, got>>
  /\ UNCHANGED <<mode, queueVars, streamVars, closer, posted, postVars>>

(* One round of ReadUpload under uploadMu, and what Read does with a chunk.  *)
ReadUpload ==
  /\ rpc = "queue"
  /\ \/ /\ streamMode \/ uploadDone
        /\ rpc' = "recheck"
        /\ UNCHANGED <<uploadBuf, nextSeq, leftover, got>>
     \/ /\ ~streamMode /\ ~uploadDone /\ nextSeq \in uploadBuf
        /\ uploadBuf' = uploadBuf \ {nextSeq}
        /\ nextSeq' = nextSeq + 1
        /\ \E n \in 1 .. RdSize : Hand(Chunk(nextSeq), n)
        /\ rpc' = "idle"
     \/ /\ ~streamMode /\ ~uploadDone /\ nextSeq \notin uploadBuf
        /\ rpc' = "wait"
        /\ UNCHANGED <<uploadBuf, nextSeq, leftover, got>>
  /\ UNCHANGED <<mode, uploadDone, streamVars, closer, posted, postVars>>

(* Read takes every false of ReadUpload for the end. *)
RecheckNot ==
  /\ rpc = "recheck"
  /\ rpc' = "failed"
  /\ UNCHANGED <<mode, queueVars, streamVars, closer, posted, postVars,
                 leftover, got>>

(* ReadUpload returned false: the pipe if the mode flipped, else the end. *)
Recheck ==
  /\ rpc = "recheck"
  /\ rpc' = IF streamMode THEN "pipe" ELSE "failed"
  /\ UNCHANGED <<mode, queueVars, streamVars, closer, posted, postVars,
                 leftover, got>>

(* readStream: a shut pipe ends it, else it meets the handler's Write. *)
ReadPipe ==
  /\ rpc = "pipe"
  /\ \/ /\ pipe = "shut"
        /\ rpc' = "failed"
        /\ UNCHANGED <<got, postVars>>
     \/ /\ pipe = "open" /\ spost = "write"
        /\ \E n \in 1 .. RdSize :
             LET k == IF n < Len(piece) THEN n ELSE Len(piece) IN
             /\ got' = got \o SubSeq(piece, 1, k)
             /\ piece' = SubSeq(piece, k + 1, Len(piece))
             /\ spost' = IF k = Len(piece) THEN "copy" ELSE spost
        /\ rpc' = "idle"
        /\ UNCHANGED taken
  /\ UNCHANGED <<mode, queueVars, streamVars, closer, posted, leftover>>

(* The relay stops reading (its target failed, or the handshake did). *)
ReaderStops ==
  /\ rpc = "idle"
  /\ rpc' = "stopped"
  /\ UNCHANGED <<mode, queueVars, streamVars, closer, posted, postVars,
                 leftover, got>>

----------------------------------------------------------------------------
(* Session.Close: the closed channel, then the queue under uploadMu, then    *)
(* the pipe, if there is one, under streamMu.                                *)
CloseBegin ==
  /\ closer = "open"
  /\ closer' = "queue"
  /\ UNCHANGED <<mode, queueVars, streamVars, posted, postVars, readVars>>

(* Close gone wrong: a waiting reader is not woken. *)
CloseQueueSilent ==
  /\ closer = "queue"
  /\ uploadDone' = TRUE
  /\ uploadBuf' = {}
  /\ closer' = "pipe"
  /\ UNCHANGED <<mode, nextSeq, streamVars, posted, postVars, readVars>>
CloseQueue ==
  /\ closer = "queue"
  /\ uploadDone' = TRUE
  /\ uploadBuf' = {}
  /\ Wake
  /\ closer' = "pipe"
  /\ UNCHANGED <<mode, nextSeq, streamVars, posted, postVars, leftover, got>>

ClosePipe ==
  /\ closer = "pipe"
  /\ pipe' = IF pipe = "none" THEN "none" ELSE "shut"
  /\ closer' = "closed"
  /\ UNCHANGED <<mode, queueVars, streamMode, posted, postVars, readVars>>

----------------------------------------------------------------------------
StreamHandler ==
  EnsurePipe \/ EnsureBroadcast \/ CopyRead \/ CopyEnd \/ PipeWriteFails
    \/ CloseStreamUpload
Reader == Read \/ ReadUpload \/ Recheck \/ ReadPipe
CloseRest == CloseQueue \/ ClosePipe

SessNext ==
  \/ \E i \in Seqs : PushUpload(i)
  \/ StreamPost \/ StreamHandler
  \/ Reader \/ ReaderStops
  \/ CloseBegin \/ CloseRest

(* Each goroutine goes on when it can.  A client's request body yields data  *)
(* or ends; nothing obliges a POST to come, a relay to stop or to close.     *)
SessFairness ==
  /\ WF_sessVars(StreamHandler)
  /\ WF_sessVars(Reader)
  /\ WF_sessVars(CloseRest)

SessSpec == SessInit /\ [][SessNext]_sessVars
SessFairSpec == SessSpec /\ SessFairness

----------------------------------------------------------------------------
(* Type correctness of the upload side. *)
SessTypeOK ==
  /\ mode \in {"packet", "stream"}
  /\ uploadBuf \subseteq Seqs
  /\ nextSeq \in 0 .. N
  /\ uploadDone \in BOOLEAN /\ streamMode \in BOOLEAN
  /\ pipe \in {"none", "open", "shut"}
  /\ closer \in {"open", "queue", "pipe", "closed"}
  /\ posted \subseteq Seqs
  /\ spost \in {"none", "ensure", "announce", "copy", "write", "finish", "returned"}
  /\ taken \in 0 .. Len(Stream)
  /\ piece \in Seq(Byte)
  /\ rpc \in {"idle", "queue", "wait", "recheck", "pipe", "failed", "stopped"}
  /\ leftover \in Seq(Byte)
  /\ got \in Seq(Byte)

(* "Always lossless" (conn.go:42): in both modes, with POSTs handled in any  *)
(* order, reads of any size and a mode flip under a waiting reader, what the *)
(* relay is given is a prefix of what the client uploads.                    *)
UploadInOrder == got = SubSeq(Stream, 1, Len(got)) /\ Len(got) <= Len(Stream)

(* A reader is told the end only for a reason: the session is being closed,  *)
(* or the stream POST ended and everything it carried was read.              *)
EndIsReal ==
  rpc = "failed" /\ closer = "open" => spost = "returned" /\ Len(got) = taken

(* PushUpload never stores into the map Close has set to nil, which would    *)
(* panic (manager.go:76-82, 140).                                            *)
NoStoreAfterClose == uploadDone => uploadBuf = {}

(* No lost wakeup (manager.go:164-170): a waiting reader has nothing to do   *)
(* -- its chunk is missing, the session is open, and a flip of the mode is   *)
(* about to be announced.                                                    *)
WaitIsJustified ==
  rpc = "wait" =>
    /\ nextSeq \notin uploadBuf
    /\ ~uploadDone
    /\ streamMode => spost = "announce"

(* A chunk whose predecessors all came is read, unless the session closes or *)
(* the relay stops reading.                                                  *)
ChunksConsumed ==
  \A i \in Seqs :
    (0 .. i \subseteq posted)
      ~> (nextSeq > i \/ closer # "open" \/ rpc = "stopped")

(* Close releases the reader, in whatever mode it waits, and the stream POST *)
(* whose pipe exists when Close gets to it (manager.go:143-145).             *)
CloseReleases ==
  /\ closer = "closed" ~> rpc \in {"failed", "stopped"}
  /\ (closer = "pipe" /\ pipe = "open") ~> spost = "returned"
============================================================================
