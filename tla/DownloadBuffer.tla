--------------------------- MODULE DownloadBuffer ---------------------------
(***************************************************************************)
(* The replay buffer of one session: src/internal/session/                 *)
(* download_buffer.go.  The relay appends to it, GET handlers copy out of  *)
(* it at absolute offsets and report what they delivered, and the buffer   *)
(* drops what is both delivered and outside the replay window.  Every      *)
(* method runs under db.mu, so every method is one action.                 *)
(***************************************************************************)
EXTENDS Integers, Sequences

CONSTANTS
  Byte,       \* what a byte may be
  Chunk,      \* the byte strings one Write may append
  MaxRetain,  \* db.maxRetain: delivered bytes kept as a replay cushion
  MaxLog      \* bound: bytes ever written

ASSUME ChunkAssumption == Chunk \subseteq Seq(Byte)
ASSUME RetainAssumption == MaxRetain \in Nat \ {0}
ASSUME MaxLogAssumption == MaxLog \in Nat

VARIABLES
  buf,        \* db.buf
  discarded,  \* db.discarded: absolute offset of the first byte of buf
  delivered,  \* db.delivered: absolute offset acknowledged by the readers
  done,       \* db.done
  notify,     \* the channel db.notify, of capacity one, holds a token
  log         \* history: every byte ever appended

bufVars == <<buf, discarded, delivered, done, notify, log>>

BufInit ==
  /\ buf = <<>>
  /\ discarded = 0
  /\ delivered = 0
  /\ done = FALSE
  /\ notify = FALSE
  /\ log = <<>>

----------------------------------------------------------------------------
(* The end of the stream as an absolute offset. *)
End == discarded + Len(buf)

(* Whether compactLocked drops bytes, on the buffer b with the watermark d.  *)
Droppable(b, d) ==
  /\ d > discarded
  /\ d - MaxRetain > discarded
  /\ d - MaxRetain - discarded <= Len(b)

(* Compaction gone wrong: the cushion goes, or the floor moves although     *)
(* there is nothing to drop.                                                *)
CompactNoCushion(b, d) ==
  buf' = SubSeq(b, d - discarded + 1, Len(b)) /\ discarded' = d
CompactUnguarded(b, d) ==
  /\ buf' = IF Droppable(b, d) THEN SubSeq(b, d - MaxRetain - discarded + 1, Len(b)) ELSE b
  /\ discarded' = d - MaxRetain

(* compactLocked: forget what precedes the replay window. *)
CompactLocked(b, d) ==
  \/ /\ Droppable(b, d)
     /\ buf' = SubSeq(b, d - MaxRetain - discarded + 1, Len(b))
     /\ discarded' = d - MaxRetain
  \/ /\ ~Droppable(b, d)
     /\ buf' = b
     /\ discarded' = discarded

(* Write gone wrong: no signal, or no look at done. *)
WriteNoSignal(p) ==
  /\ ~done
  /\ Len(log) + Len(p) <= MaxLog
  /\ buf' = buf \o p
  /\ log' = log \o p
  /\ UNCHANGED <<discarded, delivered, done, notify>>
WriteAfterClose(p) ==
  /\ Len(log) + Len(p) <= MaxLog
  /\ buf' = buf \o p
  /\ log' = log \o p
  /\ notify' = TRUE
  /\ UNCHANGED <<discarded, delivered, done>>

(* Write on an open buffer; a write on a closed one returns ErrSessionClosed *)
(* and changes nothing.  The token is offered without blocking.              *)
Write(p) ==
  /\ ~done
  /\ Len(log) + Len(p) <= MaxLog
  /\ IF Len(buf) + Len(p) > 2 * MaxRetain
       THEN CompactLocked(buf \o p, delivered)
       ELSE buf' = buf \o p /\ discarded' = discarded
  /\ notify' = TRUE
  /\ log' = log \o p
  /\ UNCHANGED <<delivered, done>>

(* Advance: clamped to the end, ignored below the watermark. *)
Advance(off) ==
  LET d == IF off > End THEN End ELSE off IN
  /\ IF d <= delivered
       THEN UNCHANGED <<buf, discarded, delivered>>
       ELSE delivered' = d /\ CompactLocked(buf, d)
  /\ UNCHANGED <<done, notify, log>>

(* Close gone wrong: nobody is told. *)
CloseNoSignal ==
  /\ done' = TRUE
  /\ UNCHANGED <<buf, discarded, delivered, notify, log>>

Close ==
  /\ done' = TRUE
  /\ notify' = TRUE
  /\ UNCHANGED <<buf, discarded, delivered, log>>

(* A receive on Notify(). *)
TakeToken ==
  /\ notify
  /\ notify' = FALSE
  /\ UNCHANGED <<buf, discarded, delivered, done, log>>

(* ReadFrom(off, p) with room for n bytes: its errors, whether it copies, and *)
(* what it copies.                                                           *)
TooOld(off) == off < discarded
Drained(off) == ~TooOld(off) /\ off >= End /\ done
Available(off) == ~TooOld(off) /\ off < End
ReadFrom(off, n) ==
  SubSeq(buf, off - discarded + 1,
         IF off + n < End THEN off - discarded + n ELSE Len(buf))

----------------------------------------------------------------------------
(* The buffer under any client: any sequence of calls, with any arguments. *)
BufNext ==
  \/ \E p \in Chunk : Write(p)
  \/ \E off \in 0 .. MaxLog + 1 : Advance(off)
  \/ Close
  \/ TakeToken

BufSpec == BufInit /\ [][BufNext]_bufVars

----------------------------------------------------------------------------
(* Type correctness of the buffer. *)
BufTypeOK ==
  /\ buf \in Seq(Byte)
  /\ log \in Seq(Byte)
  /\ discarded \in Nat
  /\ delivered \in Nat
  /\ done \in BOOLEAN
  /\ notify \in BOOLEAN

(* Whatever the order of writes, acknowledgements and compactions, what is   *)
(* buffered is exactly the tail of what was written that starts at the       *)
(* discard floor: absolute offsets never drift (the contract in the comment  *)
(* at download_buffer.go:18-27).                                             *)
ContentExact == buf = SubSeq(log, discarded + 1, Len(log))

(* The floor is exactly the replay window behind the acknowledged watermark, *)
(* which never runs past the end: no undelivered byte and no byte of the     *)
(* replay cushion is ever dropped, and no delivered byte outside it is kept. *)
(* In particular compaction in Write finds nothing to do.                    *)
WindowExact ==
  /\ delivered <= Len(log)
  /\ discarded = IF delivered > MaxRetain THEN delivered - MaxRetain ELSE 0

(* A step never un-delivers, never un-discards, and never writes after Close *)
(* (splitConn.Write must fail once the session is closed).                   *)
Monotone ==
  [][/\ delivered' >= delivered
     /\ discarded' >= discarded
     /\ done => done' /\ log' = log]_bufVars
============================================================================
