------------------------------ MODULE Download ------------------------------
(***************************************************************************)
(* The download direction of one session: the relay on the server writes   *)
(* the replay buffer, GET handlers (Server.handleDownload) copy it into    *)
(* their responses, the network carries or cuts those responses, and the   *)
(* client (clientConn.Read) reads the current one and, when it breaks,     *)
(* issues another GET at the offset it has reached.  The server learns of  *)
(* a cut late or never, so several handlers may run on one buffer.         *)
(***************************************************************************)
EXTENDS DownloadBuffer

CONSTANTS
  Gets,     \* the GET requests the client may issue in its life
  NoGet,    \* the client has no response body
  BufSize,  \* the handler's copy buffer, in bytes
  Cap       \* bytes one response may hold between handler and client

ASSUME NoGetAssumption == NoGet \notin Gets
ASSUME BufSizeAssumption == BufSize \in Nat \ {0}
ASSUME CapAssumption == Cap \in Nat \ {0}

VARIABLES
  pc,        \* pc[g]: where the handler of g is
  off,       \* off[g]: the handler's offset, after the chunk in hand
  chunk,     \* chunk[g]: bytes read from the buffer, not written out yet
  wire,      \* wire[g]: bytes of the response the client has not read yet
  link,      \* link[g]: whether the response still reaches the client
  body,      \* clientConn.downloadBody: the GET the client reads from
  received   \* bytes Read returned; their number is downloadOffset

handlerVars == <<pc, off, chunk>>
netVars == <<wire, link>>
clientVars == <<body, received>>
vars == <<bufVars, handlerVars, netVars, clientVars>>

Init ==
  /\ BufInit
  /\ pc = [g \in Gets |-> "idle"]
  /\ off = [g \in Gets |-> 0]
  /\ chunk = [g \in Gets |-> <<>>]
  /\ wire = [g \in Gets |-> <<>>]
  /\ link = [g \in Gets |-> "none"]
  /\ body = NoGet
  /\ received = <<>>

Running(g) == pc[g] \notin {"idle", "returned"}

----------------------------------------------------------------------------
(* The relay: splitConn.Write and splitConn.Close. *)
RelayWrite ==
  /\ \E p \in Chunk : Write(p)
  /\ UNCHANGED <<handlerVars, netVars, clientVars>>

RelayClose ==
  /\ ~done
  /\ Close
  /\ UNCHANGED <<handlerVars, netVars, clientVars>>

(* A GET that asks for the whole stream, or for the last byte it has again.  *)
StartDownloadAt(g, o) ==
  /\ body = NoGet
  /\ pc[g] = "idle"
  /\ pc' = [pc EXCEPT ![g] = "read"]
  /\ off' = [off EXCEPT ![g] = o]
  /\ link' = [link EXCEPT ![g] = "up"]
  /\ body' = g
  /\ UNCHANGED <<bufVars, chunk, wire, received>>
StartDownloadFromZero(g) == StartDownloadAt(g, 0)
(* startDownload: with no body the client asks for the stream from the       *)
(* offset it has reached, and the handler of the request starts there.       *)
StartDownload(g) ==
  /\ body = NoGet
  /\ pc[g] = "idle"
  /\ pc' = [pc EXCEPT ![g] = "read"]
  /\ off' = [off EXCEPT ![g] = Len(received)]
  /\ link' = [link EXCEPT ![g] = "up"]
  /\ body' = g
  /\ UNCHANGED <<bufVars, chunk, wire, received>>

(* A handler that acknowledges what it reads before it has written it. *)
HandlerReadAcks(g) ==
  /\ pc[g] = "read"
  /\ Available(off[g])
  /\ LET r == ReadFrom(off[g], BufSize) IN
       /\ chunk' = [chunk EXCEPT ![g] = r]
       /\ off' = [off EXCEPT ![g] = @ + Len(r)]
       /\ Advance(off[g] + Len(r))
  /\ pc' = [pc EXCEPT ![g] = "write"]
  /\ UNCHANGED <<netVars, clientVars>>

(* The top of the handler's loop: copy what is there, return on an error,    *)
(* or go and wait.                                                           *)
HandlerRead(g) ==
  /\ pc[g] = "read"
  /\ \/ /\ Available(off[g])
        /\ chunk' = [chunk EXCEPT ![g] = ReadFrom(off[g], BufSize)]
        /\ off' = [off EXCEPT ![g] = @ + Len(ReadFrom(off[g], BufSize))]
        /\ pc' = [pc EXCEPT ![g] = "write"]
     \/ /\ TooOld(off[g]) \/ Drained(off[g])
        /\ pc' = [pc EXCEPT ![g] = "returned"]
        /\ UNCHANGED <<off, chunk>>
     \/ /\ ~TooOld(off[g]) /\ ~Drained(off[g]) /\ ~Available(off[g])
        /\ pc' = [pc EXCEPT ![g] = "wait"]
        /\ UNCHANGED <<off, chunk>>
  /\ UNCHANGED <<bufVars, netVars, clientVars>>

(* w.Write hands the chunk over piece by piece as the response has room,     *)
(* also when nobody reads it any more.                                       *)
HandlerWrite(g) ==
  /\ pc[g] = "write"
  /\ \E n \in 1 .. Len(chunk[g]) :
       /\ Len(wire[g]) + n <= Cap
       /\ wire' = [wire EXCEPT ![g] = @ \o SubSeq(chunk[g], 1, n)]
       /\ chunk' = [chunk EXCEPT ![g] = SubSeq(@, n + 1, Len(@))]
       /\ pc' = [pc EXCEPT ![g] = IF n = Len(chunk[g]) THEN "ack" ELSE @]
  /\ UNCHANGED <<bufVars, off, link, clientVars>>

(* w.Write fails once the server has learnt that the response was cut. *)
HandlerWriteFails(g) ==
  /\ pc[g] = "write"
  /\ link[g] = "cut"
  /\ pc' = [pc EXCEPT ![g] = "returned"]
  /\ UNCHANGED <<bufVars, off, chunk, netVars, clientVars>>

(* The whole chunk is written and flushed: acknowledge it to the buffer. *)
HandlerAck(g) ==
  /\ pc[g] = "ack"
  /\ Advance(off[g])
  /\ pc' = [pc EXCEPT ![g] = "read"]
  /\ UNCHANGED <<off, chunk, netVars, clientVars>>

(* The select of a waiting handler: a token, or the request's context. *)
HandlerWake(g) ==
  /\ pc[g] = "wait"
  /\ TakeToken
  /\ pc' = [pc EXCEPT ![g] = "read"]
  /\ UNCHANGED <<off, chunk, netVars, clientVars>>

HandlerCancel(g) ==
  /\ pc[g] = "wait"
  /\ link[g] = "cut"
  /\ pc' = [pc EXCEPT ![g] = "returned"]
  /\ UNCHANGED <<bufVars, off, chunk, netVars, clientVars>>

(* Read returns the next bytes of the body and counts them. *)
ClientRead ==
  /\ body # NoGet
  /\ \E n \in 1 .. Len(wire[body]) :
       /\ received' = received \o SubSeq(wire[body], 1, n)
       /\ wire' = [wire EXCEPT ![body] = SubSeq(@, n + 1, Len(@))]
  /\ UNCHANGED <<bufVars, handlerVars, link, body>>

(* The handler returned and its bytes are read: the body ends and Read drops *)
(* it, to ask again on its next round.                                       *)
ClientEOF ==
  /\ body # NoGet
  /\ pc[body] = "returned"
  /\ wire[body] = <<>>
  /\ body' = NoGet
  /\ UNCHANGED <<bufVars, handlerVars, netVars, received>>

(* The response breaks: what it still holds is lost, the client drops the    *)
(* body, and the handler will find out in its own time.                      *)
Cut(g) ==
  /\ link[g] = "up"
  /\ body = g
  /\ link' = [link EXCEPT ![g] = "cut"]
  /\ body' = NoGet
  /\ UNCHANGED <<bufVars, handlerVars, wire, received>>

Handler(g) ==
  \/ HandlerRead(g) \/ HandlerWrite(g) \/ HandlerWriteFails(g)
  \/ HandlerAck(g) \/ HandlerWake(g) \/ HandlerCancel(g)

Next ==
  \/ RelayWrite \/ RelayClose
  \/ \E g \in Gets : StartDownload(g) \/ Handler(g) \/ Cut(g)
  \/ ClientRead \/ ClientEOF

(* The Go scheduler runs every goroutine that can go on; a select that is    *)
(* offered a token again and again takes one; the client keeps reading and   *)
(* reconnecting.  Nothing obliges the relay to write or the network to cut.  *)
Fairness ==
  /\ \A g \in Gets :
       /\ WF_vars(HandlerRead(g)) /\ WF_vars(HandlerWrite(g))
       /\ WF_vars(HandlerWriteFails(g)) /\ WF_vars(HandlerAck(g))
       /\ SF_vars(HandlerWake(g)) /\ WF_vars(HandlerCancel(g))
       /\ WF_vars(StartDownload(g))
  /\ WF_vars(ClientRead) /\ WF_vars(ClientEOF)

Spec == Init /\ [][Next]_vars
FairSpec == Spec /\ Fairness

----------------------------------------------------------------------------
(* Type correctness of the handlers, the network and the client. *)
TypeOK ==
  /\ BufTypeOK
  /\ pc \in [Gets -> {"idle", "read", "write", "ack", "wait", "returned"}]
  /\ off \in [Gets -> Nat]
  /\ chunk \in [Gets -> Seq(Byte)]
  /\ wire \in [Gets -> Seq(Byte)]
  /\ link \in [Gets -> {"none", "up", "cut"}]
  /\ body \in Gets \cup {NoGet}
  /\ received \in Seq(Byte)

(* "On reconnect, resume from that offset -- zero data loss, zero            *)
(* duplicates" (server.go:164-165): what the client has read over all its    *)
(* GETs is a prefix of what the relay wrote, wherever the responses broke    *)
(* and whatever stale handlers did to the buffer meanwhile.                  *)
ZeroLossZeroDup ==
  /\ Len(received) <= Len(log)
  /\ received = SubSeq(log, 1, Len(received))

(* The replay cushion suffices (download_buffer.go:20-24): if no response    *)
(* can hold more than the replay window, the buffer still answers for the    *)
(* offset the client would resume from, so a reconnect never meets           *)
(* ErrOffsetTooOld, even after stale handlers acknowledged bytes that the    *)
(* client never got.                                                         *)
Resumable == Cap <= MaxRetain => ~TooOld(Len(received))

(* The client can go no further: it has spent its GETs. *)
Stranded == body = NoGet /\ \A g \in Gets : pc[g] # "idle"

(* "GET broke -- data safe in buffer, next GET resumes" (server.go:180):     *)
(* whatever was written is read by the client, as long as it has GETs left.  *)
NextGetResumes ==
  \A n \in 1 .. MaxLog :
    Len(log) >= n ~> (Len(received) >= n \/ Stranded)

(* The network never leaves a stale handler behind: the handler of a GET has *)
(* returned before the next GET comes.                                       *)
Alone == [](\A g, h \in Gets : Running(g) /\ Running(h) => g = h)

(* The promise holds when handlers do not meet: then no notification is lost *)
(* between a write and a wait, wherever the responses broke.                 *)
NextGetResumesAlone == Alone => NextGetResumes

(* Closing the buffer lets the current handler drain it and end the response *)
(* (download_buffer.go:141-144), so the client learns of the end -- again    *)
(* when handlers do not meet, since Close leaves one token for all of them.  *)
CloseEndsResponseAlone == Alone => (done ~> (body = NoGet))

(* One direction of the tunnel as its ends see it. *)
Stream == INSTANCE ReliableStream
            WITH Datum <- Byte, sent <- log, rcvd <- received, ended <- done

(* The handlers, the cuts and the reconnects implement one reliable stream. *)
ImplementsStream == Stream!Spec
============================================================================
