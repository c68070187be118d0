------------------------------- MODULE Tunnel -------------------------------
(***************************************************************************)
(* One tunnel over its whole life: the client's conn with its retrying     *)
(* Read, its Write, markBroken and Close, and the sessions the server has  *)
(* for the tunnel's id, one after the other.  A session ends with its      *)
(* relay, is swept by the cleanup loop and dies with the process; the next *)
(* request of the client then finds, and creates, a fresh one.  The token  *)
(* is made once, when the tunnel is dialled, and grows too old meanwhile:  *)
(* its requests are answered by the fallback page.                         *)
(*                                                                         *)
(* Within one session the two directions are reliable streams (Download,   *)
(* Upload), so a response here is read straight from the session; a Write  *)
(* is one POST in packet mode, and in stream mode a piece of the one POST  *)
(* that Dial has started.  A downloaded byte is named by the session that  *)
(* sent it; its place in the session's stream is its place in received,    *)
(* since every GET asks for offset Len(received).  (Taken as given: at     *)
(* Dial the clocks of both ends agree to MaxTimeDiff.)                     *)
(***************************************************************************)
EXTENDS Integers, Sequences

CONSTANTS
  Modes,      \* the ways to upload: "packet", "stream"
  MaxSess,    \* bound: sessions the server creates for this id
  HsChunks,   \* Writes the client's handshake takes
  MaxUp,      \* bound: chunks the client writes
  MaxDown,    \* bound: bytes a relay writes to one session
  Restarts,   \* bound: restarts of the server
  Sweeps,     \* whether the cleanup loop runs
  Expires     \* whether the token may grow too old

Sess == 1 .. MaxSess
NoBody == 0
Page == -1    \* the fallback page: as a body, as where a byte came from, as
              \* what answered the stream POST

ASSUME ModesAssumption == Modes \subseteq {"packet", "stream"}
ASSUME BoundAssumption == MaxSess \in Nat \ {0} /\ MaxUp \in Nat /\ MaxDown \in Nat
ASSUME HsAssumption == HsChunks \in 1 .. MaxUp
ASSUME SwitchAssumption == Restarts \in Nat /\ Sweeps \in BOOLEAN /\ Expires \in BOOLEAN

VARIABLES
  mode,      \* clientConn.uploadMode
  feeds,     \* the session the stream POST has reached, or Page, or NoBody
  cur,       \* the session the manager has for the id, or 0
  count,     \* sessions created for it
  connected, \* sessions a GET has come for
  closed,    \* sessions that are closed
  held,      \* held[k]: the chunks in the queue of k
  nextSeq,   \* nextSeq[k]: chunks the tunnel on k has read
  down,      \* down[k]: bytes it has written
  restarts,
  expired,   \* the token is older than MaxTimeDiff
  body,      \* clientConn.downloadBody
  dead,      \* ... is closed, or its connection is gone
  rpc,       \* clientConn.Read: "idle", "loop", "read", or "failed" for good
  retries,
  received,
  wpc,       \* clientConn.Write: "idle" or "post"
  upSeq,     \* chunks numbered
  acked,     \* chunks written without an error
  broken,    \* brokenErr is set
  shut       \* Close has run

serverVars == <<cur, count, connected, closed, held, nextSeq, down, restarts>>
readerVars == <<body, dead, rpc, retries, received>>
writerVars == <<wpc, upSeq, acked, broken>>
postVars == <<mode, feeds>>
tunVars == <<serverVars, postVars, expired, readerVars, writerVars, shut>>

(* GenerateToken, once, in Dial: a token for this session, with the time of  *)
(* the dial.                                                                 *)
GenerateToken == expired = FALSE

(* Dial has sent the first GET and, in stream mode, launched the POST. *)
TunInit ==
  /\ mode \in Modes /\ feeds = NoBody
  /\ cur = 1 /\ count = 1 /\ connected = {1} /\ closed = {}
  /\ held = [k \in Sess |-> {}]
  /\ nextSeq = [k \in Sess |-> 0]
  /\ down = [k \in Sess |-> 0]
  /\ restarts = 0
  /\ GenerateToken
  /\ body = 1 /\ dead = FALSE
  /\ rpc = "idle" /\ retries = 0 /\ received = <<>>
  /\ wpc = "idle" /\ upSeq = 0 /\ acked = 0 /\ broken = FALSE
  /\ shut = FALSE

----------------------------------------------------------------------------
(* Validate: the one token of the tunnel is authentic, so it passes until it *)
(* is older than MaxTimeDiff.                                                *)
Validates == ~expired

(* GetOrCreate: the session a request gets. *)
GetOrCreate ==
  IF cur # 0
    THEN UNCHANGED <<cur, count>>
    ELSE count < MaxSess /\ count' = count + 1 /\ cur' = count'

(* The handshake takes turns: write the request, then read the answer.  What *)
(* follows runs in both directions at once.                                  *)
MayRead == acked >= HsChunks \/ broken
MayWrite == upSeq < HsChunks \/ received # <<>>

(* Read is entered. *)
ReadEnter ==
  /\ rpc = "idle" /\ MayRead
  /\ rpc' = IF broken THEN "failed" ELSE "loop"
  /\ retries' = 0
  /\ UNCHANGED <<serverVars, postVars, expired, body, dead, received, writerVars, shut>>

(* A Read that retries for ever. *)
RetryForever == retries' = retries /\ rpc' = "loop"

(* A round of the loop that found no body or lost it: again, or give up. *)
Retry ==
  IF retries < 2
    THEN retries' = retries + 1 /\ rpc' = "loop"
    ELSE retries' = retries /\ rpc' = "failed"

(* startDownload: the session's stream, or the fallback page with status 200.*)
StartDownload ==
  /\ rpc = "loop" /\ body = NoBody
  /\ \/ /\ Validates
        /\ GetOrCreate
        /\ connected' = connected \cup {cur'}
        /\ body' = cur'
     \/ /\ ~Validates
        /\ body' = Page
        /\ UNCHANGED <<cur, count, connected>>
  /\ rpc' = "read"
  /\ UNCHANGED <<closed, held, nextSeq, down, restarts, postVars, expired, dead, retries,
                 received, writerVars, shut>>

(* startDownload fails. *)
StartDownloadFails ==
  /\ rpc = "loop" /\ body = NoBody
  /\ Retry
  /\ UNCHANGED <<serverVars, postVars, expired, body, dead, received, writerVars, shut>>

(* There is a body already. *)
KeepBody ==
  /\ rpc = "loop" /\ body # NoBody
  /\ rpc' = "read"
  /\ UNCHANGED <<serverVars, postVars, expired, body, dead, retries, received, writerVars,
                 shut>>

(* The body has data, and Read returns it. *)
HasData == body \in Sess /\ ~dead /\ Len(received) < down[body]
HasPage == body = Page /\ ~dead /\ Len(received) < MaxDown
ReadData ==
  /\ rpc = "read"
  /\ HasData \/ HasPage
  /\ received' = Append(received, body)
  /\ rpc' = "idle"
  /\ UNCHANGED <<serverVars, postVars, expired, body, dead, retries, writerVars, shut>>

(* The body ends: it was closed or reset, or the handler has drained a       *)
(* session that is closed, or the page is over.                              *)
Ended == dead \/ body = Page \/ (body \in closed /\ ~HasData)
BodyEnds ==
  /\ rpc = "read" /\ Ended
  /\ body' = NoBody /\ dead' = FALSE
  /\ Retry
  /\ UNCHANGED <<serverVars, postVars, expired, received, writerVars, shut>>

(* The network resets the response. *)
Cut ==
  /\ body \in Sess /\ ~dead
  /\ dead' = TRUE
  /\ UNCHANGED <<serverVars, postVars, expired, body, rpc, retries, received, writerVars,
                 shut>>

----------------------------------------------------------------------------
(* Write is entered and posts its data under the next number. *)
WriteEnter ==
  /\ wpc = "idle" /\ ~broken /\ MayWrite
  /\ upSeq < MaxUp
  /\ upSeq' = upSeq + 1
  /\ wpc' = "post"
  /\ UNCHANGED <<serverVars, postVars, expired, readerVars, acked, broken, shut>>

(* The stream POST reaches the server, or the fallback site. *)
StreamPost ==
  /\ mode = "stream" /\ feeds = NoBody
  /\ \/ Validates /\ GetOrCreate /\ feeds' = cur'
     \/ ~Validates /\ feeds' = Page /\ UNCHANGED <<cur, count>>
  /\ UNCHANGED <<connected, closed, held, nextSeq, down, restarts, mode, expired,
                 readerVars, writerVars, shut>>

(* The data reaches a session: by a POST of its own, with GetOrCreate and    *)
(* PushUpload, or by the pipe into the body of the stream POST.              *)
Push ==
  /\ \/ mode = "packet" /\ Validates /\ GetOrCreate
     \/ mode = "stream" /\ ~shut /\ feeds \in Sess /\ UNCHANGED <<cur, count>>
  /\ LET k == IF mode = "packet" THEN cur' ELSE feeds IN
       held' = IF k \in closed THEN held ELSE [held EXCEPT ![k] = @ \cup {upSeq - 1}]
  /\ UNCHANGED <<connected, closed, nextSeq, down, restarts>>

(* ... or the fallback site, which stores nothing. *)
Ignored ==
  /\ \/ mode = "packet" /\ ~Validates
     \/ mode = "stream" /\ feeds = Page
  /\ UNCHANGED serverVars

(* The POST is answered with status 200, or the pipe takes the data. *)
PostOK ==
  /\ wpc = "post"
  /\ Push \/ Ignored
  /\ acked' = upSeq
  /\ wpc' = "idle"
  /\ UNCHANGED <<postVars, expired, readerVars, upSeq, broken, shut>>

(* The POST fails, before or after the data reached the server, and the      *)
(* stream POST at any time: markBroken.                                      *)
PostFails ==
  /\ wpc = "post" \/ (mode = "stream" /\ ~broken)
  /\ (wpc = "post" /\ Push) \/ UNCHANGED serverVars
  /\ broken' = TRUE
  /\ wpc' = "idle"
  /\ UNCHANGED <<postVars, expired, readerVars, upSeq, acked, shut>>

(* Close: by markBroken, or by whoever dialled, when Read has failed, the    *)
(* handshake was answered with a refusal, or the relay that follows it ends. *)
(* It closes the body there is, once.                                        *)
CloseConn ==
  /\ ~shut
  /\ broken \/ rpc = "failed" \/ received # <<>>
  /\ shut' = TRUE
  /\ dead' = (dead \/ body # NoBody)
  /\ UNCHANGED <<serverVars, postVars, expired, body, rpc, retries, received,
                 writerVars>>

CloseDue == (broken \/ rpc = "failed") /\ CloseConn

----------------------------------------------------------------------------
(* The tunnel on session k, which a GET has started, reads its next chunk. *)
Consume(k) ==
  /\ k \in connected \ closed
  /\ nextSeq[k] \in held[k]
  /\ held' = [held EXCEPT ![k] = @ \ {nextSeq[k]}]
  /\ nextSeq' = [nextSeq EXCEPT ![k] = @ + 1]
  /\ UNCHANGED <<cur, count, connected, closed, down, restarts, postVars, expired,
                 readerVars, writerVars, shut>>

(* A tunnel that relays before it has read the handshake, and one that waits.*)
ShakenAlways(k) == k \in connected

Shaken(k) == nextSeq[k] >= HsChunks

(* Once it has read the handshake it answers and relays the target ... *)
Relay(k) ==
  /\ k \notin closed /\ Shaken(k)
  /\ down[k] < MaxDown
  /\ down' = [down EXCEPT ![k] = @ + 1]
  /\ UNCHANGED <<cur, count, connected, closed, held, nextSeq, restarts, postVars, expired,
                 readerVars, writerVars, shut>>

(* ... until either end is done, and closes the session.  Before the         *)
(* handshake only the end of the stream POST ends it.                        *)
TunnelEnds(k) ==
  /\ k \notin closed
  /\ Shaken(k) \/ (k \in connected /\ feeds = k)
  /\ closed' = closed \cup {k}
  /\ held' = [held EXCEPT ![k] = {}]
  /\ UNCHANGED <<cur, count, connected, nextSeq, down, restarts, postVars, expired,
                 readerVars, writerVars, shut>>

(* (Bound: the last session is not forgotten, so that a request always finds *)
(* or makes one.)                                                            *)
MayForget == count < MaxSess

(* The cleanup loop forgets a session that is closed, and closes one no GET  *)
(* came for.                                                                 *)
Sweep ==
  /\ Sweeps /\ MayForget
  /\ cur # 0
  /\ \/ cur \in closed /\ UNCHANGED <<closed, held>>
     \/ /\ cur \notin connected
        /\ closed' = closed \cup {cur}
        /\ held' = [held EXCEPT ![cur] = {}]
  /\ cur' = 0
  /\ UNCHANGED <<count, connected, nextSeq, down, restarts, postVars, expired, readerVars,
                 writerVars, shut>>

(* The server restarts: its sessions and its connections are gone. *)
Restart ==
  /\ restarts < Restarts /\ MayForget
  /\ restarts' = restarts + 1
  /\ cur' = 0
  /\ closed' = 1 .. count
  /\ held' = [k \in Sess |-> {}]
  /\ dead' = (dead \/ body \in Sess)
  /\ UNCHANGED <<count, connected, nextSeq, down, postVars, expired, body, rpc, retries,
                 received, writerVars, shut>>

(* MaxTimeDiff has passed since Dial. *)
Expire ==
  /\ Expires /\ ~expired
  /\ expired' = TRUE
  /\ UNCHANGED <<serverVars, postVars, readerVars, writerVars, shut>>

----------------------------------------------------------------------------
Reader == ReadEnter \/ StartDownload \/ KeepBody \/ ReadData \/ BodyEnds

TunNext ==
  \/ Reader \/ StartDownloadFails \/ Cut
  \/ WriteEnter \/ StreamPost \/ PostOK \/ PostFails
  \/ CloseConn
  \/ \E k \in Sess : Consume(k) \/ Relay(k) \/ TunnelEnds(k)
  \/ Sweep \/ Restart \/ Expire

(* The client's goroutines and the server's go on, and a handshake that has  *)
(* begun is written.  The http.Client of packet mode has a timeout of 30 s,  *)
(* body included (cmd_connect.go:144), so a GET without end is cut; the one  *)
(* of stream mode has none.  Nothing obliges a target to write, a tunnel to  *)
(* end or an application to close.                                           *)
TunFairness ==
  /\ WF_tunVars(Reader)
  /\ WF_tunVars(upSeq < HsChunks /\ WriteEnter)
  /\ WF_tunVars(wpc = "post" /\ (PostOK \/ PostFails))
  /\ WF_tunVars(CloseDue)
  /\ WF_tunVars(mode = "packet" /\ Cut)
  /\ \A k \in Sess : WF_tunVars(Consume(k))

TunSpec == TunInit /\ [][TunNext]_tunVars
TunFairSpec == TunSpec /\ TunFairness

----------------------------------------------------------------------------
(* While the token is good, and whatever was cut, swept or restarted:  what  *)
(* the client reads is the stream of one session from its first byte, "zero  *)
(* data loss, zero duplicates" on reconnect (server.go:164-165), and no two  *)
(* sessions of the tunnel read a handshake, so it reaches its target at most *)
(* once.  A fresh session can neither answer nor dial, since the handshake   *)
(* it waits for went to another.                                             *)
OneOrigin ==
  received # <<>> =>
    /\ \A i \in 1 .. Len(received) : received[i] = received[1]
    /\ received[1] \in Sess
    /\ Len(received) <= down[received[1]]
OneTarget == \A j, k \in Sess : nextSeq[j] > 0 /\ nextSeq[k] > 0 => j = k
OneTunnel == OneTarget /\ (~expired => OneOrigin)

(* When the relay of the session ends from which the client has the answer   *)
(* to its handshake, and nobody closes the conn, the client's Read drains    *)
(* what is left and returns the end (download_buffer.go:141-144).            *)
EndReachesReader ==
  \A k \in Sess :
    (received # <<>> /\ k \in closed /\ body = k) ~> (rpc = "failed" \/ shut)

(* In packet mode that is so whatever was swept, restarted or closed, until  *)
(* the token is too old; in stream mode as long as the manager has the       *)
(* session too.                                                              *)
EndReachesReaderUnswept ==
  \A k \in Sess :
    (k \in closed /\ body = k) ~>
      (rpc = "failed" \/ expired \/ (mode = "stream" /\ cur # k))

============================================================================
