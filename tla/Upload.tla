------------------------------- MODULE Upload -------------------------------
(***************************************************************************)
(* The upload direction of one tunnel, end to end: clientConn.Write of     *)
(* src/internal/transport/xhttp/client.go and Session.  In packet mode     *)
(* Write cuts what it is given into numbered chunks and posts them         *)
(* concurrently; requests arrive in any order, late or never, and Session  *)
(* reassembles them for the relay.  In stream mode Write feeds the body of *)
(* one long POST.  The n-th chunk of the client's life is Chunk(n).        *)
(*                                                                         *)
(* Every request carries the one token of the conn.  Once it has grown old *)
(* the fallback site answers in the session's place, with status 200 too.  *)
(* (Taken as given: at Dial the clocks of both ends agree to MaxTimeDiff,  *)
(* and no chunk is longer than a server reads of a body, which is true of  *)
(* the ranges of the rotator and the server's default, rotator.go.)        *)
(***************************************************************************)
EXTENDS Session, FiniteSets

CONSTANT MaxInFlight   \* concurrent POSTs of one Write (8 in the code)

ASSUME MaxInFlightAssumption == MaxInFlight \in Nat \ {0}

VARIABLES
  uploadSeq,  \* clientConn.uploadSeq: chunks numbered so far
  base,       \* number of the first chunk of the current or last Write
  acked,      \* the chunks numbered below it belong to a Write that succeeded
  sent,       \* chunks whose POST was launched
  result,     \* result[i]: what the client knows of POST i
  wpc,        \* clientConn.Write: "idle" or "send"
  streamed,   \* chunks written into the body of the stream POST
  broken,     \* clientConn.brokenErr is set
  expired     \* the token is older than MaxTimeDiff

packetVars == <<uploadSeq, base, acked, sent, result, wpc>>
writeVars == <<packetVars, streamed, broken, expired>>
upVars == <<sessVars, writeVars>>

UpInit ==
  /\ SessInit
  /\ uploadSeq = 0 /\ base = 0 /\ acked = 0
  /\ sent = {}
  /\ result = [i \in Seqs |-> "none"]
  /\ wpc = "idle"
  /\ streamed = 0
  /\ broken = FALSE
  /\ expired = FALSE

Batch == base .. uploadSeq - 1
InFlight == {i \in sent : result[i] = "none"}

----------------------------------------------------------------------------
(* Write that does not look whether the conn is broken. *)
WriteBeginUnchecked ==
  /\ mode = "packet"
  /\ wpc = "idle"
  /\ \E n \in uploadSeq + 1 .. N : uploadSeq' = n
  /\ base' = uploadSeq
  /\ wpc' = "send"
  /\ UNCHANGED <<sessVars, acked, sent, result, streamed, broken, expired>>

(* Write is called with some chunks' worth of data and numbers them all. *)
WriteBegin ==
  /\ mode = "packet"
  /\ wpc = "idle"
  /\ ~broken
  /\ \E n \in uploadSeq + 1 .. N : uploadSeq' = n
  /\ base' = uploadSeq
  /\ wpc' = "send"
  /\ UNCHANGED <<sessVars, acked, sent, result, streamed, broken, expired>>

(* The loop over the chunks: the next POST, when the semaphore has room. *)
Launch ==
  /\ wpc = "send"
  /\ Cardinality(InFlight) < MaxInFlight
  /\ \E i \in Batch \ sent :
       /\ \A j \in Batch \ sent : i <= j
       /\ sent' = sent \cup {i}
  /\ UNCHANGED <<sessVars, uploadSeq, base, acked, result, wpc, streamed, broken, expired>>

(* Validate: the token of the conn passes until it is too old. *)
Validates == ~expired

(* A request reaches the server, possibly after the client gave it up. *)
Arrive(i) ==
  /\ i \in sent
  /\ Validates
  /\ PushUpload(i)
  /\ UNCHANGED writeVars

(* The client gets status 200, from the session that has taken the chunk or  *)
(* from the fallback site, which stores nothing; or it gets an error: a      *)
(* timeout, a reset.                                                         *)
Answer(i) ==
  /\ i \in InFlight
  /\ i \in posted \/ ~Validates
  /\ result' = [result EXCEPT ![i] = "ok"]
  /\ UNCHANGED <<sessVars, uploadSeq, base, acked, sent, wpc, streamed, broken, expired>>

Fail(i) ==
  /\ i \in InFlight
  /\ result' = [result EXCEPT ![i] = "err"]
  /\ UNCHANGED <<sessVars, uploadSeq, base, acked, sent, wpc, streamed, broken, expired>>

Collected == wpc = "send" /\ \A i \in Batch : result[i] # "none"

(* All outcomes are in: Write succeeds, or marks the conn broken. *)
WriteEnd ==
  /\ Collected
  /\ wpc' = "idle"
  /\ IF \A i \in Batch : result[i] = "ok"
       THEN acked' = uploadSeq /\ broken' = broken
       ELSE broken' = TRUE /\ acked' = acked
  /\ UNCHANGED <<sessVars, uploadSeq, base, sent, result, streamed, expired>>

(* Write in stream mode: the transport takes the data for the POST's body.   *)
WriteStream ==
  /\ mode = "stream"
  /\ ~broken
  /\ \E n \in streamed + 1 .. N : streamed' = n
  /\ UNCHANGED <<sessVars, packetVars, broken, expired>>

(* The stream POST fails, or it was answered, by the server or the fallback  *)
(* site, and its pipe refuses the next Write.                                *)
StreamFails ==
  /\ mode = "stream"
  /\ ~broken
  /\ broken' = TRUE
  /\ UNCHANGED <<sessVars, packetVars, streamed, expired>>

(* The server's handler of it, which reads no more than was written. *)
Pump ==
  /\ StreamHandler
  /\ taken' <= Bound[streamed]
  /\ UNCHANGED writeVars

ServerStep ==
  /\ \/ Validates /\ StreamPost
     \/ Reader \/ ReaderStops \/ CloseBegin \/ CloseRest
  /\ UNCHANGED writeVars

(* MaxTimeDiff has passed since Dial. *)
Expire ==
  /\ Validates
  /\ expired' = TRUE
  /\ UNCHANGED <<sessVars, packetVars, streamed, broken>>

UpNext ==
  \/ WriteBegin \/ Launch \/ WriteEnd
  \/ \E i \in Seqs : Arrive(i) \/ Answer(i) \/ Fail(i)
  \/ WriteStream \/ StreamFails
  \/ Pump \/ ServerStep
  \/ Expire

(* The server's goroutines go on, as in Session: the body of a POST yields   *)
(* data or ends, at the latest by the server's ReadTimeout (cmd_server.go).  *)
(* Nothing obliges a POST to arrive or the application to write.             *)
UpFairness ==
  /\ WF_upVars(Reader /\ UNCHANGED writeVars)
  /\ WF_upVars(CloseRest /\ UNCHANGED writeVars)
  /\ WF_upVars(Pump)

UpSpec == UpInit /\ [][UpNext]_upVars
UpFairSpec == UpSpec /\ UpFairness

----------------------------------------------------------------------------
(* Type correctness of the client's side. *)
UpTypeOK ==
  /\ SessTypeOK
  /\ uploadSeq \in 0 .. N /\ acked \in 0 .. uploadSeq
  /\ base \in 0 .. uploadSeq
  /\ sent \subseteq 0 .. uploadSeq - 1
  /\ result \in [Seqs -> {"none", "ok", "err"}]
  /\ wpc \in {"idle", "send"}
  /\ streamed \in 0 .. N
  /\ broken \in BOOLEAN /\ expired \in BOOLEAN

(* A permanent gap in the server's queue is never followed by the data of a  *)
(* later Write (client.go:366-370): a chunk whose POST failed belongs to the *)
(* last Write there is, and behind a chunk that the fallback site took for   *)
(* the session's nothing is stored either, although Writes go on and succeed.*)
(* While the token is good, what Write reported is in the session.           *)
GapIsLast ==
  /\ \A i \in Seqs : result[i] = "err" => i \in Batch
  /\ posted \subseteq 0 .. uploadSeq - 1
  /\ ~expired => 0 .. acked - 1 \subseteq posted
  /\ ~(0 .. base - 1 \subseteq posted) => posted \subseteq 0 .. base - 1

(* What was given to Write, in either mode. *)
Written == SubSeq(Stream, 1, Bound[IF mode = "packet" THEN uploadSeq ELSE streamed])

(* The other direction of the tunnel as its ends see it: what was given to   *)
(* Write is sent, and nothing is once the conn is broken.                    *)
UpStream == INSTANCE ReliableStream
              WITH Datum <- Byte, sent <- Written, rcvd <- got, ended <- broken

(* The concurrent POSTs and the reassembly, or the stream POST and its pipe, *)
(* implement one reliable stream.                                            *)
ImplementsStream == UpStream!Spec
============================================================================
