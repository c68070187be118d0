----------------------------- MODULE Camouflage -----------------------------
(***************************************************************************)
(* What a censor may see of a tunnel: RealityListener, which peeks at each *)
(* connection and either accepts it or forwards it to a real site, and on  *)
(* an accepted connection, as in TestRealityE2EAuthClientPasses, a token   *)
(* followed by what the padding middleware writes.  One client of ours,    *)
(* probes that send anything or nothing, and the direction client to       *)
(* server; of the other direction only its end is modelled.                *)
(***************************************************************************)
EXTENDS Integers, Sequences

CONSTANTS
  Client, Probes,  \* connections
  PeekLen,   \* how much authTest peeks at
  Data,      \* what the client's application writes
  Width,     \* 2^16: the lengths in a header are written modulo this
  MaxPad,    \* the most padding of a frame
  BufSize,   \* the reader's buffer
  MaxProbe   \* bound: what a probe sends

Conns == Probes \cup {Client}
Token == [t |-> "token", v |-> 0]
Junk == [t |-> "pad", v |-> 0]
Byte(d) == [t |-> "data", v |-> d]

ASSUME ConnsAssumption == Client \notin Probes
ASSUME SizesAssumption ==
  /\ PeekLen \in Nat \ {0} /\ BufSize \in Nat \ {0}
  /\ Width \in Nat \ {0, 1} /\ MaxPad \in 0 .. Width - 1 /\ MaxProbe \in Nat
ASSUME DataAssumption == Data \in Seq(Nat)

VARIABLES
  \* a connection: what was sent on it (history) and has not been read, its sender's end
  sent, wire, ended,
  \* PeekConn.peeked, what is left of it, and where the connection is
  peeked, place,
  \* forwarding: what the site got, whether it is there, the copies that are done
  toDest, destOpen, copied,
  \* the client's padding: what Write still has to frame, how much was written
  writing, written,
  \* the server's: what io.ReadFull has and wants, rBuf, and what Read returned
  phase, part, want, rBuf, rcvd

connVars == <<sent, wire, ended, peeked, place>>
fwdVars == <<toDest, destOpen, copied>>
writeVars == <<writing, written>>
readVars == <<phase, part, want, rBuf, rcvd>>
camVars == <<connVars, fwdVars, writeVars, readVars>>

CamInit ==
  /\ sent = [c \in Conns |-> <<>>] /\ wire = [c \in Conns |-> <<>>]
  /\ ended = [c \in Conns |-> FALSE]
  /\ peeked = [c \in Conns |-> <<>>] /\ place = [c \in Conns |-> "new"]
  /\ toDest = [c \in Conns |-> <<>>] /\ destOpen = [c \in Conns |-> FALSE]
  /\ copied = [c \in Conns |-> {}]
  /\ writing = <<>> /\ written = 0
  /\ phase = "token" /\ part = <<>> /\ want = 1 /\ rBuf = <<>> /\ rcvd = <<>>

Least(m, n) == IF m <= n THEN m ELSE n
First(s, n) == SubSeq(s, 1, n)
Rest(s, n) == SubSeq(s, n + 1, Len(s))

----------------------------------------------------------------------------
(* The far ends.  Our client connects with its token; a probe connects, and  *)
(* sends bytes that are no token when it likes.                              *)
Send(c, units) ==
  /\ sent' = [sent EXCEPT ![c] = @ \o units]
  /\ wire' = [wire EXCEPT ![c] = @ \o units]

Connect(c) ==
  /\ place[c] = "new"
  /\ place' = [place EXCEPT ![c] = "backlog"]
  /\ Send(c, IF c = Client THEN <<Token>> ELSE <<>>)
  /\ UNCHANGED <<ended, peeked, fwdVars, writeVars, readVars>>

ProbeSends(c) ==
  /\ place[c] # "new" /\ ~ended[c] /\ Len(sent[c]) < MaxProbe
  /\ Send(c, <<Byte(Len(sent[c]))>>)
  /\ UNCHANGED <<ended, peeked, place, fwdVars, writeVars, readVars>>

Hangup(c) ==
  /\ place[c] # "new" /\ ~ended[c] /\ (c = Client => writing = <<>>)
  /\ ended' = [ended EXCEPT ![c] = TRUE]
  /\ UNCHANGED <<sent, wire, peeked, place, fwdVars, writeVars, readVars>>

----------------------------------------------------------------------------
(* RealityListener.Accept has one connection at a time in authTest, which    *)
(* peeks: nothing that was read is lost, and a sender that is silent for 5 s *)
(* is judged by what it has sent.                                            *)
Accept(c) ==
  /\ place[c] = "backlog" /\ \A d \in Conns : place[d] # "peek"
  /\ place' = [place EXCEPT ![c] = "peek"]
  /\ UNCHANGED <<sent, wire, ended, peeked, fwdVars, writeVars, readVars>>

PeekReads(c) ==
  /\ place[c] = "peek"
  /\ \E n \in 1 .. Least(Len(wire[c]), PeekLen - Len(peeked[c])) :
       /\ peeked' = [peeked EXCEPT ![c] = @ \o First(wire[c], n)]
       /\ wire' = [wire EXCEPT ![c] = Rest(@, n)]
  /\ UNCHANGED <<sent, ended, place, fwdVars, writeVars, readVars>>

authTest(bytes) == bytes # <<>> /\ Head(bytes) = Token

(* Without the deadline a silent connection is peeked at for ever. *)
PeekEndsNoDeadline(c) ==
  /\ place[c] = "peek"
  /\ Len(peeked[c]) = PeekLen \/ (wire[c] = <<>> /\ ended[c])
  /\ place' = [place EXCEPT ![c] = IF authTest(peeked[c]) THEN "accepted" ELSE "dial"]
  /\ UNCHANGED <<sent, wire, ended, peeked, fwdVars, writeVars, readVars>>

PeekEnds(c) ==
  /\ place[c] = "peek"
  /\ Len(peeked[c]) = PeekLen \/ wire[c] = <<>>
  /\ place' = [place EXCEPT ![c] = IF authTest(peeked[c]) THEN "accepted" ELSE "dial"]
  /\ UNCHANGED <<sent, wire, ended, peeked, fwdVars, writeVars, readVars>>

(* PeekConn.Read(p), with n = len(p), gives what was peeked first.           *)
FromPeekedLast(c) == peeked[c] # <<>> /\ wire[c] = <<>>
FromPeeked(c) == peeked[c] # <<>>

Source(c) == IF FromPeeked(c) THEN peeked[c] ELSE wire[c]
Counts(c, n) ==
  IF FromPeeked(c) THEN {Least(n, Len(peeked[c]))} ELSE 1 .. Least(n, Len(wire[c]))
Take(c, k) ==
  IF FromPeeked(c)
    THEN peeked' = [peeked EXCEPT ![c] = Rest(@, k)] /\ UNCHANGED wire
    ELSE wire' = [wire EXCEPT ![c] = Rest(@, k)] /\ UNCHANGED peeked
AtEnd(c) == peeked[c] = <<>> /\ wire[c] = <<>> /\ ended[c]

----------------------------------------------------------------------------
(* forwardToDest: dial, two copies, and a wait for both.  A copy to a peer   *)
(* that is gone fails.                                                       *)
Dial(c) ==
  /\ place[c] = "dial"
  /\ \/ place' = [place EXCEPT ![c] = "forward"]
        /\ destOpen' = [destOpen EXCEPT ![c] = TRUE]
     \/ place' = [place EXCEPT ![c] = "closed"] /\ UNCHANGED destOpen
  /\ UNCHANGED <<sent, wire, ended, peeked, toDest, copied, writeVars, readVars>>

CopyDone(c, way) == copied' = [copied EXCEPT ![c] = @ \cup {way}]

CopyUp(c) ==
  /\ place[c] = "forward" /\ "up" \notin copied[c]
  /\ \E k \in Counts(c, Len(Source(c))) :
       /\ Take(c, k)
       /\ IF destOpen[c]
            THEN /\ toDest' = [toDest EXCEPT ![c] = @ \o First(Source(c), k)]
                 /\ UNCHANGED copied
            ELSE CopyDone(c, "up") /\ UNCHANGED toDest
  /\ UNCHANGED <<sent, ended, place, destOpen, writeVars, readVars>>

CopyUpEnds(c) ==
  /\ place[c] = "forward" /\ AtEnd(c) /\ "up" \notin copied[c]
  /\ CopyDone(c, "up")
  /\ UNCHANGED <<connVars, toDest, destOpen, writeVars, readVars>>

(* The site ends, or what it sends reaches nobody. *)
CopyDownEnds(c) ==
  /\ place[c] = "forward" /\ ~destOpen[c] /\ "down" \notin copied[c]
  /\ CopyDone(c, "down")
  /\ UNCHANGED <<connVars, toDest, destOpen, writeVars, readVars>>

CopyDownFails(c) ==
  /\ place[c] = "forward" /\ destOpen[c] /\ ended[c] /\ "down" \notin copied[c]
  /\ CopyDone(c, "down")
  /\ UNCHANGED <<connVars, toDest, destOpen, writeVars, readVars>>

DestHangsUp(c) ==
  /\ destOpen[c]
  /\ destOpen' = [destOpen EXCEPT ![c] = FALSE]
  /\ UNCHANGED <<connVars, toDest, copied, writeVars, readVars>>

(* The wait for the copies, and one for a copy too many. *)
WaitOver3(c) == copied[c] = {"up", "down", "other"}
WaitOver(c) == copied[c] = {"up", "down"}

ForwardReturns(c) ==
  /\ place[c] = "forward" /\ WaitOver(c)
  /\ place' = [place EXCEPT ![c] = "closed"]
  /\ destOpen' = [destOpen EXCEPT ![c] = FALSE]
  /\ UNCHANGED <<sent, wire, ended, peeked, toDest, copied, writeVars, readVars>>

----------------------------------------------------------------------------
(* paddingConn.Write: a piece of the data, in frames of at most 65535 bytes. *)
Write ==
  /\ place[Client] # "new" /\ ~ended[Client] /\ writing = <<>>
  /\ \E n \in written + 1 .. Len(Data) :
       writing' = SubSeq(Data, written + 1, n) /\ written' = n
  /\ UNCHANGED <<connVars, fwdVars, readVars>>

Frame(bytes, pad) ==
  <<[t |-> "real", v |-> Len(bytes) % Width], [t |-> "padding", v |-> pad % Width]>>
  \o [k \in 1 .. Len(bytes) |-> Byte(bytes[k])] \o [k \in 1 .. pad |-> Junk]

(* What fits into one frame. *)
FrameLen == Least(Len(writing), Width - 1)

WriteFrame ==
  /\ writing # <<>>
  /\ \E pad \in 0 .. MaxPad : Send(Client, Frame(First(writing, FrameLen), pad))
  /\ writing' = Rest(writing, FrameLen)
  /\ UNCHANGED <<ended, peeked, place, fwdVars, written, readVars>>

(* The server reads the token; then paddingConn.Read gives what is left of a *)
(* frame, or reads a header and a payload whole, in as many Reads as it takes*)
ReadPart ==
  /\ place[Client] = "accepted" /\ Len(part) < want
  /\ \E k \in Counts(Client, want - Len(part)) :
       Take(Client, k) /\ part' = part \o First(Source(Client), k)
  /\ UNCHANGED <<sent, ended, place, fwdVars, writeVars, phase, want, rBuf, rcvd>>

ReadToken ==
  /\ phase = "token" /\ Len(part) = 1
  /\ phase' = "header" /\ part' = <<>> /\ want' = 2
  /\ UNCHANGED <<connVars, fwdVars, writeVars, rBuf, rcvd>>

(* What follows a header: the data and its padding. *)
Payload(h) == h[1].v + h[2].v

ReadHeader ==
  /\ phase = "header" /\ rBuf = <<>> /\ Len(part) = 2
  /\ phase' = "payload" /\ want' = Len(part) + Payload(part)
  /\ UNCHANGED <<connVars, fwdVars, writeVars, part, rBuf, rcvd>>

(* A Read that hands the padding on as well. *)
ReadPayloadPadded ==
  /\ phase = "payload" /\ Len(part) = want
  /\ LET n == Least(BufSize, Payload(part))
     IN rcvd' = rcvd \o SubSeq(part, 3, 2 + n) /\ rBuf' = Rest(part, 2 + n)
  /\ phase' = "header" /\ part' = <<>> /\ want' = 2
  /\ UNCHANGED <<connVars, fwdVars, writeVars>>

ReadPayload ==
  /\ phase = "payload" /\ Len(part) = want
  /\ LET real == SubSeq(part, 3, 2 + part[1].v)
         n == Least(BufSize, Len(real))
     IN rcvd' = rcvd \o First(real, n) /\ rBuf' = Rest(real, n)
  /\ phase' = "header" /\ part' = <<>> /\ want' = 2
  /\ UNCHANGED <<connVars, fwdVars, writeVars>>

ReadLeftover ==
  /\ rBuf # <<>>
  /\ LET n == Least(BufSize, Len(rBuf))
     IN rcvd' = rcvd \o First(rBuf, n) /\ rBuf' = Rest(rBuf, n)
  /\ UNCHANGED <<connVars, fwdVars, writeVars, phase, part, want>>

----------------------------------------------------------------------------
Forward(c) == Dial(c) \/ CopyUp(c) \/ CopyUpEnds(c) \/ CopyDownEnds(c) \/ ForwardReturns(c)
Listen(c) == Accept(c) \/ PeekReads(c) \/ PeekEnds(c)
Receive == ReadPart \/ ReadToken \/ ReadHeader \/ ReadPayload \/ ReadLeftover

CamNext ==
  \/ \E c \in Conns :
       \/ Connect(c) \/ Hangup(c) \/ Listen(c) \/ Forward(c)
       \/ CopyDownFails(c) \/ DestHangsUp(c)
  \/ \E c \in Probes : ProbeSends(c)
  \/ Write \/ WriteFrame \/ Receive

(* Goroutines go on, and the deadline of a Peek passes. *)
CamSpec == CamInit /\ [][CamNext]_camVars
CamFairSpec ==
  /\ CamSpec
  /\ \A c \in Conns : WF_camVars(Listen(c)) /\ WF_camVars(Forward(c))
  /\ WF_camVars(WriteFrame) /\ WF_camVars(Receive)

----------------------------------------------------------------------------
(* Peeking is transparent: what reaches the site is what the probe sent, in  *)
(* order, and nothing is missing that is not still to be read (io.Copy takes *)
(* the peeked bytes first) unless the site is gone.                          *)
DestSeesProbe ==
  \A c \in Conns : place[c] = "forward" /\ destOpen[c] =>
     toDest[c] \o peeked[c] \o wire[c] = sent[c]

(* Through token, peeking, frames of a bounded length, short reads of headers*)
(* and payloads and the leftovers of a frame the server reads one stream, to *)
(* its last byte: no length in a header wraps round, so that the reader never*)
(* waits for bytes that are not of the frame.                                *)
Tunnelled ==
  INSTANCE ReliableStream WITH
    Datum <- {Byte(Data[k]) : k \in 1 .. Len(Data)},
    sent <- [k \in 1 .. written |-> Byte(Data[k])],
    rcvd <- rcvd, ended <- ended[Client]
ImplementsStream ==
  /\ Tunnelled!Spec
  /\ (place[Client] = "accepted" /\ ended[Client]) ~> Len(rcvd) = written

(* Our client is accepted whatever other connections are silent: each holds  *)
(* up the listener for the deadline of a Peek at most.                       *)
ClientAccepted == place[Client] = "backlog" ~> place[Client] = "accepted"

(* A forwarded connection whose two ends are gone is let go.  (With one end  *)
(* gone it is not: the other copy waits, so a probe does not see the site's  *)
(* end before its own.)                                                      *)
ForwardEnds ==
  \A c \in Conns :
     (place[c] = "forward" /\ ended[c] /\ ~destOpen[c]) ~> place[c] = "closed"
=============================================================================
