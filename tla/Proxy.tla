------------------------------- MODULE Proxy --------------------------------
(***************************************************************************)
(* One proxied TCP connection from end to end: an application speaks       *)
(* SOCKS5 to handleSOCKS5Client of cmd/nv/cmd_connect.go, which dials a    *)
(* tunnel, asks handleTunnel of cmd/nv/cmd_server.go for the target with a *)
(* frame, waits for the ACK frame and then relays; the server dials the    *)
(* target, answers and relays too.  Each relay is two io.Copy goroutines   *)
(* and one close of both its ends.                                         *)
(*                                                                         *)
(* The tunnel is two reliable streams, as Download and Upload have it; a   *)
(* frame is two units in them, its header and its payload, and a unit of   *)
(* data is whatever one Read of a copy returns.                            *)
(***************************************************************************)
EXTENDS Integers, Sequences

CONSTANTS
  Host,          \* the hosts an application may ask for
  Quad,          \* those that are dotted quads
  QuadOf,        \* the dotted quad a host begins with, or None
  None,
  AppStream,     \* what the application may send
  TargetStream   \* what the target may send

ASSUME HostAssumption ==
  /\ Quad \subseteq Host /\ None \notin Host
  /\ QuadOf \in [Host -> Quad \cup {None}]
  /\ \A q \in Quad : QuadOf[q] = q
ASSUME StreamAssumption ==
  /\ AppStream \in Seq({AppStream[i] : i \in 1 .. Len(AppStream)})
  /\ TargetStream \in Seq({TargetStream[i] : i \in 1 .. Len(TargetStream)})

Mode == {"packet", "stream"}
Copier == {"cUp", "cDown", "sUp", "sDown"}

VARIABLES
  mode,      \* clientConn.uploadMode
  host,      \* what the application asks for
  req,       \* the Request the server has decoded, or None
  dialled,   \* the host the server is connected to, or None
  cpc,       \* where handleSOCKS5Client is
  spc,       \* where handleTunnel is
  inbox,     \* inbox[p]: what pipe p holds for its reader
  fin,       \* the pipes whose writer has ended them
  closed,    \* the ends the two handlers have closed: "socks" and "conn" of
             \* the client, "split" and "target" of the server
  copy,      \* copy[c]: where the copy goroutine c is
  held,      \* held[c]: what it has read and not written yet
  appSent, targetSent,      \* how much of each stream was sent
  toApp, toTarget,          \* what was written to the application, the target
  fault      \* a call on the tunnel has failed

idVars == <<mode, host, req, dialled>>
endVars == <<appSent, targetSent, toApp, toTarget>>
pipeVars == <<inbox, fin, closed>>
copyVars == <<copy, held>>
proxyVars == <<idVars, cpc, spc, pipeVars, copyVars, endVars, fault>>

ProxyInit ==
  /\ mode \in Mode
  /\ host \in Host
  /\ req = None /\ dialled = None
  /\ cpc = "socks" /\ spc = "header"
  /\ inbox = [p \in {"a2c", "c2s", "t2s", "s2c"} |-> <<>>]
  /\ fin = {} /\ closed = {}
  /\ copy = [c \in Copier |-> "off"]
  /\ held = [c \in Copier |-> <<>>]
  /\ appSent = 0 /\ targetSent = 0
  /\ toApp = <<>> /\ toTarget = <<>>
  /\ fault = FALSE

----------------------------------------------------------------------------
(* The two outer ends: they send what they like, whenever they like, and     *)
(* hang up when they like.                                                   *)
AppSends ==
  /\ "a2c" \notin fin /\ appSent < Len(AppStream)
  /\ appSent' = appSent + 1
  /\ inbox' = [inbox EXCEPT !["a2c"] = Append(@, AppStream[appSent'])]
  /\ UNCHANGED <<idVars, cpc, spc, fin, closed, copyVars, targetSent, toApp,
                 toTarget, fault>>

AppHangsUp ==
  /\ "a2c" \notin fin
  /\ fin' = fin \cup {"a2c"}
  /\ UNCHANGED <<idVars, cpc, spc, inbox, closed, copyVars, endVars, fault>>

TargetSends ==
  /\ dialled # None /\ "t2s" \notin fin /\ targetSent < Len(TargetStream)
  /\ targetSent' = targetSent + 1
  /\ inbox' = [inbox EXCEPT !["t2s"] = Append(@, TargetStream[targetSent'])]
  /\ UNCHANGED <<idVars, cpc, spc, fin, closed, copyVars, appSent, toApp,
                 toTarget, fault>>

TargetHangsUp ==
  /\ dialled # None /\ "t2s" \notin fin
  /\ fin' = fin \cup {"t2s"}
  /\ UNCHANGED <<idVars, cpc, spc, inbox, closed, copyVars, endVars, fault>>

----------------------------------------------------------------------------
(* What a close of the handlers' own ends does to the streams: the server's  *)
(* ends the download after what is buffered, the client's ends the upload in *)
(* stream mode and tells the server nothing in packet mode.                  *)
CloseEnds(E) ==
  /\ closed' = closed \cup E
  /\ fin' = fin \cup (IF "split" \in E THEN {"s2c"} ELSE {})
                \cup (IF "conn" \in E /\ mode = "stream" THEN {"c2s"} ELSE {})

(* parseIPv4: fmt.Sscanf takes whatever begins with four numbers for an IPv4 *)
(* address, and the rest of the name is dropped.                             *)
parseIPv4(h) == QuadOf[h]
EncodeConnectPayload(h) ==
  IF parseIPv4(h) # None THEN <<"ipv4", parseIPv4(h)>> ELSE <<"domain", h>>
DecodeConnectPayload(p) == p[2]

(* A reader of frames that takes all there is. *)
AfterFrameNothing(p) == <<>>

(* WriteFrame makes two Writes, of the header and of the payload; ReadFrame  *)
(* takes both, when they are there, and leaves what follows.                 *)
WriteFrame(cmd, payload) == <<cmd, payload>>
FrameIn(p) == Len(inbox[p]) >= 2
ReadFrame(p) == inbox[p][2]
AfterFrame(p) == SubSeq(inbox[p], 3, Len(inbox[p]))

(* handleSOCKS5Client gives up: SOCKS5SendFailure and the deferred closes. *)
GiveUp(reply) ==
  /\ cpc' = "done"
  /\ toApp' = toApp \o reply
  /\ CloseEnds({"socks"} \cup (IF cpc \in {"socks", "dial"} THEN {} ELSE {"conn"}))

(* SOCKS5Handshake: a request it can serve, one it refuses by name, and one  *)
(* it hangs up on.                                                           *)
SocksRequest ==
  /\ cpc = "socks"
  /\ \/ cpc' = "dial" /\ UNCHANGED <<toApp, fin, closed>>
     \/ \E r \in {<<"command not supported">>, <<"address type not supported">>, <<>>} :
          GiveUp(r)
  /\ UNCHANGED <<idVars, spc, inbox, copyVars, appSent, targetSent, toTarget,
                 fault>>

(* Manager.Dial. *)
DialTunnel ==
  /\ cpc = "dial"
  /\ \/ cpc' = "request" /\ UNCHANGED <<toApp, fin, closed>>
     \/ GiveUp(<<"failure">>)
  /\ UNCHANGED <<idVars, spc, inbox, copyVars, appSent, targetSent, toTarget,
                 fault>>

(* Client.Handshake writes the request, or fails after a part of it ...      *)
SendRequest ==
  /\ cpc = "request"
  /\ LET frame == WriteFrame("CONNECT", EncodeConnectPayload(host))
     IN  \/ /\ inbox' = [inbox EXCEPT !["c2s"] = @ \o frame]
            /\ cpc' = "ack"
            /\ UNCHANGED <<toApp, fin, closed, fault>>
         \/ /\ \E n \in 0 .. 1 :
                 inbox' = [inbox EXCEPT !["c2s"] = @ \o SubSeq(frame, 1, n)]
            /\ GiveUp(<<"failure">>)
            /\ fault' = TRUE
  /\ UNCHANGED <<idVars, spc, copyVars, appSent, targetSent, toTarget>>

(* ... and reads the ACK frame: the relay starts if it says OK. *)
ReadAck ==
  /\ cpc = "ack"
  /\ FrameIn("s2c")
  /\ inbox' = [inbox EXCEPT !["s2c"] = AfterFrame("s2c")]
  /\ IF ReadFrame("s2c") = "OK"
       THEN /\ cpc' = "relay"
            /\ toApp' = Append(toApp, "success")
            /\ copy' = [copy EXCEPT !["cUp"] = "read", !["cDown"] = "read"]
            /\ UNCHANGED <<fin, closed>>
       ELSE GiveUp(<<"failure">>) /\ UNCHANGED copy
  /\ UNCHANGED <<idVars, spc, held, appSent, targetSent, toTarget, fault>>

(* The tunnel ends before the ACK, or Read fails three times in a row. *)
AckLost ==
  /\ cpc = "ack"
  /\ \/ ~FrameIn("s2c") /\ "s2c" \in fin /\ UNCHANGED fault
     \/ fault' = TRUE
  /\ GiveUp(<<"failure">>)
  /\ UNCHANGED <<idVars, spc, inbox, copyVars, appSent, targetSent, toTarget>>

(* The long POST of stream mode breaks: to the server that is its end. *)
StreamBreaks ==
  /\ mode = "stream" /\ cpc \in {"ack", "relay"} /\ "c2s" \notin fin
  /\ fin' = fin \cup {"c2s"}
  /\ fault' = TRUE
  /\ UNCHANGED <<idVars, cpc, spc, inbox, closed, copyVars, endVars>>

----------------------------------------------------------------------------
(* Server.HandleConnection: the request frame, or the end of the upload. *)
ReadRequest ==
  /\ spc = "header"
  /\ FrameIn("c2s")
  /\ req' = DecodeConnectPayload(ReadFrame("c2s"))
  /\ inbox' = [inbox EXCEPT !["c2s"] = AfterFrame("c2s")]
  /\ spc' = "dial"
  /\ UNCHANGED <<mode, host, dialled, cpc, fin, closed, copyVars, endVars,
                 fault>>

RequestLost ==
  /\ spc = "header"
  /\ ~FrameIn("c2s") /\ "c2s" \in fin
  /\ spc' = "done"
  /\ CloseEnds({"split"})
  /\ UNCHANGED <<idVars, cpc, inbox, copyVars, endVars, fault>>

(* An answer that does not depend on the dial. *)
SendACKAnyway(status) == inbox' = [inbox EXCEPT !["s2c"] = @ \o WriteFrame("ACK", "OK")]

(* SendACK: a frame into the download, between whose Writes nobody comes. *)
SendACK(status) == inbox' = [inbox EXCEPT !["s2c"] = @ \o WriteFrame("ACK", status)]

(* handleTunnel dials the target and answers; it relays or closes. *)
DialTarget ==
  /\ spc = "dial"
  /\ \/ /\ dialled' = req
        /\ SendACK("OK")
        /\ spc' = "relay"
        /\ copy' = [copy EXCEPT !["sUp"] = "read", !["sDown"] = "read"]
        /\ UNCHANGED <<fin, closed>>
     \/ /\ SendACK("Unreachable")
        /\ spc' = "done"
        /\ CloseEnds({"split"})
        /\ UNCHANGED <<dialled, copy>>
  /\ UNCHANGED <<mode, host, req, cpc, held, endVars, fault>>

----------------------------------------------------------------------------
(* The four copies of the two relays. *)
Source == [cUp |-> "a2c", cDown |-> "s2c", sUp |-> "c2s", sDown |-> "t2s"]
EndsSource(c) ==
  CASE c = "cUp" -> {"socks"} [] c = "cDown" -> {"conn"}
    [] c = "sUp" -> {"split"} [] c = "sDown" -> {"target"}
Ends(c) == IF c \in {"cUp", "cDown"} THEN {"socks", "conn"} ELSE {"split", "target"}

(* A Read after its end was closed fails, but for the client's conn: its     *)
(* Read repeats the GET, and the session may still be there.                 *)
ReadsClosed(c) ==
  \/ c = "cUp" /\ "socks" \in closed
  \/ c = "sUp" /\ "split" \in closed
  \/ c = "sDown" /\ "target" \in closed

CopyReads(c) ==
  /\ copy[c] = "read" /\ ~ReadsClosed(c)
  /\ inbox[Source[c]] # <<>>
  /\ held' = [held EXCEPT ![c] = <<Head(inbox[Source[c]])>>]
  /\ inbox' = [inbox EXCEPT ![Source[c]] = Tail(@)]
  /\ copy' = [copy EXCEPT ![c] = "write"]
  /\ UNCHANGED <<idVars, cpc, spc, fin, closed, endVars, fault>>

(* A copy that sees the end before what came ahead of it, and one that does  *)
(* not.                                                                      *)
AtEndEarly(c) == ReadsClosed(c) \/ Source[c] \in fin

AtEnd(c) == ReadsClosed(c) \/ (inbox[Source[c]] = <<>> /\ Source[c] \in fin)

CopySeesEnd(c) ==
  /\ copy[c] = "read" /\ AtEnd(c)
  /\ copy' = [copy EXCEPT ![c] = "end"]
  /\ UNCHANGED <<idVars, cpc, spc, pipeVars, held, endVars, fault>>

(* clientConn.Read fails after three GETs, each cut or, where the client of  *)
(* packet mode has a timeout, too long silent.                               *)
CopyReadFails ==
  /\ copy["cDown"] = "read"
  /\ copy' = [copy EXCEPT !["cDown"] = "end"]
  /\ fault' = TRUE
  /\ UNCHANGED <<idVars, cpc, spc, pipeVars, held, endVars>>

(* Whether the Write of a copy reaches the other side, is swallowed by an    *)
(* end that is gone, or fails.                                               *)
Reaches(c) ==
  CASE c = "cUp"   -> "c2s" \notin fin /\ "split" \notin closed
    [] c = "cDown" -> "socks" \notin closed
    [] c = "sUp"   -> "target" \notin closed /\ "t2s" \notin fin
    [] c = "sDown" -> "split" \notin closed
Swallows(c) ==
  \/ c = "cUp" /\ ("c2s" \in fin \/ "split" \in closed) /\ ~(mode = "stream" /\ "conn" \in closed)
  \/ c = "sUp" /\ "t2s" \in fin /\ "target" \notin closed
Fails(c) ==
  \/ c = "cUp" \/ ~Reaches(c)
  \/ c = "cDown" /\ "a2c" \in fin

Arrives(c) ==
  CASE c = "cUp"   -> inbox' = [inbox EXCEPT !["c2s"] = @ \o held[c]] /\ UNCHANGED endVars
    [] c = "sDown" -> inbox' = [inbox EXCEPT !["s2c"] = @ \o held[c]] /\ UNCHANGED endVars
    [] c = "cDown" -> /\ toApp' = toApp \o held[c]
                      /\ UNCHANGED <<inbox, appSent, targetSent, toTarget>>
    [] c = "sUp"   -> /\ toTarget' = toTarget \o held[c]
                      /\ UNCHANGED <<inbox, appSent, targetSent, toApp>>

CopyWrites(c) ==
  /\ copy[c] = "write"
  /\ \/ Reaches(c) /\ Arrives(c)
     \/ Swallows(c) /\ UNCHANGED <<inbox, endVars>>
  /\ held' = [held EXCEPT ![c] = <<>>]
  /\ copy' = [copy EXCEPT ![c] = "read"]
  /\ UNCHANGED <<idVars, cpc, spc, fin, closed, fault>>

CopyWriteFails(c) ==
  /\ copy[c] = "write" /\ Fails(c)
  /\ held' = [held EXCEPT ![c] = <<>>]
  /\ copy' = [copy EXCEPT ![c] = "end"]
  /\ fault' = (fault \/ (c = "cUp" /\ Reaches(c)))
  /\ UNCHANGED <<idVars, cpc, spc, pipeVars, endVars>>

(* once.Do(closeAll): the first copy to end closes both ends of its relay. *)
CopyCloses(c) ==
  /\ copy[c] = "end"
  /\ copy' = [copy EXCEPT ![c] = "done"]
  /\ CloseEnds(Ends(c))
  /\ UNCHANGED <<idVars, cpc, spc, inbox, held, endVars, fault>>

(* wg.Wait returns when both copies have ended. *)
ClientReturns ==
  /\ cpc = "relay" /\ copy["cUp"] = "done" /\ copy["cDown"] = "done"
  /\ cpc' = "done"
  /\ UNCHANGED <<idVars, spc, pipeVars, copyVars, endVars, fault>>

ServerReturns ==
  /\ spc = "relay" /\ copy["sUp"] = "done" /\ copy["sDown"] = "done"
  /\ spc' = "done"
  /\ UNCHANGED <<idVars, cpc, pipeVars, copyVars, endVars, fault>>

----------------------------------------------------------------------------
Client == SocksRequest \/ DialTunnel \/ SendRequest \/ ReadAck \/ AckLost \/ ClientReturns
Server == ReadRequest \/ RequestLost \/ DialTarget \/ ServerReturns
Copying(c) ==
  CopyReads(c) \/ CopySeesEnd(c) \/ CopyWrites(c) \/ CopyWriteFails(c) \/ CopyCloses(c)

ProxyNext ==
  \/ AppSends \/ AppHangsUp \/ TargetSends \/ TargetHangsUp
  \/ Client \/ Server
  \/ \E c \in Copier : Copying(c)
  \/ CopyReadFails \/ StreamBreaks

(* Goroutines go on.  The application and the target owe nobody anything; a  *)
(* silent tunnel in packet mode is cut by the timeout of http.Client, again  *)
(* and again, so Read fails there in the end (cmd_connect.go:144).           *)
ProxyFairness ==
  /\ WF_proxyVars(Client) /\ WF_proxyVars(Server)
  /\ \A c \in Copier : WF_proxyVars(Copying(c))
  /\ WF_proxyVars(mode = "packet" /\ CopyReadFails)

ProxySpec == ProxyInit /\ [][ProxyNext]_proxyVars
ProxyFairSpec == ProxySpec /\ ProxyFairness

----------------------------------------------------------------------------
Succeeded == toApp # <<>> /\ toApp[1] = "success"
AppGot == IF Succeeded THEN Tail(toApp) ELSE <<>>

(* The application is told "success" only when the server has the target it  *)
(* asked for, or the quad its name begins with.                              *)
SuccessIsReal ==
  Succeeded => dialled = IF QuadOf[host] = None THEN host ELSE QuadOf[host]

(* Both directions are reliable streams between the application and the      *)
(* target: the frames of the handshake never leak into them.                 *)
AppToTarget ==
  INSTANCE ReliableStream WITH Datum <- {AppStream[i] : i \in 1 .. Len(AppStream)},
    sent <- SubSeq(AppStream, 1, appSent), rcvd <- toTarget, ended <- "a2c" \in fin
TargetToApp ==
  INSTANCE ReliableStream WITH Datum <- {TargetStream[i] : i \in 1 .. Len(TargetStream)},
    sent <- SubSeq(TargetStream, 1, targetSent), rcvd <- AppGot, ended <- "t2s" \in fin
RelayIsStream == AppToTarget!Spec /\ TargetToApp!Spec

(* A relay that closes the application's connection, with no fault, nothing  *)
(* of the application's on the way and the application still there, has      *)
(* given it everything the target sent.                                      *)
LastByteDelivered ==
  (/\ Succeeded /\ "socks" \in closed /\ ~fault
   /\ "a2c" \notin fin /\ Len(toTarget) = appSent)
    => Len(AppGot) = targetSent

(* When the target hangs up, or the long POST of stream mode ends at the     *)
(* server (it breaks, or ReadTimeout cuts it), both handlers return and the  *)
(* application's connection is closed; when the application hangs up, the    *)
(* client's handler returns, and in stream mode the server's too.            *)
EndEndsAll ==
  /\ (spc = "relay" /\ fin \cap {"t2s", "c2s"} # {})
       ~> (cpc = "done" /\ spc = "done" /\ "socks" \in closed)
  /\ ("a2c" \in fin) ~> (cpc = "done" /\ (mode = "stream" => spc = "done" \/ req = None))
=============================================================================
