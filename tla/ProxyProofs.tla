----------------------------- MODULE ProxyProofs ------------------------------
(***************************************************************************)
(* Proofs about one proxied connection (Proxy): the application is told    *)
(* "success" only when the server has the target it asked for, both        *)
(* directions are streams into which no frame of the handshake leaks, and  *)
(* an undisturbed relay that closes the application has given it all.      *)
(***************************************************************************)
EXTENDS Proxy, SliceLemmas

(* The four connections a relay reads, and what may be in them. *)
Pipes == {"a2c", "c2s", "t2s", "s2c"}
AppData == {AppStream[i] : i \in 1 .. Len(AppStream)}
TargetData == {TargetStream[i] : i \in 1 .. Len(TargetStream)}
Words == {"CONNECT", "ACK", "OK", "Unreachable", "success", "failure",
          "command not supported", "address type not supported"}
Units == AppData \cup TargetData \cup Words \cup ({"ipv4", "domain"} \X Host)
(* Where the client is before it relays, and where a copy is that has ended. *)
Early == {"socks", "dial", "request", "ack"}
Over == {"end", "done"}

(* Every variable has its type. *)
ProxyTypes ==
  /\ mode \in Mode /\ host \in Host
  /\ req \in Host \cup {None} /\ dialled \in Host \cup {None}
  /\ cpc \in Early \cup {"relay", "done"}
  /\ spc \in {"header", "dial", "relay", "done"}
  /\ inbox \in [Pipes -> Seq(Units)]
  /\ copy \in [Copier -> {"off", "read", "write"} \cup Over]
  /\ held \in [Copier -> Seq(Units)]
  /\ appSent \in 0 .. Len(AppStream) /\ targetSent \in 0 .. Len(TargetStream)
  /\ toApp \in Seq(Units) /\ toTarget \in Seq(Units)
  /\ fault \in BOOLEAN

(* A copy that has read holds one unit, and others none. *)
Holds == \A c \in Copier : Len(held[c]) = IF copy[c] = "write" THEN 1 ELSE 0

(* The target a host stands for. *)
Asked(h) == IF QuadOf[h] = None THEN h ELSE QuadOf[h]

(* What the client finds in the tunnel before it has read the answer.        *)
Answer ==
  \/ inbox["s2c"] = <<>> /\ dialled = None
  \/ /\ Len(inbox["s2c"]) >= 2
     /\ \/ inbox["s2c"][2] = "OK" /\ dialled # None
        \/ inbox["s2c"][2] = "Unreachable" /\ dialled = None

(* How far the handshake is: nothing but the request is in the upload before *)
(* the server has it, nothing is in the download before it has answered.     *)
Asking ==
  /\ cpc \in {"socks", "dial", "request"} => inbox["c2s"] = <<>> /\ req = None
  /\ req = None =>
       /\ Len(inbox["c2s"]) <= 2
       /\ Len(inbox["c2s"]) = 2 => inbox["c2s"][2] = EncodeConnectPayload(host)
  /\ req # None => req = Asked(host)
  /\ spc = "header" <=> (req = None /\ spc # "done")
(* The server answers once it knows whether the target is there, and relays, *)
(* with both copies, when it is.                                             *)
Answering ==
  /\ req = None => dialled = None
  /\ spc = "dial" => dialled = None
  /\ spc = "relay" => dialled # None
  /\ dialled # None => dialled = req
  /\ spc \in {"header", "dial"} => inbox["s2c"] = <<>> /\ "split" \notin closed
  /\ copy["sUp"] = "off" <=> dialled = None
  /\ copy["sDown"] = "off" <=> dialled = None
(* The application hears nothing before the client has the answer, and the   *)
(* client relays, with both copies, after a success and after no other       *)
(* answer.                                                                   *)
Told ==
  /\ cpc \in Early => toApp = <<>> /\ Answer /\ "socks" \notin closed /\ "conn" \notin closed
  /\ cpc = "relay" => Succeeded
  /\ copy["cUp"] = "off" <=> ~Succeeded
  /\ copy["cDown"] = "off" <=> ~Succeeded
  /\ Succeeded => dialled # None

(* The handshake is in order. *)
Hand == ProxyTypes /\ Holds /\ Asking /\ Answering /\ Told

----------------------------------------------------------------------------
(* What goes over the wire. *)
LEMMA UnitsAre ==
  /\ \A i \in 1 .. Len(AppStream) : AppStream[i] \in Units
  /\ \A i \in 1 .. Len(TargetStream) : TargetStream[i] \in Units
  /\ Words \subseteq Units
  /\ \A h \in Host : EncodeConnectPayload(h) \in Units
  <1>1. ASSUME NEW h \in Host PROVE EncodeConnectPayload(h) \in {"ipv4", "domain"} \X Host
    <2>1. QuadOf[h] \in Host \cup {None}
      BY HostAssumption
    <2>. QED  BY <2>1 DEF EncodeConnectPayload, parseIPv4
  <1>. QED  BY <1>1 DEF Units, AppData, TargetData

(* The server decodes what the client has asked for. *)
LEMMA PayloadIsAsked ==
  ASSUME NEW h \in Host
  PROVE  /\ DecodeConnectPayload(EncodeConnectPayload(h)) = Asked(h)
         /\ Asked(h) \in Host /\ Asked(h) # None
  BY HostAssumption DEF DecodeConnectPayload, EncodeConnectPayload, parseIPv4, Asked

(* A pipe gets more, or gives what it holds first. *)
LEMMA MoreInPipe ==
  ASSUME inbox \in [Pipes -> Seq(Units)], NEW p \in Pipes, NEW s \in Seq(Units),
         inbox' = [inbox EXCEPT ![p] = @ \o s]
  PROVE  /\ inbox' \in [Pipes -> Seq(Units)]
         /\ inbox'[p] = inbox[p] \o s
         /\ \A q \in Pipes : q # p => inbox'[q] = inbox[q]
  <1>1. inbox[p] \o s \in Seq(Units)
    BY ConcatProperties
  <1>. QED  BY <1>1

(* A pipe is left with what was not read. *)
LEMMA LessInPipe ==
  ASSUME inbox \in [Pipes -> Seq(Units)], NEW p \in Pipes, NEW s \in Seq(Units),
         inbox' = [inbox EXCEPT ![p] = s]
  PROVE  /\ inbox' \in [Pipes -> Seq(Units)]
         /\ inbox'[p] = s
         /\ \A q \in Pipes : q # p => inbox'[q] = inbox[q]
  OBVIOUS

(* The two units of a frame, and what follows them. *)
LEMMA FrameIs ==
  ASSUME NEW cmd \in Units, NEW payload \in Units
  PROVE  /\ WriteFrame(cmd, payload) \in Seq(Units) /\ Len(WriteFrame(cmd, payload)) = 2
         /\ WriteFrame(cmd, payload)[2] = payload
         /\ \A n \in 0 .. 1 : /\ SubSeq(WriteFrame(cmd, payload), 1, n) \in Seq(Units)
                              /\ Len(SubSeq(WriteFrame(cmd, payload), 1, n)) = n
  <1> DEFINE f == WriteFrame(cmd, payload)
  <1>1. f \in Seq(Units) /\ Len(f) = 2 /\ f[2] = payload
    BY DEF WriteFrame
  <1> HIDE DEF f
  <1>2. ASSUME NEW n \in 0 .. 1
        PROVE  SubSeq(f, 1, n) \in Seq(Units) /\ Len(SubSeq(f, 1, n)) = n
    <2>1. 1 \in 1 .. Len(f) + 1 /\ n \in 1 - 1 .. Len(f) /\ n - 1 + 1 = n
      BY <1>1
    <2>. QED  BY <1>1, <2>1, SliceType
  <1>. QED  BY <1>1, <1>2 DEF f

(* What follows a frame is the pipe without its first two units. *)
LEMMA AfterFrameIs ==
  ASSUME inbox \in [Pipes -> Seq(Units)], NEW p \in Pipes, FrameIn(p)
  PROVE  /\ AfterFrame(p) \in Seq(Units) /\ Len(AfterFrame(p)) = Len(inbox[p]) - 2
  <1>1. inbox[p] \in Seq(Units) /\ Len(inbox[p]) \in Nat /\ Len(inbox[p]) >= 2
    BY DEF FrameIn
  <1>2. /\ 3 \in 1 .. Len(inbox[p]) + 1 /\ Len(inbox[p]) \in 3 - 1 .. Len(inbox[p])
        /\ Len(inbox[p]) - 3 + 1 = Len(inbox[p]) - 2
    BY <1>1
  <1>3. /\ SubSeq(inbox[p], 3, Len(inbox[p])) \in Seq(Units)
        /\ Len(SubSeq(inbox[p], 3, Len(inbox[p]))) = Len(inbox[p]) - 3 + 1
    BY ONLY <1>1, <1>2, SliceType
  <1>. QED  BY <1>2, <1>3 DEF AfterFrame

(* What the application was told first is never taken back.                  *)
LEMMA SuccessStays ==
  ASSUME NEW s \in Seq(Units), NEW t \in Seq(Units), s # <<>>
  PROVE  s \o t # <<>> /\ (s \o t)[1] = s[1]
  <1>1. Len(s) \in Nat \ {0} /\ Len(t) \in Nat
    BY EmptySeq
  <1>2. /\ s \o t \in Seq(Units) /\ Len(s \o t) = Len(s) + Len(t)
        /\ \A i \in 1 .. Len(s) + Len(t) : (s \o t)[i] = IF i <= Len(s) THEN s[i] ELSE t[i - Len(s)]
    BY ConcatProperties
  <1>. QED  BY <1>1, <1>2

----------------------------------------------------------------------------
(* Enough for a step that leaves the handshake where it is. *)
LEMMA HandKept ==
  ASSUME Hand, ProxyTypes', Holds', UNCHANGED <<host, req, dialled, cpc, spc>>,
         \A c \in Copier : copy'[c] = "off" <=> copy[c] = "off",
         req = None => inbox'["c2s"] = inbox["c2s"],
         spc \in {"header", "dial"} => inbox'["s2c"] = inbox["s2c"] /\ "split" \notin closed',
         cpc \in Early => toApp' = toApp /\ Answer' /\ "socks" \notin closed' /\ "conn" \notin closed',
         Succeeded' <=> Succeeded
  PROVE  Hand'
  <1>1. Asking'
    BY DEF Hand, Asking
  <1>2. {"cUp", "cDown", "sUp", "sDown"} = Copier
    BY DEF Copier
  <1>3. Answering'
    BY <1>2 DEF Hand, Answering
  <1>4. Told'
    BY <1>2 DEF Hand, Told
  <1>. QED  BY <1>1, <1>3, <1>4 DEF Hand

(* The two outer ends send, or hang up. *)
LEMMA EndsKeepHand ==
  ASSUME Hand, AppSends \/ AppHangsUp \/ TargetSends \/ TargetHangsUp
  PROVE  Hand'
  <1>1. PICK p \in {"a2c", "t2s"} :
          /\ inbox' \in [Pipes -> Seq(Units)]
          /\ \A q \in Pipes : q # p => inbox'[q] = inbox[q]
    <2>0. inbox \in [Pipes -> Seq(Units)] /\ {"a2c", "t2s"} \subseteq Pipes
      BY DEF Hand, ProxyTypes, Pipes
    <2>1. CASE AppSends
      <3>1. appSent' \in 1 .. Len(AppStream)
            /\ inbox' = [inbox EXCEPT !["a2c"] = Append(@, AppStream[appSent'])]
        BY <2>1, StreamAssumption DEF AppSends, Hand, ProxyTypes
      <3>2. Append(inbox["a2c"], AppStream[appSent']) \in Seq(Units)
        BY <2>0, <3>1, UnitsAre DEF Pipes
      <3>. QED  BY <2>0, <3>1, <3>2
    <2>2. CASE TargetSends
      <3>1. targetSent' \in 1 .. Len(TargetStream)
            /\ inbox' = [inbox EXCEPT !["t2s"] = Append(@, TargetStream[targetSent'])]
        BY <2>2, StreamAssumption DEF TargetSends, Hand, ProxyTypes
      <3>2. Append(inbox["t2s"], TargetStream[targetSent']) \in Seq(Units)
        BY <2>0, <3>1, UnitsAre DEF Pipes
      <3>. QED  BY <2>0, <3>1, <3>2
    <2>3. CASE AppHangsUp \/ TargetHangsUp
      BY <2>0, <2>3 DEF AppHangsUp, TargetHangsUp
    <2>. QED  BY <2>1, <2>2, <2>3
  <1>2. /\ UNCHANGED <<mode, host, req, dialled, cpc, spc, closed, copy, held, toApp, toTarget, fault>>
        /\ appSent' \in 0 .. Len(AppStream) /\ targetSent' \in 0 .. Len(TargetStream)
    <2>1. /\ UNCHANGED <<mode, host, req, dialled, cpc, spc, closed, copy, held, toApp, toTarget, fault>>
          /\ appSent' = appSent \/ (appSent < Len(AppStream) /\ appSent' = appSent + 1)
          /\ targetSent' = targetSent \/ (targetSent < Len(TargetStream) /\ targetSent' = targetSent + 1)
      BY DEF AppSends, AppHangsUp, TargetSends, TargetHangsUp, idVars, copyVars, endVars
    <2>2. /\ appSent \in 0 .. Len(AppStream) /\ targetSent \in 0 .. Len(TargetStream)
          /\ Len(AppStream) \in Nat /\ Len(TargetStream) \in Nat
      BY StreamAssumption DEF Hand, ProxyTypes
    <2>. QED  BY <2>1, <2>2
  <1>3. ProxyTypes' /\ Holds'
    BY <1>1, <1>2 DEF Hand, ProxyTypes, Holds
  <1>4. inbox'["c2s"] = inbox["c2s"] /\ inbox'["s2c"] = inbox["s2c"]
    BY <1>1 DEF Pipes
  <1>5. /\ spc \in {"header", "dial"} => "split" \notin closed
        /\ cpc \in Early => Answer' /\ "socks" \notin closed /\ "conn" \notin closed
    BY <1>2, <1>4 DEF Hand, Told, Answering, Answer
  <1>. QED  BY <1>2, <1>3, <1>4, <1>5, HandKept DEF Succeeded

(* The client gives up: the application is not told that it has succeeded.   *)
LEMMA GivingUp ==
  ASSUME Hand, cpc \in Early, NEW reply \in Seq(Words), reply # <<>> => reply[1] # "success",
         GiveUp(reply)
  PROVE  /\ cpc' = "done" /\ toApp' = reply /\ toApp' \in Seq(Units)
         /\ ~Succeeded /\ ~Succeeded'
         /\ "split" \in closed' <=> "split" \in closed
  <1>1. toApp = <<>>
    BY DEF Hand, Told
  <1>2. reply \in Seq(Units)
    BY UnitsAre
  <1>3. <<>> \o reply = reply
    BY <1>2, ConcatEmptySeq
  <1>. QED  BY <1>1, <1>2, <1>3 DEF GiveUp, CloseEnds, Succeeded

(* The client's steps before the answer has come, and when none comes.       *)
LEMMA ClientKeepsHand ==
  ASSUME Hand, SocksRequest \/ DialTunnel \/ SendRequest \/ AckLost \/ ClientReturns \/ StreamBreaks
  PROVE  Hand'
  <1>0. /\ inbox \in [Pipes -> Seq(Units)] /\ "c2s" \in Pipes /\ "s2c" \in Pipes
        /\ {"cUp", "cDown", "sUp", "sDown"} = Copier
    BY DEF Hand, ProxyTypes, Pipes, Copier
  <1>r. /\ <<>> \in Seq(Words)
        /\ \A w \in Words : <<w>> \in Seq(Words) /\ <<w>> # <<>> /\ <<w>>[1] = w
    OBVIOUS
  <1>1. CASE ClientReturns \/ StreamBreaks
    <2>1. /\ UNCHANGED <<mode, host, req, dialled, spc, inbox, closed, copy, held, appSent, targetSent, toApp, toTarget>>
          /\ fault' \in BOOLEAN
          /\ cpc' = cpc \/ (cpc = "relay" /\ cpc' = "done")
      BY <1>1 DEF ClientReturns, StreamBreaks, idVars, pipeVars, copyVars, endVars, Hand, ProxyTypes
    <2>2. ProxyTypes' /\ Holds'
      BY <2>1 DEF Hand, ProxyTypes, Holds
    <2>3. Asking' /\ Answering' /\ Told'
      BY <2>1 DEF Hand, Asking, Answering, Told, Answer, Succeeded, Early
    <2>. QED  BY <2>2, <2>3 DEF Hand
  <1>2. CASE /\ SocksRequest \/ DialTunnel
             /\ cpc' = "dial" \/ cpc' = "request"
             /\ UNCHANGED <<toApp, closed>>
    <2>1. /\ UNCHANGED <<mode, host, req, dialled, spc, inbox, copy, held, appSent, targetSent, toTarget, fault>>
          /\ cpc \in {"socks", "dial"} /\ cpc' \in {"dial", "request"}
      BY <1>2 DEF SocksRequest, DialTunnel, idVars, copyVars
    <2>2. ProxyTypes' /\ Holds'
      BY <1>2, <2>1 DEF Hand, ProxyTypes, Holds, Early
    <2>3. Asking' /\ Answering' /\ Told'
      BY <1>2, <2>1 DEF Hand, Asking, Answering, Told, Answer, Succeeded, Early
    <2>. QED  BY <2>2, <2>3 DEF Hand
  <1>3. ASSUME \/ SocksRequest /\ \E r \in {<<"command not supported">>, <<"address type not supported">>, <<>>} : GiveUp(r)
               \/ (DialTunnel \/ AckLost \/ SendRequest) /\ GiveUp(<<"failure">>)
        PROVE  Hand'
    <2>1. PICK reply \in Seq(Words) : GiveUp(reply) /\ (reply # <<>> => reply[1] # "success")
      <3>1. /\ {"command not supported", "address type not supported", "failure"} \subseteq Words
            /\ "success" \notin {"command not supported", "address type not supported", "failure"}
        BY DEF Words
      <3>. QED  BY <1>3, <1>r, <3>1
    <2>2. cpc \in Early
      BY <1>3 DEF SocksRequest, DialTunnel, SendRequest, AckLost, Early
    <2>3. /\ cpc' = "done" /\ toApp' \in Seq(Units) /\ ~Succeeded /\ ~Succeeded'
          /\ "split" \in closed' <=> "split" \in closed
      BY <2>1, <2>2, GivingUp
    <2>4. /\ UNCHANGED <<mode, host, req, dialled, spc, copy, held, appSent, targetSent, toTarget>>
          /\ fault' \in BOOLEAN
      BY <1>3 DEF SocksRequest, DialTunnel, SendRequest, AckLost, idVars, copyVars, Hand, ProxyTypes
    <2>5. /\ inbox' \in [Pipes -> Seq(Units)] /\ inbox'["s2c"] = inbox["s2c"]
          /\ inbox'["c2s"] = inbox["c2s"] \/ (inbox["c2s"] = <<>> /\ Len(inbox'["c2s"]) <= 1)
      <3>1. CASE ~SendRequest
        BY <1>0, <1>3, <3>1 DEF SocksRequest, DialTunnel, AckLost
      <3>2. CASE SendRequest
        <4> DEFINE frame == WriteFrame("CONNECT", EncodeConnectPayload(host))
        <4>1. "CONNECT" \in Units /\ EncodeConnectPayload(host) \in Units
          BY UnitsAre DEF Words, Hand, ProxyTypes
        <4>2. cpc = "request" /\ inbox["c2s"] = <<>>
          BY <3>2 DEF SendRequest, Hand, Asking
        <4>3. PICK n \in 0 .. 1 : inbox' = [inbox EXCEPT !["c2s"] = @ \o SubSeq(frame, 1, n)]
          BY <3>2, <2>3, <4>2 DEF SendRequest
        <4>4. SubSeq(frame, 1, n) \in Seq(Units) /\ Len(SubSeq(frame, 1, n)) = n
          BY <4>1, FrameIs
        <4>5. /\ inbox' \in [Pipes -> Seq(Units)] /\ inbox'["c2s"] = inbox["c2s"] \o SubSeq(frame, 1, n)
              /\ inbox'["s2c"] = inbox["s2c"]
          BY <1>0, <4>3, <4>4, MoreInPipe
        <4>6. inbox'["c2s"] = SubSeq(frame, 1, n)
          BY <4>2, <4>4, <4>5, ConcatEmptySeq
        <4>. QED  BY <4>2, <4>4, <4>5, <4>6
      <3>. QED  BY <3>1, <3>2
    <2>6. ProxyTypes' /\ Holds'
      BY <2>3, <2>4, <2>5 DEF Hand, ProxyTypes, Holds
    <2>7. Asking'
      <3>1. CASE inbox'["c2s"] = inbox["c2s"]
        BY <2>3, <2>4, <3>1 DEF Hand, Asking
      <3>2. CASE inbox["c2s"] = <<>> /\ Len(inbox'["c2s"]) <= 1
        <4>1. Len(inbox'["c2s"]) \in Nat
          BY <1>0, <2>5
        <4>2. Len(inbox'["c2s"]) # 2 /\ Len(inbox'["c2s"]) <= 2
          <5>1. \A n \in Nat : n <= 1 => n # 2 /\ n <= 2
            OBVIOUS
          <5>. QED  BY <3>2, <4>1, <5>1, Zenon
        <4>. QED  BY <2>3, <2>4, <4>2 DEF Hand, Asking
      <3>. QED  BY <2>5, <3>1, <3>2
    <2>8. Answering'
      BY <2>3, <2>4, <2>5 DEF Hand, Answering
    <2>9. Told'
      BY <2>3, <2>4 DEF Hand, Told, Early
    <2>. QED  BY <2>6, <2>7, <2>8, <2>9 DEF Hand
  <1>4. CASE SendRequest /\ cpc' = "ack"
    <2> DEFINE frame == WriteFrame("CONNECT", EncodeConnectPayload(host))
    <2>1. /\ cpc = "request" /\ inbox["c2s"] = <<>> /\ req = None
          /\ inbox' = [inbox EXCEPT !["c2s"] = @ \o frame]
          /\ UNCHANGED <<mode, host, req, dialled, spc, copy, held, closed, toApp, appSent, targetSent, toTarget, fault>>
      BY <1>4 DEF SendRequest, GiveUp, idVars, copyVars, Hand, Asking
    <2>2. "CONNECT" \in Units /\ EncodeConnectPayload(host) \in Units
      BY UnitsAre DEF Words, Hand, ProxyTypes
    <2>3. frame \in Seq(Units) /\ Len(frame) = 2 /\ frame[2] = EncodeConnectPayload(host)
      BY <2>2, FrameIs
    <2>4. /\ inbox' \in [Pipes -> Seq(Units)] /\ inbox'["c2s"] = inbox["c2s"] \o frame
          /\ inbox'["s2c"] = inbox["s2c"]
      BY <1>0, <2>1, <2>3, MoreInPipe
    <2> HIDE DEF frame
    <2>5. inbox'["c2s"] = frame
      BY <2>1, <2>3, <2>4, ConcatEmptySeq
    <2>6. ProxyTypes' /\ Holds'
      BY <1>4, <2>1, <2>4 DEF Hand, ProxyTypes, Holds, Early
    <2>7. Asking'
      <3>1. /\ Len(inbox'["c2s"]) <= 2 /\ inbox'["c2s"][2] = EncodeConnectPayload(host')
        <4>1. host' = host
          BY <2>1
        <4>2. inbox'["c2s"][2] = EncodeConnectPayload(host)
          BY ONLY <2>3, <2>5
        <4>3. Len(inbox'["c2s"]) <= 2
          <5>1. 2 <= 2
            OBVIOUS
          <5>. QED  BY <5>1, <2>3, <2>5, Zenon
        <4>. QED  BY ONLY <4>1, <4>2, <4>3, Zenon
      <3>2. cpc' \notin {"socks", "dial", "request"} /\ req' = None
        BY <1>4, <2>1
      <3>3. spc' = "header" <=> (req' = None /\ spc' # "done")
        BY <2>1 DEF Hand, Asking
      <3>. QED  BY <3>1, <3>2, <3>3 DEF Asking
    <2>8. Answering'
      BY <1>4, <2>1, <2>4 DEF Hand, Answering
    <2>9. Told'
      BY <1>4, <2>1, <2>4 DEF Hand, Told, Answer, Succeeded, Early
    <2>. QED  BY <2>6, <2>7, <2>8, <2>9 DEF Hand
  <1>. QED  BY <1>1, <1>2, <1>3, <1>4 DEF SocksRequest, DialTunnel, SendRequest, AckLost

(* The server's steps. *)
LEMMA ServerKeepsHand ==
  ASSUME Hand, ReadRequest \/ RequestLost \/ ServerReturns
  PROVE  Hand'
  <1>0. /\ inbox \in [Pipes -> Seq(Units)] /\ "c2s" \in Pipes /\ "s2c" \in Pipes
        /\ {"cUp", "cDown", "sUp", "sDown"} = Copier
    BY DEF Hand, ProxyTypes, Pipes, Copier
  <1>1. CASE ReadRequest
    <2>1. /\ spc = "header" /\ spc' = "dial" /\ FrameIn("c2s")
          /\ inbox' = [inbox EXCEPT !["c2s"] = AfterFrame("c2s")]
          /\ req' = DecodeConnectPayload(inbox["c2s"][2])
          /\ UNCHANGED <<mode, host, dialled, cpc, closed, copy, held, toApp, appSent, targetSent, toTarget, fault>>
      BY <1>1 DEF ReadRequest, ReadFrame, copyVars, endVars
    <2>2. req = None /\ Len(inbox["c2s"]) = 2
      <3>1. req = None /\ Len(inbox["c2s"]) <= 2
        BY <2>1 DEF Hand, Asking
      <3>2. Len(inbox["c2s"]) \in Nat /\ Len(inbox["c2s"]) >= 2
        BY <1>0, <2>1 DEF FrameIn
      <3>3. \A n \in Nat : n <= 2 /\ n >= 2 => n = 2
        OBVIOUS
      <3>. QED  BY <3>1, <3>2, <3>3, Zenon
    <2>3. req' = Asked(host) /\ req' \in Host /\ req' # None
      <3>1. inbox["c2s"][2] = EncodeConnectPayload(host) /\ host \in Host
        BY <2>2 DEF Hand, Asking, ProxyTypes
      <3>. QED  BY <2>1, <3>1, PayloadIsAsked
    <2>4. /\ inbox' \in [Pipes -> Seq(Units)] /\ inbox'["s2c"] = inbox["s2c"]
      BY <1>0, <2>1, AfterFrameIs, LessInPipe
    <2>5. ProxyTypes' /\ Holds'
      BY <2>1, <2>3, <2>4 DEF Hand, ProxyTypes, Holds
    <2>6. Asking'
      <3>1. cpc \notin {"socks", "dial", "request"}
        <4>1. inbox["c2s"] # <<>>
          BY <2>2
        <4>. QED  BY <4>1 DEF Hand, Asking
      <3>. QED  BY <2>1, <2>3, <3>1 DEF Asking, Asked
    <2>7. Answering'
      BY <2>1, <2>2, <2>3, <2>4 DEF Hand, Answering
    <2>8. Told'
      BY <2>1, <2>4 DEF Hand, Told, Answer, Succeeded
    <2>. QED  BY <2>5, <2>6, <2>7, <2>8 DEF Hand
  <1>2. CASE RequestLost \/ ServerReturns
    <2>1. /\ UNCHANGED <<mode, host, req, dialled, cpc, inbox, copy, held, toApp, appSent, targetSent, toTarget, fault>>
          /\ spc \in {"header", "relay"} /\ spc' = "done"
          /\ "socks" \in closed' <=> "socks" \in closed
          /\ "conn" \in closed' <=> "conn" \in closed
      BY <1>2 DEF RequestLost, ServerReturns, CloseEnds, idVars, pipeVars, copyVars, endVars
    <2>2. ProxyTypes' /\ Holds'
      BY <2>1 DEF Hand, ProxyTypes, Holds
    <2>3. Asking' /\ Answering'
      BY <2>1 DEF Hand, Asking, Answering
    <2>4. Told'
      BY <2>1 DEF Hand, Told, Answer, Succeeded
    <2>. QED  BY <2>2, <2>3, <2>4 DEF Hand
  <1>. QED  BY <1>1, <1>2

(* The server answers once, and first of all. *)
LEMMA DialKeepsHand ==
  ASSUME Hand, DialTarget
  PROVE  Hand'
  <1>0. /\ inbox \in [Pipes -> Seq(Units)] /\ "c2s" \in Pipes /\ "s2c" \in Pipes /\ "c2s" # "s2c"
        /\ {"cUp", "cDown", "sUp", "sDown"} = Copier
    BY DEF Hand, ProxyTypes, Pipes, Copier
  <1>1. /\ spc = "dial" /\ req # None /\ dialled = None /\ inbox["s2c"] = <<>>
        /\ copy["sUp"] = "off" /\ copy["sDown"] = "off"
        /\ UNCHANGED <<mode, host, req, cpc, held, toApp, appSent, targetSent, toTarget, fault>>
    BY DEF DialTarget, Hand, Asking, Answering, endVars
  <1>2. PICK status \in {"OK", "Unreachable"} :
          /\ SendACK(status)
          /\ "socks" \in closed' <=> "socks" \in closed
          /\ "conn" \in closed' <=> "conn" \in closed
          /\ status = "OK" =>
               /\ dialled' = req /\ spc' = "relay"
               /\ copy' = [copy EXCEPT !["sUp"] = "read", !["sDown"] = "read"]
          /\ status = "Unreachable" => dialled' = dialled /\ spc' = "done" /\ copy' = copy
    BY DEF DialTarget, CloseEnds
  <1> DEFINE frame == WriteFrame("ACK", status)
  <1>3. frame \in Seq(Units) /\ Len(frame) = 2 /\ frame[2] = status
    <2>1. "ACK" \in Units /\ status \in Units
      BY UnitsAre DEF Words
    <2>. QED  BY <2>1, FrameIs
  <1>4. inbox' = [inbox EXCEPT !["s2c"] = @ \o frame]
    BY <1>2 DEF SendACK
  <1> HIDE DEF frame
  <1>5. /\ inbox' \in [Pipes -> Seq(Units)] /\ inbox'["s2c"] = inbox["s2c"] \o frame
        /\ inbox'["c2s"] = inbox["c2s"]
    BY <1>0, <1>3, <1>4, MoreInPipe
  <1>6. inbox'["s2c"] = frame
    BY <1>1, <1>3, <1>5, ConcatEmptySeq
  <1>7. /\ copy' \in [Copier -> {"off", "read", "write"} \cup Over]
        /\ copy'["cUp"] = copy["cUp"] /\ copy'["cDown"] = copy["cDown"]
        /\ status = "OK" => copy'["sUp"] = "read" /\ copy'["sDown"] = "read"
        /\ \A c \in Copier : copy'[c] = "write" <=> copy[c] = "write"
    BY <1>0, <1>1, <1>2 DEF Hand, ProxyTypes
  <1>8. dialled' \in Host \cup {None} /\ spc' \in {"relay", "done"}
    BY <1>1, <1>2 DEF Hand, ProxyTypes
  <1>9. ProxyTypes' /\ Holds'
    BY <1>1, <1>5, <1>7, <1>8 DEF Hand, ProxyTypes, Holds
  <1>10. Asking'
    BY <1>1, <1>5, <1>8 DEF Hand, Asking
  <1>11. Answering'
    BY <1>1, <1>2, <1>7, <1>8 DEF Hand, Answering
  <1>12. Answer'
    <2>1. Len(inbox'["s2c"]) >= 2 /\ inbox'["s2c"][2] = status
      <3>1. 2 >= 2
        OBVIOUS
      <3>. QED  BY <3>1, <1>3, <1>6, Zenon
    <2>2. status = "OK" => dialled' # None
      BY <1>1, <1>2
    <2>3. status = "Unreachable" => dialled' = None
      BY <1>1, <1>2
    <2>. QED  BY <2>1, <2>2, <2>3 DEF Answer
  <1>13. Told'
    BY <1>1, <1>2, <1>7, <1>12 DEF Hand, Told, Succeeded
  <1>. QED  BY <1>9, <1>10, <1>11, <1>13 DEF Hand

(* The client has the answer. *)
LEMMA AckKeepsHand ==
  ASSUME Hand, ReadAck
  PROVE  Hand'
  <1>0. /\ inbox \in [Pipes -> Seq(Units)] /\ "c2s" \in Pipes /\ "s2c" \in Pipes /\ "c2s" # "s2c"
        /\ {"cUp", "cDown", "sUp", "sDown"} = Copier
    BY DEF Hand, ProxyTypes, Pipes, Copier
  <1>1. /\ cpc = "ack" /\ FrameIn("s2c") /\ toApp = <<>>
        /\ UNCHANGED <<mode, host, req, dialled, spc, held, appSent, targetSent, toTarget, fault>>
        /\ inbox' = [inbox EXCEPT !["s2c"] = AfterFrame("s2c")]
    BY DEF ReadAck, idVars, Hand, Told, Early
  <1>2. /\ Len(inbox["s2c"]) >= 2
        /\ inbox["s2c"][2] = "OK" => dialled # None
    BY <1>1 DEF Hand, Told, Early, Answer, FrameIn
  <1>3. /\ inbox' \in [Pipes -> Seq(Units)] /\ inbox'["c2s"] = inbox["c2s"]
    BY <1>0, <1>1, AfterFrameIs, LessInPipe
  <1>4. spc \notin {"header", "dial"}
    <2>1. inbox["s2c"] # <<>>
      BY <1>2
    <2>. QED  BY <2>1 DEF Hand, Answering
  <1>5. CASE ReadFrame("s2c") = "OK"
    <2>1. /\ cpc' = "relay" /\ toApp' = Append(toApp, "success") /\ UNCHANGED closed
          /\ copy' = [copy EXCEPT !["cUp"] = "read", !["cDown"] = "read"]
          /\ dialled # None
      BY <1>2, <1>5 DEF ReadAck, ReadFrame
    <2>2. toApp' = <<"success">> /\ Succeeded' /\ toApp' \in Seq(Units)
      <3>1. toApp' = <<"success">>
        BY <1>1, <2>1
      <3>2. "success" \in Units
        BY UnitsAre DEF Words
      <3>. QED  BY <3>1, <3>2 DEF Succeeded
    <2>3. /\ copy' \in [Copier -> {"off", "read", "write"} \cup Over]
          /\ copy'["sUp"] = copy["sUp"] /\ copy'["sDown"] = copy["sDown"]
          /\ copy'["cUp"] = "read" /\ copy'["cDown"] = "read"
          /\ copy["cUp"] = "off" /\ copy["cDown"] = "off"
      <3>1. ~Succeeded
        BY <1>1 DEF Succeeded
      <3>. QED  BY <1>0, <2>1, <3>1 DEF Hand, ProxyTypes, Told
    <2>4. \A c \in Copier : copy'[c] = "write" <=> copy[c] = "write"
      BY <1>0, <2>1, <2>3 DEF Hand, ProxyTypes
    <2>5. ProxyTypes'
      BY <1>1, <1>3, <2>1, <2>2, <2>3 DEF Hand, ProxyTypes
    <2>6. Holds'
      BY <1>1, <2>4 DEF Hand, Holds
    <2>7. Asking' /\ Answering'
      BY <1>1, <1>3, <1>4, <2>1, <2>3 DEF Hand, Asking, Answering
    <2>8. Told'
      BY <1>1, <2>1, <2>2, <2>3 DEF Told, Early
    <2>. QED  BY <2>5, <2>6, <2>7, <2>8 DEF Hand
  <1>6. CASE ReadFrame("s2c") # "OK"
    <2>1. GiveUp(<<"failure">>) /\ UNCHANGED copy
      BY <1>6 DEF ReadAck
    <2>2. /\ cpc' = "done" /\ toApp' \in Seq(Units) /\ ~Succeeded /\ ~Succeeded'
          /\ "split" \in closed' <=> "split" \in closed
      <3>1. /\ <<"failure">> \in Seq(Words) /\ <<"failure">>[1] # "success" /\ cpc \in Early
        BY <1>1 DEF Words, Early
      <3>. QED  BY <2>1, <3>1, GivingUp
    <2>3. ProxyTypes' /\ Holds'
      BY <1>1, <1>3, <2>1, <2>2 DEF Hand, ProxyTypes, Holds
    <2>4. Asking' /\ Answering'
      BY <1>1, <1>3, <1>4, <2>1, <2>2 DEF Hand, Asking, Answering
    <2>5. Told'
      BY <1>1, <2>1, <2>2 DEF Hand, Told, Early
    <2>. QED  BY <2>3, <2>4, <2>5 DEF Hand
  <1>. QED  BY <1>5, <1>6

----------------------------------------------------------------------------
(* Which pipe a copy reads, and what its write comes down to. *)
LEMMA SourcesAre ==
  /\ Copier = {"cUp", "cDown", "sUp", "sDown"}
  /\ Source["cUp"] = "a2c" /\ Source["cDown"] = "s2c"
  /\ Source["sUp"] = "c2s" /\ Source["sDown"] = "t2s"
  /\ \A c \in Copier : Source[c] \in Pipes
  BY DEF Copier, Source, Pipes

(* A copy takes the next unit, and holds it. *)
LEMMA ReadsNext ==
  ASSUME Hand, NEW c \in Copier, CopyReads(c)
  PROVE  /\ copy[c] = "read" /\ copy' = [copy EXCEPT ![c] = "write"]
         /\ inbox[Source[c]] \in Seq(Units) /\ inbox[Source[c]] # <<>> /\ ~ReadsClosed(c)
         /\ held'[c] = <<Head(inbox[Source[c]])>> /\ held'[c] \in Seq(Units) /\ Len(held'[c]) = 1
         /\ held' \in [Copier -> Seq(Units)]
         /\ \A d \in Copier : d # c => held'[d] = held[d]
         /\ inbox' \in [Pipes -> Seq(Units)] /\ inbox'[Source[c]] = Tail(inbox[Source[c]])
         /\ Len(inbox'[Source[c]]) = Len(inbox[Source[c]]) - 1
         /\ \A p \in Pipes : p # Source[c] => inbox'[p] = inbox[p]
         /\ UNCHANGED <<mode, host, req, dialled, cpc, spc, fin, closed, appSent, targetSent, toApp, toTarget, fault>>
  <1> DEFINE p == Source[c]
  <1>1. p \in Pipes /\ inbox \in [Pipes -> Seq(Units)] /\ held \in [Copier -> Seq(Units)]
    BY SourcesAre DEF Hand, ProxyTypes
  <1>2. /\ copy[c] = "read" /\ copy' = [copy EXCEPT ![c] = "write"] /\ ~ReadsClosed(c)
        /\ inbox[p] # <<>>
        /\ held' = [held EXCEPT ![c] = <<Head(inbox[p])>>]
        /\ inbox' = [inbox EXCEPT ![p] = Tail(inbox[p])]
        /\ UNCHANGED <<mode, host, req, dialled, cpc, spc, fin, closed, appSent, targetSent, toApp, toTarget, fault>>
    BY DEF CopyReads, idVars, endVars
  <1> HIDE DEF p
  <1>3. Head(inbox[p]) \in Units /\ Tail(inbox[p]) \in Seq(Units) /\ Len(Tail(inbox[p])) = Len(inbox[p]) - 1
    BY <1>1, <1>2, HeadTailProperties
  <1>4. <<Head(inbox[p])>> \in Seq(Units) /\ Len(<<Head(inbox[p])>>) = 1
    BY <1>3
  <1>5. /\ held' \in [Copier -> Seq(Units)] /\ held'[c] = <<Head(inbox[p])>>
        /\ \A d \in Copier : d # c => held'[d] = held[d]
    BY <1>1, <1>2, <1>4
  <1>6. /\ inbox' \in [Pipes -> Seq(Units)] /\ inbox'[p] = Tail(inbox[p])
        /\ \A q \in Pipes : q # p => inbox'[q] = inbox[q]
    BY <1>1, <1>2, <1>3
  <1>. QED  BY <1>1, <1>2, <1>3, <1>4, <1>5, <1>6 DEF p

(* A copy lets go of what it holds. *)
LEMMA LetsGo ==
  ASSUME Hand, NEW c \in Copier, CopyWrites(c) \/ CopyWriteFails(c)
  PROVE  /\ copy[c] = "write" /\ Len(held[c]) = 1
         /\ held'[c] = <<>> /\ held' \in [Copier -> Seq(Units)]
         /\ \A d \in Copier : d # c => held'[d] = held[d]
         /\ copy' \in [Copier -> {"off", "read", "write"} \cup Over]
         /\ copy'[c] \in {"read", "end"} /\ \A d \in Copier : d # c => copy'[d] = copy[d]
         /\ UNCHANGED <<mode, host, req, dialled, cpc, spc, fin, closed, appSent, targetSent>>
  <1>1. held \in [Copier -> Seq(Units)] /\ copy \in [Copier -> {"off", "read", "write"} \cup Over]
    BY DEF Hand, ProxyTypes
  <1>2. /\ copy[c] = "write" /\ held' = [held EXCEPT ![c] = <<>>]
        /\ copy' = [copy EXCEPT ![c] = "read"] \/ copy' = [copy EXCEPT ![c] = "end"]
        /\ UNCHANGED <<mode, host, req, dialled, cpc, spc, fin, closed>>
    BY DEF CopyWrites, CopyWriteFails, idVars, pipeVars
  <1>3. UNCHANGED <<appSent, targetSent>>
    BY SourcesAre DEF CopyWrites, CopyWriteFails, Arrives, endVars
  <1>4. Len(held[c]) = 1
    BY <1>2 DEF Hand, Holds
  <1>5. /\ held'[c] = <<>> /\ held' \in [Copier -> Seq(Units)]
        /\ \A d \in Copier : d # c => held'[d] = held[d]
    BY <1>1, <1>2
  <1>6. /\ copy' \in [Copier -> {"off", "read", "write"} \cup Over]
        /\ copy'[c] \in {"read", "end"} /\ \A d \in Copier : d # c => copy'[d] = copy[d]
    BY <1>1, <1>2 DEF Over
  <1>. QED  BY <1>2, <1>3, <1>4, <1>5, <1>6

(* Where what a copy has written arrives. *)
LEMMA WritesOn ==
  ASSUME Hand, NEW c \in Copier, CopyWrites(c)
  PROVE  /\ \/ /\ Reaches(c)
               /\ \/ /\ c \in {"cUp", "sDown"}
                     /\ inbox' = [inbox EXCEPT ![IF c = "cUp" THEN "c2s" ELSE "s2c"] = @ \o held[c]]
                     /\ UNCHANGED <<toApp, toTarget>>
                  \/ c = "cDown" /\ toApp' = toApp \o held[c] /\ UNCHANGED <<inbox, toTarget>>
                  \/ c = "sUp" /\ toTarget' = toTarget \o held[c] /\ UNCHANGED <<inbox, toApp>>
            \/ Swallows(c) /\ c \in {"cUp", "sUp"} /\ UNCHANGED <<inbox, toApp, toTarget>>
         /\ copy'[c] = "read" /\ UNCHANGED fault
  <1>1. copy'[c] = "read" /\ UNCHANGED fault
    BY DEF CopyWrites, Hand, ProxyTypes
  <1>2. CASE c = "cUp"
    BY <1>1, <1>2 DEF CopyWrites, Arrives, endVars
  <1>3. CASE c = "cDown"
    BY <1>1, <1>3 DEF CopyWrites, Arrives, Swallows, endVars
  <1>4. CASE c = "sUp"
    BY <1>1, <1>4 DEF CopyWrites, Arrives, endVars
  <1>5. CASE c = "sDown"
    BY <1>1, <1>5 DEF CopyWrites, Arrives, Swallows, endVars
  <1>. QED  BY <1>2, <1>3, <1>4, <1>5, SourcesAre

(* The relays leave the handshake where it is. *)
LEMMA RelayIsOn ==
  ASSUME Hand, NEW c \in Copier, copy[c] # "off"
  PROVE  /\ c \in {"cUp", "cDown"} => Succeeded /\ cpc \notin Early
         /\ dialled # None /\ req # None /\ spc \notin {"header", "dial"}
  <1>1. c \in {"cUp", "cDown"} => Succeeded
    BY SourcesAre DEF Hand, Told
  <1>2. dialled # None
    BY <1>1, SourcesAre DEF Hand, Told, Answering
  <1>3. cpc \in Early => ~Succeeded
    BY DEF Hand, Told, Succeeded
  <1>. QED  BY <1>1, <1>2, <1>3, HostAssumption DEF Hand, Answering, Asking

(* A copy that reads, sees the end or closes is past the handshake. *)
LEMMA CopiesKeepHand ==
  ASSUME Hand, NEW c \in Copier, CopyReads(c) \/ CopySeesEnd(c) \/ CopyCloses(c)
  PROVE  Hand'
  <1>1. CASE CopyReads(c)
    <2>1. /\ copy[c] = "read" /\ copy' = [copy EXCEPT ![c] = "write"]
          /\ held'[c] \in Seq(Units) /\ Len(held'[c]) = 1 /\ held' \in [Copier -> Seq(Units)]
          /\ \A d \in Copier : d # c => held'[d] = held[d]
          /\ inbox' \in [Pipes -> Seq(Units)]
          /\ \A p \in Pipes : p # Source[c] => inbox'[p] = inbox[p]
          /\ UNCHANGED <<mode, host, req, dialled, cpc, spc, fin, closed, appSent, targetSent, toApp, toTarget, fault>>
      BY <1>1, ReadsNext
    <2>2. /\ copy' \in [Copier -> {"off", "read", "write"} \cup Over]
          /\ \A d \in Copier : copy'[d] = IF d = c THEN "write" ELSE copy[d]
      BY <2>1 DEF Hand, ProxyTypes
    <2>3. ProxyTypes' /\ Holds'
      BY <2>1, <2>2 DEF Hand, ProxyTypes, Holds
    <2>4. /\ c \in {"cUp", "cDown"} => cpc \notin Early
          /\ req # None /\ spc \notin {"header", "dial"}
      BY <2>1, RelayIsOn
    <2>5. c \notin {"cUp", "cDown"} => inbox'["s2c"] = inbox["s2c"]
      BY <2>1, SourcesAre DEF Pipes
    <2>6. cpc \in Early => Answer' /\ "socks" \notin closed /\ "conn" \notin closed
      BY <2>1, <2>4, <2>5 DEF Hand, Told, Answer
    <2>. QED  BY <2>1, <2>2, <2>3, <2>4, <2>6, HandKept DEF Succeeded
  <1>2. CASE CopySeesEnd(c) \/ CopyCloses(c)
    <2>1. /\ UNCHANGED <<mode, host, req, dialled, cpc, spc, inbox, held, appSent, targetSent, toApp, toTarget, fault>>
          /\ copy' \in [Copier -> {"off", "read", "write"} \cup Over]
          /\ copy[c] \in {"read", "end"} /\ copy'[c] \in Over
          /\ \A d \in Copier : d # c => copy'[d] = copy[d]
          /\ closed' = closed \/ closed' = closed \cup Ends(c)
      BY <1>2 DEF CopySeesEnd, CopyCloses, CloseEnds, idVars, pipeVars, endVars, Hand, ProxyTypes, Over
    <2>2. ProxyTypes' /\ Holds'
      BY <2>1 DEF Hand, ProxyTypes, Holds, Over
    <2>3. /\ c \in {"cUp", "cDown"} => cpc \notin Early
          /\ req # None /\ spc \notin {"header", "dial"}
      BY <2>1, RelayIsOn
    <2>4. \A d \in Copier : copy'[d] = "off" <=> copy[d] = "off"
      BY <2>1 DEF Over
    <2>5. cpc \in Early => Answer' /\ "socks" \notin closed' /\ "conn" \notin closed'
      <3>1. c \notin {"cUp", "cDown"} => Ends(c) = {"split", "target"}
        BY DEF Ends
      <3>. QED  BY <2>1, <2>3, <3>1 DEF Hand, Told, Answer
    <2>. QED  BY <2>1, <2>2, <2>3, <2>4, <2>5, HandKept DEF Succeeded
  <1>. QED  BY <1>1, <1>2

(* So is one whose read fails, ... *)
LEMMA CopyReadFailsKeepsHand ==
  ASSUME Hand, CopyReadFails
  PROVE  Hand'
  <1>1. /\ UNCHANGED <<mode, host, req, dialled, cpc, spc, inbox, closed, held, appSent, targetSent, toApp, toTarget>>
        /\ fault' = TRUE /\ copy["cDown"] = "read" /\ copy'["cDown"] = "end"
        /\ copy' \in [Copier -> {"off", "read", "write"} \cup Over]
        /\ \A d \in Copier : d # "cDown" => copy'[d] = copy[d]
    BY SourcesAre DEF CopyReadFails, idVars, pipeVars, endVars, Hand, ProxyTypes, Over
  <1>2. ProxyTypes' /\ Holds'
    BY <1>1 DEF Hand, ProxyTypes, Holds, Over
  <1>3. cpc \notin Early /\ req # None /\ spc \notin {"header", "dial"}
    BY <1>1, SourcesAre, RelayIsOn
  <1>. QED  BY <1>1, <1>2, <1>3, HandKept DEF Succeeded

(* ... and one that writes or fails to. *)
LEMMA WritesKeepHand ==
  ASSUME Hand, NEW c \in Copier, CopyWrites(c) \/ CopyWriteFails(c)
  PROVE  Hand'
  <1>1. /\ copy[c] = "write" /\ Len(held[c]) = 1 /\ held[c] \in Seq(Units)
        /\ held'[c] = <<>> /\ held' \in [Copier -> Seq(Units)]
        /\ \A d \in Copier : d # c => held'[d] = held[d]
        /\ copy' \in [Copier -> {"off", "read", "write"} \cup Over]
        /\ copy'[c] \in {"read", "end"} /\ \A d \in Copier : d # c => copy'[d] = copy[d]
        /\ UNCHANGED <<mode, host, req, dialled, cpc, spc, fin, closed, appSent, targetSent>>
    BY LetsGo DEF Hand, ProxyTypes
  <1>2. /\ c \in {"cUp", "cDown"} => Succeeded /\ cpc \notin Early
        /\ dialled # None /\ req # None /\ spc \notin {"header", "dial"}
    BY <1>1, RelayIsOn
  <1>3. /\ inbox \in [Pipes -> Seq(Units)] /\ toApp \in Seq(Units) /\ toTarget \in Seq(Units)
        /\ {"c2s", "s2c"} \subseteq Pipes
    BY DEF Hand, ProxyTypes, Pipes
  <1>4. Holds'
    <2>1. Len(<<>>) = 0
      OBVIOUS
    <2>. QED  BY <1>1, <2>1 DEF Hand, Holds
  <1>5. \A d \in Copier : copy'[d] = "off" <=> copy[d] = "off"
    BY <1>1
  <1>6. fault' \in BOOLEAN
    BY DEF CopyWrites, CopyWriteFails, Hand, ProxyTypes
  <1>7. CASE UNCHANGED <<inbox, toApp, toTarget>>
    <2>1. ProxyTypes'
      BY <1>1, <1>6, <1>7 DEF Hand, ProxyTypes
    <2>2. cpc \in Early => Answer' /\ "socks" \notin closed' /\ "conn" \notin closed'
      BY <1>1, <1>7 DEF Hand, Told, Answer
    <2>. QED  BY <1>1, <1>2, <1>4, <1>5, <1>7, <2>1, <2>2, HandKept DEF Succeeded
  <1>8. CASE \/ c = "cDown" /\ toApp' = toApp \o held[c] /\ UNCHANGED <<inbox, toTarget>>
             \/ c = "sUp" /\ toTarget' = toTarget \o held[c] /\ UNCHANGED <<inbox, toApp>>
    <2>0. toApp \o held[c] \in Seq(Units) /\ toTarget \o held[c] \in Seq(Units)
      <3>1. held[c] \in Seq(Units) /\ toApp \in Seq(Units) /\ toTarget \in Seq(Units)
        BY <1>1, <1>3, Zenon
      <3>. QED  BY ONLY <3>1, ConcatProperties
    <2>1. toApp' \in Seq(Units) /\ toTarget' \in Seq(Units)
      BY <1>3, <1>8, <2>0, Zenon
    <2>2. ProxyTypes'
      BY <1>1, <1>6, <1>8, <2>1 DEF Hand, ProxyTypes
    <2>3. Succeeded' <=> Succeeded
      <3>1. CASE c = "cDown"
        <4>1. toApp # <<>> /\ toApp' = toApp \o held[c] /\ Succeeded
          BY <1>2, <1>8, <3>1 DEF Succeeded
        <4>. QED  BY <1>1, <1>3, <4>1, SuccessStays DEF Succeeded
      <3>2. CASE c # "cDown"
        BY <1>8, <3>2 DEF Succeeded
      <3>. QED  BY <3>1, <3>2
    <2>4. cpc \in Early => toApp' = toApp /\ Answer' /\ "socks" \notin closed' /\ "conn" \notin closed'
      BY <1>1, <1>2, <1>8 DEF Hand, Told, Answer
    <2>. QED  BY <1>1, <1>2, <1>4, <1>5, <1>8, <2>2, <2>3, <2>4, HandKept
  <1>9. CASE /\ c \in {"cUp", "sDown"}
             /\ inbox' = [inbox EXCEPT ![IF c = "cUp" THEN "c2s" ELSE "s2c"] = @ \o held[c]]
             /\ UNCHANGED <<toApp, toTarget>>
    <2> DEFINE p == IF c = "cUp" THEN "c2s" ELSE "s2c"
    <2>1. p \in Pipes /\ inbox' = [inbox EXCEPT ![p] = @ \o held[c]]
      BY <1>3, <1>9
    <2> HIDE DEF p
    <2>2. /\ inbox' \in [Pipes -> Seq(Units)] /\ inbox'[p] = inbox[p] \o held[c]
          /\ \A q \in Pipes : q # p => inbox'[q] = inbox[q]
      BY <1>1, <1>3, <2>1, MoreInPipe
    <2>3. ProxyTypes'
      BY <1>1, <1>6, <1>9, <2>2 DEF Hand, ProxyTypes
    <2>4. cpc \in Early => Answer' /\ "socks" \notin closed' /\ "conn" \notin closed'
      <3> SUFFICES ASSUME cpc \in Early PROVE Answer' /\ "socks" \notin closed' /\ "conn" \notin closed'
        OBVIOUS
      <3>1. p = "s2c" /\ Answer /\ "socks" \notin closed /\ "conn" \notin closed
        BY <1>2, <1>9 DEF p, Hand, Told
      <3>2. /\ inbox["s2c"] \in Seq(Units) /\ Len(inbox["s2c"]) >= 2 /\ inbox["s2c"][2] = "OK"
            /\ dialled # None
        BY <1>2, <1>3, <3>1 DEF Answer
      <3>3. /\ Len(inbox["s2c"] \o held[c]) = Len(inbox["s2c"]) + Len(held[c])
            /\ \A i \in 1 .. Len(inbox["s2c"]) + Len(held[c]) :
                 (inbox["s2c"] \o held[c])[i] =
                    IF i <= Len(inbox["s2c"]) THEN inbox["s2c"][i] ELSE held[c][i - Len(inbox["s2c"])]
        <4>1. inbox["s2c"] \in Seq(Units) /\ held[c] \in Seq(Units)
          BY <1>1, <3>2, Zenon
        <4>. QED  BY ONLY <4>1, ConcatProperties
      <3>4. /\ 2 \in 1 .. Len(inbox["s2c"]) + Len(held[c]) /\ 2 <= Len(inbox["s2c"])
            /\ Len(inbox["s2c"]) + Len(held[c]) >= 2
        <4>1. Len(inbox["s2c"]) \in Nat
          BY <3>2
        <4>2. Len(held[c]) = 1
          BY <1>1, Zenon
        <4>3. \A n \in Nat : n >= 2 => 2 \in 1 .. n + 1 /\ 2 <= n /\ n + 1 >= 2
          OBVIOUS
        <4>. QED  BY <3>2, <4>1, <4>2, <4>3, Zenon
      <3>5. Len(inbox'["s2c"]) >= 2 /\ inbox'["s2c"][2] = "OK"
        <4>1. inbox'["s2c"] = inbox["s2c"] \o held[c]
          BY <2>2, <3>1
        <4>2. (inbox["s2c"] \o held[c])[2] = "OK"
          BY <3>2, <3>3, <3>4
        <4>3. Len(inbox["s2c"] \o held[c]) >= 2
          BY <3>3, <3>4, Zenon
        <4>. QED  BY <4>1, <4>2, <4>3, Zenon
      <3>. QED  BY <1>1, <3>1, <3>2, <3>5 DEF Answer
    <2>. QED  BY <1>1, <1>2, <1>4, <1>5, <1>9, <2>3, <2>4, HandKept DEF Succeeded
  <1>10. CASE CopyWriteFails(c)
    BY <1>7, <1>10 DEF CopyWriteFails, pipeVars, endVars
  <1>. QED  BY <1>7, <1>8, <1>9, <1>10, WritesOn

(* Hand is inductive. *)
LEMMA HandAtFirst == ProxyInit => Hand
  <1> SUFFICES ASSUME ProxyInit PROVE Hand
    OBVIOUS
  <1>1. <<>> \in Seq(Units) /\ Len(<<>>) = 0
    OBVIOUS
  <1>2. ProxyTypes
    <2>1. 0 \in 0 .. Len(AppStream) /\ 0 \in 0 .. Len(TargetStream)
      BY StreamAssumption
    <2>. QED  BY <1>1, <2>1 DEF ProxyInit, ProxyTypes, Pipes, Early
  <1>3. Holds
    BY <1>1 DEF ProxyInit, Holds
  <1>4. ~Succeeded /\ inbox["c2s"] = <<>> /\ inbox["s2c"] = <<>>
    BY DEF ProxyInit, Succeeded
  <1>5. Asking
    BY <1>1, <1>4 DEF ProxyInit, Asking
  <1>6. Answering
    BY <1>4 DEF ProxyInit, Answering, Copier
  <1>7. Told
    BY <1>4 DEF ProxyInit, Told, Answer, Copier, Early
  <1>. QED  BY <1>2, <1>3, <1>5, <1>6, <1>7 DEF Hand

(* No step of anybody leaves the handshake in disorder. *)
LEMMA HandStays ==
  ASSUME Hand, [ProxyNext]_proxyVars
  PROVE  Hand'
  <1>1. CASE UNCHANGED proxyVars
    BY <1>1 DEF proxyVars, idVars, pipeVars, copyVars, endVars, Hand, ProxyTypes, Holds, Asking,
                Answering, Told, Answer, Succeeded
  <1>2. CASE AppSends \/ AppHangsUp \/ TargetSends \/ TargetHangsUp
    BY <1>2, EndsKeepHand
  <1>3. CASE Client \/ StreamBreaks
    BY <1>3, ClientKeepsHand, AckKeepsHand DEF Client
  <1>4. CASE Server
    BY <1>4, ServerKeepsHand, DialKeepsHand DEF Server
  <1>5. ASSUME NEW c \in Copier, Copying(c) PROVE Hand'
    BY <1>5, CopiesKeepHand, WritesKeepHand DEF Copying
  <1>6. CASE CopyReadFails
    BY <1>6, CopyReadFailsKeepsHand
  <1>. QED  BY <1>1, <1>2, <1>3, <1>4, <1>5, <1>6 DEF ProxyNext

(* The application is told "success" only when the server has the target it  *)
(* asked for: the request is the first frame of the upload, the answer the   *)
(* first of the download, and OK is answered for nothing but a dial.         *)
THEOREM SuccessMeansDialled == ProxySpec => []SuccessIsReal
  <1>1. Hand => SuccessIsReal
    BY DEF Hand, Told, Answering, Asking, SuccessIsReal, Asked
  <1>. QED  BY <1>1, HandAtFirst, HandStays, PTL DEF ProxySpec

----------------------------------------------------------------------------
(* One direction: what is out, what the second copy holds, what is between   *)
(* the copies, what the first copy holds and what is still before it are     *)
(* pieces of what was sent, one behind the other.  With takes the second     *)
(* copy still goes on; with even nothing was lost between the two.           *)
Front(out, second, mid) == Len(out) + Len(second) + Len(mid)
(* How much of n units sent has left the first copy. *)
Back(first, before, n) == n - Len(before) - Len(first)
(* Nothing lies between the two copies but what the pipe between them holds. *)
Even(out, second, mid, first, before, n) == Front(out, second, mid) = Back(first, before, n)

(* The line w of n units sent. *)
Line(w, out, second, mid, first, before, n, takes, even) ==
  /\ IsSlice(w, out, 0, Len(out))
  /\ IsSlice(w, first, Back(first, before, n), n - Len(before))
  /\ IsSlice(w, before, n - Len(before), n)
  /\ takes => /\ IsSlice(w, second, Len(out), Len(out) + Len(second))
              /\ IsSlice(w, mid, Len(out) + Len(second), Front(out, second, mid))
  /\ Front(out, second, mid) <= Back(first, before, n)
  /\ even => takes /\ Even(out, second, mid, first, before, n)

(* The first unit and the rest are the two slices a copy makes of a pipe. *)
LEMMA HeadAndTail ==
  ASSUME NEW S, NEW s \in Seq(S), s # <<>>
  PROVE  /\ <<Head(s)>> = SubSeq(s, 1, 1) /\ Tail(s) = SubSeq(s, 2, Len(s))
         /\ Len(s) \in Nat \ {0} /\ Len(Tail(s)) = Len(s) - 1 /\ Tail(s) \in Seq(S)
         /\ <<Head(s)>> \in Seq(S) /\ Len(<<Head(s)>>) = 1
  <1> DEFINE l == Len(s)
  <1>1. l \in Nat \ {0}
    BY EmptySeq
  <1>2. /\ Head(s) = s[1] /\ Head(s) \in S /\ Tail(s) \in Seq(S) /\ Len(Tail(s)) = l - 1
        /\ \A i \in 1 .. l - 1 : Tail(s)[i] = s[i + 1]
    BY HeadTailProperties
  <1> HIDE DEF l
  <1>3. /\ 1 \in 1 .. l + 1 /\ 1 \in 1 - 1 .. l /\ 1 - 1 + 1 = 1
        /\ 2 \in 1 .. l + 1 /\ l \in 2 - 1 .. l /\ l - 2 + 1 = l - 1
        /\ \A i \in 1 .. l - 1 : 2 + i - 1 = i + 1
    BY ONLY <1>1
  <1>4. /\ SubSeq(s, 1, 1) \in Seq(S) /\ Len(SubSeq(s, 1, 1)) = 1 - 1 + 1
        /\ \A i \in 1 .. 1 - 1 + 1 : SubSeq(s, 1, 1)[i] = s[1 + i - 1]
    BY <1>3, SliceType DEF l
  <1>5. /\ SubSeq(s, 2, l) \in Seq(S) /\ Len(SubSeq(s, 2, l)) = l - 2 + 1
        /\ \A i \in 1 .. l - 2 + 1 : SubSeq(s, 2, l)[i] = s[2 + i - 1]
    BY <1>3, SliceType DEF l
  <1>6. <<Head(s)>> \in Seq(S) /\ Len(<<Head(s)>>) = 1 /\ <<Head(s)>>[1] = s[1]
    BY <1>2
  <1>7. <<Head(s)>> = SubSeq(s, 1, 1)
    <2>1. SubSeq(s, 1, 1)[1] = s[1] /\ Len(SubSeq(s, 1, 1)) = 1
      <3>1. 1 \in 1 .. 1 - 1 + 1
        OBVIOUS
      <3>2. SubSeq(s, 1, 1)[1] = s[1 + 1 - 1]
        BY <3>1, <1>4
      <3>. QED  BY <3>2, <1>4
    <2>2. \A i \in 1 .. 1 : i = 1
      OBVIOUS
    <2>3. \A i \in 1 .. 1 : <<Head(s)>>[i] = SubSeq(s, 1, 1)[i]
      BY <1>6, <2>1, <2>2, Zenon
    <2>. QED  BY ONLY <1>4, <1>6, <2>1, <2>3, SeqEqual
  <1>8. Tail(s) = SubSeq(s, 2, l)
    <2>1. \A i \in 1 .. l - 1 : Tail(s)[i] = SubSeq(s, 2, l)[i]
      BY <1>2, <1>3, <1>5
    <2>. QED  BY <1>2, <1>3, <1>5, <2>1, SeqEqual
  <1>. QED  BY <1>1, <1>2, <1>6, <1>7, <1>8 DEF l

(* The steps of one direction.  Somebody sends one unit more.                *)
LEMMA LineGrows ==
  ASSUME NEW S, NEW w \in Seq(S), NEW U, NEW out \in Seq(U), NEW second \in Seq(U), NEW mid \in Seq(U),
         NEW first \in Seq(U), NEW before \in Seq(U), NEW n \in Nat, NEW takes, NEW even,
         Line(w, out, second, mid, first, before, n, takes, even), n < Len(w),
         NEW more, more = Append(before, w[n + 1]), NEW m, m = n + 1
  PROVE  /\ Line(w, out, second, mid, first, more, m, takes, even)
         /\ Even(out, second, mid, first, more, m) => Even(out, second, mid, first, before, n)
  <1> DEFINE l == Len(before)
  <1>1. /\ IsSlice(w, before, n - l, n) /\ n - l \in Nat /\ l \in Nat /\ Len(first) \in Nat
        /\ Len(w) \in Nat
    BY LenProperties DEF Line, IsSlice
  <1>2. before \in Seq(S) /\ w[n + 1] \in S
    <2>1. n + 1 \in 1 .. Len(w)
      BY <1>1
    <2>. QED  BY <1>1, <2>1, SliceIsSeq, ElementOfSeq
  <1>3. Len(more) = l + 1 /\ more = before \o <<w[n + 1]>>
    BY <1>2, AppendProperties, AppendIsConcat
  <1>4. IsSlice(w, <<w[n + 1]>>, n, n + 1)
    <2> DEFINE t == SubSeq(w, n + 1, n + 1)
    <2>1. /\ n + 1 \in 1 .. Len(w) + 1 /\ n + 1 \in (n + 1) - 1 .. Len(w)
          /\ (n + 1) - (n + 1) + 1 = 1 /\ (n + 1) + 1 - 1 = n + 1
      BY <1>1
    <2>2. /\ t \in Seq(S) /\ Len(t) = (n + 1) - (n + 1) + 1
          /\ \A i \in 1 .. (n + 1) - (n + 1) + 1 : t[i] = w[(n + 1) + i - 1]
      BY <2>1, SliceType
    <2>3. Len(t) = 1 /\ t[1] = w[n + 1]
      <3>1. 1 \in 1 .. 1
        OBVIOUS
      <3>. QED  BY <2>1, <2>2, <3>1, Zenon
    <2>4. <<w[n + 1]>> \in Seq(S) /\ Len(<<w[n + 1]>>) = 1 /\ <<w[n + 1]>>[1] = w[n + 1]
      BY <1>2
    <2>5. t = <<w[n + 1]>>
      <3>1. \A i \in 1 .. 1 : i = 1
        OBVIOUS
      <3>2. \A i \in 1 .. 1 : t[i] = <<w[n + 1]>>[i]
        BY <2>3, <2>4, <3>1, Zenon
      <3> HIDE DEF t
      <3>. QED  BY ONLY <2>2, <2>3, <2>4, <3>2, SeqEqual
    <2>. QED  BY <2>5, <1>1 DEF IsSlice
  <1>5. IsSlice(w, more, n - l, n + 1)
    BY <1>1, <1>3, <1>4, SlicesAppend
  <1>6. (n + 1) - Len(more) = n - l /\ Back(first, more, n + 1) = Back(first, before, n)
    BY ONLY <1>1, <1>3, n \in Nat DEF Back
  <1>7. Line(w, out, second, mid, first, more, n + 1, takes, even)
    BY <1>5, <1>6 DEF Line, Even
  <1>8. Even(out, second, mid, first, more, n + 1) => Even(out, second, mid, first, before, n)
    BY <1>6 DEF Even
  <1>. QED  BY <1>7, <1>8

(* The first copy reads. *)
LEMMA LineFirstReads ==
  ASSUME NEW S, NEW w \in Seq(S), NEW U, NEW out \in Seq(U), NEW second \in Seq(U), NEW mid \in Seq(U),
         NEW before \in Seq(U), NEW n \in Nat, NEW takes, NEW even,
         Line(w, out, second, mid, <<>>, before, n, takes, even), before # <<>>
  PROVE  /\ Line(w, out, second, mid, <<Head(before)>>, Tail(before), n, takes, even)
         /\ Even(out, second, mid, <<Head(before)>>, Tail(before), n)
              => Even(out, second, mid, <<>>, before, n)
  <1> DEFINE l == Len(before)
             a == n - l
             held1 == <<Head(before)>>
             rest == Tail(before)
  <1>1. /\ held1 = SubSeq(before, 1, 1) /\ rest = SubSeq(before, 2, l)
        /\ l \in Nat \ {0} /\ Len(rest) = l - 1 /\ Len(held1) = 1
    BY HeadAndTail
  <1>2. IsSlice(w, before, a, n) /\ a \in Nat
    BY DEF Line, IsSlice
  <1>3. IsSlice(w, held1, a, a + 1) /\ IsSlice(w, rest, a + 1, n)
    <2>1. 1 \in 0 .. n - a /\ 1 + 1 = 2
      BY <1>1
    <2>2. IsSlice(w, SubSeq(before, 1, 1), a, a + 1) /\ IsSlice(w, SubSeq(before, 1 + 1, l), a + 1, n)
      BY <1>2, <2>1, SliceSplits
    <2>. QED  BY <1>1, <2>1, <2>2
  <1> HIDE DEF held1, rest
  <1>4. n - Len(rest) = a + 1 /\ Back(held1, rest, n) = a /\ Back(<<>>, before, n) = a
    <2>1. Len(<<>>) = 0
      OBVIOUS
    <2>2. n - Len(rest) = a + 1 /\ Back(held1, rest, n) = a
      <3>1. \A x, y \in Nat : x - (y - 1) = (x - y) + 1 /\ (x - (y - 1)) - 1 = x - y
        OBVIOUS
      <3>. QED  BY <3>1, <1>1, Zenon DEF Back
    <2>3. Back(<<>>, before, n) = a
      <3>1. a - 0 = a
        BY <1>2
      <3>. QED  BY <2>1, <3>1 DEF Back
    <2>. QED  BY <2>2, <2>3
  <1>5. Line(w, out, second, mid, held1, rest, n, takes, even)
    BY <1>3, <1>4 DEF Line, Even
  <1>. QED  BY <1>4, <1>5 DEF Even, held1, rest

(* It writes, and what it wrote is between the copies; or it is lost.        *)
LEMMA LineFirstWrites ==
  ASSUME NEW S, NEW w \in Seq(S), NEW U, NEW out \in Seq(U), NEW second \in Seq(U), NEW mid \in Seq(U),
         NEW first \in Seq(U), NEW before \in Seq(U), NEW n \in Nat, NEW takes, NEW even,
         Line(w, out, second, mid, first, before, n, takes, even), takes => even
  PROVE  /\ Line(w, out, second, mid \o first, <<>>, before, n, takes, even)
         /\ Even(out, second, mid \o first, <<>>, before, n)
              => Even(out, second, mid, first, before, n)
  <1> DEFINE more == mid \o first
             f == Front(out, second, mid)
             b == Back(first, before, n)
  <1>1. /\ Len(out) \in Nat /\ Len(second) \in Nat /\ Len(mid) \in Nat /\ Len(first) \in Nat
        /\ Len(before) \in Nat /\ Len(more) = Len(mid) + Len(first) /\ Len(<<>>) = 0
    BY ConcatProperties, LenProperties
  <1>2. /\ b \in Nat /\ n - Len(before) \in Nat /\ n - Len(before) <= Len(w)
        /\ f <= b /\ (even => f = b) /\ IsSlice(w, first, b, n - Len(before))
    BY DEF Line, IsSlice, Even
  <1> HIDE DEF more
  <1>3. /\ Front(out, second, more) = f + Len(first) /\ f \in Nat
        /\ b + Len(first) = n - Len(before)
    BY ONLY <1>1, n \in Nat DEF Front, Back
  <1>4. Back(<<>>, before, n) = n - Len(before)
    <2>1. \A x \in Nat : x - 0 = x
      OBVIOUS
    <2>. QED  BY <1>1, <1>2, <2>1, Zenon DEF Back
  <1>5. takes => IsSlice(w, more, Len(out) + Len(second), Front(out, second, more))
    <2> SUFFICES ASSUME takes PROVE IsSlice(w, more, Len(out) + Len(second), Front(out, second, more))
      OBVIOUS
    <2>1. IsSlice(w, mid, Len(out) + Len(second), f) /\ f = b
      BY <1>2 DEF Line
    <2>2. IsSlice(w, mid \o first, Len(out) + Len(second), n - Len(before))
      BY <1>2, <2>1, SlicesAppend
    <2>3. Front(out, second, more) = n - Len(before)
      BY <1>3, <2>1
    <2>. QED  BY <2>2, <2>3 DEF more
  <1>6. IsSlice(w, <<>>, n - Len(before), n - Len(before))
    BY <1>2, EmptySlice
  <1>7. Front(out, second, more) <= n - Len(before)
        /\ (Front(out, second, more) = n - Len(before) <=> f = b)
    <2> DEFINE x == Front(out, second, more)
               m == n - Len(before)
               k == Len(first)
    <2>1. f \in Nat /\ b \in Nat /\ k \in Nat /\ x = f + k /\ b + k = m /\ f <= b
      BY <1>1, <1>2, <1>3
    <2> HIDE DEF f, b, x, m, k
    <2>2. x <= m /\ (x = m <=> f = b)
      <3>1. \A y, z, j \in Nat : y <= z => y + j <= z + j /\ (y + j = z + j => y = z)
        OBVIOUS
      <3>. QED  BY <2>1, <3>1, Zenon
    <2>. QED  BY <2>2 DEF x, m
  <1>8. Line(w, out, second, more, <<>>, before, n, takes, even)
    BY <1>2, <1>4, <1>5, <1>6, <1>7 DEF Line, Even
  <1>9. Even(out, second, more, <<>>, before, n) => Even(out, second, mid, first, before, n)
    BY <1>4, <1>7 DEF Even
  <1>. QED  BY <1>8, <1>9 DEF more

(* The first copy loses what it holds: the line is no longer even, and no    *)
(* later step may need it to be.                                             *)
LEMMA LineFirstLoses ==
  ASSUME NEW S, NEW w \in Seq(S), NEW U, NEW out \in Seq(U), NEW second \in Seq(U), NEW mid \in Seq(U),
         NEW first \in Seq(U), NEW before \in Seq(U), NEW n \in Nat, NEW takes, NEW even,
         Line(w, out, second, mid, first, before, n, takes, even), Len(first) = 1
  PROVE  /\ Line(w, out, second, mid, <<>>, before, n, takes, FALSE)
         /\ ~Even(out, second, mid, <<>>, before, n)
  <1> DEFINE f == Front(out, second, mid)
             b == Back(first, before, n)
  <1>1. /\ Len(out) \in Nat /\ Len(second) \in Nat /\ Len(mid) \in Nat
        /\ Len(before) \in Nat /\ Len(<<>>) = 0
    BY LenProperties
  <1>2. /\ b \in Nat /\ n - Len(before) \in Nat /\ n - Len(before) <= Len(w) /\ f <= b
    BY DEF Line, IsSlice
  <1>3. b + 1 = n - Len(before) /\ f \in Nat
    BY ONLY <1>1, n \in Nat, Len(first) = 1 DEF Front, Back
  <1>4. Back(<<>>, before, n) = n - Len(before)
    <2>1. \A x \in Nat : x - 0 = x
      OBVIOUS
    <2>. QED  BY <1>1, <1>2, <2>1, Zenon DEF Back
  <1>5. IsSlice(w, <<>>, n - Len(before), n - Len(before))
    BY <1>2, EmptySlice
  <1>6. f <= n - Len(before) /\ f # n - Len(before)
    <2> HIDE DEF f, b
    <2>. QED  BY ONLY <1>1, <1>2, <1>3
  <1>. QED  BY <1>4, <1>5, <1>6 DEF Line, Even

(* The second copy reads. *)
LEMMA LineSecondReads ==
  ASSUME NEW S, NEW w \in Seq(S), NEW U, NEW out \in Seq(U), NEW mid \in Seq(U),
         NEW first \in Seq(U), NEW before \in Seq(U), NEW n \in Nat, NEW takes, NEW even,
         Line(w, out, <<>>, mid, first, before, n, takes, even), mid # <<>>
  PROVE  /\ Line(w, out, <<Head(mid)>>, Tail(mid), first, before, n, takes, even)
         /\ Front(out, <<Head(mid)>>, Tail(mid)) = Front(out, <<>>, mid)
  <1> DEFINE l == Len(mid)
             o == Len(out)
             taken == <<Head(mid)>>
             rest == Tail(mid)
  <1>1. /\ taken = SubSeq(mid, 1, 1) /\ rest = SubSeq(mid, 2, l)
        /\ l \in Nat \ {0} /\ Len(rest) = l - 1 /\ Len(taken) = 1
    BY HeadAndTail
  <1>2. o \in Nat /\ Len(<<>>) = 0
    BY LenProperties
  <1> HIDE DEF taken, rest, o
  <1>3. /\ Front(out, taken, rest) = o + l /\ Front(out, <<>>, mid) = o + l
        /\ o + Len(<<>>) = o /\ o + Len(taken) = o + 1
    <2> DEFINE t == Len(taken)
               r == Len(rest)
               z == Len(<<>>)
    <2>1. /\ Front(out, taken, rest) = (o + t) + r /\ Front(out, <<>>, mid) = (o + z) + l
          /\ t = 1 /\ r = l - 1 /\ z = 0 /\ l \in Nat /\ o \in Nat
      BY <1>1, <1>2 DEF Front, o
    <2> HIDE DEF t, r, z, l
    <2>2. (o + t) + r = o + l /\ (o + z) + l = o + l /\ o + z = o /\ o + t = o + 1
      BY <2>1
    <2>. QED  BY <2>1, <2>2 DEF t, z
  <1>4. takes => IsSlice(w, taken, o, o + 1) /\ IsSlice(w, rest, o + 1, o + l)
    <2> SUFFICES ASSUME takes PROVE IsSlice(w, taken, o, o + 1) /\ IsSlice(w, rest, o + 1, o + l)
      OBVIOUS
    <2>1. IsSlice(w, mid, o, o + l)
      BY <1>3 DEF Line, o
    <2>2. 1 \in 0 .. (o + l) - o /\ 1 + 1 = 2
      BY <1>1, <1>2
    <2>3. IsSlice(w, SubSeq(mid, 1, 1), o, o + 1) /\ IsSlice(w, SubSeq(mid, 1 + 1, l), o + 1, o + l)
      BY <2>1, <2>2, SliceSplits
    <2>. QED  BY <1>1, <2>2, <2>3
  <1>5. Line(w, out, taken, rest, first, before, n, takes, even)
    BY <1>3, <1>4 DEF Line, Even, o
  <1>. QED  BY <1>3, <1>5 DEF taken, rest

(* It writes. *)
LEMMA FrontWrites ==
  ASSUME NEW U, NEW out \in Seq(U), NEW second \in Seq(U), NEW mid \in Seq(U)
  PROVE  /\ Front(out \o second, <<>>, mid) = Front(out, second, mid)
         /\ Len(out \o second) = Len(out) + Len(second)
  <1> DEFINE more == out \o second
             k == Len(out) + Len(second)
  <1>1. k \in Nat /\ Len(mid) \in Nat /\ Len(<<>>) = 0 /\ Len(more) = k
    BY ConcatProperties, LenProperties
  <1>2. /\ Front(more, <<>>, mid) = (k + Len(<<>>)) + Len(mid)
        /\ Front(out, second, mid) = k + Len(mid)
    BY <1>1 DEF Front
  <1> HIDE DEF more, k
  <1>3. k + Len(<<>>) = k
    BY <1>1
  <1>. QED  BY <1>1, <1>2, <1>3 DEF more, k

(* The second copy writes what it holds: the output is a longer prefix. *)
LEMMA LineSecondWrites ==
  ASSUME NEW S, NEW w \in Seq(S), NEW U, NEW out \in Seq(U), NEW second \in Seq(U), NEW mid \in Seq(U),
         NEW first \in Seq(U), NEW before \in Seq(U), NEW n \in Nat, NEW even,
         Line(w, out, second, mid, first, before, n, TRUE, even)
  PROVE  Line(w, out \o second, <<>>, mid, first, before, n, TRUE, even)
  <1> DEFINE more == out \o second
             k == Len(out) + Len(second)
  <1>1. /\ Front(more, <<>>, mid) = Front(out, second, mid) /\ Len(more) = k /\ Len(<<>>) = 0
    BY FrontWrites
  <1>2. IsSlice(w, out, 0, Len(out)) /\ IsSlice(w, second, Len(out), k)
    BY DEF Line
  <1>3. IsSlice(w, more, 0, k)
    BY <1>2, SlicesAppend
  <1>4. k \in Nat /\ k <= Len(w)
    BY <1>2 DEF IsSlice
  <1>5. IsSlice(w, <<>>, k, k)
    BY <1>4, EmptySlice
  <1> HIDE DEF more
  <1>6. k + Len(<<>>) = k
    BY <1>1, <1>4
  <1>7. Line(w, more, <<>>, mid, first, before, n, TRUE, even)
    BY <1>1, <1>3, <1>5, <1>6 DEF Line, Even
  <1>. QED  BY <1>7 DEF more

(* It loses what it holds, and writes no more. *)
LEMMA LineSecondLoses ==
  ASSUME NEW S, NEW w \in Seq(S), NEW U, NEW out \in Seq(U), NEW second \in Seq(U), NEW mid \in Seq(U),
         NEW first \in Seq(U), NEW before \in Seq(U), NEW n \in Nat, NEW takes, NEW even,
         Line(w, out, second, mid, first, before, n, takes, even), Len(second) = 1
  PROVE  /\ Line(w, out, <<>>, mid, first, before, n, FALSE, FALSE)
         /\ ~Even(out, <<>>, mid, first, before, n)
  <1> DEFINE f == Front(out, second, mid)
             g == Front(out, <<>>, mid)
             b == Back(first, before, n)
  <1>1. /\ b \in Nat /\ f <= b
    BY DEF Line, IsSlice
  <1>2. g \in Nat /\ f = g + 1
    <2> DEFINE o == Len(out)
               m == Len(mid)
               z == Len(<<>>)
               k == Len(second)
    <2>1. o \in Nat /\ m \in Nat /\ z = 0 /\ k = 1 /\ f = (o + k) + m /\ g = (o + z) + m
      BY LenProperties DEF Front
    <2> HIDE DEF o, m, z, k, f, g
    <2>. QED  BY <2>1
  <1>3. g <= b /\ g # b
    <2> HIDE DEF f, g, b
    <2>. QED  BY <1>1, <1>2
  <1>. QED  BY <1>3 DEF Line, Even

(* What is between the copies is of no use to anybody any more. *)
LEMMA LineGivesUp ==
  ASSUME NEW S, NEW w \in Seq(S), NEW U, NEW out \in Seq(U), NEW second \in Seq(U), NEW mid \in Seq(U),
         NEW first, NEW before, NEW n, NEW takes, NEW even,
         Line(w, out, second, mid, first, before, n, takes, even)
  PROVE  Line(w, out, second, <<>>, first, before, n, FALSE, FALSE)
  <1> DEFINE f == Front(out, second, mid)
             g == Front(out, second, <<>>)
             b == Back(first, before, n)
  <1>1. /\ b \in Nat /\ f <= b
    BY DEF Line, IsSlice
  <1>2. g \in Nat /\ f \in Nat /\ g <= f
    <2>1. Len(out) \in Nat /\ Len(second) \in Nat /\ Len(mid) \in Nat /\ Len(<<>>) = 0
      BY LenProperties
    <2>2. \A x, y, z \in Nat : (x + y) + 0 \in Nat /\ (x + y) + z \in Nat /\ (x + y) + 0 <= (x + y) + z
      OBVIOUS
    <2>. QED  BY <2>1, <2>2, Zenon DEF Front
  <1>3. g <= b
    <2> HIDE DEF f, g, b
    <2>. QED  BY <1>1, <1>2
  <1>. QED  BY <1>3 DEF Line

(* Less may be promised. *)
LEMMA LineWeakens ==
  ASSUME NEW w, NEW out, NEW second, NEW mid, NEW first, NEW before, NEW n,
         NEW takes, NEW even, NEW takes1, NEW even1,
         Line(w, out, second, mid, first, before, n, takes, even),
         takes1 => takes, even1 => even, even1 => takes1
  PROVE  Line(w, out, second, mid, first, before, n, takes1, even1)
  BY DEF Line

(* Whoever has something is not behind whoever comes after. *)
LEMMA LineInOrder ==
  ASSUME NEW w, NEW U, NEW out \in Seq(U), NEW second \in Seq(U), NEW mid \in Seq(U),
         NEW first \in Seq(U), NEW before \in Seq(U), NEW n \in Nat, NEW takes, NEW even,
         Line(w, out, second, mid, first, before, n, takes, even)
  PROVE  /\ Len(out) \in Nat /\ Front(out, second, mid) \in Nat /\ Back(first, before, n) \in Nat
         /\ Len(out) <= Front(out, second, mid)
         /\ Front(out, second, mid) <= Back(first, before, n) /\ Back(first, before, n) <= n
         /\ Len(second) = 0 /\ Len(mid) = 0 => Front(out, second, mid) = Len(out)
         /\ Len(first) = 0 /\ Len(before) = 0 => Back(first, before, n) = n
         /\ Len(second) # 0 => Len(out) # Front(out, second, mid)
  <1> DEFINE o == Len(out)
             s == Len(second)
             m == Len(mid)
             f == Len(first)
             r == Len(before)
  <1>1. o \in Nat /\ s \in Nat /\ m \in Nat /\ f \in Nat /\ r \in Nat
    BY LenProperties
  <1>2. (n - r) - f \in Nat /\ (o + s) + m <= (n - r) - f
    BY DEF Line, IsSlice, Front, Back
  <1> HIDE DEF o, s, m, f, r
  <1>3. /\ (o + s) + m \in Nat /\ o <= (o + s) + m /\ (n - r) - f <= n
        /\ s = 0 /\ m = 0 => (o + s) + m = o
        /\ f = 0 /\ r = 0 => (n - r) - f = n
        /\ s # 0 => o # (o + s) + m
    BY <1>1, n \in Nat
  <1>. QED  BY <1>1, <1>2, <1>3 DEF Front, Back, o, s, m, f, r

----------------------------------------------------------------------------
(* Nobody takes back an end, a close, a fault or the end of a copy.          *)
LEMMA OnlyForward ==
  ASSUME Hand, [ProxyNext]_proxyVars
  PROVE  /\ fin \subseteq fin' /\ closed \subseteq closed' /\ (fault => fault')
         /\ \A c \in Copier : copy[c] \in Over => copy'[c] \in Over
         /\ copy'["cDown"] \in {"read", "write"} => copy["cDown"] \in {"read", "write"} \/ cpc \in Early
         /\ cpc' \in Early => cpc \in Early
  <1>0. copy \in [Copier -> {"off", "read", "write"} \cup Over] /\ Copier = {"cUp", "cDown", "sUp", "sDown"}
    BY DEF Hand, ProxyTypes, Copier
  <1>1. CASE UNCHANGED proxyVars
    BY <1>1 DEF proxyVars, idVars, pipeVars, copyVars
  <1>2. CASE AppSends \/ AppHangsUp \/ TargetSends \/ TargetHangsUp \/ StreamBreaks
    BY <1>2 DEF AppSends, AppHangsUp, TargetSends, TargetHangsUp, StreamBreaks, copyVars
  <1>3. CASE SocksRequest \/ DialTunnel \/ SendRequest \/ AckLost \/ ClientReturns
    <2>0. \A r : GiveUp(r) => fin \subseteq fin' /\ closed \subseteq closed'
      BY DEF GiveUp, CloseEnds
    <2>1. fin \subseteq fin' /\ closed \subseteq closed' /\ copy' = copy /\ (fault => fault')
      <3>1. CASE SocksRequest \/ DialTunnel
        <4>1. UNCHANGED <<copy, fault>>
          BY <3>1 DEF SocksRequest, DialTunnel, copyVars
        <4>2. UNCHANGED <<fin, closed>> \/ \E r : GiveUp(r)
          <5>1. SocksRequest => UNCHANGED <<fin, closed>> \/ \E r : GiveUp(r)
            BY DEF SocksRequest
          <5>2. DialTunnel => UNCHANGED <<fin, closed>> \/ \E r : GiveUp(r)
            BY DEF DialTunnel
          <5>. QED  BY <3>1, <5>1, <5>2
        <4>. QED  BY <2>0, <4>1, <4>2
      <3>2. CASE SendRequest
        <4>1. copy' = copy /\ (fault => fault')
          BY <3>2 DEF SendRequest, copyVars
        <4>2. UNCHANGED <<fin, closed>> \/ GiveUp(<<"failure">>)
          BY <3>2 DEF SendRequest
        <4>. QED  BY <2>0, <4>1, <4>2
      <3>3. CASE AckLost \/ ClientReturns
        BY <2>0, <3>3 DEF AckLost, ClientReturns, pipeVars, copyVars
      <3>. QED  BY <1>3, <3>1, <3>2, <3>3
    <2>2. cpc' \in Early => cpc \in Early
      BY <1>3 DEF SocksRequest, DialTunnel, SendRequest, AckLost, ClientReturns, Early
    <2>. QED  BY <2>1, <2>2
  <1>4. CASE ReadAck
    <2>1. cpc = "ack" /\ copy["cUp"] = "off" /\ copy["cDown"] = "off"
      BY <1>4 DEF ReadAck, Hand, Told, Succeeded, Early
    <2>2. /\ fin \subseteq fin' /\ closed \subseteq closed' /\ fault' = fault
          /\ copy' = copy \/ copy' = [copy EXCEPT !["cUp"] = "read", !["cDown"] = "read"]
      BY <1>4 DEF ReadAck, GiveUp, CloseEnds
    <2>. QED  BY <1>0, <2>1, <2>2 DEF Over, Early
  <1>5. CASE ReadRequest \/ RequestLost \/ ServerReturns
    BY <1>5 DEF ReadRequest, RequestLost, ServerReturns, CloseEnds, pipeVars, copyVars
  <1>6. CASE DialTarget
    <2>1. copy["sUp"] = "off" /\ copy["sDown"] = "off"
      BY <1>6 DEF DialTarget, Hand, Answering
    <2>2. /\ fin \subseteq fin' /\ closed \subseteq closed' /\ fault' = fault /\ cpc' = cpc
          /\ copy' = copy \/ copy' = [copy EXCEPT !["sUp"] = "read", !["sDown"] = "read"]
      BY <1>6 DEF DialTarget, CloseEnds
    <2>. QED  BY <1>0, <2>1, <2>2 DEF Over
  <1>7. ASSUME NEW c \in Copier, Copying(c)
        PROVE  /\ fin \subseteq fin' /\ closed \subseteq closed' /\ (fault => fault') /\ cpc' = cpc
               /\ \A d \in Copier : copy[d] \in Over => copy'[d] \in Over
               /\ copy'["cDown"] \in {"read", "write"} => copy["cDown"] \in {"read", "write"}
    <2>1. CASE CopyReads(c)
      BY <1>0, <2>1 DEF CopyReads, Over
    <2>2. CASE CopySeesEnd(c)
      BY <1>0, <2>2 DEF CopySeesEnd, Over, pipeVars
    <2>3. CASE CopyWrites(c)
      BY <1>0, <2>3 DEF CopyWrites, Over
    <2>4. CASE CopyWriteFails(c)
      BY <1>0, <2>4 DEF CopyWriteFails, Over, pipeVars
    <2>5. CASE CopyCloses(c)
      BY <1>0, <2>5 DEF CopyCloses, CloseEnds, Over
    <2>. QED  BY <1>7, <2>1, <2>2, <2>3, <2>4, <2>5 DEF Copying
  <1>8. CASE CopyReadFails
    BY <1>0, <1>8 DEF CopyReadFails, Over, pipeVars
  <1>. QED  BY <1>1, <1>2, <1>3, <1>4, <1>5, <1>6, <1>7, <1>8 DEF ProxyNext, Client, Server

----------------------------------------------------------------------------
(* The upward direction: the request is no part of it.                       *)
UpData == IF req = None THEN <<>> ELSE inbox["c2s"]
(* The server's copy may still write to the target, and the client's may     *)
(* still write to it.                                                        *)
SUpTakes == Reaches("sUp") /\ copy["sUp"] \notin Over
CUpReaches == Reaches("cUp") /\ copy["cUp"] \notin Over
UpIntact == SUpTakes /\ CUpReaches
Up == Line(AppStream, toTarget, held["sUp"], UpData, held["cUp"], inbox["a2c"], appSent,
           SUpTakes, UpIntact)
UpEven == Even(toTarget, held["sUp"], UpData, held["cUp"], inbox["a2c"], appSent)

(* The pieces of the upward line are sequences. *)
LEMMA UpTypes ==
  ASSUME Hand
  PROVE  /\ toTarget \in Seq(Units) /\ held["sUp"] \in Seq(Units) /\ UpData \in Seq(Units)
         /\ held["cUp"] \in Seq(Units) /\ inbox["a2c"] \in Seq(Units) /\ appSent \in Nat
         /\ AppStream \in Seq(AppData) /\ Len(AppStream) \in Nat
  BY StreamAssumption DEF Hand, ProxyTypes, UpData, AppData, Pipes, Copier

(* Whoever has stopped taking does not take again. *)
LEMMA UpLinksClose ==
  ASSUME Hand, [ProxyNext]_proxyVars
  PROVE  /\ (SUpTakes' => SUpTakes) /\ (CUpReaches' => CUpReaches) /\ (UpIntact' => UpIntact)
         /\ UpIntact' => SUpTakes' /\ CUpReaches'
  BY OnlyForward, SourcesAre DEF SUpTakes, CUpReaches, UpIntact, Reaches

(* What the line has become. *)
LEMMA UpIs ==
  ASSUME NEW out, NEW second, NEW mid, NEW first, NEW before, NEW n, NEW takes, NEW even,
         Line(AppStream, out, second, mid, first, before, n, takes, even),
         toTarget' = out, held["sUp"]' = second, UpData' = mid, held["cUp"]' = first,
         inbox["a2c"]' = before, appSent' = n, SUpTakes' => takes, UpIntact' => even
  PROVE  Up' /\ (UpEven' <=> Even(out, second, mid, first, before, n))
  <1>1. UpIntact' => SUpTakes'
    BY DEF UpIntact
  <1>2. Line(AppStream, out, second, mid, first, before, n, SUpTakes', UpIntact')
    BY <1>1, LineWeakens
  <1>. QED  BY <1>2 DEF Up, UpEven

(* A step that moves nothing upward. *)
LEMMA UpKept ==
  ASSUME Hand, [ProxyNext]_proxyVars, Up,
         UNCHANGED <<toTarget, held["sUp"], UpData, held["cUp"], inbox["a2c"], appSent>>
  PROVE  Up' /\ (UpEven' => UpEven)
  <1>1. Line(AppStream, toTarget, held["sUp"], UpData, held["cUp"], inbox["a2c"], appSent, SUpTakes, UpIntact)
    BY DEF Up
  <1>. QED  BY <1>1, UpLinksClose, UpIs DEF UpEven

(* The request frame is all there is in the upload when the server reads it. *)
LEMMA RequestIsAll ==
  ASSUME Hand, ReadRequest
  PROVE  req = None /\ AfterFrame("c2s") = <<>>
  <1>1. req = None /\ Len(inbox["c2s"]) <= 2 /\ FrameIn("c2s")
    BY DEF ReadRequest, Hand, Asking
  <1>2. inbox \in [Pipes -> Seq(Units)] /\ "c2s" \in Pipes
    BY DEF Hand, ProxyTypes, Pipes
  <1>3. AfterFrame("c2s") \in Seq(Units) /\ Len(AfterFrame("c2s")) = Len(inbox["c2s"]) - 2
    BY <1>1, <1>2, AfterFrameIs
  <1>4. Len(AfterFrame("c2s")) = 0
    <2>1. \A n \in Nat : n <= 2 /\ n >= 2 => n - 2 = 0
      OBVIOUS
    <2>2. Len(inbox["c2s"]) \in Nat /\ Len(inbox["c2s"]) >= 2
      BY <1>1, <1>2 DEF FrameIn
    <2>. QED  BY <1>1, <1>3, <2>1, <2>2, Zenon
  <1>. QED  BY <1>1, <1>3, <1>4, EmptySeq

(* The steps that are not the upward copies' own. *)
LEMMA UpOthers ==
  ASSUME Hand, Up, [ProxyNext]_proxyVars,
         \/ UNCHANGED proxyVars
         \/ AppHangsUp \/ TargetSends \/ TargetHangsUp \/ Client \/ Server \/ CopyReadFails \/ StreamBreaks
         \/ \E c \in Copier : CopySeesEnd(c) \/ CopyCloses(c)
         \/ \E c \in {"cDown", "sDown"} : Copying(c)
  PROVE  Up' /\ (UpEven' => UpEven)
  <1>0. /\ inbox \in [Pipes -> Seq(Units)] /\ "c2s" \in Pipes /\ "a2c" \in Pipes /\ "s2c" \in Pipes
        /\ "t2s" \in Pipes /\ {"cUp", "cDown", "sUp", "sDown"} = Copier
        /\ held \in [Copier -> Seq(Units)]
    BY DEF Hand, ProxyTypes, Pipes, Copier
  <1>1. UNCHANGED <<toTarget, held["sUp"], held["cUp"], inbox["a2c"], appSent>> /\ UpData' = UpData
    <2>1. CASE \/ UNCHANGED proxyVars
               \/ AppHangsUp \/ TargetHangsUp \/ CopyReadFails \/ StreamBreaks
               \/ \E c \in Copier : CopySeesEnd(c) \/ CopyCloses(c)
      BY <2>1 DEF proxyVars, AppHangsUp, TargetHangsUp, CopyReadFails, StreamBreaks, CopySeesEnd, CopyCloses,
                  idVars, pipeVars, copyVars, endVars, UpData
    <2>2. CASE TargetSends
      <3>1. UNCHANGED <<toTarget, held, appSent, req>> /\ inbox' = [inbox EXCEPT !["t2s"] = Append(@, TargetStream[targetSent'])]
        BY <2>2 DEF TargetSends, idVars, copyVars
      <3>2. inbox'["a2c"] = inbox["a2c"] /\ inbox'["c2s"] = inbox["c2s"]
        BY <1>0, <3>1
      <3>. QED  BY <3>1, <3>2 DEF UpData
    <2>3. CASE SocksRequest \/ DialTunnel \/ AckLost \/ ClientReturns \/ RequestLost \/ ServerReturns
      BY <2>3 DEF SocksRequest, DialTunnel, AckLost, ClientReturns, RequestLost, ServerReturns,
                  GiveUp, idVars, pipeVars, copyVars, endVars, UpData
    <2>4. CASE SendRequest
      <3>1. req = None /\ UNCHANGED <<toTarget, held, appSent, req>>
        BY <2>4 DEF SendRequest, Hand, Asking, idVars, copyVars
      <3>2. PICK s : inbox' = [inbox EXCEPT !["c2s"] = s]
        BY <2>4 DEF SendRequest
      <3>3. inbox'["a2c"] = inbox["a2c"]
        BY <1>0, <3>2
      <3>. QED  BY <3>1, <3>3 DEF UpData
    <2>5. CASE ReadAck
      <3>1. /\ UNCHANGED <<toTarget, held, appSent, req>>
            /\ inbox' = [inbox EXCEPT !["s2c"] = AfterFrame("s2c")]
        BY <2>5 DEF ReadAck, idVars
      <3>2. inbox'["a2c"] = inbox["a2c"] /\ inbox'["c2s"] = inbox["c2s"]
        BY <1>0, <3>1
      <3>. QED  BY <3>1, <3>2 DEF UpData
    <2>6. CASE ReadRequest
      <3>1. /\ UNCHANGED <<toTarget, held, appSent>>
            /\ inbox' = [inbox EXCEPT !["c2s"] = AfterFrame("c2s")]
        BY <2>6 DEF ReadRequest, endVars, copyVars
      <3>2. req = None /\ AfterFrame("c2s") = <<>>
        BY <2>6, RequestIsAll
      <3>3. inbox'["a2c"] = inbox["a2c"] /\ inbox'["c2s"] = <<>>
        BY <1>0, <3>1, <3>2
      <3>. QED  BY <3>1, <3>2, <3>3 DEF UpData
    <2>7. CASE DialTarget
      <3>1. /\ UNCHANGED <<toTarget, held, appSent, req>>
            /\ \E s : inbox' = [inbox EXCEPT !["s2c"] = s]
        BY <2>7 DEF DialTarget, endVars, SendACK
      <3>2. inbox'["a2c"] = inbox["a2c"] /\ inbox'["c2s"] = inbox["c2s"]
        BY <1>0, <3>1
      <3>. QED  BY <3>1, <3>2 DEF UpData
    <2>8. ASSUME NEW c \in {"cDown", "sDown"}, CopyReads(c)
          PROVE  UNCHANGED <<toTarget, held["sUp"], held["cUp"], inbox["a2c"], appSent>> /\ UpData' = UpData
      BY <1>0, <2>8, ReadsNext, SourcesAre DEF UpData
    <2>9. ASSUME NEW c \in {"cDown", "sDown"}, CopyWrites(c) \/ CopyWriteFails(c)
          PROVE  UNCHANGED <<toTarget, held["sUp"], held["cUp"], inbox["a2c"], appSent>> /\ UpData' = UpData
      <3>1. UNCHANGED <<held["sUp"], held["cUp"], appSent, req>>
        BY <1>0, <2>9, LetsGo
      <3>2. toTarget' = toTarget /\ (inbox' = inbox \/ inbox' = [inbox EXCEPT !["s2c"] = @ \o held[c]])
        BY <1>0, <2>9, WritesOn DEF CopyWriteFails, pipeVars, endVars
      <3>3. inbox'["a2c"] = inbox["a2c"] /\ inbox'["c2s"] = inbox["c2s"]
        BY <1>0, <3>2
      <3>. QED  BY <3>1, <3>2, <3>3 DEF UpData
    <2>. QED  BY <1>0, <2>1, <2>2, <2>3, <2>4, <2>5, <2>6, <2>7, <2>8, <2>9 DEF Client, Server, Copying
  <1>. QED  BY <1>1, UpKept

(* The application sends: the line grows at its end. *)
LEMMA UpGrows ==
  ASSUME Hand, Up, [ProxyNext]_proxyVars, AppSends
  PROVE  Up' /\ (UpEven' => UpEven)
  <1>1. /\ appSent' = appSent + 1 /\ appSent < Len(AppStream)
        /\ inbox' = [inbox EXCEPT !["a2c"] = Append(@, AppStream[appSent'])]
        /\ UNCHANGED <<req, toTarget, held>>
    BY DEF AppSends, idVars, copyVars
  <1>2. inbox'["a2c"] = Append(inbox["a2c"], AppStream[appSent + 1]) /\ inbox'["c2s"] = inbox["c2s"]
    BY <1>1 DEF Hand, ProxyTypes, Pipes
  <1>3. /\ Line(AppStream, toTarget, held["sUp"], UpData, held["cUp"], inbox'["a2c"], appSent + 1,
                SUpTakes, UpIntact)
        /\ Even(toTarget, held["sUp"], UpData, held["cUp"], inbox'["a2c"], appSent + 1) => UpEven
    <2>1. Line(AppStream, toTarget, held["sUp"], UpData, held["cUp"], inbox["a2c"], appSent, SUpTakes, UpIntact)
      BY DEF Up
    <2>. QED  BY <1>1, <1>2, <2>1, UpTypes, LineGrows DEF UpEven
  <1>4. UpData' = UpData /\ UNCHANGED <<toTarget, held["sUp"], held["cUp"]>>
    BY <1>1, <1>2 DEF UpData
  <1>. QED  BY <1>1, <1>3, <1>4, UpLinksClose, UpIs

(* The client's upward copy reads. *)
LEMMA CUpReads ==
  ASSUME Hand, Up, [ProxyNext]_proxyVars, CopyReads("cUp")
  PROVE  Up' /\ (UpEven' => UpEven)
  <1>0. "cUp" \in Copier /\ "sUp" \in Copier /\ "c2s" \in Pipes /\ Source["cUp"] = "a2c" /\ copy["cUp"] = "read"
    BY SourcesAre DEF CopyReads, Pipes
  <1>1. /\ held'["cUp"] = <<Head(inbox["a2c"])>> /\ inbox'["a2c"] = Tail(inbox["a2c"]) /\ inbox["a2c"] # <<>>
        /\ UNCHANGED <<req, toTarget, appSent, held["sUp"]>> /\ inbox'["c2s"] = inbox["c2s"]
    BY <1>0, ReadsNext
  <1>2. held["cUp"] = <<>>
    <2>1. Len(held["cUp"]) = 0 /\ held["cUp"] \in Seq(Units)
      BY <1>0, UpTypes DEF Hand, Holds
    <2>. QED  BY <2>1, EmptySeq
  <1>3. /\ Line(AppStream, toTarget, held["sUp"], UpData, <<Head(inbox["a2c"])>>, Tail(inbox["a2c"]), appSent,
                SUpTakes, UpIntact)
        /\ Even(toTarget, held["sUp"], UpData, <<Head(inbox["a2c"])>>, Tail(inbox["a2c"]), appSent) => UpEven
    BY <1>1, <1>2, UpTypes, LineFirstReads DEF Up, UpEven
  <1>4. UpData' = UpData
    BY <1>1 DEF UpData
  <1>. QED  BY <1>1, <1>3, <1>4, UpLinksClose, UpIs

(* It writes, or loses what it holds and then nothing more of it is taken.   *)
LEMMA CUpWrites ==
  ASSUME Hand, Up, [ProxyNext]_proxyVars, CopyWrites("cUp") \/ CopyWriteFails("cUp")
  PROVE  /\ Up' /\ (UpEven' => UpEven)
         /\ CopyWriteFails("cUp") => ~UpEven'
  <1>0. /\ "cUp" \in Copier /\ "sUp" \in Copier /\ "cUp" # "sUp" /\ "c2s" \in Pipes /\ "a2c" \in Pipes
        /\ inbox \in [Pipes -> Seq(Units)]
    BY SourcesAre DEF Pipes, Hand, ProxyTypes
  <1>1. /\ copy["cUp"] = "write" /\ Len(held["cUp"]) = 1 /\ held'["cUp"] = <<>> /\ held'["sUp"] = held["sUp"]
        /\ UNCHANGED <<req, appSent, fin, closed>>
    BY <1>0, LetsGo
  <1>2. req # None
    BY <1>0, <1>1, RelayIsOn
  <1>3. CASE /\ Reaches("cUp") /\ UNCHANGED toTarget /\ ~CopyWriteFails("cUp")
             /\ inbox' = [inbox EXCEPT !["c2s"] = @ \o held["cUp"]]
    <2>1. inbox'["c2s"] = UpData \o held["cUp"] /\ inbox'["a2c"] = inbox["a2c"]
      BY <1>0, <1>2, <1>3 DEF UpData
    <2>2. SUpTakes => UpIntact
      BY <1>1, <1>3 DEF CUpReaches, UpIntact, Over
    <2>3. /\ Line(AppStream, toTarget, held["sUp"], UpData \o held["cUp"], <<>>, inbox["a2c"], appSent,
                  SUpTakes, UpIntact)
          /\ Even(toTarget, held["sUp"], UpData \o held["cUp"], <<>>, inbox["a2c"], appSent) => UpEven
      BY <2>2, UpTypes, LineFirstWrites DEF Up, UpEven
    <2>4. UpData' = UpData \o held["cUp"]
      BY <1>1, <1>2, <2>1 DEF UpData
    <2>. QED  BY <1>1, <1>3, <2>1, <2>3, <2>4, UpLinksClose, UpIs
  <1>4. CASE ~CUpReaches' /\ UNCHANGED <<toTarget, inbox>>
    <2>1. /\ Line(AppStream, toTarget, held["sUp"], UpData, <<>>, inbox["a2c"], appSent, SUpTakes, FALSE)
          /\ ~Even(toTarget, held["sUp"], UpData, <<>>, inbox["a2c"], appSent)
      BY <1>1, UpTypes, LineFirstLoses DEF Up
    <2>2. UpData' = UpData
      BY <1>1, <1>4 DEF UpData
    <2>. QED  BY <1>1, <1>4, <2>1, <2>2, UpLinksClose, UpIs
  <1>5. CopyWriteFails("cUp") => ~CUpReaches' /\ UNCHANGED <<toTarget, inbox>>
    BY <1>0 DEF CopyWriteFails, CUpReaches, Over, pipeVars, endVars, Hand, ProxyTypes
  <1>6. Swallows("cUp") => ~CUpReaches'
    BY <1>1 DEF Swallows, CUpReaches, Reaches
  <1>. QED  BY <1>0, <1>3, <1>4, <1>5, <1>6, WritesOn

(* The server's upward copy reads. *)
LEMMA SUpReads ==
  ASSUME Hand, Up, [ProxyNext]_proxyVars, CopyReads("sUp")
  PROVE  Up' /\ (UpEven' => UpEven)
  <1>0. "cUp" \in Copier /\ "sUp" \in Copier /\ "a2c" \in Pipes /\ Source["sUp"] = "c2s" /\ copy["sUp"] = "read"
    BY SourcesAre DEF CopyReads, Pipes
  <1>1. /\ held'["sUp"] = <<Head(inbox["c2s"])>> /\ inbox'["c2s"] = Tail(inbox["c2s"]) /\ inbox["c2s"] # <<>>
        /\ UNCHANGED <<req, toTarget, appSent, held["cUp"]>> /\ inbox'["a2c"] = inbox["a2c"]
    BY <1>0, ReadsNext
  <1>2. held["sUp"] = <<>>
    <2>1. Len(held["sUp"]) = 0 /\ held["sUp"] \in Seq(Units)
      BY <1>0, UpTypes DEF Hand, Holds
    <2>. QED  BY <2>1, EmptySeq
  <1>3. req # None
    BY <1>0, RelayIsOn
  <1>4. UpData = inbox["c2s"] /\ UpData' = Tail(inbox["c2s"])
    BY <1>1, <1>3 DEF UpData
  <1>5. /\ Line(AppStream, toTarget, <<Head(UpData)>>, Tail(UpData), held["cUp"], inbox["a2c"], appSent,
                SUpTakes, UpIntact)
        /\ Front(toTarget, <<Head(UpData)>>, Tail(UpData)) = Front(toTarget, held["sUp"], UpData)
    BY <1>1, <1>2, <1>4, UpTypes, LineSecondReads DEF Up
  <1>. QED  BY <1>1, <1>4, <1>5, UpLinksClose, UpIs DEF UpEven, Even

(* It writes, or loses what it holds and takes nothing more. *)
LEMMA SUpWrites ==
  ASSUME Hand, Up, [ProxyNext]_proxyVars, CopyWrites("sUp") \/ CopyWriteFails("sUp")
  PROVE  /\ Up' /\ (UpEven' => UpEven)
         /\ CopyWriteFails("sUp") => ~UpEven'
  <1>0. "cUp" \in Copier /\ "sUp" \in Copier /\ "cUp" # "sUp"
    BY SourcesAre
  <1>1. /\ copy["sUp"] = "write" /\ Len(held["sUp"]) = 1 /\ held'["sUp"] = <<>> /\ held'["cUp"] = held["cUp"]
        /\ UNCHANGED <<req, appSent, fin, closed>>
    BY <1>0, LetsGo
  <1>2. inbox' = inbox
    BY <1>0, WritesOn DEF CopyWriteFails, pipeVars
  <1>3. UpData' = UpData
    BY <1>1, <1>2 DEF UpData
  <1>4. CASE Reaches("sUp") /\ toTarget' = toTarget \o held["sUp"] /\ ~CopyWriteFails("sUp")
    <2>1. SUpTakes
      BY <1>1, <1>4 DEF SUpTakes, Over
    <2>2. Line(AppStream, toTarget, held["sUp"], UpData, held["cUp"], inbox["a2c"], appSent, TRUE, UpIntact)
      BY <2>1 DEF Up, Line
    <2>3. /\ Line(AppStream, toTarget \o held["sUp"], <<>>, UpData, held["cUp"], inbox["a2c"], appSent,
                  TRUE, UpIntact)
          /\ Front(toTarget \o held["sUp"], <<>>, UpData) = Front(toTarget, held["sUp"], UpData)
      <3>3. /\ toTarget \in Seq(Units) /\ held["sUp"] \in Seq(Units) /\ UpData \in Seq(Units)
            /\ held["cUp"] \in Seq(Units) /\ inbox["a2c"] \in Seq(Units) /\ appSent \in Nat
            /\ AppStream \in Seq(AppData)
        BY UpTypes
      <3>4. Line(AppStream, toTarget \o held["sUp"], <<>>, UpData, held["cUp"], inbox["a2c"], appSent,
                  TRUE, UpIntact)
        BY ONLY <2>2, <3>3, LineSecondWrites
      <3>5. Front(toTarget \o held["sUp"], <<>>, UpData) = Front(toTarget, held["sUp"], UpData)
        BY ONLY <3>3, FrontWrites
      <3>. QED  BY <3>4, <3>5
    <2>. QED  BY <1>1, <1>2, <1>3, <1>4, <2>3, UpLinksClose, UpIs DEF UpEven, Even
  <1>5. CASE ~SUpTakes' /\ toTarget' = toTarget
    <2>1. /\ Line(AppStream, toTarget, <<>>, UpData, held["cUp"], inbox["a2c"], appSent, FALSE, FALSE)
          /\ ~Even(toTarget, <<>>, UpData, held["cUp"], inbox["a2c"], appSent)
      BY <1>1, UpTypes, LineSecondLoses DEF Up
    <2>. QED  BY <1>1, <1>2, <1>3, <1>5, <2>1, UpLinksClose, UpIs
  <1>6. CopyWriteFails("sUp") => ~SUpTakes' /\ toTarget' = toTarget
    BY <1>0 DEF CopyWriteFails, SUpTakes, Over, endVars, Hand, ProxyTypes
  <1>7. Swallows("sUp") => ~SUpTakes'
    BY <1>1 DEF Swallows, SUpTakes, Reaches
  <1>. QED  BY <1>0, <1>4, <1>5, <1>6, <1>7, WritesOn

(* Nothing has been sent upward at first. *)
LEMMA UpAtFirst == ProxyInit => Up
  <1> SUFFICES ASSUME ProxyInit PROVE Up
    OBVIOUS
  <1>1. /\ toTarget = <<>> /\ held["sUp"] = <<>> /\ held["cUp"] = <<>> /\ UpData = <<>> /\ inbox["a2c"] = <<>>
        /\ appSent = 0
    BY DEF ProxyInit, UpData, Copier
  <1>2. /\ Len(<<>>) = 0 /\ 0 + 0 = 0 /\ 0 - 0 = 0 /\ 0 <= 0 /\ 0 \in Nat
    OBVIOUS
  <1>3. IsSlice(AppStream, <<>>, 0, 0)
    <2>1. AppStream \in Seq(AppData) /\ 0 <= Len(AppStream)
      BY StreamAssumption DEF AppData
    <2>. QED  BY <1>2, <2>1, EmptySlice
  <1>4. Front(<<>>, <<>>, <<>>) = 0 /\ Back(<<>>, <<>>, 0) = 0
    BY <1>2, Zenon DEF Front, Back
  <1>5. /\ 0 - Len(<<>>) = 0 /\ Len(<<>>) + Len(<<>>) = 0
    BY <1>2
  <1>6. Line(AppStream, <<>>, <<>>, <<>>, <<>>, <<>>, 0, SUpTakes, UpIntact)
    <2>1. UpIntact => SUpTakes
      BY DEF UpIntact
    <2>. QED  BY <1>2, <1>3, <1>4, <1>5, <2>1 DEF Line, Even
  <1>. QED  BY <1>1, <1>6 DEF Up

(* The upward direction is a line in every step. *)
LEMMA UpStays ==
  ASSUME Hand, Up, [ProxyNext]_proxyVars
  PROVE  /\ Up' /\ (UpEven' => UpEven)
         /\ CopyWriteFails("cUp") \/ CopyWriteFails("sUp") => ~UpEven'
  <1>1. CASE AppSends
    <2>1. ~CopyWriteFails("cUp") /\ ~CopyWriteFails("sUp")
      BY <1>1, UpTypes DEF AppSends, CopyWriteFails, endVars
    <2>. QED  BY <1>1, <2>1, UpGrows
  <1>2. CASE CopyWriteFails("cUp")
    BY <1>2, CUpWrites
  <1>3. CASE CopyWriteFails("sUp")
    BY <1>3, SUpWrites
  <1>4. CASE ~CopyWriteFails("cUp") /\ ~CopyWriteFails("sUp") /\ ~AppSends
    <2>1. ASSUME NEW c \in Copier, Copying(c) PROVE Up' /\ (UpEven' => UpEven)
      <3>1. CASE c \in {"cDown", "sDown"}
        BY <2>1, <3>1, UpOthers
      <3>2. CASE c = "cUp"
        BY <1>4, <2>1, <3>2, UpOthers, CUpReads, CUpWrites DEF Copying
      <3>3. CASE c = "sUp"
        BY <1>4, <2>1, <3>3, UpOthers, SUpReads, SUpWrites DEF Copying
      <3>. QED  BY <3>1, <3>2, <3>3, SourcesAre
    <2>. QED  BY <1>4, <2>1, UpOthers DEF ProxyNext
  <1>. QED  BY <1>1, <1>2, <1>3, <1>4

----------------------------------------------------------------------------
(* The downward direction: neither the answer of the server nor what the     *)
(* client tells the application first is part of it, and what is on the way  *)
(* when the client gives up reaches nobody.                                  *)
DownData ==
  IF Succeeded THEN inbox["s2c"] ELSE IF cpc \in Early THEN AfterFrame("s2c") ELSE <<>>
(* The client still takes from the tunnel, and the server's copy from the    *)
(* target; how far the downward line has come.                               *)
CDownTakes == cpc \in Early \/ copy["cDown"] \in {"read", "write"}
DownIntact == CDownTakes /\ copy["sDown"] \notin Over
DownFront == Front(AppGot, held["cDown"], DownData)
Down == Line(TargetStream, AppGot, held["cDown"], DownData, held["sDown"], inbox["t2s"], targetSent,
             CDownTakes, DownIntact)

(* The step in which the client ends before it relays. *)
GivesUp == cpc \in Early /\ cpc' = "done"
(* Nothing of what has come downward is taken back. *)
Ahead == Len(AppGot) <= Len(AppGot') /\ DownFront <= DownFront'

(* What follows the first frame of a pipe is a sequence, if an empty one.    *)
LEMMA AfterIs ==
  ASSUME NEW p \in Pipes, inbox \in [Pipes -> Seq(Units)]
  PROVE  AfterFrame(p) \in Seq(Units) /\ (Len(inbox[p]) <= 2 => AfterFrame(p) = <<>>)
  <1>1. inbox[p] \in Seq(Units) /\ Len(inbox[p]) \in Nat
    BY LenProperties
  <1>2. CASE Len(inbox[p]) <= 2
    <2>1. 3 > Len(inbox[p]) /\ 3 \in Int /\ Len(inbox[p]) \in Int
      BY <1>1, <1>2
    <2>2. SubSeq(inbox[p], 3, Len(inbox[p])) = <<>>
      BY <1>1, <2>1, SubSeqEmpty
    <2>3. <<>> \in Seq(Units)
      OBVIOUS
    <2>. QED  BY <2>2, <2>3 DEF AfterFrame
  <1>3. CASE ~(Len(inbox[p]) <= 2)
    <2>1. FrameIn(p)
      BY <1>1, <1>3 DEF FrameIn
    <2>. QED  BY <1>3, <2>1, AfterFrameIs
  <1>. QED  BY <1>2, <1>3

(* The pieces of the downward line are sequences. *)
LEMMA DownTypes ==
  ASSUME Hand
  PROVE  /\ AppGot \in Seq(Units) /\ held["cDown"] \in Seq(Units) /\ DownData \in Seq(Units)
         /\ held["sDown"] \in Seq(Units) /\ inbox["t2s"] \in Seq(Units) /\ targetSent \in Nat
         /\ TargetStream \in Seq(TargetData) /\ Len(TargetStream) \in Nat
         /\ Len(AppGot) \in Nat /\ DownFront \in Nat
  <1>1. AppGot \in Seq(Units)
    <2>1. CASE Succeeded
      <3>1. toApp \in Seq(Units) /\ toApp # <<>>
        BY <2>1 DEF Succeeded, Hand, ProxyTypes
      <3>2. Tail(toApp) \in Seq(Units)
        BY <3>1, HeadAndTail
      <3>. QED  BY <2>1, <3>2 DEF AppGot
    <2>2. CASE ~Succeeded
      BY <2>2 DEF AppGot
    <2>. QED  BY <2>1, <2>2
  <1>2. DownData \in Seq(Units)
    <2>1. inbox \in [Pipes -> Seq(Units)] /\ "s2c" \in Pipes
      BY DEF Hand, ProxyTypes, Pipes
    <2>. QED  BY <2>1, AfterIs DEF DownData
  <1>3. /\ held["sDown"] \in Seq(Units) /\ held["cDown"] \in Seq(Units)
        /\ inbox["t2s"] \in Seq(Units) /\ targetSent \in Nat
        /\ TargetStream \in Seq(TargetData) /\ Len(TargetStream) \in Nat
    BY StreamAssumption DEF Hand, ProxyTypes, TargetData, Pipes, Copier
  <1>4. Len(AppGot) \in Nat /\ Len(held["cDown"]) \in Nat /\ Len(DownData) \in Nat
    BY <1>1, <1>2, <1>3, LenProperties
  <1>5. DownFront \in Nat
    <2>1. \A x, y, z \in Nat : (x + y) + z \in Nat
      OBVIOUS
    <2>. QED  BY <1>4, <2>1, Zenon DEF DownFront, Front
  <1>. QED  BY <1>1, <1>2, <1>3, <1>4, <1>5

(* Whoever has stopped taking does not take again. *)
LEMMA DownLinksClose ==
  ASSUME Hand, [ProxyNext]_proxyVars
  PROVE  /\ (CDownTakes' => CDownTakes) /\ (DownIntact' => DownIntact)
         /\ DownIntact' => CDownTakes' /\ copy'["sDown"] \notin Over
  BY OnlyForward, SourcesAre DEF CDownTakes, DownIntact

(* What the line has become. *)
LEMMA DownIs ==
  ASSUME NEW out, NEW second, NEW mid, NEW first, NEW before, NEW n, NEW takes, NEW even,
         Line(TargetStream, out, second, mid, first, before, n, takes, even),
         AppGot' = out, held["cDown"]' = second, DownData' = mid, held["sDown"]' = first,
         inbox["t2s"]' = before, targetSent' = n, CDownTakes' => takes, DownIntact' => even
  PROVE  Down' /\ DownFront' = Front(out, second, mid)
  <1>1. DownIntact' => CDownTakes'
    BY DEF DownIntact
  <1>2. Line(TargetStream, out, second, mid, first, before, n, CDownTakes', DownIntact')
    BY <1>1, LineWeakens
  <1>. QED  BY <1>2 DEF Down, DownFront

(* A step that moves nothing downward. *)
LEMMA DownKept ==
  ASSUME Hand, [ProxyNext]_proxyVars, Down,
         UNCHANGED <<AppGot, held["cDown"], DownData, held["sDown"], inbox["t2s"], targetSent>>
  PROVE  Down' /\ Ahead
  <1>1. Line(TargetStream, AppGot, held["cDown"], DownData, held["sDown"], inbox["t2s"], targetSent,
             CDownTakes, DownIntact)
    BY DEF Down
  <1>2. Down'
    BY <1>1, DownLinksClose, DownIs
  <1>3. Len(AppGot) \in Nat /\ DownFront \in Nat /\ AppGot' = AppGot /\ DownFront' = DownFront
    BY DownTypes DEF DownFront
  <1>4. \A x \in Nat : x <= x
    OBVIOUS
  <1>. QED  BY <1>2, <1>3, <1>4, Zenon DEF Ahead

(* The client gives up. *)
LEMMA DownGivesUp ==
  ASSUME Hand, Hand', [ProxyNext]_proxyVars, Down, GivesUp, ~Succeeded, ~Succeeded',
         UNCHANGED <<held["cDown"], held["sDown"], inbox["t2s"], targetSent>>
  PROVE  Down' /\ Len(AppGot) <= Len(AppGot')
  <1>1. AppGot = <<>> /\ AppGot' = <<>> /\ DownData' = <<>>
    BY DEF AppGot, DownData, GivesUp, Early
  <1>2. ~CDownTakes'
    <2>1. copy'["cDown"] = "off"
      BY DEF Hand, Told
    <2>. QED  BY <2>1 DEF CDownTakes, GivesUp, Early
  <1>3. Line(TargetStream, AppGot, held["cDown"], DownData, held["sDown"], inbox["t2s"], targetSent,
             CDownTakes, DownIntact)
    BY DEF Down
  <1>4. Line(TargetStream, AppGot, held["cDown"], <<>>, held["sDown"], inbox["t2s"], targetSent, FALSE, FALSE)
    BY <1>3, DownTypes, LineGivesUp
  <1>5. Down'
    BY <1>1, <1>2, <1>4, DownLinksClose, DownIs
  <1>6. Len(<<>>) <= Len(<<>>)
    OBVIOUS
  <1>. QED  BY <1>1, <1>5, <1>6

(* The target sends: the line grows at its end. *)
LEMMA DownGrows ==
  ASSUME Hand, Down, [ProxyNext]_proxyVars, TargetSends
  PROVE  Down' /\ Ahead
  <1>1. /\ targetSent' = targetSent + 1 /\ targetSent < Len(TargetStream)
        /\ inbox' = [inbox EXCEPT !["t2s"] = Append(@, TargetStream[targetSent'])]
        /\ UNCHANGED <<cpc, toApp, held>>
    BY DEF TargetSends, copyVars
  <1>2. inbox'["t2s"] = Append(inbox["t2s"], TargetStream[targetSent + 1]) /\ inbox'["s2c"] = inbox["s2c"]
    BY <1>1 DEF Hand, ProxyTypes, Pipes
  <1>3. Line(TargetStream, AppGot, held["cDown"], DownData, held["sDown"], inbox'["t2s"], targetSent + 1,
             CDownTakes, DownIntact)
    <2>1. Line(TargetStream, AppGot, held["cDown"], DownData, held["sDown"], inbox["t2s"], targetSent,
               CDownTakes, DownIntact)
      BY DEF Down
    <2>. QED  BY <1>1, <1>2, <2>1, DownTypes, LineGrows
  <1>4. DownData' = DownData /\ AppGot' = AppGot /\ UNCHANGED <<held["cDown"], held["sDown"]>>
    BY <1>1, <1>2 DEF DownData, AppGot, Succeeded, AfterFrame
  <1>5. Down' /\ DownFront' = DownFront
    BY <1>1, <1>3, <1>4, DownLinksClose, DownIs DEF DownFront
  <1>6. \A x \in Nat : x <= x
    OBVIOUS
  <1>. QED  BY <1>4, <1>5, <1>6, DownTypes, Zenon DEF Ahead

(* The server's downward copy reads. *)
LEMMA SDownReads ==
  ASSUME Hand, Down, [ProxyNext]_proxyVars, CopyReads("sDown")
  PROVE  Down' /\ Ahead
  <1>0. /\ "sDown" \in Copier /\ "cDown" \in Copier /\ "s2c" \in Pipes /\ Source["sDown"] = "t2s"
        /\ copy["sDown"] = "read"
    BY SourcesAre DEF CopyReads, Pipes
  <1>1. /\ held'["sDown"] = <<Head(inbox["t2s"])>> /\ inbox'["t2s"] = Tail(inbox["t2s"]) /\ inbox["t2s"] # <<>>
        /\ UNCHANGED <<cpc, toApp, targetSent, held["cDown"]>> /\ inbox'["s2c"] = inbox["s2c"]
    BY <1>0, ReadsNext
  <1>2. held["sDown"] = <<>>
    <2>1. Len(held["sDown"]) = 0 /\ held["sDown"] \in Seq(Units)
      BY <1>0, DownTypes DEF Hand, Holds
    <2>. QED  BY <2>1, EmptySeq
  <1>3. Line(TargetStream, AppGot, held["cDown"], DownData, <<Head(inbox["t2s"])>>, Tail(inbox["t2s"]), targetSent,
             CDownTakes, DownIntact)
    BY <1>1, <1>2, DownTypes, LineFirstReads DEF Down
  <1>4. DownData' = DownData /\ AppGot' = AppGot
    BY <1>1 DEF DownData, AppGot, Succeeded, AfterFrame
  <1>5. Down' /\ DownFront' = DownFront
    BY <1>1, <1>3, <1>4, DownLinksClose, DownIs DEF DownFront
  <1>6. \A x \in Nat : x <= x
    OBVIOUS
  <1>. QED  BY <1>4, <1>5, <1>6, DownTypes, Zenon DEF Ahead

(* What it writes comes behind the answer, and behind what it wrote before.  *)
LEMMA BehindTheAnswer ==
  ASSUME Hand, copy["sDown"] = "write", inbox'["s2c"] = inbox["s2c"] \o held["sDown"], UNCHANGED <<cpc, toApp>>
  PROVE  \/ DownData' = DownData \o held["sDown"]
         \/ DownData' = DownData /\ ~CDownTakes
  <1>0. "sDown" \in Copier /\ "cDown" \in Copier /\ "s2c" \in Pipes /\ (Succeeded' <=> Succeeded)
    BY SourcesAre DEF Pipes, Succeeded
  <1>1. CASE Succeeded
    BY <1>0, <1>1 DEF DownData
  <1>2. CASE ~Succeeded /\ cpc \in Early
    <2>1. dialled # None
      BY <1>0, RelayIsOn
    <2>2. Len(inbox["s2c"]) >= 2
      BY <1>2, <2>1 DEF Hand, Told, Answer
    <2>3. inbox["s2c"] \in Seq(Units) /\ held["sDown"] \in Seq(Units) /\ Len(inbox["s2c"]) \in Nat
      BY <1>0, DownTypes, LenProperties DEF Hand, ProxyTypes
    <2>4. 3 \in 1 .. Len(inbox["s2c"]) + 1
      BY <2>2, <2>3
    <2>5. SubSeq(inbox["s2c"], 3, Len(inbox["s2c"])) \o held["sDown"]
            = SubSeq(inbox["s2c"] \o held["sDown"], 3, Len(inbox["s2c"] \o held["sDown"]))
      BY ONLY <2>3, <2>4, TailOfConcat
    <2>6. AfterFrame("s2c")' = AfterFrame("s2c") \o held["sDown"]
      BY <2>5 DEF AfterFrame
    <2>. QED  BY <1>0, <1>2, <2>6 DEF DownData
  <1>3. CASE ~Succeeded /\ cpc \notin Early
    <2>1. copy["cDown"] = "off"
      BY <1>3 DEF Hand, Told
    <2>. QED  BY <1>0, <1>3, <2>1 DEF DownData, CDownTakes
  <1>. QED  BY <1>1, <1>2, <1>3

(* What a copy adds to the pipe brings the front forward. *)
LEMMA FrontGrows ==
  ASSUME NEW U, NEW out \in Seq(U), NEW second \in Seq(U), NEW mid \in Seq(U), NEW first \in Seq(U)
  PROVE  Front(out, second, mid) <= Front(out, second, mid \o first)
  <1> DEFINE k == Len(out) + Len(second)
             m == Len(mid)
             f == Len(first)
             l == Len(mid \o first)
  <1>1. k \in Nat /\ m \in Nat /\ f \in Nat /\ l = m + f
    BY ConcatProperties, LenProperties
  <1>2. Front(out, second, mid) = k + m /\ Front(out, second, mid \o first) = k + l
    BY DEF Front
  <1> HIDE DEF k, m, f, l
  <1>. QED  BY <1>1, <1>2

(* The server's copy writes into the tunnel, or loses what it holds and is   *)
(* over.                                                                     *)
LEMMA SDownWrites ==
  ASSUME Hand, Down, [ProxyNext]_proxyVars, CopyWrites("sDown") \/ CopyWriteFails("sDown")
  PROVE  Down' /\ Ahead
  <1>0. /\ "sDown" \in Copier /\ "cDown" \in Copier /\ "cDown" # "sDown" /\ "s2c" \in Pipes /\ "t2s" \in Pipes
        /\ inbox \in [Pipes -> Seq(Units)]
    BY SourcesAre DEF Pipes, Hand, ProxyTypes
  <1>1. /\ copy["sDown"] = "write" /\ Len(held["sDown"]) = 1 /\ held'["sDown"] = <<>>
        /\ held'["cDown"] = held["cDown"] /\ UNCHANGED <<cpc, targetSent>>
    BY <1>0, LetsGo
  <1>2. UNCHANGED toApp
    BY <1>0, WritesOn DEF CopyWriteFails, endVars
  <1>3. AppGot' = AppGot
    BY <1>2 DEF AppGot, Succeeded
  <1>t. Line(TargetStream, AppGot, held["cDown"], DownData, held["sDown"], inbox["t2s"], targetSent,
             CDownTakes, DownIntact)
    BY DEF Down
  <1>4. CASE DownData' = DownData \o held["sDown"] /\ inbox'["t2s"] = inbox["t2s"]
    <2>1. CDownTakes => DownIntact
      BY <1>1 DEF DownIntact, Over
    <2>2. Line(TargetStream, AppGot, held["cDown"], DownData \o held["sDown"], <<>>, inbox["t2s"], targetSent,
               CDownTakes, DownIntact)
      BY <1>t, <2>1, DownTypes, LineFirstWrites
    <2>3. Down' /\ DownFront' = Front(AppGot, held["cDown"], DownData \o held["sDown"])
      BY <1>1, <1>3, <1>4, <2>2, DownLinksClose, DownIs
    <2>4. DownFront <= DownFront'
      BY <2>3, DownTypes, FrontGrows DEF DownFront
    <2>5. \A x \in Nat : x <= x
      OBVIOUS
    <2>. QED  BY <1>3, <2>3, <2>4, <2>5, DownTypes, Zenon DEF Ahead
  <1>5. CASE ~DownIntact' /\ DownData' = DownData /\ inbox'["t2s"] = inbox["t2s"]
    <2>1. Line(TargetStream, AppGot, held["cDown"], DownData, <<>>, inbox["t2s"], targetSent, CDownTakes, FALSE)
      BY <1>1, <1>t, DownTypes, LineFirstLoses
    <2>2. Down' /\ DownFront' = DownFront
      BY <1>1, <1>3, <1>5, <2>1, DownLinksClose, DownIs DEF DownFront
    <2>3. \A x \in Nat : x <= x
      OBVIOUS
    <2>. QED  BY <1>3, <2>2, <2>3, DownTypes, Zenon DEF Ahead
  <1>6. CASE CopyWriteFails("sDown")
    <2>1. inbox' = inbox /\ copy'["sDown"] = "end"
      BY <1>0, <1>6 DEF CopyWriteFails, pipeVars, Hand, ProxyTypes
    <2>2. ~DownIntact' /\ DownData' = DownData
      BY <1>1, <1>2, <2>1 DEF DownIntact, DownData, Succeeded, AfterFrame, Over
    <2>. QED  BY <1>5, <2>1, <2>2
  <1>7. CASE CopyWrites("sDown")
    <2>1. inbox' = [inbox EXCEPT !["s2c"] = @ \o held["sDown"]]
      BY <1>0, <1>7, WritesOn
    <2>2. inbox'["s2c"] = inbox["s2c"] \o held["sDown"] /\ inbox'["t2s"] = inbox["t2s"]
      BY <1>0, <2>1
    <2>3. ~CDownTakes => ~DownIntact'
      BY DownLinksClose
    <2>. QED  BY <1>1, <1>2, <1>4, <1>5, <2>2, <2>3, BehindTheAnswer
  <1>. QED  BY <1>6, <1>7

(* The client's downward copy reads. *)
LEMMA CDownReads ==
  ASSUME Hand, Down, [ProxyNext]_proxyVars, CopyReads("cDown")
  PROVE  Down' /\ Ahead
  <1>0. /\ "sDown" \in Copier /\ "cDown" \in Copier /\ "t2s" \in Pipes /\ Source["cDown"] = "s2c"
        /\ copy["cDown"] = "read"
    BY SourcesAre DEF CopyReads, Pipes
  <1>1. /\ held'["cDown"] = <<Head(inbox["s2c"])>> /\ inbox'["s2c"] = Tail(inbox["s2c"]) /\ inbox["s2c"] # <<>>
        /\ UNCHANGED <<cpc, toApp, targetSent, held["sDown"]>> /\ inbox'["t2s"] = inbox["t2s"]
    BY <1>0, ReadsNext
  <1>2. held["cDown"] = <<>>
    <2>1. Len(held["cDown"]) = 0 /\ held["cDown"] \in Seq(Units)
      BY <1>0, DownTypes DEF Hand, Holds
    <2>. QED  BY <2>1, EmptySeq
  <1>3. Succeeded
    BY <1>0, RelayIsOn
  <1>4. DownData = inbox["s2c"] /\ DownData' = Tail(inbox["s2c"]) /\ AppGot' = AppGot
    BY <1>1, <1>3 DEF DownData, Succeeded, AppGot
  <1>5. /\ Line(TargetStream, AppGot, <<Head(DownData)>>, Tail(DownData), held["sDown"], inbox["t2s"], targetSent,
                CDownTakes, DownIntact)
        /\ Front(AppGot, <<Head(DownData)>>, Tail(DownData)) = Front(AppGot, held["cDown"], DownData)
    <2>1. Line(TargetStream, AppGot, <<>>, DownData, held["sDown"], inbox["t2s"], targetSent,
               CDownTakes, DownIntact)
      BY <1>2 DEF Down
    <2>2. DownData # <<>>
      BY <1>1, <1>4
    <2>. QED  BY ONLY <1>2, <2>1, <2>2, Hand, DownTypes, LineSecondReads
  <1>6. Down' /\ DownFront' = DownFront
    BY <1>1, <1>4, <1>5, DownLinksClose, DownIs DEF DownFront
  <1>7. \A x \in Nat : x <= x
    OBVIOUS
  <1>. QED  BY <1>4, <1>6, <1>7, DownTypes, Zenon DEF Ahead

(* What the application has of the target grows with what it has. *)
LEMMA TailGrows ==
  ASSUME NEW s \in Seq(Units), NEW t \in Seq(Units), s # <<>>
  PROVE  Tail(s \o t) = Tail(s) \o t
  <1>1. s \o t \in Seq(Units) /\ s \o t # <<>>
    BY ConcatProperties, SuccessStays
  <1>2. /\ Tail(s) = SubSeq(s, 2, Len(s)) /\ Tail(s \o t) = SubSeq(s \o t, 2, Len(s \o t))
        /\ Len(s) \in Nat \ {0}
    BY <1>1, HeadAndTail
  <1>3. 2 \in 1 .. Len(s) + 1
    BY <1>2
  <1>. QED  BY <1>2, <1>3, TailOfConcat

(* It writes to the application, or loses what it holds and reads no more.   *)
LEMMA CDownWrites ==
  ASSUME Hand, Down, [ProxyNext]_proxyVars, CopyWrites("cDown") \/ CopyWriteFails("cDown")
  PROVE  /\ Down' /\ Len(AppGot) <= Len(AppGot')
         /\ ~CopyWriteFails("cDown") => DownFront <= DownFront'
  <1>0. "sDown" \in Copier /\ "cDown" \in Copier /\ "cDown" # "sDown"
    BY SourcesAre
  <1>1. /\ copy["cDown"] = "write" /\ Len(held["cDown"]) = 1 /\ held'["cDown"] = <<>>
        /\ held'["sDown"] = held["sDown"] /\ UNCHANGED <<cpc, targetSent>>
    BY <1>0, LetsGo
  <1>2. Succeeded /\ cpc \notin Early
    BY <1>0, <1>1, RelayIsOn
  <1>3. /\ inbox' = inbox
        /\ CopyWriteFails("cDown") => toApp' = toApp /\ copy'["cDown"] = "end"
    BY <1>0, WritesOn DEF CopyWriteFails, pipeVars, endVars, Hand, ProxyTypes
  <1>4. \A x, y \in Nat : x <= x /\ x <= x + y
    OBVIOUS
  <1>5. CASE CopyWriteFails("cDown")
    <2>1. DownData' = DownData /\ AppGot' = AppGot /\ ~CDownTakes'
      BY <1>1, <1>2, <1>3, <1>5 DEF DownData, AppGot, Succeeded, CDownTakes
    <2>2. Line(TargetStream, AppGot, <<>>, DownData, held["sDown"], inbox["t2s"], targetSent, FALSE, FALSE)
      BY <1>1, DownTypes, LineSecondLoses DEF Down
    <2>3. Down'
      BY <1>1, <1>3, <2>1, <2>2, DownLinksClose, DownIs
    <2>. QED  BY <1>4, <1>5, <2>1, <2>3, DownTypes, Zenon
  <1>6. CASE CopyWrites("cDown") /\ ~CopyWriteFails("cDown")
    <2>1. toApp' = toApp \o held["cDown"] /\ held["cDown"] \in Seq(Units)
      BY <1>0, <1>6, WritesOn, DownTypes
    <2>2. Succeeded' /\ AppGot' = AppGot \o held["cDown"]
      <3>1. toApp \in Seq(Units) /\ toApp # <<>>
        BY <1>2 DEF Hand, ProxyTypes, Succeeded
      <3>2. toApp' # <<>> /\ toApp'[1] = toApp[1] /\ Tail(toApp') = Tail(toApp) \o held["cDown"]
        BY <2>1, <3>1, SuccessStays, TailGrows
      <3>. QED  BY <1>2, <3>2 DEF Succeeded, AppGot
    <2>3. DownData' = DownData
      BY <1>2, <1>3, <2>2 DEF DownData
    <2>4. CDownTakes
      BY <1>1 DEF CDownTakes
    <2>5. Line(TargetStream, AppGot, held["cDown"], DownData, held["sDown"], inbox["t2s"], targetSent, TRUE, DownIntact)
      BY <2>4 DEF Down, Line
    <2>6. Line(TargetStream, AppGot \o held["cDown"], <<>>, DownData, held["sDown"], inbox["t2s"], targetSent,
               TRUE, DownIntact)
      BY ONLY <2>5, DownTypes, Hand, LineSecondWrites
    <2>7. /\ Front(AppGot \o held["cDown"], <<>>, DownData) = DownFront
          /\ Len(AppGot \o held["cDown"]) = Len(AppGot) + Len(held["cDown"])
      BY DownTypes, FrontWrites DEF DownFront
    <2>8. Down' /\ DownFront' = DownFront
      BY <1>1, <1>3, <2>2, <2>3, <2>6, <2>7, DownLinksClose, DownIs
    <2>9. Len(AppGot) <= Len(AppGot')
      <3>1. Len(AppGot') = Len(AppGot) + 1 /\ 1 \in Nat
        BY <1>1, <2>2, <2>7
      <3>. QED  BY <1>4, <3>1, DownTypes, Zenon
    <2>. QED  BY <1>4, <2>8, <2>9, DownTypes, Zenon
  <1>. QED  BY <1>5, <1>6

(* Whoever gives up has not told the application of any success. *)
LEMMA GivingUpIs ==
  ASSUME Hand, Client, GivesUp
  PROVE  /\ ~Succeeded /\ ~Succeeded'
         /\ UNCHANGED <<held["cDown"], held["sDown"], inbox["t2s"], targetSent, dialled, spc>>
  <1>0. inbox \in [Pipes -> Seq(Units)] /\ "c2s" \in Pipes /\ "s2c" \in Pipes /\ "t2s" \in Pipes
    BY DEF Hand, ProxyTypes, Pipes
  <1>r. /\ <<>> \in Seq(Words)
        /\ \A w \in Words : <<w>> \in Seq(Words) /\ <<w>> # <<>> /\ <<w>>[1] = w
    OBVIOUS
  <1>w. /\ {"command not supported", "address type not supported", "failure"} \subseteq Words
        /\ "success" \notin {"command not supported", "address type not supported", "failure"}
    BY DEF Words
  <1>1. PICK reply \in Seq(Words) : GiveUp(reply) /\ (reply # <<>> => reply[1] # "success")
    <2>1. CASE SocksRequest
      <3>1. PICK r \in {<<"command not supported">>, <<"address type not supported">>, <<>>} : GiveUp(r)
        BY <2>1 DEF SocksRequest, GivesUp
      <3>. QED  BY <1>r, <1>w, <3>1
    <2>2. CASE DialTunnel \/ SendRequest \/ ReadAck \/ AckLost
      <3>1. GiveUp(<<"failure">>)
        BY <2>2 DEF DialTunnel, SendRequest, ReadAck, AckLost, GivesUp
      <3>. QED  BY <1>r, <1>w, <3>1
    <2>3. ~ClientReturns
      BY DEF ClientReturns, GivesUp, Early
    <2>. QED  BY <2>1, <2>2, <2>3 DEF Client
  <1>2. ~Succeeded /\ ~Succeeded'
    BY <1>1, GivingUp DEF GivesUp
  <1>3. /\ UNCHANGED <<held, targetSent, dialled, spc>>
        /\ inbox' = inbox \/ \E p \in {"c2s", "s2c"} : \E s : inbox' = [inbox EXCEPT ![p] = s]
    <2>1. CASE SocksRequest \/ DialTunnel \/ AckLost \/ ClientReturns
      BY <2>1 DEF SocksRequest, DialTunnel, AckLost, ClientReturns, idVars, copyVars, pipeVars, endVars
    <2>2. CASE SendRequest
      BY <2>2 DEF SendRequest, idVars, copyVars
    <2>3. CASE ReadAck
      BY <2>3 DEF ReadAck, idVars
    <2>. QED  BY <2>1, <2>2, <2>3 DEF Client
  <1>4. inbox'["t2s"] = inbox["t2s"]
    BY <1>0, <1>3
  <1>. QED  BY <1>2, <1>3, <1>4

(* The steps that are not the downward copies' own. *)
LEMMA DownOthers ==
  ASSUME Hand, Down, [ProxyNext]_proxyVars, ~GivesUp,
         \/ UNCHANGED proxyVars
         \/ AppSends \/ AppHangsUp \/ TargetHangsUp \/ Client \/ Server \/ CopyReadFails \/ StreamBreaks
         \/ \E c \in Copier : CopySeesEnd(c) \/ CopyCloses(c)
         \/ \E c \in {"cUp", "sUp"} : Copying(c)
  PROVE  Down' /\ Ahead
  <1>0. /\ inbox \in [Pipes -> Seq(Units)] /\ "c2s" \in Pipes /\ "a2c" \in Pipes /\ "s2c" \in Pipes
        /\ "t2s" \in Pipes /\ {"cUp", "cDown", "sUp", "sDown"} = Copier
        /\ held \in [Copier -> Seq(Units)]
    BY DEF Hand, ProxyTypes, Pipes, Copier
  <1>1. ASSUME UNCHANGED <<toApp, cpc, inbox["s2c"], inbox["t2s"], held["cDown"], held["sDown"], targetSent>>
        PROVE  Down' /\ Ahead
    <2>1. AppGot' = AppGot /\ DownData' = DownData
      BY <1>1 DEF AppGot, DownData, AfterFrame, Succeeded
    <2>. QED  BY <1>1, <2>1, DownKept
  <1>2. CASE \/ UNCHANGED proxyVars
             \/ AppHangsUp \/ TargetHangsUp \/ CopyReadFails \/ StreamBreaks \/ RequestLost \/ ServerReturns
             \/ \E c \in Copier : CopySeesEnd(c) \/ CopyCloses(c)
    BY <1>1, <1>2 DEF proxyVars, AppHangsUp, TargetHangsUp, CopyReadFails, StreamBreaks, RequestLost,
                      ServerReturns, CopySeesEnd, CopyCloses, idVars, pipeVars, copyVars, endVars
  <1>3. CASE AppSends
    <2>1. UNCHANGED <<toApp, cpc, held, targetSent>> /\ \E s : inbox' = [inbox EXCEPT !["a2c"] = s]
      BY <1>3 DEF AppSends, copyVars
    <2>2. inbox'["s2c"] = inbox["s2c"] /\ inbox'["t2s"] = inbox["t2s"]
      BY <1>0, <2>1
    <2>. QED  BY <1>1, <2>1, <2>2
  <1>4. CASE ReadRequest
    <2>1. UNCHANGED <<toApp, cpc, held, targetSent>> /\ \E s : inbox' = [inbox EXCEPT !["c2s"] = s]
      BY <1>4 DEF ReadRequest, copyVars, endVars
    <2>2. inbox'["s2c"] = inbox["s2c"] /\ inbox'["t2s"] = inbox["t2s"]
      BY <1>0, <2>1
    <2>. QED  BY <1>1, <2>1, <2>2
  <1>5. CASE ClientReturns
    <2>1. UNCHANGED <<toApp, inbox, held, targetSent>> /\ Succeeded
      BY <1>5 DEF ClientReturns, pipeVars, copyVars, endVars, Hand, Told
    <2>2. AppGot' = AppGot /\ DownData' = DownData
      BY <2>1 DEF AppGot, DownData, Succeeded
    <2>. QED  BY <2>1, <2>2, DownKept
  <1>6. CASE SocksRequest \/ DialTunnel \/ SendRequest \/ AckLost
    <2>1. /\ cpc \in Early /\ cpc' \in Early /\ cpc' # "done" /\ UNCHANGED <<held, targetSent>>
          /\ inbox' = inbox \/ \E s : inbox' = [inbox EXCEPT !["c2s"] = s]
      <3>1. CASE SendRequest
        BY <3>1 DEF SendRequest, GiveUp, GivesUp, Early, copyVars
      <3>2. CASE AckLost
        BY <3>2 DEF AckLost, GiveUp, GivesUp, Early
      <3>3. CASE SocksRequest
        BY <3>3 DEF SocksRequest, GiveUp, GivesUp, Early, copyVars
      <3>4. CASE DialTunnel
        BY <3>4 DEF DialTunnel, GiveUp, GivesUp, Early, copyVars
      <3>. QED  BY <1>6, <3>1, <3>2, <3>3, <3>4
    <2>2. UNCHANGED toApp
      <3>1. CASE SendRequest
        BY <2>1, <3>1 DEF SendRequest, GiveUp
      <3>2. CASE AckLost
        BY <2>1, <3>2 DEF AckLost, GiveUp
      <3>3. CASE SocksRequest
        BY <2>1, <3>3 DEF SocksRequest, GiveUp
      <3>4. CASE DialTunnel
        BY <2>1, <3>4 DEF DialTunnel, GiveUp
      <3>. QED  BY <1>6, <3>1, <3>2, <3>3, <3>4
    <2>3. inbox'["s2c"] = inbox["s2c"] /\ inbox'["t2s"] = inbox["t2s"]
      BY <1>0, <2>1
    <2>4. AppGot' = AppGot /\ DownData' = DownData
      BY <2>1, <2>2, <2>3 DEF AppGot, DownData, AfterFrame, Succeeded
    <2>. QED  BY <2>1, <2>3, <2>4, DownKept
  <1>7. CASE ReadAck
    <2>1. ReadFrame("s2c") = "OK"
      BY <1>7 DEF ReadAck, GivesUp, GiveUp, Early
    <2>2. /\ cpc = "ack" /\ toApp' = Append(toApp, "success") /\ toApp = <<>>
          /\ UNCHANGED <<held, targetSent>>
          /\ inbox' = [inbox EXCEPT !["s2c"] = AfterFrame("s2c")]
      BY <1>7, <2>1 DEF ReadAck, Hand, Told, Early
    <2>3. inbox'["s2c"] = AfterFrame("s2c") /\ inbox'["t2s"] = inbox["t2s"]
      BY <1>0, <2>2
    <2>4. ~Succeeded /\ Succeeded' /\ Tail(toApp') = <<>>
      BY <2>2 DEF Succeeded
    <2>5. AppGot' = AppGot /\ DownData' = DownData
      BY <2>2, <2>3, <2>4 DEF AppGot, DownData, Early
    <2>. QED  BY <2>2, <2>3, <2>5, DownKept
  <1>8. CASE DialTarget
    <2>1. /\ spc = "dial" /\ inbox["s2c"] = <<>> /\ dialled = None
          /\ UNCHANGED <<cpc, toApp, held, targetSent>>
          /\ \E status \in {"OK", "Unreachable"} : SendACK(status)
      BY <1>8 DEF DialTarget, endVars, Hand, Answering
    <2>2. PICK status \in {"OK", "Unreachable"} : inbox' = [inbox EXCEPT !["s2c"] = @ \o WriteFrame("ACK", status)]
      BY <2>1 DEF SendACK
    <2> DEFINE frame == WriteFrame("ACK", status)
    <2>3. frame \in Seq(Units) /\ Len(frame) = 2
      <3>1. "ACK" \in Units /\ status \in Units
        BY UnitsAre DEF Words
      <3>. QED  BY <3>1, FrameIs
    <2> HIDE DEF frame
    <2>4. /\ inbox' \in [Pipes -> Seq(Units)] /\ inbox'["s2c"] = inbox["s2c"] \o frame
          /\ inbox'["t2s"] = inbox["t2s"]
      BY <1>0, <2>2, <2>3, MoreInPipe DEF frame
    <2>5. inbox'["s2c"] = frame
      BY <2>1, <2>3, <2>4, ConcatEmptySeq
    <2>6. AfterFrame("s2c") = <<>> /\ AfterFrame("s2c")' = <<>>
      <3>1. Len(<<>>) <= 2 /\ 2 <= 2
        OBVIOUS
      <3>2. AfterFrame("s2c") = <<>>
        BY <1>0, <2>1, <3>1, AfterIs
      <3>3. 3 \in Int /\ 2 \in Int /\ 2 < 3
        OBVIOUS
      <3>4. SubSeq(frame, 3, 2) = <<>>
        BY <3>3, SubSeqEmpty
      <3>. QED  BY <2>3, <2>5, <3>2, <3>4 DEF AfterFrame
    <2>7. ~Succeeded /\ ~Succeeded'
      BY <2>1 DEF Hand, Told, Succeeded
    <2>8. AppGot' = AppGot /\ DownData' = DownData
      BY <2>1, <2>6, <2>7 DEF AppGot, DownData
    <2>. QED  BY <2>1, <2>4, <2>8, DownKept
  <1>9. ASSUME NEW c \in {"cUp", "sUp"}, CopyReads(c)
        PROVE  Down' /\ Ahead
    <2>1. UNCHANGED <<toApp, cpc, inbox["s2c"], inbox["t2s"], held["cDown"], held["sDown"], targetSent>>
      BY <1>0, <1>9, ReadsNext, SourcesAre
    <2>. QED  BY <1>1, <2>1
  <1>10. ASSUME NEW c \in {"cUp", "sUp"}, CopyWrites(c) \/ CopyWriteFails(c)
         PROVE  Down' /\ Ahead
    <2>1. UNCHANGED <<held["cDown"], held["sDown"], targetSent, cpc>>
      BY <1>0, <1>10, LetsGo
    <2>2. toApp' = toApp /\ (inbox' = inbox \/ inbox' = [inbox EXCEPT !["c2s"] = @ \o held[c]])
      BY <1>0, <1>10, WritesOn DEF CopyWriteFails, pipeVars, endVars
    <2>3. inbox'["s2c"] = inbox["s2c"] /\ inbox'["t2s"] = inbox["t2s"]
      BY <1>0, <2>2
    <2>. QED  BY <1>1, <2>1, <2>2, <2>3
  <1>. QED  BY <1>0, <1>2, <1>3, <1>4, <1>5, <1>6, <1>7, <1>8, <1>9, <1>10 DEF Client, Server, Copying

(* Nothing has been sent downward at first. *)
LEMMA DownAtFirst == ProxyInit => Down
  <1> SUFFICES ASSUME ProxyInit PROVE Down
    OBVIOUS
  <1>1. /\ AppGot = <<>> /\ held["cDown"] = <<>> /\ held["sDown"] = <<>> /\ inbox["t2s"] = <<>>
        /\ targetSent = 0 /\ DownData = <<>>
    <2>1. ~Succeeded /\ inbox["s2c"] = <<>> /\ inbox["t2s"] = <<>> /\ held["cDown"] = <<>> /\ held["sDown"] = <<>>
          /\ targetSent = 0
      BY DEF ProxyInit, Succeeded, Copier
    <2>2. AfterFrame("s2c") = <<>>
      <3>1. 3 \in Int /\ 0 \in Int /\ 0 < 3 /\ Len(<<>>) = 0
        OBVIOUS
      <3>. QED  BY <2>1, <3>1, SubSeqEmpty DEF AfterFrame
    <2>. QED  BY <2>1, <2>2 DEF AppGot, DownData
  <1>0. Len(<<>>) = 0 /\ 0 + 0 = 0 /\ 0 - 0 = 0 /\ 0 <= 0 /\ 0 \in Nat
    OBVIOUS
  <1>2. /\ Len(<<>>) = 0 /\ 0 + 0 = 0 /\ 0 - 0 = 0 /\ 0 <= 0 /\ 0 \in Nat
        /\ 0 - Len(<<>>) = 0 /\ Len(<<>>) + Len(<<>>) = 0
    BY <1>0
  <1>3. IsSlice(TargetStream, <<>>, 0, 0)
    <2>1. TargetStream \in Seq(TargetData) /\ 0 <= Len(TargetStream)
      BY StreamAssumption DEF TargetData
    <2>. QED  BY <1>2, <2>1, EmptySlice
  <1>4. Front(<<>>, <<>>, <<>>) = 0 /\ Back(<<>>, <<>>, 0) = 0
    BY <1>2, Zenon DEF Front, Back
  <1>5. Line(TargetStream, <<>>, <<>>, <<>>, <<>>, <<>>, 0, CDownTakes, DownIntact)
    <2>1. DownIntact => CDownTakes
      BY DEF DownIntact
    <2>. QED  BY <1>2, <1>3, <1>4, <2>1 DEF Line, Even
  <1>. QED  BY <1>1, <1>5 DEF Down

(* The downward direction is a line in every step, and only a failed write   *)
(* of the client's copy or its giving up takes anything back.                *)
LEMMA DownStays ==
  ASSUME Hand, Hand', Down, [ProxyNext]_proxyVars
  PROVE  /\ Down' /\ Len(AppGot) <= Len(AppGot')
         /\ CopyWriteFails("cDown") \/ (GivesUp /\ Client) \/ DownFront <= DownFront'
  <1>1. CASE Client /\ GivesUp
    BY <1>1, GivingUpIs, DownGivesUp
  <1>2. CASE Client /\ ~GivesUp
    BY <1>2, DownOthers DEF Ahead
  <1>3. ASSUME NEW c \in Copier, Copying(c)
        PROVE  /\ Down' /\ Len(AppGot) <= Len(AppGot')
               /\ CopyWriteFails("cDown") \/ DownFront <= DownFront'
    <2>1. ~GivesUp
      <3>1. cpc' = cpc
        BY <1>3 DEF Copying, CopyReads, CopySeesEnd, CopyWrites, CopyWriteFails, CopyCloses
      <3>. QED  BY <3>1 DEF GivesUp, Early
    <2>2. CASE c \in {"cUp", "sUp"}
      BY <1>3, <2>1, <2>2, DownOthers DEF Ahead
    <2>3. CASE c = "cDown"
      BY <1>3, <2>1, <2>3, DownOthers, CDownReads, CDownWrites DEF Copying, Ahead
    <2>4. CASE c = "sDown"
      BY <1>3, <2>1, <2>4, DownOthers, SDownReads, SDownWrites DEF Copying, Ahead
    <2>. QED  BY <2>2, <2>3, <2>4, SourcesAre
  <1>4. CASE TargetSends
    BY <1>4, DownGrows DEF Ahead
  <1>5. CASE \/ UNCHANGED proxyVars
             \/ AppSends \/ AppHangsUp \/ TargetHangsUp \/ Server \/ CopyReadFails \/ StreamBreaks
    <2>1. cpc' = cpc
      BY <1>5 DEF proxyVars, AppSends, AppHangsUp, TargetHangsUp, Server, ReadRequest, RequestLost,
                  DialTarget, ServerReturns, CopyReadFails, StreamBreaks
    <2>2. ~GivesUp
      BY <2>1 DEF GivesUp, Early
    <2>. QED  BY <1>5, <2>2, DownOthers DEF Ahead
  <1>. QED  BY <1>1, <1>2, <1>3, <1>4, <1>5 DEF ProxyNext

----------------------------------------------------------------------------
(* Who has closed what, and what is known when the client has given up with  *)
(* no fault: nothing is dialled for it, now or later.                        *)
Closings ==
  /\ "s2c" \in fin <=> "split" \in closed
  /\ "c2s" \in fin /\ ~fault => "conn" \in closed
  /\ "t2s" \in fin \/ "target" \in closed => dialled # None
(* A client that has given up, with no fault, leaves nothing dialled and     *)
(* nothing that could be.                                                    *)
GivenUp ==
  cpc = "done" /\ ~Succeeded /\ ~fault
    => dialled = None /\ (spc = "done" \/ (spc = "header" /\ inbox["c2s"] = <<>>))

(* No step of anybody changes who closes what. *)
LEMMA ClosingsStay ==
  ASSUME Hand, Closings, [ProxyNext]_proxyVars
  PROVE  Closings'
  <1>1. ASSUME UNCHANGED <<fin, closed, dialled>>, fault => fault' PROVE Closings'
    BY <1>1 DEF Closings
  <1>2. ASSUME NEW E, CloseEnds(E), UNCHANGED dialled, fault => fault',
               "target" \in E => dialled # None
        PROVE  Closings'
    BY <1>2 DEF Closings, CloseEnds
  <1>3. CASE UNCHANGED proxyVars \/ AppSends \/ TargetSends \/ CopyReadFails
    BY <1>1, <1>3 DEF proxyVars, AppSends, TargetSends, CopyReadFails, idVars, pipeVars
  <1>4. CASE AppHangsUp \/ TargetHangsUp \/ StreamBreaks
    BY <1>4 DEF AppHangsUp, TargetHangsUp, StreamBreaks, Closings, idVars
  <1>5. CASE Client
    <2>1. UNCHANGED dialled /\ (fault => fault')
      <3>1. CASE SocksRequest \/ DialTunnel
        <4>1. SocksRequest => UNCHANGED <<dialled, fault>>
          BY DEF SocksRequest, idVars
        <4>2. DialTunnel => UNCHANGED <<dialled, fault>>
          BY DEF DialTunnel, idVars
        <4>. QED  BY <3>1, <4>1, <4>2
      <3>2. CASE SendRequest
        BY <3>2 DEF SendRequest, idVars
      <3>3. CASE ReadAck \/ AckLost \/ ClientReturns
        BY <3>3 DEF ReadAck, AckLost, ClientReturns, idVars
      <3>. QED  BY <1>5, <3>1, <3>2, <3>3 DEF Client
    <2>2. UNCHANGED <<fin, closed>> \/ \E r : GiveUp(r)
      <3>1. SocksRequest => UNCHANGED <<fin, closed>> \/ \E r : GiveUp(r)
        BY DEF SocksRequest
      <3>2. DialTunnel => UNCHANGED <<fin, closed>> \/ \E r : GiveUp(r)
        BY DEF DialTunnel
      <3>3. SendRequest => UNCHANGED <<fin, closed>> \/ \E r : GiveUp(r)
        BY DEF SendRequest
      <3>4. ReadAck \/ AckLost \/ ClientReturns => UNCHANGED <<fin, closed>> \/ \E r : GiveUp(r)
        BY DEF ReadAck, AckLost, ClientReturns, pipeVars
      <3>. QED  BY <1>5, <3>1, <3>2, <3>3, <3>4 DEF Client
    <2>3. ASSUME NEW r, GiveUp(r) PROVE \E E : CloseEnds(E) /\ "target" \notin E
      BY <2>3 DEF GiveUp
    <2>. QED  BY <1>1, <1>2, <2>1, <2>2, <2>3
  <1>6. CASE ReadRequest \/ ServerReturns
    BY <1>1, <1>6 DEF ReadRequest, ServerReturns, idVars, pipeVars
  <1>7. CASE RequestLost
    BY <1>2, <1>7 DEF RequestLost, idVars
  <1>8. CASE DialTarget
    <2>1. dialled = None /\ fault' = fault /\ dialled' \in {dialled, req} /\ req # None
      BY <1>8 DEF DialTarget, endVars, Hand, Answering, Asking
    <2>2. UNCHANGED <<fin, closed>> \/ (CloseEnds({"split"}) /\ UNCHANGED dialled)
      BY <1>8 DEF DialTarget
    <2>. QED  BY <1>2, <2>1, <2>2 DEF Closings
  <1>9. ASSUME NEW c \in Copier, Copying(c) PROVE Closings'
    <2>1. CASE CopyReads(c) \/ CopySeesEnd(c) \/ CopyWrites(c) \/ CopyWriteFails(c)
      BY <1>1, <2>1 DEF CopyReads, CopySeesEnd, CopyWrites, CopyWriteFails, idVars, pipeVars
    <2>2. CASE CopyCloses(c)
      <3>1. CloseEnds(Ends(c)) /\ UNCHANGED <<dialled, fault>> /\ copy[c] # "off"
        BY <2>2 DEF CopyCloses, idVars
      <3>2. dialled # None
        BY <3>1, RelayIsOn
      <3>. QED  BY <1>2, <3>1, <3>2
    <2>. QED  BY <1>9, <2>1, <2>2 DEF Copying
  <1>. QED  BY <1>3, <1>4, <1>5, <1>6, <1>7, <1>8, <1>9 DEF ProxyNext, Server

(* The step of giving up. *)
LEMMA GivesUpWithout ==
  ASSUME Hand, Closings, Client, GivesUp, ~fault'
  PROVE  /\ dialled' = None
         /\ spc' = "done" \/ (spc' = "header" /\ inbox'["c2s"] = <<>>)
  <1>0. inbox \in [Pipes -> Seq(Units)] /\ "c2s" \in Pipes /\ "s2c" \in Pipes
    BY DEF Hand, ProxyTypes, Pipes
  <1>1. UNCHANGED <<dialled, spc>> /\ Answer
    BY GivingUpIs DEF Hand, Told, GivesUp
  <1>2. CASE SocksRequest \/ DialTunnel
    <2>1. inbox["c2s"] = <<>> /\ req = None /\ UNCHANGED inbox
      BY <1>2 DEF SocksRequest, DialTunnel, Hand, Asking
    <2>. QED  BY <1>1, <2>1 DEF Hand, Asking, Answering, ProxyTypes
  <1>3. CASE SendRequest
    BY <1>3 DEF SendRequest, GivesUp
  <1>4. CASE ReadAck
    <2>1. FrameIn("s2c") /\ inbox["s2c"][2] # "OK"
      BY <1>4 DEF ReadAck, ReadFrame, GivesUp
    <2>2. inbox["s2c"] # <<>>
      BY <1>0, <2>1 DEF FrameIn
    <2>3. dialled = None /\ spc \notin {"header", "dial"}
      BY <1>1, <2>1, <2>2 DEF Answer, Hand, Answering
    <2>. QED  BY <1>1, <2>3 DEF Hand, Answering, ProxyTypes
  <1>5. CASE AckLost
    <2>1. ~FrameIn("s2c") /\ "s2c" \in fin
      BY <1>5 DEF AckLost
    <2>2. dialled = None /\ "split" \in closed
      BY <1>0, <1>1, <2>1 DEF FrameIn, Answer, Closings
    <2>. QED  BY <1>1, <2>2 DEF Hand, Answering, ProxyTypes
  <1>6. ~ClientReturns
    BY DEF ClientReturns, GivesUp, Early
  <1>. QED  BY <1>2, <1>3, <1>4, <1>5, <1>6 DEF Client

(* Once the client has given up, nothing is dialled for it. *)
LEMMA GivenUpStays ==
  ASSUME Hand, Hand', Closings, GivenUp, [ProxyNext]_proxyVars
  PROVE  GivenUp'
  <1>0. inbox \in [Pipes -> Seq(Units)] /\ "c2s" \in Pipes /\ "s2c" \in Pipes /\ "c2s" # "s2c"
    BY DEF Hand, ProxyTypes, Pipes
  <1> SUFFICES ASSUME cpc' = "done", ~Succeeded', ~fault'
               PROVE  dialled' = None /\ (spc' = "done" \/ (spc' = "header" /\ inbox'["c2s"] = <<>>))
    BY DEF GivenUp
  <1>f. ~fault
    BY OnlyForward
  <1>1. CASE cpc \in Early
    <2>1. Client
      <3>1. ~ \E c \in Copier : Copying(c)
        BY <1>1 DEF Copying, CopyReads, CopySeesEnd, CopyWrites, CopyWriteFails, CopyCloses, Early
      <3>2. cpc' # cpc
        BY <1>1 DEF Early
      <3>. QED  BY <3>1, <3>2 DEF ProxyNext, proxyVars, AppSends, AppHangsUp, TargetSends, TargetHangsUp, Server,
                  ReadRequest, RequestLost, DialTarget, ServerReturns, CopyReadFails, StreamBreaks
    <2>. QED  BY <1>1, <2>1, GivesUpWithout DEF GivesUp
  <1>2. CASE cpc = "relay"
    <2>1. Succeeded /\ copy["cUp"] # "off"
      BY <1>2 DEF Hand, Told, Early
    <2>2. copy'["cUp"] = "off"
      BY DEF Hand, Told
    <2>3. CASE Client
      BY <1>2, <2>1, <2>2, <2>3 DEF Client, SocksRequest, DialTunnel, SendRequest, ReadAck, AckLost, ClientReturns, copyVars
    <2>4. CASE ~Client
      <3>1. ~ \E c \in Copier : Copying(c)
        BY <1>2 DEF Copying, CopyReads, CopySeesEnd, CopyWrites, CopyWriteFails, CopyCloses
      <3>. QED  BY <1>2, <2>4, <3>1 DEF ProxyNext, proxyVars, AppSends, AppHangsUp, TargetSends, TargetHangsUp, Server,
                  ReadRequest, RequestLost, DialTarget, ServerReturns, CopyReadFails, StreamBreaks
    <2>. QED  BY <2>3, <2>4
  <1>3. CASE cpc = "done"
    <2>1. ~Succeeded
      <3>1. copy'["cUp"] = "off" /\ copy'["cDown"] = "off"
        BY DEF Hand, Told
      <3>2. ASSUME Succeeded PROVE FALSE
        <4>1. toApp' = toApp \/ \E c \in Copier : CopyWrites(c)
          BY <1>3 DEF ProxyNext, Client, Server, Copying, proxyVars, endVars, SocksRequest, DialTunnel, SendRequest,
               ReadAck, AckLost, ClientReturns, AppSends, AppHangsUp, TargetSends, TargetHangsUp, ReadRequest,
               RequestLost, DialTarget, ServerReturns, CopyReadFails, StreamBreaks, CopyReads, CopySeesEnd,
               CopyWriteFails, CopyCloses
        <4>2. toApp' # toApp
          BY <3>2 DEF Succeeded
        <4>3. PICK c \in Copier : CopyWrites(c)
          BY <4>1, <4>2
        <4>4. c = "cDown" /\ copy'[c] = "read"
          BY <4>2, <4>3, WritesOn
        <4>. QED  BY <3>1, <4>4
      <3>. QED  BY <3>2
    <2>2. dialled = None /\ (spc = "done" \/ (spc = "header" /\ inbox["c2s"] = <<>>))
      BY <1>3, <1>f, <2>1 DEF GivenUp
    <2>3. ~ \E c \in Copier : copy[c] # "off"
      BY <2>2, RelayIsOn
    <2>4. ~Client /\ ~ \E c \in Copier : Copying(c)
      BY <1>3, <2>3 DEF Client, SocksRequest, DialTunnel, SendRequest, ReadAck, AckLost, ClientReturns,
                  Copying, CopyReads, CopySeesEnd, CopyWrites, CopyWriteFails, CopyCloses
    <2>5. CASE Server
      <3>1. ~ReadRequest
        <4>1. ASSUME ReadRequest PROVE FALSE
          <5>1. spc = "header" /\ Len(inbox["c2s"]) >= 2
            BY <4>1 DEF ReadRequest, FrameIn
          <5>2. Len(<<>>) = 0 /\ ~(0 >= 2)
            OBVIOUS
          <5>. QED  BY <2>2, <5>1, <5>2
        <4>. QED  BY <4>1
      <3>. QED  BY <2>2, <2>5, <3>1 DEF Server, RequestLost, DialTarget, ServerReturns, idVars
    <2>6. CASE TargetSends \/ TargetHangsUp
      BY <2>2, <2>6 DEF TargetSends, TargetHangsUp
    <2>7. CASE AppSends
      <3>1. UNCHANGED <<dialled, spc>> /\ \E s : inbox' = [inbox EXCEPT !["a2c"] = s]
        BY <2>7 DEF AppSends, idVars
      <3>. QED  BY <1>0, <2>2, <3>1
    <2>8. CASE UNCHANGED proxyVars \/ AppHangsUp \/ CopyReadFails \/ StreamBreaks
      BY <2>2, <2>8 DEF proxyVars, AppHangsUp, CopyReadFails, StreamBreaks, idVars, pipeVars
    <2>. QED  BY <2>4, <2>5, <2>6, <2>7, <2>8 DEF ProxyNext
  <1>. QED  BY <1>1, <1>2, <1>3 DEF Hand, ProxyTypes

----------------------------------------------------------------------------
(* As long as nothing has failed, the application is there and nothing of    *)
(* its was lost, neither relay is over before the target has hung up, the    *)
(* server's not before all it sent is on the way, and the client's not       *)
(* before the application has it all.                                        *)
Clean == ~fault /\ "a2c" \notin fin /\ UpEven
ServerOver ==
  /\ dialled # None
  /\ copy["sUp"] \in Over \/ copy["sDown"] \in Over \/ "split" \in closed \/ "target" \in closed
ClientOver ==
  /\ Succeeded
  /\ copy["cUp"] \in Over \/ copy["cDown"] \in Over \/ "socks" \in closed \/ "conn" \in closed
Drained ==
  Clean => /\ ServerOver => "t2s" \in fin /\ DownFront = targetSent
           /\ ClientOver => "t2s" \in fin /\ Len(AppGot) = targetSent

(* As far as each direction has come it is behind what was sent. *)
Bounds ==
  /\ Len(AppGot) \in Nat /\ DownFront \in Nat /\ targetSent \in Nat
  /\ Len(AppGot) <= DownFront /\ DownFront <= targetSent
  /\ Len(toTarget) \in Nat /\ Len(toTarget) <= appSent
(* The lines of both directions, and with them whatever the end of a relay   *)
(* depends on: the invariant the proofs below use.                           *)
Lines == Hand /\ Up /\ Down /\ Closings /\ GivenUp
(* What holds of every relay. *)
PInv == Lines /\ Bounds /\ Drained

(* What has come out is no more than what was sent. *)
LEMMA DownInOrder ==
  ASSUME Hand, Down
  PROVE  /\ Len(AppGot) <= DownFront /\ DownFront <= targetSent
         /\ Len(held["cDown"]) = 0 /\ Len(DownData) = 0 => DownFront = Len(AppGot)
         /\ Len(held["cDown"]) # 0 => Len(AppGot) # DownFront
         /\ DownIntact /\ Len(held["sDown"]) = 0 /\ Len(inbox["t2s"]) = 0 => DownFront = targetSent
  <1> DEFINE b == Back(held["sDown"], inbox["t2s"], targetSent)
  <1>1. Line(TargetStream, AppGot, held["cDown"], DownData, held["sDown"], inbox["t2s"], targetSent,
             CDownTakes, DownIntact)
    BY DEF Down
  <1>2. /\ DownFront \in Nat /\ b \in Nat /\ Len(AppGot) <= DownFront
        /\ DownFront <= b /\ b <= targetSent
        /\ Len(held["cDown"]) = 0 /\ Len(DownData) = 0 => DownFront = Len(AppGot)
        /\ Len(held["sDown"]) = 0 /\ Len(inbox["t2s"]) = 0 => b = targetSent
        /\ Len(held["cDown"]) # 0 => Len(AppGot) # DownFront
    BY <1>1, DownTypes, LineInOrder DEF DownFront
  <1>3. DownIntact => DownFront = b
    BY <1>1 DEF Line, Even, DownFront
  <1>4. targetSent \in Nat
    BY DownTypes
  <1> HIDE DEF b
  <1>5. DownFront <= targetSent
    BY <1>2, <1>4
  <1>. QED  BY <1>2, <1>3, <1>5

(* When the client's relay is over, the server's has nothing more to give.   *)
LEMMA OverIsAll ==
  ASSUME Hand, Down, Len(AppGot) = targetSent
  PROVE  DownFront = targetSent /\ Len(held["cDown"]) = 0
  <1>1. Len(AppGot) <= DownFront /\ DownFront <= targetSent
        /\ DownFront \in Nat /\ targetSent \in Nat
    BY DownInOrder, DownTypes
  <1>2. DownFront = targetSent
    <2> DEFINE l == Len(AppGot)
    <2>1. l = targetSent /\ l <= DownFront
      BY <1>1
    <2> HIDE DEF l
    <2>. QED  BY <1>1, <2>1
  <1>. QED  BY <1>2, DownInOrder

(* The first of the server's relay to be over. *)
LEMMA ServerEnds ==
  ASSUME PInv, Hand', Closings', GivenUp', [ProxyNext]_proxyVars, Clean, Clean', ServerOver', ~ServerOver
  PROVE  "t2s" \in fin /\ DownFront = targetSent
  <1>0. /\ copy \in [Copier -> {"off", "read", "write"} \cup Over] /\ Copier = {"cUp", "cDown", "sUp", "sDown"}
        /\ Hand /\ Down /\ Closings /\ GivenUp /\ Drained
        /\ "sUp" \notin {"cUp", "cDown", "sDown"} /\ "sDown" \notin {"cUp", "cDown", "sUp"}
    BY DEF PInv, Lines, Hand, ProxyTypes, Copier
  <1>1. CASE dialled = None
    <2>1. DialTarget
      <3>1. dialled' # dialled
        BY <1>1 DEF ServerOver
      <3>. QED  BY <3>1 DEF ProxyNext, proxyVars, idVars, AppSends, AppHangsUp, TargetSends, TargetHangsUp, Client,
              SocksRequest, DialTunnel, SendRequest, ReadAck, AckLost, ClientReturns, Server, ReadRequest, RequestLost,
              ServerReturns, Copying, CopyReads, CopySeesEnd, CopyWrites, CopyWriteFails, CopyCloses, CopyReadFails,
              StreamBreaks
    <2>2. /\ UNCHANGED closed /\ copy'["sUp"] = "read" /\ copy'["sDown"] = "read" /\ spc = "dial"
      BY <1>0, <1>1, <2>1 DEF DialTarget, ServerOver
    <2>3. "split" \notin closed /\ "target" \notin closed
      BY <1>0, <1>1, <2>2 DEF Hand, Answering, Closings
    <2>. QED  BY <2>2, <2>3 DEF ServerOver, Over
  <1>2. CASE dialled # None
    <2>1. /\ copy["sUp"] \notin Over /\ copy["sDown"] \notin Over
          /\ "split" \notin closed /\ "target" \notin closed
      BY <1>2 DEF ServerOver
    <2>2. \/ copy'["sUp"] \in Over \/ copy'["sDown"] \in Over \/ "split" \in closed' \/ "target" \in closed'
      BY DEF ServerOver
    <2>3. CASE UNCHANGED proxyVars \/ AppSends \/ AppHangsUp \/ TargetSends \/ TargetHangsUp \/ CopyReadFails \/ StreamBreaks
      BY <1>0, <2>1, <2>2, <2>3 DEF proxyVars, copyVars, pipeVars, AppSends, AppHangsUp, TargetSends, TargetHangsUp,
         CopyReadFails, StreamBreaks
    <2>4. CASE Client
      <3>1. /\ copy'["sUp"] = copy["sUp"] /\ copy'["sDown"] = copy["sDown"]
            /\ "split" \in closed' => "split" \in closed
            /\ "target" \in closed' => "target" \in closed
        <4>1. ASSUME NEW r, GiveUp(r)
              PROVE  /\ "split" \in closed' => "split" \in closed
                     /\ "target" \in closed' => "target" \in closed
          BY <4>1 DEF GiveUp, CloseEnds
        <4>2. CASE SocksRequest
          BY <4>1, <4>2 DEF SocksRequest, copyVars
        <4>3. CASE DialTunnel
          BY <4>1, <4>3 DEF DialTunnel, copyVars
        <4>4. CASE SendRequest
          BY <4>1, <4>4 DEF SendRequest, copyVars
        <4>5. CASE ReadAck
          BY <1>0, <4>1, <4>5 DEF ReadAck
        <4>6. CASE AckLost \/ ClientReturns
          BY <4>1, <4>6 DEF AckLost, ClientReturns, copyVars, pipeVars
        <4>. QED  BY <2>4, <4>2, <4>3, <4>4, <4>5, <4>6 DEF Client
      <3>. QED  BY <2>1, <2>2, <3>1
    <2>5. CASE Server
      <3>1. spc \notin {"header", "dial"}
        BY <1>0, <1>2 DEF Hand, Asking, Answering
      <3>2. ServerReturns
        BY <2>5, <3>1 DEF Server, ReadRequest, RequestLost, DialTarget
      <3>. QED  BY <2>1, <2>2, <3>2 DEF ServerReturns, copyVars, pipeVars
    <2>6. ASSUME NEW c \in {"cUp", "cDown"}, Copying(c) PROVE FALSE
      <3>1. copy'["sUp"] = copy["sUp"] /\ copy'["sDown"] = copy["sDown"]
        BY <1>0, <2>6 DEF Copying, CopyReads, CopySeesEnd, CopyWrites, CopyWriteFails, CopyCloses
      <3>2. /\ "split" \in closed' => "split" \in closed
            /\ "target" \in closed' => "target" \in closed
        BY <1>0, <2>6 DEF Copying, CopyReads, CopySeesEnd, CopyWrites, CopyWriteFails, CopyCloses, CloseEnds, Ends, pipeVars
      <3>. QED  BY <2>1, <2>2, <3>1, <3>2
    <2>7. ASSUME NEW c \in {"sUp", "sDown"}, Copying(c) PROVE "t2s" \in fin /\ DownFront = targetSent
      <3>1. CASE CopyReads(c) \/ CopyWrites(c)
        <4>1. copy'["sUp"] \notin Over /\ copy'["sDown"] \notin Over /\ UNCHANGED closed
          BY <1>0, <2>1, <3>1 DEF CopyReads, CopyWrites, Over
        <4>. QED  BY <2>1, <2>2, <4>1
      <3>2. CASE CopyCloses(c)
        BY <2>1, <3>2 DEF CopyCloses, Over
      <3>3. CASE CopyWriteFails(c)
        <4>1. c = "sUp" => ~UpEven'
          BY <1>0, <3>3, UpStays DEF PInv, Lines
        <4>2. c = "sDown" /\ ~Reaches("sDown")
          BY <3>3, <4>1 DEF CopyWriteFails, Fails, Clean
        <4>. QED  BY <2>1, <4>2 DEF Reaches
      <3>4. CASE CopySeesEnd(c) /\ c = "sUp"
        <4>1. "c2s" \in fin
          BY <1>0, <2>1, <3>4, SourcesAre DEF CopySeesEnd, AtEnd, ReadsClosed
        <4>2. "conn" \in closed
          BY <1>0, <4>1 DEF Closings, Clean
        <4>3. Succeeded
          BY <1>0, <1>2, <4>2 DEF Hand, Told, GivenUp, Clean, ProxyTypes
        <4>4. "t2s" \in fin /\ Len(AppGot) = targetSent
          BY <1>0, <4>2, <4>3 DEF Drained, ClientOver
        <4>. QED  BY <1>0, <4>4, OverIsAll
      <3>5. CASE CopySeesEnd(c) /\ c = "sDown"
        <4>1. copy["sDown"] = "read" /\ "t2s" \in fin /\ inbox["t2s"] = <<>>
          BY <1>0, <2>1, <3>5, SourcesAre DEF CopySeesEnd, AtEnd, ReadsClosed
        <4>2. Len(held["sDown"]) = 0 /\ Len(inbox["t2s"]) = 0
          BY <1>0, <4>1 DEF Hand, Holds
        <4>3. CASE CDownTakes
          BY <1>0, <4>1, <4>2, <4>3, DownInOrder DEF DownIntact, Over
        <4>4. CASE ~CDownTakes
          <5>1. cpc \notin Early /\ copy["cDown"] \in {"off"} \cup Over
            BY <1>0, <4>4 DEF CDownTakes
          <5>2. Succeeded
            BY <1>0, <1>2, <5>1 DEF Hand, Told, GivenUp, Clean, ProxyTypes
          <5>3. copy["cDown"] \in Over
            BY <1>0, <5>1, <5>2 DEF Hand, Told
          <5>4. Len(AppGot) = targetSent
            BY <1>0, <5>2, <5>3 DEF Drained, ClientOver
          <5>. QED  BY <1>0, <4>1, <5>4, OverIsAll
        <4>. QED  BY <4>3, <4>4
      <3>. QED  BY <2>7, <3>1, <3>2, <3>3, <3>4, <3>5 DEF Copying
    <2>. QED  BY <1>0, <2>3, <2>4, <2>5, <2>6, <2>7 DEF ProxyNext
  <1>. QED  BY <1>1, <1>2

(* The first of the client's relay to be over. *)
LEMMA ClientEnds ==
  ASSUME PInv, Hand', [ProxyNext]_proxyVars, Clean, Clean', ClientOver', ~ClientOver
  PROVE  "t2s" \in fin /\ Len(AppGot) = targetSent
  <1>0. /\ copy \in [Copier -> {"off", "read", "write"} \cup Over] /\ Copier = {"cUp", "cDown", "sUp", "sDown"}
        /\ Hand /\ Down /\ Closings /\ GivenUp /\ Drained
        /\ "cUp" \notin {"cDown", "sUp", "sDown"} /\ "cDown" \notin {"cUp", "sUp", "sDown"}
    BY DEF PInv, Lines, Hand, ProxyTypes, Copier
  <1>1. CASE ~Succeeded
    <2>1. copy["cUp"] = "off" /\ copy'["cUp"] # "off"
      BY <1>0, <1>1 DEF Hand, Told, ClientOver
    <2>2. ReadAck
      <3>1. ~ \E c \in Copier : Copying(c) /\ c = "cUp"
        BY <2>1 DEF Copying, CopyReads, CopySeesEnd, CopyWrites, CopyWriteFails, CopyCloses
      <3>2. ASSUME NEW c \in Copier, c # "cUp", Copying(c) PROVE FALSE
        <4>1. copy'["cUp"] = copy["cUp"]
          BY <1>0, <3>2 DEF Copying, CopyReads, CopySeesEnd, CopyWrites, CopyWriteFails, CopyCloses
        <4>. QED  BY <2>1, <4>1
      <3>3. ~DialTarget
        <4>1. DialTarget => copy'["cUp"] = copy["cUp"]
          BY <1>0 DEF DialTarget
        <4>. QED  BY <2>1, <4>1
      <3>4. ~CopyReadFails
        <4>1. CopyReadFails => copy'["cUp"] = copy["cUp"]
          BY <1>0 DEF CopyReadFails
        <4>. QED  BY <2>1, <4>1
      <3>5. copy' # copy
        BY <2>1
      <3>. QED  BY <3>1, <3>2, <3>3, <3>4, <3>5 DEF ProxyNext, proxyVars, copyVars, AppSends, AppHangsUp,
              TargetSends, TargetHangsUp, Client, SocksRequest, DialTunnel, SendRequest, AckLost, ClientReturns,
              Server, ReadRequest, RequestLost, ServerReturns, StreamBreaks
    <2>3. cpc = "ack" /\ "socks" \notin closed /\ "conn" \notin closed
      BY <1>0, <2>2 DEF ReadAck, Hand, Told, Early
    <2>4. UNCHANGED closed /\ copy' = [copy EXCEPT !["cUp"] = "read", !["cDown"] = "read"]
      BY <2>1, <2>2 DEF ReadAck
    <2>5. copy'["cUp"] = "read" /\ copy'["cDown"] = "read"
      BY <1>0, <2>4
    <2>. QED  BY <2>3, <2>4, <2>5 DEF ClientOver, Over
  <1>2. CASE Succeeded
    <2>1. /\ copy["cUp"] \notin Over /\ copy["cDown"] \notin Over
          /\ "socks" \notin closed /\ "conn" \notin closed
      BY <1>2 DEF ClientOver
    <2>2. \/ copy'["cUp"] \in Over \/ copy'["cDown"] \in Over \/ "socks" \in closed' \/ "conn" \in closed'
      BY DEF ClientOver
    <2>3. CASE UNCHANGED proxyVars \/ AppSends \/ AppHangsUp \/ TargetSends \/ TargetHangsUp \/ StreamBreaks
      BY <1>0, <2>1, <2>2, <2>3 DEF proxyVars, copyVars, pipeVars, AppSends, AppHangsUp, TargetSends, TargetHangsUp,
         StreamBreaks
    <2>4. CASE Client
      <3>1. cpc \notin Early
        BY <1>0, <1>2 DEF Hand, Told, Succeeded
      <3>2. ClientReturns
        BY <2>4, <3>1 DEF Client, SocksRequest, DialTunnel, SendRequest, ReadAck, AckLost, Early
      <3>. QED  BY <2>1, <2>2, <3>2 DEF ClientReturns, copyVars, pipeVars
    <2>5. CASE Server
      <3>1. CASE DialTarget
        <4>1. /\ copy'["cUp"] = copy["cUp"] /\ copy'["cDown"] = copy["cDown"]
              /\ "socks" \in closed' => "socks" \in closed
              /\ "conn" \in closed' => "conn" \in closed
          BY <1>0, <3>1 DEF DialTarget, CloseEnds
        <4>. QED  BY <2>1, <2>2, <4>1
      <3>. QED  BY <2>1, <2>2, <2>5, <3>1 DEF Server, ReadRequest, RequestLost, ServerReturns, CloseEnds, copyVars, pipeVars
    <2>6. ASSUME NEW c \in {"sUp", "sDown"}, Copying(c) PROVE FALSE
      <3>1. copy'["cUp"] = copy["cUp"] /\ copy'["cDown"] = copy["cDown"]
        BY <1>0, <2>6 DEF Copying, CopyReads, CopySeesEnd, CopyWrites, CopyWriteFails, CopyCloses
      <3>2. /\ "socks" \in closed' => "socks" \in closed
            /\ "conn" \in closed' => "conn" \in closed
        BY <1>0, <2>6 DEF Copying, CopyReads, CopySeesEnd, CopyWrites, CopyWriteFails, CopyCloses, CloseEnds, Ends, pipeVars
      <3>. QED  BY <2>1, <2>2, <3>1, <3>2
    <2>7. ~CopyReadFails
      BY DEF CopyReadFails, Clean
    <2>8. ASSUME NEW c \in {"cUp", "cDown"}, Copying(c) PROVE "t2s" \in fin /\ Len(AppGot) = targetSent
      <3>1. CASE CopyReads(c) \/ CopyWrites(c)
        <4>1. copy'["cUp"] \notin Over /\ copy'["cDown"] \notin Over /\ UNCHANGED closed
          BY <1>0, <2>1, <3>1 DEF CopyReads, CopyWrites, Over
        <4>. QED  BY <2>1, <2>2, <4>1
      <3>2. CASE CopyCloses(c)
        BY <2>1, <3>2 DEF CopyCloses, Over
      <3>3. CASE CopyWriteFails(c)
        <4>1. c = "cUp" => ~UpEven'
          BY <1>0, <3>3, UpStays DEF PInv, Lines
        <4>2. c = "cDown" /\ (~Reaches("cDown") \/ "a2c" \in fin)
          BY <3>3, <4>1 DEF CopyWriteFails, Fails, Clean
        <4>. QED  BY <2>1, <4>2 DEF Reaches, Clean
      <3>4. CASE CopySeesEnd(c)
        <4>1. c = "cDown" /\ copy["cDown"] = "read" /\ inbox["s2c"] = <<>> /\ "s2c" \in fin
          BY <1>0, <2>1, <3>4, SourcesAre DEF CopySeesEnd, AtEnd, ReadsClosed, Clean
        <4>2. ServerOver
          BY <1>0, <1>2, <4>1 DEF Closings, ServerOver, Hand, Told
        <4>3. "t2s" \in fin /\ DownFront = targetSent
          BY <1>0, <4>2 DEF Drained
        <4>4. Len(held["cDown"]) = 0 /\ Len(DownData) = 0
          BY <1>0, <1>2, <4>1 DEF Hand, Holds, DownData
        <4>. QED  BY <1>0, <4>3, <4>4, DownInOrder
      <3>. QED  BY <2>8, <3>1, <3>2, <3>3, <3>4 DEF Copying
    <2>. QED  BY <1>0, <2>3, <2>4, <2>5, <2>6, <2>7, <2>8 DEF ProxyNext
  <1>. QED  BY <1>1, <1>2

(* Who moves what the two outer ends see. *)
LEMMA OuterEnds ==
  ASSUME Hand, [ProxyNext]_proxyVars
  PROVE  /\ AppSends \/ UNCHANGED appSent
         /\ TargetSends \/ UNCHANGED targetSent
         /\ AppHangsUp \/ ("a2c" \in fin' <=> "a2c" \in fin)
         /\ TargetHangsUp \/ ("t2s" \in fin' <=> "t2s" \in fin)
         /\ UNCHANGED toTarget \/ CopyWrites("sUp")
  <1>0. \A E : CloseEnds(E) => ("a2c" \in fin' <=> "a2c" \in fin) /\ ("t2s" \in fin' <=> "t2s" \in fin)
    BY DEF CloseEnds
  <1>g. \A r : GiveUp(r) => \E E : CloseEnds(E)
    BY DEF GiveUp
  <1> DEFINE Same == /\ UNCHANGED <<appSent, targetSent, toTarget>>
                     /\ "a2c" \in fin' <=> "a2c" \in fin
                     /\ "t2s" \in fin' <=> "t2s" \in fin
  <1>1. CASE UNCHANGED proxyVars
    BY <1>1 DEF proxyVars, pipeVars, endVars
  <1>2. CASE AppSends \/ AppHangsUp \/ TargetSends \/ TargetHangsUp
    BY <1>2 DEF AppSends, AppHangsUp, TargetSends, TargetHangsUp, endVars
  <1>3. CASE CopyReadFails \/ StreamBreaks
    BY <1>3 DEF CopyReadFails, StreamBreaks, pipeVars, endVars
  <1>4. CASE Client
    <2>1. SocksRequest => Same
      BY <1>0, <1>g DEF SocksRequest
    <2>2. DialTunnel => Same
      BY <1>0, <1>g DEF DialTunnel
    <2>3. SendRequest => Same
      BY <1>0, <1>g DEF SendRequest
    <2>4. ReadAck => Same
      BY <1>0, <1>g DEF ReadAck
    <2>5. AckLost \/ ClientReturns => Same
      BY <1>0, <1>g DEF AckLost, ClientReturns, pipeVars, endVars
    <2>. QED  BY <1>4, <2>1, <2>2, <2>3, <2>4, <2>5 DEF Client
  <1>5. CASE Server
    <2>1. ReadRequest \/ RequestLost \/ ServerReturns => Same
      BY <1>0 DEF ReadRequest, RequestLost, ServerReturns, pipeVars, endVars
    <2>2. DialTarget => Same
      BY <1>0 DEF DialTarget, endVars
    <2>. QED  BY <1>5, <2>1, <2>2 DEF Server
  <1>6. ASSUME NEW c \in Copier, Copying(c)
        PROVE  /\ UNCHANGED <<appSent, targetSent>>
               /\ "a2c" \in fin' <=> "a2c" \in fin
               /\ "t2s" \in fin' <=> "t2s" \in fin
               /\ UNCHANGED toTarget \/ CopyWrites("sUp")
    <2>1. CASE CopyReads(c) \/ CopySeesEnd(c) \/ CopyCloses(c)
      BY <1>0, <2>1 DEF CopyReads, CopySeesEnd, CopyCloses, pipeVars, endVars
    <2>2. CASE CopyWriteFails(c)
      BY <2>2 DEF CopyWriteFails, pipeVars, endVars
    <2>3. CASE CopyWrites(c)
      BY <2>3, LetsGo, WritesOn
    <2>. QED  BY <1>6, <2>1, <2>2, <2>3 DEF Copying
  <1>. QED  BY <1>1, <1>2, <1>3, <1>4, <1>5, <1>6 DEF ProxyNext

(* No step ends a relay before its direction is through. *)
LEMMA DrainedStays ==
  ASSUME PInv, Lines', Bounds', [ProxyNext]_proxyVars
  PROVE  Drained'
  <1>0. /\ Hand /\ Up /\ Down /\ Closings /\ GivenUp /\ Drained
        /\ Hand' /\ Closings' /\ GivenUp'
    BY DEF PInv, Lines
  <1> SUFFICES ASSUME Clean'
               PROVE  /\ ServerOver' => "t2s" \in fin' /\ DownFront' = targetSent'
                      /\ ClientOver' => "t2s" \in fin' /\ Len(AppGot') = targetSent'
    BY DEF Drained
  <1>1. Clean
    BY <1>0, OnlyForward, UpStays DEF Clean
  <1>2. ServerOver' => "t2s" \in fin /\ DownFront = targetSent
    BY <1>0, <1>1, ServerEnds DEF Drained
  <1>3. ClientOver' => "t2s" \in fin /\ Len(AppGot) = targetSent
    BY <1>0, <1>1, ClientEnds DEF Drained
  <1>4. "t2s" \in fin => "t2s" \in fin' /\ targetSent' = targetSent
    BY <1>0, OnlyForward, OuterEnds DEF TargetSends
  <1>5. /\ Len(AppGot) <= Len(AppGot') /\ Len(AppGot') <= DownFront' /\ DownFront' <= targetSent'
        /\ DownFront \in Nat /\ DownFront' \in Nat /\ targetSent' \in Nat /\ Len(AppGot') \in Nat
    BY <1>0, DownStays DEF Bounds, PInv
  <1>6. ServerOver' => DownFront <= DownFront'
    <2> SUFFICES ASSUME ServerOver' PROVE DownFront <= DownFront'
      OBVIOUS
    <2>1. ~(Client /\ GivesUp)
      <3>1. ASSUME Client, GivesUp PROVE FALSE
        <4>1. ~Succeeded' /\ cpc' = "done"
          BY <1>0, <3>1, GivingUpIs DEF GivesUp
        <4>2. dialled' = None
          BY <1>0, <4>1 DEF GivenUp, Clean
        <4>. QED  BY <4>2 DEF ServerOver
      <3>. QED  BY <3>1
    <2>2. ~CopyWriteFails("cDown")
      <3>1. ASSUME CopyWriteFails("cDown") PROVE FALSE
        <4>1. "cDown" \in Copier
          BY SourcesAre
        <4>2. copy["cDown"] = "write" /\ Len(held["cDown"]) = 1
          BY <1>0, <3>1, <4>1, LetsGo
        <4>3. "socks" \in closed
          BY <1>1, <3>1 DEF CopyWriteFails, Fails, Reaches, Clean
        <4>4. ClientOver
          BY <1>0, <4>1, <4>2, <4>3, RelayIsOn DEF ClientOver
        <4>5. Len(held["cDown"]) = 0
          BY <1>0, <1>1, <4>4, OverIsAll DEF Drained
        <4>. QED  BY <4>2, <4>5
      <3>. QED  BY <3>1
    <2>. QED  BY <1>0, <2>1, <2>2, DownStays
  <1>7. \A x, y \in Nat : x <= y /\ y <= x => x = y
    OBVIOUS
  <1>8. ServerOver' => "t2s" \in fin' /\ DownFront' = targetSent'
    BY <1>2, <1>4, <1>5, <1>6, <1>7, Zenon
  <1>9. ClientOver' => "t2s" \in fin' /\ Len(AppGot') = targetSent'
    <2> DEFINE l == Len(AppGot')
               m == Len(AppGot)
               d == DownFront'
    <2>1. /\ m <= l /\ l <= d /\ d <= targetSent' /\ l \in Nat /\ d \in Nat /\ targetSent' \in Nat
          /\ ClientOver' => m = targetSent'
      BY <1>3, <1>4, <1>5
    <2>2. l = Len(AppGot')
      OBVIOUS
    <2> HIDE DEF l, m, d
    <2>3. ClientOver' => l = targetSent'
      BY ONLY <2>1
    <2>. QED  BY <1>3, <1>4, <2>2, <2>3
  <1>. QED  BY <1>8, <1>9

(* Nothing was lost upward when the target has all there is. *)
LEMMA AllIsEven ==
  ASSUME Hand, Up
  PROVE  /\ Len(toTarget) \in Nat /\ Len(toTarget) <= appSent
         /\ Len(toTarget) = appSent => UpEven
  <1> DEFINE f == Front(toTarget, held["sUp"], UpData)
             b == Back(held["cUp"], inbox["a2c"], appSent)
             t == Len(toTarget)
  <1>1. Line(AppStream, toTarget, held["sUp"], UpData, held["cUp"], inbox["a2c"], appSent, SUpTakes, UpIntact)
    BY DEF Up
  <1>2. /\ t <= f /\ f <= b /\ b <= appSent
        /\ t \in Nat /\ f \in Nat /\ b \in Nat /\ appSent \in Nat
    BY <1>1, UpTypes, LineInOrder
  <1> HIDE DEF f, b, t
  <1>3. t <= appSent /\ (t = appSent => f = b)
    BY ONLY <1>2
  <1>. QED  BY <1>2, <1>3 DEF f, b, t, UpEven, Even

(* The invariant holds at first, ... *)
LEMMA LinesAtFirst == ProxyInit => Lines /\ Drained
  <1> SUFFICES ASSUME ProxyInit PROVE Lines /\ Drained
    OBVIOUS
  <1>1. Closings
    BY DEF ProxyInit, Closings
  <1>2. GivenUp
    BY DEF ProxyInit, GivenUp
  <1>3. Drained
    BY DEF ProxyInit, Drained, ServerOver, ClientOver, Succeeded
  <1>. QED  BY <1>1, <1>2, <1>3, HandAtFirst, UpAtFirst, DownAtFirst DEF Lines

(* ... each step keeps the lines, ... *)
LEMMA LinesStay ==
  ASSUME Lines, [ProxyNext]_proxyVars
  PROVE  Lines'
  <1>1. Hand /\ Up /\ Down /\ Closings /\ GivenUp
    BY DEF Lines
  <1>2. Hand'
    BY <1>1, HandStays
  <1>3. Up' /\ Down' /\ Closings' /\ GivenUp'
    BY <1>1, <1>2, UpStays, DownStays, ClosingsStay, GivenUpStays
  <1>. QED  BY <1>2, <1>3 DEF Lines

(* ... and so it holds always. *)
LEMMA PInvHolds == ProxySpec => []PInv
  <1>1. Lines => Bounds
    BY DownTypes, DownInOrder, AllIsEven DEF Lines, Bounds
  <1>2. Lines /\ Bounds /\ Drained /\ Lines' /\ Bounds' /\ [ProxyNext]_proxyVars => Drained'
    BY DrainedStays DEF PInv
  <1>3. Lines /\ Bounds /\ Drained <=> PInv
    BY DEF PInv
  <1>. QED  BY <1>1, <1>2, <1>3, LinesAtFirst, LinesStay, PTL DEF ProxySpec

(* A relay that closes the application's connection, with no fault, nothing  *)
(* of the application's on the way and the application still there, has      *)
(* given it everything the target sent: whichever copy ends first, its end   *)
(* goes back to the target's, and what came before that is ahead of it.      *)
THEOREM NothingIsCutOff == ProxySpec => []LastByteDelivered
  <1>1. PInv => LastByteDelivered
    <2> SUFFICES ASSUME PInv, Succeeded, "socks" \in closed, ~fault, "a2c" \notin fin, Len(toTarget) = appSent
                 PROVE  Len(AppGot) = targetSent
      BY DEF LastByteDelivered
    <2>1. Hand /\ Up /\ Drained
      BY DEF PInv, Lines
    <2>2. UpEven
      BY <2>1, AllIsEven
    <2>. QED  BY <2>1, <2>2 DEF Drained, Clean, ClientOver
  <1>. QED  BY <1>1, PInvHolds, PTL

----------------------------------------------------------------------------
(* A beginning of a sequence is one of each longer beginning. *)
LEMMA PrefixOfPrefix ==
  ASSUME NEW S, NEW w \in Seq(S), NEW a \in Nat, NEW b \in Nat, a <= b, b <= Len(w)
  PROVE  /\ SubSeq(w, 1, b) \in Seq(S) /\ Len(SubSeq(w, 1, b)) = b
         /\ SubSeq(w, 1, a) = SubSeq(SubSeq(w, 1, b), 1, a)
  <1>1. /\ 1 \in 1 .. Len(w) + 1 /\ b \in 1 - 1 .. Len(w) /\ b - 1 + 1 = b
        /\ 1 \in 1 .. b - 1 + 2 /\ a \in 1 - 1 .. b - 1 + 1
        /\ 1 + 1 - 1 = 1 /\ 1 + a - 1 = a
    BY LenProperties
  <1>2. SubSeq(w, 1, b) \in Seq(S) /\ Len(SubSeq(w, 1, b)) = b
    BY <1>1, SliceType
  <1>3. SubSeq(SubSeq(w, 1, b), 1, a) = SubSeq(w, 1 + 1 - 1, 1 + a - 1)
    BY ONLY w \in Seq(S), <1>1, SliceOfSlice
  <1>. QED  BY <1>1, <1>2, <1>3

(* What the target has is what the application sent, up to some point, and   *)
(* the other way round.                                                      *)
LEMMA OutIsPrefix ==
  ASSUME Hand, Up, Down
  PROVE  /\ toTarget = SubSeq(AppStream, 1, Len(toTarget)) /\ appSent <= Len(AppStream)
         /\ AppGot = SubSeq(TargetStream, 1, Len(AppGot)) /\ targetSent <= Len(TargetStream)
  <1>1. IsSlice(AppStream, toTarget, 0, Len(toTarget)) /\ IsSlice(TargetStream, AppGot, 0, Len(AppGot))
    BY DEF Up, Down, Line
  <1>2. appSent <= Len(AppStream) /\ targetSent <= Len(TargetStream)
    BY UpTypes, DownTypes DEF Hand, ProxyTypes
  <1>3. 0 + 1 = 1
    OBVIOUS
  <1>. QED  BY <1>1, <1>2, <1>3 DEF IsSlice

(* Either end has a beginning of what the other has sent. *)
Prefixes ==
  /\ toTarget = SubSeq(AppStream, 1, Len(toTarget)) /\ appSent <= Len(AppStream)
  /\ AppGot = SubSeq(TargetStream, 1, Len(AppGot)) /\ targetSent <= Len(TargetStream)

(* A step of the relay is a step of the upward stream, or none, ... *)
LEMMA UpStepRefines ==
  ASSUME Lines, Bounds, Prefixes, Bounds', Prefixes', appSent \in Nat, appSent' \in Nat, [ProxyNext]_proxyVars
  PROVE  [AppToTarget!Next]_(AppToTarget!streamVars)
  <1>0. Hand /\ Up /\ AppStream \in Seq(AppData)
    BY UpTypes DEF Lines
  <1>b. /\ Len(toTarget') \in Nat /\ Len(toTarget) \in Nat
        /\ Len(toTarget') <= appSent' /\ Len(toTarget) <= appSent
        /\ appSent <= Len(AppStream) /\ appSent' <= Len(AppStream)
    BY DEF Bounds, Prefixes
  <1>1. CASE AppSends
    <2>1. /\ appSent' = appSent + 1 /\ UNCHANGED <<toTarget, fin>> /\ "a2c" \notin fin
      BY <1>1 DEF AppSends
    <2>2. appSent <= appSent'
      BY <2>1
    <2>3. /\ SubSeq(AppStream, 1, appSent') \in Seq(AppData) /\ Len(SubSeq(AppStream, 1, appSent')) = appSent'
          /\ SubSeq(AppStream, 1, appSent) = SubSeq(SubSeq(AppStream, 1, appSent'), 1, appSent)
      BY ONLY <1>0, <1>b, <2>2, appSent \in Nat, appSent' \in Nat, PrefixOfPrefix
    <2>4. Len(SubSeq(AppStream, 1, appSent)) = appSent
      <3>1. appSent <= appSent
        OBVIOUS
      <3>. QED  BY ONLY <1>0, <1>b, <3>1, appSent \in Nat, PrefixOfPrefix
    <2>5. AppToTarget!Send
      BY <2>1, <2>2, <2>3, <2>4 DEF AppToTarget!Send, AppData
    <2>. QED  BY <2>5 DEF AppToTarget!Next
  <1>2. CASE AppHangsUp
    <2>1. AppToTarget!Finish
      BY <1>2 DEF AppHangsUp, AppToTarget!Finish, endVars
    <2>. QED  BY <2>1 DEF AppToTarget!Next
  <1>3. CASE ~AppSends /\ ~AppHangsUp
    <2>1. UNCHANGED appSent /\ ("a2c" \in fin' <=> "a2c" \in fin)
      BY <1>0, <1>3, OuterEnds
    <2>2. Len(toTarget) <= Len(toTarget')
      <3>1. CASE UNCHANGED toTarget
        <4>1. \A x \in Nat : x <= x
          OBVIOUS
        <4>. QED  BY <1>b, <3>1, <4>1, Zenon
      <3>2. CASE CopyWrites("sUp") /\ ~UNCHANGED toTarget
        <4>1. "sUp" \in Copier
          BY SourcesAre
        <4>2. toTarget' = toTarget \o held["sUp"]
          BY <1>0, <3>2, <4>1, WritesOn
        <4>3. Len(toTarget \o held["sUp"]) = Len(toTarget) + Len(held["sUp"]) /\ Len(held["sUp"]) \in Nat
          BY <1>0, UpTypes, ConcatProperties, LenProperties
        <4>4. \A x, y \in Nat : x <= x + y
          OBVIOUS
        <4>. QED  BY <1>b, <4>2, <4>3, <4>4, Zenon
      <3>. QED  BY <1>0, <3>1, <3>2, OuterEnds
    <2>3. /\ Len(SubSeq(AppStream, 1, appSent)) = appSent
          /\ toTarget' = SubSeq(SubSeq(AppStream, 1, appSent), 1, Len(toTarget'))
      <3>1. Len(toTarget') <= appSent
        BY <1>b, <2>1
      <3>2. SubSeq(AppStream, 1, Len(toTarget')) = SubSeq(SubSeq(AppStream, 1, appSent), 1, Len(toTarget'))
            /\ Len(SubSeq(AppStream, 1, appSent)) = appSent
        BY ONLY <1>0, <1>b, <3>1, appSent \in Nat, PrefixOfPrefix
      <3>3. toTarget' = SubSeq(AppStream, 1, Len(toTarget'))
        BY DEF Prefixes
      <3>. QED  BY <3>2, <3>3
    <2>4. Len(toTarget') \in Len(toTarget) .. appSent
      BY <1>b, <2>1, <2>2
    <2>5. AppToTarget!Deliver
      <3>1. UNCHANGED <<SubSeq(AppStream, 1, appSent), "a2c" \in fin>>
        BY <2>1
      <3>2. \E n \in Len(toTarget) .. Len(SubSeq(AppStream, 1, appSent)) :
              toTarget' = SubSeq(SubSeq(AppStream, 1, appSent), 1, n)
        BY ONLY <2>3, <2>4, Zenon
      <3>. QED  BY ONLY <3>1, <3>2 DEF AppToTarget!Deliver
    <2>. QED  BY <2>5 DEF AppToTarget!Next
  <1>. QED  BY <1>1, <1>2, <1>3

(* ... and a step of the downward one, or none. *)
LEMMA DownStepRefines ==
  ASSUME Lines, Bounds, Prefixes, Lines', Bounds', Prefixes', [ProxyNext]_proxyVars
  PROVE  [TargetToApp!Next]_(TargetToApp!streamVars)
  <1>0. Hand /\ Hand' /\ Down /\ TargetStream \in Seq(TargetData)
    BY DownTypes DEF Lines
  <1>b. /\ Len(AppGot') \in Nat /\ Len(AppGot) \in Nat /\ Len(AppGot) <= Len(AppGot')
        /\ Len(AppGot') <= targetSent' /\ targetSent \in Nat /\ targetSent' \in Nat
        /\ targetSent <= Len(TargetStream) /\ targetSent' <= Len(TargetStream)
    BY <1>0, DownStays DEF Bounds, Prefixes
  <1>1. CASE TargetSends
    <2>1. /\ targetSent' = targetSent + 1 /\ UNCHANGED <<toApp, fin>> /\ "t2s" \notin fin
      BY <1>1 DEF TargetSends
    <2>2. targetSent <= targetSent'
      BY <1>b, <2>1
    <2>3. /\ SubSeq(TargetStream, 1, targetSent') \in Seq(TargetData) /\ Len(SubSeq(TargetStream, 1, targetSent')) = targetSent'
          /\ SubSeq(TargetStream, 1, targetSent) = SubSeq(SubSeq(TargetStream, 1, targetSent'), 1, targetSent)
      BY ONLY <1>0, <1>b, <2>2, PrefixOfPrefix
    <2>4. Len(SubSeq(TargetStream, 1, targetSent)) = targetSent
      <3>1. targetSent <= targetSent
        BY <1>b
      <3>. QED  BY ONLY <1>0, <1>b, <3>1, PrefixOfPrefix
    <2>5. AppGot' = AppGot
      BY <2>1 DEF AppGot, Succeeded
    <2>6. TargetToApp!Send
      BY <2>1, <2>2, <2>3, <2>4, <2>5 DEF TargetToApp!Send, TargetData
    <2>. QED  BY <2>6 DEF TargetToApp!Next
  <1>2. CASE TargetHangsUp
    <2>1. AppGot' = AppGot
      BY <1>2 DEF AppGot, Succeeded, TargetHangsUp, endVars
    <2>2. TargetToApp!Finish
      BY <1>2, <2>1 DEF TargetHangsUp, TargetToApp!Finish, endVars
    <2>. QED  BY <2>2 DEF TargetToApp!Next
  <1>3. CASE ~TargetSends /\ ~TargetHangsUp
    <2>1. UNCHANGED targetSent /\ ("t2s" \in fin' <=> "t2s" \in fin)
      BY <1>0, <1>3, OuterEnds
    <2>2. /\ Len(SubSeq(TargetStream, 1, targetSent)) = targetSent
          /\ AppGot' = SubSeq(SubSeq(TargetStream, 1, targetSent), 1, Len(AppGot'))
      <3>1. Len(AppGot') <= targetSent
        BY <1>b, <2>1
      <3>2. SubSeq(TargetStream, 1, Len(AppGot')) = SubSeq(SubSeq(TargetStream, 1, targetSent), 1, Len(AppGot'))
            /\ Len(SubSeq(TargetStream, 1, targetSent)) = targetSent
        BY ONLY <1>0, <1>b, <3>1, PrefixOfPrefix
      <3>3. AppGot' = SubSeq(TargetStream, 1, Len(AppGot'))
        BY DEF Prefixes
      <3>. QED  BY <3>2, <3>3
    <2>3. Len(AppGot') \in Len(AppGot) .. targetSent
      BY <1>b, <2>1
    <2>4. TargetToApp!Deliver
      <3>1. UNCHANGED <<SubSeq(TargetStream, 1, targetSent), "t2s" \in fin>>
        BY <2>1
      <3>2. \E n \in Len(AppGot) .. Len(SubSeq(TargetStream, 1, targetSent)) :
              AppGot' = SubSeq(SubSeq(TargetStream, 1, targetSent), 1, n)
        BY ONLY <2>2, <2>3, Zenon
      <3>. QED  BY ONLY <3>1, <3>2 DEF TargetToApp!Deliver
    <2>. QED  BY <2>4 DEF TargetToApp!Next
  <1>. QED  BY <1>1, <1>2, <1>3

(* Both streams are empty at first. *)
LEMMA StreamsAtFirst == ProxyInit => AppToTarget!Init /\ TargetToApp!Init
  <1> SUFFICES ASSUME ProxyInit PROVE AppToTarget!Init /\ TargetToApp!Init
    OBVIOUS
  <1>1. AppGot = <<>> /\ toTarget = <<>> /\ "a2c" \notin fin /\ "t2s" \notin fin /\ appSent = 0 /\ targetSent = 0
    BY DEF ProxyInit, AppGot, Succeeded
  <1>2. 1 \in Int /\ 0 \in Int /\ 0 < 1
    OBVIOUS
  <1>3. SubSeq(AppStream, 1, 0) = <<>> /\ SubSeq(TargetStream, 1, 0) = <<>>
    BY <1>2, SubSeqEmpty
  <1>. QED  BY <1>1, <1>3 DEF AppToTarget!Init, TargetToApp!Init

(* Both directions of a relay are reliable streams between the application   *)
(* and the target, over the framed handshake, the two handlers and their     *)
(* four copies: no frame leaks into them, and nothing comes twice, out of    *)
(* order or behind a gap.                                                    *)
THEOREM RelayIsTwoStreams == ProxySpec => RelayIsStream
  <1>1. PInv => Lines /\ Bounds /\ Prefixes /\ appSent \in Nat
    BY OutIsPrefix, UpTypes DEF PInv, Lines, Prefixes
  <1>2. /\ Lines /\ Bounds /\ Prefixes /\ appSent \in Nat
        /\ (Lines /\ Bounds /\ Prefixes /\ appSent \in Nat)'
        /\ [ProxyNext]_proxyVars
        => /\ [AppToTarget!Next]_(AppToTarget!streamVars)
           /\ [TargetToApp!Next]_(TargetToApp!streamVars)
    BY UpStepRefines, DownStepRefines
  <1>. QED  BY <1>1, <1>2, PInvHolds, StreamsAtFirst, PTL
            DEF ProxySpec, RelayIsStream, AppToTarget!Spec, TargetToApp!Spec
=============================================================================
