---------------------------- MODULE TunnelProofs -----------------------------
(***************************************************************************)
(* Proofs about a tunnel over several sessions (Tunnel) and the datagrams  *)
(* relayed through one (UDPRelay), for any number of sessions, restarts,   *)
(* handshake chunks, destinations, sockets and replies.                    *)
(***************************************************************************)
EXTENDS Tunnel, UDPRelay, TLAPS

(***************************************************************************)
(* The UDP relay.  A datagram goes out by a socket whose replies are read, *)
(* since Run, the readers and cleanup keep the entry of the map, the       *)
(* socket and the reader together, but for a reader that left after a      *)
(* reply it could not write; and the three Writes of a frame stay    *)
(* together, since whoever writes holds the lock and a Write that fails is *)
(* the end of the tunnel.                                                  *)
(***************************************************************************)

(* The UDP relay: sockets are numbered as they are made, and have a          *)
(* destination from then on.                                                 *)
RelayTypes ==
  /\ conns \in [Dests -> (1 .. made) \cup {None}]
  /\ made \in 0 .. MaxSock
  /\ dest \in Seq(Dests) /\ Len(dest) = made
  /\ open \subseteq 1 .. made
  /\ job \in Dests /\ uc \in (1 .. made) \cup {None}
  /\ reader \in [Sock -> {"none", "read", "reply", "write", "failed", "close", "done", "left"}]
  /\ tunnel \in BOOLEAN

(* Where Run is tells what it holds: an entry it looked up, or a socket of   *)
(* its own that nobody else knows yet.                                       *)
RunOK ==
  /\ run = "send" => uc # None
  /\ run = "store" => uc \in open /\ dest[uc] = job /\ reader[uc] = "none"
(* A socket not made yet has no reader. *)
Unstarted == \A k \in Sock : k > made => reader[k] = "none"

(* An entry of the map is served, with all that depends on. *)
RelayInv == RelayTypes /\ RunOK /\ Unstarted /\ EntryServed

(* The writer of a frame holds the lock and nobody else writes.  While the   *)
(* tunnel works the wire ends with the parts the holder has written.         *)
WireTypes ==
  /\ part \in [Sock -> 0 .. 2]
  /\ lock \in Sock \cup {None}
  /\ wire \in Seq(Sock \X (1 .. 3))
(* Whoever writes holds the lock, and the other way round. *)
Exclusive == \A k \in Sock : reader[k] = "write" <=> lock = k
(* While the tunnel works, the wire ends with the parts the holder has       *)
(* written.                                                                  *)
WireEnds ==
  tunnel =>
    /\ \A k \in Sock : lock # k => part[k] = 0
    /\ Len(wire) % 3 = IF lock = None THEN 0 ELSE part[lock]
    /\ lock # None /\ part[lock] > 0 => wire[Len(wire)][1] = lock

(* The wire holds whole frames, with all that depends on. *)
WireInv == RelayTypes /\ WireTypes /\ Exclusive /\ WireEnds /\ FramesWhole

----------------------------------------------------------------------------
(* Both hold at first. *)
LEMMA RelayInvInit == UDPInit => RelayInv /\ WireInv
  <1>1. SUFFICES ASSUME UDPInit PROVE RelayInv /\ WireInv
    OBVIOUS
  <1>2. made = 0 /\ dest = <<>> /\ open = {} /\ wire = <<>> /\ tunnel = TRUE
    BY <1>1 DEF UDPInit
  <1>3. conns \in [Dests -> (1 .. made) \cup {None}]
    BY <1>1 DEF UDPInit
  <1>4. /\ made \in 0 .. MaxSock /\ dest \in Seq(Dests) /\ Len(dest) = made
        /\ open \subseteq 1 .. made
    BY <1>2, MaxSockAssumption
  <1>5. RelayTypes
    BY <1>1, <1>2, <1>3, <1>4 DEF UDPInit, RelayTypes
  <1>6. RunOK /\ Unstarted /\ EntryServed
    BY <1>1 DEF UDPInit, RunOK, Unstarted, EntryServed, EntryOK, SendOK
  <1>7. WireTypes /\ Exclusive
    BY <1>1, NoneAssumption DEF UDPInit, WireTypes, Exclusive
  <1>8. WireEnds /\ FramesWhole
    BY <1>1, <1>2 DEF UDPInit, WireEnds, FramesWhole
  <1>. QED  BY <1>5, <1>6, <1>7, <1>8 DEF RelayInv, WireInv

(* Run: what it looks up, opens and stores. *)
LEMMA RunKeepsRelayInv ==
  ASSUME RelayInv, RunStep \/ RunEnds \/ \E h \in Hosts : ReadMessage(h)
  PROVE  RelayInv'
  <1>1. tunnel' = tunnel /\ tunnel \in BOOLEAN
    BY DEF RunStep, RunEnds, ReadMessage, Look, Dial, DialFails, Store, Send, SendFails,
           RelayInv, RelayTypes
  <1>2. CASE Dial
    <2>1. /\ run = "dial" /\ run' = "store" /\ made < MaxSock /\ made' = made + 1
          /\ dest' = Append(dest, job) /\ open' = open \cup {made'} /\ uc' = made'
          /\ UNCHANGED <<conns, job, reader>>
      BY <1>2 DEF Dial
    <2>2. /\ made \in Nat /\ made' \in 0 .. MaxSock /\ made' \in Sock
          /\ 1 .. made \subseteq 1 .. made' /\ made' \in 1 .. made'
      BY <2>1, MaxSockAssumption DEF RelayInv, RelayTypes, Sock
    <2>3. /\ dest' \in Seq(Dests) /\ Len(dest') = made' /\ dest'[made'] = job
          /\ \A k \in 1 .. made : dest'[k] = dest[k]
      BY <2>1, <2>2 DEF RelayInv, RelayTypes
    <2>4. conns' \in [Dests -> (1 .. made') \cup {None}]
      <3>1. conns \in [Dests -> (1 .. made) \cup {None}]
        BY DEF RelayInv, RelayTypes
      <3>. QED  BY <3>1, <2>1, <2>2
    <2>5. RelayTypes'
      BY <1>1, <2>1, <2>2, <2>3, <2>4 DEF RelayInv, RelayTypes
    <2>6. RunOK' /\ Unstarted'
      BY <1>1, <2>1, <2>2, <2>3 DEF RelayInv, RelayTypes, RunOK, Unstarted, Sock
    <2>7. EntryServed'
      BY <1>1, <2>1, <2>2, <2>3 DEF RelayInv, RelayTypes, EntryServed, EntryOK, SendOK, Served
    <2>. QED  BY <2>5, <2>6, <2>7 DEF RelayInv
  <1>3. CASE Store
    <2>1. /\ run = "store" /\ run' = "send"
          /\ conns' = [conns EXCEPT ![job] = uc] /\ reader' = [reader EXCEPT ![uc] = "read"]
          /\ UNCHANGED <<made, dest, open, job, uc>>
      BY <1>3 DEF Store
    <2>2. uc \in open /\ uc \in 1 .. made /\ uc \in Sock /\ uc # None
          /\ dest[uc] = job /\ reader[uc] = "none" /\ job \in Dests
      BY <2>1, NoneAssumption, MaxSockAssumption DEF RelayInv, RelayTypes, RunOK, Sock
    <2>3. RelayTypes'
      BY <1>1, <2>1, <2>2 DEF RelayInv, RelayTypes
    <2>4. RunOK' /\ Unstarted'
      BY <1>1, <2>1, <2>2 DEF RelayInv, RelayTypes, RunOK, Unstarted
    <2>5. \A k \in Sock : k # uc => reader'[k] = reader[k]
      BY <2>1, <2>2 DEF RelayInv, RelayTypes
    <2>6. reader'[uc] = "read"
      BY <2>1, <2>2 DEF RelayInv, RelayTypes
    <2>7. EntryServed'
      <3>1. SendOK'
        BY <2>1, <2>2, <2>6 DEF SendOK, Served
      <3>2. ASSUME NEW d \in Dests, conns'[d] # None, d # job
            PROVE  EntryOK(d)'
        <4>1. conns'[d] = conns[d] /\ conns[d] \in 1 .. made /\ conns[d] \in Sock
          BY <3>2, <2>1, MaxSockAssumption DEF RelayInv, RelayTypes, Sock
        <4>2. /\ conns[d] \in open /\ dest[conns[d]] = d /\ Served(conns[d])
              /\ reader[conns[d]] # "close" /\ reader[conns[d]] # "none"
          BY <3>2, <4>1 DEF RelayInv, EntryServed, EntryOK, Served
        <4>3. reader'[conns[d]] = reader[conns[d]]
          BY <4>1, <4>2, <2>2, <2>5
        <4>. QED  BY <1>1, <2>1, <4>1, <4>2, <4>3 DEF EntryOK, Served
      <3>3. EntryOK(job)'
        BY <2>1, <2>2, <2>6 DEF RelayInv, RelayTypes, EntryOK, Served
      <3>4. ASSUME NEW d \in Dests PROVE EntryOK(d)'
        <4>1. CASE conns'[d] = None
          BY <4>1 DEF EntryOK
        <4>2. CASE d = job
          BY <3>3, <4>2, <2>1 DEF EntryOK
        <4>. QED  BY <3>2, <4>1, <4>2
      <3>. QED  BY <3>1, <3>4 DEF EntryServed
    <2>. QED  BY <2>3, <2>4, <2>7 DEF RelayInv
  <1>4. CASE Look \/ DialFails \/ Send \/ SendFails \/ RunEnds \/ \E h \in Hosts : ReadMessage(h)
    <2>1. UNCHANGED <<conns, made, dest, open, reader>>
      BY <1>4 DEF Look, DialFails, Send, SendFails, RunEnds, ReadMessage, mapVars
    <2>2. job' \in Dests
      BY <1>4 DEF Look, DialFails, Send, SendFails, RunEnds, ReadMessage, Dests, RelayInv, RelayTypes
    <2>3. uc' \in (1 .. made) \cup {None}
      BY <1>4 DEF Look, DialFails, Send, SendFails, RunEnds, ReadMessage, RelayInv, RelayTypes
    <2>4. RelayTypes'
      BY <1>1, <2>1, <2>2, <2>3 DEF RelayInv, RelayTypes
    <2>5. RunOK'
      BY <1>1, <1>4 DEF Look, DialFails, Send, SendFails, RunEnds, ReadMessage, RelayInv, RunOK
    <2>6. Unstarted'
      BY <2>1 DEF RelayInv, Unstarted
    <2>7. run' = "send" => uc' = conns[job] /\ conns[job] # None /\ job' = job
      BY <1>4 DEF Look, DialFails, Send, SendFails, RunEnds, ReadMessage
    <2>8. job \in Dests
      BY DEF RelayInv, RelayTypes
    <2>9. \A d \in Dests : EntryOK(d)'
      BY <1>1, <2>1 DEF RelayInv, EntryServed, EntryOK, Served
    <2>10. SendOK'
      BY <1>1, <2>1, <2>7, <2>8 DEF RelayInv, EntryServed, EntryOK, SendOK, Served
    <2>. QED  BY <2>4, <2>5, <2>6, <2>9, <2>10 DEF RelayInv, EntryServed, EntryOK, SendOK
  <1>. QED  BY <1>2, <1>3, <1>4 DEF RunStep

(* The reader of socket k.  It leaves the map before it closes its socket.   *)
LEMMA ReaderKeepsRelayInv ==
  ASSUME RelayInv, NEW k \in Sock, Reply(k) \/ ReaderStep(k) \/ TooLarge(k)
  PROVE  RelayInv'
  <1>1. /\ reader[k] \in {"read", "reply", "write", "failed", "close"}
        /\ UNCHANGED <<made, dest, run, job, uc, tunnel>>
    BY DEF Reply, ReaderStep, ReadFails, Forget, CloseSocket, Lock, WritePart, TooLarge,
           WriteFails, mapVars, runVars
  <1>2. k \in 1 .. made
    BY <1>1, MaxSockAssumption DEF RelayInv, RelayTypes, Unstarted, Sock
  <1>3. PICK place \in {"read", "reply", "write", "failed", "close", "done", "left"} :
          reader' = [reader EXCEPT ![k] = place]
    <2>1. reader = [reader EXCEPT ![k] = reader[k]]
      BY DEF RelayInv, RelayTypes
    <2>. QED  BY <1>1, <2>1 DEF Reply, ReaderStep, ReadFails, Forget, CloseSocket, Lock,
                                WritePart, TooLarge, WriteFails
  <1>4. \A j \in Sock : j # k => reader'[j] = reader[j]
    BY <1>3 DEF RelayInv, RelayTypes
  <1>5. Unstarted'
    BY <1>1, <1>2, <1>4 DEF RelayInv, RelayTypes, Unstarted, Sock
  <1>6. \A d \in Dests : conns[d] # None => conns[d] \in Sock /\ conns[d] \in 1 .. made
    BY MaxSockAssumption DEF RelayInv, RelayTypes, Sock
  <1>7. reader' \in [Sock -> {"none", "read", "reply", "write", "failed", "close", "done", "left"}]
    BY <1>3 DEF RelayInv, RelayTypes
  <1>8. \A j \in Sock : j # k /\ Served(j) => Served(j)'
    BY <1>1, <1>4 DEF Served
  <1>9. uc \in open => uc \in Sock
    BY MaxSockAssumption DEF RelayInv, RelayTypes, Sock
  <1>10. CASE Forget(k)
    <2>1. /\ conns' = [conns EXCEPT ![dest[k]] = None] /\ open' = open
          /\ dest[k] \in Dests
      BY <1>10, <1>2 DEF Forget, RelayInv, RelayTypes
    <2>2. RelayTypes'
      BY <1>1, <1>7, <2>1 DEF RelayInv, RelayTypes
    <2>3. reader[k] = "failed" /\ reader'[k] = "close"
      BY <1>10 DEF Forget, RelayInv, RelayTypes
    <2>4. RunOK'
      BY <1>1, <1>4, <1>9, <2>1, <2>3 DEF RelayInv, RunOK
    <2>5. \A d \in Dests : conns'[d] # None => conns'[d] = conns[d] /\ conns[d] # k
      BY <2>1 DEF RelayInv, RelayTypes, EntryServed, EntryOK, SendOK
    <2>6. Served(k)'
      BY <2>3 DEF Served
    <2>7. EntryServed'
      BY <1>1, <1>4, <1>6, <1>8, <1>9, <2>1, <2>5, <2>6 DEF RelayInv, EntryServed, EntryOK, SendOK
    <2>. QED  BY <1>5, <2>2, <2>4, <2>7 DEF RelayInv
  <1>11. CASE CloseSocket(k)
    <2>1. conns' = conns /\ open' = open \ {k} /\ reader[k] = "close"
      BY <1>11 DEF CloseSocket
    <2>2. \A d \in Dests : conns[d] # None => conns[d] # k
      BY <2>1 DEF RelayInv, EntryServed, EntryOK, SendOK
    <2>3. RelayTypes'
      BY <1>1, <1>7, <2>1 DEF RelayInv, RelayTypes
    <2>4. RunOK'
      BY <1>1, <1>4, <1>9, <2>1 DEF RelayInv, RunOK
    <2>5. EntryServed'
      BY <1>1, <1>4, <1>6, <1>8, <1>9, <2>1, <2>2 DEF RelayInv, EntryServed, EntryOK, SendOK
    <2>. QED  BY <1>5, <2>3, <2>4, <2>5 DEF RelayInv
  <1>12. CASE \/ Reply(k) \/ ReadFails(k) \/ Lock(k) \/ WritePart(k)
              \/ TooLarge(k) \/ WriteFails(k)
    <2>1. /\ UNCHANGED <<conns, open>>
          /\ reader[k] \in {"read", "reply", "write"}
          /\ \/ reader'[k] \in {"read", "reply", "write", "failed"}
             \/ reader'[k] = "left" /\ (tunnel' => dest'[k] \notin IPv4Dests)
      BY <1>1, <1>12 DEF Reply, ReadFails, Lock, WritePart, TooLarge, WriteFails, RelayInv,
                         RelayTypes, mapVars
    <2>2. RelayTypes'
      BY <1>1, <1>7, <2>1 DEF RelayInv, RelayTypes
    <2>3. RunOK'
      BY <1>1, <1>4, <1>9, <2>1 DEF RelayInv, RunOK
    <2>4. Served(k)' /\ reader'[k] # "close"
      BY <2>1 DEF Served
    <2>5. EntryServed'
      BY <1>1, <1>4, <1>6, <1>8, <1>9, <2>1, <2>4 DEF RelayInv, EntryServed, EntryOK, SendOK
    <2>. QED  BY <1>5, <2>2, <2>3, <2>5 DEF RelayInv
  <1>. QED  BY <1>10, <1>11, <1>12 DEF ReaderStep

(* The cleanup loop, the end of the tunnel, and time. *)
LEMMA SweepKeepsRelayInv ==
  ASSUME RelayInv, Cleanup \/ Close \/ TunnelCloses \/ \E k \in Sock : Age(k)
  PROVE  RelayInv'
  <1>1. UNCHANGED <<made, dest, job, uc, reader>>
    BY DEF Cleanup, Close, TunnelCloses, Age, mapVars, runVars
  <1>2. CASE Cleanup
    <2>1. PICK stale \in SUBSET Dests :
            /\ open' = open \ {conns[d] : d \in stale}
            /\ conns' = [d \in Dests |-> IF d \in stale THEN None ELSE conns[d]]
            /\ UNCHANGED <<run, tunnel>>
      <3>1. {d \in Dests : conns[d] \in idle} \in SUBSET Dests
        OBVIOUS
      <3>. QED  BY <1>2, <3>1 DEF Cleanup, Remove, runVars
    <2>2. RelayTypes'
      BY <1>1, <2>1 DEF RelayInv, RelayTypes
    <2>3. EntryServed'
      BY <1>1, <2>1 DEF RelayInv, EntryServed, EntryOK, SendOK, Served
    <2>4. run' = "store" => uc \in open'
      <3>1. SUFFICES ASSUME run' = "store" PROVE uc \in open'
        OBVIOUS
      <3>2. uc \in open /\ reader[uc] = "none"
        BY <2>1, <3>1 DEF RelayInv, RunOK
      <3>3. uc # None
        BY <3>2, NoneAssumption, MaxSockAssumption DEF RelayInv, RelayTypes, Sock
      <3>4. ASSUME NEW d \in Dests PROVE conns[d] # uc
        BY <3>2, <3>3 DEF RelayInv, EntryServed, EntryOK, Served
      <3>. QED  BY <2>1, <3>2, <3>4
    <2>5. RunOK'
      BY <1>1, <2>1, <2>4 DEF RelayInv, RunOK
    <2>6. Unstarted'
      BY <1>1 DEF RelayInv, Unstarted
    <2>. QED  BY <2>2, <2>3, <2>5, <2>6 DEF RelayInv
  <1>3. CASE Close
    <2>1. /\ open' \subseteq open /\ conns' = [d \in Dests |-> None]
          /\ run = "ended" /\ run' = "closed" /\ tunnel' = tunnel
      BY <1>3 DEF Close
    <2>2. RelayTypes' /\ EntryServed'
      BY <1>1, <2>1 DEF RelayInv, RelayTypes, EntryServed, EntryOK, SendOK
    <2>. QED  BY <1>1, <2>1, <2>2 DEF RelayInv, RunOK, Unstarted
  <1>4. CASE TunnelCloses \/ \E k \in Sock : Age(k)
    <2>1. /\ UNCHANGED <<conns, open, run>>
          /\ tunnel' = tunnel \/ tunnel' = FALSE
      BY <1>4 DEF TunnelCloses, Age, mapVars, runVars
    <2>2. RelayTypes' /\ RunOK' /\ Unstarted'
      BY <1>1, <2>1 DEF RelayInv, RelayTypes, RunOK, Unstarted
    <2>3. EntryServed'
      BY <1>1, <2>1 DEF RelayInv, RelayTypes, EntryServed, EntryOK, SendOK, Served
    <2>. QED  BY <2>2, <2>3 DEF RelayInv
  <1>. QED  BY <1>2, <1>3, <1>4

(* No step of the relay leaves an entry unserved. *)
LEMMA StepKeepsRelayInv == RelayInv /\ [UDPNext]_udpVars => RelayInv'
  <1>1. SUFFICES ASSUME RelayInv, [UDPNext]_udpVars PROVE RelayInv'
    OBVIOUS
  <1>2. CASE UNCHANGED udpVars
    BY <1>1, <1>2 DEF RelayInv, RelayTypes, RunOK, Unstarted, EntryServed, EntryOK, SendOK,
                      Served, udpVars, mapVars, runVars
  <1>. QED  BY <1>1, <1>2, RunKeepsRelayInv, ReaderKeepsRelayInv, SweepKeepsRelayInv DEF UDPNext

----------------------------------------------------------------------------
(* The next of the three parts of a frame. *)
LEMMA NextPart ==
  ASSUME NEW n \in Nat
  PROVE  /\ (n % 3) + 1 < 3 => (n + 1) % 3 = (n % 3) + 1
         /\ (n % 3) + 1 = 3 => (n + 1) % 3 = 0
  OBVIOUS

(* One more Write of the holder of the lock. *)
LEMMA WriteKeepsFrames ==
  ASSUME WireInv, NEW k \in Sock, WritePart(k)
  PROVE  /\ wire' \in Seq(Sock \X (1 .. 3)) /\ Len(wire') = Len(wire) + 1
         /\ wire'[Len(wire')] = <<k, part[k] + 1>>
         /\ part[k] = Len(wire) % 3 /\ part[k] \in 0 .. 2 /\ Len(wire) \in Nat
         /\ FramesWhole'
  <1>1. /\ reader[k] = "write" /\ tunnel /\ wire' = Append(wire, <<k, part[k] + 1>>)
    BY DEF WritePart
  <1>2. lock = k /\ k # None /\ part[k] \in 0 .. 2
    BY <1>1, NoneAssumption DEF WireInv, WireTypes, Exclusive
  <1>3. /\ Len(wire) % 3 = part[k]
        /\ part[k] > 0 => wire[Len(wire)][1] = k
    BY <1>1, <1>2 DEF WireInv, WireEnds
  <1>4. Len(wire) \in Nat /\ <<k, part[k] + 1>> \in Sock \X (1 .. 3)
    BY <1>2 DEF WireInv, WireTypes
  <1>5. /\ wire' \in Seq(Sock \X (1 .. 3)) /\ Len(wire') = Len(wire) + 1
        /\ wire'[Len(wire) + 1] = <<k, part[k] + 1>>
        /\ \A i \in 1 .. Len(wire) : wire'[i] = wire[i]
    BY <1>1, <1>4 DEF WireInv, WireTypes
  <1>6. FramesWhole'
    <2>1. SUFFICES ASSUME NEW i \in 1 .. Len(wire) + 1
                   PROVE  /\ wire'[i][2] = ((i - 1) % 3) + 1
                          /\ wire'[i][2] > 1 => wire'[i][1] = wire'[i - 1][1]
      BY <1>5 DEF FramesWhole, Parts
    <2>2. CASE i = Len(wire) + 1
      <3>1. wire'[i][2] = part[k] + 1 /\ wire'[i][1] = k /\ i - 1 = Len(wire)
        BY <2>2, <1>4, <1>5
      <3>2. part[k] > 0 => i - 1 \in 1 .. Len(wire)
        BY <2>2, <1>2, <1>3, <1>4
      <3>3. wire'[i][2] = ((i - 1) % 3) + 1
        BY <3>1, <1>3, Zenon
      <3>4. ASSUME wire'[i][2] > 1 PROVE wire'[i][1] = wire'[i - 1][1]
        <4>1. part[k] > 0
          BY <3>4, <3>1, <1>2
        <4>2. wire'[i - 1] = wire[i - 1]
          BY <4>1, <3>2, <1>5, Zenon
        <4>3. wire[i - 1][1] = k
          BY <4>1, <3>1, <1>3, Zenon
        <4>. QED  BY <3>1, <4>2, <4>3, Zenon
      <3>. QED  BY <3>3, <3>4, Zenon
    <2>3. CASE i # Len(wire) + 1
      <3>1. i \in 1 .. Len(wire)
        BY <2>3, <1>4
      <3>2. /\ wire[i][2] = ((i - 1) % 3) + 1
            /\ wire[i][2] > 1 => wire[i][1] = wire[i - 1][1]
        BY <3>1 DEF WireInv, FramesWhole, Parts
      <3>3. wire[i][2] > 1 => i - 1 \in 1 .. Len(wire)
        BY <3>1, <3>2, <1>4
      <3>. QED  BY <3>1, <3>2, <3>3, <1>5
    <2>. QED  BY <2>2, <2>3
  <1>. QED  BY <1>3, <1>2, <1>4, <1>5, <1>6

(* A Write leaves the lock with the writer until its frame is whole. *)
LEMMA WritePartKeepsWireInv ==
  ASSUME WireInv, RelayTypes', NEW k \in Sock, WritePart(k)
  PROVE  WireInv'
  <1>1. /\ reader[k] = "write" /\ tunnel /\ tunnel' = tunnel
        /\ \/ /\ part[k] + 1 < 3
              /\ part' = [part EXCEPT ![k] = @ + 1]
              /\ UNCHANGED <<lock, reader>>
           \/ /\ part[k] + 1 = 3
              /\ part' = [part EXCEPT ![k] = 0]
              /\ lock' = None
              /\ reader' = [reader EXCEPT ![k] = "read"]
    BY DEF WritePart, Parts
  <1>2. lock = k /\ k # None
    BY <1>1, NoneAssumption DEF WireInv, WireTypes, Exclusive
  <1>3. /\ wire' \in Seq(Sock \X (1 .. 3)) /\ Len(wire') = Len(wire) + 1
        /\ wire'[Len(wire')] = <<k, part[k] + 1>>
        /\ part[k] = Len(wire) % 3 /\ part[k] \in 0 .. 2 /\ Len(wire) \in Nat
        /\ FramesWhole'
    BY WriteKeepsFrames
  <1>4. WireTypes'
    BY <1>1, <1>2, <1>3 DEF WireInv, WireTypes
  <1>5. Exclusive'
    BY <1>1, <1>2, NoneAssumption DEF WireInv, RelayTypes, Exclusive
  <1>6. /\ part[k] + 1 < 3 => (Len(wire) + 1) % 3 = part[k] + 1
        /\ part[k] + 1 = 3 => (Len(wire) + 1) % 3 = 0
    BY <1>3, NextPart
  <1>7. WireEnds'
    <2>1. \A j \in Sock : j # k => part[j] = 0 /\ part'[j] = 0
      BY <1>1, <1>2 DEF WireInv, WireTypes, WireEnds
    <2>2. wire'[Len(wire')][1] = k
      BY <1>3
    <2>3. CASE part[k] + 1 < 3
      <3>1. lock' = k /\ part'[k] = part[k] + 1
        BY <2>3, <1>1, <1>2 DEF WireInv, WireTypes
      <3>. QED  BY <2>1, <2>2, <2>3, <3>1, <1>2, <1>3, <1>6 DEF WireEnds
    <2>4. CASE part[k] + 1 = 3
      <3>1. lock' = None /\ part'[k] = 0
        BY <2>4, <1>1, <1>2 DEF WireInv, WireTypes
      <3>. QED  BY <2>1, <2>4, <3>1, <1>3, <1>6 DEF WireEnds
    <2>. QED  BY <2>3, <2>4, <1>3
  <1>. QED  BY <1>3, <1>4, <1>5, <1>7 DEF WireInv

(* No other step writes, and none takes the lock from a writer. *)
LEMMA StepKeepsWireInv ==
  RelayInv /\ RelayInv' /\ WireInv /\ [UDPNext]_udpVars => WireInv'
  <1>1. SUFFICES ASSUME RelayInv, RelayInv', WireInv, [UDPNext]_udpVars PROVE WireInv'
    OBVIOUS
  <1>2. RelayTypes'
    BY <1>1 DEF RelayInv
  <1>3. CASE \E k \in Sock : WritePart(k)
    BY <1>1, <1>2, <1>3, WritePartKeepsWireInv
  <1>4. CASE \E k \in Sock : Lock(k) \/ WriteFails(k)
    <2>1. PICK k \in Sock : Lock(k) \/ WriteFails(k)
      BY <1>4
    <2>2. /\ UNCHANGED <<part, wire, tunnel>>
          /\ \/ /\ lock = None /\ lock' = k /\ reader[k] = "reply"
                /\ reader' = [reader EXCEPT ![k] = "write"]
             \/ /\ reader[k] = "write" /\ ~tunnel /\ lock' = None
                /\ reader' = [reader EXCEPT ![k] = "left"]
      BY <2>1 DEF Lock, Unlocked, WriteFails
    <2>3. WireTypes' /\ FramesWhole'
      BY <1>1, <2>2 DEF WireInv, WireTypes, FramesWhole
    <2>4. Exclusive'
      BY <1>1, <2>2, NoneAssumption DEF WireInv, RelayTypes, Exclusive
    <2>5. WireEnds'
      BY <1>1, <2>2, NoneAssumption DEF WireInv, WireTypes, WireEnds
    <2>. QED  BY <1>2, <2>3, <2>4, <2>5 DEF WireInv
  <1>5. CASE Store
    <2>1. /\ run = "store" /\ reader' = [reader EXCEPT ![uc] = "read"]
          /\ UNCHANGED <<part, lock, wire, tunnel>>
      BY <1>5 DEF Store, writeVars
    <2>2. reader[uc] = "none" /\ uc \in Sock
      BY <1>1, <2>1 DEF RelayInv, RelayTypes, RunOK, Sock
    <2>3. Exclusive'
      BY <1>1, <2>1, <2>2 DEF WireInv, RelayTypes, Exclusive
    <2>. QED  BY <1>1, <1>2, <2>1, <2>3 DEF WireInv, WireTypes, WireEnds, FramesWhole
  <1>6. CASE \E k \in Sock : Reply(k) \/ ReadFails(k) \/ Forget(k) \/ CloseSocket(k) \/ TooLarge(k)
    <2>1. PICK k \in Sock : Reply(k) \/ ReadFails(k) \/ Forget(k) \/ CloseSocket(k) \/ TooLarge(k)
      BY <1>6
    <2>2. /\ UNCHANGED <<part, lock, wire, tunnel>>
          /\ reader[k] # "write"
          /\ \E p \in {"reply", "failed", "close", "done", "left"} :
               reader' = [reader EXCEPT ![k] = p]
      BY <2>1 DEF Reply, ReadFails, Forget, CloseSocket, TooLarge, writeVars
    <2>3. Exclusive'
      BY <1>1, <2>2 DEF WireInv, RelayTypes, Exclusive
    <2>. QED  BY <1>1, <1>2, <2>2, <2>3 DEF WireInv, WireTypes, WireEnds, FramesWhole
  <1>7. CASE \/ \E h \in Hosts : ReadMessage(h)
             \/ Look \/ Dial \/ DialFails \/ Send \/ SendFails \/ RunEnds
             \/ (\E k \in Sock : Age(k)) \/ Cleanup \/ Close \/ TunnelCloses
             \/ UNCHANGED udpVars
    <2>1. UNCHANGED <<part, lock, wire, reader>> /\ (tunnel' = tunnel \/ ~tunnel')
      BY <1>7 DEF ReadMessage, Look, Dial, DialFails, Send, SendFails, RunEnds, Age, Cleanup,
                  Close, TunnelCloses, writeVars, udpVars
    <2>. QED  BY <1>1, <1>2, <2>1 DEF WireInv, WireTypes, Exclusive, WireEnds, FramesWhole
  <1>. QED  BY <1>1, <1>3, <1>4, <1>5, <1>6, <1>7 DEF UDPNext, RunStep, ReaderStep

----------------------------------------------------------------------------
(* Whatever cleanup, deadlines and readers of earlier sockets do, a datagram *)
(* goes out by a socket of its destination whose replies are read, or fails  *)
(* because the socket is closed; but for the one whose reader could not      *)
(* write a reply (udprelay.go:71-128), for any number of destinations and    *)
(* sockets.                                                                  *)
THEOREM SentIsAnswerable == UDPSpec => []EntryServed
  <1>1. RelayInv => EntryServed
    BY DEF RelayInv
  <1>. QED  BY <1>1, RelayInvInit, StepKeepsRelayInv, PTL DEF UDPSpec

(* The three Writes of a frame are never torn by another socket's, nor by a  *)
(* Write that fails (udp.go:47), for any number of sockets and replies.      *)
THEOREM FramesAreWhole == UDPSpec => []FramesWhole
  <1>1. WireInv => FramesWhole
    BY DEF WireInv
  <1>. QED  BY <1>1, RelayInvInit, StepKeepsRelayInv, StepKeepsWireInv, PTL DEF UDPSpec

----------------------------------------------------------------------------
(***************************************************************************)
(* A tunnel keeps to one session.  A chunk the client has written is in    *)
(* the hands of one session for ever, although POSTs fail, sessions are    *)
(* swept and the server restarts; only the session that has the handshake  *)
(* answers; and what is read comes from sessions that answered.            *)
(***************************************************************************)

TunTypes ==
  /\ cur \in 0 .. MaxSess /\ count \in 0 .. MaxSess
  /\ held \in [Sess -> SUBSET Nat]
  /\ nextSeq \in [Sess -> Nat] /\ down \in [Sess -> Nat]
  /\ expired \in BOOLEAN
  /\ feeds \in Sess \cup {NoBody, Page} /\ body \in Sess \cup {NoBody, Page}
  /\ received \in Seq(Sess \cup {Page})
  /\ wpc \in {"idle", "post"} /\ upSeq \in Nat

(* Chunk c reached session k: it waits there, or the tunnel has read it. *)
Reached(k, c) == c \in held[k] \/ c < nextSeq[k]

OneHolder == \A j, k \in Sess : \A c \in Nat : Reached(j, c) /\ Reached(k, c) => j = k
Numbered == \A k \in Sess : \A c \in Nat : Reached(k, c) => c < upSeq
NotYetPosted == wpc = "post" => upSeq > 0 /\ \A k \in Sess : ~Reached(k, upSeq - 1)
Chunks == OneHolder /\ Numbered /\ NotYetPosted

Answered == \A k \in Sess : down[k] > 0 => Shaken(k)
(* While the token is good every byte is from a session that answered. *)
Read ==
  ~expired =>
    /\ body # Page
    /\ \A i \in 1 .. Len(received) : received[i] \in Sess /\ down[received[i]] > 0
    /\ received # <<>> => Len(received) <= down[received[1]]

TunInv == TunTypes /\ Chunks /\ Answered /\ Read

USE DEF Sess, NoBody, Page

LEMMA Sessions == MaxSess \in Nat /\ 1 \in Sess /\ 0 \notin Sess /\ -1 \notin Sess
  BY BoundAssumption

(* The session that answered is the only one that has read anything. *)
LEMMA OneAnswers ==
  ASSUME TunInv, NEW j \in Sess, NEW k \in Sess, nextSeq[j] > 0, nextSeq[k] > 0
  PROVE  j = k
  <1>1. nextSeq[j] \in Nat /\ nextSeq[k] \in Nat
    BY DEF TunInv, TunTypes
  <1>2. Reached(j, 0) /\ Reached(k, 0)
    BY <1>1 DEF Reached
  <1>. QED  BY <1>2 DEF TunInv, Chunks, OneHolder

LEMMA InvOneTunnel ==
  ASSUME TunInv
  PROVE  OneTunnel
  <1>1. OneTarget
    BY OneAnswers DEF OneTarget
  <1>2. ASSUME ~expired, received # <<>>
        PROVE  /\ \A i \in 1 .. Len(received) : received[i] = received[1]
               /\ received[1] \in Sess
               /\ Len(received) <= down[received[1]]
    <2>1. 1 \in 1 .. Len(received)
      BY <1>2 DEF TunInv, TunTypes
    <2>2. \A i \in 1 .. Len(received) : received[i] \in Sess /\ nextSeq[received[i]] > 0
      <3>1. TAKE i \in 1 .. Len(received)
      <3>2. received[i] \in Sess /\ down[received[i]] > 0
        BY <1>2, <3>1 DEF TunInv, Read
      <3>3. nextSeq[received[i]] >= HsChunks /\ nextSeq[received[i]] \in Nat
        BY <3>2 DEF TunInv, TunTypes, Answered, Shaken
      <3>. QED  BY <3>2, <3>3, HsAssumption, BoundAssumption
    <2>3. \A i \in 1 .. Len(received) : received[i] = received[1]
      BY <2>1, <2>2, OneAnswers
    <2>. QED  BY <1>2, <2>1, <2>2, <2>3 DEF TunInv, Read
  <1>. QED  BY <1>1, <1>2 DEF OneTunnel, OneOrigin

LEMMA InitInv == TunInit => TunInv
  <1>1. SUFFICES ASSUME TunInit PROVE TunInv
    OBVIOUS
  <1>2. TunTypes
    <2>1. /\ cur \in 0 .. MaxSess /\ count \in 0 .. MaxSess
          /\ feeds \in Sess \cup {NoBody, Page} /\ body \in Sess \cup {NoBody, Page}
          /\ wpc \in {"idle", "post"} /\ upSeq \in Nat
      <3>1. cur = 1 /\ count = 1 /\ feeds = NoBody /\ body = 1 /\ wpc = "idle" /\ upSeq = 0
        BY <1>1 DEF TunInit
      <3>. QED  BY <3>1, Sessions
    <2>4. expired \in BOOLEAN
      BY <1>1 DEF TunInit, GenerateToken
    <2>2. /\ held \in [Sess -> SUBSET Nat]
          /\ nextSeq \in [Sess -> Nat] /\ down \in [Sess -> Nat]
      BY <1>1 DEF TunInit
    <2>3. received \in Seq(Sess \cup {Page})
      BY <1>1 DEF TunInit
    <2>. QED  BY <2>1, <2>2, <2>3, <2>4 DEF TunTypes
  <1>3. Chunks
    BY <1>1 DEF TunInit, Chunks, OneHolder, Numbered, NotYetPosted, Reached
  <1>4. Answered /\ Read
    BY <1>1 DEF TunInit, Answered, Read
  <1>. QED  BY <1>2, <1>3, <1>4 DEF TunInv

(* Steps of the sessions that add no chunk keep Chunks. *)
LEMMA ChunksKept ==
  ASSUME TunInv, TunTypes', UNCHANGED <<wpc, upSeq>>,
         \A k \in Sess : \A c \in Nat : Reached(k, c)' => Reached(k, c)
  PROVE  Chunks'
  <1>1. OneHolder'
    BY DEF TunInv, Chunks, OneHolder
  <1>2. Numbered'
    BY DEF TunInv, Chunks, Numbered
  <1>3. NotYetPosted'
    BY DEF TunInv, TunTypes, Chunks, NotYetPosted
  <1>. QED  BY <1>1, <1>2, <1>3 DEF Chunks

LEMMA SessionsKept ==
  ASSUME TunInv, UNCHANGED <<held, nextSeq, wpc, upSeq>>
  PROVE  Chunks'
  BY DEF TunInv, Chunks, OneHolder, Numbered, NotYetPosted, Reached

(* The reader. *)
LEMMA ReaderKeepsInv ==
  ASSUME TunInv, Reader \/ StartDownloadFails \/ Cut \/ CloseConn
  PROVE  TunInv'
  <1>1. UNCHANGED <<feeds, held, nextSeq, down, expired, wpc, upSeq>>
    BY DEF Reader, ReadEnter, StartDownload, KeepBody, ReadData, BodyEnds,
           StartDownloadFails, Cut, CloseConn, serverVars, postVars, writerVars
  <1>2. Chunks' /\ Answered'
    BY <1>1, SessionsKept DEF TunInv, Answered, Shaken
  <1>3. CASE StartDownload
    <2>1. /\ received' = received
          /\ \/ Validates /\ GetOrCreate /\ body' = cur'
             \/ ~Validates /\ body' = Page /\ UNCHANGED <<cur, count>>
      BY <1>3 DEF StartDownload
    <2>2. /\ cur' \in 0 .. MaxSess /\ count' \in 0 .. MaxSess
          /\ Validates => body' \in Sess
          /\ body' \in Sess \cup {Page}
      BY <2>1, BoundAssumption DEF GetOrCreate, TunInv, TunTypes
    <2>3. TunTypes'
      BY <1>1, <2>1, <2>2 DEF TunInv, TunTypes
    <2>4. Read'
      BY <1>1, <2>1, <2>2, Sessions DEF TunInv, Read, Validates
    <2>. QED  BY <1>2, <2>3, <2>4 DEF TunInv
  <1>4. CASE ReadData
    <2>1. /\ received' = Append(received, body) /\ UNCHANGED <<cur, count, body>>
          /\ HasData \/ HasPage
      BY <1>4 DEF ReadData, serverVars
    <2>2. body \in Sess \cup {Page}
      BY <2>1 DEF HasData, HasPage
    <2>3. /\ received' \in Seq(Sess \cup {Page})
          /\ Len(received') = Len(received) + 1 /\ received'[Len(received) + 1] = body
          /\ \A i \in 1 .. Len(received) : received'[i] = received[i]
          /\ Len(received) \in Nat
      BY <2>1, <2>2 DEF TunInv, TunTypes
    <2>4. TunTypes'
      BY <1>1, <2>1, <2>3 DEF TunInv, TunTypes
    <2>5. ASSUME ~expired
          PROVE  /\ body' # Page
                 /\ \A i \in 1 .. Len(received') : received'[i] \in Sess /\ down[received'[i]] > 0
                 /\ Len(received') <= down[received'[1]]
      <3>1. body \in Sess /\ Len(received) < down[body] /\ down[body] \in Nat
        BY <2>1, <2>5 DEF HasData, HasPage, TunInv, TunTypes, Read
      <3>2. \A i \in 1 .. Len(received') : received'[i] \in Sess /\ down[received'[i]] > 0
        BY <2>3, <2>5, <3>1 DEF TunInv, Read
      <3>3. nextSeq[body] > 0
        BY <3>1, <2>3, HsAssumption, BoundAssumption DEF TunInv, TunTypes, Answered, Shaken
      <3>4. received'[1] \in Sess /\ down[received'[1]] > 0
        BY <2>3, <3>2
      <3>5. nextSeq[received'[1]] > 0
        BY <3>4, HsAssumption, BoundAssumption DEF TunInv, TunTypes, Answered, Shaken
      <3>6. received'[1] = body
        BY <3>1, <3>3, <3>4, <3>5, OneAnswers
      <3>. QED  BY <2>1, <2>3, <2>5, <3>1, <3>2, <3>6, Sessions
    <2>6. Read'
      BY <1>1, <2>5 DEF Read
    <2>. QED  BY <1>2, <2>4, <2>6 DEF TunInv
  <1>5. CASE ReadEnter \/ KeepBody \/ BodyEnds \/ StartDownloadFails \/ Cut \/ CloseConn
    <2>1. /\ UNCHANGED <<cur, count, received>>
          /\ body' = body \/ body' = NoBody
      BY <1>5 DEF ReadEnter, KeepBody, BodyEnds, StartDownloadFails, Cut, CloseConn, serverVars
    <2>2. TunTypes'
      BY <1>1, <2>1 DEF TunInv, TunTypes
    <2>3. Read'
      BY <1>1, <2>1 DEF TunInv, Read
    <2>. QED  BY <1>2, <2>2, <2>3 DEF TunInv
  <1>. QED  BY <1>3, <1>4, <1>5 DEF Reader

(* What a step keeps of what was read when it touches neither side of it. *)
LEMMA ReadKept ==
  ASSUME TunInv, UNCHANGED <<down, nextSeq, expired, body, received>>
  PROVE  Answered' /\ Read'
  BY DEF TunInv, Answered, Shaken, Read

(* The writer. *)
LEMMA WriterKeepsInv ==
  ASSUME TunInv, WriteEnter \/ StreamPost \/ PostOK \/ PostFails
  PROVE  TunInv'
  <1>1. UNCHANGED <<down, nextSeq, expired, body, received>>
    BY DEF WriteEnter, StreamPost, PostOK, PostFails, Push, Ignored, serverVars, readerVars
  <1>2. Answered' /\ Read'
    BY <1>1, ReadKept
  <1>3. CASE WriteEnter
    <2>1. upSeq' = upSeq + 1 /\ wpc' = "post" /\ UNCHANGED <<feeds, cur, count, held>>
      BY <1>3 DEF WriteEnter, serverVars, postVars
    <2>2. TunTypes'
      BY <1>1, <2>1 DEF TunInv, TunTypes
    <2>3. OneHolder'
      BY <1>1, <2>1 DEF TunInv, Chunks, OneHolder, Reached
    <2>4. \A k \in Sess : \A c \in Nat : Reached(k, c)' => c < upSeq
      BY <1>1, <2>1 DEF TunInv, Chunks, Numbered, Reached
    <2>5. Numbered' /\ NotYetPosted'
      BY <2>1, <2>4 DEF Numbered, NotYetPosted, TunInv, TunTypes
    <2>. QED  BY <1>2, <2>2, <2>3, <2>5 DEF TunInv, Chunks
  <1>4. CASE StreamPost
    <2>1. /\ UNCHANGED <<held, wpc, upSeq>>
          /\ \/ GetOrCreate /\ feeds' = cur'
             \/ feeds' = Page /\ UNCHANGED <<cur, count>>
      BY <1>4 DEF StreamPost, writerVars
    <2>2. /\ cur' \in 0 .. MaxSess /\ count' \in 0 .. MaxSess
          /\ feeds' \in Sess \cup {NoBody, Page}
      BY <2>1, BoundAssumption DEF GetOrCreate, TunInv, TunTypes
    <2>3. TunTypes'
      BY <1>1, <2>1, <2>2 DEF TunInv, TunTypes
    <2>4. Chunks'
      BY <1>1, <2>1, SessionsKept
    <2>. QED  BY <1>2, <2>3, <2>4 DEF TunInv
  <1>5. CASE PostOK \/ PostFails
    <2>1. /\ wpc' = "idle" /\ upSeq' = upSeq /\ feeds' = feeds
          /\ (wpc = "post" /\ Push) \/ UNCHANGED <<cur, count, held>>
      BY <1>5 DEF PostOK, PostFails, Ignored, serverVars, postVars
    <2>2. CASE UNCHANGED <<cur, count, held>>
      <3>1. TunTypes'
        BY <1>1, <2>1, <2>2 DEF TunInv, TunTypes
      <3>2. Chunks'
        BY <1>1, <2>1, <2>2 DEF TunInv, Chunks, OneHolder, Numbered, NotYetPosted, Reached
      <3>. QED  BY <1>2, <3>1, <3>2 DEF TunInv
    <2>3. CASE wpc = "post" /\ Push
      <3>1. PICK t \in Sess : /\ held' \in {held, [held EXCEPT ![t] = @ \cup {upSeq - 1}]}
                              /\ cur' \in 0 .. MaxSess /\ count' \in 0 .. MaxSess
        <4>1. DEFINE t == IF mode = "packet" THEN cur' ELSE feeds
        <4>2. CASE mode = "packet"
          <5>1. cur' \in Sess /\ count' \in 0 .. MaxSess
            BY <2>3, <4>2, BoundAssumption DEF Push, GetOrCreate, TunInv, TunTypes
          <5>. QED  BY <2>3, <4>2, <5>1 DEF Push
        <4>3. CASE mode # "packet"
          BY <2>3, <4>3 DEF Push, TunInv, TunTypes
        <4>. QED  BY <4>2, <4>3
      <3>2. upSeq - 1 \in Nat
        BY <2>3 DEF TunInv, TunTypes, Chunks, NotYetPosted
      <3>3. TunTypes'
        BY <1>1, <2>1, <3>1, <3>2 DEF TunInv, TunTypes
      <3>4. ASSUME NEW k \in Sess, NEW c \in Nat, Reached(k, c)'
            PROVE  Reached(k, c) \/ (k = t /\ c = upSeq - 1)
        <4>1. nextSeq' = nextSeq
          BY <1>1, Zenon
        <4>2. c \in held'[k] => c \in held[k] \/ (k = t /\ c = upSeq - 1)
          <5>1. held \in [Sess -> SUBSET Nat]
            BY DEF TunInv, TunTypes
          <5>. QED  BY ONLY <3>1, <5>1
        <4>. QED  BY <3>4, <4>1, <4>2, Zenon DEF Reached
      <3>5. \A k \in Sess : ~Reached(k, upSeq - 1)
        BY <2>3 DEF TunInv, Chunks, NotYetPosted
      <3>6. OneHolder'
        BY <3>4, <3>5 DEF TunInv, Chunks, OneHolder
      <3>7. Numbered' /\ NotYetPosted'
        BY <2>1, <2>3, <3>4 DEF TunInv, TunTypes, Chunks, Numbered, NotYetPosted
      <3>. QED  BY <1>2, <3>3, <3>6, <3>7 DEF TunInv, Chunks
    <2>. QED  BY <2>1, <2>2, <2>3
  <1>. QED  BY <1>3, <1>4, <1>5

(* The tunnel on a session. *)
LEMMA ServedKeepsInv ==
  ASSUME TunInv, NEW k \in Sess, Consume(k) \/ Relay(k) \/ TunnelEnds(k)
  PROVE  TunInv'
  <1>1. UNCHANGED <<feeds, cur, count, expired, body, received, wpc, upSeq>>
    BY DEF Consume, Relay, TunnelEnds, postVars, readerVars, writerVars
  <1>2. CASE Consume(k)
    <2>1. /\ nextSeq[k] \in held[k] /\ down' = down
          /\ held' = [held EXCEPT ![k] = @ \ {nextSeq[k]}]
          /\ nextSeq' = [nextSeq EXCEPT ![k] = @ + 1]
      BY <1>2 DEF Consume
    <2>2. TunTypes'
      BY <1>1, <2>1 DEF TunInv, TunTypes
    <2>3. \A j \in Sess : \A c \in Nat : Reached(j, c)' => Reached(j, c)
      BY <2>1 DEF TunInv, TunTypes, Reached
    <2>4. Chunks'
      BY <1>1, <2>2, <2>3, ChunksKept
    <2>5. Answered'
      BY <2>1, HsAssumption, BoundAssumption DEF TunInv, TunTypes, Answered, Shaken
    <2>6. Read'
      BY <1>1, <2>1 DEF TunInv, Read
    <2>. QED  BY <2>2, <2>4, <2>5, <2>6 DEF TunInv
  <1>3. CASE Relay(k)
    <2>1. /\ Shaken(k) /\ UNCHANGED <<held, nextSeq>>
          /\ down' = [down EXCEPT ![k] = @ + 1]
      BY <1>3 DEF Relay
    <2>2. TunTypes'
      BY <1>1, <2>1 DEF TunInv, TunTypes
    <2>3. Chunks'
      BY <1>1, <2>1, SessionsKept
    <2>4. Answered'
      BY <2>1 DEF TunInv, TunTypes, Answered, Shaken
    <2>5. ASSUME NEW j \in Sess
          PROVE  down[j] <= down'[j] /\ down[j] \in Nat /\ down'[j] \in Nat
      <3>1. down[j] \in Nat /\ down \in [Sess -> Nat]
        BY DEF TunInv, TunTypes
      <3>2. down'[j] = IF j = k THEN down[j] + 1 ELSE down[j]
        BY ONLY <2>1, <3>1
      <3>3. \A n \in Nat : n <= n + 1 /\ n <= n /\ n + 1 \in Nat
        OBVIOUS
      <3>. QED  BY <3>1, <3>2, <3>3, Zenon
    <2>6. ASSUME ~expired, received # <<>>
          PROVE  Len(received) <= down'[received[1]]
      <3>1. Len(received) \in Nat \ {0}
        BY <2>6 DEF TunInv, TunTypes
      <3>2. received[1] \in Sess /\ Len(received) <= down[received[1]]
        BY <2>6, <3>1 DEF TunInv, Read
      <3>. QED  BY <2>5, <3>1, <3>2
    <2>7. ASSUME ~expired
          PROVE  \A i \in 1 .. Len(received) : received[i] \in Sess /\ down'[received[i]] > 0
      BY <2>5, <2>7 DEF TunInv, Read
    <2>8. Read'
      BY <1>1, <2>6, <2>7 DEF TunInv, Read
    <2>. QED  BY <2>2, <2>3, <2>4, <2>8 DEF TunInv
  <1>4. CASE TunnelEnds(k)
    <2>1. UNCHANGED <<nextSeq, down>> /\ held' = [held EXCEPT ![k] = {}]
      BY <1>4 DEF TunnelEnds
    <2>2. TunTypes'
      BY <1>1, <2>1 DEF TunInv, TunTypes
    <2>3. \A j \in Sess : \A c \in Nat : Reached(j, c)' => Reached(j, c)
      BY <2>1 DEF TunInv, TunTypes, Reached
    <2>. QED  BY <1>1, <2>1, <2>2, <2>3, ChunksKept, ReadKept DEF TunInv
  <1>. QED  BY <1>2, <1>3, <1>4

(* The cleanup loop, a restart and the end of the token. *)
LEMMA EventsKeepInv ==
  ASSUME TunInv, Sweep \/ Restart \/ Expire
  PROVE  TunInv'
  <1>1. UNCHANGED <<feeds, nextSeq, down, body, received, wpc, upSeq>>
    BY DEF Sweep, Restart, Expire, serverVars, postVars, readerVars, writerVars
  <1>2. CASE Sweep \/ Restart
    <2>1. /\ expired' = expired /\ cur' = 0 /\ count' = count
          /\ held' \in [Sess -> SUBSET Nat]
          /\ \A k \in Sess : held'[k] \subseteq held[k]
      BY <1>2 DEF Sweep, Restart, TunInv, TunTypes
    <2>2. TunTypes'
      BY <1>1, <2>1, BoundAssumption DEF TunInv, TunTypes
    <2>3. \A k \in Sess : \A c \in Nat : Reached(k, c)' => Reached(k, c)
      BY <1>1, <2>1 DEF Reached
    <2>. QED  BY <1>1, <2>1, <2>2, <2>3, ChunksKept, ReadKept DEF TunInv
  <1>3. CASE Expire
    <2>1. expired' = TRUE /\ UNCHANGED <<cur, count, held>>
      BY <1>3 DEF Expire, serverVars
    <2>2. TunTypes'
      BY <1>1, <2>1 DEF TunInv, TunTypes
    <2>3. Answered' /\ Read'
      BY <1>1, <2>1 DEF TunInv, Answered, Shaken, Read
    <2>. QED  BY <1>1, <2>1, <2>2, <2>3, SessionsKept DEF TunInv
  <1>. QED  BY <1>2, <1>3

LEMMA NextKeepsInv == TunInv /\ [TunNext]_tunVars => TunInv'
  <1>1. SUFFICES ASSUME TunInv, [TunNext]_tunVars PROVE TunInv'
    OBVIOUS
  <1>2. CASE Reader \/ StartDownloadFails \/ Cut \/ CloseConn
    BY <1>1, <1>2, ReaderKeepsInv
  <1>3. CASE WriteEnter \/ StreamPost \/ PostOK \/ PostFails
    BY <1>1, <1>3, WriterKeepsInv
  <1>4. CASE \E k \in Sess : Consume(k) \/ Relay(k) \/ TunnelEnds(k)
    BY <1>1, <1>4, ServedKeepsInv
  <1>5. CASE Sweep \/ Restart \/ Expire
    BY <1>1, <1>5, EventsKeepInv
  <1>6. CASE UNCHANGED tunVars
    BY <1>1, <1>6 DEF TunInv, TunTypes, Chunks, OneHolder, Numbered, NotYetPosted, Reached,
       Answered, Shaken, Read, tunVars, serverVars, postVars, readerVars, writerVars
  <1>. QED  BY <1>1, <1>2, <1>3, <1>4, <1>5, <1>6 DEF TunNext

(* The chunks of the handshake reach one session, and while the token is good*)
(* what the client reads is the stream of that session from its first byte,  *)
(* whatever is cut, swept or restarted, for any number of sessions, chunks   *)
(* and restarts (client.go:267-344, server.go:160-215).                      *)
THEOREM KeepsToOneTunnel == TunSpec => []OneTunnel
  <1>1. TunSpec => []TunInv
    BY InitInv, NextKeepsInv, PTL DEF TunSpec
  <1>2. TunInv => OneTunnel
    BY InvOneTunnel
  <1>. QED  BY <1>1, <1>2, PTL
=============================================================================
