------------------------------ MODULE UDPRelay ------------------------------
(***************************************************************************)
(* The UDP side of one tunnel on the server: UDPRelayServer of             *)
(* src/internal/proxy/udprelay.go and the framed writes of                 *)
(* src/internal/protocol/udp.go.  One goroutine (Run) takes datagrams from *)
(* the tunnel and sends each through the socket of its destination; every  *)
(* socket has a reader that frames the replies into the one tunnel; a      *)
(* cleanup loop closes idle sockets, and handleTunnel closes the rest.     *)
(* One action is one critical section of s.mu, one Write on the tunnel, or *)
(* one call on a socket.                                                   *)
(***************************************************************************)
EXTENDS Integers, Sequences

CONSTANTS
  Hosts,       \* hosts the client names in its messages, each with one port
  QuadOf,      \* QuadOf[h]: the dotted quad h is or begins with, or None
  CanonOf,     \* CanonOf[h]: the canonical text of an IPv6 host, or None
  MaxSock,     \* bound: sockets ever opened
  MaxReplies,  \* bound: datagrams the destinations send
  None         \* no socket

Sock == 1 .. MaxSock
Parts == 3     \* a frame is three Writes: length, address, payload

(* An address in a message: fmt.Sscanf takes whatever begins with four       *)
(* numbers for an IPv4 address and drops the rest (parseIPv4); 16 bytes      *)
(* stand for an IPv6 host; any other host goes as it is.  What is decoded is *)
(* the canonical text of what was encoded.                                   *)
encodeAddr(h) ==
  CASE QuadOf[h] # None                       -> <<"ipv4", QuadOf[h]>>
    [] QuadOf[h] = None /\ CanonOf[h] # None -> <<"ipv6", CanonOf[h]>>
    [] OTHER                                  -> <<"domain", h>>
decodeAddr(a) == a[2]

(* The destinations, "host:port", that the relay gets to see. *)
Dests == {decodeAddr(encodeAddr(h)) : h \in Hosts}

(* Those that are IPv4 addresses.  A name may resolve to either kind. *)
IPv4Dests == {QuadOf[h] : h \in Hosts}

ASSUME HostAssumption ==
  /\ None \notin Hosts
  /\ QuadOf \in [Hosts -> Hosts \cup {None}] /\ CanonOf \in [Hosts -> Hosts \cup {None}]
ASSUME MaxSockAssumption == MaxSock \in Nat
ASSUME MaxRepliesAssumption == MaxReplies \in Nat
ASSUME NoneAssumption == None \notin Sock

VARIABLES
  conns,     \* UDPRelayServer.conns: the socket of each destination
  made,      \* sockets opened so far
  dest,      \* dest[k]: the destination of socket k
  open,      \* sockets that are not closed
  idle,      \* sockets whose lastUsed is more than udpIdleTimeout ago
  run,       \* where Run is; "ended" when it has returned, "closed" after Close
  job,       \* the destination of the datagram Run handles
  uc,        \* the socket it sends it through
  reader,    \* reader[k]: where readFromDest of socket k is
  part,      \* part[k]: how many Writes of its frame are done
  lock,      \* the reader that holds UDPRelay.mu
  wire,      \* what the tunnel carries: <<socket, part>> for each Write
  replies,   \* datagrams received from the destinations
  tunnel     \* whether Writes on the tunnel succeed

mapVars == <<conns, made, dest, open, idle>>
runVars == <<run, job, uc>>
writeVars == <<part, lock, wire>>
udpVars == <<mapVars, runVars, reader, writeVars, replies, tunnel>>

UDPInit ==
  /\ conns = [d \in Dests |-> None]
  /\ made = 0 /\ dest = <<>>
  /\ open = {} /\ idle = {}
  /\ run = "read" /\ job \in Dests /\ uc = None
  /\ reader = [k \in Sock |-> "none"]
  /\ part = [k \in Sock |-> 0]
  /\ lock = None /\ wire = <<>>
  /\ replies = 0
  /\ tunnel = TRUE

----------------------------------------------------------------------------
(* Run has the next datagram of the tunnel, sent to host h. *)
ReadMessage(h) ==
  /\ run = "read"
  /\ run' = "look" /\ job' = decodeAddr(encodeAddr(h))
  /\ UNCHANGED <<mapVars, uc, reader, writeVars, replies, tunnel>>

(* ReadMessage fails: the tunnel ended, or a frame did not parse. *)
RunEnds ==
  /\ run = "read"
  /\ run' = "ended"
  /\ UNCHANGED <<mapVars, job, uc, reader, writeVars, replies, tunnel>>

(* getOrCreate, its first section. *)
Look ==
  /\ run = "look"
  /\ \/ conns[job] # None /\ uc' = conns[job] /\ run' = "send"
     \/ conns[job] = None /\ uc' = uc /\ run' = "dial"
  /\ UNCHANGED <<mapVars, job, reader, writeVars, replies, tunnel>>

(* A socket is opened, or the datagram is given up. *)
Dial ==
  /\ run = "dial"
  /\ made < MaxSock
  /\ made' = made + 1
  /\ dest' = Append(dest, job)
  /\ open' = open \cup {made'}
  /\ uc' = made'
  /\ run' = "store"
  /\ UNCHANGED <<conns, idle, job, reader, writeVars, replies, tunnel>>

DialFails ==
  /\ run = "dial"
  /\ run' = "read"
  /\ UNCHANGED <<mapVars, job, uc, reader, writeVars, replies, tunnel>>

(* getOrCreate, its second section, and the start of the socket's reader. *)
Store ==
  /\ run = "store"
  /\ conns' = [conns EXCEPT ![job] = uc]
  /\ reader' = [reader EXCEPT ![uc] = "read"]
  /\ run' = "send"
  /\ UNCHANGED <<made, dest, open, idle, job, uc, writeVars, replies, tunnel>>

(* The datagram is sent and lastUsed stamped; or the socket was closed since *)
(* it was looked up, or the send failed, and the datagram is lost.           *)
Send ==
  /\ run = "send"
  /\ uc \in open
  /\ idle' = idle \ {uc}
  /\ run' = "read"
  /\ UNCHANGED <<conns, made, dest, open, job, uc, reader, writeVars, replies, tunnel>>

SendFails ==
  /\ run = "send"
  /\ run' = "read"
  /\ UNCHANGED <<mapVars, job, uc, reader, writeVars, replies, tunnel>>

----------------------------------------------------------------------------
(* readFromDest: a datagram comes. *)
Reply(k) ==
  /\ reader[k] = "read"
  /\ k \in open
  /\ replies < MaxReplies
  /\ replies' = replies + 1
  /\ reader' = [reader EXCEPT ![k] = "reply"]
  /\ UNCHANGED <<mapVars, runVars, writeVars, tunnel>>

(* A reader that waits for ever: no deadline. *)
ReadFailsClosed(k) ==
  /\ reader[k] = "read"
  /\ k \notin open
  /\ reader' = [reader EXCEPT ![k] = "failed"]
  /\ UNCHANGED <<mapVars, runVars, writeVars, replies, tunnel>>

(* The read fails: the socket is closed, the deadline has passed, or an ICMP *)
(* error came.                                                               *)
ReadFails(k) ==
  /\ reader[k] = "read"
  /\ reader' = [reader EXCEPT ![k] = "failed"]
  /\ UNCHANGED <<mapVars, runVars, writeVars, replies, tunnel>>

(* ... and the reader deletes whatever the map has for its destination ...   *)
Forget(k) ==
  /\ reader[k] = "failed"
  /\ conns' = [conns EXCEPT ![dest[k]] = None]
  /\ reader' = [reader EXCEPT ![k] = "close"]
  /\ UNCHANGED <<made, dest, open, idle, runVars, writeVars, replies, tunnel>>

(* ... and closes its own socket. *)
CloseSocket(k) ==
  /\ reader[k] = "close"
  /\ open' = open \ {k}
  /\ reader' = [reader EXCEPT ![k] = "done"]
  /\ UNCHANGED <<conns, made, dest, idle, runVars, writeVars, replies, tunnel>>

(* WriteMessage without its mutex, and with it. *)
UnlockedAlways == TRUE

Unlocked == lock = None

(* WriteMessage takes UDPRelay.mu for its three Writes. *)
Lock(k) ==
  /\ reader[k] = "reply"
  /\ Unlocked
  /\ lock' = k
  /\ reader' = [reader EXCEPT ![k] = "write"]
  /\ UNCHANGED <<mapVars, runVars, part, wire, replies, tunnel>>

(* One Write of the frame; the last one gives the mutex back. *)
WritePart(k) ==
  /\ reader[k] = "write"
  /\ tunnel
  /\ wire' = Append(wire, <<k, part[k] + 1>>)
  /\ \/ /\ part[k] + 1 < Parts
        /\ part' = [part EXCEPT ![k] = @ + 1]
        /\ UNCHANGED <<lock, reader>>
     \/ /\ part[k] + 1 = Parts
        /\ part' = [part EXCEPT ![k] = 0]
        /\ lock' = None
        /\ reader' = [reader EXCEPT ![k] = "read"]
  /\ UNCHANGED <<mapVars, runVars, replies, tunnel>>

(* WriteMessage refuses a reply that does not fit a frame, before it takes   *)
(* the mutex, and the reader returns; its socket and its entry are left as   *)
(* they are.  An IPv4 datagram always fits: 7 bytes of address and at most   *)
(* 65507 of payload.  With an IPv6 address of 19 bytes one may not.          *)
TooLarge(k) ==
  /\ reader[k] = "reply"
  /\ dest[k] \notin IPv4Dests
  /\ reader' = [reader EXCEPT ![k] = "left"]
  /\ UNCHANGED <<mapVars, runVars, writeVars, replies, tunnel>>

(* A Write fails, and the reader returns in the same way. *)
WriteFails(k) ==
  /\ reader[k] = "write"
  /\ ~tunnel
  /\ lock' = None
  /\ reader' = [reader EXCEPT ![k] = "left"]
  /\ UNCHANGED <<mapVars, runVars, part, wire, replies, tunnel>>

----------------------------------------------------------------------------
(* udpIdleTimeout passes without a datagram to the destination. *)
Age(k) ==
  /\ k \in open \ idle
  /\ idle' = idle \cup {k}
  /\ UNCHANGED <<conns, made, dest, open, runVars, reader, writeVars, replies, tunnel>>

(* What is left of the map: a cleanup that forgets to delete, and the code. *)
KeepAll(stale) == conns

Remove(stale) == [d \in Dests |-> IF d \in stale THEN None ELSE conns[d]]

(* cleanupLoop, which outlives the tunnel: all idle sockets, under s.mu. *)
Cleanup ==
  LET stale == {d \in Dests : conns[d] \in idle} IN
  /\ stale # {}
  /\ open' = open \ {conns[d] : d \in stale}
  /\ conns' = Remove(stale)
  /\ UNCHANGED <<made, dest, idle, runVars, reader, writeVars, replies, tunnel>>

(* handleTunnel's deferred calls: Close, then the tunnel is closed. *)
Close ==
  /\ run = "ended"
  /\ open' = open \ {conns[d] : d \in Dests}
  /\ conns' = [d \in Dests |-> None]
  /\ run' = "closed"
  /\ UNCHANGED <<made, dest, idle, job, uc, reader, writeVars, replies, tunnel>>

(* The tunnel may also break at any time, which Run learns from its Read.    *)
TunnelCloses ==
  /\ tunnel
  /\ tunnel' = FALSE
  /\ UNCHANGED <<mapVars, runVars, reader, writeVars, replies>>

----------------------------------------------------------------------------
RunStep == Look \/ Dial \/ DialFails \/ Store \/ Send \/ SendFails
ReaderStep(k) ==
  ReadFails(k) \/ Forget(k) \/ CloseSocket(k) \/ Lock(k) \/ WritePart(k)
    \/ WriteFails(k)
Shutdown == Close \/ (run = "closed" /\ TunnelCloses)

UDPNext ==
  \/ \E h \in Hosts : ReadMessage(h)
  \/ RunStep \/ RunEnds
  \/ \E k \in Sock : Reply(k) \/ ReaderStep(k) \/ TooLarge(k) \/ Age(k)
  \/ Cleanup \/ Close \/ TunnelCloses

(* Goroutines go on; a read ends at the latest by its deadline; a Go mutex   *)
(* does not starve a goroutine that waits for it.  Nothing obliges datagrams *)
(* to come or a tunnel to end.                                               *)
UDPFairness ==
  /\ WF_udpVars(RunStep)
  /\ WF_udpVars(Shutdown)
  /\ \A k \in Sock : WF_udpVars(ReaderStep(k)) /\ SF_udpVars(Lock(k))

UDPSpec == UDPInit /\ [][UDPNext]_udpVars
UDPFairSpec == UDPSpec /\ UDPFairness

----------------------------------------------------------------------------
(* The replies of socket k come back as long as it lives: its reader is at   *)
(* work, or has failed and takes the entry out and closes the socket next.   *)
(* It has left both only when a Write of its failed, and the tunnel is gone, *)
(* or a reply did not fit, which none from an IPv4 address does.             *)
Served(k) ==
  \/ reader[k] \in {"read", "reply", "write", "failed", "close"}
  \/ reader[k] = "left" /\ (tunnel => dest[k] \notin IPv4Dests)

(* A datagram is sent through the socket the map has, or had when Run looked *)
(* it up.  The first is open, of that destination and served, and not by a   *)
(* reader that has taken its entry out already; the second is closed, and    *)
(* the send fails, or it is served -- whatever sweeps, deadlines and readers *)
(* of earlier sockets did.                                                   *)
EntryOK(d) ==
  conns[d] # None =>
    /\ conns[d] \in open /\ dest[conns[d]] = d
    /\ Served(conns[d]) /\ reader[conns[d]] # "close"
SendOK == run = "send" /\ uc \in open => dest[uc] = job /\ Served(uc)
EntryServed == (\A d \in Dests : EntryOK(d)) /\ SendOK

(* The replies of all sockets share the tunnel, and none is torn by another: *)
(* the wire is whole frames, but for the one being written.                  *)
FramesWhole ==
  \A i \in 1 .. Len(wire) :
    /\ wire[i][2] = ((i - 1) % Parts) + 1
    /\ wire[i][2] > 1 => wire[i][1] = wire[i - 1][1]

(* After Close every socket is closed, at the latest by its reader's         *)
(* deadline, but one whose reader had left when a reply could not be written.*)
SocketsEnd ==
  \A k \in Sock : run = "closed" ~> (k \notin open \/ reader[k] = "left")

============================================================================
