# Nightveil: TLA+ models, checks and proofs

Nightveil is a proxy tunnel over ordinary HTTP. A client (`nv connect`, in
`src/cmd/nv/cmd_connect.go`) accepts SOCKS5 connections and opens one tunnel for
each; a server (`nv server`, `cmd_server.go`) turns each tunnel into a TCP
connection or a UDP relay. A tunnel is one *session*, named by a random id:
downloads travel in the body of a long GET that may be cut and asked for again,
uploads in numbered POSTs ("packet" mode) or in one long POST ("stream" mode).

Paths below are relative to `src/`; `xhttp/` stands for
`internal/transport/xhttp/`, `session/` for `internal/session/`.

## 1. Inventory

| component (files) | state | operations | what is hard | what makes it correct | module |
|---|---|---|---|---|---|
| Replay buffer (`session/download_buffer.go`) | `buf`, `discarded`, `delivered`, `done`, one-token `notify` | Write, Advance, compactLocked, ReadFrom, Notify, Close | absolute offsets against a sliding window; one token for many handlers | holds exactly the written stream from `discarded` on; never discards inside the replay window | `DownloadBuffer` |
| Download path (`xhttp/server.go` handleDownload, `xhttp/client.go` Read) | offset of each GET handler, bytes in the response, `downloadBody`, `downloadOffset` | startDownload, the handler's read / write / acknowledge / wait loop, Read | cuts anywhere, stale handlers that go on acknowledging, reconnects | client reads the stream once and in order; can always resume; is told of data and of the end | `Download` over `DownloadBuffer` |
| Upload path, server (`session/manager.go` Session, `xhttp/conn.go`, POST handlers) | `uploadBuf`, `nextSeq`, `uploadDone`, `streamMode`, the pipe, `readBuf` | PushUpload, ReadUpload, ensureStreamPipe, CloseStreamUpload, splitConn.Read, Close | reader waits while the mode flips; Close in three critical sections; POSTs in any order | relay reads a prefix of the upload; ends are real; no lost wakeup; no store into the nil map | `Session` |
| Upload path, client (`xhttp/client.go` Write) | `uploadSeq`, results of the POSTs in flight, `brokenErr` | Write (pipelined POSTs, or the stream), postChunkWithSeq, markBroken | one POST of a pipeline fails, or is answered by the fallback site, while later ones are stored | nothing is stored behind a gap; what Write reported is stored while the token is good | `Upload` over `Session` |
| Server and session manager (`xhttp/server.go`, `session/manager.go` Manager) | `sessions`, `hasDownload`, `emitted`, `acceptCh` | ServeHTTP, GetOrCreate, tryEmit, Accept, cleanupLoop | requests of one id race with each other and with the sweep | one live session per id; each emitted once and served; none kept for ever | `XhttpServer` |
| Tunnel over several sessions (client conn against all of the above) | retries, `brokenErr`, the sequence of sessions of one id, age of the token | Read's retry loop, Write, Close, sweep, restart of the server | crash, restart, a session forgotten between two requests, a token that grows old | a tunnel reaches its target once; bytes of one session only while the token is good; the end is told | `Tunnel` |
| Proxied connection (`cmd_connect.go` handleSOCKS5Client, `cmd_server.go` handleTunnel, `internal/protocol`, `internal/proxy`) | both handlers, four copy goroutines with what they hold | SOCKS5Handshake, Handshake, HandleConnection, SendACK, Relay, RelayWithStats | two relays in series, each closing both its ends when either copy ends | success is real; both directions are streams; the last byte arrives; ends propagate | `Proxy` |
| UDP relay (`internal/proxy/udprelay.go`, `internal/protocol/udp.go`) | `conns` by destination, sockets, mutex of the framed writer | Run, getOrCreate, readFromDest, cleanupLoop, Close | look-up, insertion, delete-by-key and close in separate critical sections; replies too large for a frame | what a datagram goes out by has a reader; frames whole; sockets end | `UDPRelay` |
| Transport manager (`internal/transport/manager.go`, `reconnect.go`) | `activeIdx`, slots, `closed` | Dial, tryPromote, Replace, retries | decisions taken before a dial and written after it | retries are bounded; slots hold open transports; the first transport is regained | `Failover` |
| Throttle (`internal/throttle`, wiring in `cmd_connect.go`) | verdict and count, `parallelConns`, probe, parameters, installed transport | RecordRTT/Throughput, evaluate, probe, onStateChange, three rotations, rebuild | a goroutine per listener and event: calls overtake each other | parallelism fits the verdict; rotations reach the manager | `Throttle` |
| Connection pool and QUIC (`internal/transport/pool.go`, `internal/transport/quictun`) | `pool` channel, context, refill loop; `acceptCh`, a handler per connection | refillLoop, Dial, Close; acceptLoop, handleQUICConn, Accept, Close | Close against a refill in mid-dial; a full accept channel | Close returns and leaves nothing open; a connection has one owner; streams are accepted | `QuicPool` |
| REALITY and padding (`internal/security/reality.go`, `internal/middleware/padding`) | peeked bytes, backlog, two copies per forwarded probe; frame header, `rBuf` | Accept, Peek, Read, forwardToDest; padding Write and Read | one Peek at a time holds up the listener; short reads of headers and payloads | the site sees the probe's bytes unchanged; our data is a stream; clients get through; forwarding ends | `Camouflage` |
| Configuration, links and tools (`internal/config`, `cmd_setup.go`, `cmd_init.go`, `cmd_adduser.go`, `cmd_keygen.go`, `cmd_link.go`) and what `nv server` loads | `server.yaml`, certificate and key, `import.txt`, `links/`; the server's copy | setup, init, adduser, keygen, link, edits by hand, start and stop of the server | killed or failing between and inside writes of several files; commands and edits that overlap | saved links work; the revoked stay out; the server comes up again | `Provision` |
| Authentication (`internal/crypto/auth`) | replay window of tokens by age; list of users | Validate | the token of a tunnel ages with it | – | its age in `Tunnel`, whose token it is in `Provision` |
| Fallback site (`internal/fallback`) | – | ServeHTTP | – | – | as what a refused request gets, in `Tunnel` |
| Multiplexed writer, rate limiter (`xhttp/multiplex.go`, `ratelimit.go`), UDP client (`internal/proxy/udprelay.go`) | semaphores, windows, channels | – | resize under use | – | not modelled (no command uses them) |
| Shaping, jitter, cover traffic, port hopping, raw TCP, TLS and uTLS, client library, sing-box adapter | – | – | – | – | not modelled; see section 7 |

How they interact. `handleSOCKS5Client` dials through the transport manager; the
`xhttp` client makes requests on the network; the server finds or creates the
session of their id, hands the first connected session to the accept loop over a
channel, and `handleTunnel` reads it through `splitConn`. The session is the
shared state: POST handlers write its queue or pipe, the relay reads them; the
relay writes its replay buffer, GET handlers read it; the cleanup loop closes and
forgets it. Detector, canary and rotator act on the manager through callbacks.
The tools and the server meet in the files only; a user's link meets the server's
list of users in `Validate`.

No command of this commit uses the pool, the QUIC transport, `RealityListener`, the
middleware (`middleware.Chain` in `cmd_server.go` is empty), the multiplexed
writer, the rate limiter or `UDPRelayClient`. `QuicPool` puts the pool over the QUIC
transport, which is what it takes (a `ClientTransport`); `Camouflage` puts padding
on what `RealityListener` accepts, behind a token as in
`TestRealityE2EAuthClientPasses`.

`PROJECT.json` lists the hazards, each at its line, with the properties that
would show it going wrong, and the components with what is left out of each.

## 2. Modules

```
SliceLemmas            facts about pieces of a sequence        (proofs)
DownloadBuffer  <-- Download  --implements--> ReliableStream
Session         <-- Upload    --implements--> ReliableStream
XhttpServer     the manager, emission and sweep, many ids
Tunnel          one id over its life; streams within a session taken as reliable
Proxy           both ends of a tunnel; each direction --implements--> ReliableStream
UDPRelay, Throttle, Failover
Camouflage      listener, forwarding, padding; the padded data --implements--> ReliableStream
QuicPool        the pool at the client over the QUIC client and server
Provision       the files, the commands that write them, the server that reads them
```

The theorems are in `DownloadProofs` (buffer and download), `UploadProofs` (session
and upload), `XhttpServerProofs`, `TunnelProofs` (tunnel and UDP relay),
`ProxyProofs`, `AdmissionProofs` (provisioning; listener, forwarding and padding)
and `TransportProofs` (pool; throttle; failover). Each `MC...` module gives values to constants that a `.cfg` cannot write; otherwise it
only extends its module. Definitions whose name and comment say that they differ
from the code (`CompactNoCushion`, `FirstAlways`, ...) are plausible bugs that the
checks are tried against; no specification uses them.

`ReliableStream` is what one direction of a tunnel promises: `sent` grows by
appending until `ended`, `rcvd` grows by the next elements of `sent`. It is
implemented four times, by mechanisms that have nothing in common: replay over cut
GETs, reassembly of concurrent POSTs, two relays with handshakes in front, and
padded frames behind a peeked token.

How models correspond to code:

- **DownloadBuffer, Download.** Each method of the buffer runs under its mutex and
  is one action. `log` is a history of all that was written. A GET handler has a
  program counter for its loop; the response is a pipe of capacity `Cap`; `Cut`
  drops what it holds and leaves the handler to find out. A stale handler keeps
  writing and acknowledging while its pipe has room.
- **Session, Upload.** `uploadBuf` is the set of chunk numbers held; `Bound` says
  where in the stream each chunk ends, so a read can split or join chunks. Close
  is three actions because it takes three locks. `Recheck` is the second look
  `splitConn.Read` takes at the mode after the queue gave an end. `Upload` puts
  the client's pipelined POSTs in front of it, each of which may arrive and
  still be reported lost. Every request carries the one token of the conn: after
  `Expire` the fallback site answers in the session's place, a 200 for a chunk that
  nobody stores.
- **XhttpServer.** A request is at one place of its handler; the sweep looks at
  one session at a time, as the loop over the map does. `Age` is the passing of
  the TTL.
- **Tunnel.** The sessions of one id are numbered; a byte is named by the session
  that sent it. `GetOrCreate` makes a new session whenever a request finds none,
  after a sweep or a restart alike. In packet mode each Write is a POST and may reach
  another session than the one before; in stream mode all go to the session the one
  POST of the conn has reached (`feeds`), which may have been forgotten since. Close
  comes from a failure (`broken`, or a Read that gave up) or from whoever dialled once
  the handshake was answered.
- **Proxy.** A frame is two units, since `WriteFrame` makes two Writes; a unit of
  data is what one Read returns. The four copies hold one unit between Read and
  Write, and `CloseEnds` says what closing each end does to the streams in either
  mode: in packet mode a client that closes its conn tells the server nothing.
- **UDPRelay.** Look-up, insertion, delete-by-key, cleanup and close are separate
  critical sections; a framed reply is three Writes under a mutex. The tunnel may
  break at any time. `WriteMessage` refuses a reply that does not fit a frame
  (`TooLarge`) with the tunnel in order; only a reply from an IPv6 address can be that
  long. `encodeAddr` and `decodeAddr` say which destination the host of a message
  becomes.
- **Throttle.** `calls` are the goroutines the listeners run in; each loads what it
  works on and stores what follows from it in two steps.
- **Failover.** The manager over reconnecting transports, as the comment at
  `cmd_connect.go:211` describes the stack. (The command itself has one slot, and
  uses no reconnect wrapper: with one slot `Failover` has nothing to choose.)
- **Provision.** A run of a command is named after the user it makes. Each file it
  writes is one action; of the configuration the truncation is one of its own, as
  another command may load the file in between. No command looks at the error of
  `os.WriteFile`: a file that cannot be opened stays as it was, on a full disk it
  stays empty, and the run goes on (`FillFails`). `Kill` ends a run at any place. The
  server copies what it reads when it
  starts; the links saved and the users revoked at that moment go with it as
  history.
- **Camouflage.** `PeekReads` and `PeekEnds` are the loop of `Peek` with its 5 s
  deadline, during which the listener takes no other connection; `Source` is where
  the next byte of a `PeekConn` comes from. A padded frame is a header, a payload
  of less than `Width` bytes (2^16 in the code, and lengths are taken modulo it) and
  junk; the reader takes it in pieces with `io.ReadFull`.
- **QuicPool.** Refill loop, callers of Dial, the caller of Close, the server's accept
  loop and one handler per connection. The server learns of a stream only when
  data is written on it, as in QUIC.

## 3. Runs

| run | what it shows | bounds |
|---|---|---|
| `MCDownload` | the window is exact, the client reads a prefix of the stream and can resume, everything arrives and the end is told when handlers do not meet, and the whole implements `ReliableStream` | 3 bytes of 2 values, writes of 1–2, window 2, response capacity 2, 2 GETs |
| `MCUpload` | uploads end to end in both modes with loss, reordering, an old token and Close | 5 bytes in 4 chunks (one of 2 bytes), reads of 2, 2 POSTs in flight |
| `MCXhttpServer` | one live session per id, emitted once, served, forgotten | 2 ids, 1 POST, 2 GETs, 2 sessions, `acceptCh` of 1 |
| `MCTunnel` | both modes; cuts, sweeps, restart and an old token: one target, one origin while the token is good, and the end is told (in stream mode, while the session is there) | 3 sessions, handshake of 2 chunks, 4 up, 3 down, 1 restart |
| `MCTunnelSwept` | counterexample: the session is forgotten between two GETs of a client without a timeout | stream mode, 2 sessions, handshake of 2, no restart, no expiry |
| `MCUDPRelay` | what datagrams go out by, whole frames, nobody stuck, sockets end, with large replies and a tunnel that breaks | 3 hosts that decode to 2 destinations, 2 sockets, 2 replies |
| `MCProxy` | a proxied connection from the SOCKS5 request to the end of both relays, in both modes | 1 unit up, 2 down; a name, a quad, a name that begins with the quad |
| `MCThrottle` | parallelism and rotation under overtaking listeners | confirm 2, 1–3 connections, 2 endpoints, 2 calls at once, 2 rotations |
| `MCFailover` | Dial, health check and rotation | 3 slots, 4 transports, 2 attempts, one dialling goroutine |
| `MCProvision` | whatever is killed, cannot be opened or fails: saved links work, the revoked stay out, the server keeps coming up | 3 users, so 3 runs of commands; one after the other, or two that overlap |
| `MCCamouflage` | a probe's bytes reach the site, ours are a stream, clients get through, forwarding ends | 1 client, 1 probe, a peek of 2, 3 bytes of data, frames of less than 3, padding up to 1, reads of 1, 2 bytes of a probe |
| `MCQuicPool` | Close returns and leaves nothing open, streams are accepted | 2 callers, pool of 2, `acceptCh` of 1, 2 connections |

Why the bounds are enough to be interesting. Window, capacity and read size of 2
with 3 bytes let the buffer compact, refuse an old offset, and hand a chunk over
in parts. Two GETs make a stale and a live handler; a third adds another stale
one of the same kind. Four chunks with two in flight make two full batches, so a
gap in the first can be followed by a Write. With `acceptCh` of 1 and two ids the
channel fills. Three sessions are the original, one after a sweep and one after a
restart. Two attempts are the least that make a backoff; three slots the least in
which the health check can promote to a transport that is not the first. A unit that waits
behind another needs two, in one direction; the other has the same two copies. Two calls
at once are the least that overtake. Three users are the first one, one that is revoked
and one added after. A peek of 2 is the least that may get half, so that a probe's
second byte comes on the wire behind the one that was peeked; three bytes against
frames of two split a Write, and reads of one leave leftovers. Two connections let one
be in the refill loop's hand and one with a caller, fill a pool of 2, and fill an
`acceptCh` of 1 so that a handler waits. Each safety property is also a theorem for every value of
the constants (section 5); these bounds matter most to the liveness properties.

`MCProvision` has a state constraint, `TwoOverlap`: three users come one after the
other; where commands, or a command and an edit, have overlapped, there are two.
`SavedLinkWorks` and `ServesDespiteKills` speak of what happens before anything
overlaps; `overlapped` is never reset, and no action that fairness obliges sets it, so
the constraint hides nothing from them. `RevokedStaysOut` speaks of overlapping
commands too: the run checks it for two, the theorem proves it for any number.

In `Tunnel` the last session is not forgotten (`MayForget`), so that a request always
finds a session or makes one: at the bound the model has no server that says nothing.

Deadlock checking is off in all runs: a closed session, a finished connection and
a spent bound are legitimate ends.

## 4. Fairness

Every run with a liveness property assumes that the Go scheduler runs any
goroutine that can go on (weak fairness of each handler's step), and nothing about
what starts a behaviour: no request need arrive, no target need write or end, no
application need close, no network need be cut. Beyond that:

- `HandlerWake` (a `select` on the one-token channel) is strongly fair for each
  handler: a waiting receiver is queued, so it is served when tokens keep coming.
- `UDPRelay`'s mutex is strongly fair: Go mutexes hand over to a waiter after 1 ms.
- The body of a POST yields data or ends: the server's `ReadTimeout` is 30 s
  (`cmd_server.go:123`).
- In packet mode a silent GET is cut by the 30 s timeout of the plain `http.Client`
  (`cmd_connect.go:144`), three times in a row, so the client's Read fails in the
  end (`mode = "packet" /\ Cut` in `Tunnel`, likewise in `Proxy`). The uTLS client,
  which uploads in stream mode, has no timeout, and stream mode gets no such assumption.
- `Tunnel`: the Writes of a handshake go on; later ones need not come.
- A UDP read ends at its 60 s deadline at the latest.
- The health check's ticker ticks, the TTL passes, a backoff ends.
- `QuicPool`: `RefillStops` is strongly fair, for the `select` that also has the
  delay picks at random among what is ready; the application goes on accepting.
- `Camouflage`: the deadline of a Peek passes; our client's token comes with its
  connection; the application reads. Nothing obliges a probe or the site to end.
- `Provision`: a command that runs goes on, and a supervisor starts the server
  again. Nobody need begin a command, and the server may stop at any time.

## 5. What is proved

For every value of the constants, by TLAPS:

| theorem | states |
|---|---|
| `BufferCorrect`, `BufferMonotone` | any sequence of calls keeps the buffer's contents exact and the replay window whole; nothing is un-delivered or written after Close |
| `DownloadTypes`, `NoLossNoDup`, `AlwaysResumable`, `DownloadImplementsStream` | any number of GETs, cuts and stale handlers: the client reads a prefix of what was written, can resume if no response holds more than the window, and the path implements `ReliableStream` |
| `SessionTypes`, `UploadLossless`, `EndsAreReal`, `NoStoreIntoNil`, `NoLostWakeup` | any stream, any chunking, any read size, both modes, Close at any time |
| `UploadRefinesSession`, `UploadTypes`, `GapEndsTheConn`, `UploadImplementsStream` | client and server together behave as `Session` allows, so all of the above holds end to end; behind a chunk that is missing for good, whether its POST failed or the fallback site took it, nothing of a later Write is stored; the path implements `ReliableStream` |
| `ServerTypes`, `OneLiveSession`, `EmitsOnce` | any number of ids, requests and sessions and any `acceptCh`: the manager has every open session, so no id has two; a session reaches the accept loop at most once |
| `KeepsToOneTunnel` | both modes, any number of sessions, restarts and chunks: the handshake reaches one session, and while the token is good the client reads that session's stream from its first byte |
| `SentIsAnswerable`, `FramesAreWhole` | any destinations, sockets and replies: each entry of the map, and the socket `Run` is about to send by, is closed or has a reader at work for that destination, unless the tunnel is gone or the destination is not IPv4; the three Writes of a frame stay together |
| `SuccessMeansDialled`, `NothingIsCutOff`, `RelayIsTwoStreams` | any hosts and any two streams, both modes: success is a dialled target; an undisturbed relay has delivered all when it closes the application; both directions implement `ReliableStream` |
| `LinksWork`, `RevocationLasts` | any number of users, runs and edits, kills anywhere, files that cannot be opened or written: who is revoked stays out, however commands overlap, unless a run held a list with him that it had yet to write; as long as no two overlap, a saved link works until its user is revoked, if his entry was written |
| `PeekingIsTransparent`, `TunnelIsStream` | any probes, data, widths of a length and read sizes: the site sees a probe's bytes from the first on; the server reads the stream the client wrote |
| `ParallelismFollows` | any thresholds and numbers of connections, any number of calls at once: as long as none overtakes another, the parallelism at rest fits the verdict |
| `TransportsAccounted`, `SwitchesMove` | any numbers of transports, dials and rotations: a transport is in one slot, still to be closed, or closed, and a dial uses its slot's or one rotated out; a promotion rises, a fallback changes the slot |
| `PoolLeaksNothing`, `PoolSharesNothing` | any pool size and any callers: a Close that has returned leaves open only what Dial gave away; a connection has one owner |

The arguments:

- **Buffer.** `BufInv`: the contents are the piece of the log from `discarded`
  on, `discarded <= delivered <= end`, and `delivered - discarded` is at least the
  window unless nothing was discarded. Each call keeps the three parts by facts about pieces of
  a sequence (`SliceLemmas`).
- **Download.** What the client has read is a prefix only because of where the
  rest is: for the handler of the current GET, *received ++ response ++ chunk* is
  the piece of the log up to its offset (`Accounted`). Resuming needs a bound on
  how far an acknowledgement can run ahead of the client, which includes stale
  handlers: no handler has acknowledged more than `Cap` beyond what the client
  had when its response was cut (`BoundedLead`).
- **Session.** Besides types: packets and stream never mix (`ModesApart`), the
  three stages of Close match queue and pipe (`ControlOK`, `NoStoreAfterClose`),
  the reader's place agrees with what it holds (`ReaderOK`), and what was given out
  plus what is held plus what the pipe carries is one piece of the stream
  (`BytesOK`). `WaitIsJustified` is inductive with these.
- **Upload.** Steps of the client leave the server's variables alone or push a
  chunk, so `UpSpec => SessSpec`. For the gap: POSTs in flight are of the
  current Write (`Settled`), and so are their results (`ResultsOK`); it begins where
  the last that succeeded ends, and a broken conn begins none (`WritesOK`); nothing
  unsent is stored (`SentFirst`). An answer by the fallback site makes gaps of its own,
  in the middle of a stream of Writes that succeed; they come only after `Expire`, and
  after that nothing is stored (`GapsOK`).
- **XhttpServer.** That every open session is in the map needs the map to be right
  the other way round too (`MapOK`), and that the session the sweep has decided to
  expire is still the one the map has (`SweepOK`: requests wait for the manager's
  lock). For emission: an emitted session is in exactly one place, with a handler, in
  `acceptCh`, dropped or with its tunnel (`Emission`), and neither two handlers nor
  two places of the channel have the same one (`Alike`).
- **Tunnel.** A chunk that has reached a session, waiting or read, has reached no
  other (`OneHolder`); it was numbered before (`Numbered`), and a POST under way has
  not reached any (`NotYetPosted`). A session that answered has read a chunk
  (`Answered`), so all that answered are one, and what the client has read comes
  from sessions that answered (`Read`).
- **UDPRelay.** `EntryServed` needs to know what `Run` has in hand between its
  look-up and its insertion: a socket nobody else knows yet (`RunOK`), and that no
  reader exists for a socket not yet made (`Unstarted`). A reader leaves its entry
  behind in two ways only, and `Served` names both. For the frames: whoever
  writes is the holder of the lock (`Exclusive`), and the length of the wire modulo
  three is how many parts he has written (`WireEnds`); a Write that fails lets go
  of the lock in the middle of a frame, but only once the tunnel is gone.
- **Proxy, handshake.** `Hand`: before the server has the request the upload holds
  nothing else (`Asking`), the first frame of the download is the answer, and OK is
  there for a dial only (`Answering`, `Told`).
- **Proxy, data.** Each direction is a *line*: what is out, what the second copy
  holds, what lies between the copies, what the first holds and what is still before
  it are slices of what was sent, one behind the other (`Up`, `Down`). A line may
  have a hole -- what a copy whose Write failed held is lost -- but only between its two
  halves, and then the copy in front of the hole writes no more, so that
  the output stays a prefix. That gives `RelayIsTwoStreams`. For
  `LastByteDelivered`, `Drained` follows the end the other way round: with no fault,
  the application still there and nothing lost upward, a relay is over only because
  the target hung up, the server's when all the target sent is past it, the
  client's when the application has it. It needs that a client that gave up leaves
  nothing dialled (`GivenUp`) and who closes which stream (`Closings`).
- **Provision.** Three layers. Types, and what a run has yet to write, hold always. So
  does what is known of the revoked (`ListInv`): no list, in the file, in a run's hand or
  in the server, has a revoked user but one who was in a run's hand when he was revoked
  (`ListsPurged`), since a run adds only its own user (`OwnOnly`). As long as nothing
  has overlapped (`InTurn`) one run is under way at most, so the configuration it is
  about to write and the one in the file can be compared: each `Fits` the links there
  are, the revoked and the unlisted users (`RunFits`). A run killed between truncation
  and writing leaves no configuration to be loaded; one killed before, or one that
  could not open the file, leaves the old one, which still fits.
- **Camouflage.** What was peeked and what is on the wire are the last two slices of
  what was sent; a site has the slice before them (`Transparent`). For the padded data,
  the units sent are divided into frames, with the number of bytes that come before
  each (`Framing`); the reader is where one begins, whatever it has of it (`Reading`),
  since a payload and a padding are less than `Width` and no length in a header
  wraps round.
- **Throttle.** The calls of `onStateChange` under way, in the order they were
  started, foretell the number of connections: doublings and halvings alternate
  (`HalvedBetween`), the oldest call finds the number it has loaded
  (`OldestLoads`), a doubling finds the base (`DoublesTheBase`) and the youngest
  says what the verdict is (`SaysTheVerdict`). Once one overtakes another nothing
  of this holds.
- **Failover.** `Accounted` says where each transport is, and that a dial has the one
  its slot holds or one that left it: it needs that whoever tries a transport still
  has its slot at the head of its list (`OnSlot`). For `SwitchMoves` the list of the
  health check holds only slots of higher priority than the one it saw
  (`OnlyHigher`), and a Dial that is about to switch has passed the one it began with
  (`FellBack`); neither looks at `activeIdx`, so they hold although it may have changed
  since. (What they do not give: after such a change a promotion may still
  lower the priority of the active slot; `PrimaryRegained` says this does not last.)
- **QuicPool.** Where a connection is: in the pool once, in the refill loop's hand, or
  with one caller (`HoldersOK`, `Unshared`), and every open one is somewhere
  (`Owned`). Once Close waits, its loop's end is what it waits for, so nothing is put
  into the pool after it is drained (`CloserOK`).

Assumptions are named in the modules: chunks are sequences over `Byte`
(`ChunkAssumption`), window, buffer, capacity, read size and pipeline depth are
positive, `Bound` is monotone from 0 to the length of the stream
(`BoundAssumption`), capacities and counts are natural numbers, the handshake has at
least one chunk (`HsAssumption`), what either end of a relay sends is a finite sequence
(`StreamAssumption`), a quad names itself (`HostAssumption`), a padding fits into the
width of its length (`SizesAssumption`), the base of parallelism is no more than its
maximum (`AdaptiveAssumption`), and `NoGet`, `None`, `Nil`, `Absent` and `Empty` are none
of what they stand beside.

Two assumptions about the world are in the modules' comments: at Dial the clocks of both
ends agree to `MaxTimeDiff`, so the token of a tunnel is good at first and then grows old
(`Upload`, `Tunnel`); and no chunk is longer than the server reads of a POST's body
(`Upload`; section 6 has the case where that fails).

`LinksWork` says nothing of overlapping commands, nor `ParallelismFollows` of calls that
overtake each other, as the properties do not: the code breaks what they ask then
(section 6). `RevocationLasts` excepts the one user a run may bring back, and
`SentIsAnswerable` the two ways in which a reader leaves its entry.

Only model-checked: every liveness property, fairness being beyond the prover, and
with them the second half of `ImplementsStream` in `Camouflage` (all that was written
is read in the end), whose first half is `TunnelIsStream`. Only proved: `OneOwner` of
the pool, and `Accounted` and `SwitchMoves` of `Failover`, whose runs check liveness.
Every safety invariant that a run checks, and each refinement, is proved.

## 6. Where code and documents disagree

`MCTunnelSwept` checks what the repository says against what its code does
(`xhttp/server.go:146`). In stream mode, as with the uTLS client, nothing ends a GET but
the server: the handshake is answered, the relay ends, the cleanup loop forgets the
closed session, and the client's Read, which has seen the end of its GET or lost it, asks
again. That GET makes a fresh session, open and empty, and Read blocks instead of
returning the end that `download_buffer.go:141-143` promises. The packet mode of
`nv connect` has a timeout of 30 s (`cmd_connect.go:144`), after which Read fails;
`EndReachesReaderUnswept` shows that, and that in stream mode Read ends as long as the
manager has the session.

Seen while modelling, and without a run of their own. In tunnels:

- The notification of a session has room for one token and all its GET handlers wait
  on it. A stale one may take the token, fail its write and return; the live one
  then waits although data is buffered (`xhttp/server.go:196`).
  `NextGetResumesAlone` shows that this is the only obstacle. In the same way Close wakes
  one of two (`CloseEndsResponseAlone`).
- A session whose emission finds `acceptCh` full has no reader for ever: `emitted` is
  set, so no later request emits it (`xhttp/server.go:214-229`; `dropped`, which
  `ConnectedIsServed` excepts).
- The sweep may judge a session that no GET has connected yet while the first GET holds
  it: the session is then closed and forgotten under the tunnel that this GET starts
  (`session/manager.go:306`). `NoSplitBrain` shows that there are never two open ones.
- A vanished client of packet mode tells the server nothing, and only Close makes the
  cleanup loop forget a connected session: its tunnel stays while the target does
  (`session/manager.go:301`; `EndEndsAll` promises nothing here).
- The token is made once per tunnel, so a GET repeated after 120 s is answered by the
  fallback page, which `Read` returns as data (`xhttp/client.go:47`,
  `server.go:165`). `OneTunnel` shows the rest is sound while the token is good. A POST
  is answered by it with status 200 too, so Writes go on to report success for data that
  no session stores (`xhttp/client.go:393-403`, `fallback/handler.go:55-59`). `GapIsLast`
  shows that the relay at least gets no data from behind such a gap.
- `Sscanf` takes a name that begins with a dotted quad for that quad
  (`internal/protocol/framing.go:148`; `Proxy` and `UDPRelay` decode it so), and a
  name longer than 255 bytes is written with its length modulo 256 (`:95`).
- `ensureStreamPipe` does not look whether the session is closed. A stream POST
  handled after Close makes a pipe that nobody reads or closes, and its handler
  stays in the pipe's Write (`session/manager.go:174`).
- `readFromDest` deletes by destination, not by socket: the error path of an older
  reader takes a newer socket out of the map, and Close passes it over; it ends
  by its own deadline (`internal/proxy/udprelay.go:111`; `SocketsEnd` allows for it).
- A reply that does not fit a frame (more than 65516 bytes from an IPv6 address) ends
  the reader of its socket on a tunnel that works (`internal/protocol/udp.go:39`,
  `udprelay.go:124-126`). The entry stays: datagrams to that destination go out, and
  their replies are read by nobody, until none has been sent for 60 s and the cleanup loop
  closes the socket. A socket so left whose entry an older reader takes out is never
  closed (`SocketsEnd` excepts it).
- Two rebuilds may finish in the other order, so the manager dials with older
  parameters until the next rotation (`RotationTakesEffect` names the case).
- Each verdict's `onStateChange` runs in a goroutine of its own (`throttle/detector.go:165`).
  A halving that runs before the doubling it answers does nothing, and the
  doubling stays, with every later pair on top of it (`throttle/adaptive.go:94-99`).
- `rotateParams` (level 1) has no listener in `nv connect`: its parameters take
  effect with the next session rotation.
- A rotated `ChunkSize` larger than the server's `MaxChunkSize + 1024` is cut off
  without an error (`xhttp/server.go:99`).
- `MultiplexedWriter.resize` fills the new semaphore while a Write holds a token of
  the old one; the Write gives it back to the new, full channel and blocks
  (`xhttp/multiplex.go:60`; no command uses the type yet).
- The canary's HTTP client is the tunnel's own and does not go through the tunnel
  (`cmd_connect.go:156-158`), though `canary.go:66` says so; `Throttle` only uses
  that a probe succeeds or fails.

In the tools and at the start of the server:

- `setup` and `init` write `fallback mode: "default"`, so `fbMode == ""` is false and
  a REALITY destination is never proxied to (`cmd_server.go:84`), though the comment
  at `cmd_server.go:81` and the prompt at `cmd_setup.go:68` say so.
- A run killed inside the write of the configuration leaves an empty file, which
  `setup` takes for "already configured" (`cmd_setup.go:38`); the server cannot start
  (`ServesDespiteKills` allows for it).
- The error of every `os.WriteFile` is dropped. An `adduser` that cannot open
  `server.yaml`, or fills the disk, still saves the link and says that the user was
  added (`cmd_adduser.go:108-131`; `unlisted`); a `setup` saves a link although it could
  write no configuration (`cmd_setup.go:141-168`).
- Overlapped runs of `adduser` may write back what the other had truncated, an empty
  configuration or one without the other's user (hence `~overlapped` in
  `SavedLinkWorks`). A user whom the operator takes out between `cmd_adduser.go:90` and
  `:108` is back on the list after it (`recalled`); an edit counts as one step, so the
  time an editor is open counts as the moment at which it saves.
- To an empty list of users `adduser` adds nothing and says that it did
  (`cmd_adduser.go:98-131`; `unlisted`). With a configuration of `init`, which has no
  `server_ip`, its link has the host `YOUR_SERVER_IP`.
- `nv link` does not show `import.txt` once `links/` has a file (`cmd_link.go`).

In parts no command uses:

- With one end of a forwarded probe gone, `forwardToDest` waits for the other copy, so
  a probe does not see the site's end before its own (`reality.go:112`). A Peek that
  failed half-way keeps what it got, and a later Peek for more drops it
  (`reality.go:144`; `authTest` peeks once).
- `PooledTransport.Dial` after Close gets the zero value of the closed channel and
  returns neither a connection nor an error (`pool.go:63`); a pooled connection may
  have died before it is handed out.
- The QUIC server's accept loop closes `acceptCh` while handlers may still send
  (`quictun/transport.go:131`, `:144`), which panics (`SendAccepted`).
  `quicStreamConn.Close` leaves the QUIC connection to its idle timeout.
- A second Close of a `HoppingPacketConn` panics; a padding of 65536 or more wraps
  round in the header.

## 7. Not modelled, and why

- Cryptography, token encoding, parsing of a ClientHello, TLS and uTLS settings, the
  QUIC obfuscation (a XOR with a hash): nothing for TLC to explore; their effects are
  in `Tunnel`, `Provision` and `Camouflage`.
- Contents: bytes are values of a small set, parameters are numbered, samples are
  good or bad. A configuration is its key and its users; YAML and the text of a URI,
  prompts, address detection, logging and the status page are text and I/O.
- Shaping, jitter and cover traffic change when bytes are sent, by sleeping for random
  times; no property here depends on it, and no command uses them.
- Port hopping, which no code of the repository starts; the raw transport, a wrapper
  without state; the client library's interfaces and the sing-box adapter, which dial
  a client and shake hands as `Proxy` does.
- The multiplexed writer, the rate limiter and the UDP client, which no command uses:
  left for later (section 8).
- `Manager.Get`, `Remove`, `Count` and `Server.Close` of the session manager: no
  caller outside tests. `transport.Manager.Close`: at exit only.
- Go-level data races on pointers (`downloadBody` is loaded and closed under
  different locks): a closed body gives an error in the models.

## 8. Plan

Built so far, in this order of importance: download, upload, server, tunnel,
proxied connection, UDP relay, throttle, failover, provisioning, REALITY and padding,
pool and QUIC. What is left:

1. **Codec**: frames, connect payloads and the SOCKS5 request as operators over bytes,
   with decode-after-encode over bounded inputs and the widths of their length fields
   (`framing.go:95`; the chunk limit, `xhttp/server.go:99`).
2. **UDPClient**: `UDPRelayClient` in front of `UDPRelay`.
3. **MultiplexedWriter** (semaphore resized under use, `xhttp/multiplex.go:60`),
   **RateLimiter**, port hopping.
4. Composition of `XhttpServer` with the sessions of `Tunnel`, so that two tunnels
   share the manager and `acceptCh`.
