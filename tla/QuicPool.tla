------------------------------ MODULE QuicPool ------------------------------
(***************************************************************************)
(* The connection pool of internal/transport/pool.go over the QUIC         *)
(* transport of internal/transport/quictun: the refill loop, the callers   *)
(* of Dial and the one that calls Close share the channel of prepared      *)
(* connections; at the server the accept loop, one handler per connection  *)
(* and the application share acceptCh.  A connection is one QUIC           *)
(* connection with its one stream, and its UDP socket at the client.       *)
(***************************************************************************)
EXTENDS Integers, Sequences

CONSTANTS
  Callers,   \* goroutines that call Dial
  Size,      \* PoolConfig.Size
  Backlog,   \* room in Server.acceptCh, 64 in the code
  MaxConns,  \* bound: connections ever made
  Nil        \* the nil connection

Conns == 1 .. MaxConns

ASSUME SizeAssumption == Size \in Nat \ {0} /\ Backlog \in Nat \ {0} /\ MaxConns \in Nat
ASSUME NilAssumption == Nil \notin Conns

VARIABLES
  pool,       \* PooledTransport.pool
  poolClosed, \* close(pool) was done
  cancelled,  \* ctx is cancelled
  refill,     \* where the refill loop is
  inHand,     \* the connection it has dialled
  closer,     \* where the one that calls Close is
  call,       \* call[d]: where the caller d is
  conn,       \* conn[d]: what its Dial returned
  made,       \* connections made so far
  open,       \* those whose client end nobody has closed
  wrote,      \* those whose stream carried data: the server knows of it only then
  listening,  \* Server.Close has not been called
  acceptCh, acceptClosed,  \* Server.acceptCh
  handler,    \* handler[c]: where handleQUICConn of c is
  accepted    \* the connections Accept returned

refillVars == <<refill, inHand>>
poolVars == <<pool, poolClosed, cancelled, closer>>
callVars == <<call, conn>>
wireVars == <<made, open, wrote>>
serverVars == <<listening, acceptCh, acceptClosed, handler, accepted>>
quicPoolVars == <<refillVars, poolVars, callVars, wireVars, serverVars>>

QuicPoolInit ==
  /\ pool = <<>> /\ poolClosed = FALSE /\ cancelled = FALSE
  /\ refill = "fill" /\ inHand = Nil
  /\ closer = "none"
  /\ call = [d \in Callers |-> "idle"] /\ conn = [d \in Callers |-> Nil]
  /\ made = 0 /\ open = {} /\ wrote = {}
  /\ listening = TRUE /\ acceptCh = <<>> /\ acceptClosed = FALSE
  /\ handler = [c \in Conns |-> "none"] /\ accepted = {}

----------------------------------------------------------------------------
(* quictun.Client.Dial: a socket, a QUIC connection, a stream on it.  It     *)
(* needs a server that listens; a failure closes the socket.                 *)
Connect(c) ==
  /\ listening /\ made < MaxConns
  /\ c = made + 1
  /\ made' = c /\ open' = open \cup {c}
  /\ UNCHANGED wrote

(* The refill loop dials while the pool has room.  A dial begun with a       *)
(* cancelled context fails, and then the loop ends.                          *)
RefillChecks ==
  /\ refill = "fill"
  /\ refill' = IF Len(pool) >= Size THEN "wait" ELSE IF cancelled THEN "done" ELSE "dial"
  /\ UNCHANGED <<inHand, poolVars, callVars, wireVars, serverVars>>

RefillDials ==
  /\ refill = "dial"
  /\ \E c \in Conns : Connect(c) /\ inHand' = c
  /\ refill' = "put"
  /\ UNCHANGED <<poolVars, callVars, serverVars>>

(* A refill that dials again at once after a failure, whatever the failure. *)
RefillDialRetries ==
  /\ refill = "dial"
  /\ UNCHANGED quicPoolVars

(* The dial failed: the loop ends if its context did, or waits.              *)
RefillDialFails ==
  /\ refill = "dial"
  /\ refill' = IF cancelled THEN "done" ELSE "wait"
  /\ UNCHANGED <<inHand, poolVars, callVars, wireVars, serverVars>>

RefillPuts ==
  /\ refill = "put"
  /\ IF Len(pool) < Size
       THEN pool' = Append(pool, inHand) /\ UNCHANGED open
       ELSE open' = open \ {inHand} /\ UNCHANGED pool
  /\ refill' = "fill" /\ inHand' = Nil
  /\ UNCHANGED <<poolClosed, cancelled, closer, callVars, made, wrote, serverVars>>

(* select: the timer, or the end of the context.                             *)
RefillDelayOver ==
  /\ refill = "wait"
  /\ refill' = "fill"
  /\ UNCHANGED <<inHand, poolVars, callVars, wireVars, serverVars>>

RefillStops ==
  /\ refill = "wait" /\ cancelled
  /\ refill' = "done"
  /\ UNCHANGED <<inHand, poolVars, callVars, wireVars, serverVars>>

Refill == RefillChecks \/ RefillDials \/ RefillDialFails \/ RefillPuts
          \/ RefillDelayOver \/ RefillStops

----------------------------------------------------------------------------
(* PooledTransport.Close cancels, waits for the loop, closes the channel and *)
(* drains it.                                                                *)
Cancel ==
  /\ closer = "none"
  /\ cancelled' = TRUE /\ closer' = "wait"
  /\ UNCHANGED <<pool, poolClosed, refillVars, callVars, wireVars, serverVars>>

(* A Close that does not wait for the loop. *)
ClosePoolAtOnce ==
  /\ closer = "wait"
  /\ poolClosed' = TRUE /\ closer' = "drain"
  /\ UNCHANGED <<pool, cancelled, refillVars, callVars, wireVars, serverVars>>

ClosePool ==
  /\ closer = "wait" /\ refill = "done"
  /\ poolClosed' = TRUE /\ closer' = "drain"
  /\ UNCHANGED <<pool, cancelled, refillVars, callVars, wireVars, serverVars>>

Drain ==
  /\ closer = "drain"
  /\ IF pool = <<>>
       THEN closer' = "returned" /\ UNCHANGED <<pool, open>>
       ELSE open' = open \ {Head(pool)} /\ pool' = Tail(pool) /\ UNCHANGED closer
  /\ UNCHANGED <<poolClosed, cancelled, refillVars, callVars, made, wrote, serverVars>>

----------------------------------------------------------------------------
Gets(d, c) ==
  /\ call' = [call EXCEPT ![d] = "has"]
  /\ conn' = [conn EXCEPT ![d] = c]

(* PooledTransport.Dial takes what the channel has; a closed channel that is *)
(* empty gives nil, without an error; ...                                    *)
DialTakes(d) ==
  /\ call[d] = "idle"
  /\ \/ /\ pool # <<>>
        /\ Gets(d, Head(pool)) /\ pool' = Tail(pool)
     \/ /\ pool = <<>> /\ poolClosed
        /\ Gets(d, Nil) /\ UNCHANGED pool
  /\ UNCHANGED <<poolClosed, cancelled, closer, refillVars, wireVars, serverVars>>

(* ... an open channel that is empty makes it dial by itself.                *)
DialDirect(d) ==
  /\ call[d] = "idle" /\ pool = <<>> /\ ~poolClosed
  /\ call' = [call EXCEPT ![d] = "dial"]
  /\ UNCHANGED <<conn, refillVars, poolVars, wireVars, serverVars>>

DialDirectEnds(d) ==
  /\ call[d] = "dial"
  /\ \/ \E c \in Conns : Connect(c) /\ Gets(d, c)
     \/ call' = [call EXCEPT ![d] = "idle"] /\ UNCHANGED <<conn, wireVars>>
  /\ UNCHANGED <<refillVars, poolVars, serverVars>>

(* The caller writes on its connection, and closes it at last; a nil one     *)
(* would be its panic.  Close closes the stream and the socket, and tells    *)
(* the server nothing of the QUIC connection.                                *)
UseConn(d) ==
  /\ call[d] = "has" /\ conn[d] # Nil
  /\ wrote' = wrote \cup {conn[d]}
  /\ UNCHANGED <<made, open, refillVars, poolVars, callVars, serverVars>>

CloseConn(d) ==
  /\ call[d] = "has" /\ conn[d] # Nil
  /\ open' = open \ {conn[d]}
  /\ call' = [call EXCEPT ![d] = "idle"] /\ conn' = [conn EXCEPT ![d] = Nil]
  /\ UNCHANGED <<made, wrote, refillVars, poolVars, serverVars>>

Caller(d) == DialTakes(d) \/ DialDirect(d) \/ DialDirectEnds(d) \/ UseConn(d) \/ CloseConn(d)

----------------------------------------------------------------------------
Handler(c, from, to) ==
  /\ handler[c] = from
  /\ handler' = [handler EXCEPT ![c] = to]
  /\ UNCHANGED <<refillVars, poolVars, callVars, wireVars>>

(* An accept loop that serves a connection itself before it takes another. *)
AcceptQUICInTurn(c) ==
  /\ listening /\ c <= made
  /\ \A e \in Conns : handler[e] \in {"none", "ended"}
  /\ Handler(c, "none", "streams")
  /\ UNCHANGED <<listening, acceptCh, acceptClosed, accepted>>

(* acceptLoop starts a handler for each connection ... *)
AcceptQUIC(c) ==
  /\ listening /\ c <= made
  /\ Handler(c, "none", "streams")
  /\ UNCHANGED <<listening, acceptCh, acceptClosed, accepted>>

(* ... and closes acceptCh when the listener ends.                           *)
AcceptLoopEnds ==
  /\ ~listening /\ ~acceptClosed
  /\ acceptClosed' = TRUE
  /\ UNCHANGED <<listening, acceptCh, handler, accepted, refillVars, poolVars,
                 callVars, wireVars>>

(* handleQUICConn: AcceptStream returns the stream that carried data, once.  *)
AcceptStream(c) ==
  /\ c \in wrote
  /\ Handler(c, "streams", "send")
  /\ UNCHANGED <<listening, acceptCh, acceptClosed, accepted>>

(* The send on acceptCh waits for room, and panics when it is closed.        *)
SendAccepted(c) ==
  /\ IF acceptClosed
       THEN Handler(c, "send", "panic") /\ UNCHANGED acceptCh
       ELSE /\ Len(acceptCh) < Backlog
            /\ Handler(c, "send", "served")
            /\ acceptCh' = Append(acceptCh, c)
  /\ UNCHANGED <<listening, acceptClosed, accepted>>

(* The connection ends: the server was closed, or the client has been silent *)
(* for MaxIdleTimeout, which it is only after it closed its socket.          *)
ConnEnds(c) ==
  /\ ~listening \/ c \notin open
  /\ \E from \in {"streams", "served"} : Handler(c, from, "ended")
  /\ UNCHANGED <<listening, acceptCh, acceptClosed, accepted>>

(* Server.Accept, which the application calls in a loop. *)
Accept ==
  /\ acceptCh # <<>>
  /\ accepted' = accepted \cup {Head(acceptCh)} /\ acceptCh' = Tail(acceptCh)
  /\ UNCHANGED <<listening, acceptClosed, handler, refillVars, poolVars, callVars, wireVars>>

ServerClose ==
  /\ listening
  /\ listening' = FALSE
  /\ UNCHANGED <<acceptCh, acceptClosed, handler, accepted, refillVars, poolVars,
                 callVars, wireVars>>

----------------------------------------------------------------------------
QuicPoolNext ==
  \/ Refill
  \/ Cancel \/ ClosePool \/ Drain
  \/ \E d \in Callers : Caller(d)
  \/ \E c \in Conns : AcceptQUIC(c) \/ AcceptStream(c) \/ SendAccepted(c) \/ ConnEnds(c)
  \/ AcceptLoopEnds \/ Accept \/ ServerClose

QuicPoolSpec == QuicPoolInit /\ [][QuicPoolNext]_quicPoolVars

(* Goroutines go on; select chooses among the ready cases at random, so the  *)
(* end of the context is not passed over for ever; the application accepts.  *)
QuicPoolFairSpec ==
  /\ QuicPoolSpec
  /\ WF_quicPoolVars(Refill) /\ SF_quicPoolVars(RefillStops)
  /\ WF_quicPoolVars(ClosePool \/ Drain)
  /\ WF_quicPoolVars(Accept)
  /\ \A c \in Conns : WF_quicPoolVars(AcceptQUIC(c) \/ AcceptStream(c) \/ SendAccepted(c))

----------------------------------------------------------------------------
(* Whatever the refill loop was doing when Close was called (dialling, about *)
(* to put a connection), a Close that has returned leaves no connection open *)
(* but those Dial gave away (pool.go:73).                                    *)
NothingLeaks ==
  closer = "returned" => \A c \in open : \E d \in Callers : conn[d] = c

(* Close returns: the loop it waits for notices the end of its context in    *)
(* every place it may be.                                                    *)
CloseReturns == closer = "wait" ~> closer = "returned"

(* A connection that carried data is accepted, however many others live and  *)
(* although a handler waits while acceptCh is full, unless an end closes.    *)
StreamsServed ==
  \A c \in Conns : c \in wrote ~> (c \in accepted \/ c \notin open \/ ~listening)
=============================================================================
