--------------------------- MODULE TransportProofs ---------------------------
(***************************************************************************)
(* Proofs about what a client keeps to itself beside its tunnels: the pool *)
(* of QUIC connections (QuicPool), for any number of callers, size and     *)
(* number of connections, the verdict on throttling with what follows from *)
(* it (Throttle), for any thresholds and any number of calls at once, and  *)
(* the choice of a transport (Failover), for any number of transports,     *)
(* dials and rotations.                                                    *)
(***************************************************************************)
EXTENDS QuicPool, Throttle, Failover, TLAPS

(***************************************************************************)
(* The pool.  The invariant says who owns a connection: the refill loop,   *)
(* the pool, or one caller; and how far Close has come when the refill     *)
(* loop has ended.                                                         *)
(***************************************************************************)

Pooled == {pool[i] : i \in 1 .. Len(pool)}

PoolTypes ==
  /\ pool \in Seq(Conns)
  /\ inHand \in Conns \cup {Nil}
  /\ conn \in [Callers -> Conns \cup {Nil}]
  /\ call \in [Callers -> {"idle", "dial", "has"}]
  /\ made \in 0 .. MaxConns
  /\ open \subseteq Conns

(* A caller and the refill loop hold a connection only where they should. *)
HoldersOK ==
  /\ refill = "put" <=> inHand # Nil
  /\ \A d \in Callers : call[d] # "has" => conn[d] = Nil

(* Close waits for the refill loop before it closes the pool. *)
CloserOK ==
  /\ closer \in {"drain", "returned"} => refill = "done"
  /\ closer = "returned" => pool = <<>>

(* An open connection is somebody's. *)
Owned ==
  \A c \in open : c = inHand \/ c \in Pooled \/ \E d \in Callers : conn[d] = c

(* Nobody holds a connection that was not made, and nobody shares one. *)
Made(c) == c = Nil \/ c \in 1 .. made
AllMade ==
  /\ Made(inHand) /\ Pooled \subseteq 1 .. made
  /\ \A d \in Callers : Made(conn[d])

Unshared ==
  /\ \A i, j \in 1 .. Len(pool) : pool[i] = pool[j] => i = j
  /\ inHand \notin Pooled
  /\ \A d \in Callers :
       /\ conn[d] \notin Pooled
       /\ conn[d] # Nil => conn[d] # inHand
       /\ \A e \in Callers : conn[d] # Nil /\ conn[d] = conn[e] => d = e

PoolInv == PoolTypes /\ HoldersOK /\ CloserOK /\ Owned /\ AllMade /\ Unshared

(* No two callers of Dial are ever given the same connection. *)
OneOwner ==
  \A d, e \in Callers : conn[d] # Nil /\ conn[d] = conn[e] => d = e

----------------------------------------------------------------------------
(* The first element of a sequence and the rest of it. *)
LEMMA FirstAndRest ==
  ASSUME NEW S, NEW s \in Seq(S), s # <<>>
  PROVE  /\ Head(s) \in S /\ Tail(s) \in Seq(S)
         /\ Len(s) \in Nat \ {0} /\ Len(Tail(s)) = Len(s) - 1
         /\ Head(s) = s[1]
         /\ \A i \in 1 .. Len(Tail(s)) : Tail(s)[i] = s[i + 1]
  OBVIOUS

(* Taking the first connection out of the pool, when nothing is twice in it. *)
LEMMA TakeFirst ==
  ASSUME pool \in Seq(Conns), pool # <<>>, pool' = Tail(pool),
         \A i, j \in 1 .. Len(pool) : pool[i] = pool[j] => i = j
  PROVE  /\ Pooled' = Pooled \ {Head(pool)} /\ Head(pool) \in Pooled
         /\ \A i, j \in 1 .. Len(pool') : pool'[i] = pool'[j] => i = j
  <1>1. /\ Len(pool) \in Nat \ {0} /\ Len(pool') = Len(pool) - 1
        /\ Head(pool) = pool[1]
        /\ \A i \in 1 .. Len(pool') : pool'[i] = pool[i + 1]
    BY FirstAndRest
  <1>2. Head(pool) \in Pooled  BY <1>1 DEF Pooled
  <1>3. \A i \in 2 .. Len(pool) : i - 1 \in 1 .. Len(pool') /\ pool'[i - 1] = pool[i]
    BY <1>1
  <1>4. ASSUME NEW c PROVE c \in Pooled' <=> c \in Pooled /\ c # Head(pool)
    <2>1. c \in Pooled' => c \in Pooled /\ c # Head(pool)
      BY <1>1 DEF Pooled
    <2>2. ASSUME c \in Pooled, c # Head(pool) PROVE c \in Pooled'
      <3>1. PICK i \in 1 .. Len(pool) : pool[i] = c  BY <2>2 DEF Pooled
      <3>2. i \in 2 .. Len(pool)  BY <3>1, <2>2, <1>1
      <3>. QED  BY <3>1, <3>2, <1>3 DEF Pooled
    <2>. QED  BY <2>1, <2>2
  <1>5. \A i, j \in 1 .. Len(pool') : pool'[i] = pool'[j] => i = j
    BY <1>1
  <1>. QED  BY <1>2, <1>4, <1>5

(* Putting a connection into it. *)
LEMMA PutLast ==
  ASSUME pool \in Seq(Conns), inHand \in Conns, pool' = Append(pool, inHand),
         inHand \notin Pooled,
         \A i, j \in 1 .. Len(pool) : pool[i] = pool[j] => i = j
  PROVE  /\ pool' \in Seq(Conns) /\ Pooled' = Pooled \cup {inHand}
         /\ \A i, j \in 1 .. Len(pool') : pool'[i] = pool'[j] => i = j
  <1>1. /\ pool' \in Seq(Conns) /\ Len(pool) \in Nat /\ Len(pool') = Len(pool) + 1
        /\ pool'[Len(pool) + 1] = inHand
        /\ \A i \in 1 .. Len(pool) : pool'[i] = pool[i]
    OBVIOUS
  <1>2. \A i \in 1 .. Len(pool') : i \in 1 .. Len(pool) \/ i = Len(pool) + 1
    BY <1>1
  <1>3. \A i \in 1 .. Len(pool) : pool[i] # inHand  BY DEF Pooled
  <1>4. Pooled' = Pooled \cup {inHand}
    BY <1>1, <1>2 DEF Pooled
  <1>5. \A i, j \in 1 .. Len(pool') : pool'[i] = pool'[j] => i = j
    BY <1>1, <1>2, <1>3
  <1>. QED  BY <1>1, <1>4, <1>5

----------------------------------------------------------------------------
LEMMA PoolInvInit ==
  ASSUME QuicPoolInit PROVE PoolInv
  BY SizeAssumption DEF QuicPoolInit, PoolInv, PoolTypes, HoldersOK, CloserOK, Owned, AllMade,
     Made, Unshared, Pooled

(* The connection just made is nobody's yet. *)
LEMMA FreshConn ==
  ASSUME PoolInv, NEW c \in Conns, Connect(c)
  PROVE  /\ c # Nil /\ c # inHand /\ c \notin Pooled /\ \A d \in Callers : conn[d] # c
         /\ made' = c /\ open' = open \cup {c}
         /\ made' \in 0 .. MaxConns /\ 1 .. made \subseteq 1 .. made' /\ c \in 1 .. made'
  BY SizeAssumption, NilAssumption
  DEF PoolInv, PoolTypes, AllMade, Made, Connect, Conns

(* The refill loop. *)
LEMMA RefillKeepsInv ==
  ASSUME PoolInv, Refill PROVE PoolInv'
  <1>. USE DEF PoolInv, PoolTypes, HoldersOK, CloserOK, Owned, AllMade, Made, Unshared
  <1>1. CASE RefillChecks
    BY <1>1 DEF RefillChecks, Pooled, poolVars, callVars, wireVars
  <1>2. CASE RefillDialFails
    BY <1>2 DEF RefillDialFails, Pooled, poolVars, callVars, wireVars
  <1>3. CASE RefillDelayOver
    BY <1>3 DEF RefillDelayOver, Pooled, poolVars, callVars, wireVars
  <1>4. CASE RefillStops
    BY <1>4 DEF RefillStops, Pooled, poolVars, callVars, wireVars
  <1>5. CASE RefillDials
    <2>1. PICK c \in Conns : Connect(c) /\ inHand' = c  BY <1>5 DEF RefillDials
    <2>2. /\ c # Nil /\ c \notin Pooled /\ \A d \in Callers : conn[d] # c
          /\ made' = c /\ open' = open \cup {c}
          /\ made' \in 0 .. MaxConns /\ 1 .. made \subseteq 1 .. made' /\ c \in 1 .. made'
      BY <2>1, FreshConn
    <2>3. /\ refill = "dial" /\ refill' = "put" /\ inHand = Nil
          /\ UNCHANGED <<pool, closer, call, conn>> /\ Pooled' = Pooled
      BY <1>5 DEF RefillDials, poolVars, callVars, Pooled
    <2>4. PoolTypes' /\ HoldersOK' /\ CloserOK'
      BY <2>1, <2>2, <2>3
    <2>5. Owned'
      <3>1. \A b \in open' : b = c \/ b \in Pooled \/ \E d \in Callers : conn[d] = b
        BY <2>2, <2>3, NilAssumption
      <3>. QED  BY <2>1, <2>3, <3>1
    <2>6. AllMade'
      <3>1. Pooled' \subseteq 1 .. made'  BY <2>2, <2>3
      <3>2. \A d \in Callers : conn'[d] = Nil \/ conn'[d] \in 1 .. made'  BY <2>2, <2>3
      <3>. QED  BY <2>1, <2>2, <3>1, <3>2
    <2>7. Unshared'
      BY <2>1, <2>2, <2>3
    <2>. QED  BY <2>4, <2>5, <2>6, <2>7
  <1>6. CASE RefillPuts
    <2>1. /\ refill = "put" /\ refill' = "fill" /\ inHand' = Nil
          /\ UNCHANGED <<closer, call, conn, made>>
      BY <1>6 DEF RefillPuts, callVars
    <2>2. closer \notin {"drain", "returned"}  BY <2>1
    <2>3. inHand \in Conns  BY <2>1
    <2>4. CASE Len(pool) < Size
      <3>1. pool' = Append(pool, inHand) /\ open' = open
        BY <2>4, <1>6 DEF RefillPuts
      <3>2. /\ pool' \in Seq(Conns) /\ Pooled' = Pooled \cup {inHand}
            /\ \A i, j \in 1 .. Len(pool') : pool'[i] = pool'[j] => i = j
        BY <2>3, <3>1, PutLast
      <3>3. Nil \notin Pooled'
        BY <3>2, NilAssumption DEF Pooled
      <3>. QED  BY <2>1, <2>2, <2>3, <3>1, <3>2, <3>3
    <2>5. CASE ~(Len(pool) < Size)
      <3>1. pool' = pool /\ open' = open \ {inHand} /\ Pooled' = Pooled
        BY <2>5, <1>6 DEF RefillPuts, Pooled
      <3>2. Nil \notin Pooled'
        BY <3>1, NilAssumption DEF Pooled
      <3>. QED  BY <2>1, <2>2, <2>3, <3>1, <3>2
    <2>. QED  BY <2>4, <2>5
  <1>. QED  BY <1>1, <1>2, <1>3, <1>4, <1>5, <1>6 DEF Refill

(* The one that calls Close. *)
LEMMA CloseKeepsInv ==
  ASSUME PoolInv, Cancel \/ ClosePool \/ Drain PROVE PoolInv'
  <1>. USE DEF PoolInv, PoolTypes, HoldersOK, CloserOK, Owned, AllMade, Made, Unshared
  <1>1. CASE Cancel
    BY <1>1 DEF Cancel, Pooled, refillVars, callVars, wireVars
  <1>2. CASE ClosePool
    BY <1>2 DEF ClosePool, Pooled, refillVars, callVars, wireVars
  <1>3. CASE Drain /\ pool = <<>>
    BY <1>3 DEF Drain, Pooled, refillVars, callVars
  <1>4. CASE Drain /\ pool # <<>>
    <2>1. /\ pool' = Tail(pool) /\ open' = open \ {Head(pool)}
          /\ closer = "drain" /\ UNCHANGED <<refill, inHand, closer, call, conn, made>>
      BY <1>4 DEF Drain, refillVars, callVars
    <2>2. pool' \in Seq(Conns)  BY <2>1, <1>4, FirstAndRest
    <2>3. /\ Pooled' = Pooled \ {Head(pool)}
          /\ \A i, j \in 1 .. Len(pool') : pool'[i] = pool'[j] => i = j
      BY <2>1, <1>4, TakeFirst
    <2>. QED  BY <2>1, <2>2, <2>3
  <1>. QED  BY <1>1, <1>2, <1>3, <1>4

(* A caller of Dial. *)
LEMMA CallerKeepsInv ==
  ASSUME PoolInv, NEW d \in Callers, Caller(d) PROVE PoolInv'
  <1>. USE DEF PoolInv, PoolTypes, HoldersOK, CloserOK, Owned, AllMade, Made, Unshared
  <1>1. CASE DialTakes(d) /\ pool # <<>>
    <2>1. /\ pool' = Tail(pool) /\ conn' = [conn EXCEPT ![d] = Head(pool)]
          /\ call' = [call EXCEPT ![d] = "has"] /\ call[d] = "idle"
          /\ UNCHANGED <<refill, inHand, closer, open, made>>
      BY <1>1 DEF DialTakes, Gets, refillVars, wireVars
    <2>2. pool' \in Seq(Conns) /\ Head(pool) \in Conns  BY <2>1, <1>1, FirstAndRest
    <2>3. /\ Pooled' = Pooled \ {Head(pool)} /\ Head(pool) \in Pooled
          /\ \A i, j \in 1 .. Len(pool') : pool'[i] = pool'[j] => i = j
      BY <2>1, <1>1, TakeFirst
    <2>4. closer # "returned" /\ conn[d] = Nil  BY <2>1, <1>1
    <2>5. conn'[d] = Head(pool) /\ \A e \in Callers \ {d} : conn'[e] = conn[e]
      BY <2>1
    <2>6. Owned'
      BY <2>1, <2>3, <2>4, <2>5, NilAssumption
    <2>7. AllMade'
      BY <2>1, <2>3, <2>5
    <2>8. Unshared'
      <3>1. Head(pool) # inHand /\ \A e \in Callers : conn[e] # Head(pool)
        BY <2>3
      <3>. QED  BY <2>1, <2>3, <2>5, <3>1
    <2>9. PoolTypes' /\ HoldersOK' /\ CloserOK'
      BY <2>1, <2>2, <2>4, <2>5
    <2>. QED  BY <2>6, <2>7, <2>8, <2>9
  <1>2. CASE DialTakes(d) /\ pool = <<>>
    <2>1. /\ conn' = [conn EXCEPT ![d] = Nil] /\ conn[d] = Nil
          /\ call' = [call EXCEPT ![d] = "has"]
          /\ UNCHANGED <<pool, refill, inHand, closer, open, made>> /\ Pooled' = Pooled
      BY <1>2 DEF DialTakes, Gets, refillVars, wireVars, Pooled
    <2>2. conn' = conn  BY <2>1
    <2>. QED  BY <2>1, <2>2
  <1>3. CASE DialDirect(d)
    BY <1>3 DEF DialDirect, Pooled, refillVars, poolVars, wireVars
  <1>4. CASE DialDirectEnds(d) /\ call' = [call EXCEPT ![d] = "idle"] /\ UNCHANGED <<conn, wireVars>>
    BY <1>4 DEF DialDirectEnds, Pooled, refillVars, poolVars, wireVars
  <1>5. CASE DialDirectEnds(d) /\ \E c \in Conns : Connect(c) /\ Gets(d, c)
    <2>1. PICK c \in Conns : Connect(c) /\ Gets(d, c)  BY <1>5
    <2>2. /\ c # Nil /\ c # inHand /\ c \notin Pooled /\ \A e \in Callers : conn[e] # c
          /\ made' = c /\ open' = open \cup {c}
          /\ made' \in 0 .. MaxConns /\ 1 .. made \subseteq 1 .. made' /\ c \in 1 .. made'
      BY <2>1, FreshConn
    <2>3. /\ conn' = [conn EXCEPT ![d] = c] /\ call' = [call EXCEPT ![d] = "has"]
          /\ call[d] = "dial" /\ conn[d] = Nil
          /\ UNCHANGED <<pool, refill, inHand, closer>> /\ Pooled' = Pooled
      BY <2>1, <1>5 DEF DialDirectEnds, Gets, refillVars, poolVars, Pooled
    <2>4. conn'[d] = c /\ \A e \in Callers \ {d} : conn'[e] = conn[e]
      BY <2>3
    <2>5. PoolTypes' /\ HoldersOK' /\ CloserOK'
      BY <2>2, <2>3, <2>4
    <2>6. Owned'
      <3>1. \A b \in open :
              b = inHand \/ b \in Pooled \/ \E e \in Callers \ {d} : conn[e] = b
        BY <2>3, NilAssumption
      <3>. QED  BY <2>2, <2>3, <2>4, <3>1
    <2>7. AllMade'
      <3>1. Pooled' \subseteq 1 .. made'  BY <2>2, <2>3
      <3>2. inHand' = Nil \/ inHand' \in 1 .. made'  BY <2>2, <2>3
      <3>3. \A e \in Callers : conn'[e] = Nil \/ conn'[e] \in 1 .. made'
        BY <2>2, <2>3, <2>4
      <3>. QED  BY <3>1, <3>2, <3>3
    <2>8. Unshared'
      BY <2>2, <2>3, <2>4
    <2>. QED  BY <2>5, <2>6, <2>7, <2>8
  <1>6. CASE UseConn(d)
    BY <1>6 DEF UseConn, Pooled, refillVars, poolVars, callVars
  <1>7. CASE CloseConn(d)
    <2>1. /\ conn' = [conn EXCEPT ![d] = Nil] /\ call' = [call EXCEPT ![d] = "idle"]
          /\ conn[d] # Nil /\ open' = open \ {conn[d]}
          /\ UNCHANGED <<pool, refill, inHand, closer, made>> /\ Pooled' = Pooled
      BY <1>7 DEF CloseConn, refillVars, poolVars, Pooled
    <2>2. conn'[d] = Nil /\ \A e \in Callers \ {d} : conn'[e] = conn[e]
      BY <2>1
    <2>3. Nil \notin Pooled  BY NilAssumption DEF Pooled
    <2>. QED  BY <2>1, <2>2, <2>3
  <1>. QED  BY <1>1, <1>2, <1>3, <1>4, <1>5, <1>6, <1>7 DEF Caller, DialDirectEnds

(* The server's side, and stuttering, touch nobody's connection. *)
LEMMA OthersKeepInv ==
  ASSUME PoolInv, UNCHANGED <<refillVars, poolVars, callVars, wireVars>> PROVE PoolInv'
  BY DEF PoolInv, PoolTypes, HoldersOK, CloserOK, Owned, AllMade, Made, Unshared, Pooled,
     refillVars, poolVars, callVars, wireVars

LEMMA StepKeepsInv ==
  ASSUME PoolInv, [QuicPoolNext]_quicPoolVars PROVE PoolInv'
  <1>1. CASE Refill  BY <1>1, RefillKeepsInv
  <1>2. CASE Cancel \/ ClosePool \/ Drain  BY <1>2, CloseKeepsInv
  <1>3. CASE \E d \in Callers : Caller(d)  BY <1>3, CallerKeepsInv
  <1>4. CASE \E c \in Conns :
               AcceptQUIC(c) \/ AcceptStream(c) \/ SendAccepted(c) \/ ConnEnds(c)
    BY <1>4, OthersKeepInv DEF AcceptQUIC, AcceptStream, SendAccepted, ConnEnds, Handler
  <1>5. CASE AcceptLoopEnds \/ Accept \/ ServerClose
    BY <1>5, OthersKeepInv DEF AcceptLoopEnds, Accept, ServerClose
  <1>6. CASE UNCHANGED quicPoolVars
    BY <1>6, OthersKeepInv DEF quicPoolVars
  <1>. QED  BY <1>1, <1>2, <1>3, <1>4, <1>5, <1>6 DEF QuicPoolNext

----------------------------------------------------------------------------
(* A Close that has returned leaves only the connections Dial gave away open *)
(* (PooledTransport.Close waits for the refill loop, then drains).           *)
THEOREM PoolLeaksNothing == QuicPoolSpec => []NothingLeaks
  <1>1. PoolInv => NothingLeaks
    BY NilAssumption
    DEF PoolInv, PoolTypes, CloserOK, HoldersOK, Owned, NothingLeaks, Pooled
  <1>. QED  BY <1>1, PoolInvInit, StepKeepsInv, PTL DEF QuicPoolSpec

(* A connection of the pool is handed to one caller of Dial only, whatever   *)
(* the refill loop, other callers and Close do meanwhile.                    *)
THEOREM PoolSharesNothing == QuicPoolSpec => []OneOwner
  <1>1. PoolInv => OneOwner
    BY DEF PoolInv, Unshared, OneOwner
  <1>. QED  BY <1>1, PoolInvInit, StepKeepsInv, PTL DEF QuicPoolSpec

----------------------------------------------------------------------------
(***************************************************************************)
(* The parallelism.  Each verdict starts a call of onStateChange in a      *)
(* goroutine of its own; as long as none overtakes another, those under    *)
(* way tell how the number of connections still has to change before it    *)
(* fits the verdict.                                                       *)
(***************************************************************************)

(* The calls of listeners, those of onStateChange among them, and the        *)
(* connections that fit a verdict.                                           *)
Calls == [kind : {"throttled", "normal", "emergency", "rebuild"}, loaded : BOOLEAN, value : Nat]
Adapts(l) == l.kind \in {"throttled", "normal"}
Fitting(s) == IF s = "throttled" THEN Doubled(BaseParallelConns) ELSE BaseParallelConns

(* The verdict, and the calls it has started: throttled is left through      *)
(* normal only.                                                              *)
ThrottleTypes ==
  /\ state \in {"normal", "suspected", "throttled"}
  /\ suspectedCount \in 0 .. ConfirmCount
  /\ state = "throttled" => suspectedCount = ConfirmCount
  /\ calls \in Seq(Calls)
  /\ params \in Nat /\ parallelConns \in Nat

(* No call for onStateChange is older than call i, and none is younger. *)
Oldest(c, i) == \A j \in 1 .. Len(c) : j < i => ~Adapts(c[j])
Youngest(c, i) == \A j \in 1 .. Len(c) : i < j => ~Adapts(c[j])

(* What the calls c of onStateChange will make of p connections while the    *)
(* verdict is s, as long as none overtakes another.  The oldest may have     *)
(* loaded p.                                                                 *)
OldestLoads(c, p) ==
  \A i \in 1 .. Len(c) : Adapts(c[i]) /\ c[i].loaded => c[i].value = p /\ Oldest(c, i)
(* A halving lies between two doublings. *)
Halves(c, i, j) == \E m \in 1 .. Len(c) : i < m /\ m < j /\ c[m].kind = "normal"
HalvedBetween(c) ==
  \A i, j \in 1 .. Len(c) :
    i < j /\ c[i].kind = "throttled" /\ c[j].kind = "throttled" => Halves(c, i, j)
(* The oldest doubling starts from the base. *)
DoublesTheBase(c, p) ==
  \A i \in 1 .. Len(c) : c[i].kind = "throttled" /\ Oldest(c, i) => p = BaseParallelConns
(* The youngest call says what the verdict is. *)
SaysTheVerdict(c, s) ==
  \A i \in 1 .. Len(c) : Adapts(c[i]) /\ Youngest(c, i) =>
    (c[i].kind = "throttled" <=> s = "throttled")
(* With no call under way the connections fit the verdict. *)
FitsAtRest(c, p, s) == (\A i \in 1 .. Len(c) : ~Adapts(c[i])) => p = Fitting(s)
(* All of it together. *)
InOrder(c, p, s) ==
  /\ p \in {BaseParallelConns, Doubled(BaseParallelConns)}
  /\ OldestLoads(c, p)
  /\ HalvedBetween(c)
  /\ DoublesTheBase(c, p)
  /\ SaysTheVerdict(c, s)
  /\ FitsAtRest(c, p, s)

(* What holds as long as no call has overtaken another. *)
ThrottleInv ==
  ThrottleTypes /\ ("adaptive" \notin overtaken => InOrder(calls, parallelConns, state))

----------------------------------------------------------------------------
(* What doubling and halving do between the base and its double.             *)
LEMMA HalvingReturns ==
  /\ Halved(BaseParallelConns) = BaseParallelConns
  /\ Halved(Doubled(BaseParallelConns)) = BaseParallelConns
  BY AdaptiveAssumption DEF Halved, Doubled, Larger, Smaller

(* Where the calls that stay are when call i has left, and where they were.  *)
Was(i, j) == IF j < i THEN j ELSE j + 1
Now(i, j) == IF j < i THEN j ELSE j - 1

(* Those that stay keep their order. *)
LEMMA OrderStays ==
  ASSUME NEW n \in Nat, NEW i \in 1 .. n
  PROVE  /\ \A j \in 1 .. n - 1 : Was(i, j) \in 1 .. n /\ Was(i, j) # i /\ Now(i, Was(i, j)) = j
         /\ \A j \in 1 .. n : j # i => Now(i, j) \in 1 .. n - 1 /\ Was(i, Now(i, j)) = j
         /\ \A j, k \in 1 .. n - 1 : j < k <=> Was(i, j) < Was(i, k)
  BY DEF Was, Now

(* The calls that stay are what they were. *)
LEMMA WithoutShifts ==
  ASSUME NEW c \in Seq(Calls), NEW i \in 1 .. Len(c), NEW d,
         d = SubSeq(c, 1, i - 1) \o SubSeq(c, i + 1, Len(c))
  PROVE  /\ d \in Seq(Calls) /\ Len(d) = Len(c) - 1 /\ Len(c) \in Nat
         /\ \A j \in 1 .. Len(d) : d[j] = c[Was(i, j)]
  <1>1. Len(c) \in Nat /\ i \in Nat /\ i >= 1 /\ i <= Len(c)
    OBVIOUS
  <1>2. /\ SubSeq(c, 1, i - 1) \in Seq(Calls) /\ Len(SubSeq(c, 1, i - 1)) = i - 1
        /\ \A j \in 1 .. i - 1 : SubSeq(c, 1, i - 1)[j] = c[j]
    BY <1>1
  <1>3. /\ SubSeq(c, i + 1, Len(c)) \in Seq(Calls) /\ Len(SubSeq(c, i + 1, Len(c))) = Len(c) - i
        /\ \A j \in 1 .. Len(c) - i : SubSeq(c, i + 1, Len(c))[j] = c[i + j]
    BY <1>1
  <1> DEFINE a == SubSeq(c, 1, i - 1)
             b == SubSeq(c, i + 1, Len(c))
  <1> HIDE DEF a, b
  <1>4. /\ a \in Seq(Calls) /\ Len(a) = i - 1 /\ \A j \in 1 .. i - 1 : a[j] = c[j]
        /\ b \in Seq(Calls) /\ Len(b) = Len(c) - i /\ \A j \in 1 .. Len(c) - i : b[j] = c[i + j]
        /\ d = a \o b
    BY <1>2, <1>3 DEF a, b
  <1>5. /\ d \in Seq(Calls) /\ Len(d) = Len(c) - 1
        /\ \A j \in 1 .. Len(d) : d[j] = IF j <= i - 1 THEN a[j] ELSE b[j - (i - 1)]
    BY ONLY <1>1, <1>4
  <1>6. ASSUME NEW j \in 1 .. Len(d) PROVE d[j] = c[Was(i, j)]
    <2>1. CASE j < i
      <3>1. d[j] = a[j] /\ j \in 1 .. i - 1
        BY ONLY <2>1, <1>1, <1>5, j \in 1 .. Len(d)
      <3>. QED  BY <3>1, <2>1, <1>4 DEF Was
    <2>2. CASE ~(j < i)
      <3>1. d[j] = b[j - (i - 1)] /\ j - (i - 1) \in 1 .. Len(c) - i /\ i + (j - (i - 1)) = j + 1
        BY ONLY <2>2, <1>1, <1>5, j \in 1 .. Len(d)
      <3>2. b[j - (i - 1)] = c[i + (j - (i - 1))]
        BY ONLY <3>1, <1>4
      <3>. QED  BY <3>1, <3>2, <2>2 DEF Was
    <2>. QED  BY <2>1, <2>2, <1>1
  <1>. QED  BY <1>1, <1>5, <1>6

(* Both together, as the proofs below use them. *)
Leaves(c, i, d) ==
  /\ d \in Seq(Calls)
  /\ \A j \in 1 .. Len(d) : Was(i, j) \in 1 .. Len(c) /\ Was(i, j) # i /\ d[j] = c[Was(i, j)]
  /\ \A j \in 1 .. Len(c) : j # i => /\ Now(i, j) \in 1 .. Len(d)
                                     /\ Was(i, Now(i, j)) = j /\ d[Now(i, j)] = c[j]
  /\ \A j, k \in 1 .. Len(d) : j < k <=> Was(i, j) < Was(i, k)

(* A call that leaves takes nothing from the others. *)
LEMMA CallLeaves ==
  ASSUME NEW c \in Seq(Calls), NEW i \in 1 .. Len(c), NEW d,
         d = SubSeq(c, 1, i - 1) \o SubSeq(c, i + 1, Len(c))
  PROVE  Leaves(c, i, d)
  <1>1. /\ d \in Seq(Calls) /\ Len(d) = Len(c) - 1 /\ Len(c) \in Nat
        /\ \A j \in 1 .. Len(d) : d[j] = c[Was(i, j)]
    BY WithoutShifts
  <1>2. /\ \A j \in 1 .. Len(d) : Was(i, j) \in 1 .. Len(c) /\ Was(i, j) # i /\ Now(i, Was(i, j)) = j
        /\ \A j \in 1 .. Len(c) : j # i => Now(i, j) \in 1 .. Len(d) /\ Was(i, Now(i, j)) = j
        /\ \A j, k \in 1 .. Len(d) : j < k <=> Was(i, j) < Was(i, k)
    BY ONLY <1>1, OrderStays, i \in 1 .. Len(c)
  <1>3. \A j \in 1 .. Len(c) : j # i => d[Now(i, j)] = c[j]
    BY ONLY <1>1, <1>2
  <1>. QED  BY ONLY <1>1, <1>2, <1>3 DEF Leaves

(* A call for others comes without a change. *)
LEMMA OthersJoin ==
  ASSUME NEW c \in Seq(Calls), NEW e \in Calls, ~Adapts(e), NEW p, NEW s, InOrder(c, p, s)
  PROVE  Append(c, e) \in Seq(Calls) /\ InOrder(Append(c, e), p, s)
  <1> DEFINE d == Append(c, e)
  <1>1. /\ d \in Seq(Calls) /\ Len(d) = Len(c) + 1 /\ Len(c) \in Nat
        /\ d[Len(c) + 1] = e /\ \A i \in 1 .. Len(c) : d[i] = c[i]
    OBVIOUS
  <1> HIDE DEF d
  <1>2. /\ \A i \in 1 .. Len(d) : i \in 1 .. Len(c) \/ (i = Len(c) + 1 /\ d[i] = e)
        /\ \A i \in 1 .. Len(c) : i \in 1 .. Len(d) /\ i < Len(c) + 1 /\ d[i] = c[i]
    BY ONLY <1>1
  <1>3. e.kind # "throttled"
    BY DEF Adapts
  <1>4. \A i \in 1 .. Len(d) : Oldest(d, i) /\ i \in 1 .. Len(c) => Oldest(c, i)
    BY <1>2 DEF Oldest
  <1>5. \A i \in 1 .. Len(d) : Youngest(d, i) /\ i \in 1 .. Len(c) => Youngest(c, i)
    BY <1>2 DEF Youngest
  <1>6. OldestLoads(d, p)
    BY <1>1, <1>2 DEF InOrder, OldestLoads, Oldest
  <1>7. HalvedBetween(d)
    <2>1. HalvedBetween(c)
      BY DEF InOrder
    <2>2. SUFFICES ASSUME NEW i \in 1 .. Len(d), NEW j \in 1 .. Len(d), i < j,
                          d[i].kind = "throttled", d[j].kind = "throttled"
                   PROVE  Halves(d, i, j)
      BY DEF HalvedBetween
    <2>3. i \in 1 .. Len(c) /\ j \in 1 .. Len(c) /\ Halves(c, i, j)
      BY <2>1, <2>2, <1>2, <1>3 DEF HalvedBetween
    <2>. QED  BY ONLY <2>3, <1>2 DEF Halves
  <1>8. DoublesTheBase(d, p)
    BY <1>2, <1>3, <1>4 DEF InOrder, DoublesTheBase
  <1>9. SaysTheVerdict(d, s)
    BY <1>2, <1>5 DEF InOrder, SaysTheVerdict
  <1>10. FitsAtRest(d, p, s)
    BY <1>2 DEF InOrder, FitsAtRest
  <1>11. InOrder(d, p, s)
    BY <1>6, <1>7, <1>8, <1>9, <1>10 DEF InOrder
  <1>. QED  BY <1>1, <1>11 DEF d

(* And it leaves without one. *)
LEMMA OthersLeave ==
  ASSUME NEW c \in Seq(Calls), NEW i \in 1 .. Len(c), ~Adapts(c[i]), NEW p, NEW s,
         InOrder(c, p, s), NEW d, d = SubSeq(c, 1, i - 1) \o SubSeq(c, i + 1, Len(c))
  PROVE  d \in Seq(Calls) /\ InOrder(d, p, s)
  <1>0. Leaves(c, i, d)
    BY CallLeaves
  <1>1. /\ d \in Seq(Calls)
        /\ \A j \in 1 .. Len(d) : Was(i, j) \in 1 .. Len(c) /\ Was(i, j) # i /\ d[j] = c[Was(i, j)]
        /\ \A j \in 1 .. Len(c) : j # i => /\ Now(i, j) \in 1 .. Len(d)
                                           /\ Was(i, Now(i, j)) = j /\ d[Now(i, j)] = c[j]
        /\ \A j, k \in 1 .. Len(d) : j < k <=> Was(i, j) < Was(i, k)
    BY ONLY <1>0 DEF Leaves
  <1>2. c[i].kind \notin {"throttled", "normal"}
    BY DEF Adapts
  <1>3. \A j \in 1 .. Len(d) : Oldest(d, j) <=> Oldest(c, Was(i, j))
    BY ONLY <1>1, ~Adapts(c[i]) DEF Oldest
  <1>4. \A j \in 1 .. Len(d) : Youngest(d, j) <=> Youngest(c, Was(i, j))
    BY ONLY <1>1, ~Adapts(c[i]) DEF Youngest
  <1>5. OldestLoads(d, p)
    BY ONLY <1>1, <1>3, InOrder(c, p, s) DEF InOrder, OldestLoads
  <1>6. HalvedBetween(d)
    <2>1. HalvedBetween(c)
      BY DEF InOrder
    <2>2. SUFFICES ASSUME NEW j \in 1 .. Len(d), NEW k \in 1 .. Len(d), j < k,
                          d[j].kind = "throttled", d[k].kind = "throttled"
                   PROVE  Halves(d, j, k)
      BY DEF HalvedBetween
    <2>3. Halves(c, Was(i, j), Was(i, k))
      BY ONLY <2>1, <2>2, <1>1 DEF HalvedBetween
    <2>4. PICK m \in 1 .. Len(c) : Was(i, j) < m /\ m < Was(i, k) /\ c[m].kind = "normal"
      BY ONLY <2>3 DEF Halves
    <2>5. m # i
      BY <2>4, <1>2, Zenon
    <2>6. Now(i, m) \in 1 .. Len(d) /\ Was(i, Now(i, m)) = m /\ d[Now(i, m)] = c[m]
      BY <2>5, <1>1, Zenon
    <2>7. j < Now(i, m) /\ Now(i, m) < k
      <3>1. Was(i, j) < Was(i, Now(i, m)) /\ Was(i, Now(i, m)) < Was(i, k)
        BY <2>4, <2>6, Zenon
      <3>2. /\ j < Now(i, m) <=> Was(i, j) < Was(i, Now(i, m))
            /\ Now(i, m) < k <=> Was(i, Now(i, m)) < Was(i, k)
        BY <2>6, <1>1, Zenon
      <3>. QED  BY <3>1, <3>2, Zenon
    <2>. QED  BY <2>4, <2>6, <2>7, Zenon DEF Halves
  <1>7. DoublesTheBase(d, p)
    BY ONLY <1>1, <1>3, InOrder(c, p, s) DEF InOrder, DoublesTheBase
  <1>8. SaysTheVerdict(d, s)
    BY ONLY <1>1, <1>4, InOrder(c, p, s) DEF InOrder, SaysTheVerdict
  <1>9. FitsAtRest(d, p, s)
    BY ONLY <1>1, ~Adapts(c[i]), InOrder(c, p, s) DEF InOrder, FitsAtRest
  <1>. QED  BY <1>1, <1>5, <1>6, <1>7, <1>8, <1>9 DEF InOrder

(* A change of the verdict to s2 starts a call for onStateChange. *)
LEMMA VerdictJoins ==
  ASSUME NEW c \in Seq(Calls), NEW e \in Calls, Adapts(e), ~e.loaded, NEW p, NEW s, NEW s2,
         InOrder(c, p, s), e.kind = "throttled" <=> s2 = "throttled",
         s2 = "throttled" => s # "throttled"
  PROVE  Append(c, e) \in Seq(Calls) /\ InOrder(Append(c, e), p, s2)
  <1> DEFINE d == Append(c, e)
             n == Len(c) + 1
  <1>1. /\ d \in Seq(Calls) /\ Len(d) = Len(c) + 1 /\ Len(c) \in Nat
        /\ d[Len(c) + 1] = e /\ \A i \in 1 .. Len(c) : d[i] = c[i]
    OBVIOUS
  <1> HIDE DEF d
  <1>2. /\ \A i \in 1 .. Len(d) : i \in 1 .. Len(c) \/ i = n
        /\ \A i \in 1 .. Len(c) : i \in 1 .. Len(d) /\ i < n /\ d[i] = c[i]
        /\ n \in 1 .. Len(d) /\ d[n] = e /\ n \notin 1 .. Len(c)
    BY ONLY <1>1
  <1> HIDE DEF n
  <1>3. \A i \in 1 .. Len(d) : Oldest(d, i) /\ i \in 1 .. Len(c) => Oldest(c, i)
    BY <1>2 DEF Oldest
  <1>4. \A i \in 1 .. Len(c) : ~Youngest(d, i)
    BY <1>2 DEF Youngest
  <1>5. OldestLoads(d, p)
    <2>1. OldestLoads(c, p)
      BY DEF InOrder
    <2>2. SUFFICES ASSUME NEW i \in 1 .. Len(d), Adapts(d[i]), d[i].loaded
                   PROVE  d[i].value = p /\ Oldest(d, i)
      BY DEF OldestLoads
    <2>3. i \in 1 .. Len(c) /\ d[i] = c[i] /\ c[i].value = p /\ Oldest(c, i)
      BY <2>1, <2>2, <1>2 DEF OldestLoads
    <2>4. Oldest(d, i)
      BY <2>3, <1>1, <1>2 DEF Oldest, n
    <2>. QED  BY <2>3, <2>4
  <1>6. HalvedBetween(d)
    <2>1. HalvedBetween(c)
      BY DEF InOrder
    <2>2. SUFFICES ASSUME NEW i \in 1 .. Len(d), NEW j \in 1 .. Len(d), i < j,
                          d[i].kind = "throttled", d[j].kind = "throttled"
                   PROVE  Halves(d, i, j)
      BY DEF HalvedBetween
    <2>3. i \in 1 .. Len(c) /\ c[i].kind = "throttled"
      BY <2>2, <1>1, <1>2 DEF n
    <2>4. CASE j \in 1 .. Len(c)
      BY ONLY <2>1, <2>2, <2>3, <2>4, <1>2 DEF HalvedBetween, Halves
    <2>5. CASE j = n
      <3>1. s # "throttled"
        BY <2>2, <2>5, <1>2
      <3>2. \E m \in 1 .. Len(c) : i < m /\ c[m].kind = "normal"
        <4>1. SUFFICES ASSUME \A m \in 1 .. Len(c) : i < m => c[m].kind # "normal"
                       PROVE  FALSE
          OBVIOUS
        <4>2. \A m \in 1 .. Len(c) : i < m => c[m].kind # "throttled"
          BY ONLY <2>1, <2>3, <4>1 DEF HalvedBetween, Halves
        <4>3. Youngest(c, i) /\ Adapts(c[i])
          BY <2>3, <4>1, <4>2 DEF Adapts, Youngest
        <4>. QED  BY <2>3, <3>1, <4>3 DEF InOrder, SaysTheVerdict
      <3>. QED  BY ONLY <2>5, <3>2, <1>2 DEF Halves
    <2>. QED  BY <2>4, <2>5, <1>2
  <1>7. DoublesTheBase(d, p)
    <2>1. SUFFICES ASSUME NEW i \in 1 .. Len(d), d[i].kind = "throttled", Oldest(d, i)
                   PROVE  p = BaseParallelConns
      BY DEF DoublesTheBase
    <2>2. CASE i \in 1 .. Len(c)
      BY <2>1, <2>2, <1>2, <1>3 DEF InOrder, DoublesTheBase
    <2>3. CASE i = n
      <3>1. \A j \in 1 .. Len(c) : ~Adapts(c[j])
        BY <2>1, <2>3, <1>2 DEF Oldest
      <3>2. s # "throttled"
        BY <2>1, <2>3, <1>2
      <3>. QED  BY <3>1, <3>2 DEF InOrder, FitsAtRest, Fitting
    <2>. QED  BY <2>2, <2>3, <1>2
  <1>8. SaysTheVerdict(d, s2)
    BY <1>2, <1>4 DEF SaysTheVerdict
  <1>9. FitsAtRest(d, p, s2)
    BY <1>2 DEF FitsAtRest
  <1>10. InOrder(d, p, s2)
    BY <1>5, <1>6, <1>7, <1>8, <1>9 DEF InOrder
  <1>. QED  BY <1>1, <1>10 DEF d

(* When the oldest call is done with, no other has loaded anything, and the  *)
(* order of the rest is what it was.                                         *)
LEMMA RestInOrder ==
  ASSUME NEW c \in Seq(Calls), NEW i \in 1 .. Len(c), Adapts(c[i]), c[i].loaded,
         NEW p, NEW s, InOrder(c, p, s), NEW q \in {BaseParallelConns, Doubled(BaseParallelConns)},
         NEW d, d = SubSeq(c, 1, i - 1) \o SubSeq(c, i + 1, Len(c)),
         DoublesTheBase(d, q), FitsAtRest(d, q, s)
  PROVE  InOrder(d, q, s)
  <1>0. Leaves(c, i, d)
    BY CallLeaves
  <1>1. /\ d \in Seq(Calls)
        /\ \A j \in 1 .. Len(d) : Was(i, j) \in 1 .. Len(c) /\ Was(i, j) # i /\ d[j] = c[Was(i, j)]
        /\ \A j \in 1 .. Len(c) : j # i => /\ Now(i, j) \in 1 .. Len(d)
                                           /\ Was(i, Now(i, j)) = j /\ d[Now(i, j)] = c[j]
        /\ \A j, k \in 1 .. Len(d) : j < k <=> Was(i, j) < Was(i, k)
    BY ONLY <1>0 DEF Leaves
  <1>2. i \in Nat /\ \A j \in 1 .. Len(c) : j \in Nat
    OBVIOUS
  <1>3. \A j \in 1 .. Len(c) : Adapts(c[j]) => ~(j < i)
    BY DEF InOrder, OldestLoads, Oldest
  <1>4. OldestLoads(d, q)
    <2>1. OldestLoads(c, p)
      BY DEF InOrder
    <2>2. SUFFICES ASSUME NEW j \in 1 .. Len(d), Adapts(d[j]), d[j].loaded PROVE FALSE
      BY DEF OldestLoads
    <2>3. Was(i, j) \in 1 .. Len(c) /\ Was(i, j) # i /\ Oldest(c, Was(i, j)) /\ ~(Was(i, j) < i)
      BY ONLY <2>1, <2>2, <1>1, <1>3 DEF OldestLoads
    <2>. QED  BY ONLY <2>3, <1>2, i \in 1 .. Len(c), Adapts(c[i]) DEF Oldest
  <1>5. HalvedBetween(d)
    <2>1. HalvedBetween(c)
      BY DEF InOrder
    <2>2. SUFFICES ASSUME NEW j \in 1 .. Len(d), NEW k \in 1 .. Len(d), j < k,
                          d[j].kind = "throttled", d[k].kind = "throttled"
                   PROVE  Halves(d, j, k)
      BY DEF HalvedBetween
    <2>0. Halves(c, Was(i, j), Was(i, k))
      BY ONLY <2>1, <2>2, <1>1 DEF HalvedBetween
    <2>3. PICK m \in 1 .. Len(c) : Was(i, j) < m /\ m < Was(i, k) /\ c[m].kind = "normal"
      BY ONLY <2>0 DEF Halves
    <2>4. ~(Was(i, j) < i)
      BY ONLY <2>2, <1>1, <1>3 DEF Adapts
    <2>5. m # i
      BY ONLY <2>2, <2>3, <2>4, <1>1, <1>2
    <2>6. Now(i, m) \in 1 .. Len(d) /\ Was(i, Now(i, m)) = m /\ d[Now(i, m)] = c[m]
      BY <2>5, <1>1, Zenon
    <2>7. j < Now(i, m) /\ Now(i, m) < k
      <3>1. Was(i, j) < Was(i, Now(i, m)) /\ Was(i, Now(i, m)) < Was(i, k)
        BY <2>3, <2>6, Zenon
      <3>2. /\ j < Now(i, m) <=> Was(i, j) < Was(i, Now(i, m))
            /\ Now(i, m) < k <=> Was(i, Now(i, m)) < Was(i, k)
        BY <2>6, <1>1, Zenon
      <3>. QED  BY <3>1, <3>2, Zenon
    <2>. QED  BY <2>3, <2>6, <2>7, Zenon DEF Halves
  <1>6. SaysTheVerdict(d, s)
    <2>1. SaysTheVerdict(c, s)
      BY DEF InOrder
    <2>2. SUFFICES ASSUME NEW j \in 1 .. Len(d), Adapts(d[j]), Youngest(d, j)
                   PROVE  d[j].kind = "throttled" <=> s = "throttled"
      BY DEF SaysTheVerdict
    <2>3. ~(Was(i, j) < i)
      BY ONLY <2>2, <1>1, <1>3
    <2>4. Youngest(c, Was(i, j))
      BY ONLY <2>2, <2>3, <1>1 DEF Youngest
    <2>. QED  BY ONLY <2>1, <2>2, <2>4, <1>1 DEF SaysTheVerdict
  <1>. QED  BY <1>4, <1>5, <1>6 DEF InOrder

(* The oldest call, which has loaded p, stores what follows from it.         *)
LEMMA OldestStores ==
  ASSUME NEW c \in Seq(Calls), NEW i \in 1 .. Len(c), Adapts(c[i]), c[i].loaded,
         NEW p, NEW s, InOrder(c, p, s), NEW q,
         q = IF c[i].kind = "throttled" THEN Doubled(p) ELSE Halved(p),
         NEW d, d = SubSeq(c, 1, i - 1) \o SubSeq(c, i + 1, Len(c))
  PROVE  d \in Seq(Calls) /\ InOrder(d, q, s)
  <1>0. Leaves(c, i, d)
    BY CallLeaves
  <1>1. /\ d \in Seq(Calls)
        /\ \A j \in 1 .. Len(d) : Was(i, j) \in 1 .. Len(c) /\ Was(i, j) # i /\ d[j] = c[Was(i, j)]
        /\ \A j \in 1 .. Len(c) : j # i => /\ Now(i, j) \in 1 .. Len(d)
                                           /\ Was(i, Now(i, j)) = j /\ d[Now(i, j)] = c[j]
        /\ \A j, k \in 1 .. Len(d) : j < k <=> Was(i, j) < Was(i, k)
    BY ONLY <1>0 DEF Leaves
  <1>2. Oldest(c, i) /\ \A j \in 1 .. Len(c) : j \in Nat
    BY DEF InOrder, OldestLoads
  <1>3. (\A j \in 1 .. Len(d) : ~Adapts(d[j])) => Youngest(c, i)
    BY ONLY <1>1, <1>2, i \in 1 .. Len(c) DEF Youngest
  <1>4. SaysTheVerdict(c, s)
    BY DEF InOrder
  <1>5. CASE c[i].kind = "throttled"
    <2>1. q = Doubled(BaseParallelConns)
      BY <1>2, <1>5 DEF InOrder, DoublesTheBase
    <2>2. DoublesTheBase(d, q)
      <3>1. HalvedBetween(c)
        BY DEF InOrder
      <3>2. SUFFICES ASSUME NEW j \in 1 .. Len(d), d[j].kind = "throttled", Oldest(d, j) PROVE FALSE
        BY DEF DoublesTheBase
      <3>3. c[Was(i, j)].kind = "throttled" /\ Adapts(c[Was(i, j)]) /\ Was(i, j) \in 1 .. Len(c)
        BY <3>2, <1>1 DEF Adapts
      <3>4. i < Was(i, j)
        BY ONLY <3>2, <3>3, <1>1, <1>2, i \in 1 .. Len(c) DEF Oldest
      <3>5. PICK m \in 1 .. Len(c) : i < m /\ m < Was(i, j) /\ c[m].kind = "normal"
        BY ONLY <3>1, <3>3, <3>4, <1>5, i \in 1 .. Len(c) DEF HalvedBetween, Halves
      <3>6. m # i
        BY ONLY <3>5, <1>2, i \in 1 .. Len(c)
      <3>7. Now(i, m) \in 1 .. Len(d) /\ Now(i, m) < j /\ d[Now(i, m)].kind = "normal"
        BY ONLY <3>2, <3>5, <3>6, <1>1
      <3>. QED  BY ONLY <3>2, <3>7 DEF Oldest, Adapts
    <2>3. FitsAtRest(d, q, s)
      BY ONLY <2>1, <1>3, <1>4, <1>5, Adapts(c[i]), i \in 1 .. Len(c)
         DEF FitsAtRest, SaysTheVerdict, Fitting
    <2>. QED  BY <2>1, <2>2, <2>3, <1>1, RestInOrder
  <1>6. CASE c[i].kind # "throttled"
    <2>1. q = BaseParallelConns
      BY <1>6, HalvingReturns DEF InOrder
    <2>2. DoublesTheBase(d, q)
      BY <2>1 DEF DoublesTheBase
    <2>3. FitsAtRest(d, q, s)
      BY ONLY <2>1, <1>3, <1>4, <1>6, Adapts(c[i]), i \in 1 .. Len(c)
         DEF FitsAtRest, SaysTheVerdict, Fitting
    <2>. QED  BY <2>1, <2>2, <2>3, <1>1, RestInOrder
  <1>. QED  BY <1>5, <1>6

----------------------------------------------------------------------------
(* The listeners a change of the verdict starts are calls of their kinds.    *)
LEMMA CallIsOne ==
  ASSUME NEW kind \in {"throttled", "normal", "emergency", "rebuild"}
  PROVE  /\ Call(kind) \in Calls /\ Call(kind).kind = kind /\ ~Call(kind).loaded
         /\ Adapts(Call(kind)) <=> kind \in {"throttled", "normal"}
  BY DEF Call, Calls, Adapts

(* The calls of c, then one or two more. *)
LEMMA AppendIsConcat ==
  ASSUME NEW c \in Seq(Calls), NEW e \in Calls, NEW f \in Calls
  PROVE  /\ c \o <<>> = c
         /\ c \o <<e>> = Append(c, e)
         /\ c \o <<e, f>> = Append(Append(c, e), f)
  OBVIOUS

(* The verdict of evaluate, told to the listeners when it has changed, keeps *)
(* the calls in order: it is Throttled anew only after it was not.           *)
LEMMA VerdictInOrder ==
  ASSUME ThrottleInv, NEW suspected \in BOOLEAN, Evaluate(suspected),
         UNCHANGED <<parallelConns, params, overtaken>>
  PROVE  ThrottleInv'
  <1>1. /\ state' \in {"normal", "suspected", "throttled"}
        /\ suspectedCount' \in 0 .. ConfirmCount
        /\ state' = "throttled" => suspectedCount' = ConfirmCount
        /\ state = "throttled" => state' # "suspected"
    BY DetectorAssumption DEF Evaluate, Judge, ThrottleInv, ThrottleTypes
  <1>2. calls' = calls \o Told(state')
    BY DEF Evaluate, Start
  <1>3. calls \in Seq(Calls)
    BY DEF ThrottleInv, ThrottleTypes
  <1>4. calls' \in Seq(Calls) /\ ("adaptive" \notin overtaken => InOrder(calls', parallelConns, state'))
    <2>1. CASE state' = state
      <3>1. calls' = calls
        BY <2>1, <1>2, <1>3 DEF Told
      <3>. QED  BY <3>1, <2>1, <1>3 DEF ThrottleInv
    <2>2. CASE state' = "throttled" /\ state # "throttled"
      <3> DEFINE e == Call("throttled")
                 f == Call("emergency")
      <3>1. e \in Calls /\ f \in Calls /\ Adapts(e) /\ ~Adapts(f) /\ ~e.loaded /\ e.kind = "throttled"
        BY CallIsOne
      <3>2. calls' = Append(Append(calls, e), f)
        BY <2>2, <3>1, <1>2, <1>3, AppendIsConcat DEF Told, Listeners
      <3> HIDE DEF e, f
      <3>3. Append(calls, e) \in Seq(Calls) /\ Append(Append(calls, e), f) \in Seq(Calls)
        BY <3>1, <1>3
      <3>4. ASSUME "adaptive" \notin overtaken
            PROVE  InOrder(calls', parallelConns, state')
        <4>1. InOrder(calls, parallelConns, state)
          BY <3>4 DEF ThrottleInv
        <4>2. InOrder(Append(calls, e), parallelConns, state')
          BY <4>1, <3>1, <2>2, <1>3, VerdictJoins
        <4>. QED  BY <4>2, <3>1, <3>2, <3>3, OthersJoin
      <3>. QED  BY <3>2, <3>3, <3>4
    <2>3. CASE state' = "normal" /\ state # "normal"
      <3> DEFINE e == Call("normal")
      <3>1. e \in Calls /\ Adapts(e) /\ ~e.loaded /\ e.kind = "normal"
        BY CallIsOne
      <3>2. calls' = Append(calls, e)
        BY <2>3, <3>1, <1>2, <1>3, AppendIsConcat DEF Told, Listeners
      <3> HIDE DEF e
      <3>3. Append(calls, e) \in Seq(Calls)
        BY <3>1, <1>3
      <3>4. ASSUME "adaptive" \notin overtaken
            PROVE  InOrder(calls', parallelConns, state')
        <4>1. InOrder(calls, parallelConns, state)
          BY <3>4 DEF ThrottleInv
        <4>. QED  BY <4>1, <3>1, <3>2, <2>3, <1>3, VerdictJoins
      <3>. QED  BY <3>2, <3>3, <3>4
    <2>4. CASE state' = "suspected" /\ state # "suspected"
      <3>1. calls' = calls
        BY <2>4, <1>2, <1>3 DEF Told, Listeners
      <3>2. state = "normal"
        BY <2>4, <1>1 DEF ThrottleInv, ThrottleTypes
      <3>3. ASSUME InOrder(calls, parallelConns, state)
            PROVE  InOrder(calls, parallelConns, state')
        BY <2>4, <3>2, <3>3 DEF InOrder, SaysTheVerdict, FitsAtRest, Fitting
      <3>. QED  BY <3>1, <3>3, <1>3 DEF ThrottleInv
    <2>. QED  BY <1>1, <2>1, <2>2, <2>3, <2>4
  <1>. QED  BY <1>1, <1>4 DEF ThrottleInv, ThrottleTypes

(* A call for others that is started, or has gone, changes nothing of it.    *)
LEMMA OthersKeep ==
  ASSUME ThrottleInv, NEW kind \in {"emergency", "rebuild"},
         calls' \in {calls, Append(calls, Call(kind))},
         params' \in Nat, UNCHANGED <<suspectedCount, state, parallelConns, overtaken>>
  PROVE  ThrottleInv'
  <1>1. Call(kind) \in Calls /\ ~Adapts(Call(kind))
    BY CallIsOne
  <1>2. calls \in Seq(Calls)
    BY DEF ThrottleInv, ThrottleTypes
  <1>3. calls' \in Seq(Calls)
    BY <1>1, <1>2
  <1>4. InOrder(calls, parallelConns, state) => InOrder(calls', parallelConns, state)
    BY <1>1, <1>2, OthersJoin
  <1>. QED  BY <1>3, <1>4 DEF ThrottleInv, ThrottleTypes

(* A call loads something: nothing changes but that it has.                  *)
LEMMA LoadInOrder ==
  ASSUME ThrottleInv, NEW i \in 1 .. Len(calls), ~calls[i].loaded, NEW v \in Nat,
         calls' = [calls EXCEPT ![i].loaded = TRUE, ![i].value = v],
         Adapts(calls[i]) => v = parallelConns,
         overtaken' = overtaken \cup (IF Overtakes(i) THEN {Consumer(calls[i])} ELSE {}),
         UNCHANGED <<suspectedCount, state, parallelConns, params>>
  PROVE  ThrottleInv'
  <1>1. calls \in Seq(Calls) /\ i \in Nat /\ \A j \in 1 .. Len(calls) : j \in Nat
    BY DEF ThrottleInv, ThrottleTypes
  <1>2. calls[i] \in Calls
    BY <1>1
  <1> DEFINE e == [calls[i] EXCEPT !.loaded = TRUE, !.value = v]
  <1>3. e \in Calls
    BY <1>2 DEF Calls
  <1>4. calls' = [calls EXCEPT ![i] = e]
    OBVIOUS
  <1>5. /\ calls' \in Seq(Calls) /\ Len(calls') = Len(calls)
        /\ \A j \in 1 .. Len(calls) : j # i => calls'[j] = calls[j]
        /\ calls'[i] = [calls[i] EXCEPT !.loaded = TRUE, !.value = v]
    <2> HIDE DEF e
    <2>1. /\ calls' \in Seq(Calls) /\ Len(calls') = Len(calls) /\ calls'[i] = e
          /\ \A j \in 1 .. Len(calls) : j # i => calls'[j] = calls[j]
      BY ONLY <1>1, <1>3, <1>4, i \in 1 .. Len(calls)
    <2>. QED  BY <2>1 DEF e
  <1>6. calls'[i].kind = calls[i].kind /\ calls'[i].loaded /\ calls'[i].value = v
    BY <1>5, <1>2 DEF Calls
  <1>7. /\ \A j \in 1 .. Len(calls) : calls'[j].kind = calls[j].kind /\ (Adapts(calls'[j]) <=> Adapts(calls[j]))
        /\ \A j \in 1 .. Len(calls) : calls'[j].loaded => j = i \/ (calls[j].loaded /\ calls'[j] = calls[j])
    BY <1>5, <1>6 DEF Adapts
  <1>8. ASSUME "adaptive" \notin overtaken'
        PROVE  InOrder(calls', parallelConns, state)
    <2>1. InOrder(calls, parallelConns, state)
      BY <1>8 DEF ThrottleInv
    <2>2. \A j \in 1 .. Len(calls) : /\ Oldest(calls', j) <=> Oldest(calls, j)
                                     /\ Youngest(calls', j) <=> Youngest(calls, j)
      BY ONLY <1>5, <1>7 DEF Oldest, Youngest
    <2>3. Adapts(calls[i]) => Oldest(calls, i)
      <3>1. SUFFICES ASSUME Adapts(calls[i]), NEW j \in 1 .. Len(calls), j < i, Adapts(calls[j])
                     PROVE  FALSE
        BY DEF Oldest
      <3>2. Consumer(calls[i]) = "adaptive" /\ Consumer(calls[j]) = "adaptive"
        BY <3>1 DEF Consumer, Adapts
      <3>3. j \in 1 .. i - 1
        BY <3>1, <1>1
      <3>4. Overtakes(i)
        BY <3>2, <3>3 DEF Overtakes
      <3>. QED  BY <3>2, <3>4, <1>8
    <2>4. OldestLoads(calls', parallelConns)
      <3>1. OldestLoads(calls, parallelConns)
        BY <2>1 DEF InOrder
      <3>2. SUFFICES ASSUME NEW j \in 1 .. Len(calls), Adapts(calls'[j]), calls'[j].loaded
                     PROVE  calls'[j].value = parallelConns /\ Oldest(calls', j)
        BY <1>5 DEF OldestLoads
      <3>3. CASE j = i
        BY <3>2, <3>3, <2>2, <2>3, <1>6, <1>7
      <3>4. CASE j # i
        BY <3>1, <3>2, <3>4, <2>2, <1>7 DEF OldestLoads
      <3>. QED  BY <3>3, <3>4
    <2>5. HalvedBetween(calls')
      <3>1. HalvedBetween(calls)
        BY <2>1 DEF InOrder
      <3>2. \A j, k \in 1 .. Len(calls) : Halves(calls, j, k) => Halves(calls', j, k)
        BY ONLY <1>5, <1>7 DEF Halves
      <3>. QED  BY ONLY <3>1, <3>2, <1>5, <1>7 DEF HalvedBetween
    <2>6. DoublesTheBase(calls', parallelConns)
      BY ONLY <2>1, <2>2, <1>5, <1>7 DEF InOrder, DoublesTheBase
    <2>7. SaysTheVerdict(calls', state)
      BY ONLY <2>1, <2>2, <1>5, <1>7 DEF InOrder, SaysTheVerdict
    <2>8. FitsAtRest(calls', parallelConns, state)
      BY ONLY <2>1, <1>5, <1>7 DEF InOrder, FitsAtRest
    <2>. QED  BY <2>1, <2>4, <2>5, <2>6, <2>7, <2>8 DEF InOrder
  <1>. QED  BY <1>5, <1>8 DEF ThrottleInv, ThrottleTypes

(* One call of a listener. *)
LEMMA ListenerInOrder ==
  ASSUME ThrottleInv, NEW i \in 1 .. MaxCalls, Listener(i)
  PROVE  ThrottleInv'
  <1>1. calls \in Seq(Calls) /\ i \in 1 .. Len(calls) /\ calls[i] \in Calls
    BY BoundAssumption DEF Listener, ThrottleInv, ThrottleTypes
  <1>2. CASE AdaptLoads(i)
    <2>1. Adapts(calls[i])
      BY <1>1, <1>2 DEF AdaptLoads, Consumer, Adapts, Calls
    <2>2. parallelConns \in Nat
      BY DEF ThrottleInv, ThrottleTypes
    <2>. QED  BY <1>1, <1>2, <2>1, <2>2, LoadInOrder DEF AdaptLoads, adaptiveVars, detectorVars, rotatorVars
  <1>3. CASE AdaptStores(i)
    <2>1. Adapts(calls[i]) /\ calls[i].loaded
      BY <1>1, <1>3 DEF AdaptStores, Consumer, Adapts, Calls
    <2>2. calls' \in Seq(Calls)
      BY <1>1, <1>3, WithoutShifts DEF AdaptStores, Without
    <2>3. ASSUME "adaptive" \notin overtaken
          PROVE  InOrder(calls', parallelConns', state)
      <3>1. InOrder(calls, parallelConns, state)
        BY <2>3 DEF ThrottleInv
      <3>2. calls[i].value = parallelConns
        BY <3>1, <2>1, <1>1 DEF InOrder, OldestLoads
      <3>3. parallelConns' = IF calls[i].kind = "throttled" THEN Doubled(parallelConns)
                                                            ELSE Halved(parallelConns)
        BY <3>2, <1>3 DEF AdaptStores
      <3>. QED  BY <3>1, <3>3, <2>1, <1>1, <1>3, OldestStores DEF AdaptStores, Without
    <2>4. parallelConns' \in Nat
      <3>1. calls[i].value \in Nat
        BY <1>1 DEF Calls
      <3>. QED  BY <3>1, <1>3, AdaptiveAssumption
                DEF AdaptStores, Doubled, Halved, Smaller, Larger, ThrottleInv, ThrottleTypes
    <2>. QED  BY <2>2, <2>3, <2>4, <1>3 DEF AdaptStores, detectorVars, rotatorVars, ThrottleInv, ThrottleTypes
  <1>4. CASE EmergencyRotateNow(i)
    <2> DEFINE d == Without(i)
    <2>1. ~Adapts(calls[i])
      BY <1>4 DEF EmergencyRotateNow, Adapts
    <2>2. d \in Seq(Calls) /\ (InOrder(calls, parallelConns, state) => InOrder(d, parallelConns, state))
      <3>1. d \in Seq(Calls)
        BY <1>1, WithoutShifts DEF Without
      <3>. QED  BY <3>1, <1>1, <2>1, OthersLeave DEF Without
    <2> DEFINE e == Call("rebuild")
    <2>3. e \in Calls /\ ~Adapts(e)
      BY CallIsOne
    <2>4. calls' = d \o <<e>>
      BY <1>4 DEF EmergencyRotateNow, Rotate, OnSession
    <2> HIDE DEF d, e
    <2>5. calls' = Append(d, e) /\ calls' \in Seq(Calls)
      BY <2>2, <2>3, <2>4
    <2>6. InOrder(d, parallelConns, state) => InOrder(calls', parallelConns, state)
      BY <2>2, <2>3, <2>5, OthersJoin
    <2>. QED  BY <2>2, <2>5, <2>6, <1>4
              DEF EmergencyRotateNow, Rotate, ThrottleInv, ThrottleTypes, detectorVars, adaptiveVars
  <1>5. CASE RebuildLoads(i)
    <2>1. ~Adapts(calls[i]) /\ params \in Nat
      BY <1>5 DEF RebuildLoads, Adapts, ThrottleInv, ThrottleTypes
    <2>. QED  BY <1>1, <1>5, <2>1, LoadInOrder
              DEF RebuildLoads, GetParams, adaptiveVars, detectorVars, rotatorVars
  <1>6. CASE RebuildReplaces(i)
    <2>1. ~Adapts(calls[i])
      BY <1>6 DEF RebuildReplaces, Adapts
    <2>2. calls' \in Seq(Calls)
      BY <1>1, <1>6, WithoutShifts DEF RebuildReplaces, Without
    <2>3. InOrder(calls, parallelConns, state) => InOrder(calls', parallelConns, state)
      BY <1>1, <1>6, <2>1, OthersLeave DEF RebuildReplaces, Without
    <2>. QED  BY <2>2, <2>3, <1>6
              DEF RebuildReplaces, ThrottleInv, ThrottleTypes, detectorVars, adaptiveVars
  <1>. QED  BY <1>2, <1>3, <1>4, <1>5, <1>6 DEF Listener

(* ThrottleInv is inductive. *)
LEMMA InOrderAtFirst == ThrottleInit => ThrottleInv
  <1> SUFFICES ASSUME ThrottleInit PROVE ThrottleInv
    OBVIOUS
  <1>1. calls = <<>> /\ calls \in Seq(Calls) /\ Len(calls) = 0
    BY DEF ThrottleInit
  <1>2. ThrottleTypes
    BY <1>1, DetectorAssumption, AdaptiveAssumption DEF ThrottleInit, ThrottleTypes
  <1>3. InOrder(calls, parallelConns, state)
    BY <1>1 DEF ThrottleInit, InOrder, OldestLoads, HalvedBetween, DoublesTheBase,
                SaysTheVerdict, FitsAtRest, Fitting
  <1>. QED  BY <1>2, <1>3 DEF ThrottleInv

(* No step breaks the order. *)
LEMMA StaysInOrder ==
  ASSUME ThrottleInv, [ThrottleNext]_throttleVars
  PROVE  ThrottleInv'
  <1> USE DEF throttleVars, detectorVars, adaptiveVars, canaryVars, rotatorVars
  <1>1. CASE RecordRTT
    BY <1>1, VerdictInOrder DEF RecordRTT
  <1>2. CASE RecordThroughput
    BY <1>2, VerdictInOrder DEF RecordThroughput
  <1>3. CASE ProbeAnswered
    BY <1>3, VerdictInOrder DEF ProbeAnswered
  <1>4. CASE ProbeFailed
    BY <1>4 DEF ProbeFailed, ThrottleInv, ThrottleTypes
  <1>5. CASE ProbeEnds
    BY <1>5, OthersKeep DEF ProbeEnds, Start, ThrottleInv, ThrottleTypes
  <1>6. CASE \E i \in 1 .. MaxCalls : Listener(i)
    BY <1>6, ListenerInOrder
  <1>7. CASE RotateParams
    BY <1>7 DEF RotateParams, ThrottleInv, ThrottleTypes
  <1>8. CASE RotateSession
    BY <1>8, OthersKeep DEF RotateSession, Rotate, OnSession, ThrottleInv, ThrottleTypes
  <1>9. CASE UNCHANGED throttleVars
    BY <1>9 DEF ThrottleInv, ThrottleTypes
  <1>. QED  BY <1>1, <1>2, <1>3, <1>4, <1>5, <1>6, <1>7, <1>8, <1>9 DEF ThrottleNext

(* When no call of onStateChange is under way and none has overtaken another,*)
(* the parallelism fits the verdict (adaptive.go's onStateChange).           *)
THEOREM ParallelismFollows == ThrottleSpec => []ParallelismFits
  <1>1. ThrottleInv => ParallelismFits
    <2> SUFFICES ASSUME ThrottleInv, ~Pending("adaptive"), "adaptive" \notin overtaken
                 PROVE  parallelConns = Fitting(state)
      BY DEF ParallelismFits, Fitting
    <2>1. \A i \in 1 .. Len(calls) : ~Adapts(calls[i])
      BY DEF Pending, Consumer, Adapts
    <2>. QED  BY <2>1 DEF ThrottleInv, InOrder, FitsAtRest
  <1>. QED  BY <1>1, InOrderAtFirst, StaysInOrder, PTL DEF ThrottleSpec
----------------------------------------------------------------------------
(***************************************************************************)
(* The choice of a transport.  Beside Accounted the invariant says that    *)
(* whoever dials still has the slot it dials at the head of its list, that *)
(* the health check has only slots of higher priority to try, and that a   *)
(* Dial about to switch has fallen back.                                   *)
(***************************************************************************)
Here == {"idle", "next", "check", "dial", "backoff", "switch", "connected", "failed"}

FailoverTypes ==
  /\ built \in Nat /\ replaced \subseteq 1 .. built /\ closed \subseteq 1 .. built
  /\ transports \in [Slots -> 1 .. built]
  /\ activeIdx \in Slots
  /\ pc \in [Procs -> Here]
  /\ start \in [Procs -> Slots]
  /\ left \in [Procs -> Seq(Slots)]
  /\ using \in [Procs -> 1 .. built]
  /\ attempt \in [Procs -> Nat]

OnSlot == \A p \in Procs : Trying(p) => left[p] # <<>>
OnlyHigher ==
  \A k \in 1 .. Len(left[Promoter]) : left[Promoter][k] < start[Promoter]
FellBack ==
  \A d \in Dialers : pc[d] = "switch" => Head(left[d]) # start[d]

FailoverInv == FailoverTypes /\ Accounted /\ OnSlot /\ OnlyHigher /\ FellBack

(* The slots Dial and tryPromote go through are slots. *)
LEMMA SlotLists ==
  ASSUME NEW n \in Slots
  PROVE  /\ Upto(n) \in Seq(Slots)
         /\ \A k \in 1 .. Len(Upto(n)) : Upto(n)[k] < n
         /\ <<n>> \o Others(n) \in Seq(Slots)
  <1>1. n \in Nat /\ NSlots \in Nat /\ NSlots - 1 \in Nat /\ n < NSlots
    BY SlotsAssumption DEF Slots
  <1>2. \A k \in 1 .. n : k - 1 \in Slots /\ k - 1 < n
    BY <1>1 DEF Slots
  <1>3. \A k \in 1 .. NSlots - 1 : (IF k <= n THEN k - 1 ELSE k) \in Slots
    BY <1>1 DEF Slots
  <1>4. Upto(n) \in Seq(Slots) /\ Len(Upto(n)) = n
    BY <1>1, <1>2 DEF Upto
  <1>5. Others(n) \in Seq(Slots) /\ <<n>> \in Seq(Slots)
    BY <1>1, <1>3 DEF Others
  <1>6. \A k \in 1 .. n : Upto(n)[k] < n
    BY <1>2 DEF Upto
  <1>. QED  BY <1>4, <1>5, <1>6

(* A list without its head. *)
LEMMA TailOf ==
  ASSUME NEW s \in Seq(Slots), s # <<>>
  PROVE  /\ Tail(s) \in Seq(Slots) /\ Head(s) \in Slots /\ Head(s) = s[1]
         /\ 1 \in 1 .. Len(s)
         /\ \A k \in 1 .. Len(Tail(s)) : k + 1 \in 1 .. Len(s) /\ Tail(s)[k] = s[k + 1]
  BY FirstAndRest

(* A call goes on, or comes to the next slot; only Switch sets activeIdx.    *)
LEMMA CallGoesOn ==
  ASSUME FailoverInv, NEW p \in Procs, NEW h \in Here, pc' = [pc EXCEPT ![p] = h],
         UNCHANGED <<slotVars, start, using>>,
         activeIdx' \in Slots, attempt' \in [Procs -> Nat],
         \/ left' = left
         \/ left[p] # <<>> /\ left' = [left EXCEPT ![p] = Tail(@)] /\ h = "next",
         h \in {"check", "dial", "backoff", "switch"} => Trying(p),
         h = "switch" /\ p # Promoter => Head(left[p]) # start[p]
  PROVE  FailoverInv'
  <1>1. /\ pc \in [Procs -> Here] /\ left \in [Procs -> Seq(Slots)] /\ Promoter \in Procs
        /\ pc' \in [Procs -> Here] /\ pc'[p] = h
        /\ \A q \in Procs : q # p => pc'[q] = pc[q] /\ left'[q] = left[q]
        /\ h # "next" => left' = left
    BY DEF FailoverInv, FailoverTypes, Procs
  <1>2. left' \in [Procs -> Seq(Slots)]
    <2>1. left[p] # <<>> => Tail(left[p]) \in Seq(Slots)
      BY <1>1, TailOf
    <2>. QED  BY <1>1, <2>1
  <1>3. FailoverTypes'
    BY <1>1, <1>2 DEF FailoverInv, FailoverTypes, slotVars
  <1>4. \A q \in Procs : Trying(q)' => Trying(q) /\ left'[q] = left[q]
    BY <1>1 DEF Trying
  <1>5. OnSlot'
    BY <1>4 DEF FailoverInv, OnSlot
  <1>6. Accounted'
    <2>1. \A q \in Procs : Trying(q)' =>
             using'[q] = transports'[Head(left'[q])] \/ using'[q] \in replaced' \cup closed'
      BY <1>4 DEF FailoverInv, Accounted, slotVars
    <2>. QED  BY <2>1 DEF FailoverInv, Accounted, slotVars
  <1>7. OnlyHigher'
    <2>1. CASE left'[Promoter] = left[Promoter]
      BY <2>1 DEF FailoverInv, OnlyHigher
    <2>2. CASE left[Promoter] # <<>> /\ left'[Promoter] = Tail(left[Promoter])
      BY <1>1, <2>2, TailOf DEF FailoverInv, OnlyHigher
    <2>. QED  BY <1>1, <2>1, <2>2
  <1>8. FellBack'
    <2>1. ASSUME NEW d \in Dialers, pc'[d] = "switch" PROVE Head(left'[d]) # start'[d]
      <3>1. d \in Procs /\ d # Promoter
        BY PromoterAssumption DEF Procs
      <3>2. CASE d = p
        BY <3>1, <3>2, <2>1, <1>1
      <3>3. CASE d # p
        BY <3>1, <3>3, <2>1, <1>1 DEF FailoverInv, FellBack
      <3>. QED  BY <3>2, <3>3
    <2>. QED  BY <2>1 DEF FellBack
  <1>. QED  BY <1>3, <1>5, <1>6, <1>7, <1>8 DEF FailoverInv

(* A call begins with a list of its own. *)
LEMMA CallBegins ==
  ASSUME FailoverInv, NEW p \in Procs, NEW slots \in Seq(Slots), Begin(p, slots),
         p = Promoter => \A k \in 1 .. Len(slots) : slots[k] < activeIdx
  PROVE  FailoverInv'
  <1>1. /\ pc' = [pc EXCEPT ![p] = "next"] /\ start' = [start EXCEPT ![p] = activeIdx]
        /\ left' = [left EXCEPT ![p] = slots]
        /\ UNCHANGED <<transports, built, replaced, closed, activeIdx, using, attempt>>
    BY DEF Begin, slotVars
  <1>2. FailoverTypes'
    BY <1>1 DEF FailoverInv, FailoverTypes, Here
  <1>3. \A q \in Procs : Trying(q)' => Trying(q) /\ q # p /\ pc'[q] = pc[q]
    BY <1>1 DEF FailoverInv, FailoverTypes, Trying
  <1>4. \A q \in Procs : q # p => left'[q] = left[q] /\ start'[q] = start[q]
    BY <1>1 DEF FailoverInv, FailoverTypes
  <1>5. OnSlot'
    BY <1>3, <1>4 DEF FailoverInv, OnSlot
  <1>6. Accounted'
    <2>1. \A q \in Procs : Trying(q)' =>
             using'[q] = transports'[Head(left'[q])] \/ using'[q] \in replaced' \cup closed'
      BY <1>1, <1>3, <1>4 DEF FailoverInv, Accounted
    <2>. QED  BY <1>1, <2>1 DEF FailoverInv, Accounted
  <1>7. OnlyHigher'
    <2>0. Promoter \in Procs
      BY DEF Procs
    <2>1. CASE p = Promoter
      <3>1. left'[Promoter] = slots /\ start'[Promoter] = activeIdx
        BY <1>1, <2>0, <2>1 DEF FailoverInv, FailoverTypes
      <3>. QED  BY <2>1, <3>1 DEF OnlyHigher
    <2>2. CASE p # Promoter
      BY <1>4, <2>0, <2>2 DEF FailoverInv, OnlyHigher
    <2>. QED  BY <2>1, <2>2
  <1>8. FellBack'
    <2>1. \A d \in Dialers : d \in Procs
      BY DEF Procs
    <2>2. \A d \in Dialers : pc'[d] = "switch" => pc[d] = "switch" /\ d # p
      BY <1>1, <2>1 DEF FailoverInv, FailoverTypes
    <2>. QED  BY <1>4, <2>1, <2>2 DEF FailoverInv, FellBack
  <1>. QED  BY <1>2, <1>5, <1>6, <1>7, <1>8 DEF FailoverInv

(* A call takes the transport its slot holds at that moment. *)
LEMMA SlotIsTaken ==
  ASSUME FailoverInv, NEW p \in Procs, TakeSlot(p)
  PROVE  FailoverInv'
  <1>1. /\ left[p] # <<>> /\ using' = [using EXCEPT ![p] = transports[Head(left[p])]]
        /\ attempt' = [attempt EXCEPT ![p] = 0] /\ pc' = [pc EXCEPT ![p] = "check"]
        /\ UNCHANGED <<transports, built, replaced, closed, activeIdx, start, left>>
    BY DEF TakeSlot, slotVars
  <1>2. transports[Head(left[p])] \in 1 .. built
    <2>1. left[p] \in Seq(Slots) /\ transports \in [Slots -> 1 .. built]
      BY DEF FailoverInv, FailoverTypes
    <2>2. Head(left[p]) \in Slots
      BY <1>1, <2>1, TailOf
    <2>. QED  BY <2>1, <2>2
  <1>3. FailoverTypes'
    BY <1>1, <1>2 DEF FailoverInv, FailoverTypes, Here
  <1>4. \A q \in Procs : q # p => pc'[q] = pc[q] /\ using'[q] = using[q]
    BY <1>1 DEF FailoverInv, FailoverTypes
  <1>5. pc'[p] = "check" /\ using'[p] = transports[Head(left[p])]
    BY <1>1 DEF FailoverInv, FailoverTypes
  <1>6. OnSlot'
    BY <1>1, <1>4 DEF FailoverInv, OnSlot, Trying
  <1>7. Accounted'
    <2>1. \A q \in Procs : Trying(q)' =>
             using'[q] = transports'[Head(left'[q])] \/ using'[q] \in replaced' \cup closed'
      BY <1>1, <1>4, <1>5 DEF FailoverInv, Accounted, Trying
    <2>. QED  BY <1>1, <2>1 DEF FailoverInv, Accounted
  <1>8. OnlyHigher'
    BY <1>1 DEF FailoverInv, OnlyHigher
  <1>9. FellBack'
    <2>1. \A d \in Dialers : pc'[d] = "switch" => pc[d] = "switch"
      BY <1>4, <1>5 DEF Procs
    <2>. QED  BY <1>1, <2>1 DEF FailoverInv, FellBack
  <1>. QED  BY <1>3, <1>6, <1>7, <1>8, <1>9 DEF FailoverInv

(* Every step of a call on a transport. *)
LEMMA StepKeepsFailover ==
  ASSUME FailoverInv, NEW p \in Procs, Step(p)
  PROVE  FailoverInv'
  <1>1. /\ pc \in [Procs -> Here] /\ activeIdx \in Slots /\ attempt \in [Procs -> Nat]
        /\ left \in [Procs -> Seq(Slots)]
        /\ Trying(p) => left[p] # <<>>
    BY DEF FailoverInv, FailoverTypes, OnSlot
  <1>2. CASE TakeSlot(p)
    BY <1>2, SlotIsTaken
  <1>3. CASE Exhausted(p)
    <2> DEFINE h == IF p = Promoter THEN "idle" ELSE "failed"
    <2>1. /\ pc' = [pc EXCEPT ![p] = h] /\ h \in {"idle", "failed"}
          /\ UNCHANGED <<slotVars, start, using, left, attempt, activeIdx>>
      BY <1>3 DEF Exhausted, dialVars
    <2>. QED  BY <1>1, <2>1, CallGoesOn DEF Here
  <1>4. CASE CheckClosed(p)
    <2>1. Trying(p) /\ UNCHANGED <<slotVars, start, using, attempt, activeIdx>>
      BY <1>4 DEF CheckClosed, Trying
    <2>2. CASE SlotFails(p)
      BY <1>1, <2>1, <2>2, CallGoesOn DEF SlotFails, Here
    <2>3. CASE pc' = [pc EXCEPT ![p] = "dial"] /\ UNCHANGED left
      BY <1>1, <2>1, <2>3, CallGoesOn DEF Here
    <2>. QED  BY <1>4, <2>2, <2>3 DEF CheckClosed
  <1>5. CASE DialFails(p)
    <2>1. /\ Trying(p) /\ UNCHANGED <<slotVars, start, using, activeIdx>>
          /\ attempt' \in [Procs -> Nat]
      BY <1>1, <1>5 DEF DialFails, Counted, Trying
    <2>2. CASE SlotFails(p)
      BY <1>1, <2>1, <2>2, CallGoesOn DEF SlotFails, Here
    <2>3. CASE pc' = [pc EXCEPT ![p] = "backoff"] /\ UNCHANGED left
      BY <1>1, <2>1, <2>3, CallGoesOn DEF Here
    <2>. QED  BY <1>5, <2>2, <2>3 DEF DialFails
  <1>6. CASE BackoffEnds(p)
    <2>1. /\ Trying(p) /\ pc' = [pc EXCEPT ![p] = "check"]
          /\ UNCHANGED <<slotVars, start, using, left, attempt, activeIdx>>
      BY <1>6 DEF BackoffEnds, dialVars, Trying
    <2>. QED  BY <1>1, <2>1, CallGoesOn DEF Here
  <1>7. CASE ContextDone(p)
    <2>1. /\ Trying(p) /\ SlotFails(p)
          /\ UNCHANGED <<slotVars, start, using, attempt, activeIdx>>
      BY <1>7 DEF ContextDone, Trying
    <2>. QED  BY <1>1, <2>1, CallGoesOn DEF SlotFails, Here
  <1>8. CASE DialSucceeds(p)
    <2> DEFINE h == IF p # Promoter /\ Head(left[p]) = start[p] THEN "connected" ELSE "switch"
    <2>1. /\ Trying(p) /\ pc' = [pc EXCEPT ![p] = h] /\ h \in {"connected", "switch"}
          /\ UNCHANGED <<slotVars, start, using, left, attempt, activeIdx>>
      BY <1>8 DEF DialSucceeds, dialVars, Trying
    <2>2. h = "switch" /\ p # Promoter => Head(left[p]) # start[p]
      OBVIOUS
    <2> HIDE DEF h
    <2>. QED  BY <1>1, <2>1, <2>2, CallGoesOn DEF Here
  <1>9. CASE Switch(p)
    <2> DEFINE h == IF p = Promoter THEN "idle" ELSE "connected"
    <2>1. /\ Trying(p) /\ pc' = [pc EXCEPT ![p] = h] /\ h \in {"idle", "connected"}
          /\ UNCHANGED <<slotVars, start, using, left, attempt>> /\ activeIdx' = Head(left[p])
      BY <1>9 DEF Switch, NewActive, dialVars, Trying
    <2>2. activeIdx' \in Slots
      BY <1>1, <2>1, TailOf
    <2> HIDE DEF h
    <2>. QED  BY <1>1, <2>1, <2>2, CallGoesOn DEF Here
  <1>. QED  BY <1>2, <1>3, <1>4, <1>5, <1>6, <1>7, <1>8, <1>9 DEF Step

(* A rotation: the transport that leaves its slot is to be closed, whoever   *)
(* dials with it.                                                            *)
LEMMA ReplaceKeeps ==
  ASSUME FailoverInv, NEW i \in Slots, Replace(i)
  PROVE  FailoverInv'
  <1>1. /\ built' = built + 1 /\ transports' = [transports EXCEPT ![i] = built + 1]
        /\ replaced' = replaced \cup {transports[i]}
        /\ UNCHANGED <<closed, activeIdx, pc, start, left, using, attempt>>
    BY DEF Replace, dialVars
  <1>2. /\ built \in Nat /\ transports \in [Slots -> 1 .. built]
        /\ replaced \subseteq 1 .. built /\ closed \subseteq 1 .. built
        /\ transports[i] \in 1 .. built
        /\ left \in [Procs -> Seq(Slots)]
    BY DEF FailoverInv, FailoverTypes
  <1>3. /\ 1 .. built' = (1 .. built) \cup {built + 1} /\ built + 1 \notin 1 .. built
        /\ built' \in Nat
    BY <1>1, <1>2
  <1>4. /\ transports'[i] = built + 1 /\ transports' \in [Slots -> 1 .. built']
        /\ \A j \in Slots : j # i => transports'[j] = transports[j] /\ transports[j] # built + 1
    BY <1>1, <1>2, <1>3
  <1>5. FailoverTypes'
    <2>1. using' \in [Procs -> 1 .. built'] /\ replaced' \subseteq 1 .. built'
          /\ closed' \subseteq 1 .. built'
      BY <1>1, <1>2, <1>3 DEF FailoverInv, FailoverTypes
    <2>. QED  BY <1>1, <1>3, <1>4, <2>1 DEF FailoverInv, FailoverTypes
  <1>6. Accounted'
    <2>1. Accounted /\ OnSlot
      BY DEF FailoverInv
    <2>2. \A t \in 1 .. built' : t \in replaced' \cup closed' \/ \E j \in Slots : transports'[j] = t
      <3>1. SUFFICES ASSUME NEW t \in 1 .. built, t \notin replaced' \cup closed'
                     PROVE  \E j \in Slots : transports'[j] = t
        BY <1>3, <1>4
      <3>2. PICK j \in Slots : transports[j] = t
        BY <3>1, <1>1, <2>1 DEF Accounted
      <3>3. j # i
        BY <3>1, <3>2, <1>1
      <3>. QED  BY <3>2, <3>3, <1>4
    <2>3. \A j \in Slots : transports'[j] \notin replaced' \cup closed'
      <3>1. transports'[i] \notin replaced' \cup closed'
        BY <1>1, <1>2, <1>3, <1>4
      <3>2. \A j \in Slots : j # i => transports'[j] \notin replaced' \cup closed'
        BY <1>1, <1>4, <2>1 DEF Accounted
      <3>. QED  BY <3>1, <3>2
    <2>4. \A j, k \in Slots : transports'[j] = transports'[k] => j = k
      BY <1>4, <2>1 DEF Accounted
    <2>5. replaced' \cap closed' = {}
      BY <1>1, <2>1 DEF Accounted
    <2>6. ASSUME NEW p \in Procs, Trying(p)
          PROVE  using[p] = transports'[Head(left[p])] \/ using[p] \in replaced' \cup closed'
      <3>1. Head(left[p]) \in Slots
        BY <2>1, <2>6, <1>2, TailOf DEF OnSlot
      <3>2. using[p] = transports[Head(left[p])] \/ using[p] \in replaced \cup closed
        BY <2>1, <2>6 DEF Accounted
      <3>. QED  BY <3>1, <3>2, <1>1, <1>4
    <2>. QED  BY <1>1, <2>2, <2>3, <2>4, <2>5, <2>6 DEF Accounted, Trying
  <1>7. OnSlot' /\ OnlyHigher' /\ FellBack'
    BY <1>1 DEF FailoverInv, OnSlot, OnlyHigher, FellBack, Trying
  <1>. QED  BY <1>5, <1>6, <1>7 DEF FailoverInv

(* FailoverInv is inductive. *)
LEMMA FailoverAtFirst == FailoverInit => FailoverInv
  <1> SUFFICES ASSUME FailoverInit PROVE FailoverInv
    OBVIOUS
  <1>1. NSlots \in Nat /\ NSlots >= 1
    BY SlotsAssumption
  <1>2. /\ 0 \in Slots /\ 1 \in 1 .. built /\ \A i \in Slots : i + 1 \in 1 .. built
        /\ \A i, j \in Slots : i + 1 = j + 1 => i = j
        /\ \A t \in 1 .. built : t - 1 \in Slots /\ (t - 1) + 1 = t
    BY <1>1 DEF FailoverInit, Slots
  <1>3. FailoverTypes
    BY <1>1, <1>2 DEF FailoverInit, FailoverTypes, Here
  <1>4. \A p \in Procs : ~Trying(p) /\ pc[p] # "switch" /\ left[p] = <<>>
    BY DEF FailoverInit, Trying
  <1>5. Accounted
    <2>1. \A i \in Slots : transports[i] = i + 1
      BY DEF FailoverInit
    <2>2. \A t \in 1 .. built : \E i \in Slots : transports[i] = t
      BY <1>2, <2>1
    <2>3. replaced = {} /\ closed = {}
      BY DEF FailoverInit
    <2>. QED  BY <1>2, <1>4, <2>1, <2>2, <2>3 DEF Accounted
  <1>6. OnSlot /\ OnlyHigher /\ FellBack
    <2>1. left[Promoter] = <<>> /\ \A d \in Dialers : d \in Procs
      BY <1>4 DEF Procs
    <2>. QED  BY <1>4, <2>1 DEF OnSlot, OnlyHigher, FellBack
  <1>. QED  BY <1>3, <1>5, <1>6 DEF FailoverInv

LEMMA FailoverStays ==
  ASSUME FailoverInv, [FailoverNext]_failoverVars
  PROVE  FailoverInv'
  <1>1. activeIdx \in Slots /\ Promoter \in Procs /\ Dialers \subseteq Procs
    BY DEF FailoverInv, FailoverTypes, Procs
  <1>2. ASSUME NEW d \in Dialers, Dial(d) PROVE FailoverInv'
    BY <1>1, <1>2, PromoterAssumption, SlotLists, CallBegins DEF Dial
  <1>3. CASE TryPromote
    BY <1>1, <1>3, SlotLists, CallBegins DEF TryPromote
  <1>4. ASSUME NEW p \in Procs, Step(p) PROVE FailoverInv'
    BY <1>4, StepKeepsFailover
  <1>5. ASSUME NEW i \in Slots, Replace(i) PROVE FailoverInv'
    BY <1>5, ReplaceKeeps
  <1>6. CASE CloseReplaced
    <2>1. PICK t \in replaced : replaced' = replaced \ {t} /\ closed' = closed \cup {t}
      BY <1>6 DEF CloseReplaced
    <2>2. /\ replaced' \cup closed' = replaced \cup closed
          /\ replaced \cap closed = {} => replaced' \cap closed' = {}
      BY <2>1
    <2>3. UNCHANGED <<transports, built, activeIdx, pc, start, left, using, attempt>>
      BY <1>6 DEF CloseReplaced, dialVars
    <2>4. Accounted'
      BY <2>2, <2>3 DEF FailoverInv, Accounted, Trying
    <2>5. FailoverTypes'
      BY <2>2, <2>3 DEF FailoverInv, FailoverTypes
    <2>. QED  BY <2>3, <2>4, <2>5 DEF FailoverInv, OnSlot, OnlyHigher, FellBack, Trying
  <1>7. CASE NetworkChanges \/ UNCHANGED failoverVars
    <2>1. UNCHANGED <<slotVars, activeIdx, pc, dialVars>>
      BY <1>7 DEF NetworkChanges, failoverVars
    <2>. QED  BY <2>1 DEF slotVars, dialVars, FailoverInv, FailoverTypes, Accounted,
                          OnSlot, OnlyHigher, FellBack, Trying
  <1>. QED  BY <1>2, <1>3, <1>4, <1>5, <1>6, <1>7 DEF FailoverNext

(* Rotation loses no transport and closes none that a slot holds; whoever    *)
(* dials has the one its slot holds, or one that was rotated out (Replace).  *)
THEOREM TransportsAccounted == FailoverSpec => []Accounted
  <1>1. FailoverInv => Accounted
    BY DEF FailoverInv
  <1>. QED  BY <1>1, FailoverAtFirst, FailoverStays, PTL DEF FailoverSpec

(* A promotion goes to a transport of higher priority than the one tryPromote*)
(* saw, a fallback to another than Dial began with, whatever the two wrote   *)
(* meanwhile.                                                                *)
THEOREM SwitchesMove == FailoverSpec => SwitchMoves
  <1> DEFINE Moves == \A p \in Procs :
               pc[p] = "switch" /\ pc'[p] # "switch" =>
                 IF p = Promoter THEN activeIdx' < start[p] ELSE activeIdx' # start[p]
  <1>1. ASSUME FailoverInv, [FailoverNext]_failoverVars, NEW p \in Procs,
               pc[p] = "switch", pc'[p] # "switch"
        PROVE  Switch(p)
    <2>1. pc \in [Procs -> Here] /\ Promoter \in Procs /\ Dialers \subseteq Procs
      BY <1>1 DEF FailoverInv, FailoverTypes, Procs
    <2>2. ASSUME NEW q \in Procs, pc'[q] = pc[q] \/ q # p, \E h : pc' = [pc EXCEPT ![q] = h]
          PROVE  FALSE
      BY <2>1, <2>2, <1>1
    <2>3. \A d \in Dialers : ~Dial(d)
      BY <2>1, <2>2, <1>1 DEF Dial, Begin
    <2>4. ~TryPromote
      BY <2>1, <2>2, <1>1 DEF TryPromote, Begin
    <2>5. \A i \in Slots : ~Replace(i)
      BY <1>1 DEF Replace
    <2>6. ~CloseReplaced /\ ~NetworkChanges /\ ~UNCHANGED failoverVars
      BY <1>1 DEF CloseReplaced, NetworkChanges, failoverVars
    <2>7. PICK q \in Procs : Step(q)
      BY <2>3, <2>4, <2>5, <2>6, <1>1 DEF FailoverNext
    <2>8. \E h : pc' = [pc EXCEPT ![q] = h]
      BY <2>7 DEF Step, TakeSlot, Exhausted, CheckClosed, DialFails, BackoffEnds, ContextDone,
                  DialSucceeds, Switch, SlotFails
    <2>9. q = p
      BY <2>2, <2>8
    <2>. QED  BY <2>7, <2>9, <1>1 DEF Step, TakeSlot, Exhausted, CheckClosed, DialFails,
                                      BackoffEnds, ContextDone, DialSucceeds
  <1>2. FailoverInv /\ [FailoverNext]_failoverVars => Moves
    <2> SUFFICES ASSUME FailoverInv, [FailoverNext]_failoverVars, NEW p \in Procs,
                        pc[p] = "switch", pc'[p] # "switch"
                 PROVE  IF p = Promoter THEN activeIdx' < start[p] ELSE activeIdx' # start[p]
      OBVIOUS
    <2>1. activeIdx' = Head(left[p])
      BY <1>1 DEF Switch, NewActive
    <2>2. left[p] \in Seq(Slots) /\ left[p] # <<>>
      BY DEF FailoverInv, FailoverTypes, OnSlot, Trying
    <2>3. CASE p = Promoter
      BY <2>1, <2>2, <2>3, TailOf DEF FailoverInv, OnlyHigher
    <2>4. CASE p # Promoter
      BY <2>1, <2>4 DEF FailoverInv, FellBack, Procs
    <2>. QED  BY <2>3, <2>4
  <1>3. FailoverInv /\ [FailoverNext]_failoverVars => [Moves]_failoverVars
    BY <1>2
  <1>4. FailoverInv /\ [FailoverNext]_failoverVars => FailoverInv'
    BY FailoverStays
  <1>. QED  BY <1>3, <1>4, FailoverAtFirst, PTL DEF FailoverSpec, SwitchMoves
=============================================================================
