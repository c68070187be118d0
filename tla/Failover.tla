------------------------------ MODULE Failover ------------------------------
(***************************************************************************)
(* The client's choice of a transport: Manager of internal/transport over  *)
(* ReconnectingTransports, the stack the comment at cmd_connect.go:211     *)
(* names.  Dials, the health check and Replace (on rotation) run           *)
(* concurrently on activeIdx and the slots; a dial works on the transport  *)
(* it found in its slot, even when that is replaced and closed meanwhile.  *)
(***************************************************************************)
EXTENDS Integers, Sequences, FiniteSets

CONSTANTS
  NSlots,      \* transports the manager has, by priority
  Dialers,     \* goroutines that call Manager.Dial
  Promoter,    \* the health check
  MaxRetries,  \* ReconnectConfig.MaxRetries, not 0 here
  MaxMade      \* bound: transports ever made

Slots == 0 .. NSlots - 1
Procs == Dialers \cup {Promoter}

ASSUME SlotsAssumption == NSlots \in Nat \ {0} /\ MaxMade \in Nat /\ MaxMade >= NSlots
ASSUME PromoterAssumption == Promoter \notin Dialers
ASSUME RetriesAssumption == MaxRetries \in Nat \ {0}

VARIABLES
  transports,  \* transports[i]: the transport in slot i
  built,       \* how many transports were made so far
  replaced,    \* those taken out of their slot and not closed yet
  closed,      \* those closed
  up,          \* the slots whose dial would succeed
  activeIdx,   \* Manager.activeIdx
  pc,          \* pc[p]: where p is
  start,       \* start[p]: the activeIdx p began with
  left,        \* left[p]: the slots p has still to try, the one it tries first
  using,       \* using[p]: the transport it tries
  attempt      \* attempt[p]: failed attempts on it

slotVars == <<transports, built, replaced, closed>>
dialVars == <<start, left, using, attempt>>
failoverVars == <<slotVars, up, activeIdx, pc, dialVars>>

FailoverInit ==
  /\ transports = [i \in Slots |-> i + 1]
  /\ built = NSlots /\ replaced = {} /\ closed = {}
  /\ up \in SUBSET Slots
  /\ activeIdx = 0
  /\ pc = [p \in Procs |-> "idle"]
  /\ start = [p \in Procs |-> 0]
  /\ left = [p \in Procs |-> <<>>]
  /\ using = [p \in Procs |-> 1]
  /\ attempt = [p \in Procs |-> 0]

----------------------------------------------------------------------------
(* The slots of higher priority than n. *)
Upto(n) == [k \in 1 .. n |-> k - 1]

(* The slots Dial falls back to, in order: it skips the one it began with. *)
Others(i) == [k \in 1 .. NSlots - 1 |-> IF k <= i THEN k - 1 ELSE k]

Begin(p, slots) ==
  /\ pc' = [pc EXCEPT ![p] = "next"]
  /\ start' = [start EXCEPT ![p] = activeIdx]
  /\ left' = [left EXCEPT ![p] = slots]
  /\ UNCHANGED <<slotVars, up, activeIdx, using, attempt>>

(* Manager.Dial tries the active transport, then the others in order.  Its   *)
(* caller may dial again.                                                    *)
Dial(d) ==
  /\ pc[d] \in {"idle", "connected", "failed"}
  /\ Begin(d, <<activeIdx>> \o Others(activeIdx))

(* tryPromote, at a tick: the transports of higher priority, in order. *)
TryPromote ==
  /\ pc[Promoter] = "idle" /\ activeIdx # 0
  /\ Begin(Promoter, Upto(activeIdx))

----------------------------------------------------------------------------
(* p takes the transport out of the next slot, without m.mu ... *)
TakeSlot(p) ==
  /\ pc[p] = "next" /\ left[p] # <<>>
  /\ using' = [using EXCEPT ![p] = transports[Head(left[p])]]
  /\ attempt' = [attempt EXCEPT ![p] = 0]
  /\ pc' = [pc EXCEPT ![p] = "check"]
  /\ UNCHANGED <<slotVars, up, activeIdx, start, left>>

(* ... and gives up when none is left. *)
Exhausted(p) ==
  /\ pc[p] = "next" /\ left[p] = <<>>
  /\ pc' = [pc EXCEPT ![p] = IF p = Promoter THEN "idle" ELSE "failed"]
  /\ UNCHANGED <<slotVars, up, activeIdx, dialVars>>

SlotFails(p) ==
  /\ pc' = [pc EXCEPT ![p] = "next"]
  /\ left' = [left EXCEPT ![p] = Tail(@)]

(* ReconnectingTransport.Dial: a transport that is closed fails at once ... *)
CheckClosed(p) ==
  /\ pc[p] = "check"
  /\ IF using[p] \in closed
       THEN SlotFails(p)
       ELSE pc' = [pc EXCEPT ![p] = "dial"] /\ UNCHANGED left
  /\ UNCHANGED <<slotVars, up, activeIdx, start, using, attempt>>

(* A count of attempts that begins afresh in each round, and one that goes   *)
(* on.                                                                       *)
CountedAfresh(n) == 1

Counted(n) == n + 1

(* ... and one whose inner dial fails MaxRetries times fails then. *)
DialFails(p) ==
  /\ pc[p] = "dial"
  /\ Head(left[p]) \notin up \/ using[p] \in closed
  /\ attempt' = [attempt EXCEPT ![p] = Counted(@)]
  /\ IF attempt'[p] >= MaxRetries
       THEN SlotFails(p)
       ELSE pc' = [pc EXCEPT ![p] = "backoff"] /\ UNCHANGED left
  /\ UNCHANGED <<slotVars, up, activeIdx, start, using>>

(* The backoff ends, or the context does: for the health check after 5 s.    *)
BackoffEnds(p) ==
  /\ pc[p] = "backoff"
  /\ pc' = [pc EXCEPT ![p] = "check"]
  /\ UNCHANGED <<slotVars, up, activeIdx, dialVars>>

ContextDone(p) ==
  /\ pc[p] = "backoff"
  /\ SlotFails(p)
  /\ UNCHANGED <<slotVars, up, activeIdx, start, using, attempt>>

(* The inner dial succeeds: a Dial that has fallen back, and the health      *)
(* check, still have to write activeIdx.                                     *)
DialSucceeds(p) ==
  /\ pc[p] = "dial"
  /\ Head(left[p]) \in up
  /\ pc' = [pc EXCEPT ![p] =
       IF p # Promoter /\ Head(left[p]) = start[p] THEN "connected" ELSE "switch"]
  /\ UNCHANGED <<slotVars, up, activeIdx, dialVars>>

(* A promotion that is not written down, and one that is, as a fallback. *)
ActiveKept(p) == IF p = Promoter THEN activeIdx ELSE Head(left[p])

NewActive(p) == Head(left[p])

Switch(p) ==
  /\ pc[p] = "switch"
  /\ activeIdx' = NewActive(p)
  /\ pc' = [pc EXCEPT ![p] = IF p = Promoter THEN "idle" ELSE "connected"]
  /\ UNCHANGED <<slotVars, up, dialVars>>

----------------------------------------------------------------------------
(* Replace puts a new transport into a slot, under m.mu, and closes the old  *)
(* one in the background.  (Dial and tryPromote read the slice without the   *)
(* lock: they see the old transport or the new one.)                         *)
Replace(i) ==
  /\ built < MaxMade
  /\ built' = built + 1
  /\ transports' = [transports EXCEPT ![i] = built']
  /\ replaced' = replaced \cup {transports[i]}
  /\ UNCHANGED <<closed, up, activeIdx, pc, dialVars>>

CloseReplaced ==
  /\ \E t \in replaced :
       /\ replaced' = replaced \ {t}
       /\ closed' = closed \cup {t}
  /\ UNCHANGED <<transports, built, up, activeIdx, pc, dialVars>>

(* A network becomes reachable or not. *)
NetworkChanges ==
  /\ \E i \in Slots : up' = IF i \in up THEN up \ {i} ELSE up \cup {i}
  /\ UNCHANGED <<slotVars, activeIdx, pc, dialVars>>

----------------------------------------------------------------------------
Step(p) ==
  \/ TakeSlot(p) \/ Exhausted(p)
  \/ CheckClosed(p) \/ DialFails(p) \/ BackoffEnds(p) \/ ContextDone(p)
  \/ DialSucceeds(p) \/ Switch(p)

FailoverNext ==
  \/ \E d \in Dialers : Dial(d)
  \/ TryPromote
  \/ \E p \in Procs : Step(p)
  \/ \E i \in Slots : Replace(i)
  \/ CloseReplaced
  \/ NetworkChanges

(* Goroutines go on, and the ticker of the health check ticks. *)
FailoverSpec == FailoverInit /\ [][FailoverNext]_failoverVars
FailoverFairSpec ==
  /\ FailoverSpec
  /\ \A p \in Procs : WF_failoverVars(Step(p))
  /\ WF_failoverVars(TryPromote)
  /\ WF_failoverVars(CloseReplaced)

----------------------------------------------------------------------------
(* Rotation loses no transport and breaks none that is in use: each one made *)
(* is in one slot, or was replaced and is still to be closed, or is closed;  *)
(* and whoever dials has the transport its slot holds, or one that a         *)
(* rotation took out (Replace, while Dial and tryPromote read the slice      *)
(* without m.mu).                                                            *)
Trying(p) == pc[p] \in {"check", "dial", "backoff", "switch"}
Accounted ==
  /\ \A t \in 1 .. built : t \in replaced \cup closed \/ \E i \in Slots : transports[i] = t
  /\ \A i \in Slots : transports[i] \notin replaced \cup closed
  /\ \A i, j \in Slots : transports[i] = transports[j] => i = j
  /\ replaced \cap closed = {}
  /\ \A p \in Procs : Trying(p) =>
       using[p] = transports[Head(left[p])] \/ using[p] \in replaced \cup closed

(* However the active slot changed meanwhile, the health check makes one     *)
(* active that is of higher priority than the one it saw, and a Dial that    *)
(* falls back one that is not the one that failed it.                        *)
SwitchMoves ==
  [][\A p \in Procs :
       pc[p] = "switch" /\ pc'[p] # "switch" =>
         IF p = Promoter THEN activeIdx' < start[p] ELSE activeIdx' # start[p]]_failoverVars

(* When the first transport is reachable for good and no rotation replaces   *)
(* one any more (MaxMade bounds them), the client returns to it and stays,   *)
(* although a Dial that began before may overrule the health check.          *)
PrimaryRegained == <>[](0 \in up) => <>[](activeIdx = 0)

(* A Dial returns, with a connection or after every slot has failed, however *)
(* networks and rotations interfere: retries end in each of its slots        *)
(* ("0 = unlimited", reconnect.go:13, is not used here).                     *)
DialReturns == \A d \in Dialers : pc[d] = "next" ~> pc[d] \in {"connected", "failed"}
=============================================================================
