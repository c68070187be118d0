---------------------------- MODULE XhttpServer -----------------------------
(***************************************************************************)
(* The life of sessions on the server: session.Manager and its cleanup     *)
(* loop, the POST and GET handlers up to and including tryEmit, the accept *)
(* channel, the accept loop of cmd_server.go and the tunnels it starts.    *)
(* What flows through a session is in Session and Download; here a session *)
(* is an object that is created, connected, emitted, closed and forgotten, *)
(* and the same id may get several objects one after the other.            *)
(***************************************************************************)
EXTENDS Integers, Sequences, FiniteSets

CONSTANTS
  Sids,       \* session ids
  Posts,      \* upload requests
  Gets,       \* download requests
  MaxSess,    \* bound: session objects ever created
  AcceptCap,  \* capacity of acceptCh (64 in the code)
  None        \* no session

Reqs == Posts \cup Gets
Sess == 1 .. MaxSess

ASSUME ReqAssumption == Posts \cap Gets = {}
ASSUME MaxSessAssumption == MaxSess \in Nat
ASSUME AcceptCapAssumption == AcceptCap \in Nat
ASSUME NoneAssumption == None \notin Sess

VARIABLES
  sessions,   \* Manager.sessions: the object of each id, or None
  count,      \* session objects created so far; the next is count + 1
  sid,        \* sid[k]: Session.ID
  hasDownload, accepted, connected, closed,
              \* the sessions whose flag is set or whose channel is closed
  old,        \* the sessions created more than ttl ago
  pc,         \* pc[r]: where the handler of request r is
  at,         \* at[r]: the session it looked up
  acceptCh,   \* Server.acceptCh
  dropped,    \* the sessions that found acceptCh full
  tunnel,     \* tunnel[k]: "none", or its handleTunnel "running" or "ended"
  sweep,      \* ids the cleanup loop has still to visit while it holds m.mu
  expiring    \* the session it found unconnected and too old, or None

mapVars == <<sessions, count, sid>>
flagVars == <<hasDownload, accepted, connected, closed>>
reqVars == <<pc, at>>
acceptVars == <<acceptCh, dropped, tunnel>>
sweepVars == <<sweep, expiring>>
srvVars == <<mapVars, flagVars, old, reqVars, acceptVars, sweepVars>>

SrvInit ==
  /\ sessions = [s \in Sids |-> None]
  /\ count = 0
  /\ sid = <<>>
  /\ hasDownload = {} /\ accepted = {} /\ connected = {} /\ closed = {}
  /\ old = {}
  /\ pc = [r \in Reqs |-> "idle"]
  /\ at = [r \in Reqs |-> None]
  /\ acceptCh = <<>> /\ dropped = {}
  /\ tunnel = [k \in Sess |-> "none"]
  /\ sweep = {} /\ expiring = None

----------------------------------------------------------------------------
(* GetOrCreate under m.mu, which the cleanup loop holds during its sweep. *)
GetOrCreate(r, s) ==
  /\ sweep = {}
  /\ \/ /\ sessions[s] # None
        /\ at' = [at EXCEPT ![r] = sessions[s]]
        /\ UNCHANGED mapVars
     \/ /\ sessions[s] = None
        /\ count < MaxSess
        /\ count' = count + 1
        /\ sid' = Append(sid, s)
        /\ sessions' = [sessions EXCEPT ![s] = count']
        /\ at' = [at EXCEPT ![r] = count']

(* An authenticated request: a POST goes on to tryEmit, a GET has first to   *)
(* register itself.                                                          *)
Arrive(r, s) ==
  /\ pc[r] = "idle"
  /\ GetOrCreate(r, s)
  /\ pc' = [pc EXCEPT ![r] = IF r \in Gets THEN "store" ELSE "check"]
  /\ UNCHANGED <<flagVars, old, acceptVars, sweepVars>>

(* sess.HasDownload.Store(true) *)
StoreHasDownload(r) ==
  /\ pc[r] = "store"
  /\ hasDownload' = hasDownload \cup {at[r]}
  /\ pc' = [pc EXCEPT ![r] = "mark"]
  /\ UNCHANGED <<mapVars, accepted, connected, closed, old, at, acceptVars,
                 sweepVars>>

(* MarkConnected closes the channel connected, once. *)
MarkConnected(r) ==
  /\ pc[r] = "mark"
  /\ connected' = connected \cup {at[r]}
  /\ pc' = [pc EXCEPT ![r] = "check"]
  /\ UNCHANGED <<mapVars, hasDownload, accepted, closed, old, at, acceptVars,
                 sweepVars>>

(* What server.go:210 says the code once did, to wait for a POST as well,    *)
(* and what it does: a GET is enough.                                        *)
ReadyWithPost(k) == k \in hasDownload /\ \E p \in Posts : at[p] = k

Ready(k) == k \in hasDownload

(* tryEmit: no GET yet, nothing to emit. *)
EmitCheck(r) ==
  /\ pc[r] = "check"
  /\ pc' = [pc EXCEPT ![r] = IF Ready(at[r]) THEN "cas" ELSE "done"]
  /\ UNCHANGED <<mapVars, flagVars, old, at, acceptVars, sweepVars>>

(* A store in place of the compare-and-swap. *)
FirstAlways(k) == TRUE

First(k) == k \notin accepted

(* tryEmit: Accepted.CompareAndSwap(false, true) *)
EmitCAS(r) ==
  /\ pc[r] = "cas"
  /\ accepted' = accepted \cup {at[r]}
  /\ pc' = [pc EXCEPT ![r] = IF First(at[r]) THEN "send" ELSE "done"]
  /\ UNCHANGED <<mapVars, hasDownload, connected, closed, old, at, acceptVars,
                 sweepVars>>

(* tryEmit: the non-blocking send. *)
EmitSend(r) ==
  /\ pc[r] = "send"
  /\ IF Len(acceptCh) < AcceptCap
       THEN acceptCh' = Append(acceptCh, at[r]) /\ dropped' = dropped
       ELSE dropped' = dropped \cup {at[r]} /\ acceptCh' = acceptCh
  /\ pc' = [pc EXCEPT ![r] = "done"]
  /\ UNCHANGED <<mapVars, flagVars, old, at, tunnel, sweepVars>>

----------------------------------------------------------------------------
(* Server.Accept: connections come out in the order they went in. *)
Accept(k) ==
  /\ acceptCh # <<>> /\ k = Head(acceptCh)
  /\ acceptCh' = Tail(acceptCh)

(* The accept loop starts a tunnel on the next connection. *)
AcceptLoop ==
  /\ \E k \in Sess : Accept(k) /\ tunnel' = [tunnel EXCEPT ![k] = "running"]
  /\ UNCHANGED <<mapVars, flagVars, old, reqVars, dropped, sweepVars>>

(* handleTunnel returns, for whatever reason: its deferred Close. *)
TunnelEnds(k) ==
  /\ tunnel[k] = "running"
  /\ tunnel' = [tunnel EXCEPT ![k] = "ended"]
  /\ closed' = closed \cup {k}
  /\ UNCHANGED <<mapVars, hasDownload, accepted, connected, old, reqVars,
                 acceptCh, dropped, sweepVars>>

(* Time passes: the session is older than the ttl. *)
Age(k) ==
  /\ k <= count /\ k \notin old
  /\ old' = old \cup {k}
  /\ UNCHANGED <<mapVars, flagVars, reqVars, acceptVars, sweepVars>>

(* The cleanup loop's tick: it takes m.mu and starts over the map. *)
SweepStart ==
  /\ sweep = {}
  /\ sweep' = {s \in Sids : sessions[s] # None}
  /\ sweep' # {}
  /\ UNCHANGED <<mapVars, flagVars, old, reqVars, acceptVars, expiring>>

(* A sweep that forgets connected sessions, one that leaves them alone, and  *)
(* the sweep of the code.                                                    *)
FinishedIfConnected(k) == k \in connected

FinishedNever(k) == FALSE

Finished(k) == k \in connected /\ k \in closed

(* The select on connected: a connected session is deleted if it is closed;  *)
(* one that is not connected yet is to expire if it is too old.              *)
SweepLook(s) ==
  LET k == sessions[s] IN
  /\ s \in sweep /\ expiring = None
  /\ \/ /\ k \in connected
        /\ sessions' = IF Finished(k) THEN [sessions EXCEPT ![s] = None] ELSE sessions
        /\ sweep' = sweep \ {s}
        /\ expiring' = expiring
     \/ /\ k \notin connected /\ k \in old
        /\ expiring' = k
        /\ UNCHANGED <<sessions, sweep>>
     \/ /\ k \notin connected /\ k \notin old
        /\ sweep' = sweep \ {s}
        /\ UNCHANGED <<sessions, expiring>>
  /\ UNCHANGED <<count, sid, flagVars, old, reqVars, acceptVars>>

(* Expiry: Close, then delete.  The GET may have come since the look. *)
SweepExpire ==
  /\ expiring # None
  /\ closed' = closed \cup {expiring}
  /\ sessions' = [sessions EXCEPT ![sid[expiring]] = None]
  /\ sweep' = sweep \ {sid[expiring]}
  /\ expiring' = None
  /\ UNCHANGED <<count, sid, hasDownload, accepted, connected, old, reqVars,
                 acceptVars>>

----------------------------------------------------------------------------
RequestStep(r) ==
  StoreHasDownload(r) \/ MarkConnected(r) \/ EmitCheck(r) \/ EmitCAS(r)
    \/ EmitSend(r)
Sweep == SweepStart \/ (\E s \in Sids : SweepLook(s)) \/ SweepExpire

SrvNext ==
  \/ \E r \in Reqs, s \in Sids : Arrive(r, s)
  \/ \E r \in Reqs : RequestStep(r)
  \/ AcceptLoop
  \/ \E k \in Sess : TunnelEnds(k) \/ Age(k)
  \/ Sweep

(* Handlers and the accept loop go on, the ticker ticks and time passes.     *)
(* Nothing obliges requests to come or a tunnel to end.                      *)
SrvFairness ==
  /\ \A r \in Reqs : WF_srvVars(RequestStep(r))
  /\ WF_srvVars(AcceptLoop)
  /\ \A k \in Sess : WF_srvVars(Age(k))
  /\ WF_srvVars(Sweep)

SrvSpec == SrvInit /\ [][SrvNext]_srvVars
SrvFairSpec == SrvSpec /\ SrvFairness

----------------------------------------------------------------------------
(* Type correctness of the server. *)
SrvTypeOK ==
  /\ count \in 0 .. MaxSess
  /\ sid \in Seq(Sids) /\ Len(sid) = count
  /\ sessions \in [Sids -> (1 .. count) \cup {None}]
  /\ hasDownload \subseteq 1 .. count /\ accepted \subseteq 1 .. count
  /\ connected \subseteq 1 .. count /\ closed \subseteq 1 .. count
  /\ old \subseteq 1 .. count
  /\ pc \in [Reqs -> {"idle", "store", "mark", "check", "cas", "send", "done"}]
  /\ at \in [Reqs -> (1 .. count) \cup {None}]
  /\ acceptCh \in Seq(1 .. count) /\ dropped \subseteq 1 .. count
  /\ tunnel \in [Sess -> {"none", "running", "ended"}]
  /\ sweep \subseteq Sids
  /\ expiring \in (1 .. count) \cup {None}

(* A session that is not closed is the one the map has for its id, so two    *)
(* live sessions of one id never coexist and no GET or POST can miss the     *)
(* session whose tunnel runs (GetOrCreate against the cleanup loop).         *)
NoSplitBrain == \A k \in 1 .. count : k \notin closed => sessions[sid[k]] = k

(* "tryEmit sends a new splitConn to acceptCh exactly once per session"      *)
(* (server.go:205): never twice, so two tunnels never read one session, and  *)
(* not at all before a GET has come.                                         *)
Queued(k) == {i \in 1 .. Len(acceptCh) : acceptCh[i] = k}
Sending(k) == {r \in Reqs : pc[r] = "send" /\ at[r] = k}
EmittedOnce ==
  \A k \in 1 .. count :
    /\ Cardinality(Queued(k)) + Cardinality(Sending(k))
         + (IF tunnel[k] # "none" THEN 1 ELSE 0)
         + (IF k \in dropped THEN 1 ELSE 0)
       = IF k \in accepted THEN 1 ELSE 0
    /\ k \in accepted => k \in hasDownload

(* Whatever the order of its requests, a session a GET has come for gets its *)
(* tunnel, unless it is closed first or acceptCh was full.                   *)
ConnectedIsServed ==
  \A k \in Sess :
    k \in connected ~> (tunnel[k] # "none" \/ k \in closed \/ k \in dropped)

(* The manager forgets a session whose tunnel ended, and one no GET came for *)
(* ("automatic TTL cleanup", manager.go:231).                                *)
Idle(k) == k <= count /\ k \notin hasDownload
ClosedIsForgotten ==
  \A k \in Sess :
    /\ k \in closed ~> \A s \in Sids : sessions[s] # k
    /\ Idle(k) ~> (~Idle(k) \/ \A s \in Sids : sessions[s] # k)
============================================================================
