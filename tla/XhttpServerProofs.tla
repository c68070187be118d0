-------------------------- MODULE XhttpServerProofs -------------------------
(***************************************************************************)
(* Proofs about the life of sessions for any number of ids, requests and   *)
(* sessions and any capacity of acceptCh.  The invariant says what the map *)
(* and the sweep know of each other, and in which single place a session   *)
(* is that has been emitted: with a handler, in acceptCh, dropped, or with *)
(* its tunnel.                                                             *)
(***************************************************************************)
EXTENDS XhttpServer, FiniteSetTheorems, TLAPS

(* The map and the sweep. *)
MapOK == \A s \in Sids : sessions[s] # None => sid[sessions[s]] = s
SweepOK ==
  /\ \A s \in sweep : sessions[s] # None
  /\ expiring # None => sid[expiring] \in sweep /\ sessions[sid[expiring]] = expiring

(* What a handler works on. *)
HandlerOK ==
  \A r \in Reqs :
    /\ pc[r] # "idle" => at[r] # None
    /\ pc[r] \in {"cas", "send"} => at[r] \in hasDownload

(* Where an emitted session is. *)
InQueue(k) == \E i \in 1 .. Len(acceptCh) : acceptCh[i] = k
BeingSent(k) == \E r \in Reqs : pc[r] = "send" /\ at[r] = k
Started(k) == tunnel[k] # "none"

Alike ==
  /\ \A i, j \in 1 .. Len(acceptCh) : acceptCh[i] = acceptCh[j] => i = j
  /\ \A q, r \in Reqs : pc[q] = "send" /\ pc[r] = "send" /\ at[q] = at[r] => q = r
Somewhere ==
  \A k \in Sess : k \in accepted <=> InQueue(k) \/ BeingSent(k) \/ Started(k) \/ k \in dropped
OnlyThere ==
  \A k \in Sess :
    /\ InQueue(k) => ~BeingSent(k) /\ ~Started(k) /\ k \notin dropped
    /\ BeingSent(k) => ~Started(k) /\ k \notin dropped
    /\ Started(k) => k \notin dropped

Emission == Alike /\ Somewhere /\ OnlyThere /\ accepted \subseteq hasDownload

MapInv == SrvTypeOK /\ MapOK /\ SweepOK /\ NoSplitBrain
SrvInv == MapInv /\ HandlerOK /\ Emission

(* A sequence over a set is one over any larger set. *)
LEMMA SeqGrows ==
  ASSUME NEW S, NEW T, S \subseteq T, NEW q \in Seq(S)
  PROVE  q \in Seq(T)
  <1>1. Len(q) \in Nat /\ q \in [1 .. Len(q) -> S]
    OBVIOUS
  <1>2. q \in [1 .. Len(q) -> T]
    BY <1>1
  <1>. QED  BY <1>1, <1>2

(* Appending an element of the set leaves a sequence over the set. *)
LEMMA SeqAppends ==
  ASSUME NEW S, NEW q \in Seq(S), NEW e \in S
  PROVE  Append(q, e) \in Seq(S)
  OBVIOUS

----------------------------------------------------------------------------
LEMMA SrvInvInit == ASSUME SrvInit PROVE SrvInv
  BY ReqAssumption, MaxSessAssumption, NoneAssumption
  DEF SrvInit, SrvInv, MapInv, SrvTypeOK, MapOK, SweepOK, NoSplitBrain, HandlerOK, Emission,
      Alike, Somewhere, OnlyThere, InQueue, BeingSent, Started, Sess

(* What the types say of numbers of sessions. *)
LEMMA Numbers ==
  ASSUME SrvTypeOK
  PROVE  /\ count \in Nat /\ MaxSess \in Nat /\ 1 .. count \subseteq Sess
         /\ None \notin 1 .. count /\ count + 1 \notin 1 .. count
  BY MaxSessAssumption, NoneAssumption DEF SrvTypeOK, Sess

(* Arrive, when the id has a session. *)
LEMMA ArriveOldKeepsInv ==
  ASSUME SrvInv, NEW r \in Reqs, NEW s \in Sids, Arrive(r, s), sessions[s] # None
  PROVE  SrvInv'
  <1>1. /\ sweep = {} /\ pc[r] = "idle"
        /\ at' = [at EXCEPT ![r] = sessions[s]]
        /\ pc' = [pc EXCEPT ![r] = IF r \in Gets THEN "store" ELSE "check"]
        /\ UNCHANGED <<mapVars, flagVars, old, acceptVars, sweepVars>>
    BY DEF Arrive, GetOrCreate
  <1>2. MapInv'
    BY <1>1 DEF SrvInv, MapInv, SrvTypeOK, MapOK, SweepOK, NoSplitBrain,
       mapVars, flagVars, acceptVars, sweepVars
  <1>3. HandlerOK'
    BY <1>1 DEF SrvInv, MapInv, SrvTypeOK, HandlerOK, flagVars
  <1>4. Emission'
    <2>1. \A k \in Sess : InQueue(k)' = InQueue(k) /\ Started(k)' = Started(k)
      BY <1>1 DEF InQueue, Started, acceptVars
    <2>2. \A q \in Reqs : pc'[q] = "send" <=> pc[q] = "send"
      BY <1>1 DEF SrvInv, MapInv, SrvTypeOK
    <2>3. \A q \in Reqs : pc[q] = "send" => at'[q] = at[q]
      BY <1>1 DEF SrvInv, MapInv, SrvTypeOK
    <2>4. \A k \in Sess : BeingSent(k)' = BeingSent(k)
      BY <2>2, <2>3 DEF BeingSent
    <2>. QED  BY <1>1, <2>1, <2>2, <2>3, <2>4
         DEF SrvInv, Emission, Alike, Somewhere, OnlyThere, acceptVars, flagVars
  <1>. QED  BY <1>2, <1>3, <1>4 DEF SrvInv

(* Arrive, when a session is made. *)
LEMMA ArriveNewKeepsInv ==
  ASSUME SrvInv, NEW r \in Reqs, NEW s \in Sids, Arrive(r, s), sessions[s] = None
  PROVE  SrvInv'
  <1>1. /\ sweep = {} /\ pc[r] = "idle" /\ count < MaxSess
        /\ count' = count + 1 /\ sid' = Append(sid, s)
        /\ sessions' = [sessions EXCEPT ![s] = count + 1]
        /\ at' = [at EXCEPT ![r] = count + 1]
        /\ pc' = [pc EXCEPT ![r] = IF r \in Gets THEN "store" ELSE "check"]
        /\ UNCHANGED <<flagVars, old, acceptVars, sweepVars>>
    BY DEF Arrive, GetOrCreate
  <1>2. /\ count \in Nat /\ 1 .. count \subseteq 1 .. count' /\ count' \in 0 .. MaxSess
        /\ count' \in 1 .. count' /\ None \notin 1 .. count' /\ 1 .. count' = 1 .. count \cup {count'}
    BY <1>1, MaxSessAssumption, NoneAssumption DEF SrvInv, MapInv, SrvTypeOK, Sess
  <1>3. /\ sid' \in Seq(Sids) /\ Len(sid') = count' /\ sid'[count'] = s
        /\ \A k \in 1 .. count : sid'[k] = sid[k]
    BY <1>1, <1>2 DEF SrvInv, MapInv, SrvTypeOK
  <1>4. SrvTypeOK'
    <2>1. /\ sessions' \in [Sids -> (1 .. count') \cup {None}]
          /\ at' \in [Reqs -> (1 .. count') \cup {None}]
      <3>1. /\ sessions \in [Sids -> (1 .. count') \cup {None}]
            /\ at \in [Reqs -> (1 .. count') \cup {None}]
        BY <1>2 DEF SrvInv, MapInv, SrvTypeOK
      <3>. QED  BY <1>1, <1>2, <3>1
    <2>3. pc' \in [Reqs -> {"idle", "store", "mark", "check", "cas", "send", "done"}]
      BY <1>1 DEF SrvInv, MapInv, SrvTypeOK
    <2>2. acceptCh \in Seq(1 .. count')
      <3>1. acceptCh \in Seq(1 .. count)
        BY DEF SrvInv, MapInv, SrvTypeOK
      <3>. QED  BY ONLY <1>2, <3>1, SeqGrows
    <2>. QED  BY <1>1, <1>2, <1>3, <2>1, <2>2, <2>3
         DEF SrvInv, MapInv, SrvTypeOK, flagVars, acceptVars, sweepVars
  <1>5. expiring = None
    BY <1>1 DEF SrvInv, MapInv, SweepOK
  <1>6. MapOK' /\ SweepOK'
    BY <1>1, <1>2, <1>3, <1>5 DEF SrvInv, MapInv, SrvTypeOK, MapOK, SweepOK, sweepVars
  <1>7. NoSplitBrain'
    <2>1. ASSUME NEW k \in 1 .. count, k \notin closed
          PROVE  sessions'[sid'[k]] = k
      <3>1. sessions[sid[k]] = k /\ sid[k] \in Sids
        BY <2>1 DEF SrvInv, MapInv, SrvTypeOK, NoSplitBrain
      <3>2. sid[k] # s /\ sid'[k] = sid[k]
        BY <3>1, <1>2, <1>3
      <3>. QED  BY <1>1, <3>1, <3>2 DEF SrvInv, MapInv, SrvTypeOK
    <2>2. sessions'[sid'[count']] = count'
      BY <1>1, <1>3 DEF SrvInv, MapInv, SrvTypeOK
    <2>. QED  BY <1>1, <1>2, <2>1, <2>2 DEF NoSplitBrain, flagVars
  <1>8. HandlerOK'
    BY <1>1, <1>2 DEF SrvInv, MapInv, SrvTypeOK, HandlerOK, flagVars
  <1>9. Emission'
    <2>1. \A k \in Sess : InQueue(k)' = InQueue(k) /\ Started(k)' = Started(k)
      BY <1>1 DEF InQueue, Started, acceptVars
    <2>2. \A q \in Reqs : pc'[q] = "send" <=> pc[q] = "send"
      BY <1>1 DEF SrvInv, MapInv, SrvTypeOK
    <2>3. \A q \in Reqs : pc[q] = "send" => at'[q] = at[q]
      BY <1>1 DEF SrvInv, MapInv, SrvTypeOK
    <2>4. \A k \in Sess : BeingSent(k)' = BeingSent(k)
      BY <2>2, <2>3 DEF BeingSent
    <2>. QED  BY <1>1, <2>1, <2>2, <2>3, <2>4
         DEF SrvInv, Emission, Alike, Somewhere, OnlyThere, acceptVars, flagVars
  <1>. QED  BY <1>4, <1>6, <1>7, <1>8, <1>9 DEF SrvInv, MapInv

(* What keeps the map also when no session, id or lock is touched. *)
LEMMA MapInvKept ==
  ASSUME MapInv, UNCHANGED <<mapVars, closed, sweepVars>>, SrvTypeOK'
  PROVE  MapInv'
  BY DEF MapInv, MapOK, SweepOK, NoSplitBrain, mapVars, sweepVars

(* The handlers of a GET up to tryEmit, and its first look. *)
LEMMA HandlerKeepsInv ==
  ASSUME SrvInv, NEW r \in Reqs,
         StoreHasDownload(r) \/ MarkConnected(r) \/ EmitCheck(r)
  PROVE  SrvInv'
  <1>1. /\ pc[r] \in {"store", "mark", "check"}
        /\ \E p \in {"mark", "check", "cas", "done"} :
             /\ pc' = [pc EXCEPT ![r] = p]
             /\ p = "cas" => at[r] \in hasDownload
        /\ hasDownload \subseteq hasDownload' /\ hasDownload' \subseteq hasDownload \cup {at[r]}
        /\ connected' \subseteq connected \cup {at[r]}
        /\ UNCHANGED <<mapVars, accepted, closed, old, at, acceptVars, sweepVars>>
    BY DEF StoreHasDownload, MarkConnected, EmitCheck, Ready, flagVars
  <1>2. at[r] \in 1 .. count
    BY <1>1 DEF SrvInv, MapInv, SrvTypeOK, HandlerOK
  <1>3. SrvTypeOK'
    BY <1>1, <1>2 DEF SrvInv, MapInv, SrvTypeOK, mapVars, acceptVars, sweepVars
  <1>4. MapInv'
    BY <1>1, <1>3, MapInvKept DEF SrvInv
  <1>5. HandlerOK'
    BY <1>1 DEF SrvInv, MapInv, SrvTypeOK, HandlerOK
  <1>6. Emission'
    <2>1. \A k \in Sess : InQueue(k)' = InQueue(k) /\ Started(k)' = Started(k)
      BY <1>1 DEF InQueue, Started, acceptVars
    <2>2. \A q \in Reqs : (pc'[q] = "send" <=> pc[q] = "send") /\ at'[q] = at[q]
      BY <1>1 DEF SrvInv, MapInv, SrvTypeOK
    <2>3. \A k \in Sess : BeingSent(k)' = BeingSent(k)
      BY <2>2 DEF BeingSent
    <2>. QED  BY <1>1, <2>1, <2>2, <2>3
         DEF SrvInv, Emission, Alike, Somewhere, OnlyThere, acceptVars
  <1>. QED  BY <1>4, <1>5, <1>6 DEF SrvInv

(* The compare-and-swap: the first one has a session to send that nobody had *)
(* before; the others change nothing.                                        *)
LEMMA CASKeepsInv ==
  ASSUME SrvInv, NEW r \in Reqs, EmitCAS(r)
  PROVE  SrvInv'
  <1>1. /\ pc[r] = "cas" /\ accepted' = accepted \cup {at[r]}
        /\ pc' = [pc EXCEPT ![r] = IF at[r] \notin accepted THEN "send" ELSE "done"]
        /\ UNCHANGED <<mapVars, hasDownload, connected, closed, old, at, acceptVars, sweepVars>>
    BY DEF EmitCAS, First
  <1>2. at[r] \in 1 .. count /\ at[r] \in hasDownload
    BY <1>1 DEF SrvInv, MapInv, SrvTypeOK, HandlerOK
  <1>3. SrvTypeOK'
    BY <1>1, <1>2 DEF SrvInv, MapInv, SrvTypeOK, mapVars, acceptVars, sweepVars
  <1>4. MapInv'
    BY <1>1, <1>3, MapInvKept DEF SrvInv
  <1>5. HandlerOK'
    BY <1>1, <1>2 DEF SrvInv, MapInv, SrvTypeOK, HandlerOK
  <1>6. \A k \in Sess : InQueue(k)' = InQueue(k) /\ Started(k)' = Started(k)
    BY <1>1 DEF InQueue, Started, acceptVars
  <1>7. CASE at[r] \in accepted
    <2>1. \A q \in Reqs : (pc'[q] = "send" <=> pc[q] = "send") /\ at'[q] = at[q]
      BY <1>1, <1>7 DEF SrvInv, MapInv, SrvTypeOK
    <2>2. \A k \in Sess : BeingSent(k)' = BeingSent(k)
      BY <2>1 DEF BeingSent
    <2>3. accepted' = accepted  BY <1>1, <1>7
    <2>4. Emission'
      BY <1>1, <1>6, <2>1, <2>2, <2>3
      DEF SrvInv, Emission, Alike, Somewhere, OnlyThere, acceptVars
    <2>. QED  BY <1>4, <1>5, <2>4 DEF SrvInv
  <1>8. CASE at[r] \notin accepted
    <2>1. at[r] \in Sess
      BY <1>2, Numbers DEF SrvInv, MapInv
    <2>2. ~InQueue(at[r]) /\ ~BeingSent(at[r]) /\ ~Started(at[r]) /\ at[r] \notin dropped
      BY <1>8, <2>1 DEF SrvInv, Emission, Somewhere
    <2>3. /\ pc'[r] = "send" /\ at' = at
          /\ \A q \in Reqs \ {r} : pc'[q] = pc[q]
      BY <1>1, <1>8 DEF SrvInv, MapInv, SrvTypeOK
    <2>4. \A k \in Sess : BeingSent(k)' <=> BeingSent(k) \/ k = at[r]
      BY <1>1, <2>3 DEF BeingSent
    <2>5. \A q \in Reqs : pc[q] = "send" => at[q] # at[r]
      BY <2>2 DEF BeingSent
    <2>6. Alike'
      BY <1>1, <2>3, <2>5 DEF SrvInv, Emission, Alike, acceptVars
    <2>7. Somewhere' /\ OnlyThere'
      BY <1>1, <1>6, <2>2, <2>4 DEF SrvInv, Emission, Somewhere, OnlyThere, acceptVars
    <2>8. accepted' \subseteq hasDownload'
      BY <1>1, <1>2 DEF SrvInv, Emission
    <2>. QED  BY <1>4, <1>5, <2>6, <2>7, <2>8 DEF SrvInv, Emission
  <1>. QED  BY <1>7, <1>8

(* The send: from the handler into acceptCh, or dropped. *)
LEMMA SendKeepsInv ==
  ASSUME SrvInv, NEW r \in Reqs, EmitSend(r)
  PROVE  SrvInv'
  <1>1. /\ pc[r] = "send" /\ pc' = [pc EXCEPT ![r] = "done"]
        /\ UNCHANGED <<mapVars, flagVars, old, at, tunnel, sweepVars>>
        /\ \/ acceptCh' = Append(acceptCh, at[r]) /\ dropped' = dropped
           \/ dropped' = dropped \cup {at[r]} /\ acceptCh' = acceptCh
    BY DEF EmitSend
  <1>2. at[r] \in 1 .. count
    BY <1>1 DEF SrvInv, MapInv, SrvTypeOK, HandlerOK
  <1>3. at[r] \in Sess
    BY <1>2, Numbers DEF SrvInv, MapInv
  <1>4. BeingSent(at[r]) /\ ~InQueue(at[r]) /\ ~Started(at[r]) /\ at[r] \notin dropped
    BY <1>1, <1>3 DEF SrvInv, Emission, OnlyThere, BeingSent
  <1>5. acceptCh' \in Seq(1 .. count)
    <2>1. acceptCh \in Seq(1 .. count)
      BY DEF SrvInv, MapInv, SrvTypeOK
    <2>2. Append(acceptCh, at[r]) \in Seq(1 .. count)
      BY ONLY <2>1, <1>2, SeqAppends
    <2>. QED  BY ONLY <1>1, <2>1, <2>2
  <1>6. SrvTypeOK'
    BY <1>1, <1>2, <1>5 DEF SrvInv, MapInv, SrvTypeOK, mapVars, flagVars, sweepVars
  <1>7. MapInv'
    BY <1>1, <1>6, MapInvKept DEF SrvInv, flagVars
  <1>8. HandlerOK'
    BY <1>1 DEF SrvInv, MapInv, SrvTypeOK, HandlerOK, flagVars
  <1>9. /\ pc'[r] = "done" /\ at' = at
        /\ \A q \in Reqs \ {r} : pc'[q] = pc[q]
    BY <1>1 DEF SrvInv, MapInv, SrvTypeOK
  <1>10. \A k \in Sess : BeingSent(k)' <=> BeingSent(k) /\ k # at[r]
    BY <1>1, <1>9 DEF SrvInv, Emission, Alike, BeingSent
  <1>11. \A k \in Sess : Started(k)' = Started(k)
    BY <1>1 DEF Started
  <1>12. \A q, p \in Reqs : pc'[q] = "send" /\ pc'[p] = "send" /\ at'[q] = at'[p] => q = p
    BY <1>1, <1>9 DEF SrvInv, Emission, Alike
  <1>13. accepted' = accepted /\ hasDownload' = hasDownload
    BY <1>1 DEF flagVars
  <1>14. CASE dropped' = dropped \cup {at[r]} /\ acceptCh' = acceptCh
    <2>1. \A k \in Sess : InQueue(k)' = InQueue(k)
      BY <1>14 DEF InQueue
    <2>2. Emission'
      BY <1>3, <1>4, <1>10, <1>11, <1>12, <1>13, <1>14, <2>1
      DEF SrvInv, Emission, Alike, Somewhere, OnlyThere
    <2>. QED  BY <1>7, <1>8, <2>2 DEF SrvInv
  <1>15. CASE acceptCh' = Append(acceptCh, at[r]) /\ dropped' = dropped
    <2>1. /\ acceptCh \in Seq(1 .. count) /\ Len(acceptCh) \in Nat
          /\ Len(acceptCh') = Len(acceptCh) + 1 /\ acceptCh'[Len(acceptCh')] = at[r]
          /\ \A i \in 1 .. Len(acceptCh) : acceptCh'[i] = acceptCh[i]
      BY <1>15, <1>2 DEF SrvInv, MapInv, SrvTypeOK
    <2>2. 1 .. Len(acceptCh') = 1 .. Len(acceptCh) \cup {Len(acceptCh')}
      BY <2>1
    <2>3. \A k \in Sess : InQueue(k)' <=> InQueue(k) \/ k = at[r]
      BY <2>1, <2>2 DEF InQueue
    <2>4. \A i, j \in 1 .. Len(acceptCh') : acceptCh'[i] = acceptCh'[j] => i = j
      BY <2>1, <2>2, <1>4 DEF SrvInv, Emission, Alike, InQueue
    <2>5. Emission'
      BY <1>3, <1>4, <1>10, <1>11, <1>12, <1>13, <1>15, <2>3, <2>4
      DEF SrvInv, Emission, Alike, Somewhere, OnlyThere
    <2>. QED  BY <1>7, <1>8, <2>5 DEF SrvInv
  <1>. QED  BY <1>1, <1>14, <1>15

(* The accept loop: from acceptCh to a tunnel. *)
LEMMA AcceptKeepsInv ==
  ASSUME SrvInv, AcceptLoop
  PROVE  SrvInv'
  <1>1. PICK k \in Sess : Accept(k) /\ tunnel' = [tunnel EXCEPT ![k] = "running"]
    BY DEF AcceptLoop
  <1>2. /\ acceptCh # <<>> /\ k = Head(acceptCh) /\ acceptCh' = Tail(acceptCh)
        /\ UNCHANGED <<mapVars, flagVars, old, reqVars, dropped, sweepVars>>
    BY <1>1 DEF AcceptLoop, Accept
  <1>3. /\ acceptCh \in Seq(1 .. count) /\ acceptCh' \in Seq(1 .. count)
        /\ Len(acceptCh) \in Nat \ {0} /\ Len(acceptCh') = Len(acceptCh) - 1
        /\ acceptCh[1] = k
        /\ \A i \in 1 .. Len(acceptCh') : acceptCh'[i] = acceptCh[i + 1]
    BY <1>2 DEF SrvInv, MapInv, SrvTypeOK
  <1>4. SrvTypeOK'
    BY <1>1, <1>2, <1>3
    DEF SrvInv, MapInv, SrvTypeOK, mapVars, flagVars, reqVars, sweepVars
  <1>5. MapInv'
    BY <1>2, <1>4, MapInvKept DEF SrvInv, flagVars
  <1>6. HandlerOK'
    BY <1>2 DEF SrvInv, HandlerOK, flagVars, reqVars
  <1>7. InQueue(k) /\ ~BeingSent(k) /\ ~Started(k) /\ k \notin dropped
    BY <1>3 DEF SrvInv, Emission, OnlyThere, InQueue
  <1>8. \A i, j \in 1 .. Len(acceptCh') : acceptCh'[i] = acceptCh'[j] => i = j
    BY <1>3 DEF SrvInv, Emission, Alike
  <1>9. \A j \in Sess : InQueue(j)' <=> InQueue(j) /\ j # k
    <2>1. ASSUME NEW j \in Sess, InQueue(j)' PROVE InQueue(j) /\ j # k
      BY <1>3, <2>1 DEF InQueue, SrvInv, Emission, Alike
    <2>2. ASSUME NEW j \in Sess, InQueue(j), j # k PROVE InQueue(j)'
      <3>1. PICK i \in 1 .. Len(acceptCh) : acceptCh[i] = j  BY <2>2 DEF InQueue
      <3>2. i - 1 \in 1 .. Len(acceptCh')  BY <1>3, <2>2, <3>1
      <3>3. acceptCh'[i - 1] = j  BY <1>3, <3>1, <3>2
      <3>. QED  BY <3>2, <3>3 DEF InQueue
    <2>. QED  BY <2>1, <2>2
  <1>10. \A j \in Sess : Started(j)' <=> Started(j) \/ j = k
    BY <1>1 DEF SrvInv, MapInv, SrvTypeOK, Started
  <1>11. \A j \in Sess : BeingSent(j)' = BeingSent(j)
    BY <1>2 DEF BeingSent, reqVars
  <1>12. Emission'
    BY <1>2, <1>7, <1>8, <1>9, <1>10, <1>11
    DEF SrvInv, Emission, Alike, Somewhere, OnlyThere, reqVars, flagVars
  <1>. QED  BY <1>5, <1>6, <1>12 DEF SrvInv

(* Requests and emission are as they were. *)
LEMMA EmissionKept ==
  ASSUME HandlerOK, Emission,
         UNCHANGED <<hasDownload, accepted, reqVars, acceptCh, dropped>>,
         \A k \in Sess : Started(k)' = Started(k)
  PROVE  HandlerOK' /\ Emission'
  BY DEF HandlerOK, Emission, Alike, Somewhere, OnlyThere, InQueue, BeingSent, reqVars

(* The end of a tunnel, and the passing of time. *)
LEMMA TunnelKeepsInv ==
  ASSUME SrvInv, NEW k \in Sess, TunnelEnds(k) \/ Age(k)
  PROVE  SrvInv'
  <1>1. CASE TunnelEnds(k)
    <2>1. /\ tunnel[k] = "running" /\ tunnel' = [tunnel EXCEPT ![k] = "ended"]
          /\ closed' = closed \cup {k}
          /\ UNCHANGED <<mapVars, hasDownload, accepted, connected, old, reqVars,
                         acceptCh, dropped, sweepVars>>
      BY <1>1 DEF TunnelEnds
    <2>2. k \in 1 .. count
      <3>1. k \in accepted  BY <2>1 DEF SrvInv, Emission, Somewhere, Started
      <3>. QED  BY <3>1 DEF SrvInv, MapInv, SrvTypeOK
    <2>3. MapInv'
      BY <2>1, <2>2 DEF SrvInv, MapInv, SrvTypeOK, MapOK, SweepOK, NoSplitBrain,
         mapVars, reqVars, sweepVars
    <2>4. \A j \in Sess : Started(j)' = Started(j)
      BY <2>1 DEF SrvInv, MapInv, SrvTypeOK, Started
    <2>. QED  BY <2>1, <2>3, <2>4, EmissionKept DEF SrvInv
  <1>2. CASE Age(k)
    <2>1. /\ k <= count /\ old' = old \cup {k}
          /\ UNCHANGED <<mapVars, flagVars, reqVars, acceptVars, sweepVars>>
      BY <1>2 DEF Age
    <2>2. k \in 1 .. count
      BY <2>1, Numbers DEF Sess, SrvInv, MapInv
    <2>3. MapInv'
      BY <2>1, <2>2 DEF SrvInv, MapInv, SrvTypeOK, MapOK, SweepOK, NoSplitBrain,
         mapVars, flagVars, reqVars, acceptVars, sweepVars
    <2>4. \A j \in Sess : Started(j)' = Started(j)
      BY <2>1 DEF Started, acceptVars
    <2>. QED  BY <2>1, <2>3, <2>4, EmissionKept DEF SrvInv, flagVars, acceptVars
  <1>. QED  BY <1>1, <1>2

(* The cleanup loop. *)
LEMMA SweepKeepsInv ==
  ASSUME SrvInv, Sweep
  PROVE  SrvInv'
  <1>. USE DEF SrvInv, MapInv, SrvTypeOK, MapOK, SweepOK, NoSplitBrain
  <1>1. CASE SweepStart
    <2>1. /\ sweep = {} /\ sweep' = {s \in Sids : sessions[s] # None}
          /\ UNCHANGED <<mapVars, flagVars, old, reqVars, acceptVars, expiring>>
      BY <1>1 DEF SweepStart
    <2>2. expiring = None  BY <2>1
    <2>3. MapInv'
      BY <2>1, <2>2 DEF mapVars, flagVars, reqVars, acceptVars
    <2>4. HandlerOK' /\ Emission'
      BY <2>1, EmissionKept DEF flagVars, acceptVars, Started
    <2>. QED  BY <2>3, <2>4
  <1>2. CASE \E s \in Sids : SweepLook(s)
    <2>1. PICK s \in Sids : SweepLook(s)  BY <1>2
    <2>2. /\ s \in sweep /\ expiring = None
          /\ UNCHANGED <<count, sid, flagVars, old, reqVars, acceptVars>>
      BY <2>1 DEF SweepLook
    <2>3. sessions[s] \in 1 .. count /\ sid[sessions[s]] = s
      BY <2>2
    <2>4. \/ /\ sessions[s] \in closed /\ sessions' = [sessions EXCEPT ![s] = None]
             /\ sweep' = sweep \ {s} /\ expiring' = None
          \/ sessions' = sessions /\ sweep' = sweep \ {s} /\ expiring' = None
          \/ sessions' = sessions /\ sweep' = sweep /\ expiring' = sessions[s]
      BY <2>1, <2>2 DEF SweepLook, Finished
    <2>5. SrvTypeOK'
      BY <2>2, <2>3, <2>4 DEF flagVars, reqVars, acceptVars
    <2>6. MapOK' /\ SweepOK'
      BY <2>2, <2>3, <2>4
    <2>7. NoSplitBrain'
      BY <2>2, <2>3, <2>4 DEF flagVars
    <2>8. HandlerOK' /\ Emission'
      BY <2>2, EmissionKept DEF flagVars, acceptVars, Started
    <2>. QED  BY <2>5, <2>6, <2>7, <2>8
  <1>3. CASE SweepExpire
    <2>1. /\ expiring # None /\ closed' = closed \cup {expiring}
          /\ sessions' = [sessions EXCEPT ![sid[expiring]] = None]
          /\ sweep' = sweep \ {sid[expiring]} /\ expiring' = None
          /\ UNCHANGED <<count, sid, hasDownload, accepted, connected, old, reqVars, acceptVars>>
      BY <1>3 DEF SweepExpire
    <2>2. expiring \in 1 .. count /\ sid[expiring] \in sweep /\ sessions[sid[expiring]] = expiring
      BY <2>1
    <2>3. SrvTypeOK'
      BY <2>1, <2>2 DEF reqVars, acceptVars
    <2>4. MapOK' /\ SweepOK'
      BY <2>1, <2>2
    <2>5. NoSplitBrain'
      BY <2>1, <2>2
    <2>6. HandlerOK' /\ Emission'
      BY <2>1, EmissionKept DEF acceptVars, Started
    <2>. QED  BY <2>3, <2>4, <2>5, <2>6
  <1>. QED  BY <1>1, <1>2, <1>3 DEF Sweep

LEMMA SrvStepKeepsInv ==
  ASSUME SrvInv, [SrvNext]_srvVars PROVE SrvInv'
  <1>1. CASE \E r \in Reqs, s \in Sids : Arrive(r, s)
    BY <1>1, ArriveOldKeepsInv, ArriveNewKeepsInv
  <1>2. CASE \E r \in Reqs : RequestStep(r)
    BY <1>2, HandlerKeepsInv, CASKeepsInv, SendKeepsInv DEF RequestStep
  <1>3. CASE AcceptLoop  BY <1>3, AcceptKeepsInv
  <1>4. CASE \E k \in Sess : TunnelEnds(k) \/ Age(k)  BY <1>4, TunnelKeepsInv
  <1>5. CASE Sweep  BY <1>5, SweepKeepsInv
  <1>6. CASE UNCHANGED srvVars
    <2>1. MapInv'
      BY <1>6 DEF SrvInv, MapInv, SrvTypeOK, MapOK, SweepOK, NoSplitBrain, srvVars,
         mapVars, flagVars, reqVars, acceptVars, sweepVars
    <2>2. HandlerOK' /\ Emission'
      BY <1>6, EmissionKept DEF SrvInv, srvVars, flagVars, acceptVars, Started
    <2>. QED  BY <2>1, <2>2 DEF SrvInv
  <1>. QED  BY <1>1, <1>2, <1>3, <1>4, <1>5, <1>6 DEF SrvNext

----------------------------------------------------------------------------
(* Being in one place once is what EmittedOnce counts. *)
LEMMA CountedOnce ==
  ASSUME SrvInv PROVE EmittedOnce
  <1>. SUFFICES ASSUME NEW k \in 1 .. count
       PROVE  /\ Cardinality(Queued(k)) + Cardinality(Sending(k))
                   + (IF tunnel[k] # "none" THEN 1 ELSE 0) + (IF k \in dropped THEN 1 ELSE 0)
                 = IF k \in accepted THEN 1 ELSE 0
              /\ k \in accepted => k \in hasDownload
    BY DEF EmittedOnce
  <1>1. k \in Sess  BY Numbers DEF SrvInv, MapInv
  <1>2. /\ k \in accepted <=> InQueue(k) \/ BeingSent(k) \/ Started(k) \/ k \in dropped
        /\ InQueue(k) => ~BeingSent(k) /\ ~Started(k) /\ k \notin dropped
        /\ BeingSent(k) => ~Started(k) /\ k \notin dropped
        /\ Started(k) => k \notin dropped
    BY <1>1 DEF SrvInv, Emission, Somewhere, OnlyThere
  <1>3. Cardinality(Queued(k)) = IF InQueue(k) THEN 1 ELSE 0
    <2>1. CASE InQueue(k)
      <3>1. PICK i \in 1 .. Len(acceptCh) : acceptCh[i] = k  BY <2>1 DEF InQueue
      <3>2. Queued(k) = {i}  BY <3>1 DEF Queued, SrvInv, Emission, Alike
      <3>. QED  BY <2>1, <3>2, FS_Singleton
    <2>2. CASE ~InQueue(k)
      <3>1. Queued(k) = {}  BY <2>2 DEF Queued, InQueue
      <3>. QED  BY <2>2, <3>1, FS_EmptySet
    <2>. QED  BY <2>1, <2>2
  <1>4. Cardinality(Sending(k)) = IF BeingSent(k) THEN 1 ELSE 0
    <2>1. CASE BeingSent(k)
      <3>1. PICK r \in Reqs : pc[r] = "send" /\ at[r] = k  BY <2>1 DEF BeingSent
      <3>2. Sending(k) = {r}  BY <3>1 DEF Sending, SrvInv, Emission, Alike
      <3>. QED  BY <2>1, <3>2, FS_Singleton
    <2>2. CASE ~BeingSent(k)
      <3>1. Sending(k) = {}  BY <2>2 DEF Sending, BeingSent
      <3>. QED  BY <2>2, <3>1, FS_EmptySet
    <2>. QED  BY <2>1, <2>2
  <1>5. k \in accepted => k \in hasDownload
    BY DEF SrvInv, Emission
  <1>. QED  BY <1>2, <1>3, <1>4, <1>5 DEF Started

(* Type correctness of map, flags, handlers, acceptCh and sweep.             *)
THEOREM ServerTypes == SrvSpec => []SrvTypeOK
  <1>1. SrvInv => SrvTypeOK  BY DEF SrvInv, MapInv
  <1>. QED  BY <1>1, SrvInvInit, SrvStepKeepsInv, PTL DEF SrvSpec

(* GetOrCreate and the cleanup loop never make two live sessions of one id.  *)
THEOREM OneLiveSession == SrvSpec => []NoSplitBrain
  <1>1. SrvInv => NoSplitBrain  BY DEF SrvInv, MapInv
  <1>. QED  BY <1>1, SrvInvInit, SrvStepKeepsInv, PTL DEF SrvSpec

(* tryEmit sends a session to the accept loop once, however many requests    *)
(* call it together.                                                         *)
THEOREM EmitsOnce == SrvSpec => []EmittedOnce
  <1>. QED  BY SrvInvInit, SrvStepKeepsInv, CountedOnce, PTL DEF SrvSpec
=============================================================================
