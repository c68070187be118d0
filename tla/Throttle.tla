------------------------------ MODULE Throttle ------------------------------
(***************************************************************************)
(* The client's answer to interference (internal/throttle and the wiring   *)
(* of cmd/nv/cmd_connect.go): the detector judges samples, the canary      *)
(* probes the network and feeds it, the adaptive part follows its verdict, *)
(* the rotator makes new parameters on a timer or in an emergency, and     *)
(* each session rotation rebuilds the transport the manager dials.         *)
(*                                                                         *)
(* Every listener is called in a goroutine of its own, so calls overtake   *)
(* one another.  A sample is "bad" when evaluate finds it so (the model    *)
(* begins when there are samples enough to judge by); parameters are       *)
(* numbered in the order the rotator makes them.                           *)
(***************************************************************************)
EXTENDS Integers, Sequences, FiniteSets

CONSTANTS
  ConfirmCount,   \* DetectorConfig.ConfirmCount (3 in the code)
  BaseParallelConns,  \* AdaptiveConfig.BaseParallelConns (1)
  MaxParallelConns,   \* AdaptiveConfig.MaxParallelConns (8)
  Endpoints,      \* how many endpoints a probe tries (3)
  FailThreshold,  \* CanaryConfig.FailThreshold (3)
  SignalsRotation, \* AdaptiveConfig.Strategy is StrategyRotate or StrategyBoth
  MaxCalls,       \* bound: calls of listeners at once
  MaxParams       \* bound: rotations

ASSUME DetectorAssumption == ConfirmCount \in Nat \ {0}
ASSUME AdaptiveAssumption ==
  /\ BaseParallelConns \in Nat \ {0} /\ MaxParallelConns \in Nat
  /\ BaseParallelConns <= MaxParallelConns /\ SignalsRotation \in BOOLEAN
ASSUME CanaryAssumption == Endpoints \in Nat \ {0} /\ FailThreshold \in Nat \ {0}
ASSUME BoundAssumption == MaxCalls \in Nat /\ MaxParams \in Nat

VARIABLES
  rttBad, tputBad,   \* what evaluate says of the last sample of each kind
  suspectedCount, state,                  \* Detector
  parallelConns, rotateSignal,            \* Adaptive
  probe, failures, consecutiveFails, canary,   \* Canary: the probe it is in
  params,      \* the number of Rotator.params
  rotated,     \* the last that a session rotation made
  installed,   \* the parameters of the transport in the manager's slot 0
  calls,       \* the goroutines of listeners, oldest first
  overtaken    \* history: the consumers whose calls did not run one by one in
               \* the order they were started

detectorVars == <<rttBad, tputBad, suspectedCount, state>>
adaptiveVars == <<parallelConns, rotateSignal>>
canaryVars == <<probe, failures, consecutiveFails, canary>>
rotatorVars == <<params, rotated, installed>>
throttleVars == <<detectorVars, adaptiveVars, canaryVars, rotatorVars, calls, overtaken>>

ThrottleInit ==
  /\ rttBad = FALSE /\ tputBad = FALSE
  /\ suspectedCount = 0 /\ state = "normal"
  /\ parallelConns = BaseParallelConns /\ rotateSignal = FALSE
  /\ probe = 0 /\ failures = 0 /\ consecutiveFails = 0 /\ canary = "ok"
  /\ params = 0 /\ rotated = 0 /\ installed = 0
  /\ calls = <<>>
  /\ overtaken = {}

----------------------------------------------------------------------------
(* A goroutine: what it was started for, whether it has loaded what it works *)
(* on (parallelConns, or the parameters), and the value it loaded.           *)
Call(kind) == [kind |-> kind, loaded |-> FALSE, value |-> 0]
Consumer(call) == IF call.kind \in {"throttled", "normal"} THEN "adaptive" ELSE call.kind
Start(new) ==
  /\ Len(calls) + Len(new) <= MaxCalls
  /\ calls' = calls \o new
Without(i) == SubSeq(calls, 1, i - 1) \o SubSeq(calls, i + 1, Len(calls))

(* Call i sets to work while an older one for its consumer is not done. *)
Overtakes(i) == \E j \in 1 .. i - 1 : Consumer(calls[j]) = Consumer(calls[i])

(* The listeners of the detector: Adaptive.onStateChange, and the rotator's, *)
(* which acts on Throttled only.  (The third one logs.)                      *)
Listeners(s) ==
  CASE s = "throttled" -> <<Call("throttled"), Call("emergency")>>
    [] s = "normal"    -> <<Call("normal")>>
    [] OTHER           -> <<>>

(* evaluate, under d.mu, with the sample just recorded. *)
Judge(suspected) ==
  LET n == suspectedCount + 1
  IN  IF ~suspected
        THEN suspectedCount' = 0 /\ state' = "normal"
        ELSE /\ suspectedCount' = (IF n > ConfirmCount THEN ConfirmCount ELSE n)
             /\ state' = IF n >= ConfirmCount THEN "throttled" ELSE "suspected"

(* A detector that tells its listeners of every sample, and one that tells   *)
(* them of changes.                                                          *)
ToldAlways(s) == Listeners(s)

Told(s) == IF s # state THEN Listeners(s) ELSE <<>>

Evaluate(suspected) ==
  /\ Judge(suspected)
  /\ Start(Told(state'))

(* RecordRTT by a tunnel that was dialled. *)
RecordRTT ==
  /\ rttBad' \in BOOLEAN
  /\ Evaluate(rttBad' \/ tputBad)
  /\ UNCHANGED <<tputBad, adaptiveVars, canaryVars, rotatorVars, overtaken>>

(* RecordThroughput by a tunnel that has ended. *)
RecordThroughput ==
  /\ tputBad' \in BOOLEAN
  /\ Evaluate(rttBad \/ tputBad')
  /\ UNCHANGED <<rttBad, adaptiveVars, canaryVars, rotatorVars, overtaken>>

----------------------------------------------------------------------------
(* Canary.probe tries one endpoint after the other; each that answers gives  *)
(* the detector a sample at once.                                            *)
ProbeAnswered ==
  /\ probe < Endpoints
  /\ probe' = probe + 1
  /\ rttBad' \in BOOLEAN
  /\ Evaluate(rttBad' \/ tputBad)
  /\ UNCHANGED <<tputBad, adaptiveVars, failures, consecutiveFails, canary,
                 rotatorVars, overtaken>>

ProbeFailed ==
  /\ probe < Endpoints
  /\ probe' = probe + 1
  /\ failures' = failures + 1
  /\ UNCHANGED <<detectorVars, adaptiveVars, consecutiveFails, canary, rotatorVars,
                 calls, overtaken>>

(* Then it draws its conclusion; OnStateChange of cmd_connect.go rotates in  *)
(* an emergency when that is Blocked.                                        *)
ProbeEnds ==
  /\ probe = Endpoints
  /\ probe' = 0 /\ failures' = 0
  /\ LET n == consecutiveFails + 1
     IN  IF failures = 0
           THEN consecutiveFails' = 0 /\ canary' = "ok"
           ELSE /\ consecutiveFails' = (IF n > FailThreshold THEN FailThreshold ELSE n)
                /\ canary' = IF failures = Endpoints /\ n >= FailThreshold
                               THEN "blocked" ELSE "degraded"
  /\ Start(IF canary' # canary /\ canary' = "blocked" THEN <<Call("emergency")>> ELSE <<>>)
  /\ UNCHANGED <<detectorVars, adaptiveVars, rotatorVars, overtaken>>

----------------------------------------------------------------------------
Smaller(a, b) == IF a < b THEN a ELSE b
Larger(a, b) == IF a > b THEN a ELSE b

(* Adaptive.onStateChange loads parallelConns ... *)
AdaptLoads(i) ==
  /\ Consumer(calls[i]) = "adaptive" /\ ~calls[i].loaded
  /\ calls' = [calls EXCEPT ![i].loaded = TRUE, ![i].value = parallelConns]
  /\ overtaken' = overtaken \cup (IF Overtakes(i) THEN {Consumer(calls[i])} ELSE {})
  /\ UNCHANGED <<detectorVars, adaptiveVars, canaryVars, rotatorVars>>

Doubled(n) == Smaller(n * 2, MaxParallelConns)

Halved(n) == Larger(n \div 2, BaseParallelConns)

AdaptStores(i) ==
  /\ Consumer(calls[i]) = "adaptive" /\ calls[i].loaded
  /\ LET n == calls[i].value
         new == IF calls[i].kind = "throttled" THEN Doubled(n) ELSE Halved(n)
     IN  parallelConns' = IF new # n THEN new ELSE parallelConns
  /\ rotateSignal' = (rotateSignal \/ (SignalsRotation /\ calls[i].kind = "throttled"))
  /\ calls' = Without(i)
  /\ UNCHANGED <<detectorVars, canaryVars, rotatorVars, overtaken>>

----------------------------------------------------------------------------
(* rotateParams (level 1): new parameters, and no listener in the client. *)
RotateParams ==
  /\ params < MaxParams
  /\ params' = params + 1
  /\ UNCHANGED <<detectorVars, adaptiveVars, canaryVars, rotated, installed, calls,
                 overtaken>>

(* onSession: a rotation nobody is told of, and one that starts a rebuild. *)
Untold == <<>>

OnSession == <<Call("rebuild")>>

(* rotateSession (level 2) and EmergencyRotateNow (level 3): new parameters, *)
(* under r.mu, and a goroutine that rebuilds the transport.                  *)
Rotate(others) ==
  /\ params < MaxParams
  /\ params' = params + 1 /\ rotated' = params'
  /\ Len(others) < MaxCalls
  /\ calls' = others \o OnSession

RotateSession ==
  /\ Rotate(calls)
  /\ UNCHANGED <<detectorVars, adaptiveVars, canaryVars, installed, overtaken>>

EmergencyRotateNow(i) ==
  /\ calls[i].kind = "emergency"
  /\ Rotate(Without(i))
  /\ UNCHANGED <<detectorVars, adaptiveVars, canaryVars, installed, overtaken>>

(* GetParams, under r.mu.RLock: whatever was made last. *)
GetParams == params

(* The rebuild: makeXHTTPTransport takes the parameters there are ... *)
RebuildLoads(i) ==
  /\ calls[i].kind = "rebuild" /\ ~calls[i].loaded
  /\ calls' = [calls EXCEPT ![i].loaded = TRUE, ![i].value = GetParams]
  /\ overtaken' = overtaken \cup (IF Overtakes(i) THEN {Consumer(calls[i])} ELSE {})
  /\ UNCHANGED <<detectorVars, adaptiveVars, canaryVars, rotatorVars>>

(* ... and Manager.Replace puts the new transport in slot 0. *)
RebuildReplaces(i) ==
  /\ calls[i].kind = "rebuild" /\ calls[i].loaded
  /\ installed' = calls[i].value
  /\ calls' = Without(i)
  /\ UNCHANGED <<detectorVars, adaptiveVars, canaryVars, params, rotated, overtaken>>

----------------------------------------------------------------------------
Listener(i) ==
  /\ i <= Len(calls)
  /\ \/ AdaptLoads(i) \/ AdaptStores(i)
     \/ EmergencyRotateNow(i)
     \/ RebuildLoads(i) \/ RebuildReplaces(i)

ThrottleNext ==
  \/ RecordRTT \/ RecordThroughput
  \/ ProbeAnswered \/ ProbeFailed \/ ProbeEnds
  \/ \E i \in 1 .. MaxCalls : Listener(i)
  \/ RotateParams \/ RotateSession

(* Every goroutine runs on (a call keeps its index or moves to a lower one). *)
ThrottleSpec == ThrottleInit /\ [][ThrottleNext]_throttleVars
ThrottleFairSpec ==
  ThrottleSpec /\ \A i \in 1 .. MaxCalls : WF_throttleVars(Listener(i))

----------------------------------------------------------------------------
Pending(consumer) == \E i \in 1 .. Len(calls) : Consumer(calls[i]) = consumer

(* When no call of onStateChange is under way and none has overtaken another,*)
(* the parallelism fits the verdict: one doubling while Throttled, and the   *)
(* base otherwise ("Gradually decrease back to base", adaptive.go:94).       *)
ParallelismFits ==
  (~Pending("adaptive") /\ "adaptive" \notin overtaken)
    => parallelConns = IF state = "throttled" THEN Doubled(BaseParallelConns) ELSE BaseParallelConns

(* Each session rotation reaches the manager ("Rebuild transport on session  *)
(* rotation", cmd_connect.go:222): a transport with its parameters or newer  *)
(* ones is installed, unless a rebuild has overtaken an older one, which may *)
(* then put its older parameters back.                                       *)
RotationTakesEffect ==
  \A v \in 1 .. MaxParams : rotated = v ~> (installed >= v \/ "rebuild" \in overtaken)
=============================================================================
