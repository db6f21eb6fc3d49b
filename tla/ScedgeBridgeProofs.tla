---------------------------- MODULE ScedgeBridgeProofs ----------------------------
(***************************************************************************)
(* Theorems about ScedgeBridge, for any number of requests at the same     *)
(* time, with and without a URL, however Scedge fails and recovers.        *)
(*                                                                         *)
(* StatusHonest says nothing of a status that is still being gathered, and *)
(* CarriedOutOnce nothing of a call on its way: BridgeInv adds what each   *)
(* step of them has behind it.                                             *)
(***************************************************************************)
EXTENDS ScedgeBridge, TLAPS

Condition == {"healthy", "degraded", "failing", "gone"}

Place == {"idle", "health", "metrics", "sent", "done", "refused"}

Probing == {"health", "metrics"}

Gathered == [configured : BOOLEAN, healthy : BOOLEAN, health : Answering \cup {"none"},
             metrics : BOOLEAN, errors : Nat]

Code == {"none", "2xx", "refused", "502", "503"}

BridgeTypes ==
  /\ base_url \in BOOLEAN
  /\ scedge \in Condition
  /\ wire \in [Call -> Place]
  /\ status \in [Call -> Gathered]
  /\ code \in [Call -> Code]
  /\ done \in [Call -> Nat]
  /\ was \in [Call -> SUBSET Condition]

\* How many of a status's probes have been asked and had no answer.
Unanswered(c) ==
  (IF wire[c] # "health" /\ status[c].health = "none" THEN 1 ELSE 0)
    + (IF wire[c] \notin Probing /\ ~status[c].metrics THEN 1 ELSE 0)

\* A status with a URL has an error for every probe that had no answer, and what it
\* says of Scedge was so at some time since it began; one without a URL asked nobody.
StatusSoFar(c) ==
  /\ status[c].healthy => "healthy" \in was[c]
  /\ status[c].health # "none" => status[c].health \in was[c]
  /\ status[c].metrics => was[c] \cap Answering # {}
  /\ status[c].configured => status[c].errors = Unanswered(c)
  /\ ~status[c].configured => was[c] = {} /\ wire[c] \notin Probing
  /\ status[c].configured => base_url
  /\ wire[c] \in Probing => scedge \in was[c] /\ ~status[c].metrics
  /\ wire[c] = "health" => status[c] = configured

\* A call on its way has no answer yet, and is done once when Scedge did it and not
\* before.
CallSoFar(c) ==
  /\ done[c] <= 1
  /\ code[c] = "2xx" => done[c] = 1
  /\ code[c] \in {"refused", "503"} => done[c] = 0
  /\ wire[c] \in {"sent", "refused"} => done[c] = 0 /\ code[c] = "none"
  /\ wire[c] = "done" => done[c] = 1 /\ code[c] = "none"

BridgeInv == BridgeTypes /\ \A c \in Call : StatusSoFar(c) /\ CallSoFar(c)

-----------------------------------------------------------------------------
\* At the start nothing was asked.
LEMMA BridgeInitInv == BridgeInit => BridgeInv
  BY DEF BridgeInit, BridgeInv, BridgeTypes, StatusSoFar, CallSoFar, Condition, Place, Gathered,
         Code, Probing, disabled, Answering

\* A step of one call leaves the others as they are.
LEMMA OthersStay ==
  ASSUME NEW c \in Call, StatusSoFar(c), CallSoFar(c), base_url' = base_url, scedge' = scedge,
         wire'[c] = wire[c], status'[c] = status[c], code'[c] = code[c], done'[c] = done[c],
         was'[c] = was[c]
  PROVE  StatusSoFar(c)' /\ CallSoFar(c)'
  BY DEF StatusSoFar, CallSoFar, Unanswered

\* A status begins with nothing gathered, and is over at once without a URL.
LEMMA StatusBegins ==
  ASSUME BridgeInv, base_url' = base_url, NEW c \in Call, api_scedge_status(c)
  PROVE  BridgeInv'
<1>. USE DEF BridgeInv
<1>1. BridgeTypes'
  <2>1. configured \in Gathered /\ disabled \in Gathered
    BY DEF configured, disabled, Gathered
  <2>2. UNCHANGED <<base_url, scedge, code, done>> /\ wire' \in [Call -> Place]
    BY DEF BridgeTypes, api_scedge_status, Place
  <2>3. status' \in [Call -> Gathered]
    BY <2>1 DEF BridgeTypes, api_scedge_status
  <2>4. was' \in [Call -> SUBSET Condition]
    BY DEF BridgeTypes, api_scedge_status
  <2>. QED BY <2>2, <2>3, <2>4 DEF BridgeTypes
<1>2. \A d \in Call \ {c} : StatusSoFar(d)' /\ CallSoFar(d)'
  <2>. TAKE d \in Call \ {c}
  <2>. QED BY OthersStay DEF BridgeTypes, api_scedge_status
<1>3. StatusSoFar(c)'
  <2>1. CASE base_url
    <3>1. wire'[c] = "health" /\ status'[c] = configured /\ was'[c] = {scedge} /\ scedge' = scedge
      BY <2>1 DEF BridgeTypes, api_scedge_status
    <3>. QED BY <2>1, <3>1 DEF StatusSoFar, Unanswered, configured, Probing
  <2>2. CASE ~base_url
    <3>1. wire'[c] = "idle" /\ status'[c] = disabled /\ was'[c] = was[c]
      BY <2>2 DEF BridgeTypes, api_scedge_status, AcceptProxy
    <3>2. was[c] = {}
      BY <2>2 DEF StatusSoFar, BridgeTypes, Gathered
    <3>. QED BY <3>1, <3>2 DEF StatusSoFar, disabled, Probing
  <2>. QED BY <2>1, <2>2 DEF BridgeTypes
<1>4. CallSoFar(c)'
  <2>1. wire'[c] \in {"idle", "health"} /\ code' = code /\ done' = done
    BY DEF BridgeTypes, api_scedge_status, AcceptProxy
  <2>. QED BY <2>1 DEF CallSoFar
<1>. QED BY <1>1, <1>2, <1>3, <1>4

\* Scedge's health is what it answered, or an error is counted for it.
LEMMA HealthGathered ==
  ASSUME BridgeInv, base_url' = base_url, NEW c \in Call, health(c)
  PROVE  BridgeInv'
<1>. USE DEF BridgeInv
<1>1. /\ wire[c] = "health" /\ wire' = [wire EXCEPT ![c] = "metrics"]
      /\ UNCHANGED <<scedge, code, done, was>>
      /\ status[c] = configured /\ base_url /\ scedge \in was[c]
  BY DEF health, StatusSoFar, Probing, configured
<1>2. /\ status'[c].configured /\ ~status'[c].metrics /\ status' \in [Call -> Gathered]
      /\ \A d \in Call \ {c} : status'[d] = status[d]
      /\ \/ /\ status'[c].health = scedge /\ scedge \in Answering
            /\ status'[c].healthy = (scedge = "healthy") /\ status'[c].errors = 0
         \/ /\ status'[c].health = "none" /\ ~status'[c].healthy /\ status'[c].errors = 1
  <2>1. CASE Failed(c)
    <3>1. status' = [status EXCEPT ![c] = [configured EXCEPT !.errors = 1]]
      BY <1>1, <2>1 DEF Failed, BridgeTypes, configured
    <3>. QED BY <3>1 DEF BridgeTypes, Gathered, configured
  <2>2. CASE /\ scedge \in Answering
             /\ status' = [status EXCEPT ![c].health = scedge, ![c].healthy = healthy]
    <3>. DEFINE s == [configured EXCEPT !.health = scedge, !.healthy = healthy]
    <3>1. status' = [status EXCEPT ![c] = s]
      BY <1>1, <2>2 DEF BridgeTypes
    <3>2. healthy \in BOOLEAN
      BY DEF healthy
    <3>3. s \in Gathered /\ s.configured /\ ~s.metrics /\ s.errors = 0
      <4>1. configured \in Gathered /\ configured.configured /\ ~configured.metrics
              /\ configured.errors = 0
        BY DEF configured, Gathered
      <4>. QED BY <2>2, <3>2, <4>1 DEF Gathered
    <3>4. s.health = scedge /\ s.healthy = healthy
      BY DEF configured
    <3>. HIDE DEF s
    <3>5. status'[c] = s /\ status' \in [Call -> Gathered]
      BY <3>1, <3>3 DEF BridgeTypes
    <3>. QED BY <2>2, <3>1, <3>3, <3>4, <3>5 DEF BridgeTypes, healthy
  <2>. QED BY <2>1, <2>2 DEF health
<1>3. BridgeTypes'
  BY <1>1, <1>2 DEF BridgeTypes, Place
<1>4. \A d \in Call \ {c} : StatusSoFar(d)' /\ CallSoFar(d)'
  <2>. TAKE d \in Call \ {c}
  <2>. QED BY <1>1, <1>2, OthersStay DEF BridgeTypes
<1>5. wire'[c] = "metrics"
  BY <1>1 DEF BridgeTypes
<1>6. StatusSoFar(c)'
  <2>1. CASE status'[c].health = scedge /\ scedge \in Answering
    <3>1. Unanswered(c)' = 0 /\ scedge # "none"
      BY <1>2, <1>5, <2>1 DEF Unanswered, Probing, Answering
    <3>2. status'[c].errors = 0 /\ (status'[c].healthy => scedge = "healthy")
      BY <1>2, <2>1, <3>1
    <3>. QED BY <1>1, <1>2, <1>5, <2>1, <3>1, <3>2 DEF StatusSoFar
  <2>2. CASE status'[c].health = "none" /\ ~status'[c].healthy /\ status'[c].errors = 1
    <3>1. Unanswered(c)' = 1
      BY <1>5, <2>2 DEF Unanswered, Probing
    <3>. QED BY <1>1, <1>2, <1>5, <2>2, <3>1 DEF StatusSoFar
  <2>. QED BY <1>2, <2>1, <2>2
<1>7. CallSoFar(c)'
  BY <1>1, <1>5 DEF CallSoFar
<1>. QED BY <1>3, <1>4, <1>6, <1>7

\* The metrics end the status, answered or counted as an error.
LEMMA MetricsGathered ==
  ASSUME BridgeInv, base_url' = base_url, NEW c \in Call, metrics_probe(c)
  PROVE  BridgeInv'
<1>. USE DEF BridgeInv
<1>1. /\ wire[c] = "metrics" /\ wire' = [wire EXCEPT ![c] = "idle"]
      /\ UNCHANGED <<scedge, code, done, was>>
      /\ status[c].configured /\ base_url /\ scedge \in was[c] /\ ~status[c].metrics
      /\ status[c].errors = IF status[c].health = "none" THEN 1 ELSE 0
  BY DEF metrics_probe, StatusSoFar, Probing, Unanswered, BridgeTypes, Gathered
<1>2. /\ status'[c].configured /\ status' \in [Call -> Gathered]
      /\ status'[c].health = status[c].health /\ status'[c].healthy = status[c].healthy
      /\ \A d \in Call \ {c} : status'[d] = status[d]
      /\ \/ scedge \in Answering /\ status'[c].metrics /\ status'[c].errors = status[c].errors
         \/ ~status'[c].metrics /\ status'[c].errors = status[c].errors + 1
  <2>1. status[c] \in Gathered
    BY DEF BridgeTypes
  <2>2. CASE Failed(c)
    BY <1>1, <2>1, <2>2 DEF Failed, BridgeTypes, Gathered
  <2>3. CASE scedge \in Answering /\ status' = [status EXCEPT ![c].metrics = TRUE]
    BY <1>1, <2>1, <2>3 DEF BridgeTypes, Gathered
  <2>. QED BY <2>2, <2>3 DEF metrics_probe
<1>3. BridgeTypes'
  BY <1>1, <1>2 DEF BridgeTypes, Place
<1>4. \A d \in Call \ {c} : StatusSoFar(d)' /\ CallSoFar(d)'
  <2>. TAKE d \in Call \ {c}
  <2>. QED BY <1>1, <1>2, OthersStay DEF BridgeTypes
<1>5. wire'[c] = "idle"
  BY <1>1 DEF BridgeTypes
<1>6. StatusSoFar(c)'
  <2>1. /\ status[c].healthy => "healthy" \in was[c]
        /\ status[c].health # "none" => status[c].health \in was[c]
    BY DEF StatusSoFar
  <2>. QED BY <1>1, <1>2, <1>5, <2>1 DEF StatusSoFar, Unanswered, Probing
<1>7. CallSoFar(c)'
  BY <1>1, <1>5 DEF CallSoFar
<1>. QED BY <1>3, <1>4, <1>6, <1>7

-----------------------------------------------------------------------------
\* What becomes of a call leaves every status as it is.
LEMMA CallSteps ==
  ASSUME BridgeInv, base_url' = base_url, NEW c \in Call,
         api_scedge_call(c) \/ ScedgeDoes(c) \/ returns(c) \/ lost(c)
  PROVE  BridgeInv'
<1>. USE DEF BridgeInv
<1>1. /\ UNCHANGED <<scedge, status, was>> /\ BridgeTypes'
      /\ \A d \in Call \ {c} : wire'[d] = wire[d] /\ code'[d] = code[d] /\ done'[d] = done[d]
      /\ wire[c] \notin Probing /\ wire'[c] \notin Probing
  <2>1. CASE api_scedge_call(c)
    BY <2>1 DEF api_scedge_call, AcceptProxy, BridgeTypes, Place, Code, Probing
  <2>2. CASE ScedgeDoes(c)
    BY <2>2 DEF ScedgeDoes, BridgeTypes, Place, Probing
  <2>3. CASE returns(c)
    BY <2>3 DEF returns, BridgeTypes, Place, Code, Probing
  <2>4. CASE lost(c)
    BY <2>4 DEF lost, BridgeTypes, Place, Code, Probing
  <2>. QED BY <2>1, <2>2, <2>3, <2>4
<1>2. \A d \in Call \ {c} : StatusSoFar(d)' /\ CallSoFar(d)'
  <2>. TAKE d \in Call \ {c}
  <2>. QED BY <1>1, OthersStay
<1>3. StatusSoFar(c)'
  BY <1>1 DEF StatusSoFar, Unanswered, Probing
<1>4. CallSoFar(c)'
  <2>1. CASE api_scedge_call(c)
    <3>1. /\ done'[c] = 0 /\ wire[c] = "idle"
          /\ \/ wire'[c] = "sent" /\ code'[c] = "none"
             \/ wire'[c] = "idle" /\ code'[c] = "503"
      BY <2>1 DEF api_scedge_call, AcceptProxy, BridgeTypes
    <3>. QED BY <3>1 DEF CallSoFar
  <2>2. CASE ScedgeDoes(c)
    <3>1. /\ done[c] = 0 /\ code[c] = "none" /\ code' = code
          /\ \/ wire'[c] = "done" /\ done'[c] = 1
             \/ wire'[c] = "refused" /\ done'[c] = 0
      BY <2>2 DEF ScedgeDoes, BridgeTypes, CallSoFar
    <3>. QED BY <3>1 DEF CallSoFar
  <2>3. CASE returns(c)
    <3>1. /\ wire'[c] = "idle" /\ done' = done
          /\ \/ wire[c] = "done" /\ code'[c] = "2xx"
             \/ wire[c] = "refused" /\ code'[c] = "refused"
      BY <2>3 DEF returns, BridgeTypes
    <3>. QED BY <3>1 DEF CallSoFar
  <2>4. CASE lost(c)
    <3>1. wire'[c] = "idle" /\ done' = done /\ code'[c] = "502"
      BY <2>4 DEF lost, BridgeTypes
    <3>. QED BY <3>1 DEF CallSoFar
  <2>. QED BY <2>1, <2>2, <2>3, <2>4
<1>. QED BY <1>1, <1>2, <1>3, <1>4

\* Scedge changes under the statuses that run, and they remember how it was.
LEMMA ChangeNoticed ==
  ASSUME BridgeInv, base_url' = base_url, ScedgeChanges
  PROVE  BridgeInv'
<1>. USE DEF BridgeInv
<1>1. UNCHANGED <<wire, status, code, done>> /\ scedge' \in Condition
  BY DEF ScedgeChanges, Condition
<1>2. \A c \in Call :
        was'[c] = IF wire[c] \in Probing THEN was[c] \cup {scedge'} ELSE was[c]
  BY DEF ScedgeChanges, Probing
<1>3. BridgeTypes'
  <2>1. was' \in [Call -> SUBSET Condition]
    BY <1>1, <1>2 DEF ScedgeChanges, BridgeTypes
  <2>. QED BY <1>1, <2>1 DEF BridgeTypes
<1>4. ASSUME NEW c \in Call PROVE StatusSoFar(c)' /\ CallSoFar(c)'
  BY <1>1, <1>2 DEF StatusSoFar, CallSoFar, Unanswered
<1>. QED BY <1>3, <1>4

\* Every step, or a stuttering one, keeps BridgeInv.
LEMMA BridgeStep == BridgeInv /\ [BridgeNext]_bridgeVars => BridgeInv'
<1>1. ASSUME BridgeInv, BridgeNext PROVE BridgeInv'
  BY <1>1, StatusBegins, HealthGathered, MetricsGathered, CallSteps, ChangeNoticed DEF BridgeNext
<1>2. ASSUME BridgeInv, UNCHANGED bridgeVars PROVE BridgeInv'
  BY <1>2 DEF bridgeVars, BridgeInv, BridgeTypes, StatusSoFar, CallSoFar, Unanswered
<1>. QED BY <1>1, <1>2

-----------------------------------------------------------------------------
\* Whatever Scedge becomes between and during the probes of however many statuses,
\* each says of it only what was so while it ran, and has an error for each answer it
\* did not get.
THEOREM StatusIsHonest == BridgeSpec => []StatusHonest
<1>1. ASSUME BridgeInv, NEW c \in Call
      PROVE  /\ status[c].healthy => "healthy" \in was[c]
             /\ status[c].health # "none" => status[c].health \in was[c]
             /\ status[c].metrics => was[c] \cap Answering # {}
             /\ status[c].configured /\ wire[c] \notin {"health", "metrics"} =>
                  status[c].errors = (IF status[c].health = "none" THEN 1 ELSE 0)
                                       + (IF status[c].metrics THEN 0 ELSE 1)
             /\ ~status[c].configured => was[c] = {}
  BY <1>1 DEF BridgeInv, StatusSoFar, Unanswered, Probing
<1>2. BridgeInv => StatusHonest
  BY <1>1 DEF StatusHonest
<1>. QED BY <1>2, BridgeInitInv, BridgeStep, PTL DEF BridgeSpec

\* Of however many proxied calls at once, none is carried out twice, one that was
\* answered with success was carried out, and one refused or not sent was not.
THEOREM OnceCarriedOut == BridgeSpec => []CarriedOutOnce
<1>1. BridgeInv => CarriedOutOnce
  BY DEF BridgeInv, CallSoFar, CarriedOutOnce
<1>. QED BY <1>1, BridgeInitInv, BridgeStep, PTL DEF BridgeSpec
=============================================================================
