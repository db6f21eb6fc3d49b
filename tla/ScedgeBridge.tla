------------------------------ MODULE ScedgeBridge ------------------------------
(***************************************************************************)
(* scedge.rs: the dashboard's proxy for Scedge.  A status asks Scedge      *)
(* twice, once for its health and once for its metrics; a lookup, store or *)
(* purge is sent on once, and Scedge's answer handed back.  Scedge is      *)
(* another process: it fails and recovers between any two steps, and what  *)
(* it was asked may be done although its answer is lost.                   *)
(*                                                                         *)
(* A call that Scedge neither answers nor fails stays where it is: the     *)
(* client of scedge.rs has no timeout.                                     *)
(***************************************************************************)
EXTENDS Naturals

CONSTANTS
  Call,       \* proxied requests served at the same time
  MaxProxied  \* bound on requests, for model checking

ASSUME ProxiedAssumption == MaxProxied \in Nat

VARIABLES
  base_url,  \* whether SCEDGE_BASE_URL is set: read once, at the start
  scedge,    \* how Scedge is: healthy, degraded, failing or gone
  wire,      \* where each request is
  status,    \* what a status has gathered so far, then what it answered
  code,      \* the answer to the last lookup, store or purge
  done,      \* history variable: how often Scedge did what it was last asked
  was,       \* history variable: how Scedge was while the last status ran
  proxied    \* requests so far

bridgeVars == <<base_url, scedge, wire, status, code, done, was, proxied>>

\* Scedge answers /healthz and /metrics with a success.
Answering == {"healthy", "degraded"}

disabled == [configured |-> FALSE, healthy |-> FALSE, health |-> "none",
             metrics |-> FALSE, errors |-> 1]

configured == [configured |-> TRUE, healthy |-> FALSE, health |-> "none",
               metrics |-> FALSE, errors |-> 0]

AcceptProxy(c) ==
  /\ wire[c] = "idle" /\ proxied < MaxProxied
  /\ proxied' = proxied + 1

-----------------------------------------------------------------------------
\* GET /api/scedge/status.
api_scedge_status(c) ==
  /\ AcceptProxy(c)
  /\ IF base_url
     THEN /\ wire' = [wire EXCEPT ![c] = "health"]
          /\ status' = [status EXCEPT ![c] = configured]
          /\ was' = [was EXCEPT ![c] = {scedge}]
     ELSE /\ status' = [status EXCEPT ![c] = disabled]
          /\ UNCHANGED <<wire, was>>
  /\ UNCHANGED <<scedge, code, done>>

\* A probe whose answer is lost, or is not a success, is an error.
Failed(c) == status' = [status EXCEPT ![c].errors = @ + 1]

\* Faulty: that Scedge answered is taken for its health.
healthy_Answered == TRUE

healthy == scedge = "healthy"

health(c) ==
  /\ wire[c] = "health"
  /\ \/ /\ scedge \in Answering
        /\ status' = [status EXCEPT ![c].health = scedge, ![c].healthy = healthy]
     \/ Failed(c)
  /\ wire' = [wire EXCEPT ![c] = "metrics"]
  /\ UNCHANGED <<scedge, code, done, was, proxied>>

metrics_probe(c) ==
  /\ wire[c] = "metrics"
  /\ \/ scedge \in Answering /\ status' = [status EXCEPT ![c].metrics = TRUE]
     \/ Failed(c)
  /\ wire' = [wire EXCEPT ![c] = "idle"]
  /\ UNCHANGED <<scedge, code, done, was, proxied>>

-----------------------------------------------------------------------------
\* GET /api/scedge/lookup, POST /api/scedge/store and /api/scedge/purge.
api_scedge_call(c) ==
  /\ AcceptProxy(c)
  /\ done' = [done EXCEPT ![c] = 0]
  /\ IF base_url
     THEN wire' = [wire EXCEPT ![c] = "sent"] /\ code' = [code EXCEPT ![c] = "none"]
     ELSE wire' = wire /\ code' = [code EXCEPT ![c] = "503"]
  /\ UNCHANGED <<scedge, status, was>>

\* Scedge does what it is asked, or refuses.
ScedgeDoes(c) ==
  /\ wire[c] = "sent" /\ scedge # "gone"
  /\ \/ /\ scedge \in Answering
        /\ done' = [done EXCEPT ![c] = @ + 1]
        /\ wire' = [wire EXCEPT ![c] = "done"]
     \/ done' = done /\ wire' = [wire EXCEPT ![c] = "refused"]
  /\ UNCHANGED <<scedge, status, code, was, proxied>>

\* map_status: its status is handed on as it is.
returns(c) ==
  /\ wire[c] \in {"done", "refused"}
  /\ code' = [code EXCEPT ![c] = IF wire[c] = "done" THEN "2xx" ELSE "refused"]
  /\ wire' = [wire EXCEPT ![c] = "idle"]
  /\ UNCHANGED <<scedge, status, done, was, proxied>>

\* Faulty: a call that failed is sent again.
lost_Retried(c) ==
  /\ wire[c] \in {"sent", "done", "refused"}
  /\ wire' = [wire EXCEPT ![c] = "sent"]
  /\ UNCHANGED <<scedge, status, code, done, was, proxied>>

\* The connection fails before or after Scedge did it: ScedgeError::Http.
lost(c) ==
  /\ wire[c] \in {"sent", "done", "refused"}
  /\ code' = [code EXCEPT ![c] = "502"]
  /\ wire' = [wire EXCEPT ![c] = "idle"]
  /\ UNCHANGED <<scedge, status, done, was, proxied>>

-----------------------------------------------------------------------------
ScedgeChanges ==
  /\ scedge' \in {"healthy", "degraded", "failing", "gone"} \ {scedge}
  /\ was' = [c \in Call |->
       IF wire[c] \in {"health", "metrics"} THEN was[c] \cup {scedge'} ELSE was[c]]
  /\ UNCHANGED <<wire, status, code, done, proxied>>

BridgeInit ==
  /\ base_url \in BOOLEAN
  /\ scedge = "healthy"
  /\ wire = [c \in Call |-> "idle"]
  /\ status = [c \in Call |-> disabled]
  /\ code = [c \in Call |-> "none"]
  /\ done = [c \in Call |-> 0]
  /\ was = [c \in Call |-> {}]
  /\ proxied = 0

BridgeNext ==
  /\ base_url' = base_url
  /\ \/ \E c \in Call :
          \/ api_scedge_status(c) \/ health(c) \/ metrics_probe(c)
          \/ api_scedge_call(c) \/ ScedgeDoes(c) \/ returns(c) \/ lost(c)
     \/ ScedgeChanges

BridgeSpec == BridgeInit /\ [][BridgeNext]_bridgeVars

-----------------------------------------------------------------------------
\* Whatever becomes of Scedge between the probes: a status calls it healthy only if
\* it was while the status ran, says what it had no answer for, and without an error
\* has both answers.  A bridge without a URL asks nobody.
StatusHonest ==
  \A c \in Call :
    LET s == status[c]
        unanswered == (IF s.health = "none" THEN 1 ELSE 0) + (IF s.metrics THEN 0 ELSE 1)
    IN  /\ s.healthy => "healthy" \in was[c]
        /\ s.health # "none" => s.health \in was[c]
        /\ s.metrics => was[c] \cap Answering # {}
        /\ s.configured /\ wire[c] \notin {"health", "metrics"} => s.errors = unanswered
        /\ ~s.configured => was[c] = {}

\* A call answered with Scedge's success was carried out once, one it refused or that
\* was not sent never, and one answered with 502 may have been, but not twice.
CarriedOutOnce ==
  \A c \in Call :
    /\ done[c] <= 1
    /\ code[c] = "2xx" => done[c] = 1
    /\ code[c] \in {"refused", "503"} => done[c] = 0
=============================================================================
