---------------------------- MODULE LatestIntent ----------------------------
(***************************************************************************)
(* What the desktop Core lifecycle promises its callers, whatever the      *)
(* worker, the transport and the Core process are doing: intents get       *)
(* increasing revisions, the newest one decides what the Core may do, and  *)
(* each command is answered once, either because the newest intent is      *)
(* achieved or because the reconciliation of it or a later one failed.     *)
(* DesktopLifecycle implements this specification.                         *)
(***************************************************************************)
EXTENDS Naturals

CONSTANT MaxRevision    \* bound on the number of submitted intents

Revisions == 1..MaxRevision
Targets == {"running", "restarted", "stopped", "closed"}

VARIABLES
    revision,   \* number of intents submitted
    target,     \* target of each
    outcome,    \* answer to each
    core        \* the Core as callers see it: "down", "up" or "closed"

promiseVars == <<revision, target, outcome, core>>

Runs(t) == t \in {"running", "restarted"}
Newest == IF revision \in Revisions THEN target[revision] ELSE "stopped"

PromiseInit ==
    /\ revision = 0
    /\ target = [r \in Revisions |-> "stopped"]
    /\ outcome = [r \in Revisions |-> "unsubmitted"]
    /\ core = "down"

(* Nothing is accepted after a close.  A running Core may begin to stop with *)
(* the submission, except for an intent it already satisfies.               *)
Accept(t) ==
    /\ revision < MaxRevision
    /\ Newest # "closed"
    /\ revision' = revision + 1
    /\ target' = [target EXCEPT ![revision + 1] = t]
    /\ outcome' = [outcome EXCEPT ![revision + 1] = "pending"]
    /\ \/ core' = core
       \/ core = "up" /\ t # "running" /\ core' = "down"

(* The Core comes up only for a newest intent that wants it.                *)
ComesUp ==
    /\ core = "down" /\ Runs(Newest)
    /\ core' = "up"
    /\ UNCHANGED <<revision, target, outcome>>

(* Stopped or crashed. *)
GoesDown ==
    /\ core = "up"
    /\ core' = "down"
    /\ UNCHANGED <<revision, target, outcome>>

Closes ==
    /\ core = "down" /\ Newest = "closed"
    /\ core' = "closed"
    /\ UNCHANGED <<revision, target, outcome>>

Achieved ==
    \/ Runs(Newest) /\ core = "up"
    \/ Newest = "stopped" /\ core = "down"
    \/ Newest = "closed" /\ core = "closed"

(* Every command still open is answered at once, the newest as applied; a   *)
(* Core that just crashed may be seen down from then on.                    *)
Answer ==
    /\ Achieved
    /\ outcome' = [r \in Revisions |->
         IF outcome[r] # "pending" THEN outcome[r]
         ELSE IF r = revision THEN "applied"
         ELSE IF target[r] = Newest \/ (Runs(target[r]) /\ Runs(Newest)) THEN "coalesced"
         ELSE "superseded"]
    /\ core' = core \/ (core = "up" /\ core' = "down")
    /\ UNCHANGED <<revision, target>>

(* A failure answers a prefix of the open commands; once a close is the     *)
(* newest intent, only its own failure does.                                *)
Refuse ==
    \E upTo \in Revisions :
        /\ upTo <= revision
        /\ upTo = revision \/ Newest # "closed"
        /\ core # "up"
        /\ outcome' = [r \in Revisions |->
             IF outcome[r] = "pending" /\ r <= upTo THEN "failed" ELSE outcome[r]]
        /\ UNCHANGED <<revision, target, core>>

PromiseNext ==
    \/ \E t \in Targets : Accept(t)
    \/ ComesUp \/ GoesDown \/ Closes
    \/ Answer \/ Refuse

Promise == PromiseInit /\ [][PromiseNext]_promiseVars

=============================================================================
