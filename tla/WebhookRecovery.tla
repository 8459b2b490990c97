--------------------------- MODULE WebhookRecovery ---------------------------
(***************************************************************************)
(* The worker that re-enables a webhook the platform has disabled          *)
(* (WebhookAutoRecovery in daemon/webhook_receiver.py), against that       *)
(* platform: it disables a webhook after Threshold failed deliveries in a  *)
(* row.  check_once() is two calls, list_webhooks() and update_webhook();  *)
(* what the first one answered may be stale when the second one is made,   *)
(* and either may fail, before or after it took effect.  What they answer  *)
(* is of the API's schema; an answer that breaks it ends the thread, as in *)
(* Orchestrator's LoopDies.                                                *)
(*                                                                         *)
(* Why a delivery fails is left open here; WebhookDelivery composes this   *)
(* module with the receiver, and is where its properties are checked.      *)
(***************************************************************************)
EXTENDS Integers

CONSTANTS Threshold,      \* failed deliveries in a row until a webhook is disabled
          MaxDisables     \* bound: times the platform disables the webhook

ASSUME RecoveryAssumption == Threshold \in Nat \ {0} /\ MaxDisables \in Nat

VARIABLES exists,         \* the platform: the webhook is registered
          active,         \* the platform: is_active
          failures,       \* the platform: failed deliveries in a row
          stop,           \* the stop event
          pc,             \* where the worker stands in its loop
          recoveries,     \* _recoveries
          disables        \* history: times the platform disabled the webhook

platform == <<exists, active, failures, disables>>
vars     == <<platform, stop, pc, recoveries>>

Init ==
  /\ exists = TRUE
  /\ active \in BOOLEAN
  /\ failures = IF active THEN 0 ELSE Threshold
  /\ stop = FALSE
  /\ pc = "idle"
  /\ recoveries = 0
  /\ disables = IF active THEN 0 ELSE 1

-----------------------------------------------------------------------------
\* The platform delivers an event and is answered 200;
DeliveryAnswered ==
  /\ exists /\ active
  /\ failures' = 0
  /\ UNCHANGED <<exists, active, disables, stop, pc, recoveries>>

\* or is not, and a failure too many disables the webhook.
DeliveryFails ==
  /\ exists /\ active
  /\ disables < MaxDisables
  /\ failures' = IF failures < Threshold THEN failures + 1 ELSE failures
  /\ active' = (failures' < Threshold)
  /\ disables' = IF active' THEN disables ELSE disables + 1
  /\ UNCHANGED <<exists, stop, pc, recoveries>>

\* The operator re-enables the webhook himself, or deletes it.
ReEnable ==
  /\ exists /\ ~active
  /\ active' = TRUE
  /\ failures' \in {0, failures}
  /\ UNCHANGED <<exists, disables, stop, pc, recoveries>>

Delete ==
  /\ exists
  /\ exists' = FALSE
  /\ UNCHANGED <<active, failures, disables, stop, pc, recoveries>>

Stop ==
  /\ ~stop
  /\ stop' = TRUE
  /\ UNCHANGED <<platform, pc, recoveries>>

-----------------------------------------------------------------------------
Goto(place) == pc' = place

\* The loop looks at the stop event, which also ends its wait for the next round.
Round ==
  /\ pc = "idle"
  /\ Goto(IF stop THEN "ended" ELSE "listing")
  /\ UNCHANGED <<platform, stop, recoveries>>

\* list_webhooks() answers: only a webhook that is listed and not active is updated;
Listed ==
  /\ pc = "listing"
  /\ Goto(IF exists /\ ~active THEN "updating" ELSE "idle")
  /\ UNCHANGED <<platform, stop, recoveries>>

\* Mutant: the exception of list_webhooks() is not caught.
ListFailsAndEnds ==
  /\ pc = "listing"
  /\ Goto("ended")
  /\ UNCHANGED <<platform, stop, recoveries>>

\* or it raises, and the round is over.
ListFails ==
  /\ pc = "listing"
  /\ Goto("idle")
  /\ UNCHANGED <<platform, stop, recoveries>>

\* update_webhook(is_active=True) answers; what becomes of the platform's count of
\* failures is its own affair.
Updated ==
  /\ pc = "updating"
  /\ exists
  /\ active' = TRUE
  /\ failures' \in {0, failures}
  /\ recoveries' = recoveries + 1
  /\ Goto("idle")
  /\ UNCHANGED <<exists, disables, stop>>

\* Mutant: the exception of update_webhook() is not caught.
UpdateFailsAndEnds ==
  /\ pc = "updating"
  /\ Goto("ended")
  /\ UNCHANGED <<platform, stop, recoveries>>

\* Mutant: the recovery is counted before the call is made.
UpdateFailsCounted ==
  /\ pc = "updating"
  /\ recoveries' = recoveries + 1
  /\ Goto("idle")
  /\ UNCHANGED <<platform, stop>>

\* It raises - the webhook is gone, or the answer was lost on the way - and the
\* round is over.
UpdateFails ==
  /\ pc = "updating"
  /\ \/ UNCHANGED platform
     \/ /\ exists
        /\ active' = TRUE
        /\ failures' \in {0, failures}
        /\ UNCHANGED <<exists, disables>>
  /\ Goto("idle")
  /\ UNCHANGED <<stop, recoveries>>

Next ==
  \/ DeliveryAnswered \/ DeliveryFails \/ ReEnable \/ Delete \/ Stop
  \/ Round \/ Listed \/ ListFails \/ Updated \/ UpdateFails

Spec == Init /\ [][Next]_vars

\* The worker's thread keeps running, and a call of the API that is made over and
\* over is answered at some time.  Nothing is asked of platform, receiver or operator.
Fairness ==
  /\ WF_vars(Round)
  /\ WF_vars(Listed \/ ListFails) /\ SF_vars(Listed)
  /\ WF_vars(Updated \/ UpdateFails) /\ SF_vars(Updated)

FairSpec == Spec /\ Fairness

-----------------------------------------------------------------------------
\* The variables have their types; the worker ends only when it is told to.
TypeOK ==
  /\ exists \in BOOLEAN /\ active \in BOOLEAN /\ stop \in BOOLEAN
  /\ failures \in 0..Threshold
  /\ pc \in {"idle", "listing", "updating", "ended"}
  /\ pc = "ended" => stop
  /\ recoveries \in Nat /\ disables \in Nat

\* The worker never fights the platform: it takes back at most as many decisions as
\* the platform made, however stale the list it acted on and whoever else re-enabled.
RecoveriesEarned == recoveries <= disables

\* A webhook the platform disabled is active again, unless it is deleted or the
\* daemon shuts down - through failing calls and answers that got lost.
EnabledAgain == ~active ~> (active \/ ~exists \/ stop)

\* Once deliveries no longer fail, events flow for good.
FlowResumes ==
  <>[](exists /\ ~stop) /\ <>[][~DeliveryFails]_vars => <>[]active
=============================================================================
