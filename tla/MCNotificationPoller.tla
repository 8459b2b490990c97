------------------------ MODULE MCNotificationPoller ------------------------
(***************************************************************************)
(* TLC instances of NotificationPoller.                                    *)
(***************************************************************************)
EXTENDS NotificationPoller

\* Every peer has a display name of its own.
Distinct == [p \in Peers |-> p]
=============================================================================
