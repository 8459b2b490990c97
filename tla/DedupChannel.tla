---------------------------- MODULE DedupChannel ----------------------------
(***************************************************************************)
(* What daemon/message_queue.py promises the rest of the daemon: a bounded *)
(* FIFO channel that takes a further copy of a message only after having   *)
(* forgotten the message once more.  No threads, no lock, no window.       *)
(***************************************************************************)
EXTENDS Integers, Sequences

CONSTANTS Keys, Capacity

VARIABLES channel,      \* messages sent and not yet received
          sent,         \* copies of each message sent so far
          forgets,      \* times each message was forgotten
          received      \* copies of each message received

vars == <<channel, sent, forgets, received>>

Init ==
  /\ channel = <<>>
  /\ sent = [k \in Keys |-> 0]
  /\ forgets = [k \in Keys |-> 0]
  /\ received = [k \in Keys |-> 0]

Send(k) ==
  /\ Len(channel) < Capacity
  /\ sent[k] <= forgets[k]
  /\ channel' = Append(channel, k)
  /\ sent' = [sent EXCEPT ![k] = @ + 1]
  /\ UNCHANGED <<forgets, received>>

Forget(k) ==
  /\ forgets' = [forgets EXCEPT ![k] = @ + 1]
  /\ UNCHANGED <<channel, sent, received>>

Receive ==
  /\ channel # <<>>
  /\ received' = [received EXCEPT ![Head(channel)] = @ + 1]
  /\ channel' = Tail(channel)
  /\ UNCHANGED <<sent, forgets>>

Next == Receive \/ \E k \in Keys : Send(k) \/ Forget(k)

Spec == Init /\ [][Next]_vars

\* The consumer keeps receiving.
FairSpec == Spec /\ WF_vars(Receive)
=============================================================================
