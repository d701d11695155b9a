---------------------------- MODULE MCAlertTags ----------------------------
(***************************************************************************)
(* AlertBridge with a history variable: which notices the phone holds. A   *)
(* digest's tag is a hash of its events in a fixed order, so a notice is   *)
(* its set of events, and a delivery replaces an earlier notice exactly    *)
(* when both hold the same events.                                         *)
(***************************************************************************)
EXTENDS AlertBridge

VARIABLE shown          \* notices on the phone

TagInit == Init /\ shown = {}

Received == shown' = shown \cup {Deliverable}

TagNext ==
  \/ Notify /\ Received
  \/ NotifyFails /\ (Received \/ UNCHANGED shown) /\ told' = UNION shown'
  \/ /\ \/ World \/ Restart \/ FetchFails \/ Poll
        \/ Save \/ SaveFails \/ NothingToDeliver
        \/ Ack \/ AckFails \/ Publish \/ Withdraw
     /\ UNCHANGED shown

TagSpec == TagInit /\ [][TagNext]_<<vars, shown>>

\* notify_alert (bridge.py:425): "A stable tag replaces a delivery retried
\* after an ambiguous timeout". If every retry replaced the notice it repeats,
\* no event would ever stand in two notices.
RetryReplacesNotice == \A a, b \in shown : a # b => a \cap b = {}
============================================================================
