--------------------------- MODULE MCChatSessions ---------------------------
(* Instances of ChatSessions for TLC. *)
EXTENDS ChatSessions

\* For liveness, where symmetry is not sound: the replicas are alike, so one
\* run may be fixed to one of them.
FirstRun == CHOOSE r \in Runs : TRUE
LiveInit == Init /\ run[FirstRun].at = CHOOSE i \in Replicas : TRUE
LiveSpec == LiveInit /\ [][Next]_vars /\ Fairness
=============================================================================
