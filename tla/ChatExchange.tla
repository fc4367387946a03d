---------------------------- MODULE ChatExchange ----------------------------
(***************************************************************************)
(* What a chat session promises, whatever its replicas do: a message is    *)
(* stored once, at most one end is stored for it and none before it, and a *)
(* message is taken only when every earlier one has its end.  Exempt are   *)
(* the runs that were abandoned, because they lost their lease, died or    *)
(* failed: they may leave no end, and write late.  Nothing is said in a    *)
(* session that is gone, and every other message is ended at last.         *)
(***************************************************************************)
CONSTANT Runs

VARIABLES
  asked,      \* the runs whose user turn the session holds
  ended,      \* the runs whose assistant or terminal turn it holds
  abandoned,  \* the runs that may never end, or not keep the others out
  gone        \* the session is erased

log == <<asked, ended, abandoned, gone>>

TypeOK ==
  /\ asked \subseteq Runs /\ ended \subseteq asked /\ abandoned \subseteq Runs
  /\ gone \in BOOLEAN

Init == asked = {} /\ ended = {} /\ abandoned = {} /\ gone = FALSE

Ask(r) ==
  /\ ~gone /\ r \notin asked
  /\ r \in abandoned \/ asked \ ended \subseteq abandoned
  /\ asked' = asked \cup {r}
  /\ UNCHANGED <<ended, abandoned, gone>>

End(r) ==
  /\ ~gone /\ r \in asked \ ended
  /\ ended' = ended \cup {r}
  /\ UNCHANGED <<asked, abandoned, gone>>

Abandon ==
  /\ abandoned \subseteq abandoned' /\ abandoned' \subseteq Runs
  /\ abandoned' # abandoned
  /\ UNCHANGED <<asked, ended, gone>>

Erase ==
  /\ ~gone /\ gone' = TRUE
  /\ asked' = {} /\ ended' = {} /\ UNCHANGED abandoned

Next == Abandon \/ Erase \/ \E r \in Runs : Ask(r) \/ End(r)

Safe == Init /\ [][Next]_log

\* A message that is not abandoned is ended.
Spec == Safe /\ \A r \in Runs : WF_log(r \notin abandoned /\ End(r))
=============================================================================
