-------------------------- MODULE MCServiceHealth --------------------------
(* Instances of ServiceHealth for TLC. *)
EXTENDS ServiceHealth

\* For liveness, where symmetry is not sound: owners and observations are
\* alike, so the first fold may be a fixed one, on a fixed owner.
FirstOwner == CHOOSE r \in Owners : TRUE
FirstFold == CHOOSE o \in Observations : TRUE
InOrder ==
  (\E o \in Observations : home'[o] # "nobody") => home'[FirstFold] = FirstOwner

OrderedSpec == Init /\ [][Next /\ InOrder]_vars /\ Fairness
=============================================================================
