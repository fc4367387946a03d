--------------------------- MODULE MCCatalogStore ---------------------------
(* Instances of CatalogStore for TLC: one replica that has only patterns. *)
EXTENDS CatalogStore

NoLegacyRoot ==
  {[there |-> FALSE, verdict |-> "", deleted |-> FALSE, count |-> 0]}
AnyLegacyRoot ==
  NoLegacyRoot \cup
    [there : {TRUE}, verdict : {"", "known"}, deleted : BOOLEAN, count : {1}]

\* Next, without the steps about services.
PatternNext ==
  \E i \in Instances :
     \/ Start(i) \/ PromotionSteps(i) \/ Persist(i) \/ Shutdown(i) \/ Kill(i)
     \/ ResetPatterns(i) \/ ResetPatternRows(i) \/ FinishResetPatterns(i)
     \/ ReassignMemory(i)
     \/ \E pat \in Patterns :
           \/ Upsert(i, pat) \/ Delete(i, pat) \/ Reassign(i, pat)
           \/ \E verdict \in Verdicts : Label(i, pat, verdict)

PatternSpec == Init /\ [][PatternNext]_vars /\ Fairness
=============================================================================
