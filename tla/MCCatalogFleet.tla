--------------------------- MODULE MCCatalogFleet ---------------------------
(***************************************************************************)
(* CatalogStore for TLC with several replicas.  Patterns and services meet *)
(* only in the dirty flag, so a behaviour has either the steps about       *)
(* patterns or those about services; both have the worker's life.          *)
(***************************************************************************)
EXTENDS MCCatalogStore, TLC

VARIABLE scene

ServiceEdits == 2  \* bound: edits of a behaviour about services

\* Each disjunct keeps the scene: TLC tells them apart in its statistics.
LifeSteps(i) ==
  \/ Start(i) /\ UNCHANGED scene
  \/ Persist(i) /\ UNCHANGED scene
  \/ Shutdown(i) /\ UNCHANGED scene
  \/ Kill(i) /\ UNCHANGED scene

About(what) == scene = what /\ UNCHANGED scene

PatternSteps(i) ==
  \/ About("patterns") /\ Promote(i)
  \/ About("patterns") /\ MarkKnown(i)
  \/ About("patterns") /\ CurateMarkKnown(i)
  \/ About("patterns") /\ CacheMarked(i)
  \/ \E pat \in Patterns :
        \/ About("patterns") /\ Upsert(i, pat)
        \/ About("patterns") /\ Delete(i, pat)
        \/ \E verdict \in Verdicts :
              About("patterns") /\ Label(i, pat, verdict)

ServiceEdit == About("services") /\ edits < ServiceEdits

ServiceRequests(i) ==
  \/ ServiceEdit /\ ResetServices(i)
  \/ \E name \in Services :
        \/ ServiceEdit /\ CreateService(i, name)
        \/ ServiceEdit /\ DeleteService(i, name)
        \/ \E free \in Services \ {name} :
              ServiceEdit /\ RenameService(i, name, free)
        \/ \E kind \in {"end_grace", "restart_grace"} :
              ServiceEdit /\ ControlGrace(i, name, kind)

ServiceSteps(i) ==
  \/ About("services") /\ ResetServiceRows(i)
  \/ About("services") /\ FinishResetServices(i)
  \/ About("services") /\ ControlGraceMemory(i)
  \/ \E name \in Services : About("services") /\ RegisterService(i, name)

FleetInit == Init /\ scene \in {"patterns", "services"}

FleetNext ==
  \/ \E i \in Instances :
        \/ LifeSteps(i) \/ PatternSteps(i)
        \/ ServiceRequests(i) \/ ServiceSteps(i)
  \/ About("services") /\ GraceElapses

FleetSpec == FleetInit /\ [][FleetNext]_<<vars, scene>>

Replicas == Permutations(Instances)
=============================================================================
