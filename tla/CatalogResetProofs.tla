------------------------- MODULE CatalogResetProofs -------------------------
(***************************************************************************)
(* What resets and reassignments leave, on one replica: the counts restart *)
(* from the reset, and a reassignment is not undone by what the worker     *)
(* learns, promotes or persists between the steps of a request.  With a    *)
(* second replica neither holds: what the other holds in memory is         *)
(* persisted after the reset, or over the reassignment.                    *)
(***************************************************************************)
EXTENDS CatalogStoreProofs

OneReplica == \E i \in Instances : Instances = {i}

-----------------------------------------------------------------------------
(* Where requests are *)

PatternResets == {"patterns cleared", "patterns reset"}
ServiceResets == {"services cleared", "services reset"}

\* A reset is under way only where the operator's edits have it.
ResetsAreEdits ==
  \A i \in Instances :
     /\ request[i].at \in PatternResets => "reset_patterns" \in Edits
     /\ request[i].at \in ServiceResets => "reset_services" \in Edits

LEMMA RequestsInit == Init => ResetsAreEdits
<1> SUFFICES ASSUME Init PROVE ResetsAreEdits
  OBVIOUS
<1>1. \A i \in Instances : request[i].at = "idle"
  BY DEF Init, Idle
<1> QED BY <1>1 DEF ResetsAreEdits, PatternResets, ServiceResets

LEMMA RequestsNext ==
  ASSUME Parts, ResetsAreEdits, [Next]_vars
  PROVE  ResetsAreEdits'
<1> USE DEF Parts, ControlOK, PatternResets, ServiceResets
<1>1. CASE UNCHANGED request
  BY <1>1 DEF ResetsAreEdits
<1>2. ASSUME NEW i \in Instances, request' = [request EXCEPT ![i] = Idle]
      PROVE  ResetsAreEdits'
  BY <1>2 DEF ResetsAreEdits, Idle
<1>3. ASSUME NEW i \in Instances, NEW at, NEW id, RequestTo(i, at, id),
             /\ at \in PatternResets => "reset_patterns" \in Edits
             /\ at \in ServiceResets => "reset_services" \in Edits
      PROVE  ResetsAreEdits'
  <2>1. \A j \in Instances :
          request'[j] = IF j = i THEN [at |-> at, id |-> id] ELSE request[j]
    BY <1>3 DEF RequestTo
  <2>2. ASSUME NEW j \in Instances
        PROVE  /\ request'[j].at \in PatternResets => "reset_patterns" \in Edits
               /\ request'[j].at \in ServiceResets => "reset_services" \in Edits
    <3>1. CASE j = i
      <4>1. request'[j].at = at
        BY <2>1, <3>1
      <4> QED BY <1>3, <4>1
    <3>2. CASE j # i
      BY <2>1, <3>2 DEF ResetsAreEdits
    <3> QED BY <3>1, <3>2
  <2> QED BY <2>2 DEF ResetsAreEdits
<1>4. ASSUME NEW i \in Instances,
             \/ Start(i) \/ Sightings(i) \/ PromotionSteps(i) \/ Persist(i)
             \/ Shutdown(i) \/ Kill(i)
      PROVE  UNCHANGED request \/ request' = [request EXCEPT ![i] = Idle]
  BY <1>4 DEF Start, Sightings, Upsert, RegisterService, PromotionSteps, Promote,
              MarkKnown, CurateMarkKnown, CacheMarked, Persist, Shutdown, Kill, Forget
<1>5. ASSUME NEW i \in Instances, Requests(i)
      PROVE  ResetsAreEdits'
  <2>1. ASSUME NEW p \in Patterns, Reassign(i, p)
        PROVE  ResetsAreEdits'
    <3>1. RequestTo(i, "reassigning", p) \/ UNCHANGED request
      BY <2>1 DEF Reassign
    <3> QED BY <1>1, <1>3, <3>1
  <2>2. ASSUME NEW s \in Services, NEW kind \in {"end_grace", "restart_grace"},
               ControlGrace(i, s, kind)
        PROVE  ResetsAreEdits'
    <3>1. RequestTo(i, kind, s) \/ UNCHANGED request
      BY <2>2 DEF ControlGrace
    <3> QED BY <1>1, <1>3, <3>1
  <2>3. CASE ResetPatterns(i)
    BY <1>3, <2>3 DEF ResetPatterns, Edit
  <2>4. CASE ResetServices(i)
    BY <1>3, <2>4 DEF ResetServices, Edit
  <2> QED
    BY <1>1, <1>5, <2>1, <2>2, <2>3, <2>4
       DEF Requests, Label, Delete, CreateService, DeleteService, RenameService,
           OneStatement
<1>6. ASSUME NEW i \in Instances, RequestSteps(i)
      PROVE  ResetsAreEdits'
  <2>1. CASE ResetPatternRows(i)
    <3>1. "reset_patterns" \in Edits
      BY <2>1 DEF ResetPatternRows, ResetsAreEdits
    <3>2. RequestTo(i, "patterns reset", NoId) \/ RequestDone(i)
      BY <2>1 DEF ResetPatternRows
    <3> QED BY <1>2, <1>3, <3>1, <3>2 DEF RequestDone
  <2>2. CASE ResetServiceRows(i)
    <3>1. "reset_services" \in Edits
      BY <2>2 DEF ResetServiceRows, ResetsAreEdits
    <3>2. RequestTo(i, "services reset", NoId) \/ RequestDone(i)
      BY <2>2 DEF ResetServiceRows
    <3> QED BY <1>2, <1>3, <3>1, <3>2 DEF RequestDone
  <2>3. CASE RequestDone(i)
    BY <1>2, <2>3 DEF RequestDone
  <2> QED
    BY <1>6, <2>1, <2>2, <2>3 DEF RequestSteps, ReassignMemory, ControlGraceMemory,
                                 FinishResetPatterns, FinishResetServices
<1> QED BY <1>1, <1>2, <1>4, <1>5, <1>6 DEF Next, vars, GraceElapses

-----------------------------------------------------------------------------
(* What a step other than a reset's makes of a pattern's shared row *)

LEMMA ServiceWrite ==
  ASSUME root \in [Patterns -> RootRow], NEW p \in Patterns,
         NEW v, root' = [root EXCEPT ![p].service = v], NEW q \in Patterns
  PROVE  root'[q].service = IF q = p THEN v ELSE root[q].service
BY DEF RootRow

LEMMA RowWrites ==
  ASSUME Parts, [Next]_vars, \A i \in Instances : ~ResetPatternRows(i),
         NEW q \in Patterns, root[q].reset => root[q].there
  PROVE  /\ root'[q].reset = root[q].reset
         /\ root[q].there => root'[q].there
         /\ \/ root'[q].service = root[q].service
            \/ /\ root[q].there /\ root'[q].service = "reassigned"
               /\ \E i \in Instances : Reassign(i, q)
            \/ /\ root'[q].there
               /\ \E i \in Instances :
                     /\ PersistAll(i) /\ patterns[i][q].count # 0
                     /\ patterns[i][q].service # "" =>
                          root'[q].service = patterns[i][q].service
<1> USE DEF Parts, DatabaseOK
<1>0. root[q] \in RootRow
  OBVIOUS
<1>1. CASE UNCHANGED root
  BY <1>1
<1>2. ASSUME NEW i \in Instances, CurateMarkKnown(i)
      PROVE  /\ root'[q].reset = root[q].reset
             /\ root[q].there => root'[q].there
             /\ root'[q].service = root[q].service
  <2>1. root'[q] = root[q] \/ root'[q] = KnownRoot(root[q])
    BY <1>2, CurateKeepsRows
  <2> QED BY <1>0, <2>1 DEF KnownRoot, RootRow
<1>3. ASSUME NEW i \in Instances, NEW p \in Patterns, NEW verdict \in Verdicts,
             Label(i, p, verdict)
      PROVE  /\ root'[q].reset = root[q].reset
             /\ root[q].there => root'[q].there
             /\ root'[q].service = root[q].service
  <2>1. root' = root \/ root' = [root EXCEPT ![p].verdict = verdict]
    BY <1>3, LabelWrites
  <2>2. CASE root' = [root EXCEPT ![p].verdict = verdict]
    BY <1>0, <2>2 DEF RootRow
  <2> QED BY <2>1, <2>2
<1>4. ASSUME NEW i \in Instances, NEW p \in Patterns, Delete(i, p)
      PROVE  /\ root'[q].reset = root[q].reset
             /\ root[q].there => root'[q].there
             /\ root'[q].service = root[q].service
  <2>1. \/ root'[q] = root[q]
        \/ root'[q] = [root[q] EXCEPT !.deleted = TRUE, !.shadow = FALSE]
    BY <1>4 DEF Delete, Tombstone
  <2> QED BY <1>0, <2>1 DEF RootRow
<1>5. ASSUME NEW i \in Instances, NEW p \in Patterns, Reassign(i, p)
      PROVE  /\ root'[q].reset = root[q].reset
             /\ root[q].there => root'[q].there
             /\ \/ root'[q].service = root[q].service
                \/ q = p /\ root[q].there /\ root'[q].service = "reassigned"
  <2> DEFINE v == IF root[p].there THEN "reassigned" ELSE root[p].service
  <2>1. root' = root \/ root' = [root EXCEPT ![p].service = v]
    BY <1>5 DEF Reassign
  <2>2. v = IF root[p].there THEN "reassigned" ELSE root[p].service
    OBVIOUS
  <2> HIDE DEF v
  <2>3. CASE root' = [root EXCEPT ![p].service = v]
    BY <2>2, <2>3, ServiceWrite, ColumnWrite
  <2> QED BY <2>1, <2>3
<1>6. ASSUME NEW i \in Instances, PersistAll(i)
      PROVE  /\ root'[q].reset = root[q].reset
             /\ root[q].there => root'[q].there
             /\ \/ root'[q].service = root[q].service
                \/ /\ root'[q].there /\ patterns[i][q].count # 0
                   /\ patterns[i][q].service # "" =>
                        root'[q].service = patterns[i][q].service
  <2>1. CASE patterns[i][q].count = 0
    BY <2>1, <1>6 DEF PersistAll
  <2>2. CASE patterns[i][q].count # 0
    <3> DEFINE new == UpsertRoot(q, patterns[i][q].service)
    <3>1. root'[q] = new
      BY <1>6, <2>2 DEF PersistAll
    <3>2. ChosenRoot(q) \in RootRow /\ (~root[q].there => ~ChosenRoot(q).reset)
      BY ChosenRootType DEF ChosenRoot, NoRoot
    <3>3. new.there /\ new.reset = root[q].reset
          /\ (patterns[i][q].service # "" => new.service = patterns[i][q].service)
      BY <1>0, <3>2 DEF UpsertRoot, RootRow
    <3> HIDE DEF new
    <3> QED BY <2>2, <3>1, <3>3
  <2> QED BY <2>1, <2>2
<1> QED BY <1>1, <1>2, <1>3, <1>4, <1>5, <1>6, PatternRowSteps

-----------------------------------------------------------------------------
(* Training restarts *)

\* Nothing holds more of a pattern than was seen since the last reset: no
\* memory, no partition, and no legacy partition that still counts.
SinceInv ==
  \A p \in Patterns :
     /\ \A i \in Instances : /\ patterns[i][p].count <= since[p]
                             /\ row[i][p] <= since[p]
     /\ legacy[p].there /\ ~root[p].reset => legacy[p].count <= since[p]
     /\ root[p].reset => root[p].there

LEMMA Counts ==
  ASSUME Parts, NEW i \in Instances, NEW p \in Patterns
  PROVE  /\ patterns[i][p].count \in Nat /\ row[i][p] \in Nat
         /\ legacy[p].count \in Nat /\ since[p] \in Nat
         /\ ChosenCount(i, p) \in Nat
<1>1. patterns[i][p] \in Pattern /\ legacy[p] \in LegacyRoots
  BY DEF Parts, MemoryOK, DatabaseOK
<1>2. /\ patterns[i][p].count \in 0..MaxCount /\ row[i][p] \in 0..MaxCount
      /\ legacy[p].count \in 0..MaxCount /\ since[p] \in Nat
  BY <1>1, LegacyFields DEF Pattern, Parts, DatabaseOK, HistoryOK
<1>3. ChosenCount(i, p) \in 0..MaxCount
  BY ChosenCountType DEF Parts, DatabaseOK
<1> QED BY <1>2, <1>3, Bounds

LEMMA ChosenSince ==
  ASSUME Parts, SinceInv, NEW i \in Instances, NEW p \in Patterns
  PROVE  ChosenCount(i, p) <= since[p]
<1>1. /\ row[i][p] <= since[p] /\ since[p] \in Nat
      /\ legacy[p].there /\ ~root[p].reset => legacy[p].count <= since[p]
  BY Counts DEF SinceInv
<1> QED BY <1>1 DEF ChosenCount

LEMMA CountKept ==
  ASSUME patterns \in [Instances -> [Patterns -> Pattern]],
         NEW i \in Instances, NEW p \in Patterns, NEW v,
         \/ patterns' = patterns
         \/ patterns' = [patterns EXCEPT ![i][p].verdict = v]
         \/ patterns' = [patterns EXCEPT ![i][p].service = v],
         NEW j \in Instances, NEW q \in Patterns
  PROVE  patterns'[j][q].count = patterns[j][q].count
<1>1. patterns[j][q] \in Pattern
  OBVIOUS
<1>2. CASE j = i /\ q = p
  BY <1>1, <1>2 DEF Pattern
<1>3. CASE j # i \/ q # p
  BY <1>3
<1> QED BY <1>2, <1>3

\* A step other than a reset's: what it counts it has read, or it is a sighting.
LEMMA CountWrites ==
  ASSUME Parts, [Next]_vars, \A i \in Instances : ~ResetPatternRows(i),
         NEW q \in Patterns
  PROVE  /\ UNCHANGED legacy
         /\ since'[q] = since[q] \/ since'[q] = since[q] + 1
         /\ \A j \in Instances :
              /\ \/ patterns'[j][q].count \in {0, patterns[j][q].count, ChosenCount(j, q)}
                 \/ /\ patterns'[j][q].count = patterns[j][q].count + 1
                    /\ since'[q] = since[q] + 1
              /\ row'[j][q] \in {row[j][q], patterns[j][q].count}
<1> USE DEF Parts, MemoryOK, DatabaseOK, HistoryOK
<1> DEFINE Same == /\ UNCHANGED <<legacy, since, row>>
                   /\ \A j \in Instances : patterns'[j][q].count = patterns[j][q].count
<1>1. CASE UNCHANGED vars \/ GraceElapses
  BY <1>1 DEF vars, GraceElapses, learning, database, history
<1>2. ASSUME NEW i \in Instances, Start(i)
      PROVE  /\ UNCHANGED <<legacy, since, row>>
             /\ \A j \in Instances :
                  patterns'[j][q].count \in {0, patterns[j][q].count, ChosenCount(j, q)}
  <2>1. patterns'[i][q] = Load(i, q) /\ \A j \in Instances \ {i} : patterns'[j] = patterns[j]
    BY <1>2 DEF Start
  <2>2. Load(i, q).count \in {0, ChosenCount(i, q)}
    BY DEF Load, NoPattern
  <2> QED BY <1>2, <2>1, <2>2 DEF Start, database, history
<1>3. ASSUME NEW i \in Instances, NEW p \in Patterns, Upsert(i, p)
      PROVE  /\ UNCHANGED <<legacy, row>>
             /\ since'[q] = since[q] \/ since'[q] = since[q] + 1
             /\ \A j \in Instances :
                  \/ patterns'[j][q].count = patterns[j][q].count
                  \/ /\ patterns'[j][q].count = patterns[j][q].count + 1
                     /\ since'[q] = since[q] + 1
  <2>1. /\ patterns'[i][p].count = patterns[i][p].count + 1
        /\ since'[p] = since[p] + 1
    BY <1>3 DEF Upsert
  <2>2. \A j \in Instances : j # i \/ q # p => patterns'[j][q] = patterns[j][q]
    BY <1>3 DEF Upsert
  <2>3. q # p => since'[q] = since[q]
    BY <1>3 DEF Upsert
  <2> QED BY <1>3, <2>1, <2>2, <2>3 DEF Upsert, database
<1>4. ASSUME NEW i \in Instances, PromotionSteps(i)
      PROVE  Same
  <2>1. CASE MarkKnown(i)
    <3>1. worker[i].id \in Patterns
      BY <2>1, WorkerAt DEF MarkKnown
    <3>2. ASSUME NEW j \in Instances
          PROVE  patterns'[j][q].count = patterns[j][q].count
      <4>1. \/ patterns' = patterns
            \/ patterns' = [patterns EXCEPT ![i][worker[i].id].verdict = "known"]
        BY <2>1 DEF MarkKnown
      <4>2. CASE patterns' = [patterns EXCEPT ![i][worker[i].id].verdict = "known"]
        BY <3>1, <4>2, CountKept, Zenon
      <4> QED BY <4>1, <4>2
    <3> QED BY <2>1, <3>2 DEF MarkKnown, database, history
  <2>2. CASE Promote(i) \/ CurateMarkKnown(i) \/ CacheMarked(i)
    BY <2>2 DEF Promote, CurateMarkKnown, CacheMarked, database, history
  <2> QED BY <1>4, <2>1, <2>2 DEF PromotionSteps
<1>5. ASSUME NEW i \in Instances, NEW s \in Services, RegisterService(i, s)
      PROVE  Same
  BY <1>5 DEF RegisterService, database, history
<1>6. ASSUME NEW i \in Instances, Persist(i) \/ Shutdown(i) \/ Kill(i)
      PROVE  /\ UNCHANGED <<legacy, since>>
             /\ \A j \in Instances :
                  /\ patterns'[j][q].count \in {0, patterns[j][q].count}
                  /\ row'[j][q] \in {row[j][q], patterns[j][q].count}
  <2>1. ASSUME NEW j \in Instances
        PROVE  row'[j][q] \in {row[j][q], patterns[j][q].count}
    <3>1. PersistAll(i) \/ UNCHANGED row
      BY <1>6 DEF Persist, Shutdown, Kill, database
    <3>2. CASE PersistAll(i)
      BY <3>2 DEF PersistAll
    <3> QED BY <3>1, <3>2
  <2>2. ASSUME NEW j \in Instances
        PROVE  patterns'[j][q].count \in {0, patterns[j][q].count}
    <3>1. \/ UNCHANGED patterns
          \/ patterns' = [patterns EXCEPT ![i] = [p \in Patterns |-> NoPattern]]
      BY <1>6 DEF Persist, Shutdown, Kill, Forget
    <3>2. CASE patterns' = [patterns EXCEPT ![i] = [p \in Patterns |-> NoPattern]]
      <4>1. patterns'[j][q] = NoPattern \/ patterns'[j][q] = patterns[j][q]
        BY <3>2
      <4>2. NoPattern.count = 0
        BY DEF NoPattern
      <4> QED BY <4>1, <4>2
    <3> QED BY <3>1, <3>2
  <2> QED BY <1>6, <2>1, <2>2 DEF Persist, Shutdown, Kill, history
<1>7. ASSUME NEW i \in Instances, Requests(i)
      PROVE  /\ UNCHANGED <<legacy, since, row>>
             /\ \A j \in Instances : patterns'[j][q].count \in {0, patterns[j][q].count}
  <2>1. CASE ResetPatterns(i)
    BY <2>1 DEF ResetPatterns, NoPattern, database
  <2>2. CASE Same
    BY <2>2
  <2> QED
    BY <1>7, <2>1, <2>2
       DEF Requests, Label, Delete, Reassign, CreateService, DeleteService, RenameService,
           ControlGrace, ResetServices, OneStatement, learning, database, history
<1>8. ASSUME NEW i \in Instances, RequestSteps(i)
      PROVE  Same
  <2>1. CASE ReassignMemory(i)
    <3>1. request[i].id \in Patterns
      BY <2>1, RequestAt DEF ReassignMemory
    <3>2. ASSUME NEW j \in Instances
          PROVE  patterns'[j][q].count = patterns[j][q].count
      <4>1. \/ patterns' = patterns
            \/ patterns' = [patterns EXCEPT ![i][request[i].id].service = "reassigned"]
        BY <2>1 DEF ReassignMemory
      <4>2. CASE patterns' = [patterns EXCEPT ![i][request[i].id].service = "reassigned"]
        BY <3>1, <4>2, CountKept, Zenon
      <4> QED BY <4>1, <4>2
    <3> QED BY <2>1, <3>2 DEF ReassignMemory, database
  <2>2. CASE \/ ControlGraceMemory(i) \/ FinishResetPatterns(i)
             \/ ResetServiceRows(i) \/ FinishResetServices(i)
    BY <2>2 DEF ControlGraceMemory, FinishResetPatterns, ResetServiceRows,
                FinishResetServices, learning, database, history
  <2> QED BY <1>8, <2>1, <2>2 DEF RequestSteps
<1> QED
  BY <1>1, <1>2, <1>3, <1>4, <1>5, <1>6, <1>7, <1>8 DEF Next, Sightings

LEMMA SinceReset ==
  ASSUME Parts, OneReplica, SinceInv, NEW i \in Instances, ResetPatternRows(i)
  PROVE  SinceInv'
<1>1. UNCHANGED <<patterns, legacy>>
  BY DEF ResetPatternRows, learning
<1>2. CASE UNCHANGED <<root, row, since>>
  BY <1>1, <1>2 DEF SinceInv
<1>3. CASE /\ root' = [p \in Patterns |-> ResetRoot(p)]
           /\ row' = [j \in Instances |-> [p \in Patterns |-> 0]]
           /\ since' = [p \in Patterns |-> patterns[i][p].count]
  <2>1. ASSUME NEW p \in Patterns, NEW j \in Instances
        PROVE  patterns'[j][p].count <= since'[p] /\ row'[j][p] <= since'[p]
    <3>1. j = i
      BY DEF OneReplica
    <3>2. patterns[i][p].count \in Nat
      BY Counts
    <3> QED BY <1>1, <1>3, <3>1, <3>2
  <2>2. ASSUME NEW p \in Patterns
        PROVE  /\ legacy'[p].there => root'[p].reset
               /\ root'[p].reset => root'[p].there
    BY <1>1, <1>3 DEF ResetRoot, NoRoot
  <2> QED BY <2>1, <2>2 DEF SinceInv
<1> QED BY <1>2, <1>3 DEF ResetPatternRows

LEMMA SinceNext ==
  ASSUME OneReplica \/ "reset_patterns" \notin Edits,
         Parts, Parts', ResetsAreEdits, SinceInv, [Next]_vars
  PROVE  SinceInv'
<1>1. CASE \E i \in Instances : ResetPatternRows(i)
  <2>1. PICK i \in Instances : ResetPatternRows(i)
    BY <1>1
  <2>2. OneReplica
    BY <2>1 DEF ResetPatternRows, ResetsAreEdits, PatternResets
  <2> QED BY <2>1, <2>2, SinceReset
<1>2. CASE \A i \in Instances : ~ResetPatternRows(i)
  <2> SUFFICES ASSUME NEW q \in Patterns
               PROVE  /\ \A i \in Instances : /\ patterns'[i][q].count <= since'[q]
                                              /\ row'[i][q] <= since'[q]
                      /\ legacy'[q].there /\ ~root'[q].reset => legacy'[q].count <= since'[q]
                      /\ root'[q].reset => root'[q].there
    BY DEF SinceInv
  <2>1. /\ UNCHANGED legacy
        /\ since'[q] = since[q] \/ since'[q] = since[q] + 1
    BY <1>2, CountWrites
  <2>2. root[q].reset => root[q].there
    BY DEF SinceInv
  <2>3. root'[q].reset = root[q].reset /\ (root[q].there => root'[q].there)
    BY <1>2, <2>2, RowWrites
  <2>4. since[q] \in Nat
    BY DEF Parts, HistoryOK
  <2>5. ASSUME NEW j \in Instances
        PROVE  patterns'[j][q].count <= since'[q] /\ row'[j][q] <= since'[q]
    <3>1. /\ \/ patterns'[j][q].count \in {0, patterns[j][q].count, ChosenCount(j, q)}
             \/ /\ patterns'[j][q].count = patterns[j][q].count + 1
                /\ since'[q] = since[q] + 1
          /\ row'[j][q] \in {row[j][q], patterns[j][q].count}
      BY <1>2, CountWrites
    <3>2. /\ patterns[j][q].count <= since[q] /\ row[j][q] <= since[q]
          /\ ChosenCount(j, q) <= since[q]
      BY ChosenSince DEF SinceInv
    <3>3. patterns[j][q].count \in Nat /\ row[j][q] \in Nat /\ ChosenCount(j, q) \in Nat
      BY Counts
    <3> QED BY <2>1, <2>4, <3>1, <3>2, <3>3
  <2>6. ASSUME legacy[q].there, ~root[q].reset
        PROVE  legacy[q].count <= since'[q]
    <3>1. legacy[q].count <= since[q]
      BY <2>6 DEF SinceInv
    <3>2. legacy[q].count \in Nat
      <4>1. legacy[q] \in LegacyRoots
        BY DEF Parts, DatabaseOK
      <4> QED BY <4>1, LegacyFields, Bounds
    <3> QED BY <2>1, <2>4, <3>1, <3>2
  <2> QED BY <2>1, <2>2, <2>3, <2>5, <2>6
<1> QED BY <1>1, <1>2

(* What is shown of a pattern was seen since the patterns were last reset, on
   one replica, or on any number while nobody resets them. *)
THEOREM TrainingRestartsAlways ==
  ASSUME OneReplica \/ "reset_patterns" \notin Edits
  PROVE  Spec => []TrainingRestarts
<1>1. Init => SinceInv
  <2> SUFFICES ASSUME Init, NEW p \in Patterns
               PROVE  /\ \A i \in Instances : /\ patterns[i][p].count <= since[p]
                                              /\ row[i][p] <= since[p]
                      /\ legacy[p].there /\ ~root[p].reset => legacy[p].count <= since[p]
                      /\ root[p].reset => root[p].there
    BY DEF SinceInv
  <2>1. since[p] = legacy[p].count /\ since[p] \in Nat
    BY InitTypes DEF Init, Parts, HistoryOK
  <2>2. /\ ~root[p].reset
        /\ \A i \in Instances : patterns[i][p].count = 0 /\ row[i][p] = 0
    BY DEF Init, NoRoot, NoPattern
  <2> QED BY <2>1, <2>2
<1>2. Parts /\ Parts' /\ ResetsAreEdits /\ SinceInv /\ [Next]_vars => SinceInv'
  BY SinceNext
<1>3. Parts /\ SinceInv => TrainingRestarts
  BY ChosenSince DEF TrainingRestarts
<1>4. Parts /\ ResetsAreEdits /\ [Next]_vars => ResetsAreEdits'
  BY RequestsNext
<1> QED
  BY <1>1, <1>2, <1>3, <1>4, RequestsInit, PartsAlways, PTL DEF Spec

-----------------------------------------------------------------------------
(* Reassignments stick *)

InRow(p) == root[p].there /\ root[p].service = "reassigned"
InMemory(i, p) == patterns[i][p].count > 0 /\ patterns[i][p].service = "reassigned"

\* A column is of a row that is there.
RowsAreThere(p) ==
  /\ root[p].service # "" => root[p].there
  /\ root[p].reset => root[p].there

\* What memory says of a pattern is in its row, or a persist is due for it, or
\* its count tells that the end of a reset has cleared the flag.
MemoryIsDue(i, p) ==
  InMemory(i, p) =>
    InRow(p) \/ dirty[i] \/ patterns[i][p].count # ChosenCount(i, p)

\* While a reset ends, whose last step clears the flag: what memory has beyond
\* the row it counts beyond the row.
EndOfReset(i, p) ==
  request[i].at = "patterns reset" =>
    /\ ChosenCount(i, p) <= patterns[i][p].count
    /\ InMemory(i, p) => InRow(p) \/ ChosenCount(i, p) < patterns[i][p].count

\* A reassigned pattern has its rule, so that no sighting takes it back, and is
\* in its row or in memory.
RuleHolds(i, p) ==
  kills = 0 /\ p \in reassigned =>
    /\ p \in rules[i]
    /\ patterns[i][p].count > 0 => patterns[i][p].service = "reassigned"
    /\ InRow(p) \/ patterns[i][p].count > 0

\* What is known of the request under way.
RequestHolds(i) ==
  /\ rules[i] \subseteq ruleBlob
  /\ request[i].at \in PatternResets => reassigned = {}
  /\ request[i].at = "reassigning" /\ kills = 0 => request[i].id \in rules[i]
  /\ ~up[i] => request[i].at = "idle" /\ (kills = 0 => reassigned = {})

ReassignInv ==
  \A i \in Instances :
     /\ RequestHolds(i)
     /\ \A p \in Patterns : /\ RowsAreThere(p) /\ MemoryIsDue(i, p)
                            /\ EndOfReset(i, p) /\ RuleHolds(i, p)

\* A step that takes no count, attributes nothing and cleans nothing.
Mild(i) ==
  /\ UNCHANGED <<row, legacy, rules, ruleBlob, reassigned, kills, up>>
  /\ dirty[i] => dirty'[i]
  /\ \A p \in Patterns :
       /\ patterns'[i][p].count = patterns[i][p].count
       /\ patterns'[i][p].service = patterns[i][p].service
       /\ root'[p].service = root[p].service /\ root'[p].reset = root[p].reset
       /\ root[p].there => root'[p].there
  /\ \/ request'[i] = request[i]
     \/ /\ request'[i].at \notin PatternResets \cup {"reassigning"}
        /\ ~up[i] => request'[i].at = "idle"

LEMMA MildStep ==
  ASSUME Parts, ReassignInv, OneReplica, NEW i \in Instances, Mild(i)
  PROVE  ReassignInv'
<1>1. \A p \in Patterns : ChosenCount(i, p)' = ChosenCount(i, p)
  BY DEF Mild, ChosenCount
<1>2. RequestHolds(i)'
  BY DEF ReassignInv, RequestHolds, Mild, PatternResets
<1>3. ASSUME NEW p \in Patterns
      PROVE  /\ RowsAreThere(p)' /\ MemoryIsDue(i, p)'
             /\ EndOfReset(i, p)' /\ RuleHolds(i, p)'
  <2>1. RowsAreThere(p) /\ MemoryIsDue(i, p) /\ EndOfReset(i, p) /\ RuleHolds(i, p)
    BY DEF ReassignInv
  <2>2. InRow(p) => InRow(p)'
    BY DEF InRow, Mild
  <2>3. InMemory(i, p)' <=> InMemory(i, p)
    BY DEF InMemory, Mild
  <2>4. RowsAreThere(p)'
    BY <2>1 DEF RowsAreThere, Mild
  <2>5. MemoryIsDue(i, p)'
    BY <1>1, <2>1, <2>2, <2>3 DEF MemoryIsDue, Mild
  <2>6. EndOfReset(i, p)'
    <3>1. request'[i].at = "patterns reset" => request[i].at = "patterns reset"
      BY DEF Mild, PatternResets
    <3> QED BY <1>1, <2>1, <2>2, <2>3, <3>1 DEF EndOfReset, Mild
  <2>7. RuleHolds(i, p)'
    BY <2>1, <2>2 DEF RuleHolds, Mild
  <2> QED BY <2>4, <2>5, <2>6, <2>7
<1> QED BY <1>2, <1>3 DEF ReassignInv, OneReplica

LEMMA MildWorker ==
  ASSUME Parts, NEW i \in Instances,
         \/ UNCHANGED vars \/ GraceElapses
         \/ PromotionSteps(i) \/ \E s \in Services : RegisterService(i, s)
         \/ Persist(i) /\ UNCHANGED <<database, dirty>>
  PROVE  Mild(i)
<1> USE DEF Parts, MemoryOK, DatabaseOK
<1>1. CASE UNCHANGED vars
  BY <1>1 DEF vars, learning, database, bounds, history, Mild
<1>2. CASE GraceElapses
  BY <1>2 DEF GraceElapses, learning, bounds, history, Mild
<1>3. CASE Promote(i) \/ CacheMarked(i)
  BY <1>3 DEF Promote, CacheMarked, database, bounds, history, Mild
<1>4. CASE MarkKnown(i)
  <2>1. worker[i].id \in Patterns
    BY <1>4, WorkerAt DEF MarkKnown
  <2>2. ASSUME NEW p \in Patterns
        PROVE  /\ patterns'[i][p].count = patterns[i][p].count
               /\ patterns'[i][p].service = patterns[i][p].service
    <3>1. patterns[i][p] \in Pattern
      OBVIOUS
    <3>2. \/ patterns' = patterns
          \/ patterns' = [patterns EXCEPT ![i][worker[i].id].verdict = "known"]
      BY <1>4 DEF MarkKnown
    <3>3. CASE patterns' = [patterns EXCEPT ![i][worker[i].id].verdict = "known"]
      <4>1. \/ patterns'[i][p] = patterns[i][p]
            \/ patterns'[i][p] = [patterns[i][p] EXCEPT !.verdict = "known"]
        BY <2>1, <3>3
      <4> QED BY <3>1, <4>1 DEF Pattern
    <3> QED BY <3>2, <3>3
  <2>3. dirty[i] => dirty'[i]
    BY <1>4 DEF MarkKnown
  <2> QED BY <1>4, <2>2, <2>3 DEF MarkKnown, database, bounds, history, Mild
<1>5. CASE CurateMarkKnown(i)
  <2>1. ASSUME NEW p \in Patterns
        PROVE  /\ root'[p].service = root[p].service /\ root'[p].reset = root[p].reset
               /\ root[p].there => root'[p].there
    <3>1. root[p] \in RootRow
      OBVIOUS
    <3>2. root'[p] = root[p] \/ root'[p] = KnownRoot(root[p])
      BY <1>5, CurateKeepsRows
    <3> QED BY <3>1, <3>2 DEF KnownRoot, RootRow
  <2> QED BY <1>5, <2>1 DEF CurateMarkKnown, Mild
<1>6. CASE \E s \in Services : RegisterService(i, s)
  <2>1. dirty[i] => dirty'[i]
    BY <1>6 DEF RegisterService
  <2> QED BY <1>6, <2>1 DEF RegisterService, database, bounds, history, Mild
<1>7. CASE Persist(i) /\ UNCHANGED <<database, dirty>>
  BY <1>7 DEF Persist, database, history, Mild
<1> QED
  BY <1>1, <1>2, <1>3, <1>4, <1>5, <1>6, <1>7 DEF PromotionSteps

LEMMA MildRequest ==
  ASSUME Parts, NEW i \in Instances,
         \/ \E p \in Patterns : \/ \E verdict \in Verdicts : Label(i, p, verdict)
                                \/ Delete(i, p)
         \/ \E s \in Services :
              \/ CreateService(i, s) \/ DeleteService(i, s)
              \/ \E t \in Services \ {s} : RenameService(i, s, t)
              \/ \E kind \in {"end_grace", "restart_grace"} : ControlGrace(i, s, kind)
         \/ ControlGraceMemory(i)
  PROVE  Mild(i)
<1> USE DEF Parts, MemoryOK, DatabaseOK, PatternResets
<1>0. \A id : RequestTo(i, "end_grace", id) \/ RequestTo(i, "restart_grace", id)
              \/ RequestDone(i) =>
                request'[i].at \in {"end_grace", "restart_grace", "idle"}
  BY DEF RequestTo, RequestDone, Idle, ControlOK
<1>1. ASSUME NEW p \in Patterns,
             \/ \E verdict \in Verdicts : Label(i, p, verdict)
             \/ Delete(i, p)
      PROVE  Mild(i)
  <2>1. ASSUME NEW q \in Patterns
        PROVE  /\ root'[q].service = root[q].service /\ root'[q].reset = root[q].reset
               /\ root[q].there => root'[q].there
    <3>1. root[q] \in RootRow
      OBVIOUS
    <3>2. \/ root'[q] = root[q]
          \/ root'[q] = [root[q] EXCEPT !.deleted = TRUE, !.shadow = FALSE]
          \/ \E verdict \in Verdicts : root'[q] = [root[q] EXCEPT !.verdict = verdict]
      <4>1. CASE Delete(i, p)
        BY <4>1 DEF Delete, Tombstone
      <4>2. ASSUME NEW verdict \in Verdicts, Label(i, p, verdict)
            PROVE  root'[q] = root[q] \/ root'[q] = [root[q] EXCEPT !.verdict = verdict]
        <5>1. root' = root \/ root' = [root EXCEPT ![p].verdict = verdict]
          BY <4>2, LabelWrites
        <5> QED BY <5>1
      <4> QED BY <1>1, <4>1, <4>2
    <3>3. CASE root'[q] = root[q]
      BY <3>3
    <3>4. CASE root'[q] = [root[q] EXCEPT !.deleted = TRUE, !.shadow = FALSE]
      BY <3>1, <3>4 DEF RootRow
    <3>5. ASSUME NEW verdict \in Verdicts, root'[q] = [root[q] EXCEPT !.verdict = verdict]
          PROVE  /\ root'[q].service = root[q].service /\ root'[q].reset = root[q].reset
                 /\ root[q].there => root'[q].there
      BY <3>1, <3>5 DEF RootRow
    <3> QED BY <3>2, <3>3, <3>4, <3>5
  <2> QED BY <1>1, <2>1 DEF Label, Delete, OneStatement, Mild
<1>2. ASSUME NEW s \in Services,
             \/ CreateService(i, s) \/ DeleteService(i, s)
             \/ \E t \in Services \ {s} : RenameService(i, s, t)
      PROVE  Mild(i)
  BY <1>2 DEF CreateService, DeleteService, RenameService, OneStatement, Mild
<1>3. ASSUME NEW s \in Services, NEW kind \in {"end_grace", "restart_grace"},
             ControlGrace(i, s, kind)
      PROVE  Mild(i)
  <2>1. request'[i] = request[i] \/ request'[i].at \in {"end_grace", "restart_grace", "idle"}
    BY <1>0, <1>3 DEF ControlGrace
  <2>2. up[i]
    BY <1>3 DEF ControlGrace, Edit
  <2> QED BY <1>3, <2>1, <2>2 DEF ControlGrace, learning, history, Mild
<1>4. CASE ControlGraceMemory(i)
  <2>1. up[i] /\ request'[i].at \in {"end_grace", "restart_grace", "idle"}
    BY <1>0, <1>4 DEF ControlGraceMemory
  <2> QED BY <1>4, <2>1 DEF ControlGraceMemory, learning, database, bounds, history, Mild
<1> QED BY <1>1, <1>2, <1>3, <1>4


LEMMA StartReassign ==
  ASSUME Parts, ReassignInv, OneReplica, NEW i \in Instances, Start(i)
  PROVE  ReassignInv'
<1> USE DEF Parts, MemoryOK, DatabaseOK
<1>1. /\ UNCHANGED <<root, row, legacy, dirty, request, ruleBlob, reassigned, kills>>
      /\ request[i].at = "idle" /\ (kills = 0 => reassigned = {})
      /\ rules'[i] = ruleBlob /\ up'[i]
  BY DEF Start, database, bounds, history, ReassignInv, RequestHolds
<1>2. RequestHolds(i)'
  BY <1>1 DEF RequestHolds, PatternResets
<1>3. ASSUME NEW p \in Patterns
      PROVE  /\ RowsAreThere(p)' /\ MemoryIsDue(i, p)'
             /\ EndOfReset(i, p)' /\ RuleHolds(i, p)'
  <2>1. RowsAreThere(p)'
    BY <1>1 DEF ReassignInv, RowsAreThere
  <2>2. patterns'[i][p] = Load(i, p)
    BY DEF Start
  <2>3. Load(i, p).service = "reassigned" => InRow(p)
    BY DEF Load, ChosenRoot, NoRoot, NoPattern, InRow
  <2>4. MemoryIsDue(i, p)'
    BY <1>1, <2>2, <2>3 DEF MemoryIsDue, InMemory, InRow
  <2> QED BY <1>1, <2>1, <2>4 DEF EndOfReset, RuleHolds
<1> QED BY <1>2, <1>3 DEF ReassignInv, OneReplica

LEMMA OneMore ==
  ASSUME NEW m \in Nat, NEW n \in Nat, m <= n
  PROVE  m < n + 1 /\ m <= n + 1
OBVIOUS

LEMMA UpsertReassign ==
  ASSUME Parts, ReassignInv, OneReplica, NEW i \in Instances, NEW q \in Patterns,
         Upsert(i, q)
  PROVE  ReassignInv'
<1> USE DEF Parts, MemoryOK, DatabaseOK
<1>1. /\ UNCHANGED <<root, row, legacy, request, rules, ruleBlob, reassigned, kills, up>>
      /\ dirty'[i]
  BY DEF Upsert, database, bounds, history
<1>2. RequestHolds(i)'
  BY <1>1 DEF ReassignInv, RequestHolds
<1>3. ASSUME NEW p \in Patterns
      PROVE  /\ RowsAreThere(p)' /\ MemoryIsDue(i, p)'
             /\ EndOfReset(i, p)' /\ RuleHolds(i, p)'
  <2>1. RowsAreThere(p) /\ EndOfReset(i, p) /\ RuleHolds(i, p)
    BY DEF ReassignInv
  <2>2. RowsAreThere(p)' /\ MemoryIsDue(i, p)' /\ (InRow(p)' <=> InRow(p))
    BY <1>1, <2>1 DEF RowsAreThere, MemoryIsDue, InRow
  <2>3. ChosenCount(i, p)' = ChosenCount(i, p)
    BY <1>1 DEF ChosenCount
  <2>4. CASE p # q
    <3>1. patterns'[i][p] = patterns[i][p]
      BY <2>4 DEF Upsert
    <3> QED
      BY <1>1, <2>1, <2>2, <2>3, <3>1 DEF EndOfReset, RuleHolds, InMemory
  <2>5. CASE p = q
    <3>1. /\ patterns'[i][p].count = patterns[i][p].count + 1
          /\ patterns'[i][p].service = Attribution(i, p)
      BY <2>5 DEF Upsert
    <3>2. patterns[i][p].count \in Nat /\ ChosenCount(i, p) \in Nat
      BY Counts
    <3>3. EndOfReset(i, p)'
      <4>1. request[i].at = "patterns reset" => ChosenCount(i, p) <= patterns[i][p].count
        BY <2>1 DEF EndOfReset
      <4>2. request[i].at = "patterns reset" =>
              /\ ChosenCount(i, p) < patterns[i][p].count + 1
              /\ ChosenCount(i, p) <= patterns[i][p].count + 1
        BY <3>2, <4>1, OneMore, Zenon
      <4> QED BY <1>1, <2>3, <3>1, <4>2 DEF EndOfReset
    <3>4. RuleHolds(i, p)'
      BY <1>1, <2>1, <3>1, <3>2 DEF RuleHolds, Attribution
    <3> QED BY <2>2, <3>3, <3>4
  <2> QED BY <2>4, <2>5
<1> QED BY <1>2, <1>3 DEF ReassignInv, OneReplica

\* A persist brings every row to what memory says of it.
LEMMA PersistWrites ==
  ASSUME Parts, ReassignInv, NEW i \in Instances, PersistAll(i), UNCHANGED legacy,
         NEW p \in Patterns
  PROVE  /\ RowsAreThere(p)'
         /\ InMemory(i, p) => InRow(p)'
         /\ patterns[i][p].count = 0 =>
              root'[p] = root[p] /\ ChosenCount(i, p)' = ChosenCount(i, p)
         /\ patterns[i][p].count # 0 => ChosenCount(i, p)' = patterns[i][p].count
<1> USE DEF Parts, MemoryOK, DatabaseOK
<1>1. RowsAreThere(p) /\ root[p] \in RootRow
  BY DEF ReassignInv
<1>2. row'[i][p] = IF patterns[i][p].count = 0 THEN row[i][p] ELSE patterns[i][p].count
  BY DEF PersistAll
<1>3. CASE patterns[i][p].count = 0
  <2>1. root'[p] = root[p]
    BY <1>3 DEF PersistAll
  <2>2. ChosenCount(i, p)' = ChosenCount(i, p)
    BY <1>2, <1>3, <2>1 DEF ChosenCount
  <2>3. ~InMemory(i, p)
    BY <1>3 DEF InMemory
  <2>4. RowsAreThere(p)'
    BY <1>1, <2>1 DEF RowsAreThere
  <2> QED BY <1>3, <2>1, <2>2, <2>3, <2>4
<1>4. CASE patterns[i][p].count # 0
  <2>1. patterns[i][p].count \in Nat
    BY Counts
  <2>2. ChosenCount(i, p)' = patterns[i][p].count
    BY <1>2, <1>4, <2>1 DEF ChosenCount
  <2> DEFINE new == UpsertRoot(p, patterns[i][p].service)
  <2>3. root'[p] = new
    BY <1>4 DEF PersistAll
  <2>4. ChosenRoot(p) \in RootRow
    BY ChosenRootType
  <2>5. new.there /\ (patterns[i][p].service # "" => new.service = patterns[i][p].service)
    BY <1>1, <2>4 DEF UpsertRoot, RootRow
  <2> HIDE DEF new
  <2>6. RowsAreThere(p)'
    BY <2>3, <2>5 DEF RowsAreThere
  <2>7. InMemory(i, p) => InRow(p)'
    BY <2>3, <2>5 DEF InMemory, InRow
  <2> QED BY <1>4, <2>2, <2>6, <2>7
<1> QED BY <1>3, <1>4

LEMMA PersistReassign ==
  ASSUME Parts, ReassignInv, OneReplica, NEW i \in Instances, Persist(i)
  PROVE  ReassignInv'
<1>1. CASE UNCHANGED <<database, dirty>>
  BY <1>1, MildWorker, MildStep
<1>2. CASE PersistAll(i)
  <2>1. UNCHANGED <<patterns, legacy, request, rules, ruleBlob, reassigned, kills, up>>
    BY DEF Persist, history
  <2>2. RequestHolds(i)'
    BY <2>1 DEF ReassignInv, RequestHolds
  <2>3. ASSUME NEW p \in Patterns
        PROVE  /\ RowsAreThere(p)' /\ MemoryIsDue(i, p)'
               /\ EndOfReset(i, p)' /\ RuleHolds(i, p)'
    <3>1. MemoryIsDue(i, p) /\ EndOfReset(i, p) /\ RuleHolds(i, p)
      BY DEF ReassignInv
    <3>2. /\ RowsAreThere(p)' /\ (InMemory(i, p) => InRow(p)')
          /\ patterns[i][p].count = 0 =>
               root'[p] = root[p] /\ ChosenCount(i, p)' = ChosenCount(i, p)
          /\ patterns[i][p].count # 0 => ChosenCount(i, p)' = patterns[i][p].count
      BY <1>2, <2>1, PersistWrites
    <3>3. InMemory(i, p)' <=> InMemory(i, p)
      BY <2>1 DEF InMemory
    <3>4. MemoryIsDue(i, p)'
      BY <3>2, <3>3 DEF MemoryIsDue
    <3>5. patterns[i][p].count \in Nat
      BY Counts
    <3>6. EndOfReset(i, p)'
      <4>1. CASE patterns[i][p].count = 0
        <5>1. ChosenCount(i, p)' = ChosenCount(i, p) /\ root'[p] = root[p]
          BY <3>2, <4>1
        <5>2. InRow(p)' <=> InRow(p)
          BY <5>1 DEF InRow
        <5> QED BY <2>1, <3>1, <3>3, <5>1, <5>2 DEF EndOfReset
      <4>2. CASE patterns[i][p].count # 0
        <5>1. ChosenCount(i, p)' = patterns'[i][p].count /\ patterns'[i][p].count \in Nat
          BY <2>1, <3>2, <3>5, <4>2
        <5>2. ChosenCount(i, p)' <= patterns'[i][p].count
          BY <5>1
        <5> QED BY <3>2, <3>3, <5>2 DEF EndOfReset
      <4> QED BY <4>1, <4>2
    <3>7. RuleHolds(i, p)'
      BY <2>1, <3>1, <3>2, <3>5 DEF RuleHolds, InMemory, InRow
    <3> QED BY <3>2, <3>4, <3>6, <3>7
  <2> QED BY <2>2, <2>3 DEF ReassignInv, OneReplica
<1> QED BY <1>1, <1>2 DEF Persist

LEMMA EndReassign ==
  ASSUME Parts, ReassignInv, OneReplica, NEW i \in Instances, Shutdown(i) \/ Kill(i)
  PROVE  ReassignInv'
<1> USE DEF Parts, MemoryOK, DatabaseOK, ControlOK
<1>1. /\ ~up'[i] /\ rules'[i] = {} /\ request'[i].at = "idle" /\ kills' # 0
      /\ \A p \in Patterns : patterns'[i][p].count = 0
      /\ UNCHANGED legacy
  <2>1. Forget(i) /\ UNCHANGED legacy
    BY DEF Shutdown, Kill
  <2>2. patterns'[i] = [p \in Patterns |-> NoPattern] /\ request'[i] = Idle /\ ~up'[i]
        /\ rules'[i] = {}
    BY <2>1 DEF Forget
  <2>3. kills' # 0
    BY <2>1, Bounds DEF Forget, BoundsOK
  <2>4. \A p \in Patterns : patterns'[i][p] = NoPattern
    BY <2>2
  <2>5. NoPattern.count = 0 /\ Idle.at = "idle"
    BY DEF NoPattern, Idle
  <2> QED BY <2>1, <2>2, <2>3, <2>4, <2>5
<1>2. RequestHolds(i)'
  BY <1>1 DEF RequestHolds, PatternResets
<1>3. ASSUME NEW p \in Patterns
      PROVE  /\ RowsAreThere(p)' /\ MemoryIsDue(i, p)'
             /\ EndOfReset(i, p)' /\ RuleHolds(i, p)'
  <2>1. PersistAll(i) \/ UNCHANGED root
    BY DEF Shutdown, Kill, database
  <2>2. RowsAreThere(p)'
    <3>1. CASE PersistAll(i)
      BY <1>1, <3>1, PersistWrites
    <3>2. CASE UNCHANGED root
      BY <3>2 DEF ReassignInv, RowsAreThere
    <3> QED BY <2>1, <3>1, <3>2
  <2>3. ~InMemory(i, p)'
    BY <1>1 DEF InMemory
  <2> QED BY <1>1, <2>2, <2>3 DEF MemoryIsDue, EndOfReset, RuleHolds
<1> QED BY <1>2, <1>3 DEF ReassignInv, OneReplica


\* The first half of a reassignment: the rule, and the row if there is one.
LEMMA RuleReassign ==
  ASSUME Parts, ReassignInv, OneReplica, [Next]_vars, NEW i \in Instances,
         NEW q \in Patterns, Reassign(i, q)
  PROVE  ReassignInv'
<1> USE DEF Parts, MemoryOK, DatabaseOK, ControlOK
<1>1. /\ UNCHANGED <<patterns, dirty, row, legacy, reassigned, kills, up>>
      /\ rules'[i] = rules[i] \cup {q} /\ ruleBlob' = ruleBlob \cup {q} /\ up[i]
  BY DEF Reassign, learning, history, Edit
<1>2. \/ request'[i] = request[i]
      \/ request'[i].at = "reassigning" /\ request'[i].id = q
  BY DEF Reassign, RequestTo
<1>3. RequestHolds(i)'
  <2>1. RequestHolds(i)
    BY DEF ReassignInv
  <2>2. /\ rules'[i] \subseteq ruleBlob'
        /\ ~up'[i] => request'[i].at = "idle" /\ (kills' = 0 => reassigned' = {})
    BY <1>1, <2>1 DEF RequestHolds
  <2>3. /\ request'[i].at \in PatternResets => reassigned' = {}
        /\ request'[i].at = "reassigning" /\ kills' = 0 => request'[i].id \in rules'[i]
    BY <1>1, <1>2, <2>1 DEF RequestHolds, PatternResets
  <2> QED BY <2>2, <2>3 DEF RequestHolds
<1>4. ASSUME NEW p \in Patterns
      PROVE  /\ RowsAreThere(p)' /\ MemoryIsDue(i, p)'
             /\ EndOfReset(i, p)' /\ RuleHolds(i, p)'
  <2>1. RowsAreThere(p) /\ MemoryIsDue(i, p) /\ EndOfReset(i, p) /\ RuleHolds(i, p)
    BY DEF ReassignInv
  <2>2. /\ root'[p].reset = root[p].reset /\ root'[p].there = root[p].there
        /\ \/ root'[p].service = root[p].service
           \/ root[p].there /\ root'[p].service = "reassigned"
    <3> DEFINE v == IF root[q].there THEN "reassigned" ELSE root[q].service
    <3>1. root' = root \/ root' = [root EXCEPT ![q].service = v]
      BY DEF Reassign
    <3>2. v = IF root[q].there THEN "reassigned" ELSE root[q].service
      OBVIOUS
    <3> HIDE DEF v
    <3>3. CASE root' = [root EXCEPT ![q].service = v]
      BY <3>2, <3>3, ServiceWrite, ColumnWrite
    <3> QED BY <3>1, <3>3
  <2>3. RowsAreThere(p)' /\ (InRow(p) => InRow(p)')
    BY <2>1, <2>2 DEF RowsAreThere, InRow
  <2>4. ChosenCount(i, p)' = ChosenCount(i, p)
    BY <1>1, <2>2 DEF ChosenCount
  <2>5. InMemory(i, p)' <=> InMemory(i, p)
    BY <1>1 DEF InMemory
  <2>6. MemoryIsDue(i, p)'
    BY <1>1, <2>1, <2>3, <2>4, <2>5 DEF MemoryIsDue
  <2>7. request'[i].at = "patterns reset" => request[i].at = "patterns reset"
    BY <1>2
  <2>8. EndOfReset(i, p)'
    BY <1>1, <2>1, <2>3, <2>4, <2>5, <2>7 DEF EndOfReset
  <2>9. RuleHolds(i, p)'
    BY <1>1, <2>1, <2>3 DEF RuleHolds
  <2> QED BY <2>3, <2>6, <2>8, <2>9
<1> QED BY <1>3, <1>4 DEF ReassignInv, OneReplica

\* The second half: the memory, where the pattern is in it.
LEMMA MemoryReassign ==
  ASSUME Parts, ReassignInv, OneReplica, NEW i \in Instances, ReassignMemory(i)
  PROVE  ReassignInv'
<1> USE DEF Parts, MemoryOK, DatabaseOK, ControlOK
<1> DEFINE q == request[i].id
<1>1. /\ UNCHANGED <<root, row, legacy, rules, ruleBlob, kills, up>>
      /\ request[i].at = "reassigning" /\ up[i]
      /\ request'[i].at = "idle"
  BY DEF ReassignMemory, RequestDone, Idle, database, bounds
<1>2. q \in Patterns /\ RequestHolds(i)
  BY <1>1, RequestAt DEF ReassignInv
<1>3. RequestHolds(i)'
  BY <1>1, <1>2 DEF RequestHolds, PatternResets
<1>4. dirty[i] => dirty'[i]
  BY DEF ReassignMemory
<1>5. ASSUME NEW p \in Patterns, p # q
      PROVE  /\ patterns'[i][p] = patterns[i][p]
             /\ p \in reassigned' => p \in reassigned
  BY <1>2, <1>5 DEF ReassignMemory
<1>6. /\ patterns'[i][q].count = patterns[i][q].count
      /\ patterns[i][q].count > 0 =>
           /\ patterns'[i][q].service = "reassigned"
           /\ dirty'[i] \/ patterns[i][q].service = "reassigned"
      /\ ~(patterns[i][q].count > 0) => patterns'[i][q] = patterns[i][q]
      /\ q \in reassigned' =>
           \/ q \in reassigned \/ patterns[i][q].count > 0
           \/ root[q].service = "reassigned"
  <2>1. patterns[i][q] \in Pattern
    BY <1>2
  <2> HIDE DEF q
  <2>2. CASE patterns[i][q].count > 0
    <3>1. /\ patterns' = [patterns EXCEPT ![i][q].service = "reassigned"]
          /\ dirty' = [dirty EXCEPT ![i] = @ \/ patterns[i][q].service # "reassigned"]
      BY <2>2 DEF ReassignMemory, q
    <3>2. patterns'[i][q] = [patterns[i][q] EXCEPT !.service = "reassigned"]
      BY <1>2, <3>1
    <3>3. /\ patterns'[i][q].count = patterns[i][q].count
          /\ patterns'[i][q].service = "reassigned"
      BY <2>1, <3>2 DEF Pattern
    <3>4. dirty'[i] \/ patterns[i][q].service = "reassigned"
      BY <3>1
    <3> QED BY <2>2, <3>3, <3>4
  <2>3. CASE ~(patterns[i][q].count > 0)
    <3>1. patterns' = patterns
      BY <2>3 DEF ReassignMemory, q
    <3>2. q \in reassigned' => q \in reassigned \/ root[q].service = "reassigned"
      BY <2>3 DEF ReassignMemory, q
    <3> QED BY <2>3, <3>1, <3>2
  <2> QED BY <2>2, <2>3
<1>7. ASSUME NEW p \in Patterns
      PROVE  /\ RowsAreThere(p)' /\ MemoryIsDue(i, p)'
             /\ EndOfReset(i, p)' /\ RuleHolds(i, p)'
  <2>1. RowsAreThere(p) /\ MemoryIsDue(i, p) /\ RuleHolds(i, p)
    BY DEF ReassignInv
  <2>2. RowsAreThere(p)' /\ EndOfReset(i, p)' /\ (InRow(p)' <=> InRow(p))
    BY <1>1, <2>1 DEF RowsAreThere, EndOfReset, InRow
  <2>3. ChosenCount(i, p)' = ChosenCount(i, p)
    BY <1>1 DEF ChosenCount
  <2>4. CASE p # q
    BY <1>1, <1>4, <1>5, <2>1, <2>2, <2>3, <2>4
       DEF MemoryIsDue, InMemory, RuleHolds
  <2>5. CASE p = q
    <3> HIDE DEF q
    <3>1. MemoryIsDue(i, p)'
      BY <1>4, <1>6, <2>1, <2>2, <2>3, <2>5 DEF MemoryIsDue, InMemory
    <3>2. RuleHolds(i, p)'
      <4> SUFFICES ASSUME kills = 0, p \in reassigned'
                   PROVE  /\ p \in rules[i]
                          /\ patterns'[i][p].count > 0 => patterns'[i][p].service = "reassigned"
                          /\ InRow(p) \/ patterns'[i][p].count > 0
        BY <1>1, <2>2 DEF RuleHolds
      <4>1. p \in rules[i]
        BY <1>1, <1>2, <2>5 DEF RequestHolds, q
      <4>2. patterns'[i][p].count > 0 => patterns'[i][p].service = "reassigned"
        BY <1>6, <2>5
      <4>3. root[p].service = "reassigned" => InRow(p)
        BY <2>1 DEF RowsAreThere, InRow
      <4>4. InRow(p) \/ patterns[i][p].count > 0
        BY <1>6, <2>1, <2>5, <4>3 DEF RuleHolds
      <4> QED BY <1>6, <2>5, <4>1, <4>2, <4>4
    <3> QED BY <2>2, <3>1, <3>2
  <2> QED BY <2>2, <2>4, <2>5
<1> QED BY <1>3, <1>7 DEF ReassignInv, OneReplica


LEMMA ClearReassign ==
  ASSUME Parts, ReassignInv, OneReplica, NEW i \in Instances, ResetPatterns(i)
  PROVE  ReassignInv'
<1> USE DEF Parts, MemoryOK, DatabaseOK, ControlOK
<1>1. /\ UNCHANGED <<root, row, legacy, rules, ruleBlob, kills, up>>
      /\ reassigned' = {} /\ up[i]
      /\ request'[i].at = "patterns cleared"
      /\ \A p \in Patterns : patterns'[i][p].count = 0
  <2>1. \A p \in Patterns : patterns'[i][p] = NoPattern
    BY DEF ResetPatterns
  <2>2. NoPattern.count = 0
    BY DEF NoPattern
  <2> QED BY <2>1, <2>2 DEF ResetPatterns, Edit, RequestTo, database
<1>2. RequestHolds(i)'
  BY <1>1 DEF ReassignInv, RequestHolds
<1>3. ASSUME NEW p \in Patterns
      PROVE  /\ RowsAreThere(p)' /\ MemoryIsDue(i, p)'
             /\ EndOfReset(i, p)' /\ RuleHolds(i, p)'
  <2>1. RowsAreThere(p)'
    BY <1>1 DEF ReassignInv, RowsAreThere
  <2>2. ~InMemory(i, p)'
    <3>1. patterns'[i][p].count = 0
      BY <1>1
    <3> QED BY <3>1 DEF InMemory
  <2> QED BY <1>1, <2>1, <2>2 DEF MemoryIsDue, EndOfReset, RuleHolds
<1> QED BY <1>2, <1>3 DEF ReassignInv, OneReplica

LEMMA RowsReassign ==
  ASSUME Parts, ReassignInv, OneReplica, NEW i \in Instances, ResetPatternRows(i)
  PROVE  ReassignInv'
<1> USE DEF Parts, MemoryOK, DatabaseOK, ControlOK
<1>1. /\ UNCHANGED <<patterns, dirty, legacy, rules, ruleBlob, reassigned, kills, up>>
      /\ request[i].at = "patterns cleared" /\ up[i]
  BY DEF ResetPatternRows, learning
<1>2. CASE UNCHANGED <<root, row>> /\ RequestDone(i)
  <2>1. request'[i].at = "idle"
    BY <1>2 DEF RequestDone, Idle
  <2> QED BY <1>1, <1>2, <2>1, MildStep DEF Mild, PatternResets
<1>3. CASE /\ root' = [p \in Patterns |-> ResetRoot(p)]
           /\ row' = [j \in Instances |-> [p \in Patterns |-> 0]]
           /\ RequestTo(i, "patterns reset", NoId)
  <2>1. request'[i].at = "patterns reset" /\ reassigned = {}
    BY <1>1, <1>3 DEF RequestTo, ReassignInv, RequestHolds, PatternResets
  <2>2. RequestHolds(i)'
    BY <1>1, <2>1 DEF ReassignInv, RequestHolds
  <2>3. ASSUME NEW p \in Patterns
        PROVE  /\ RowsAreThere(p)' /\ MemoryIsDue(i, p)'
               /\ EndOfReset(i, p)' /\ RuleHolds(i, p)'
    <3>1. RowsAreThere(p)' /\ (legacy[p].there => root'[p].reset)
      BY <1>3 DEF RowsAreThere, ResetRoot, NoRoot
    <3>2. ChosenCount(i, p)' = 0
      BY <1>1, <1>3, <3>1 DEF ChosenCount
    <3>3. patterns[i][p].count \in Nat
      BY Counts
    <3>4. InMemory(i, p)' => patterns'[i][p].count > 0
      BY DEF InMemory
    <3>5. patterns'[i][p].count \in Nat
      BY <1>1, <3>3
    <3>6. MemoryIsDue(i, p)'
      BY <3>2, <3>4, <3>5 DEF MemoryIsDue
    <3>7. EndOfReset(i, p)'
      <4>1. 0 <= patterns'[i][p].count
        BY <3>5
      <4>2. InMemory(i, p)' => 0 < patterns'[i][p].count
        BY <3>4, <3>5
      <4> QED BY <3>2, <4>1, <4>2 DEF EndOfReset
    <3> QED BY <1>1, <2>1, <3>1, <3>6, <3>7 DEF RuleHolds
  <2> QED BY <2>2, <2>3 DEF ReassignInv, OneReplica
<1> QED BY <1>2, <1>3 DEF ResetPatternRows

\* The flag is cleared, whatever the worker has learned in the meantime.
LEMMA FinishReassign ==
  ASSUME Parts, ReassignInv, OneReplica, NEW i \in Instances, FinishResetPatterns(i)
  PROVE  ReassignInv'
<1> USE DEF Parts, MemoryOK, DatabaseOK, ControlOK
<1>1. /\ UNCHANGED <<patterns, root, row, legacy, rules, ruleBlob, reassigned, kills, up>>
      /\ request[i].at = "patterns reset" /\ up[i] /\ request'[i].at = "idle"
  BY DEF FinishResetPatterns, RequestDone, Idle, database, bounds, history
<1>2. RequestHolds(i)'
  BY <1>1 DEF ReassignInv, RequestHolds, PatternResets
<1>3. ASSUME NEW p \in Patterns
      PROVE  /\ RowsAreThere(p)' /\ MemoryIsDue(i, p)'
             /\ EndOfReset(i, p)' /\ RuleHolds(i, p)'
  <2>1. RowsAreThere(p) /\ EndOfReset(i, p) /\ RuleHolds(i, p)
    BY DEF ReassignInv
  <2>2. ChosenCount(i, p)' = ChosenCount(i, p)
    BY <1>1 DEF ChosenCount
  <2>3. RowsAreThere(p)' /\ EndOfReset(i, p)' /\ (InRow(p)' <=> InRow(p))
    BY <1>1, <2>1 DEF RowsAreThere, EndOfReset, InRow
  <2>4. patterns[i][p].count \in Nat /\ ChosenCount(i, p) \in Nat
    BY Counts
  <2>5. InMemory(i, p) => InRow(p) \/ ChosenCount(i, p) < patterns[i][p].count
    BY <1>1, <2>1 DEF EndOfReset
  <2>6. InMemory(i, p)' <=> InMemory(i, p)
    BY <1>1 DEF InMemory
  <2>7. InMemory(i, p) => InRow(p) \/ patterns[i][p].count # ChosenCount(i, p)
    BY <2>4, <2>5
  <2>8. MemoryIsDue(i, p)'
    BY <1>1, <2>2, <2>3, <2>6, <2>7 DEF MemoryIsDue
  <2>9. RuleHolds(i, p)'
    BY <1>1, <2>1, <2>3 DEF RuleHolds
  <2> QED BY <2>3, <2>8, <2>9
<1> QED BY <1>2, <1>3 DEF ReassignInv, OneReplica

LEMMA ReassignNext ==
  ASSUME OneReplica, "reset_services" \notin Edits, Parts, ResetsAreEdits,
         ReassignInv, [Next]_vars
  PROVE  ReassignInv'
<1>1. CASE Instances = {}
  BY <1>1 DEF ReassignInv
<1>2. ASSUME NEW i \in Instances, UNCHANGED vars \/ GraceElapses
      PROVE  ReassignInv'
  BY <1>2, MildWorker, MildStep
<1>3. ASSUME NEW i \in Instances, Start(i) \/ Sightings(i) \/ PromotionSteps(i)
      PROVE  ReassignInv'
  <2>1. CASE PromotionSteps(i) \/ \E s \in Services : RegisterService(i, s)
    BY <2>1, MildWorker, MildStep
  <2> QED BY <1>3, <2>1, StartReassign, UpsertReassign DEF Sightings
<1>4. ASSUME NEW i \in Instances, Persist(i) \/ Shutdown(i) \/ Kill(i)
      PROVE  ReassignInv'
  BY <1>4, PersistReassign, EndReassign
<1>5. ASSUME NEW i \in Instances, Requests(i)
      PROVE  ReassignInv'
  <2>1. ~ResetServices(i)
    BY DEF ResetServices, Edit
  <2>2. CASE \/ \E p \in Patterns : \/ \E verdict \in Verdicts : Label(i, p, verdict)
                                    \/ Delete(i, p)
             \/ \E s \in Services :
                  \/ CreateService(i, s) \/ DeleteService(i, s)
                  \/ \E t \in Services \ {s} : RenameService(i, s, t)
                  \/ \E kind \in {"end_grace", "restart_grace"} : ControlGrace(i, s, kind)
    BY <2>2, MildRequest, MildStep
  <2>3. CASE \E p \in Patterns : Reassign(i, p)
    BY <2>3, RuleReassign
  <2>4. CASE ResetPatterns(i)
    BY <2>4, ClearReassign
  <2> QED BY <1>5, <2>1, <2>2, <2>3, <2>4 DEF Requests
<1>6. ASSUME NEW i \in Instances, RequestSteps(i)
      PROVE  ReassignInv'
  <2>1. ~ResetServiceRows(i) /\ ~FinishResetServices(i)
    BY DEF ResetServiceRows, FinishResetServices, ResetsAreEdits, ServiceResets
  <2>2. CASE ControlGraceMemory(i)
    BY <2>2, MildRequest, MildStep
  <2> QED
    BY <1>6, <2>1, <2>2, MemoryReassign, RowsReassign, FinishReassign DEF RequestSteps
<1> QED BY <1>1, <1>2, <1>3, <1>4, <1>5, <1>6 DEF Next

(* On one replica, and where no reset of the services drops the flag they
   share, nothing undoes a reassignment while the process lives. *)
THEOREM ReassignSticksAlways ==
  ASSUME OneReplica, "reset_services" \notin Edits
  PROVE  Spec => []ReassignSticks
<1>1. Init => ReassignInv
  <2> SUFFICES ASSUME Init PROVE ReassignInv
    OBVIOUS
  <2>1. ASSUME NEW j \in Instances PROVE RequestHolds(j)
    <3>1. request[j].at = "idle" /\ rules[j] = {} /\ reassigned = {}
      BY DEF Init, Idle
    <3> QED BY <3>1 DEF RequestHolds, PatternResets
  <2>2. ASSUME NEW j \in Instances, NEW q \in Patterns
        PROVE  /\ RowsAreThere(q) /\ MemoryIsDue(j, q)
               /\ EndOfReset(j, q) /\ RuleHolds(j, q)
    <3>1. /\ request[j].at = "idle" /\ reassigned = {}
          /\ root[q] = NoRoot /\ patterns[j][q] = NoPattern
      BY DEF Init, Idle
    <3>2. NoRoot.service = "" /\ ~NoRoot.reset /\ NoPattern.count = 0
      BY DEF NoRoot, NoPattern
    <3>3. RowsAreThere(q)
      <4>1. root[q].service = "" /\ ~root[q].reset
        BY <3>1, <3>2
      <4> QED BY <4>1 DEF RowsAreThere
    <3>4. ~InMemory(j, q)
      <4>1. patterns[j][q].count = 0
        BY <3>1, <3>2
      <4> QED BY <4>1 DEF InMemory
    <3> QED BY <3>1, <3>3, <3>4 DEF MemoryIsDue, EndOfReset, RuleHolds
  <2> QED BY <2>1, <2>2 DEF ReassignInv
<1>2. Parts /\ ResetsAreEdits /\ ReassignInv /\ [Next]_vars => ReassignInv'
  BY ReassignNext
<1>3. Parts /\ ReassignInv => ReassignSticks
  <2> SUFFICES ASSUME Parts, ReassignInv, kills = 0, NEW p \in reassigned,
                      FlagTellsTruth(p), ~InRow(p)
               PROVE  \E i \in Instances :
                         up[i] /\ dirty[i] /\ patterns[i][p].service = "reassigned"
    BY DEF ReassignSticks, InRow
  <2>1. p \in Patterns
    BY DEF Parts, HistoryOK
  <2>2. PICK i \in Instances : TRUE
    BY DEF OneReplica
  <2>3. InMemory(i, p)
    BY <2>1 DEF ReassignInv, RuleHolds, InMemory
  <2>4. up[i]
    BY DEF ReassignInv, RequestHolds
  <2>5. dirty[i]
    BY <2>1, <2>3, <2>4 DEF ReassignInv, MemoryIsDue, FlagTellsTruth
  <2> QED BY <2>3, <2>4, <2>5 DEF InMemory
<1>4. Parts /\ ResetsAreEdits /\ [Next]_vars => ResetsAreEdits'
  BY RequestsNext
<1> QED
  BY <1>1, <1>2, <1>3, <1>4, RequestsInit, PartsAlways, PTL DEF Spec

=============================================================================
