------------------------ MODULE CatalogStoreProofs ------------------------
(***************************************************************************)
(* Proofs about CatalogStore, for any number of replicas, patterns and     *)
(* services and any bounds: type correctness, that tombstones, verdicts    *)
(* and the operator's services hold against every replica's persists, and  *)
(* that without resets the dirty flag tells the truth.                     *)
(***************************************************************************)
EXTENDS CatalogStore, TLAPS

-----------------------------------------------------------------------------
(* What the operators return *)

LEMMA Bounds ==
  /\ MaxCount \in Nat /\ MaxEdits \in Nat /\ MaxKills \in Nat
  /\ MaxFaults \in Nat /\ AutoPromoteAfter \in Nat \ {0}
BY CatalogAssumption DEF CatalogAssumption

LEMMA ZeroBounds ==
  /\ 0 \in 0..MaxCount /\ 0 \in 0..MaxEdits /\ 0 \in 0..MaxKills
  /\ 0 \in 0..MaxFaults
BY Bounds

LEMMA LegacyFields ==
  ASSUME NEW r \in LegacyRoots
  PROVE  /\ r.there \in BOOLEAN /\ r.verdict \in Verdicts
         /\ r.deleted \in BOOLEAN /\ r.count \in 0..MaxCount
<1>1. r \in [there : BOOLEAN, verdict : {"", "known"}, deleted : BOOLEAN,
             count : 0..MaxCount]
  BY CatalogAssumption, Zenon DEF CatalogAssumption
<1> QED
  BY <1>1 DEF Verdicts

LEMMA RootFields ==
  ASSUME NEW r \in RootRow
  PROVE  /\ r.there \in BOOLEAN /\ r.verdict \in Verdicts
         /\ r.deleted \in BOOLEAN /\ r.shadow \in BOOLEAN
         /\ r.reset \in BOOLEAN /\ r.service \in Attributions
BY DEF RootRow

LEMMA ChosenRootType ==
  ASSUME root \in [Patterns -> RootRow], legacy \in [Patterns -> LegacyRoots],
         NEW p \in Patterns
  PROVE  ChosenRoot(p) \in RootRow
<1>1. root[p] \in RootRow
  OBVIOUS
<1>2. /\ legacy[p].there \in BOOLEAN /\ legacy[p].verdict \in Verdicts
      /\ legacy[p].deleted \in BOOLEAN
  BY LegacyFields
<1> QED
  BY <1>1, <1>2
     DEF ChosenRoot, RootRow, NoRoot, Attributions

LEMMA ChosenCountType ==
  ASSUME row \in [Instances -> [Patterns -> 0..MaxCount]],
         legacy \in [Patterns -> LegacyRoots],
         NEW i \in Instances, NEW p \in Patterns
  PROVE  ChosenCount(i, p) \in 0..MaxCount
<1>1. row[i][p] \in 0..MaxCount
  OBVIOUS
<1>2. legacy[p].count \in 0..MaxCount
  BY LegacyFields
<1> QED
  BY <1>1, <1>2, ZeroBounds DEF ChosenCount

LEMMA NoRecordTypes ==
  /\ NoPattern \in Pattern /\ NoService \in ServiceInfo
  /\ NoRoot \in RootRow /\ NoServiceRow \in ServiceRow
BY ZeroBounds
   DEF NoPattern, Pattern, NoService, ServiceInfo, NoRoot,
       RootRow, NoServiceRow, ServiceRow, Verdicts, Attributions, FirstSeens

LEMMA LoadType ==
  ASSUME root \in [Patterns -> RootRow],
         row \in [Instances -> [Patterns -> 0..MaxCount]],
         legacy \in [Patterns -> LegacyRoots],
         NEW i \in Instances, NEW p \in Patterns
  PROVE  Load(i, p) \in Pattern
<1> DEFINE r == ChosenRoot(p)
           n == ChosenCount(i, p)
           verdict == IF r.deleted THEN "known" ELSE r.verdict
<1>1. r.verdict \in Verdicts /\ r.service \in Attributions
  BY ChosenRootType, RootFields
<1>2. n \in 0..MaxCount
  BY ChosenCountType
<1>3. verdict \in Verdicts
  BY <1>1 DEF Verdicts
<1>4. [count |-> n, service |-> r.service, verdict |-> verdict] \in Pattern
  <2> HIDE DEF r, n, verdict
  <2> QED
    BY <1>1, <1>2, <1>3 DEF Pattern
<1>5. Load(i, p) = NoPattern
      \/ Load(i, p) =
           [count |-> n, service |-> r.service, verdict |-> verdict]
  BY DEF Load
<1> QED
  BY <1>4, <1>5, NoRecordTypes

LEMMA UpsertRootType ==
  ASSUME root \in [Patterns -> RootRow], legacy \in [Patterns -> LegacyRoots],
         NEW p \in Patterns, NEW service \in Attributions
  PROVE  UpsertRoot(p, service) \in RootRow
<1>1. ChosenRoot(p) \in RootRow /\ root[p] \in RootRow
  BY ChosenRootType
<1> QED
  BY <1>1 DEF UpsertRoot, RootRow

LEMMA UpsertServiceType ==
  ASSUME svc \in [Services -> ServiceRow], NEW s \in Services,
         NEW info \in ServiceInfo
  PROVE  UpsertService(s, info) \in ServiceRow
BY DEF UpsertService, ServiceRow, ServiceInfo, FirstSeens

-----------------------------------------------------------------------------
(* Type correctness *)

WorkerType ==
  [at : {"idle"}, id : {NoId}] \cup
  [at : {"learnt", "promoting", "curating", "caching"}, id : Patterns]

RequestType ==
  [at : {"idle", "patterns cleared", "patterns reset", "services cleared",
         "services reset"}, id : {NoId}] \cup
  [at : {"reassigning"}, id : Patterns] \cup
  [at : {"end_grace", "restart_grace"}, id : Services]

(* TypeOK by groups of variables, so that a step proves only the groups it
   writes. *)
MemoryOK ==
  /\ patterns \in [Instances -> [Patterns -> Pattern]]
  /\ services \in [Instances -> [Services -> ServiceInfo]]
  /\ dirty \in [Instances -> BOOLEAN] /\ up \in [Instances -> BOOLEAN]
  /\ marked \in [Instances -> SUBSET Patterns]
  /\ rules \in [Instances -> SUBSET Patterns] /\ ruleBlob \subseteq Patterns

ControlOK ==
  /\ worker \in [Instances -> WorkerType]
  /\ request \in [Instances -> RequestType]

DatabaseOK ==
  /\ root \in [Patterns -> RootRow]
  /\ row \in [Instances -> [Patterns -> 0..MaxCount]]
  /\ svc \in [Services -> ServiceRow]
  /\ legacy \in [Patterns -> LegacyRoots]

BoundsOK ==
  /\ edits \in 0..MaxEdits /\ kills \in 0..MaxKills /\ faults \in 0..MaxFaults

HistoryOK ==
  /\ since \in [Patterns -> Nat]
  /\ buried \subseteq Patterns /\ reassigned \subseteq Patterns
  /\ ended \in [Services -> {"no", "stored"}]
  /\ curated \in [Patterns -> {"none", "known", "cleared"}]
  /\ owned \in [Services -> {"none", "made", "gone"}]

Parts == MemoryOK /\ ControlOK /\ DatabaseOK /\ BoundsOK /\ HistoryOK

LEMMA TypeParts == TypeOK <=> Parts
BY DEF TypeOK, Parts, MemoryOK, ControlOK, DatabaseOK, BoundsOK, HistoryOK,
       WorkerType, RequestType

LEMMA PersistAllType ==
  ASSUME Parts, NEW i \in Instances, PersistAll(i)
  PROVE  /\ root' \in [Patterns -> RootRow]
         /\ row' \in [Instances -> [Patterns -> 0..MaxCount]]
         /\ svc' \in [Services -> ServiceRow]
<1>1. ASSUME NEW p \in Patterns
      PROVE  /\ patterns[i][p].count \in 0..MaxCount
             /\ patterns[i][p].service \in Attributions
  <2>1. patterns[i][p] \in Pattern
    BY DEF Parts, MemoryOK
  <2> QED
    BY <2>1 DEF Pattern
<1>2. root' \in [Patterns -> RootRow]
  <2>1. ASSUME NEW p \in Patterns
        PROVE  /\ root[p] \in RootRow
               /\ UpsertRoot(p, patterns[i][p].service) \in RootRow
    BY <1>1, UpsertRootType DEF Parts, DatabaseOK
  <2> QED
    BY <2>1 DEF PersistAll
<1>3. row' \in [Instances -> [Patterns -> 0..MaxCount]]
  BY <1>1 DEF Parts, DatabaseOK, PersistAll
<1>4. svc' \in [Services -> ServiceRow]
  <2>1. ASSUME NEW s \in Services
        PROVE  /\ svc[s] \in ServiceRow
               /\ UpsertService(s, services[i][s]) \in ServiceRow
    <3>1. services[i][s] \in ServiceInfo /\ svc \in [Services -> ServiceRow]
      BY DEF Parts, MemoryOK, DatabaseOK
    <3> QED
      BY <3>1, UpsertServiceType
  <2> QED
    BY <2>1 DEF PersistAll
<1> QED
  BY <1>2, <1>3, <1>4

LEMMA InitTypes == Init => Parts
<1> SUFFICES ASSUME Init PROVE Parts
  OBVIOUS
<1>1. MemoryOK
  BY NoRecordTypes DEF Init, MemoryOK
<1>2. ControlOK
  BY DEF Init, ControlOK, WorkerType, RequestType, Idle
<1>3. DatabaseOK
  BY NoRecordTypes, ZeroBounds DEF Init, DatabaseOK
<1>4. BoundsOK
  BY ZeroBounds DEF Init, BoundsOK
<1>5. HistoryOK
  <2>1. \A p \in Patterns : legacy[p].count \in 0..MaxCount
    BY LegacyFields DEF Init
  <2>2. \A p \in Patterns : legacy[p].count \in Nat
    BY <2>1, Bounds
  <2> QED
    BY <2>2 DEF Init, HistoryOK
<1> QED
  BY <1>1, <1>2, <1>3, <1>4, <1>5 DEF Parts

(* Where the worker and the request are tells what they are about. *)
LEMMA WorkerAt ==
  ASSUME ControlOK, NEW i \in Instances, worker[i].at # "idle"
  PROVE  worker[i].id \in Patterns
BY DEF ControlOK, WorkerType

LEMMA WorkerMoves ==
  ASSUME ControlOK, NEW i \in Instances,
         \/ worker' = [worker EXCEPT ![i] = Idle]
         \/ /\ worker[i].at # "idle"
            /\ \E at \in {"learnt", "promoting", "curating", "caching"} :
                  worker' = [worker EXCEPT ![i].at = at]
  PROVE  worker' \in [Instances -> WorkerType]
BY WorkerAt DEF ControlOK, WorkerType, Idle

LEMMA RequestAt ==
  ASSUME ControlOK, NEW i \in Instances
  PROVE  /\ request[i].at = "reassigning" => request[i].id \in Patterns
         /\ request[i].at \in {"end_grace", "restart_grace"}
              => request[i].id \in Services
BY DEF ControlOK, RequestType

LEMMA RequestEnds ==
  ASSUME ControlOK, NEW i \in Instances, RequestDone(i)
  PROVE  request' \in [Instances -> RequestType]
BY DEF ControlOK, RequestDone, RequestType, Idle

LEMMA RequestMoves ==
  ASSUME ControlOK, NEW i \in Instances, NEW at, NEW id,
         RequestTo(i, at, id), [at |-> at, id |-> id] \in RequestType
  PROVE  request' \in [Instances -> RequestType]
BY DEF ControlOK, RequestTo

LEMMA LoadServiceType ==
  ASSUME svc \in [Services -> ServiceRow], NEW s \in Services
  PROVE  LoadService(s) \in ServiceInfo
BY NoRecordTypes DEF LoadService, ServiceInfo, ServiceRow

-----------------------------------------------------------------------------
(* Every step keeps the types, one lemma per action. *)

LEMMA TypeStart ==
  ASSUME Parts, NEW i \in Instances, Start(i)
  PROVE  Parts'
<1> USE DEF Parts
<1>1. MemoryOK'
  <2>1. \A p \in Patterns : Load(i, p) \in Pattern
    BY LoadType DEF DatabaseOK
  <2>2. \A s \in Services : LoadService(s) \in ServiceInfo
    BY LoadServiceType DEF DatabaseOK
  <2> QED
    BY <2>1, <2>2 DEF Start, MemoryOK, bounds, history, database
<1>2. ControlOK'
  BY DEF Start, ControlOK
<1>3. DatabaseOK'
  BY DEF Start, DatabaseOK, database
<1>4. BoundsOK'
  BY DEF Start, BoundsOK, bounds
<1>5. HistoryOK'
  BY DEF Start, HistoryOK, history
<1> QED
  BY <1>1, <1>2, <1>3, <1>4, <1>5

LEMMA TypeUpsert ==
  ASSUME Parts, NEW i \in Instances, NEW p \in Patterns, Upsert(i, p)
  PROVE  Parts'
<1> USE DEF Parts
<1>1. MemoryOK'
  <2>1. patterns[i][p] \in Pattern
    BY DEF MemoryOK
  <2>2. [count |-> patterns[i][p].count + 1,
         verdict |-> patterns[i][p].verdict,
         service |-> Attribution(i, p)] \in Pattern
    <3> DEFINE n == patterns[i][p].count
    <3>1. n + 1 \in 0..MaxCount
      BY <2>1, Bounds DEF Upsert, Pattern
    <3>2. Attribution(i, p) \in Attributions
      BY DEF Attribution, Attributions
    <3> QED
      BY <2>1, <3>1, <3>2 DEF Pattern
  <2> QED
    BY <2>2 DEF Upsert, MemoryOK, bounds, database
<1>2. ControlOK'
  BY DEF Upsert, ControlOK, WorkerType
<1>3. DatabaseOK'
  BY DEF Upsert, DatabaseOK, database
<1>4. BoundsOK'
  BY DEF Upsert, BoundsOK, bounds
<1>5. HistoryOK'
  BY DEF Upsert, HistoryOK
<1> QED
  BY <1>1, <1>2, <1>3, <1>4, <1>5

LEMMA TypePromote ==
  ASSUME Parts, NEW i \in Instances, Promote(i)
  PROVE  Parts'
<1> USE DEF Parts
<1>1. MemoryOK'
  BY DEF Promote, MemoryOK
<1>2. ControlOK'
  BY WorkerMoves DEF Promote, ControlOK, WorkerTo, WorkerDone
<1>3. DatabaseOK'
  BY DEF Promote, DatabaseOK, database
<1>4. BoundsOK'
  BY DEF Promote, BoundsOK, bounds
<1>5. HistoryOK'
  BY DEF Promote, HistoryOK, history
<1> QED
  BY <1>1, <1>2, <1>3, <1>4, <1>5

LEMMA TypeMarkKnown ==
  ASSUME Parts, NEW i \in Instances, MarkKnown(i)
  PROVE  Parts'
<1> USE DEF Parts
<1>1. MemoryOK'
  <2>1. up[i] /\ worker[i].at = "promoting" /\ worker[i].id \in Patterns
    BY WorkerAt DEF MarkKnown
  <2> DEFINE p == worker[i].id
  <2>2. patterns[i][p] \in Pattern
    BY <2>1 DEF MemoryOK
  <2>3. [patterns[i][p] EXCEPT !.verdict = "known"] \in Pattern
    BY <2>2 DEF Pattern, Verdicts
  <2> QED
    BY <2>1, <2>3 DEF MarkKnown, MemoryOK, bounds, history, database
<1>2. ControlOK'
  BY WorkerMoves DEF MarkKnown, ControlOK, WorkerTo
<1>3. DatabaseOK'
  BY DEF MarkKnown, DatabaseOK, database
<1>4. BoundsOK'
  BY DEF MarkKnown, BoundsOK, bounds
<1>5. HistoryOK'
  BY DEF MarkKnown, HistoryOK, history
<1> QED
  BY <1>1, <1>2, <1>3, <1>4, <1>5

LEMMA TypeCurateMarkKnown ==
  ASSUME Parts, NEW i \in Instances, CurateMarkKnown(i)
  PROVE  Parts'
<1> USE DEF Parts
<1>1. MemoryOK'
  BY DEF CurateMarkKnown, MemoryOK
<1>2. ControlOK'
  BY WorkerMoves DEF CurateMarkKnown, ControlOK, WorkerTo, WorkerDone
<1>3. DatabaseOK'
  <2>1. worker[i].id \in Patterns
    BY WorkerAt DEF CurateMarkKnown
  <2>2. root[worker[i].id] \in RootRow
    BY <2>1 DEF DatabaseOK
  <2>3. KnownRoot(root[worker[i].id]) \in RootRow
    BY <2>2 DEF KnownRoot, RootRow, Verdicts
  <2> QED
    BY <2>1, <2>3 DEF CurateMarkKnown, DatabaseOK
<1>4. BoundsOK'
  <2>1. UNCHANGED edits
    BY DEF CurateMarkKnown, Fault, NoFault
  <2>2. UNCHANGED kills
    BY DEF CurateMarkKnown, Fault, NoFault
  <2>3. UNCHANGED faults \/ (faults < MaxFaults /\ faults' = faults + 1)
    BY DEF CurateMarkKnown, Fault, NoFault
  <2> QED
    BY <2>1, <2>2, <2>3, Bounds DEF BoundsOK
<1>5. HistoryOK'
  BY WorkerAt DEF CurateMarkKnown, HistoryOK
<1> QED
  BY <1>1, <1>2, <1>3, <1>4, <1>5

LEMMA TypeCacheMarked ==
  ASSUME Parts, NEW i \in Instances, CacheMarked(i)
  PROVE  Parts'
<1> USE DEF Parts
<1>1. MemoryOK'
  BY WorkerAt DEF CacheMarked, MemoryOK
<1>2. ControlOK'
  BY WorkerMoves DEF CacheMarked, ControlOK, WorkerDone
<1>3. DatabaseOK'
  BY DEF CacheMarked, DatabaseOK, database
<1>4. BoundsOK'
  BY DEF CacheMarked, BoundsOK, bounds
<1>5. HistoryOK'
  BY DEF CacheMarked, HistoryOK, history
<1> QED
  BY <1>1, <1>2, <1>3, <1>4, <1>5

LEMMA TypeRegisterService ==
  ASSUME Parts, NEW i \in Instances, NEW s \in Services, RegisterService(i, s)
  PROVE  Parts'
<1> USE DEF Parts
<1>1. MemoryOK'
  BY DEF RegisterService, MemoryOK, ServiceInfo, FirstSeens
<1>2. ControlOK'
  BY DEF RegisterService, ControlOK
<1>3. DatabaseOK'
  BY DEF RegisterService, DatabaseOK, database
<1>4. BoundsOK'
  BY DEF RegisterService, BoundsOK, bounds
<1>5. HistoryOK'
  BY DEF RegisterService, HistoryOK, history
<1> QED
  BY <1>1, <1>2, <1>3, <1>4, <1>5

LEMMA TypeGraceElapses ==
  ASSUME Parts, GraceElapses
  PROVE  Parts'
<1> USE DEF Parts
<1>1. MemoryOK'
  <2>1. ASSUME NEW i \in Instances, NEW s \in Services
        PROVE  [services[i][s] EXCEPT !.first = Aged(@)] \in ServiceInfo
    <3>1. services[i][s] \in ServiceInfo
      BY DEF MemoryOK
    <3> QED
      BY <3>1 DEF ServiceInfo, FirstSeens, Aged
  <2> QED
    BY <2>1 DEF GraceElapses, MemoryOK, learning, bounds, history
<1>2. ControlOK'
  BY DEF GraceElapses, ControlOK, learning
<1>3. DatabaseOK'
  BY DEF GraceElapses, DatabaseOK, ServiceRow, FirstSeens, Aged
<1>4. BoundsOK'
  BY DEF GraceElapses, BoundsOK, bounds
<1>5. HistoryOK'
  BY DEF GraceElapses, HistoryOK, history
<1> QED
  BY <1>1, <1>2, <1>3, <1>4, <1>5

LEMMA TypePersist ==
  ASSUME Parts, NEW i \in Instances, Persist(i)
  PROVE  Parts'
<1> USE DEF Parts
<1>1. MemoryOK'
  BY DEF Persist, MemoryOK
<1>2. ControlOK'
  BY DEF Persist, ControlOK
<1>3. DatabaseOK'
  <2>1. CASE PersistAll(i)
    BY <2>1, PersistAllType DEF Persist, DatabaseOK
  <2>2. CASE UNCHANGED database
    BY <2>2 DEF Persist, DatabaseOK, database
  <2> QED
    BY <2>1, <2>2 DEF Persist
<1>4. BoundsOK'
  <2>1. UNCHANGED edits
    BY DEF Persist, Fault, NoFault
  <2>2. UNCHANGED kills
    BY DEF Persist, Fault, NoFault
  <2>3. UNCHANGED faults \/ (faults < MaxFaults /\ faults' = faults + 1)
    BY DEF Persist, Fault, NoFault
  <2> QED
    BY <2>1, <2>2, <2>3, Bounds DEF BoundsOK
<1>5. HistoryOK'
  BY DEF Persist, HistoryOK, history
<1> QED
  BY <1>1, <1>2, <1>3, <1>4, <1>5

LEMMA TypeShutdown ==
  ASSUME Parts, NEW i \in Instances, Shutdown(i)
  PROVE  Parts'
<1> USE DEF Parts
<1>1. MemoryOK'
  BY NoRecordTypes DEF Shutdown, MemoryOK, Forget
<1>2. ControlOK'
  BY DEF Shutdown, ControlOK, Forget, WorkerType, RequestType, Idle
<1>3. DatabaseOK'
  <2>1. CASE PersistAll(i)
    BY <2>1, PersistAllType DEF Shutdown, DatabaseOK
  <2>2. CASE UNCHANGED database
    BY <2>2 DEF Shutdown, DatabaseOK, database
  <2> QED
    BY <2>1, <2>2 DEF Shutdown
<1>4. BoundsOK'
  <2>1. UNCHANGED edits
    BY DEF Shutdown, Fault, NoFault, Forget
  <2>2. kills < MaxKills /\ kills' = kills + 1
    BY DEF Shutdown, Fault, NoFault, Forget
  <2>3. UNCHANGED faults \/ (faults < MaxFaults /\ faults' = faults + 1)
    BY DEF Shutdown, Fault, NoFault, Forget
  <2> QED
    BY <2>1, <2>2, <2>3, Bounds DEF BoundsOK
<1>5. HistoryOK'
  BY DEF Shutdown, HistoryOK, history
<1> QED
  BY <1>1, <1>2, <1>3, <1>4, <1>5

LEMMA TypeKill ==
  ASSUME Parts, NEW i \in Instances, Kill(i)
  PROVE  Parts'
<1> USE DEF Parts
<1>1. MemoryOK'
  BY NoRecordTypes DEF Kill, MemoryOK, Forget
<1>2. ControlOK'
  BY DEF Kill, ControlOK, Forget, WorkerType, RequestType, Idle
<1>3. DatabaseOK'
  BY DEF Kill, DatabaseOK, database
<1>4. BoundsOK'
  <2>1. UNCHANGED edits
    BY DEF Kill, Forget
  <2>2. kills < MaxKills /\ kills' = kills + 1
    BY DEF Kill, Forget
  <2>3. UNCHANGED faults
    BY DEF Kill, Forget
  <2> QED
    BY <2>1, <2>2, <2>3, Bounds DEF BoundsOK
<1>5. HistoryOK'
  BY DEF Kill, HistoryOK, history
<1> QED
  BY <1>1, <1>2, <1>3, <1>4, <1>5

LEMMA TypeLabel ==
  ASSUME Parts, NEW i \in Instances, NEW p \in Patterns,
         NEW verdict \in Verdicts, Label(i, p, verdict)
  PROVE  Parts'
<1> USE DEF Parts
<1>1. MemoryOK'
  <2>1. marked' \in [Instances -> SUBSET Patterns]
    <3>1. marked \in [Instances -> SUBSET Patterns]
      BY DEF MemoryOK
    <3>2. \/ marked' = marked
          \/ marked' = [marked EXCEPT ![i] = marked[i] \ {p}]
          \/ marked' = [marked EXCEPT ![i] = marked[i]]
      BY DEF Label
    <3>3. marked[i] \ {p} \in SUBSET Patterns
      BY <3>1
    <3> QED
      BY <3>1, <3>2, <3>3
  <2>2. UNCHANGED <<patterns, services, dirty, up, rules, ruleBlob>>
    BY DEF Label, OneStatement
  <2> QED
    BY <2>1, <2>2 DEF MemoryOK
<1>2. ControlOK'
  <2>1. UNCHANGED <<worker, request>>
    BY DEF Label, OneStatement
  <2> QED
    BY <2>1 DEF ControlOK
<1>3. DatabaseOK'
  BY DEF Label, DatabaseOK, OneStatement, RootRow
<1>4. BoundsOK'
  <2>1. edits < MaxEdits /\ edits' = edits + 1
    BY DEF Label, OneStatement, Edit, Fault, NoFault
  <2>2. UNCHANGED kills
    BY DEF Label, OneStatement, Edit, Fault, NoFault
  <2>3. UNCHANGED faults \/ (faults < MaxFaults /\ faults' = faults + 1)
    BY DEF Label, OneStatement, Edit, Fault, NoFault
  <2> QED
    BY <2>1, <2>2, <2>3, Bounds DEF BoundsOK
<1>5. HistoryOK'
  BY DEF Label, HistoryOK, OneStatement
<1> QED
  BY <1>1, <1>2, <1>3, <1>4, <1>5

LEMMA TypeDelete ==
  ASSUME Parts, NEW i \in Instances, NEW p \in Patterns, Delete(i, p)
  PROVE  Parts'
<1> USE DEF Parts
<1>1. MemoryOK'
  BY DEF Delete, MemoryOK, OneStatement
<1>2. ControlOK'
  <2>1. UNCHANGED <<worker, request>>
    BY DEF Delete, OneStatement
  <2> QED
    BY <2>1 DEF ControlOK
<1>3. DatabaseOK'
  <2>1. root[p] \in RootRow
    BY DEF DatabaseOK
  <2>2. Tombstone(root[p]) \in RootRow
    BY <2>1 DEF Tombstone, RootRow
  <2>3. root' = root \/ root' = [root EXCEPT ![p] = Tombstone(@)]
    BY DEF Delete
  <2> QED
    BY <2>2, <2>3 DEF Delete, DatabaseOK, OneStatement
<1>4. BoundsOK'
  <2>1. edits < MaxEdits /\ edits' = edits + 1
    BY DEF Delete, OneStatement, Edit, Fault, NoFault
  <2>2. UNCHANGED kills
    BY DEF Delete, OneStatement, Edit, Fault, NoFault
  <2>3. UNCHANGED faults \/ (faults < MaxFaults /\ faults' = faults + 1)
    BY DEF Delete, OneStatement, Edit, Fault, NoFault
  <2> QED
    BY <2>1, <2>2, <2>3, Bounds DEF BoundsOK
<1>5. HistoryOK'
  BY DEF Delete, HistoryOK, OneStatement
<1> QED
  BY <1>1, <1>2, <1>3, <1>4, <1>5

LEMMA TypeReassign ==
  ASSUME Parts, NEW i \in Instances, NEW p \in Patterns, Reassign(i, p)
  PROVE  Parts'
<1> USE DEF Parts
<1>1. MemoryOK'
  BY DEF Reassign, MemoryOK, learning
<1>2. ControlOK'
  <2>1. CASE RequestTo(i, "reassigning", p)
    BY <2>1, RequestMoves DEF Reassign, ControlOK, RequestType, learning
  <2>2. CASE UNCHANGED request
    BY <2>2 DEF Reassign, ControlOK, learning
  <2> QED
    BY <2>1, <2>2 DEF Reassign
<1>3. DatabaseOK'
  <2>1. root[p] \in RootRow
    BY DEF DatabaseOK
  <2>2. \A a \in Attributions : [root[p] EXCEPT !.service = a] \in RootRow
    BY <2>1 DEF RootRow
  <2>3. PICK a \in Attributions :
          root' = root \/ root' = [root EXCEPT ![p].service = a]
    BY <2>1 DEF Reassign, RootRow, Attributions
  <2> QED
    BY <2>2, <2>3 DEF Reassign, DatabaseOK
<1>4. BoundsOK'
  <2>1. edits < MaxEdits /\ edits' = edits + 1
    BY DEF Reassign, Edit, Fault, NoFault
  <2>2. UNCHANGED kills
    BY DEF Reassign, Edit, Fault, NoFault
  <2>3. UNCHANGED faults \/ (faults < MaxFaults /\ faults' = faults + 1)
    BY DEF Reassign, Edit, Fault, NoFault
  <2> QED
    BY <2>1, <2>2, <2>3, Bounds DEF BoundsOK
<1>5. HistoryOK'
  BY DEF Reassign, HistoryOK, history
<1> QED
  BY <1>1, <1>2, <1>3, <1>4, <1>5

LEMMA TypeReassignMemory ==
  ASSUME Parts, NEW i \in Instances, ReassignMemory(i)
  PROVE  Parts'
<1> USE DEF Parts
<1>1. MemoryOK'
  <2>1. request[i].id \in Patterns
    BY RequestAt DEF ReassignMemory
  <2> DEFINE p == request[i].id
  <2>2. patterns[i][p] \in Pattern
    BY <2>1 DEF MemoryOK
  <2>3. [patterns[i][p] EXCEPT !.service = "reassigned"] \in Pattern
    BY <2>2 DEF Pattern, Attributions
  <2>4. \/ patterns' = [patterns EXCEPT ![i][p].service = "reassigned"]
        \/ patterns' = patterns
    BY DEF ReassignMemory
  <2>5. patterns' \in [Instances -> [Patterns -> Pattern]]
    <3>1. [patterns EXCEPT ![i][p].service = "reassigned"]
            \in [Instances -> [Patterns -> Pattern]]
      BY <2>1, <2>3 DEF MemoryOK
    <3> QED
      BY <2>4, <3>1 DEF MemoryOK
  <2>6. dirty' \in [Instances -> BOOLEAN]
    BY DEF ReassignMemory, MemoryOK
  <2> QED
    BY <2>5, <2>6 DEF ReassignMemory, MemoryOK, bounds, database
<1>2. ControlOK'
  BY RequestEnds DEF ReassignMemory, ControlOK
<1>3. DatabaseOK'
  BY DEF ReassignMemory, DatabaseOK, database
<1>4. BoundsOK'
  BY DEF ReassignMemory, BoundsOK, bounds
<1>5. HistoryOK'
  BY RequestAt DEF ReassignMemory, HistoryOK
<1> QED
  BY <1>1, <1>2, <1>3, <1>4, <1>5

LEMMA TypeResetPatterns ==
  ASSUME Parts, NEW i \in Instances, ResetPatterns(i)
  PROVE  Parts'
<1> USE DEF Parts
<1>1. MemoryOK'
  BY NoRecordTypes DEF ResetPatterns, MemoryOK
<1>2. ControlOK'
  BY DEF ResetPatterns, ControlOK, RequestTo, RequestType
<1>3. DatabaseOK'
  BY DEF ResetPatterns, DatabaseOK, database
<1>4. BoundsOK'
  <2>1. edits < MaxEdits /\ edits' = edits + 1
    BY DEF ResetPatterns, Edit
  <2>2. UNCHANGED kills
    BY DEF ResetPatterns, Edit
  <2>3. UNCHANGED faults
    BY DEF ResetPatterns, Edit
  <2> QED
    BY <2>1, <2>2, <2>3, Bounds DEF BoundsOK
<1>5. HistoryOK'
  BY DEF ResetPatterns, HistoryOK, history
<1> QED
  BY <1>1, <1>2, <1>3, <1>4, <1>5

LEMMA TypeResetPatternRows ==
  ASSUME Parts, NEW i \in Instances, ResetPatternRows(i)
  PROVE  Parts'
<1> USE DEF Parts
<1>1. MemoryOK'
  BY DEF ResetPatternRows, MemoryOK, learning
<1>2. ControlOK'
  <2>1. CASE RequestTo(i, "patterns reset", NoId)
    BY <2>1, RequestMoves DEF ResetPatternRows, ControlOK, RequestType,
                              learning
  <2>2. CASE RequestDone(i)
    BY <2>2, RequestEnds DEF ResetPatternRows, ControlOK, learning
  <2> QED
    BY <2>1, <2>2 DEF ResetPatternRows
<1>3. DatabaseOK'
  <2>1. \A p \in Patterns : ResetRoot(p) \in RootRow
    BY NoRecordTypes DEF ResetRoot, RootRow, NoRoot, Verdicts, Attributions
  <2> QED
    <3>1. CASE UNCHANGED <<root, row>>
      BY <3>1 DEF ResetPatternRows, DatabaseOK
    <3>2. CASE /\ root' = [p \in Patterns |-> ResetRoot(p)]
               /\ row' = [j \in Instances |-> [p \in Patterns |-> 0]]
      BY <2>1, <3>2, ZeroBounds DEF ResetPatternRows, DatabaseOK
    <3> QED
      BY <3>1, <3>2 DEF ResetPatternRows
<1>4. BoundsOK'
  <2>1. UNCHANGED edits
    BY DEF ResetPatternRows, Fault, NoFault
  <2>2. UNCHANGED kills
    BY DEF ResetPatternRows, Fault, NoFault
  <2>3. UNCHANGED faults \/ (faults < MaxFaults /\ faults' = faults + 1)
    BY DEF ResetPatternRows, Fault, NoFault
  <2> QED
    BY <2>1, <2>2, <2>3, Bounds DEF BoundsOK
<1>5. HistoryOK'
  <2>1. \A p \in Patterns : patterns[i][p] \in Pattern
    BY DEF MemoryOK
  <2>2. \A p \in Patterns : patterns[i][p].count \in Nat
    BY <2>1, Bounds DEF Pattern
  <2> QED
    <3>1. CASE UNCHANGED <<since, buried, curated>>
      BY <3>1 DEF ResetPatternRows, HistoryOK
    <3>2. CASE /\ since' = [p \in Patterns |-> patterns[i][p].count]
               /\ buried' = {}
               /\ curated' = [p \in Patterns |-> "none"]
      BY <2>2, <3>2 DEF ResetPatternRows, HistoryOK
    <3> QED
      BY <3>1, <3>2 DEF ResetPatternRows
<1> QED
  BY <1>1, <1>2, <1>3, <1>4, <1>5

LEMMA TypeFinishResetPatterns ==
  ASSUME Parts, NEW i \in Instances, FinishResetPatterns(i)
  PROVE  Parts'
<1> USE DEF Parts
<1>1. MemoryOK'
  BY DEF FinishResetPatterns, MemoryOK
<1>2. ControlOK'
  BY RequestEnds DEF FinishResetPatterns, ControlOK
<1>3. DatabaseOK'
  BY DEF FinishResetPatterns, DatabaseOK, database
<1>4. BoundsOK'
  BY DEF FinishResetPatterns, BoundsOK, bounds
<1>5. HistoryOK'
  BY DEF FinishResetPatterns, HistoryOK, history
<1> QED
  BY <1>1, <1>2, <1>3, <1>4, <1>5

LEMMA TypeResetServices ==
  ASSUME Parts, NEW i \in Instances, ResetServices(i)
  PROVE  Parts'
<1> USE DEF Parts
<1>1. MemoryOK'
  BY NoRecordTypes DEF ResetServices, MemoryOK
<1>2. ControlOK'
  BY DEF ResetServices, ControlOK, RequestTo, RequestType
<1>3. DatabaseOK'
  BY DEF ResetServices, DatabaseOK, database
<1>4. BoundsOK'
  <2>1. edits < MaxEdits /\ edits' = edits + 1
    BY DEF ResetServices, Edit
  <2>2. UNCHANGED kills
    BY DEF ResetServices, Edit
  <2>3. UNCHANGED faults
    BY DEF ResetServices, Edit
  <2> QED
    BY <2>1, <2>2, <2>3, Bounds DEF BoundsOK
<1>5. HistoryOK'
  BY DEF ResetServices, HistoryOK, history
<1> QED
  BY <1>1, <1>2, <1>3, <1>4, <1>5

LEMMA TypeResetServiceRows ==
  ASSUME Parts, NEW i \in Instances, ResetServiceRows(i)
  PROVE  Parts'
<1> USE DEF Parts
<1>1. MemoryOK'
  BY DEF ResetServiceRows, MemoryOK, learning
<1>2. ControlOK'
  <2>1. CASE RequestTo(i, "services reset", NoId)
    BY <2>1, RequestMoves DEF ResetServiceRows, ControlOK, RequestType,
                              learning
  <2>2. CASE RequestDone(i)
    BY <2>2, RequestEnds DEF ResetServiceRows, ControlOK, learning
  <2> QED
    BY <2>1, <2>2 DEF ResetServiceRows
<1>3. DatabaseOK'
  BY NoRecordTypes DEF ResetServiceRows, DatabaseOK
<1>4. BoundsOK'
  <2>1. UNCHANGED edits
    BY DEF ResetServiceRows, Fault, NoFault
  <2>2. UNCHANGED kills
    BY DEF ResetServiceRows, Fault, NoFault
  <2>3. UNCHANGED faults \/ (faults < MaxFaults /\ faults' = faults + 1)
    BY DEF ResetServiceRows, Fault, NoFault
  <2> QED
    BY <2>1, <2>2, <2>3, Bounds DEF BoundsOK
<1>5. HistoryOK'
  <2>1. CASE UNCHANGED <<owned, ended>>
    BY <2>1 DEF ResetServiceRows, HistoryOK
  <2>2. CASE /\ owned' = [s \in Services |-> "none"]
             /\ ended' = [s \in Services |-> "no"]
    BY <2>2 DEF ResetServiceRows, HistoryOK
  <2> QED
    BY <2>1, <2>2 DEF ResetServiceRows
<1> QED
  BY <1>1, <1>2, <1>3, <1>4, <1>5

LEMMA TypeFinishResetServices ==
  ASSUME Parts, NEW i \in Instances, FinishResetServices(i)
  PROVE  Parts'
<1> USE DEF Parts
<1>1. MemoryOK'
  BY DEF FinishResetServices, MemoryOK
<1>2. ControlOK'
  BY RequestEnds DEF FinishResetServices, ControlOK
<1>3. DatabaseOK'
  BY DEF FinishResetServices, DatabaseOK, database
<1>4. BoundsOK'
  BY DEF FinishResetServices, BoundsOK, bounds
<1>5. HistoryOK'
  BY DEF FinishResetServices, HistoryOK, history
<1> QED
  BY <1>1, <1>2, <1>3, <1>4, <1>5

LEMMA TypeCreateService ==
  ASSUME Parts, NEW i \in Instances, NEW s \in Services, CreateService(i, s)
  PROVE  Parts'
<1> USE DEF Parts
<1>1. MemoryOK'
  BY DEF CreateService, MemoryOK, OneStatement
<1>2. ControlOK'
  BY DEF CreateService, ControlOK, OneStatement
<1>3. DatabaseOK'
  <2>1. [there |-> TRUE, first |-> "new", manual |-> TRUE,
         deleted |-> FALSE] \in ServiceRow
    BY DEF ServiceRow, FirstSeens
  <2> QED
    BY <2>1 DEF CreateService, DatabaseOK, OneStatement
<1>4. BoundsOK'
  <2>1. edits < MaxEdits /\ edits' = edits + 1
    BY DEF CreateService, OneStatement, Edit, Fault, NoFault
  <2>2. UNCHANGED kills
    BY DEF CreateService, OneStatement, Edit, Fault, NoFault
  <2>3. UNCHANGED faults \/ (faults < MaxFaults /\ faults' = faults + 1)
    BY DEF CreateService, OneStatement, Edit, Fault, NoFault
  <2> QED
    BY <2>1, <2>2, <2>3, Bounds DEF BoundsOK
<1>5. HistoryOK'
  BY DEF CreateService, HistoryOK, OneStatement
<1> QED
  BY <1>1, <1>2, <1>3, <1>4, <1>5

LEMMA TypeRenameService ==
  ASSUME Parts, NEW i \in Instances, NEW s \in Services, NEW t \in Services,
         RenameService(i, s, t)
  PROVE  Parts'
<1> USE DEF Parts
<1>1. MemoryOK'
  BY DEF RenameService, MemoryOK, OneStatement
<1>2. ControlOK'
  BY DEF RenameService, ControlOK, OneStatement
<1>3. DatabaseOK'
  <2>1. svc[s] \in ServiceRow
    BY DEF DatabaseOK
  <2>2. [svc[s] EXCEPT !.deleted = TRUE] \in ServiceRow
    BY <2>1 DEF ServiceRow
  <2> QED
    BY <2>1, <2>2 DEF RenameService, DatabaseOK, OneStatement
<1>4. BoundsOK'
  <2>1. edits < MaxEdits /\ edits' = edits + 1
    BY DEF RenameService, OneStatement, Edit, Fault, NoFault
  <2>2. UNCHANGED kills
    BY DEF RenameService, OneStatement, Edit, Fault, NoFault
  <2>3. UNCHANGED faults \/ (faults < MaxFaults /\ faults' = faults + 1)
    BY DEF RenameService, OneStatement, Edit, Fault, NoFault
  <2> QED
    BY <2>1, <2>2, <2>3, Bounds DEF BoundsOK
<1>5. HistoryOK'
  BY DEF RenameService, HistoryOK, OneStatement
<1> QED
  BY <1>1, <1>2, <1>3, <1>4, <1>5

LEMMA TypeDeleteService ==
  ASSUME Parts, NEW i \in Instances, NEW s \in Services, DeleteService(i, s)
  PROVE  Parts'
<1> USE DEF Parts
<1>1. MemoryOK'
  BY DEF DeleteService, MemoryOK, OneStatement
<1>2. ControlOK'
  BY DEF DeleteService, ControlOK, OneStatement
<1>3. DatabaseOK'
  <2>1. svc[s] \in ServiceRow
    BY DEF DatabaseOK
  <2>2. [svc[s] EXCEPT !.deleted = TRUE] \in ServiceRow
    BY <2>1 DEF ServiceRow
  <2> QED
    BY <2>2 DEF DeleteService, DatabaseOK, OneStatement
<1>4. BoundsOK'
  <2>1. edits < MaxEdits /\ edits' = edits + 1
    BY DEF DeleteService, OneStatement, Edit, Fault, NoFault
  <2>2. UNCHANGED kills
    BY DEF DeleteService, OneStatement, Edit, Fault, NoFault
  <2>3. UNCHANGED faults \/ (faults < MaxFaults /\ faults' = faults + 1)
    BY DEF DeleteService, OneStatement, Edit, Fault, NoFault
  <2> QED
    BY <2>1, <2>2, <2>3, Bounds DEF BoundsOK
<1>5. HistoryOK'
  BY DEF DeleteService, HistoryOK, OneStatement
<1> QED
  BY <1>1, <1>2, <1>3, <1>4, <1>5

LEMMA TypeControlGrace ==
  ASSUME Parts, NEW i \in Instances, NEW s \in Services, NEW kind \in
         {"end_grace", "restart_grace"}, ControlGrace(i, s, kind)
  PROVE  Parts'
<1> USE DEF Parts
<1>1. MemoryOK'
  BY DEF ControlGrace, MemoryOK, learning
<1>2. ControlOK'
  <2>1. CASE RequestTo(i, kind, s)
    BY <2>1, RequestMoves DEF ControlGrace, ControlOK, RequestType, learning
  <2>2. CASE UNCHANGED request
    BY <2>2 DEF ControlGrace, ControlOK, learning
  <2> QED
    BY <2>1, <2>2 DEF ControlGrace
<1>3. DatabaseOK'
  <2>1. svc[s] \in ServiceRow
    BY DEF DatabaseOK
  <2>2. \A f \in FirstSeens : [svc[s] EXCEPT !.first = f] \in ServiceRow
    BY <2>1 DEF ServiceRow
  <2>3. PICK f \in FirstSeens :
          svc' = [svc EXCEPT ![s].first = f] \/ svc' = svc
    BY <2>1 DEF ControlGrace, ServiceRow, FirstSeens
  <2> QED
    BY <2>2, <2>3 DEF ControlGrace, DatabaseOK
<1>4. BoundsOK'
  <2>1. edits < MaxEdits /\ edits' = edits + 1
    BY DEF ControlGrace, Edit, Fault, NoFault
  <2>2. UNCHANGED kills
    BY DEF ControlGrace, Edit, Fault, NoFault
  <2>3. UNCHANGED faults \/ (faults < MaxFaults /\ faults' = faults + 1)
    BY DEF ControlGrace, Edit, Fault, NoFault
  <2> QED
    BY <2>1, <2>2, <2>3, Bounds DEF BoundsOK
<1>5. HistoryOK'
  BY DEF ControlGrace, HistoryOK
<1> QED
  BY <1>1, <1>2, <1>3, <1>4, <1>5

LEMMA TypeControlGraceMemory ==
  ASSUME Parts, NEW i \in Instances, ControlGraceMemory(i)
  PROVE  Parts'
<1> USE DEF Parts
<1>1. MemoryOK'
  <2>1. request[i].id \in Services
    BY RequestAt DEF ControlGraceMemory
  <2> DEFINE s == request[i].id
  <2>2. services[i][s] \in ServiceInfo
    BY <2>1 DEF MemoryOK
  <2>3. \A f \in FirstSeens :
          [services[i][s] EXCEPT !.first = f] \in ServiceInfo
    BY <2>2 DEF ServiceInfo
  <2>4. PICK f \in FirstSeens :
          services' = [services EXCEPT ![i][s].first = f]
    BY <2>2 DEF ControlGraceMemory, ServiceInfo, FirstSeens
  <2> QED
    BY <2>1, <2>3, <2>4
       DEF ControlGraceMemory, MemoryOK, learning, bounds, database
<1>2. ControlOK'
  BY RequestEnds DEF ControlGraceMemory, ControlOK, learning
<1>3. DatabaseOK'
  BY DEF ControlGraceMemory, DatabaseOK, database
<1>4. BoundsOK'
  BY DEF ControlGraceMemory, BoundsOK, bounds
<1>5. HistoryOK'
  BY DEF ControlGraceMemory, HistoryOK, history
<1> QED
  BY <1>1, <1>2, <1>3, <1>4, <1>5

LEMMA TypeNext == Parts /\ [Next]_vars => Parts'
<1> SUFFICES ASSUME Parts, [Next]_vars PROVE Parts'
  OBVIOUS
<1>1. CASE UNCHANGED vars
  BY <1>1 DEF vars, learning, database, bounds, history, Parts, MemoryOK,
              ControlOK, DatabaseOK, BoundsOK, HistoryOK
<1>2. CASE GraceElapses
  BY <1>2, TypeGraceElapses
<1>3. ASSUME NEW i \in Instances,
             \/ Start(i) \/ Sightings(i) \/ PromotionSteps(i) \/ Persist(i)
             \/ Shutdown(i) \/ Kill(i)
      PROVE  Parts'
  BY <1>3, TypeStart, TypeUpsert, TypeRegisterService, TypePromote,
     TypeMarkKnown, TypeCurateMarkKnown, TypeCacheMarked, TypePersist,
     TypeShutdown, TypeKill
     DEF Sightings, PromotionSteps
<1>4. ASSUME NEW i \in Instances, Requests(i)
      PROVE  Parts'
  BY <1>4, TypeLabel, TypeDelete, TypeReassign, TypeCreateService,
     TypeDeleteService, TypeRenameService, TypeControlGrace,
     TypeResetPatterns, TypeResetServices
     DEF Requests
<1>5. ASSUME NEW i \in Instances, RequestSteps(i)
      PROVE  Parts'
  BY <1>5, TypeReassignMemory, TypeControlGraceMemory, TypeResetPatternRows,
     TypeFinishResetPatterns, TypeResetServiceRows, TypeFinishResetServices
     DEF RequestSteps
<1> QED
  BY <1>1, <1>2, <1>3, <1>4, <1>5 DEF Next

(* Every variable stays in its type, for any number of replicas. *)
THEOREM TypesAlways == Spec => []TypeOK
BY InitTypes, TypeNext, TypeParts, PTL DEF Spec

LEMMA PartsAlways == Spec => []Parts
BY InitTypes, TypeNext, PTL DEF Spec

-----------------------------------------------------------------------------
(* Which steps write the shared rows *)

LEMMA PatternRowSteps ==
  ASSUME [Next]_vars
  PROVE  /\ UNCHANGED legacy
         /\ \/ UNCHANGED <<root, buried, curated>>
            \/ \E i \in Instances :
                 \/ CurateMarkKnown(i) \/ ResetPatternRows(i)
                 \/ PersistAll(i) /\ UNCHANGED <<buried, curated>>
                 \/ \E p \in Patterns :
                      \/ \E verdict \in Verdicts : Label(i, p, verdict)
                      \/ Delete(i, p) \/ Reassign(i, p)
<1>1. CASE UNCHANGED vars
  BY <1>1 DEF vars, database, history
<1>2. CASE GraceElapses
  BY <1>2 DEF GraceElapses, history
<1>3. ASSUME NEW i \in Instances, Start(i) \/ Kill(i) \/ Sightings(i)
      PROVE  UNCHANGED <<legacy, root, buried, curated>>
  BY <1>3 DEF Start, Kill, Sightings, Upsert, RegisterService, database,
              history
<1>4. ASSUME NEW i \in Instances, PromotionSteps(i)
      PROVE  /\ UNCHANGED legacy
             /\ CurateMarkKnown(i) \/ UNCHANGED <<root, buried, curated>>
  BY <1>4 DEF PromotionSteps, Promote, MarkKnown, CurateMarkKnown,
              CacheMarked, database, history
<1>5. ASSUME NEW i \in Instances, Persist(i) \/ Shutdown(i)
      PROVE  /\ UNCHANGED <<legacy, buried, curated>>
             /\ PersistAll(i) \/ UNCHANGED root
  BY <1>5 DEF Persist, Shutdown, database, history
<1>6. ASSUME NEW i \in Instances, Requests(i)
      PROVE  /\ UNCHANGED legacy
             /\ \/ UNCHANGED <<root, buried, curated>>
                \/ \E p \in Patterns :
                      \/ \E verdict \in Verdicts : Label(i, p, verdict)
                      \/ Delete(i, p) \/ Reassign(i, p)
  BY <1>6 DEF Requests, Label, Delete, Reassign, CreateService,
              DeleteService, RenameService, ControlGrace, ResetPatterns,
              ResetServices, OneStatement, database, history
<1>7. ASSUME NEW i \in Instances, RequestSteps(i)
      PROVE  /\ UNCHANGED legacy
             /\ \/ UNCHANGED <<root, buried, curated>>
                \/ ResetPatternRows(i)
  BY <1>7 DEF RequestSteps, ReassignMemory, ControlGraceMemory,
              ResetPatternRows, FinishResetPatterns, ResetServiceRows,
              FinishResetServices, database, history
<1> QED
  BY <1>1, <1>2, <1>3, <1>4, <1>5, <1>6, <1>7 DEF Next

LEMMA ServiceRowSteps ==
  ASSUME [Next]_vars
  PROVE  \/ UNCHANGED <<svc, owned, ended>>
         \/ GraceElapses
         \/ \E i \in Instances :
              \/ PersistAll(i) /\ UNCHANGED <<owned, ended>>
              \/ ResetServiceRows(i) \/ ControlGraceMemory(i)
              \/ \E s \in Services :
                   \/ CreateService(i, s) \/ DeleteService(i, s)
                   \/ \E t \in Services \ {s} : RenameService(i, s, t)
                   \/ \E kind \in {"end_grace", "restart_grace"} :
                         ControlGrace(i, s, kind)
<1>1. CASE UNCHANGED vars
  BY <1>1 DEF vars, database, history
<1>2. ASSUME NEW i \in Instances,
             Start(i) \/ Kill(i) \/ Sightings(i) \/ PromotionSteps(i)
      PROVE  UNCHANGED <<svc, owned, ended>>
  BY <1>2 DEF Start, Kill, Sightings, Upsert, RegisterService,
              PromotionSteps, Promote, MarkKnown, CurateMarkKnown,
              CacheMarked, database, history
<1>3. ASSUME NEW i \in Instances, Persist(i) \/ Shutdown(i)
      PROVE  /\ UNCHANGED <<owned, ended>>
             /\ PersistAll(i) \/ UNCHANGED svc
  BY <1>3 DEF Persist, Shutdown, database, history
<1>4. ASSUME NEW i \in Instances, Requests(i)
      PROVE  \/ UNCHANGED <<svc, owned, ended>>
             \/ \E s \in Services :
                   \/ CreateService(i, s) \/ DeleteService(i, s)
                   \/ \E t \in Services \ {s} : RenameService(i, s, t)
                   \/ \E kind \in {"end_grace", "restart_grace"} :
                         ControlGrace(i, s, kind)
  BY <1>4 DEF Requests, Label, Delete, Reassign, ResetPatterns,
              ResetServices, OneStatement, database, history
<1>5. ASSUME NEW i \in Instances, RequestSteps(i)
      PROVE  \/ UNCHANGED <<svc, owned, ended>>
             \/ ResetServiceRows(i) \/ ControlGraceMemory(i)
  BY <1>5 DEF RequestSteps, ReassignMemory, ResetPatternRows,
              FinishResetPatterns, FinishResetServices, database, history
<1> QED
  BY <1>1, <1>2, <1>3, <1>4, <1>5 DEF Next

-----------------------------------------------------------------------------
(* Tombstones and verdicts *)

(* Without a legacy organization, a buried pattern has a row of its own that
   is a tombstone and not the shadow of a reset: what a persist revives. *)
Tombstoned ==
  \A p \in buried : root[p].there /\ root[p].deleted /\ ~root[p].shadow

VerdictInv ==
  \A p \in Patterns :
     /\ curated[p] = "known" => root[p].there /\ root[p].verdict = "known"
     /\ curated[p] = "cleared" => root[p].there /\ root[p].verdict = ""

LEMMA PersistKeepsCuration ==
  ASSUME Parts, NEW i \in Instances, PersistAll(i), NEW p \in Patterns,
         root[p].there
  PROVE  /\ root'[p].there /\ root'[p].verdict = root[p].verdict
         /\ ~root[p].shadow =>
              ~root'[p].shadow /\ root'[p].deleted = root[p].deleted
<1>1. root[p] \in RootRow
  BY DEF Parts, DatabaseOK
<1>2. \/ root'[p] = root[p]
      \/ root'[p] = UpsertRoot(p, patterns[i][p].service)
  BY DEF PersistAll
<1>3. CASE root'[p] = UpsertRoot(p, patterns[i][p].service)
  BY <1>1, <1>3 DEF UpsertRoot, RootRow
<1> QED
  BY <1>2, <1>3

(* What the other writers make of a row that is there. *)
LEMMA CurateKeepsRows ==
  ASSUME Parts, NEW i \in Instances, CurateMarkKnown(i)
  PROVE  /\ UNCHANGED buried
         /\ \A p \in Patterns :
              \/ root'[p] = root[p] /\ curated'[p] = curated[p]
              \/ root'[p] = KnownRoot(root[p]) /\ curated'[p] = "known"
<1>1. worker[i].id \in Patterns
  BY WorkerAt DEF CurateMarkKnown, Parts
<1>2. \/ UNCHANGED <<root, curated>>
      \/ /\ root' = [root EXCEPT ![worker[i].id] = KnownRoot(@)]
         /\ curated' = [curated EXCEPT ![worker[i].id] = "known"]
  BY DEF CurateMarkKnown
<1> QED
  BY <1>1, <1>2 DEF CurateMarkKnown, Parts, DatabaseOK, HistoryOK

LEMMA KnownRootKeeps ==
  ASSUME NEW r \in RootRow
  PROVE  /\ KnownRoot(r).there /\ KnownRoot(r).verdict = "known"
         /\ KnownRoot(r).deleted = r.deleted
         /\ KnownRoot(r).shadow = r.shadow
BY DEF KnownRoot, RootRow

LEMMA LabelWrites ==
  ASSUME Parts, NEW i \in Instances, NEW p \in Patterns,
         NEW verdict \in Verdicts, Label(i, p, verdict)
  PROVE  \/ UNCHANGED <<root, curated>>
         \/ /\ root[p].there
            /\ root' = [root EXCEPT ![p].verdict = verdict]
            /\ curated' = [curated EXCEPT ![p] =
                  IF verdict = "known" THEN "known" ELSE "cleared"]
<1>1. root[p] \in RootRow /\ root \in [Patterns -> RootRow]
      /\ curated \in [Patterns -> {"none", "known", "cleared"}]
  BY DEF Parts, DatabaseOK, HistoryOK
<1>2. CASE root[p].there
  BY <1>2 DEF Label
<1>3. CASE ~root[p].there
  <2>1. [root EXCEPT ![p].verdict = root[p].verdict] = root
    <3>1. [root[p] EXCEPT !.verdict = root[p].verdict] = root[p]
      BY <1>1 DEF RootRow
    <3> QED
      BY <1>1, <3>1
  <2>2. [curated EXCEPT ![p] = curated[p]] = curated
    BY <1>1
  <2> QED
    BY <1>3, <2>1, <2>2 DEF Label
<1> QED
  BY <1>2, <1>3

(* Kept(p): the edit leaves a row there, its tombstone and its being no
   shadow. *)
Kept(q) ==
  /\ root'[q].there = root[q].there
  /\ root[q].deleted => root'[q].deleted
  /\ ~root[q].shadow => ~root'[q].shadow

LEMMA LabelKeepsRows ==
  ASSUME Parts, NEW i \in Instances, NEW p \in Patterns,
         NEW verdict \in Verdicts, Label(i, p, verdict), NEW q \in Patterns
  PROVE  Kept(q)
<1>1. root[q] \in RootRow /\ root[p] \in RootRow
  BY DEF Parts, DatabaseOK
<1>2. root' = root \/ root' = [root EXCEPT ![p].verdict = verdict]
  BY LabelWrites
<1> QED
  BY <1>1, <1>2 DEF Kept, RootRow, Parts, DatabaseOK

LEMMA OtherEditKeepsRows ==
  ASSUME Parts, NEW i \in Instances, NEW p \in Patterns,
         Reassign(i, p) \/ Delete(i, p), NEW q \in Patterns
  PROVE  Kept(q) /\ root'[q].verdict = root[q].verdict
<1>1. root[q] \in RootRow /\ root[p] \in RootRow
  BY DEF Parts, DatabaseOK
<1>2. CASE Reassign(i, p)
  <2>1. PICK service \in Attributions :
          root' = root \/ root' = [root EXCEPT ![p].service = service]
    BY <1>1, <1>2 DEF Reassign, RootRow, Attributions
  <2>2. CASE root' = root
    BY <2>2 DEF Kept
  <2>3. CASE root' = [root EXCEPT ![p].service = service] /\ q # p
    BY <2>3 DEF Kept, Parts, DatabaseOK
  <2>4. CASE root' = [root EXCEPT ![p].service = service] /\ q = p
    BY <1>1, <2>4 DEF Kept, RootRow, Parts, DatabaseOK
  <2> QED
    BY <2>1, <2>2, <2>3, <2>4
<1>3. CASE Delete(i, p)
  <2>1. \/ root'[q] = root[q]
        \/ root'[q] = [root[q] EXCEPT !.deleted = TRUE, !.shadow = FALSE]
    BY <1>1, <1>3 DEF Delete, Tombstone, Parts, DatabaseOK
  <2> QED
    BY <1>1, <2>1 DEF Kept, RootRow
<1> QED
  BY <1>2, <1>3

LEMMA TombstonedNext ==
  ASSUME Parts, [Next]_vars, Tombstoned, \A r \in LegacyRoots : ~r.there
  PROVE  Tombstoned'
<1> USE DEF Parts, DatabaseOK, HistoryOK
<1>1. CASE UNCHANGED <<root, buried, curated>>
  BY <1>1 DEF Tombstoned
<1>2. ASSUME NEW i \in Instances, CurateMarkKnown(i)
      PROVE  Tombstoned'
  <2>1. UNCHANGED buried
    BY <1>2 DEF CurateMarkKnown
  <2> SUFFICES ASSUME NEW p \in buried
               PROVE  /\ root'[p].there /\ root'[p].deleted
                      /\ ~root'[p].shadow
    BY <2>1 DEF Tombstoned
  <2>2. p \in Patterns /\ root[p] \in RootRow
    OBVIOUS
  <2>3. CASE root'[p] = root[p]
    BY <2>3 DEF Tombstoned
  <2>4. CASE root'[p] = KnownRoot(root[p])
    BY <2>2, <2>4, KnownRootKeeps DEF Tombstoned
  <2> QED
    BY <1>2, <2>2, <2>3, <2>4, CurateKeepsRows
<1>3. ASSUME NEW i \in Instances, ResetPatternRows(i)
      PROVE  Tombstoned'
  BY <1>3 DEF ResetPatternRows, Tombstoned
<1>4. ASSUME NEW i \in Instances, PersistAll(i), UNCHANGED buried
      PROVE  Tombstoned'
  BY <1>4, PersistKeepsCuration DEF Tombstoned
<1>5. ASSUME NEW i \in Instances, NEW p \in Patterns,
             \/ \E verdict \in Verdicts : Label(i, p, verdict)
             \/ Reassign(i, p)
      PROVE  Tombstoned'
  <2>1. buried' = buried
    BY <1>5 DEF Label, Reassign, history
  <2> QED
    BY <1>5, <2>1, LabelKeepsRows, OtherEditKeepsRows DEF Tombstoned, Kept
<1>6. ASSUME NEW i \in Instances, NEW p \in Patterns, Delete(i, p)
      PROVE  Tombstoned'
  <2>1. Shown(p) => root[p].there
    BY DEF Shown, ChosenRoot, NoRoot
  <2>2. CASE UNCHANGED buried
    BY <1>6, <2>2, OtherEditKeepsRows DEF Tombstoned, Kept
  <2>3. CASE /\ Shown(p) /\ buried' = buried \cup {p}
             /\ root' = [root EXCEPT ![p] = Tombstone(@)]
    <3>1. root[p] \in RootRow
      OBVIOUS
    <3>2. root'[p].there /\ root'[p].deleted /\ ~root'[p].shadow
      BY <2>1, <2>3, <3>1 DEF Tombstone, RootRow
    <3> QED
      BY <1>6, <2>3, <3>2, OtherEditKeepsRows DEF Tombstoned, Kept
  <2> QED
    BY <1>6, <2>2, <2>3 DEF Delete
<1> QED
  BY <1>1, <1>2, <1>3, <1>4, <1>5, <1>6, PatternRowSteps

(* What an operator deleted stays deleted: no persist, promotion or restart
   of any replica brings it back, when no legacy organization is shadowed.
   (With one, Delete may match no row of the write organization.) *)
THEOREM TombstoneSticksAlways ==
  ASSUME \A r \in LegacyRoots : ~r.there
  PROVE  Spec => []TombstoneSticks
<1>1. Init => Tombstoned
  BY DEF Init, Tombstoned
<1>2. Parts /\ Tombstoned /\ [Next]_vars => Tombstoned'
  BY TombstonedNext
<1>3. Tombstoned => TombstoneSticks
  BY DEF Tombstoned, TombstoneSticks, Shown, ChosenRoot
<1> QED
  BY <1>1, <1>2, <1>3, PartsAlways, PTL DEF Spec

LEMMA VerdictNext ==
  ASSUME Parts, [Next]_vars, VerdictInv
  PROVE  VerdictInv'
<1> USE DEF Parts, DatabaseOK, HistoryOK
<1>1. CASE UNCHANGED <<root, buried, curated>>
  BY <1>1 DEF VerdictInv
<1>2. ASSUME NEW i \in Instances, CurateMarkKnown(i)
      PROVE  VerdictInv'
  <2> SUFFICES ASSUME NEW p \in Patterns
               PROVE  /\ curated'[p] = "known" =>
                           root'[p].there /\ root'[p].verdict = "known"
                      /\ curated'[p] = "cleared" =>
                           root'[p].there /\ root'[p].verdict = ""
    BY DEF VerdictInv
  <2>1. CASE root'[p] = root[p] /\ curated'[p] = curated[p]
    BY <2>1 DEF VerdictInv
  <2>2. CASE root'[p] = KnownRoot(root[p]) /\ curated'[p] = "known"
    <3>1. root[p] \in RootRow
      OBVIOUS
    <3> QED
      BY <2>2, <3>1, KnownRootKeeps
  <2> QED
    BY <1>2, <2>1, <2>2, CurateKeepsRows
<1>3. ASSUME NEW i \in Instances, ResetPatternRows(i)
      PROVE  VerdictInv'
  BY <1>3 DEF ResetPatternRows, VerdictInv
<1>4. ASSUME NEW i \in Instances, PersistAll(i), UNCHANGED curated
      PROVE  VerdictInv'
  BY <1>4, PersistKeepsCuration DEF VerdictInv
<1>5. ASSUME NEW i \in Instances, NEW p \in Patterns,
             NEW verdict \in Verdicts, Label(i, p, verdict)
      PROVE  VerdictInv'
  <2>1. CASE UNCHANGED <<root, curated>>
    BY <2>1 DEF VerdictInv
  <2>2. CASE /\ root[p].there
             /\ root' = [root EXCEPT ![p].verdict = verdict]
             /\ curated' = [curated EXCEPT ![p] =
                   IF verdict = "known" THEN "known" ELSE "cleared"]
    <3>1. ASSUME NEW q \in Patterns, q # p
          PROVE  root'[q] = root[q] /\ curated'[q] = curated[q]
      BY <2>2, <3>1
    <3>2. root'[p].there /\ root'[p].verdict = verdict
      <4>1. root[p] \in RootRow
        OBVIOUS
      <4> QED
        BY <2>2, <4>1 DEF RootRow
    <3>3. verdict # "known" => verdict = ""
      BY DEF Verdicts
    <3> QED
      BY <2>2, <3>1, <3>2, <3>3 DEF VerdictInv
  <2> QED
    BY <1>5, <2>1, <2>2, LabelWrites
<1>6. ASSUME NEW i \in Instances, NEW p \in Patterns,
             Delete(i, p) \/ Reassign(i, p)
      PROVE  VerdictInv'
  <2>1. \A q \in Patterns : root'[q].there = root[q].there
                             /\ root'[q].verdict = root[q].verdict
    BY <1>6, OtherEditKeepsRows DEF Kept
  <2>2. curated' = curated
    BY <1>6 DEF Delete, Reassign, OneStatement, history
  <2> QED
    BY <2>1, <2>2 DEF VerdictInv
<1> QED
  BY <1>1, <1>2, <1>3, <1>4, <1>5, <1>6, PatternRowSteps

(* The last word on a stored verdict holds: persists write everything else. *)
THEOREM VerdictKeptAlways == Spec => []VerdictKept
<1>1. Init => VerdictInv
  BY DEF Init, VerdictInv
<1>2. Parts /\ VerdictInv /\ [Next]_vars => VerdictInv'
  BY VerdictNext
<1>3. VerdictInv => VerdictKept
  BY DEF VerdictInv, VerdictKept
<1> QED
  BY <1>1, <1>2, <1>3, PartsAlways, PTL DEF Spec

-----------------------------------------------------------------------------
(* Services *)

ServiceInv ==
  \A s \in Services :
     /\ owned[s] = "made" =>
          svc[s].there /\ ~svc[s].deleted /\ svc[s].manual
     /\ owned[s] = "gone" => svc[s].there /\ svc[s].deleted
     /\ ended[s] = "stored" => svc[s].there /\ svc[s].first = "zero"

LEMMA ServiceNext ==
  ASSUME Parts, [Next]_vars, ServiceInv
  PROVE  ServiceInv'
<1> USE DEF Parts, DatabaseOK, HistoryOK
<1>1. CASE UNCHANGED <<svc, owned, ended>>
  BY <1>1 DEF ServiceInv
<1>2. CASE GraceElapses
  <2>1. ASSUME NEW s \in Services
        PROVE  /\ svc'[s].there = svc[s].there
               /\ svc'[s].deleted = svc[s].deleted
               /\ svc'[s].manual = svc[s].manual
               /\ svc[s].first = "zero" => svc'[s].first = "zero"
    <3>1. svc[s] \in ServiceRow
      OBVIOUS
    <3> QED
      BY <1>2, <3>1 DEF GraceElapses, Aged, ServiceRow
  <2>2. UNCHANGED <<owned, ended>>
    BY <1>2 DEF GraceElapses, history
  <2> QED
    BY <2>1, <2>2 DEF ServiceInv
<1>3. ASSUME NEW i \in Instances, PersistAll(i), UNCHANGED <<owned, ended>>
      PROVE  ServiceInv'
  <2>1. \A s \in Services : svc[s].there => svc'[s] = svc[s]
    BY <1>3 DEF PersistAll, UpsertService
  <2> QED
    BY <1>3, <2>1 DEF ServiceInv
<1>4. ASSUME NEW i \in Instances, ResetServiceRows(i)
      PROVE  ServiceInv'
  BY <1>4 DEF ResetServiceRows, ServiceInv
<1>5. ASSUME NEW i \in Instances, ControlGraceMemory(i)
      PROVE  ServiceInv'
  BY <1>5 DEF ControlGraceMemory, ServiceInv, database, history
<1>6. ASSUME NEW i \in Instances, NEW s \in Services,
             CreateService(i, s) \/ DeleteService(i, s)
      PROVE  ServiceInv'
  <2>1. svc[s] \in ServiceRow
    OBVIOUS
  <2>2. CASE CreateService(i, s)
    BY <2>2 DEF CreateService, ServiceInv
  <2>3. CASE DeleteService(i, s)
    BY <2>1, <2>3 DEF DeleteService, ShownService, ServiceInv, ServiceRow
  <2> QED
    BY <1>6, <2>2, <2>3
<1>7. ASSUME NEW i \in Instances, NEW s \in Services,
             NEW t \in Services \ {s}, RenameService(i, s, t)
      PROVE  ServiceInv'
  <2>1. svc[s] \in ServiceRow /\ svc[t] \in ServiceRow
    OBVIOUS
  <2>2. CASE UNCHANGED <<svc, owned, ended>>
    BY <2>2 DEF ServiceInv
  <2>3. CASE /\ svc' = [svc EXCEPT ![s].deleted = TRUE, ![t] = svc[s]]
             /\ owned' = [owned EXCEPT ![s] = "gone", ![t] = "made"]
             /\ ended' = [ended EXCEPT ![s] = "no", ![t] = ended[s]]
    <3>1. /\ svc[s].there /\ ~svc[s].deleted /\ svc[s].manual
      BY <1>7 DEF RenameService, ShownService
    <3>2. /\ svc'[s].there /\ svc'[s].deleted /\ owned'[s] = "gone"
          /\ ended'[s] = "no"
      BY <2>1, <2>3, <3>1 DEF ServiceRow
    <3>3. svc'[t] = svc[s] /\ owned'[t] = "made" /\ ended'[t] = ended[s]
      BY <2>3
    <3>4. ASSUME NEW u \in Services \ {s, t}
          PROVE  /\ svc'[u] = svc[u] /\ owned'[u] = owned[u]
                 /\ ended'[u] = ended[u]
      BY <2>3
    <3> QED
      BY <3>1, <3>2, <3>3, <3>4 DEF ServiceInv
  <2> QED
    BY <1>7, <2>2, <2>3 DEF RenameService
<1>8. ASSUME NEW i \in Instances, NEW s \in Services,
             NEW kind \in {"end_grace", "restart_grace"},
             ControlGrace(i, s, kind)
      PROVE  ServiceInv'
  <2>1. svc[s] \in ServiceRow
    OBVIOUS
  <2>2. PICK first \in FirstSeens :
          \/ svc' = svc /\ ended' = ended
          \/ /\ svc' = [svc EXCEPT ![s].first = first]
             /\ \/ ended' = [ended EXCEPT ![s] = "no"]
                \/ /\ ended' = [ended EXCEPT ![s] = "stored"]
                   /\ svc[s].there /\ first = "zero"
    BY <1>8, <2>1 DEF ControlGrace, ShownService, ServiceRow, FirstSeens
  <2>3. owned' = owned
    BY <1>8 DEF ControlGrace
  <2>4. CASE svc' = svc /\ ended' = ended
    BY <2>3, <2>4 DEF ServiceInv
  <2>5. CASE svc' = [svc EXCEPT ![s].first = first]
    <3>1. \A r \in Services \ {s} : svc'[r] = svc[r] /\ ended'[r] = ended[r]
      BY <2>2, <2>5
    <3>2. /\ svc'[s].there = svc[s].there
          /\ svc'[s].deleted = svc[s].deleted
          /\ svc'[s].manual = svc[s].manual
          /\ svc'[s].first = first
      BY <2>1, <2>5 DEF ServiceRow
    <3>3. CASE svc' = svc /\ ended' = ended
      BY <2>3, <3>3 DEF ServiceInv
    <3>4. CASE \/ ended' = [ended EXCEPT ![s] = "no"]
               \/ /\ ended' = [ended EXCEPT ![s] = "stored"]
                  /\ svc[s].there /\ first = "zero"
      BY <2>3, <3>1, <3>2, <3>4 DEF ServiceInv
    <3> QED
      BY <2>2, <3>3, <3>4
  <2> QED
    BY <2>2, <2>4, <2>5
<1> QED
  BY <1>1, <1>2, <1>3, <1>4, <1>5, <1>6, <1>7, <1>8, ServiceRowSteps

LEMMA ServiceInvAlways == Spec => []ServiceInv
<1>1. Init => ServiceInv
  BY DEF Init, ServiceInv
<1>2. Parts /\ ServiceInv /\ [Next]_vars => ServiceInv'
  BY ServiceNext
<1> QED
  BY <1>1, <1>2, PartsAlways, PTL DEF Spec

(* The services an operator made, renamed or deleted are as the operator
   left them, whatever stale working set is persisted. *)
THEOREM OperatorServicesHoldAlways == Spec => []OperatorServicesHold
<1>1. ServiceInv => OperatorServicesHold
  BY DEF ServiceInv, OperatorServicesHold, ShownService
<1> QED
  BY <1>1, ServiceInvAlways, PTL

(* A stored end of grace is final. *)
THEOREM StoredGraceEndHoldsAlways == Spec => []StoredGraceEndHolds
<1>1. ServiceInv => StoredGraceEndHolds
  BY DEF ServiceInv, StoredGraceEndHolds
<1> QED
  BY <1>1, ServiceInvAlways, PTL

-----------------------------------------------------------------------------
(* Dirty tells the truth, where no reset is made *)

NoResets == "reset_patterns" \notin Edits /\ "reset_services" \notin Edits

ResetStates ==
  {"patterns cleared", "patterns reset", "services cleared", "services reset"}

(* A replica's partition holds no pattern without a shared row, so that a
   start loads all of it; what memory does not hold the partition does not
   either, so that a persist leaves nothing stale behind. *)
RowsInv ==
  /\ \A p \in Patterns : ~root[p].shadow /\ ~root[p].reset
  /\ \A i \in Instances : \A p \in Patterns :
        row[i][p] > 0 => root[p].there

MemoryInv ==
  \A i \in Instances : up[i] =>
     \A p \in Patterns :
        /\ patterns[i][p].count = 0 => ChosenCount(i, p) = 0
        /\ ~dirty[i] => patterns[i][p].count = ChosenCount(i, p)

RequestInv == \A i \in Instances : request[i].at \notin ResetStates

StoredInv == RowsInv /\ MemoryInv /\ RequestInv

(* A step that writes no partition, takes no count and cleans nothing. *)
Quiet ==
  /\ UNCHANGED <<row, legacy>>
  /\ \A p \in Patterns :
        /\ ~root[p].shadow /\ ~root[p].reset =>
              ~root'[p].shadow /\ ~root'[p].reset
        /\ root[p].there => root'[p].there
  /\ \A i \in Instances : up'[i] =>
        /\ up[i] /\ (dirty[i] => dirty'[i])
        /\ \A p \in Patterns : patterns'[i][p].count = patterns[i][p].count

LEMMA QuietStep ==
  ASSUME RowsInv, MemoryInv, Quiet
  PROVE  RowsInv' /\ MemoryInv'
<1>1. RowsInv'
  BY DEF RowsInv, Quiet
<1>2. \A i \in Instances, p \in Patterns : ChosenCount(i, p)' = ChosenCount(i, p)
  BY <1>1 DEF RowsInv, Quiet, ChosenCount
<1>3. MemoryInv'
  BY <1>2 DEF MemoryInv, Quiet
<1> QED
  BY <1>1, <1>3

LEMMA QuietWorker ==
  ASSUME Parts, NEW i \in Instances,
         \/ PromotionSteps(i) \/ \E s \in Services : RegisterService(i, s)
  PROVE  Quiet
<1> USE DEF Parts, MemoryOK, DatabaseOK
<1>1. CASE Promote(i) \/ CacheMarked(i)
  BY <1>1 DEF Promote, CacheMarked, Quiet, database
<1>2. CASE MarkKnown(i)
  <2>1. worker[i].id \in Patterns
    BY <1>2, WorkerAt DEF MarkKnown
  <2>2. \A j \in Instances, p \in Patterns :
          patterns'[j][p].count = patterns[j][p].count
    <3>1. \A q \in Patterns : patterns[i][q] \in Pattern
      OBVIOUS
    <3> QED
      BY <1>2, <2>1, <3>1 DEF MarkKnown, Pattern
  <2>3. \A j \in Instances : dirty[j] => dirty'[j]
    BY <1>2 DEF MarkKnown
  <2> QED
    BY <1>2, <2>2, <2>3 DEF MarkKnown, Quiet, database
<1>3. CASE CurateMarkKnown(i)
  <2>1. ASSUME NEW p \in Patterns
        PROVE  root'[p] = root[p] \/ root'[p] = KnownRoot(root[p])
    BY <1>3, CurateKeepsRows
  <2>2. ASSUME NEW p \in Patterns
        PROVE  /\ root'[p].shadow = root[p].shadow
               /\ root'[p].reset = root[p].reset
               /\ root[p].there => root'[p].there
    <3>1. root[p] \in RootRow
      OBVIOUS
    <3> QED
      BY <2>1, <3>1 DEF KnownRoot, RootRow
  <2> QED
    BY <1>3, <2>2 DEF CurateMarkKnown, Quiet
<1>4. CASE \E s \in Services : RegisterService(i, s)
  BY <1>4 DEF RegisterService, Quiet, database
<1> QED
  BY <1>1, <1>2, <1>3, <1>4 DEF PromotionSteps

LEMMA ColumnWrite ==
  ASSUME root \in [Patterns -> RootRow], NEW p \in Patterns, NEW v,
         \/ root' = [root EXCEPT ![p].verdict = v]
         \/ root' = [root EXCEPT ![p].service = v],
         NEW q \in Patterns
  PROVE  /\ root'[q].shadow = root[q].shadow
         /\ root'[q].reset = root[q].reset
         /\ root'[q].there = root[q].there
<1>1. CASE q # p
  BY <1>1
<1>2. CASE q = p
  BY <1>2 DEF RootRow
<1> QED
  BY <1>1, <1>2

LEMMA QuietRequest ==
  ASSUME Parts, NoResets, NEW i \in Instances, Requests(i)
  PROVE  Quiet
<1> USE DEF Parts, MemoryOK, DatabaseOK
<1>1. ASSUME NEW p \in Patterns, NEW verdict \in Verdicts,
             Label(i, p, verdict)
      PROVE  Quiet
  <2>1. root' = root \/ root' = [root EXCEPT ![p].verdict = verdict]
    BY <1>1, LabelWrites
  <2>2. ASSUME NEW q \in Patterns
        PROVE  /\ root'[q].shadow = root[q].shadow
               /\ root'[q].reset = root[q].reset
               /\ root'[q].there = root[q].there
    BY <2>1, ColumnWrite
  <2> QED
    BY <1>1, <2>2 DEF Label, OneStatement, Quiet
<1>2. ASSUME NEW p \in Patterns, Delete(i, p)
      PROVE  Quiet
  <2>1. ASSUME NEW q \in Patterns
        PROVE  /\ ~root[q].shadow => ~root'[q].shadow
               /\ root'[q].reset = root[q].reset
               /\ root'[q].there = root[q].there
    <3>1. root[q] \in RootRow
      OBVIOUS
    <3>2. \/ root'[q] = root[q]
          \/ root'[q] = [root[q] EXCEPT !.deleted = TRUE, !.shadow = FALSE]
      BY <1>2 DEF Delete, Tombstone
    <3> QED
      BY <3>1, <3>2 DEF RootRow
  <2> QED
    BY <1>2, <2>1 DEF Delete, OneStatement, Quiet
<1>3. ASSUME NEW p \in Patterns, Reassign(i, p)
      PROVE  Quiet
  <2>1. root[p] \in RootRow
    OBVIOUS
  <2>2. PICK service \in Attributions :
          root' = root \/ root' = [root EXCEPT ![p].service = service]
    BY <1>3, <2>1 DEF Reassign, RootRow, Attributions
  <2>3. ASSUME NEW q \in Patterns
        PROVE  /\ root'[q].shadow = root[q].shadow
               /\ root'[q].reset = root[q].reset
               /\ root'[q].there = root[q].there
    BY <2>2, ColumnWrite
  <2> QED
    BY <1>3, <2>3 DEF Reassign, Quiet, learning
<1>4. ASSUME NEW s \in Services,
             \/ CreateService(i, s) \/ DeleteService(i, s)
             \/ \E t \in Services \ {s} : RenameService(i, s, t)
             \/ \E kind \in {"end_grace", "restart_grace"} :
                   ControlGrace(i, s, kind)
      PROVE  Quiet
  BY <1>4 DEF CreateService, DeleteService, RenameService, ControlGrace,
              OneStatement, learning, Quiet
<1>5. ~ResetPatterns(i) /\ ~ResetServices(i)
  BY DEF ResetPatterns, ResetServices, Edit, NoResets
<1> QED
  BY <1>1, <1>2, <1>3, <1>4, <1>5 DEF Requests

LEMMA QuietRequestStep ==
  ASSUME Parts, RequestInv, NEW i \in Instances, RequestSteps(i)
  PROVE  Quiet
<1> USE DEF Parts, MemoryOK, DatabaseOK
<1>1. CASE ReassignMemory(i)
  <2>1. request[i].id \in Patterns
    BY <1>1, RequestAt DEF ReassignMemory
  <2> DEFINE p == request[i].id
  <2>2. \/ patterns' = [patterns EXCEPT ![i][p].service = "reassigned"]
        \/ patterns' = patterns
    BY <1>1 DEF ReassignMemory
  <2>3. ASSUME NEW j \in Instances, NEW q \in Patterns
        PROVE  patterns'[j][q].count = patterns[j][q].count
    <3>1. patterns[j][q] \in Pattern
      OBVIOUS
    <3>2. CASE patterns' = patterns
      BY <3>2
    <3>3. CASE patterns' = [patterns EXCEPT ![i][p].service = "reassigned"]
      <4>1. CASE j = i /\ q = p
        BY <2>1, <3>1, <3>3, <4>1 DEF Pattern
      <4>2. CASE j # i \/ q # p
        BY <2>1, <3>3, <4>2
      <4> QED
        BY <4>1, <4>2
    <3> QED
      BY <2>2, <3>2, <3>3
  <2>4. \A j \in Instances : dirty[j] => dirty'[j]
    BY <1>1 DEF ReassignMemory
  <2> QED
    BY <1>1, <2>3, <2>4 DEF ReassignMemory, Quiet, database
<1>2. CASE ControlGraceMemory(i)
  BY <1>2 DEF ControlGraceMemory, Quiet, learning, database
<1>3. /\ ~ResetPatternRows(i) /\ ~FinishResetPatterns(i)
      /\ ~ResetServiceRows(i) /\ ~FinishResetServices(i)
  BY DEF ResetPatternRows, FinishResetPatterns, ResetServiceRows,
         FinishResetServices, RequestInv, ResetStates
<1> QED
  BY <1>1, <1>2, <1>3 DEF RequestSteps

LEMMA QuietRest ==
  ASSUME Parts,
         \/ UNCHANGED vars \/ GraceElapses \/ \E i \in Instances : Kill(i)
  PROVE  Quiet
<1>1. CASE UNCHANGED vars
  BY <1>1 DEF vars, learning, database, Quiet
<1>2. CASE GraceElapses
  BY <1>2 DEF GraceElapses, learning, Quiet
<1>3. ASSUME NEW i \in Instances, Kill(i)
      PROVE  Quiet
  BY <1>3 DEF Kill, Forget, database, Quiet, Parts, MemoryOK
<1> QED
  BY <1>1, <1>2, <1>3

(* Where every partition row has its shared row, a start loads all of it. *)
LEMMA LoadedCount ==
  ASSUME Parts, RowsInv, NEW i \in Instances, NEW p \in Patterns
  PROVE  Load(i, p).count = ChosenCount(i, p)
<1>1. root[p] \in RootRow /\ ~root[p].shadow
  BY DEF Parts, DatabaseOK, RowsInv
<1>2. ChosenCount(i, p) \in 0..MaxCount
  BY ChosenCountType DEF Parts, DatabaseOK
<1>3. ~ChosenRoot(p).shadow
  BY <1>1 DEF ChosenRoot, NoRoot
<1>4. ChosenCount(i, p) > 0 => ChosenRoot(p).there
  <2>1. row[i][p] > 0 => root[p].there
    BY DEF RowsInv
  <2> QED
    BY <2>1 DEF ChosenCount, ChosenRoot, NoRoot
<1>5. CASE ChosenCount(i, p) > 0
  BY <1>3, <1>4, <1>5 DEF Load
<1>6. CASE ~(ChosenCount(i, p) > 0)
  <2>1. ChosenCount(i, p) = 0
    BY <1>2, <1>6, Bounds
  <2> QED
    BY <1>6, <2>1 DEF Load, NoPattern
<1> QED
  BY <1>5, <1>6

LEMMA StartStored ==
  ASSUME Parts, RowsInv, MemoryInv, NEW i \in Instances, Start(i)
  PROVE  RowsInv' /\ MemoryInv'
<1>1. UNCHANGED <<root, row, legacy, dirty>>
  BY DEF Start, database
<1>2. RowsInv'
  BY <1>1 DEF RowsInv
<1>3. \A j \in Instances, p \in Patterns : ChosenCount(j, p)' = ChosenCount(j, p)
  BY <1>1 DEF ChosenCount
<1>4. \A p \in Patterns : patterns'[i][p].count = ChosenCount(i, p)
  BY LoadedCount DEF Start, Parts, MemoryOK
<1>5. \A j \in Instances \ {i} : up'[j] = up[j] /\ patterns'[j] = patterns[j]
  BY DEF Start, Parts, MemoryOK
<1>6. MemoryInv'
  BY <1>1, <1>3, <1>4, <1>5 DEF MemoryInv
<1> QED
  BY <1>2, <1>6

LEMMA UpsertStored ==
  ASSUME Parts, RowsInv, MemoryInv, NEW i \in Instances, NEW p \in Patterns,
         Upsert(i, p)
  PROVE  RowsInv' /\ MemoryInv'
<1>1. UNCHANGED <<root, row, legacy, up>>
  BY DEF Upsert, database
<1>2. RowsInv'
  BY <1>1 DEF RowsInv
<1>3. \A j \in Instances, q \in Patterns : ChosenCount(j, q)' = ChosenCount(j, q)
  BY <1>1 DEF ChosenCount
<1>4. patterns'[i][p].count # 0
  <2>1. patterns[i][p] \in Pattern
    BY DEF Parts, MemoryOK
  <2>2. patterns[i][p].count \in Nat
    BY <2>1, Bounds DEF Pattern
  <2>3. patterns'[i][p].count = patterns[i][p].count + 1
    BY DEF Upsert, Parts, MemoryOK
  <2> QED
    BY <2>2, <2>3
<1>5. \A j \in Instances, q \in Patterns :
        j # i \/ q # p => patterns'[j][q] = patterns[j][q]
  BY DEF Upsert, Parts, MemoryOK
<1>6. dirty'[i] /\ \A j \in Instances \ {i} : dirty'[j] = dirty[j]
  BY DEF Upsert, Parts, MemoryOK
<1>7. MemoryInv'
  BY <1>1, <1>3, <1>4, <1>5, <1>6 DEF MemoryInv
<1> QED
  BY <1>2, <1>7

LEMMA PersistRows ==
  ASSUME Parts, RowsInv, NEW i \in Instances, PersistAll(i)
  PROVE  RowsInv'
<1>1. ASSUME NEW p \in Patterns
      PROVE  /\ ~root'[p].shadow /\ ~root'[p].reset
             /\ root[p].there => root'[p].there
             /\ patterns[i][p].count # 0 => root'[p].there
  <2>1. root[p] \in RootRow /\ ~root[p].shadow /\ ~root[p].reset
    BY DEF Parts, DatabaseOK, RowsInv
  <2>2. /\ ChosenRoot(p) \in RootRow
        /\ ~ChosenRoot(p).shadow /\ ~ChosenRoot(p).reset
    BY <2>1, ChosenRootType DEF ChosenRoot, NoRoot, Parts, DatabaseOK
  <2> DEFINE new == UpsertRoot(p, patterns[i][p].service)
  <2>3. new.there /\ ~new.shadow /\ ~new.reset
    BY <2>1, <2>2 DEF UpsertRoot, RootRow
  <2>4. root'[p] = IF patterns[i][p].count = 0 THEN root[p] ELSE new
    BY DEF PersistAll
  <2> HIDE DEF new
  <2> QED
    BY <2>1, <2>3, <2>4
<1>2. ASSUME NEW j \in Instances, NEW p \in Patterns
      PROVE  \/ row'[j][p] = row[j][p]
             \/ j = i /\ patterns[i][p].count # 0
  BY DEF PersistAll, Parts, DatabaseOK
<1> QED
  BY <1>1, <1>2 DEF RowsInv

LEMMA PersistStored ==
  ASSUME Parts, RowsInv, MemoryInv, NEW i \in Instances, PersistAll(i),
         UNCHANGED legacy,
         \A j \in Instances : up'[j] =>
            up[j] /\ patterns'[j] = patterns[j] /\ (j # i => dirty'[j] = dirty[j])
  PROVE  RowsInv' /\ MemoryInv'
<1>1. RowsInv'
  BY PersistRows
<1>2. \A j \in Instances, p \in Patterns : patterns[j][p].count \in 0..MaxCount
  <2>1. \A j \in Instances, p \in Patterns : patterns[j][p] \in Pattern
    BY DEF Parts, MemoryOK
  <2> QED
    BY <2>1 DEF Pattern
<1>3. ASSUME NEW j \in Instances \ {i}, NEW p \in Patterns
      PROVE  ChosenCount(j, p)' = ChosenCount(j, p)
  <2>1. row'[j][p] = row[j][p]
    BY DEF PersistAll, Parts, DatabaseOK
  <2> QED
    BY <1>1, <2>1 DEF ChosenCount, RowsInv
<1>4. ASSUME up[i], NEW p \in Patterns
      PROVE  ChosenCount(i, p)' = patterns[i][p].count
  <2>1. row'[i][p] = IF patterns[i][p].count = 0 THEN row[i][p]
                     ELSE patterns[i][p].count
    BY DEF PersistAll, Parts, DatabaseOK
  <2>2. CASE patterns[i][p].count = 0
    <3>1. ChosenCount(i, p) = 0
      BY <1>4, <2>2 DEF MemoryInv
    <3> QED
      BY <1>1, <2>1, <2>2, <3>1 DEF ChosenCount, RowsInv
  <2>3. CASE patterns[i][p].count # 0
    BY <1>2, <2>1, <2>3, Bounds DEF ChosenCount
  <2> QED
    BY <2>2, <2>3
<1>5. MemoryInv'
  BY <1>3, <1>4 DEF MemoryInv
<1> QED
  BY <1>1, <1>5

LEMMA RequestToKeeps ==
  ASSUME Parts, RequestInv, NEW i \in Instances, NEW at, NEW id,
         RequestTo(i, at, id), at \notin ResetStates
  PROVE  RequestInv'
<1>1. \A j \in Instances :
        request'[j] = IF j = i THEN [at |-> at, id |-> id] ELSE request[j]
  BY DEF RequestTo, Parts, ControlOK
<1>2. \A j \in Instances : request'[j].at \notin ResetStates
  BY <1>1 DEF RequestInv
<1> QED
  BY <1>2 DEF RequestInv

LEMMA RequestNext ==
  ASSUME Parts, NoResets, RequestInv, [Next]_vars
  PROVE  RequestInv'
<1> USE DEF Parts, ControlOK, RequestInv, ResetStates
<1>1. CASE UNCHANGED vars
  BY <1>1 DEF vars
<1>2. CASE GraceElapses
  BY <1>2 DEF GraceElapses
<1>3. ASSUME NEW i \in Instances,
             \/ Start(i) \/ Sightings(i) \/ PromotionSteps(i) \/ Persist(i)
      PROVE  RequestInv'
  <2>1. UNCHANGED request
    BY <1>3 DEF Start, Sightings, Upsert, RegisterService, PromotionSteps,
                Promote, MarkKnown, CurateMarkKnown, CacheMarked, Persist
  <2> QED
    BY <2>1
<1>4. ASSUME NEW i \in Instances, Shutdown(i) \/ Kill(i)
      PROVE  RequestInv'
  <2>1. request' = [request EXCEPT ![i] = Idle]
    BY <1>4 DEF Shutdown, Kill, Forget
  <2> QED
    BY <2>1 DEF Idle
<1>5. ASSUME NEW i \in Instances, Requests(i)
      PROVE  RequestInv'
  <2>1. ASSUME NEW p \in Patterns, Reassign(i, p)
        PROVE  RequestInv'
    <3>1. RequestTo(i, "reassigning", p) \/ UNCHANGED request
      BY <2>1 DEF Reassign
    <3> QED
      BY <3>1, RequestToKeeps
  <2>2. ASSUME NEW s \in Services,
               NEW kind \in {"end_grace", "restart_grace"},
               ControlGrace(i, s, kind)
        PROVE  RequestInv'
    <3>1. RequestTo(i, kind, s) \/ UNCHANGED request
      BY <2>2 DEF ControlGrace
    <3> QED
      BY <3>1, RequestToKeeps
  <2>3. CASE UNCHANGED request
    BY <2>3
  <2> QED
    BY <1>5, <2>1, <2>2, <2>3
       DEF Requests, Label, Delete, CreateService, DeleteService,
           RenameService, ResetPatterns, ResetServices, Edit, NoResets,
           OneStatement
<1>6. ASSUME NEW i \in Instances, RequestSteps(i)
      PROVE  RequestInv'
  <2>1. RequestDone(i)
    BY <1>6 DEF RequestSteps, ReassignMemory, ControlGraceMemory,
                ResetPatternRows, FinishResetPatterns, ResetServiceRows,
                FinishResetServices
  <2> QED
    BY <2>1 DEF RequestDone, Idle
<1> QED
  BY <1>1, <1>2, <1>3, <1>4, <1>5, <1>6 DEF Next

LEMMA StoredNext ==
  ASSUME Parts, NoResets, StoredInv, [Next]_vars
  PROVE  StoredInv'
<1> USE DEF StoredInv
<1>1. RequestInv'
  BY RequestNext
<1>2. CASE \/ UNCHANGED vars \/ GraceElapses
           \/ \E i \in Instances :
                 Kill(i) \/ PromotionSteps(i) \/ Requests(i) \/ RequestSteps(i)
  BY <1>1, <1>2, QuietStep, QuietRest, QuietWorker, QuietRequest,
     QuietRequestStep
<1>3. ASSUME NEW i \in Instances, Start(i)
      PROVE  StoredInv'
  BY <1>1, <1>3, StartStored
<1>4. ASSUME NEW i \in Instances, Sightings(i)
      PROVE  StoredInv'
  BY <1>1, <1>4, UpsertStored, QuietWorker, QuietStep DEF Sightings
<1>5. ASSUME NEW i \in Instances, Persist(i)
      PROVE  StoredInv'
  <2>1. CASE PersistAll(i)
    <3>1. /\ UNCHANGED <<legacy, up, patterns>>
          /\ \A j \in Instances \ {i} : dirty'[j] = dirty[j]
      BY <1>5 DEF Persist, Parts, MemoryOK
    <3> QED
      BY <1>1, <2>1, <3>1, PersistStored
  <2>2. CASE UNCHANGED <<database, dirty>>
    <3>1. Quiet
      BY <1>5, <2>2 DEF Persist, Quiet, database
    <3> QED
      BY <1>1, <3>1, QuietStep
  <2> QED
    BY <1>5, <2>1, <2>2 DEF Persist
<1>6. ASSUME NEW i \in Instances, Shutdown(i)
      PROVE  StoredInv'
  <2>1. /\ UNCHANGED legacy /\ ~up'[i]
        /\ \A j \in Instances \ {i} : /\ up'[j] = up[j]
                                      /\ patterns'[j] = patterns[j]
                                      /\ dirty'[j] = dirty[j]
    BY <1>6 DEF Shutdown, Forget, Parts, MemoryOK
  <2>2. CASE PersistAll(i)
    BY <1>1, <2>1, <2>2, PersistStored
  <2>3. CASE UNCHANGED database
    <3>1. Quiet
      BY <2>1, <2>3 DEF Quiet, database
    <3> QED
      BY <1>1, <3>1, QuietStep
  <2> QED
    BY <1>6, <2>2, <2>3 DEF Shutdown
<1> QED
  BY <1>2, <1>3, <1>4, <1>5, <1>6 DEF Next

(* A replica that says it is clean holds nothing that a stop would lose, if
   no reset is ever made: ResetServices drops the flag with the learned
   patterns still unsaved. *)
THEOREM CleanIsStoredAlways ==
  ASSUME NoResets
  PROVE  Spec => []CleanIsStored
<1>1. Init => StoredInv
  <2> SUFFICES ASSUME Init PROVE StoredInv
    OBVIOUS
  <2>1. RowsInv
    <3>1. \A p \in Patterns : ~root[p].shadow /\ ~root[p].reset
      BY DEF Init, NoRoot
    <3>2. \A i \in Instances, p \in Patterns : row[i][p] = 0
      BY DEF Init
    <3> QED
      BY <3>1, <3>2 DEF RowsInv
  <2>2. MemoryInv /\ RequestInv
    BY DEF Init, MemoryInv, RequestInv, ResetStates, Idle
  <2> QED
    BY <2>1, <2>2 DEF StoredInv
<1>2. Parts /\ StoredInv /\ [Next]_vars => StoredInv'
  BY StoredNext
<1>3. StoredInv => CleanIsStored
  BY DEF StoredInv, MemoryInv, CleanIsStored
<1> QED
  BY <1>1, <1>2, <1>3, PartsAlways, PTL DEF Spec
=============================================================================
