---------------------------- MODULE CatalogStore ----------------------------
(***************************************************************************)
(* The pattern catalog of several replicas over one Postgres database.     *)
(*                                                                         *)
(* Every replica (Catalog, pkg/agent/catalog.go) learns into its own       *)
(* memory and now and then persists the whole working set through the      *)
(* store (pgCatalogStore, catalog_pg_store.go).  What is learned goes to   *)
(* rows only this replica writes (vs_logs, keyed by its index); what is    *)
(* curated is shared by the fleet (vs_patterns, vs_services) and is        *)
(* written by operators, through any replica, and by the promotion of a    *)
(* pattern seen often enough.  A write organization may shadow the rows    *)
(* of a legacy one, which it reads and never writes (modelled for patterns; *)
(* the services of a legacy organization are left out).                    *)
(***************************************************************************)
EXTENDS Naturals

CONSTANTS
  Instances,         \* the replicas, each the only writer of its partition
  Patterns,          \* ids of log patterns
  Services,          \* names of services
  AutoPromoteAfter,  \* agent.catalog.auto_promote_after
  LegacyRoots,       \* what the legacy organization may hold for a pattern
  Edits,             \* the operator's edits this instance of the model has
  MaxCount,          \* bound: sightings of a pattern by one replica
  MaxEdits,          \* bound: operator edits
  MaxKills,          \* bound: processes killed or stopped
  MaxFaults          \* bound: failing database calls

EditKinds == {"label", "delete", "reassign", "reset_patterns",
              "reset_services", "create", "rename", "delete_service",
              "end_grace", "restart_grace"}

ASSUME CatalogAssumption ==
  /\ AutoPromoteAfter \in Nat \ {0}
  /\ MaxCount \in Nat /\ MaxEdits \in Nat /\ MaxKills \in Nat
  /\ MaxFaults \in Nat /\ Edits \subseteq EditKinds
  /\ LegacyRoots \subseteq
       [there : BOOLEAN, verdict : {"", "known"}, deleted : BOOLEAN,
        count : 0..MaxCount]

NoId == "no id"

VARIABLES
  patterns,   \* Catalog.patterns of each replica; count 0: not in the map
  services,   \* Catalog.services of each replica
  dirty,      \* Catalog.dirty
  marked,     \* pgCatalogStore.markedKnown
  up,         \* the process runs
  worker,     \* where the worker goroutine is inside Promote, and for what
  request,    \* where the admin request of the replica is, and for what
  rules,      \* the reassignments the replica's override store knows
  ruleBlob,   \* the reassignments in the override blob
  root,       \* vs_patterns, the rows of the write organization
  row,        \* vs_logs: the count in each replica's partition
  svc,        \* vs_services, the rows of the write organization
  legacy,     \* root and partition of the legacy organization
  edits, kills, faults,
  since,      \* history: sightings since the patterns were last reset
  buried,     \* history: shown patterns the operator deleted
  curated,    \* history: the last word on the verdict of a stored pattern
  reassigned, \* history: patterns whose reassignment was carried out
  owned,      \* history: what the operator did to a service
  ended       \* history: services whose grace an operator ended

learning == <<patterns, dirty, marked, worker>>
history == <<since, buried, curated, reassigned, owned, ended>>
bounds == <<edits, kills, faults>>
database == <<root, row, svc>>
vars == <<learning, services, up, request, rules, ruleBlob, database, legacy,
          bounds, history>>

-----------------------------------------------------------------------------
(* Records *)

Verdicts == {"", "known"}
Attributions == {"", "detected", "reassigned"}
FirstSeens == {"zero", "old", "new"}  \* the zero time, out of grace, in grace

Pattern == [count : 0..MaxCount, verdict : Verdicts, service : Attributions]
ServiceInfo == [there : BOOLEAN, first : FirstSeens, manual : BOOLEAN]
RootRow == [there : BOOLEAN, verdict : Verdicts, deleted : BOOLEAN,
            shadow : BOOLEAN, reset : BOOLEAN, service : Attributions]
ServiceRow == [there : BOOLEAN, first : FirstSeens, manual : BOOLEAN,
               deleted : BOOLEAN]

NoPattern == [count |-> 0, verdict |-> "", service |-> ""]
NoService == [there |-> FALSE, first |-> "zero", manual |-> FALSE]
NoRoot == [there |-> FALSE, verdict |-> "", deleted |-> FALSE,
           shadow |-> FALSE, reset |-> FALSE, service |-> ""]
NoServiceRow == [there |-> FALSE, first |-> "zero", manual |-> FALSE,
                 deleted |-> FALSE]

Idle == [at |-> "idle", id |-> NoId]

-----------------------------------------------------------------------------
(* Reads *)

(* ranked_patterns, precedence 1: the write organization's row if there is
   one, else the legacy one. *)
ChosenRoot(p) ==
  IF root[p].there THEN root[p]
  ELSE [NoRoot EXCEPT !.there = legacy[p].there,
                      !.verdict = legacy[p].verdict,
                      !.deleted = legacy[p].deleted]

(* chosen_logs: a partition of the write organization hides the legacy one
   of the same replica, and a legacy one is older than any reset.  The
   legacy deployment had one process, whose partition each replica's index
   may fall on: LegacyIndex is the replica that has its index. *)
LegacyIndex == CHOOSE i \in Instances : TRUE

ChosenCount(i, p) ==
  IF row[i][p] > 0 THEN row[i][p]
  ELSE IF i = LegacyIndex /\ legacy[p].there /\ ~root[p].reset
       THEN legacy[p].count ELSE 0

(* The fleet's read view: Snapshot, and the page and lookup queries. *)
Shown(p) ==
  /\ ChosenRoot(p).there /\ ~ChosenRoot(p).deleted
  /\ \E i \in Instances : ChosenCount(i, p) > 0

ShownService(s) == svc[s].there /\ ~svc[s].deleted

\* Mutant of Load: every replica reads the first partition.
LoadFirstPartition(i, p) ==
  LET r == ChosenRoot(p)
      n == ChosenCount(LegacyIndex, p) IN
  IF r.there /\ ~r.shadow /\ n > 0
  THEN [count |-> n, service |-> r.service,
        verdict |-> IF r.deleted THEN "known" ELSE r.verdict]
  ELSE NoPattern

(* Load: this replica's partition under the curated columns, a tombstone
   folded into the verdict. *)
Load(i, p) ==
  LET r == ChosenRoot(p) IN
  IF r.there /\ ~r.shadow /\ ChosenCount(i, p) > 0
  THEN [count |-> ChosenCount(i, p), service |-> r.service,
        verdict |-> IF r.deleted THEN "known" ELSE r.verdict]
  ELSE NoPattern

LoadService(s) ==
  IF ShownService(s)
  THEN [there |-> TRUE, first |-> svc[s].first, manual |-> svc[s].manual]
  ELSE NoService

IsLogKnown(m) == m.verdict = "known" \/ m.count >= AutoPromoteAfter

-----------------------------------------------------------------------------
Init ==
  /\ legacy \in [Patterns -> LegacyRoots]
  /\ root = [p \in Patterns |-> NoRoot]
  /\ row = [i \in Instances |-> [p \in Patterns |-> 0]]
  /\ svc = [s \in Services |-> NoServiceRow]
  /\ patterns = [i \in Instances |-> [p \in Patterns |-> NoPattern]]
  /\ services = [i \in Instances |-> [s \in Services |-> NoService]]
  /\ dirty = [i \in Instances |-> FALSE]
  /\ marked = [i \in Instances |-> {}]
  /\ up = [i \in Instances |-> FALSE]
  /\ worker = [i \in Instances |-> Idle]
  /\ request = [i \in Instances |-> Idle]
  /\ rules = [i \in Instances |-> {}] /\ ruleBlob = {}
  /\ edits = 0 /\ kills = 0 /\ faults = 0
  /\ since = [p \in Patterns |-> legacy[p].count]
  /\ buried = {} /\ reassigned = {}
  /\ ended = [s \in Services |-> "no"]
  /\ curated = [p \in Patterns |-> "none"]
  /\ owned = [s \in Services |-> "none"]

(* A database call fails: nothing of its statement or transaction stays. *)
Fault == faults < MaxFaults /\ faults' = faults + 1
NoFault == UNCHANGED faults

-----------------------------------------------------------------------------
(* The worker *)

(* LoadCatalog at boot. *)
Start(i) ==
  /\ ~up[i]
  /\ up' = [up EXCEPT ![i] = TRUE]
  /\ patterns' = [patterns EXCEPT ![i] = [p \in Patterns |-> Load(i, p)]]
  /\ services' = [services EXCEPT ![i] =
                    [s \in Services |-> LoadService(s)]]
  /\ rules' = [rules EXCEPT ![i] = ruleBlob]
  /\ UNCHANGED <<dirty, marked, worker, request, ruleBlob, database, legacy,
                 bounds, history>>

Working(i) == up[i] /\ worker[i].at = "idle"

\* Mutant of Attribution: the override is not consulted.
AttributionDetected(i, p) == "detected"

(* ResolveServiceOverride in Group: the detected service unless this replica
   knows a reassignment. *)
Attribution(i, p) == IF p \in rules[i] THEN "reassigned" ELSE "detected"

(* logBrain.Learn and Catalog.Upsert: one sighting, which never touches the
   verdict. *)
Upsert(i, p) ==
  LET m == patterns[i][p] IN
  /\ Working(i) /\ m.count < MaxCount
  /\ patterns' = [patterns EXCEPT ![i][p] =
       [count |-> m.count + 1, verdict |-> m.verdict,
        service |-> Attribution(i, p)]]
  /\ dirty' = [dirty EXCEPT ![i] = TRUE]
  /\ worker' = [worker EXCEPT ![i] = [at |-> "learnt", id |-> p]]
  /\ since' = [since EXCEPT ![p] = @ + 1]
  /\ UNCHANGED <<marked, services, up, request, rules, ruleBlob, database,
                 legacy, bounds, buried, curated, reassigned, owned, ended>>

\* Mutant of WorkerDone: the key of the observation is kept.
WorkerDoneKeepsId(i) == worker' = [worker EXCEPT ![i].at = "idle"]

WorkerTo(i, at) == worker' = [worker EXCEPT ![i].at = at]
WorkerDone(i) == worker' = [worker EXCEPT ![i] = Idle]

(* Promote: the pattern is read, and the crossing decided on the copy. *)
Promote(i) ==
  LET m == patterns[i][worker[i].id] IN
  /\ up[i] /\ worker[i].at = "learnt"
  /\ IF m.count > 0 /\ m.verdict # "known" /\ IsLogKnown(m)
     THEN WorkerTo(i, "promoting") ELSE WorkerDone(i)
  /\ UNCHANGED <<patterns, dirty, marked, services, up, request, rules,
                 ruleBlob, database, legacy, bounds, history>>

(* MarkKnown, the memory: a reset may have taken the pattern away. *)
MarkKnown(i) ==
  LET p == worker[i].id
      changed == patterns[i][p].count > 0 /\ patterns[i][p].verdict # "known"
  IN
  /\ up[i] /\ worker[i].at = "promoting"
  /\ patterns' = IF changed
                 THEN [patterns EXCEPT ![i][p].verdict = "known"]
                 ELSE patterns
  /\ dirty' = [dirty EXCEPT ![i] = @ \/ changed]
  /\ WorkerTo(i, "curating")
  /\ UNCHANGED <<marked, services, up, request, rules, ruleBlob, database,
                 legacy, bounds, history>>

\* Mutant of KnownRoot: an UPDATE, which matches no row before the first persist.
KnownRootUpdate(r) == IF r.there THEN [r EXCEPT !.verdict = "known"] ELSE r

(* sqlCurateMarkKnown: an upsert of the verdict alone. *)
KnownRoot(r) == [r EXCEPT !.there = TRUE, !.verdict = "known"]

(* Curate(MarkKnown): skipped when cached, and its error is dropped. *)
CurateMarkKnown(i) ==
  LET p == worker[i].id IN
  /\ up[i] /\ worker[i].at = "curating"
  /\ \/ /\ p \in marked[i]
        /\ WorkerDone(i) /\ NoFault /\ UNCHANGED <<root, curated>>
     \/ /\ p \notin marked[i]
        /\ root' = [root EXCEPT ![p] = KnownRoot(@)]
        /\ curated' = [curated EXCEPT ![p] = "known"]
        /\ WorkerTo(i, "caching") /\ NoFault
     \/ /\ p \notin marked[i] /\ Fault
        /\ WorkerDone(i) /\ UNCHANGED <<root, curated>>
  /\ UNCHANGED <<patterns, dirty, marked, services, up, request, rules,
                 ruleBlob, row, svc, legacy, edits, kills, since, buried,
                 reassigned, owned, ended>>

CacheMarked(i) ==
  /\ up[i] /\ worker[i].at = "caching"
  /\ marked' = [marked EXCEPT ![i] = @ \cup {worker[i].id}]
  /\ WorkerDone(i)
  /\ UNCHANGED <<patterns, dirty, services, up, request, rules, ruleBlob,
                 database, legacy, bounds, history>>

(* RegisterService, from grouping or the grace check. *)
RegisterService(i, s) ==
  /\ Working(i) /\ ~services[i][s].there
  /\ services' = [services EXCEPT ![i][s] =
                    [there |-> TRUE, first |-> "new", manual |-> FALSE]]
  /\ dirty' = [dirty EXCEPT ![i] = TRUE]
  /\ UNCHANGED <<patterns, marked, worker, up, request, rules, ruleBlob,
                 database, legacy, bounds, history>>

(* The grace window of everything first seen so far passes. *)
Aged(first) == IF first = "new" THEN "old" ELSE first
GraceElapses ==
  /\ services' = [i \in Instances |-> [s \in Services |->
                    [services[i][s] EXCEPT !.first = Aged(@)]]]
  /\ svc' = [s \in Services |-> [svc[s] EXCEPT !.first = Aged(@)]]
  /\ <<services, svc>>' # <<services, svc>>
  /\ UNCHANGED <<learning, up, request, rules, ruleBlob, root, row, legacy,
                 bounds, history>>

-----------------------------------------------------------------------------
(* Persist *)

\* Mutant of UpsertRoot: whatever is learned again is revived.
UpsertRootRevives(p, service) ==
  [ChosenRoot(p) EXCEPT !.there = TRUE, !.service = service,
                        !.deleted = FALSE, !.shadow = FALSE]

(* sqlCatalogUpsertRoot: a first row copies the curated columns of the
   highest root in scope; an existing one takes a real attribution, and is
   revived if it is the shadow of a reset. *)
UpsertRoot(p, service) ==
  LET old == root[p] IN
  IF old.there
  THEN [old EXCEPT !.service = IF service # "" THEN service ELSE @,
                   !.deleted = @ /\ ~old.shadow,
                   !.shadow = FALSE]
  ELSE [ChosenRoot(p) EXCEPT !.there = TRUE, !.service = service]

\* Mutants of UpsertService: a tombstone is revived; the row is overwritten.
UpsertServiceRevives(s, info) ==
  IF svc[s].there /\ ~svc[s].deleted THEN svc[s]
  ELSE [there |-> TRUE, manual |-> info.manual, deleted |-> FALSE,
        first |-> info.first]
UpsertServiceOverwrites(s, info) ==
  [svc[s] EXCEPT !.there = TRUE,
                 !.first = IF info.first = "zero" THEN "new" ELSE info.first]

(* sqlCatalogInsertServiceIfAbsent, with utcOrNow for a zero time. *)
UpsertService(s, info) ==
  IF svc[s].there THEN svc[s]
  ELSE [there |-> TRUE, manual |-> info.manual, deleted |-> FALSE,
        first |-> IF info.first = "zero" THEN "new" ELSE info.first]

(* The transaction of pgCatalogStore.Persist: every pattern and service of
   the working set. *)
PersistAll(i) ==
  /\ root' = [p \in Patterns |->
                IF patterns[i][p].count = 0 THEN root[p]
                ELSE UpsertRoot(p, patterns[i][p].service)]
  /\ row' = [row EXCEPT ![i] = [p \in Patterns |->
                IF patterns[i][p].count = 0 THEN @[p]
                ELSE patterns[i][p].count]]
  /\ svc' = [s \in Services |->
               IF services[i][s].there
               THEN UpsertService(s, services[i][s]) ELSE svc[s]]

(* The persist ticker.  The catalog's lock is held throughout. *)
Persist(i) ==
  /\ Working(i) /\ dirty[i]
  /\ \/ PersistAll(i) /\ NoFault /\ dirty' = [dirty EXCEPT ![i] = FALSE]
     \/ Fault /\ UNCHANGED <<database, dirty>>
  /\ UNCHANGED <<patterns, marked, worker, services, up, request, rules,
                 ruleBlob, legacy, edits, kills, history>>

Forget(i) ==
  /\ up' = [up EXCEPT ![i] = FALSE]
  /\ patterns' = [patterns EXCEPT ![i] = [p \in Patterns |-> NoPattern]]
  /\ services' = [services EXCEPT ![i] = [s \in Services |-> NoService]]
  /\ dirty' = [dirty EXCEPT ![i] = FALSE]
  /\ marked' = [marked EXCEPT ![i] = {}]
  /\ worker' = [worker EXCEPT ![i] = Idle]
  /\ request' = [request EXCEPT ![i] = Idle]
  /\ rules' = [rules EXCEPT ![i] = {}]
  /\ kills < MaxKills /\ kills' = kills + 1

(* The context is cancelled: a last flush, then the process ends. *)
Shutdown(i) ==
  /\ Working(i)
  /\ IF dirty[i]
     THEN \/ PersistAll(i) /\ NoFault
          \/ Fault /\ UNCHANGED database
     ELSE NoFault /\ UNCHANGED database
  /\ Forget(i)
  /\ UNCHANGED <<ruleBlob, legacy, edits, history>>

Kill(i) ==
  /\ up[i] /\ Forget(i)
  /\ UNCHANGED <<ruleBlob, database, legacy, edits, faults, history>>

-----------------------------------------------------------------------------
(* The operator, through the admin API of one replica *)

Edit(i, kind) ==
  /\ up[i] /\ request[i].at = "idle" /\ kind \in Edits
  /\ edits < MaxEdits /\ edits' = edits + 1

(* A request in one step leaves the learning goroutine and memory alone. *)
OneStatement ==
  UNCHANGED <<patterns, dirty, worker, services, up, request, rules,
              ruleBlob, row, legacy, kills, since, reassigned>>

(* updatePattern, Curate(Label): only the shared row.  It matches nothing
   when no row has been written, and says so to nobody. *)
Label(i, p, verdict) ==
  /\ Edit(i, "label")
  /\ \/ /\ root' = [root EXCEPT ![p].verdict =
                      IF root[p].there THEN verdict ELSE @]
        /\ marked' = [marked EXCEPT ![i] =
                        IF verdict = "known" THEN @ ELSE @ \ {p}]
        /\ curated' = [curated EXCEPT ![p] =
              IF ~root[p].there THEN @
              ELSE IF verdict = "known" THEN "known" ELSE "cleared"]
        /\ NoFault
     \/ Fault /\ UNCHANGED <<root, marked, curated>>
  /\ OneStatement /\ UNCHANGED <<svc, buried, owned, ended>>

(* deletePattern, Curate(Delete): a tombstone in the write organization. *)
Tombstone(r) ==
  IF r.there THEN [r EXCEPT !.deleted = TRUE, !.shadow = FALSE] ELSE r

Delete(i, p) ==
  /\ Edit(i, "delete")
  /\ \/ /\ root' = [root EXCEPT ![p] = Tombstone(@)]
        /\ buried' = IF Shown(p) THEN buried \cup {p} ELSE buried
        /\ NoFault
     \/ Fault /\ UNCHANGED <<root, buried>>
  /\ OneStatement /\ UNCHANGED <<svc, marked, curated, owned, ended>>

RequestTo(i, at, id) ==
  request' = [request EXCEPT ![i] = [at |-> at, id |-> id]]
RequestDone(i) == request' = [request EXCEPT ![i] = Idle]

(* createServiceOverride: the rule is stored, then RepointService updates
   the shared row ... *)
Reassign(i, p) ==
  /\ Edit(i, "reassign")
  /\ rules' = [rules EXCEPT ![i] = @ \cup {p}]
  /\ ruleBlob' = ruleBlob \cup {p}
  /\ \/ /\ root' = [root EXCEPT ![p].service =
                      IF root[p].there THEN "reassigned" ELSE @]
        /\ RequestTo(i, "reassigning", p) /\ NoFault
     \/ Fault /\ UNCHANGED <<root, request>>
  /\ UNCHANGED <<learning, services, up, row, svc, legacy, kills, history>>

(* ... and then the memory of this replica. *)
ReassignMemory(i) ==
  LET p == request[i].id IN
  /\ up[i] /\ request[i].at = "reassigning"
  /\ IF patterns[i][p].count > 0
     THEN /\ patterns' = [patterns EXCEPT ![i][p].service = "reassigned"]
          /\ dirty' = [dirty EXCEPT ![i] =
                         @ \/ patterns[i][p].service # "reassigned"]
     ELSE UNCHANGED <<patterns, dirty>>
  /\ reassigned' =
       IF patterns[i][p].count > 0 \/ root[p].service = "reassigned"
       THEN reassigned \cup {p} ELSE reassigned
  /\ RequestDone(i)
  /\ UNCHANGED <<marked, worker, services, up, rules, ruleBlob, database,
                 legacy, bounds, since, buried, curated, owned, ended>>

(* ResetPatterns empties the memory first ... *)
ResetPatterns(i) ==
  /\ Edit(i, "reset_patterns")
  /\ patterns' = [patterns EXCEPT ![i] = [p \in Patterns |-> NoPattern]]
  /\ dirty' = [dirty EXCEPT ![i] = TRUE]
  /\ RequestTo(i, "patterns cleared", NoId)
  /\ reassigned' = {}
  /\ UNCHANGED <<marked, worker, services, up, rules, ruleBlob, database,
                 legacy, kills, faults, since, buried, curated, owned, ended>>

\* Mutant of ResetRoot: nothing hides the legacy rows.
ResetRootUnshadowed(p) == NoRoot

(* The transaction of resetPatternsInScope: the write organization's rows
   go, their partitions with them (ON DELETE CASCADE), and a shadow hides
   every legacy one. *)
ResetRoot(p) ==
  IF legacy[p].there
  THEN [NoRoot EXCEPT !.there = TRUE, !.deleted = TRUE, !.shadow = TRUE,
                      !.reset = TRUE]
  ELSE NoRoot

ResetPatternRows(i) ==
  /\ up[i] /\ request[i].at = "patterns cleared"
  /\ \/ /\ root' = [p \in Patterns |-> ResetRoot(p)]
        /\ row' = [j \in Instances |-> [p \in Patterns |-> 0]]
        /\ since' = [p \in Patterns |-> patterns[i][p].count]
        /\ buried' = {} /\ curated' = [p \in Patterns |-> "none"]
        /\ RequestTo(i, "patterns reset", NoId) /\ NoFault
     \/ /\ Fault /\ RequestDone(i)
        /\ UNCHANGED <<root, row, since, buried, curated>>
  /\ UNCHANGED <<learning, services, up, rules, ruleBlob, svc, legacy,
                 edits, kills, reassigned, owned, ended>>

(* ... and last forgets what it has marked and that memory is dirty. *)
FinishResetPatterns(i) ==
  /\ up[i] /\ request[i].at = "patterns reset"
  /\ marked' = [marked EXCEPT ![i] = {}]
  /\ dirty' = [dirty EXCEPT ![i] = FALSE]
  /\ RequestDone(i)
  /\ UNCHANGED <<patterns, worker, services, up, rules, ruleBlob, database,
                 legacy, bounds, history>>

ResetServices(i) ==
  /\ Edit(i, "reset_services")
  /\ services' = [services EXCEPT ![i] = [s \in Services |-> NoService]]
  /\ dirty' = [dirty EXCEPT ![i] = TRUE]
  /\ RequestTo(i, "services cleared", NoId)
  /\ UNCHANGED <<patterns, marked, worker, up, rules, ruleBlob, database,
                 legacy, kills, faults, history>>

ResetServiceRows(i) ==
  /\ up[i] /\ request[i].at = "services cleared"
  /\ \/ /\ svc' = [s \in Services |-> NoServiceRow]
        /\ owned' = [s \in Services |-> "none"]
        /\ ended' = [s \in Services |-> "no"]
        /\ RequestTo(i, "services reset", NoId) /\ NoFault
     \/ Fault /\ RequestDone(i) /\ UNCHANGED <<svc, owned, ended>>
  /\ UNCHANGED <<learning, services, up, rules, ruleBlob, root, row, legacy,
                 edits, kills, since, buried, curated, reassigned>>

FinishResetServices(i) ==
  /\ up[i] /\ request[i].at = "services reset"
  /\ dirty' = [dirty EXCEPT ![i] = FALSE]
  /\ RequestDone(i)
  /\ UNCHANGED <<patterns, marked, worker, services, up, rules, ruleBlob,
                 database, legacy, bounds, history>>

(* createService: the name must not be shown. *)
CreateService(i, s) ==
  /\ Edit(i, "create") /\ ~ShownService(s)
  /\ \/ /\ svc' = [svc EXCEPT ![s] =
              [there |-> TRUE, first |-> "new", manual |-> TRUE,
               deleted |-> FALSE]]
        /\ owned' = [owned EXCEPT ![s] = "made"]
        /\ ended' = [ended EXCEPT ![s] = "no"] /\ NoFault
     \/ Fault /\ UNCHANGED <<svc, owned, ended>>
  /\ OneStatement /\ UNCHANGED <<root, marked, buried, curated>>

(* renameService: a shown manual service to a name that is not shown.  The
   grace anchor moves along. *)
RenameService(i, s, t) ==
  /\ Edit(i, "rename") /\ ShownService(s) /\ svc[s].manual
  /\ ~ShownService(t)
  /\ \/ /\ svc' = [svc EXCEPT ![s].deleted = TRUE, ![t] = svc[s]]
        /\ owned' = [owned EXCEPT ![s] = "gone", ![t] = "made"]
        /\ ended' = [ended EXCEPT ![s] = "no", ![t] = ended[s]]
        /\ NoFault
     \/ Fault /\ UNCHANGED <<svc, owned, ended>>
  /\ OneStatement /\ UNCHANGED <<root, marked, buried, curated>>

(* deleteService: a shown manual service. *)
DeleteService(i, s) ==
  /\ Edit(i, "delete_service") /\ ShownService(s) /\ svc[s].manual
  /\ \/ /\ svc' = [svc EXCEPT ![s].deleted = TRUE]
        /\ owned' = [owned EXCEPT ![s] = "gone"]
        /\ ended' = [ended EXCEPT ![s] = "no"] /\ NoFault
     \/ Fault /\ UNCHANGED <<svc, owned, ended>>
  /\ OneStatement /\ UNCHANGED <<root, marked, buried, curated>>

(* controlServiceGrace: an update of the shared row, whether or not there is
   one ... *)
ControlGrace(i, s, kind) ==
  /\ Edit(i, kind)
  /\ \/ /\ svc' = [svc EXCEPT ![s].first =
              IF ~svc[s].there THEN @
              ELSE IF kind = "end_grace" THEN "zero" ELSE "new"]
        /\ ended' = [ended EXCEPT ![s] =
              IF kind = "end_grace" /\ ShownService(s) THEN "stored"
              ELSE "no"]
        /\ RequestTo(i, kind, s) /\ NoFault
     \/ Fault /\ UNCHANGED <<svc, request, ended>>
  /\ UNCHANGED <<learning, services, up, rules, ruleBlob, root, row, legacy,
                 kills, since, buried, curated, reassigned, owned>>

(* ... then setServiceFirstSeen on this replica's copy. *)
ControlGraceMemory(i) ==
  LET s == request[i].id
      ending == request[i].at = "end_grace" IN
  /\ up[i] /\ request[i].at \in {"end_grace", "restart_grace"}
  /\ services' = [services EXCEPT ![i][s].first =
                    IF ~services[i][s].there THEN @
                    ELSE IF ending THEN "zero" ELSE "new"]
  /\ RequestDone(i)
  /\ UNCHANGED <<learning, up, rules, ruleBlob, database, legacy, bounds,
                 history>>

-----------------------------------------------------------------------------
Requests(i) ==
  \/ \E p \in Patterns :
        \/ \E verdict \in Verdicts : Label(i, p, verdict)
        \/ Delete(i, p) \/ Reassign(i, p)
  \/ \E s \in Services :
        \/ CreateService(i, s) \/ DeleteService(i, s)
        \/ \E t \in Services \ {s} : RenameService(i, s, t)
        \/ \E kind \in {"end_grace", "restart_grace"} :
              ControlGrace(i, s, kind)
  \/ ResetPatterns(i) \/ ResetServices(i)

RequestSteps(i) ==
  \/ ReassignMemory(i) \/ ControlGraceMemory(i)
  \/ ResetPatternRows(i) \/ FinishResetPatterns(i)
  \/ ResetServiceRows(i) \/ FinishResetServices(i)

PromotionSteps(i) ==
  Promote(i) \/ MarkKnown(i) \/ CurateMarkKnown(i) \/ CacheMarked(i)

Sightings(i) ==
  \/ \E p \in Patterns : Upsert(i, p)
  \/ \E s \in Services : RegisterService(i, s)

Next ==
  \/ \E i \in Instances :
        \/ Start(i) \/ Sightings(i) \/ PromotionSteps(i) \/ Persist(i)
        \/ Shutdown(i) \/ Kill(i)
        \/ Requests(i) \/ RequestSteps(i)
  \/ GraceElapses

Spec == Init /\ [][Next]_vars

(* The worker goroutine runs, and its persist ticker fires; a request that
   was accepted runs to its end.  Nothing is assumed of sightings,
   operators, or of processes that stop, except that one is started. *)
Fairness ==
  \A i \in Instances :
     /\ WF_vars(Start(i)) /\ WF_vars(PromotionSteps(i))
     /\ WF_vars(Persist(i)) /\ WF_vars(RequestSteps(i))

-----------------------------------------------------------------------------
(* Properties *)

(* Every variable stays in its type. *)
TypeOK ==
  /\ patterns \in [Instances -> [Patterns -> Pattern]]
  /\ services \in [Instances -> [Services -> ServiceInfo]]
  /\ dirty \in [Instances -> BOOLEAN] /\ up \in [Instances -> BOOLEAN]
  /\ marked \in [Instances -> SUBSET Patterns]
  /\ worker \in [Instances ->
       [at : {"idle"}, id : {NoId}] \cup
       [at : {"learnt", "promoting", "curating", "caching"}, id : Patterns]]
  /\ request \in [Instances ->
       [at : {"idle", "patterns cleared", "patterns reset",
              "services cleared", "services reset"}, id : {NoId}] \cup
       [at : {"reassigning"}, id : Patterns] \cup
       [at : {"end_grace", "restart_grace"}, id : Services]]
  /\ rules \in [Instances -> SUBSET Patterns] /\ ruleBlob \subseteq Patterns
  /\ root \in [Patterns -> RootRow]
  /\ row \in [Instances -> [Patterns -> 0..MaxCount]]
  /\ svc \in [Services -> ServiceRow]
  /\ legacy \in [Patterns -> LegacyRoots]
  /\ edits \in 0..MaxEdits /\ kills \in 0..MaxKills /\ faults \in 0..MaxFaults
  /\ since \in [Patterns -> Nat]
  /\ buried \subseteq Patterns /\ reassigned \subseteq Patterns
  /\ ended \in [Services -> {"no", "stored"}]
  /\ curated \in [Patterns -> {"none", "known", "cleared"}]
  /\ owned \in [Services -> {"none", "made", "gone"}]

(* A pattern an operator deleted from the list stays out of it, whatever any
   replica learns, promotes or persists afterwards and however often it is
   restarted, until the patterns are reset. *)
TombstoneSticks == \A p \in buried : ~Shown(p)

(* A verdict that was stored (by a promotion or an operator) stays what it
   is, whichever replica persists or creates the row later; and a promotion
   that came before the first persist is not lost to it. *)
VerdictKept ==
  \A p \in Patterns :
     /\ curated[p] = "known" => root[p].there /\ root[p].verdict = "known"
     /\ curated[p] = "cleared" => root[p].verdict = ""

(* The dirty flag tells the truth: a replica that is not dirty and has no
   reset under way would load exactly the counts it holds, so that nothing
   is lost when it stops.  No other replica can write its partition. *)
CleanIsStored ==
  \A i \in Instances :
     up[i] /\ ~dirty[i] /\ request[i].at = "idle" =>
        \A p \in Patterns : patterns[i][p].count = ChosenCount(i, p)

(* After a reset the training restarts: a single replica never shows more
   sightings of a pattern than there were since, whatever the worker learns and
   persists between the steps of the reset, and no legacy partition shows
   through.  Without resets no replica shows more than all have seen. *)
TrainingRestarts ==
  \A p \in Patterns : \A i \in Instances :
     Shown(p) => ChosenCount(i, p) <= since[p]

(* A replica that is not dirty holds of the pattern what it would load. *)
FlagTellsTruth(p) ==
  \A i \in Instances :
     up[i] /\ ~dirty[i] => patterns[i][p].count = ChosenCount(i, p)

(* While its process lives, a pattern that an operator of a single replica
   reassigned is attributed as told in the shared row, or this will be so when
   the replica that holds it dirty persists: a sighting, a persist, a promotion
   or a reset between the two halves of the request does not undo it.  Excepted
   is a pattern learned while a reset was under way, whose dirty flag the end of
   the reset clears. *)
ReassignSticks ==
  kills = 0 => \A p \in reassigned : FlagTellsTruth(p) =>
     \/ root[p].there /\ root[p].service = "reassigned"
     \/ \E i \in Instances :
           up[i] /\ dirty[i] /\ patterns[i][p].service = "reassigned"

(* A service the operator made stays listed as a manual one, and one that was
   deleted or renamed away stays unlisted, whatever the replicas that still
   hold the name in memory persist. *)
OperatorServicesHold ==
  \A s \in Services :
     /\ owned[s] = "made" => ShownService(s) /\ svc[s].manual
     /\ owned[s] = "gone" => ~ShownService(s)

(* When the operator ends the grace of a listed service, the shared row keeps
   it ended through persists and renames, so that no restart begins it anew. *)
StoredGraceEndHolds ==
  \A s \in Services :
     ended[s] = "stored" => svc[s].there /\ svc[s].first = "zero"

(* While no database call fails (Curate(MarkKnown) is not retried) and the
   patterns are not reset, a pattern that a running replica has seen often
   enough becomes known in the read view, unless its verdict is cleared or it
   is deleted. *)
PromotionReachesStore ==
  [](faults = 0 /\ \A i \in Instances : request[i].at # "patterns cleared") =>
     \A i \in Instances, p \in Patterns :
        up[i] /\ patterns[i][p].count >= AutoPromoteAfter
          ~> \/ root[p].verdict = "known" \/ curated[p] = "cleared"
             \/ root[p].deleted \/ ~up[i]
=============================================================================
