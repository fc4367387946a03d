----------------------------- MODULE TailIngest -----------------------------
(***************************************************************************)
(* One log source of the agent, from the poll tick to durable storage:     *)
(*                                                                         *)
(*   pkg/agent/worker.go          Run, tickSource, commitSources           *)
(*   pkg/agent/cursors.go         CursorStore (Redis in front of memory)   *)
(*   pkg/agent/catalog.go         Upsert, Persist, LoadCatalog             *)
(*   pkg/signalsources/tailing.go TailDedup and its Redis backend          *)
(*   pkg/signalsources/elasticsearch.go, signoz.go   Pull, Commit, Rewind  *)
(*   pkg/controllers/agent.go     clearPatterns                            *)
(*                                                                         *)
(* The worker is one goroutine, so a tick, a flush and the commit that     *)
(* follows it never overlap each other; what overlaps them is the clock,   *)
(* rows becoming queryable, the admin handler that clears the catalog, and *)
(* the process being killed.  A row is a member of Rows: its text, and the *)
(* pattern it is folded into, are abstracted away.  A set of rows stands   *)
(* for the catalog content those rows produced.                            *)
(***************************************************************************)
EXTENDS Integers, FiniteSets

CONSTANTS
  Rows,             \* the documents the backend may ever hold
  NoCursor,         \* "no cursor recorded": not an integer
  MaxTime,          \* bound on the clock and on row timestamps
  ReorderWindow,    \* reorder_window: the configured lateness budget
  PersistInterval,  \* agent.catalog.persist_interval, added by NewWorker
  Lookback,         \* agent.lookback
  Backend,          \* "elasticsearch" or "signoz": whose Pull runs
  TimeOnly,         \* Elasticsearch without a tie_breaker_field
  MaxItems,         \* maximumESPullItems: new rows delivered per pull
  MaxScan,          \* rows read per pull, replayed ones included
  DedupMax,         \* defaultTailDedupMax
  MaxClears,        \* bound on admin clears
  MaxStops,         \* bound on graceful stops
  MaxKills,         \* bound on abrupt kills
  Faults            \* the external calls that may fail

FaultKinds == {"pull", "cursorGet", "cursorSet", "dedupLoad", "dedupSave",
               "persist", "catalogLoad"}

ASSUME TimesAssumption ==
  /\ MaxTime \in Nat /\ ReorderWindow \in Nat /\ PersistInterval \in Nat
  /\ Lookback \in Nat

ASSUME CursorAssumption == NoCursor \notin Int

ASSUME BudgetAssumption ==
  /\ MaxItems \in Nat /\ MaxScan \in Nat /\ DedupMax \in Nat
  /\ MaxClears \in Nat /\ MaxStops \in Nat /\ MaxKills \in Nat

ASSUME ChoiceAssumption ==
  /\ Backend \in {"elasticsearch", "signoz"}
  /\ TimeOnly \in BOOLEAN
  /\ Faults \subseteq FaultKinds

VARIABLES
  now,        \* the wall clock
  arrived,    \* rows the backend's queries can return
  ts,         \* the timestamp the producer stamped on each arrived row
  rCursor,    \* CursorStore: the Redis key of this source
  mCursor,    \* CursorStore.mem
  rIds,       \* the Redis sorted set of delivered row ids
  ids,        \* TailDedup.ids
  unsaved,    \* TailDedup.unsaved
  floor,      \* TailDedup.floor
  loaded,     \* TailDedup.loaded
  catalog,    \* rows folded into the in-memory catalog
  dirty,      \* Catalog.dirty
  stored,     \* rows in the persisted catalog
  pc,         \* where the worker's goroutine is
  stopping,   \* the worker's context is cancelled
  since,      \* tickSource: the cursor this tick started from
  batch,      \* tickSource: the rows Pull returned
  newCursor,  \* tickSource: the cursor Pull returned
  admin       \* where clearPatterns is

\* History variables: they record what happened and guard nothing but the
\* bounds MaxClears, MaxStops and MaxKills.
VARIABLES
  fresh,      \* rows that were at most ReorderWindow late when they arrived
  learnt,     \* rows some process folded into a catalog
  learntAt,   \* for each row: when, and up to which cursor, it was folded last
  twice,      \* rows folded into a catalog that already held them
  excused,    \* rows a kill or a failed save left without a durable id
  owed,       \* rows a kill must not lose
  clears,     \* admin clears started
  stops,      \* graceful stops
  kills,      \* abrupt kills
  overlap,    \* a tick and a clear overlapped
  justCleared \* a clear succeeded and no tick has started since

redis  == <<rCursor, rIds>>
dedup  == <<ids, unsaved, floor, loaded>>
tick   == <<since, batch, newCursor>>
hist   == <<fresh, learnt, learntAt, twice, excused, owed, clears, stops,
            kills, overlap, justCleared>>
folded == <<catalog, dirty>>
vars   == <<now, arrived, ts, redis, mCursor, dedup, folded, stored, pc,
            stopping, tick, admin, hist>>

Time == 0..MaxTime

----------------------------------------------------------------------------
(* Helpers                                                                 *)

Lesser(a, b)  == IF a < b THEN a ELSE b
Greater(a, b) == IF a < b THEN b ELSE a

\* Mutants of ScanWindow: the configured window without NewWorker's addition,
\* and no replay at all.
ScanWindowUnwidened == ReorderWindow
ScanWindowZero == 0

\* ScanWindow: how far below the cursor a tick re-reads.
ScanWindow == ReorderWindow + PersistInterval

\* Mutant of FirstRows: the query sorts newest first.
FirstRowsDescending(S, n) ==
  {K \in SUBSET S : /\ Cardinality(K) = Lesser(n, Cardinality(S))
                    /\ \A k \in K, s \in S \ K : ts[k] >= ts[s]}

\* The first n rows of S in the order of the query (timestamp ascending; ties
\* in any order), and the n newest rows of S (trimLocked, ZREMRANGEBYRANK).
FirstRows(S, n) ==
  {K \in SUBSET S : /\ Cardinality(K) = Lesser(n, Cardinality(S))
                    /\ \A k \in K, s \in S \ K : ts[k] <= ts[s]}
NewestRows(S, n) ==
  {K \in SUBSET S : /\ Cardinality(K) = Lesser(n, Cardinality(S))
                    /\ \A k \in K, s \in S \ K : ts[k] >= ts[s]}

\* What the range filter of a query selects: both bounds are inclusive.
Window(lower) == {r \in arrived : lower <= ts[r] /\ ts[r] <= now}

\* The newest timestamp among S (the one member of this set), or s when S is
\* empty or all older.
NewestTime(S, s) ==
  {c \in {s} \cup {ts[r] : r \in S} :
     \A d \in {s} \cup {ts[r] : r \in S} : d <= c}

\* The cursor never rewinds below the tick's and never passes the clock.
ClampCursor(candidate, s) == Lesser(now, Greater(candidate, s))

\* loadCursor over a value read from the store: a cursor ahead of the clock
\* counts as none, and none means the lookback window.
StartFrom(c) ==
  IF c = NoCursor THEN now - Lookback
  ELSE IF c > now THEN now - Lookback ELSE c

\* CursorStore.Get: Redis first; an error and a missing key both fall through
\* to the in-memory copy.
ReadCursor(ok) == IF ok /\ rCursor # NoCursor THEN rCursor ELSE mCursor

\* The outcomes of an external call: it succeeds, or fails if Faults says so,
\* or because it runs under the worker's context after that was cancelled.
Outcomes(kind) ==
  {TRUE} \cup (IF \/ kind \in Faults
                 \/ (stopping /\ kind \in {"pull", "cursorSet"})
              THEN {FALSE} ELSE {})

Up == pc # "down"

----------------------------------------------------------------------------
Init ==
  /\ now = 0 /\ arrived = {} /\ ts = [r \in Rows |-> 0]
  /\ rCursor = NoCursor /\ mCursor = NoCursor
  /\ rIds = {} /\ ids = {} /\ unsaved = {} /\ floor = 0 /\ loaded = FALSE
  /\ catalog = {} /\ dirty = FALSE /\ stored = {}
  /\ pc = "idle" /\ stopping = FALSE
  /\ since = 0 /\ batch = {} /\ newCursor = 0
  /\ admin = "none"
  /\ fresh = {} /\ learnt = {} /\ twice = {} /\ excused = {} /\ owed = {}
  /\ learntAt = [r \in Rows |-> [at |-> 0, cursor |-> 0]]
  /\ clears = 0 /\ stops = 0 /\ kills = 0
  /\ overlap = FALSE /\ justCleared = FALSE

----------------------------------------------------------------------------
(* The environment: the clock, and rows becoming queryable with whatever   *)
(* timestamp their producer stamped, late or ahead of the clock.           *)

AdvanceClock ==
  /\ now < MaxTime
  /\ now' = now + 1
  /\ UNCHANGED <<arrived, ts, redis, mCursor, dedup, folded, stored, pc,
                 stopping, tick, admin, hist>>

RowArrives(r, t) ==
  /\ r \notin arrived
  /\ arrived' = arrived \cup {r}
  /\ ts' = [ts EXCEPT ![r] = t]
  /\ fresh' = IF t >= now - ReorderWindow THEN fresh \cup {r} ELSE fresh
  /\ UNCHANGED <<now, redis, mCursor, dedup, folded, stored, pc, stopping,
                 tick, admin, learnt, learntAt, twice, excused, owed, clears,
                 stops, kills, overlap, justCleared>>

----------------------------------------------------------------------------
(* tickSource                                                              *)

TickStart ==
  /\ pc = "idle" /\ ~stopping
  /\ \E ok \in Outcomes("cursorGet") : since' = StartFrom(ReadCursor(ok))
  /\ pc' = "started"
  /\ overlap' = (overlap \/ admin # "none")
  /\ justCleared' = FALSE
  /\ UNCHANGED <<now, arrived, ts, redis, mCursor, dedup, folded, stored,
                 stopping, batch, newCursor, admin, fresh, learnt, learntAt,
                 twice, excused, owed, clears, stops, kills>>

\* Mutant of Load: the durable ids are never read back.
LoadForgets(ok) == ids

\* TailDedup.Load: hydrates once, and retries on the next tick after an error.
Load(ok) == IF loaded \/ ~ok THEN ids ELSE ids \cup rIds

\* Mutants of Stage: ids trimmed from memory stay staged for the commit; the
\* prune bound ignores that a flush may lag the cursor.
StageKeepsTrimmed(known, seen, lower) ==
  \E kept \in NewestRows({r \in known \cup seen : ts[r] >= lower}, DedupMax) :
    /\ ids' = kept
    /\ unsaved' = unsaved \cup (seen \ known)
    /\ floor' = Greater(floor, lower)
StagePrunesTooHigh(known, seen, lower) ==
  \E kept \in NewestRows({r \in known \cup seen :
                            ts[r] >= lower + PersistInterval}, DedupMax) :
    /\ ids' = kept
    /\ unsaved' = (unsaved \cup (seen \ known)) \cap kept
    /\ floor' = Greater(floor, lower + PersistInterval)

\* TailDedup.Stage over the set `known` that Load left.
Stage(known, seen, lower) ==
  \E kept \in NewestRows({r \in known \cup seen : ts[r] >= lower}, DedupMax) :
    /\ ids' = kept
    /\ unsaved' = (unsaved \cup (seen \ known)) \cap kept
    /\ floor' = Greater(floor, lower)

PullReturns(rowsOut, cursor) ==
  /\ batch' = rowsOut
  /\ newCursor' = cursor
  /\ pc' = "pulled"

\* Pull returned an error: the worker leaves the tick, the cursor as it was.
PullErrors(known) ==
  /\ pc' = "idle"
  /\ ids' = known
  /\ UNCHANGED <<unsaved, floor, batch, newCursor>>

\* ElasticsearchSource.Pull reads the window oldest first.  Rows it already
\* delivered use up the scan budget but not the item budget.  Running out of
\* scan budget is an error without a tie breaker, and with one when not a
\* single new row was reached (then after staging nothing).
PullElasticsearch ==
  LET s     == Lesser(since, now)
      lower == s - ScanWindow
      all   == Window(lower)
  IN
  /\ Backend = "elasticsearch"
  /\ \E ok \in Outcomes("dedupLoad") :
     \E scanned \in FirstRows(all, MaxScan) :
     \E seen \in FirstRows(scanned \ Load(ok), MaxItems) :
       LET exhausted == /\ Cardinality(all) >= MaxScan
                        /\ Cardinality(seen) < MaxItems
       IN
       /\ loaded' = (loaded \/ ok)
       /\ IF exhausted /\ TimeOnly THEN PullErrors(Load(ok))
          ELSE /\ Stage(Load(ok), seen, lower)
               /\ IF exhausted /\ seen = {}
                  THEN pc' = "idle" /\ UNCHANGED <<batch, newCursor>>
                  ELSE \E newest \in NewestTime(seen, s) :
                         PullReturns(seen, ClampCursor(newest, s))

\* SigNozSource.Pull walks a bounded number of pages from the lower bound; the
\* rows it already delivered count towards the bound like new ones.
PullSigNoz ==
  LET s     == Lesser(since, now)
      lower == s - ScanWindow
  IN
  /\ Backend = "signoz"
  /\ \E ok \in Outcomes("dedupLoad") :
     \E scanned \in FirstRows(Window(lower), MaxScan) :
       /\ loaded' = (loaded \/ ok)
       /\ Stage(Load(ok), scanned, lower)
       /\ \E newest \in NewestTime(scanned, s) :
            PullReturns(scanned \ Load(ok), ClampCursor(newest, s))

PullFails ==
  /\ FALSE \in Outcomes("pull")
  /\ \E ok \in Outcomes("dedupLoad") \cup {~stopping} :
       /\ loaded' = (loaded \/ ok)
       /\ PullErrors(Load(ok))

Pull ==
  /\ pc = "started"
  /\ PullElasticsearch \/ PullSigNoz \/ PullFails
  /\ UNCHANGED <<now, arrived, ts, redis, mCursor, folded, stored, stopping,
                 since, admin, hist>>

\* processSourceBatch: every returned row is folded into the catalog.
Learn ==
  /\ pc = "pulled"
  /\ catalog' = catalog \cup batch
  /\ dirty' = (dirty \/ batch # {})
  /\ pc' = "learned"
  /\ learnt' = learnt \cup batch
  /\ learntAt' = [r \in Rows |-> IF r \in batch
                                 THEN [at |-> now, cursor |-> newCursor]
                                 ELSE learntAt[r]]
  /\ twice' = twice \cup (batch \cap catalog)
  /\ UNCHANGED <<now, arrived, ts, redis, mCursor, dedup, stored, stopping,
                 tick, admin, fresh, excused, owed, clears, stops, kills,
                 overlap, justCleared>>

\* The end of tickSource: a tick that delivered nothing saves its cursor only
\* when it moved.  CursorStore.Set always updates memory.
SaveCursor ==
  /\ pc = "learned"
  /\ IF batch # {} \/ newCursor > since
     THEN /\ mCursor' = newCursor
          /\ \E ok \in Outcomes("cursorSet") :
               rCursor' = IF ok THEN newCursor ELSE rCursor
     ELSE UNCHANGED <<mCursor, rCursor>>
  /\ pc' = "idle"
  /\ batch' = {}
  /\ UNCHANGED <<now, arrived, ts, rIds, dedup, folded, stored, stopping,
                 since, newCursor, admin, hist>>

----------------------------------------------------------------------------
(* The persist ticker and the shutdown path of Run                         *)

\* ctx.Done: the loop is left at its next select.
Shutdown ==
  /\ Up /\ ~stopping /\ stops < MaxStops
  /\ stopping' = TRUE
  /\ stops' = stops + 1
  /\ UNCHANGED <<now, arrived, ts, redis, mCursor, dedup, folded, stored, pc,
                 tick, admin, fresh, learnt, learntAt, twice, excused, owed,
                 clears, kills, overlap, justCleared>>

\* Mutant of AfterFailedFlush: the commit follows a flush that failed.
AfterFailedFlushCommits == "flushed"

AfterFailedFlush == IF stopping THEN "down" ELSE "idle"

\* Catalog.Persist writes the whole catalog when it is dirty; a flush that
\* worked, or had nothing to write, is followed by the commit.
Flush ==
  /\ pc = "idle"
  /\ \/ /\ stored' = IF dirty THEN catalog ELSE stored
        /\ dirty' = FALSE
        /\ pc' = "flushed"
     \/ /\ dirty /\ "persist" \in Faults
        /\ UNCHANGED <<stored, dirty>>
        /\ pc' = AfterFailedFlush
  /\ UNCHANGED <<now, arrived, ts, redis, mCursor, dedup, catalog, stopping,
                 tick, admin, hist>>

\* commitSources: SaveDedup adds the staged ids, prunes below the floor and
\* keeps the newest DedupMax.  A failed save keeps them for the next commit.
Commit ==
  /\ pc = "flushed"
  /\ \/ /\ rIds' \in NewestRows({r \in rIds \cup unsaved : ts[r] >= floor},
                                DedupMax)
        /\ unsaved' = {}
        /\ UNCHANGED excused
     \/ /\ "dedupSave" \in Faults
        /\ excused' = excused \cup unsaved
        /\ UNCHANGED <<rIds, unsaved>>
  /\ pc' = IF stopping THEN "down" ELSE "idle"
  /\ UNCHANGED <<now, arrived, ts, rCursor, mCursor, ids, floor, loaded,
                 folded, stored, stopping, tick, admin, fresh, learnt,
                 learntAt, twice, owed, clears, stops, kills, overlap,
                 justCleared>>

----------------------------------------------------------------------------
(* Death and rebirth of the process                                        *)

\* Where the tick of a process started now from Redis would begin to read.
ResumeFrom == StartFrom(rCursor) - ScanWindow

\* A row is prompt when it was folded no later than ReorderWindow after its
\* timestamp, and no flush is overdue for it.
Prompt(r) ==
  /\ ts[r] >= learntAt[r].at - ReorderWindow
  /\ now - learntAt[r].at <= PersistInterval

Kill ==
  /\ Up
  /\ kills < MaxKills
  /\ kills' = kills + 1
  /\ pc' = "down"
  /\ admin' = "none"
  /\ batch' = {}
  /\ owed' = owed \cup {r \in catalog \ stored : Prompt(r)}
  /\ excused' = excused \cup (learnt \ rIds)
  /\ UNCHANGED <<now, arrived, ts, redis, mCursor, dedup, folded, stored,
                 stopping, since, newCursor, fresh, learnt, learntAt, twice,
                 clears, stops, overlap, justCleared>>

\* main: LoadCatalog, with a warning and an empty catalog when it fails; the
\* cursor store and every dedup set begin empty.
Restart ==
  /\ ~Up
  /\ \E ok \in Outcomes("catalogLoad") : catalog' = IF ok THEN stored ELSE {}
  /\ dirty' = FALSE
  /\ mCursor' = NoCursor
  /\ ids' = {} /\ unsaved' = {} /\ floor' = 0 /\ loaded' = FALSE
  /\ pc' = "idle"
  /\ stopping' = FALSE
  /\ admin' = "none"
  /\ UNCHANGED <<now, arrived, ts, redis, stored, tick, hist>>

----------------------------------------------------------------------------
(* clearPatterns: three steps of one handler, each able to fail and abort. *)

ClearCursors ==
  /\ Up /\ admin = "none" /\ clears < MaxClears
  /\ clears' = clears + 1
  /\ mCursor' = NoCursor
  /\ \E ok \in Outcomes("cursorSet") :
       /\ rCursor' = IF ok THEN NoCursor ELSE rCursor
       /\ admin' = IF ok THEN "cursorsReset" ELSE "none"
  /\ overlap' = (overlap \/ pc \in {"started", "pulled", "learned"})
  /\ UNCHANGED <<now, arrived, ts, rIds, dedup, folded, stored, pc, stopping,
                 tick, fresh, learnt, learntAt, twice, excused, owed, stops,
                 kills, justCleared>>

\* Mutant of RewindSource: the durable ids survive the rewind.
RewindMemoryOnly ==
  /\ Up /\ admin = "cursorsReset"
  /\ ids' = {} /\ unsaved' = {} /\ floor' = 0 /\ loaded' = TRUE
  /\ admin' = "rewound"
  /\ UNCHANGED <<now, arrived, ts, redis, mCursor, folded, stored, pc,
                 stopping, tick, hist>>

\* Rewind takes the source's lock, which Pull holds from start to end.
RewindSource ==
  /\ Up /\ admin = "cursorsReset"
  /\ ids' = {} /\ unsaved' = {} /\ floor' = 0 /\ loaded' = TRUE
  /\ \E ok \in Outcomes("dedupSave") :
       /\ rIds' = IF ok THEN {} ELSE rIds
       /\ admin' = IF ok THEN "rewound" ELSE "none"
  /\ UNCHANGED <<now, arrived, ts, rCursor, mCursor, folded, stored, pc,
                 stopping, tick, hist>>

ResetPatterns ==
  /\ Up /\ admin = "rewound"
  /\ catalog' = {}
  /\ \E ok \in Outcomes("persist") :
       /\ stored' = IF ok THEN {} ELSE stored
       /\ dirty' = ~ok
       /\ justCleared' = ok
  /\ admin' = "none"
  /\ UNCHANGED <<now, arrived, ts, redis, mCursor, dedup, pc, stopping, tick,
                 fresh, learnt, learntAt, twice, excused, owed, clears,
                 stops, kills, overlap>>

----------------------------------------------------------------------------
Worker == TickStart \/ Pull \/ Learn \/ SaveCursor \/ Flush \/ Commit
Clear  == ClearCursors \/ RewindSource \/ ResetPatterns

Next ==
  \/ AdvanceClock
  \/ \E r \in Rows, t \in Time : RowArrives(r, t)
  \/ Worker
  \/ Shutdown \/ Kill \/ Restart
  \/ Clear

Spec == Init /\ [][Next]_vars

\* Fairness: the poll and the persist ticker are both served again and again
\* (Go's select picks at random among the ready cases), a tick and a commit
\* run to their end, the backend answers now and then, and a process that is
\* down is started again.  Nothing makes rows arrive, or makes an operator
\* clear, stop or kill.
Fairness ==
  /\ WF_vars(AdvanceClock)
  /\ SF_vars(TickStart) /\ SF_vars(Pull /\ ~PullFails)
  /\ WF_vars(Pull) /\ WF_vars(Learn) /\ WF_vars(SaveCursor)
  /\ SF_vars(Flush /\ pc' = "flushed") /\ WF_vars(Flush) /\ WF_vars(Commit)
  /\ WF_vars(Restart)

FairSpec == Spec /\ Fairness

----------------------------------------------------------------------------
TypeOK ==
  /\ now \in Time
  /\ arrived \subseteq Rows
  /\ ts \in [Rows -> Time]
  /\ rCursor \in Int \cup {NoCursor} /\ mCursor \in Int \cup {NoCursor}
  /\ rIds \subseteq arrived /\ ids \subseteq arrived
  /\ unsaved \subseteq ids
  /\ floor \in Nat /\ loaded \in BOOLEAN
  /\ catalog \subseteq learnt /\ dirty \in BOOLEAN /\ stored \subseteq learnt
  /\ pc \in {"idle", "started", "pulled", "learned", "flushed", "down"}
  /\ stopping \in BOOLEAN
  /\ since \in Int /\ newCursor \in Int /\ batch \subseteq arrived
  /\ admin \in {"none", "cursorsReset", "rewound"}
  /\ fresh \subseteq arrived /\ learnt \subseteq arrived
  /\ learntAt \in [Rows -> [at : Time, cursor : Int]]
  /\ twice \subseteq learnt /\ excused \subseteq arrived
  /\ owed \subseteq learnt
  /\ clears \in 0..MaxClears /\ stops \in 0..MaxStops /\ kills \in 0..MaxKills
  /\ overlap \in BOOLEAN /\ justCleared \in BOOLEAN

\* "Rows before ids" (tailing.go): an id is durable only when its row is, so
\* that a process that dies can deliver a row again but never suppress a row
\* it failed to store.
RowsBeforeIds == rIds \subseteq stored

\* A kill at this very moment loses no prompt row: every row that is folded
\* but not stored lies inside what the next process reads first, and its id
\* is not durable.
KillSafe ==
  Up => \A r \in catalog \ stored :
          Prompt(r) => r \notin rIds /\ ResumeFrom <= ts[r]

\* "The set still covers the query the next process issues" (tailing.go): no id
\* is pruned that a tick from the durable cursor could need.
IdsCoverDurableCursor ==
  Up /\ rCursor # NoCursor => floor <= Greater(0, rCursor - ScanWindow)

\* Each row is folded once, unless a kill came before its id was durable or a
\* save of its id failed, and as long as no operator asks to learn again.
LearnedOnce == clears = 0 => twice \subseteq excused

\* The durable cursor never leaves behind a row that came in time and that no
\* process ever folded.
NothingSkipped ==
  \A r \in fresh :
    rCursor # NoCursor /\ ts[r] < rCursor - ScanWindow => r \in learnt

\* After a clear succeeded, and until the next tick, the process is as a
\* freshly started one: the history is read and learned again.
FreshAfterClear ==
  justCleared /\ pc = "idle"
    => /\ catalog = {} /\ ids = {} /\ rIds = {}
       /\ mCursor = NoCursor /\ rCursor = NoCursor

\* The same, of clears that no tick overlapped.
QuietClearIsFresh == ~overlap => FreshAfterClear

\* Every row that arrives in time is stored in the end.
EveryFreshRowStored == \A r \in Rows : r \in fresh ~> r \in stored

\* Every prompt row that a kill took from memory is stored in the end.
EveryOwedRowStored == \A r \in Rows : r \in owed ~> r \in stored
=============================================================================
