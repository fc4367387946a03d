-------------------------- MODULE TailIngestProofs --------------------------
(***************************************************************************)
(* What holds of TailIngest for every set of rows, every window, every     *)
(* budget and every bound: the types, the order in which a row and its id  *)
(* become durable, what a kill may cost, what a clear leaves, which ids    *)
(* are kept, that a row is folded once, and that none is skipped.          *)
(***************************************************************************)
EXTENDS TailIngest, FiniteSetTheorems, TLAPS

USE DEF Time, Up, Outcomes

----------------------------------------------------------------------------
(* The helpers                                                             *)

LEMMA ClampInt ==
  ASSUME NEW a \in Int, NEW b \in Int, now \in Int
  PROVE  ClampCursor(a, b) \in Int
BY DEF ClampCursor, Lesser, Greater

LEMMA StartFromInt ==
  ASSUME NEW c \in Int \cup {NoCursor}, now \in Int
  PROVE  StartFrom(c) \in Int /\ StartFrom(c) <= now
BY TimesAssumption, CursorAssumption DEF StartFrom

LEMMA ScanWindowNat == ScanWindow \in Nat
BY TimesAssumption DEF ScanWindow

\* Whatever Pull's outcome: ids are ids of arrived rows, and a staged id is
\* either one that was staged before or one of the rows handed to the worker.
LEMMA StageKeepsIds ==
  ASSUME NEW known \in SUBSET arrived, NEW seen \in SUBSET arrived, NEW lower \in Int,
         unsaved \subseteq known, floor \in Nat,
         Stage(known, seen, lower)
  PROVE  /\ ids' \subseteq arrived /\ unsaved' \subseteq ids' /\ floor' \in Nat
         /\ unsaved' \subseteq unsaved \cup (seen \ known)
BY DEF Stage, NewestRows, Greater

LEMMA LoadIds ==
  ASSUME TypeOK, NEW ok
  PROVE  Load(ok) \subseteq arrived /\ ids \subseteq Load(ok)
BY DEF Load, TypeOK

\* What a Pull may do, whichever backend runs it: hydrate the set or not, then
\* either stage nothing, or stage the rows seen and hand over those it did not
\* know, with a cursor no further than the clock, no earlier than the tick's,
\* and not past a row of the window that is neither known nor handed over.
TickFrom == Lesser(since, now)
Lower    == TickFrom - ScanWindow

HandsOver(known, seen) ==
  /\ pc' = "pulled"
  /\ batch' = seen \ known
  /\ newCursor' \in Int /\ TickFrom <= newCursor' /\ newCursor' <= now
  /\ \A r \in Window(Lower) \ (known \cup batch') : newCursor' <= Greater(ts[r], TickFrom)

PullOutcome(ok, seen) ==
  /\ loaded' = (loaded \/ ok)
  /\ \/ /\ pc' = "idle" /\ ids' = Load(ok)
        /\ UNCHANGED <<unsaved, floor, batch, newCursor>>
     \/ /\ Stage(Load(ok), seen, Lower)
        /\ pc' = "idle" /\ seen = {}
        /\ UNCHANGED <<batch, newCursor>>
     \/ /\ Stage(Load(ok), seen, Lower)
        /\ ok \in Outcomes("dedupLoad")
        /\ HandsOver(Load(ok), seen)

LEMMA LowerInt ==
  ASSUME TypeOK
  PROVE  /\ TickFrom \in Int /\ Lower \in Int /\ now \in Int
         /\ TickFrom <= now /\ TickFrom <= since
BY ScanWindowNat DEF TypeOK, Lesser, TickFrom, Lower

\* The cursor the rows S carry: between the tick's own and the clock, and past
\* nothing that is as old as the newest of them.
LEMMA CursorBounds ==
  ASSUME TypeOK, NEW S \in SUBSET arrived, NEW c \in NewestTime(S, TickFrom)
  PROVE  /\ c \in Int
         /\ ClampCursor(c, TickFrom) \in Int
         /\ TickFrom <= ClampCursor(c, TickFrom) /\ ClampCursor(c, TickFrom) <= now
         /\ \A t \in Int : c <= Greater(t, TickFrom)
              => ClampCursor(c, TickFrom) <= Greater(t, TickFrom)
<1>1. c \in {TickFrom} \cup {ts[r] : r \in S}
  BY DEF NewestTime
<1>2. c \in Int
  BY <1>1, LowerInt DEF TypeOK
<1> QED BY <1>2, LowerInt DEF ClampCursor, Lesser, Greater

\* The rows a query's first page leaves out are no older than the rows on it.
LEMMA LeftOutIsNewer ==
  ASSUME TypeOK, NEW S \in SUBSET arrived, NEW n, NEW K \in FirstRows(S, n),
         NEW r \in S \ K, NEW c \in NewestTime(K, TickFrom)
  PROVE  c <= Greater(ts[r], TickFrom)
<1>1. c = TickFrom \/ \E k \in K : c = ts[k]
  BY DEF NewestTime
<1>2. ts[r] \in Int /\ TickFrom \in Int
  BY LowerInt DEF TypeOK
<1>3. CASE c = TickFrom
  BY <1>2, <1>3 DEF Greater
<1>4. CASE \E k \in K : c = ts[k]
  <2>1. c <= ts[r] /\ c \in Int
    BY <1>4, LowerInt DEF FirstRows, TypeOK
  <2> QED BY <2>1, <1>2 DEF Greater
<1> QED BY <1>1, <1>3, <1>4

LEMMA PullOutcomes ==
  ASSUME TypeOK, Pull
  PROVE  \E ok \in BOOLEAN, seen \in SUBSET Window(Lower) : PullOutcome(ok, seen)
<1>0. Window(Lower) \subseteq arrived
  BY DEF Window
<1>1. CASE PullElasticsearch
  <2> DEFINE Outcome(ok, scanned, seen) ==
          LET exhausted == /\ Cardinality(Window(Lower)) >= MaxScan
                           /\ Cardinality(seen) < MaxItems
          IN
          /\ loaded' = (loaded \/ ok)
          /\ IF exhausted /\ TimeOnly THEN PullErrors(Load(ok))
             ELSE /\ Stage(Load(ok), seen, Lower)
                  /\ IF exhausted /\ seen = {}
                     THEN pc' = "idle" /\ UNCHANGED <<batch, newCursor>>
                     ELSE \E newest \in NewestTime(seen, TickFrom) :
                            PullReturns(seen, ClampCursor(newest, TickFrom))
  <2>1. PICK ok \in Outcomes("dedupLoad") :
          \E scanned \in FirstRows(Window(Lower), MaxScan) :
          \E seen \in FirstRows(scanned \ Load(ok), MaxItems) :
            Outcome(ok, scanned, seen)
    BY <1>1 DEF PullElasticsearch, Lower, TickFrom
  <2>2. PICK scanned \in FirstRows(Window(Lower), MaxScan) :
          \E seen \in FirstRows(scanned \ Load(ok), MaxItems) :
            Outcome(ok, scanned, seen)
    BY <2>1
  <2>3. PICK seen \in FirstRows(scanned \ Load(ok), MaxItems) :
          Outcome(ok, scanned, seen)
    BY <2>2
  <2>4. /\ scanned \subseteq Window(Lower) /\ seen \subseteq scanned \ Load(ok)
        /\ seen \in SUBSET Window(Lower)
    BY DEF FirstRows
  <2>5. ok \in BOOLEAN
    OBVIOUS
  <2>6. CASE PullErrors(Load(ok))
    <3>1. PullOutcome(ok, seen)
      BY <2>3, <2>6 DEF PullErrors, PullOutcome
    <3> QED BY <3>1, <2>4, <2>5
  <2>7. CASE /\ Stage(Load(ok), seen, Lower)
             /\ seen = {} /\ pc' = "idle" /\ UNCHANGED <<batch, newCursor>>
    <3>1. PullOutcome(ok, seen)
      BY <2>3, <2>7 DEF PullOutcome
    <3> QED BY <3>1, <2>4, <2>5
  <2>8. CASE /\ Stage(Load(ok), seen, Lower)
             /\ \E newest \in NewestTime(seen, TickFrom) :
                  PullReturns(seen, ClampCursor(newest, TickFrom))
    <3>1. PICK newest \in NewestTime(seen, TickFrom) :
            PullReturns(seen, ClampCursor(newest, TickFrom))
      BY <2>8
    <3>2. pc' = "pulled" /\ batch' = seen /\ newCursor' = ClampCursor(newest, TickFrom)
      BY <3>1 DEF PullReturns
    <3>3. newCursor' \in Int /\ TickFrom <= newCursor' /\ newCursor' <= now
      BY <3>2, <2>4, <1>0, CursorBounds
    <3>4. ASSUME NEW r \in Window(Lower) \ (Load(ok) \cup batch')
          PROVE  newCursor' <= Greater(ts[r], TickFrom)
      <4>1. seen \in SUBSET arrived /\ ts[r] \in Int
        BY <2>4, <1>0 DEF TypeOK
      <4>2. newest <= Greater(ts[r], TickFrom)
        <5>1. CASE r \in scanned
          <6>1. r \in (scanned \ Load(ok)) \ seen
            BY <5>1, <3>2
          <6>2. scanned \ Load(ok) \in SUBSET arrived
            BY <2>4, <1>0
          <6> QED BY <6>1, <6>2, LeftOutIsNewer
        <5>2. CASE r \notin scanned
          <6>1. newest = TickFrom \/ \E k \in seen : newest = ts[k]
            BY DEF NewestTime
          <6>2. \A k \in seen : ts[k] <= ts[r]
            BY <5>2, <2>4 DEF FirstRows
          <6>3. TickFrom \in Int /\ \A k \in seen : ts[k] \in Int
            BY <4>1, LowerInt DEF TypeOK
          <6> QED BY <6>1, <6>2, <6>3, <4>1 DEF Greater
        <5> QED BY <5>1, <5>2
      <4> QED BY <4>1, <4>2, <3>2, CursorBounds
    <3>5. batch' = seen \ Load(ok)
      BY <3>2, <2>4
    <3>6. HandsOver(Load(ok), seen)
      BY <3>2, <3>3, <3>4, <3>5 DEF HandsOver
    <3>7. PullOutcome(ok, seen)
      BY <3>6, <2>3, <2>8 DEF PullOutcome
    <3> QED BY <3>7, <2>4, <2>5
  <2> QED BY <2>3, <2>6, <2>7, <2>8
<1>2. CASE PullSigNoz
  <2> DEFINE Outcome(ok, scanned) ==
          /\ loaded' = (loaded \/ ok)
          /\ Stage(Load(ok), scanned, Lower)
          /\ \E newest \in NewestTime(scanned, TickFrom) :
               PullReturns(scanned \ Load(ok), ClampCursor(newest, TickFrom))
  <2>1. PICK ok \in Outcomes("dedupLoad") :
          \E scanned \in FirstRows(Window(Lower), MaxScan) : Outcome(ok, scanned)
    BY <1>2 DEF PullSigNoz, Lower, TickFrom
  <2>2. PICK scanned \in FirstRows(Window(Lower), MaxScan) : Outcome(ok, scanned)
    BY <2>1
  <2>3. scanned \in SUBSET Window(Lower) /\ scanned \in SUBSET arrived /\ ok \in BOOLEAN
    BY <1>0 DEF FirstRows
  <2>4. PICK newest \in NewestTime(scanned, TickFrom) :
          PullReturns(scanned \ Load(ok), ClampCursor(newest, TickFrom))
    BY <2>2
  <2>5. /\ pc' = "pulled" /\ batch' = scanned \ Load(ok)
        /\ newCursor' = ClampCursor(newest, TickFrom)
    BY <2>4 DEF PullReturns
  <2>6. newCursor' \in Int /\ TickFrom <= newCursor' /\ newCursor' <= now
    BY <2>5, <2>3, CursorBounds
  <2>7. ASSUME NEW r \in Window(Lower) \ (Load(ok) \cup batch')
        PROVE  newCursor' <= Greater(ts[r], TickFrom)
    <3>1. r \in Window(Lower) \ scanned /\ Window(Lower) \in SUBSET arrived
      BY <2>5, <1>0
    <3>2. newest <= Greater(ts[r], TickFrom)
      BY <3>1, LeftOutIsNewer
    <3>3. ts[r] \in Int
      BY <3>1 DEF TypeOK
    <3> QED BY <3>2, <3>3, <2>3, <2>5, CursorBounds
  <2>8. HandsOver(Load(ok), scanned)
    BY <2>5, <2>6, <2>7 DEF HandsOver
  <2>9. PullOutcome(ok, scanned)
    BY <2>8, <2>2 DEF PullOutcome
  <2> QED BY <2>9, <2>3
<1>3. CASE PullFails
  <2>1. PICK ok \in Outcomes("dedupLoad") \cup {~stopping} :
          loaded' = (loaded \/ ok) /\ PullErrors(Load(ok))
    BY <1>3 DEF PullFails
  <2>2. ok \in BOOLEAN
    BY DEF TypeOK
  <2>3. PullOutcome(ok, {})
    BY <2>1 DEF PullOutcome, PullErrors
  <2> QED BY <2>2, <2>3
<1> QED BY <1>1, <1>2, <1>3 DEF Pull

\* What the types and the order of the saves need of a Pull.
LEMMA PullStep ==
  ASSUME TypeOK, Pull
  PROVE  /\ ids' \subseteq arrived /\ unsaved' \subseteq ids' /\ floor' \in Nat
         /\ loaded' \in BOOLEAN /\ newCursor' \in Int /\ batch' \subseteq arrived
         /\ \/ pc' = "pulled" /\ unsaved' \subseteq unsaved \cup batch'
            \/ pc' = "idle" /\ unsaved' \subseteq unsaved
<1>1. PICK ok \in BOOLEAN, seen \in SUBSET Window(Lower) : PullOutcome(ok, seen)
  BY PullOutcomes
<1>2. /\ Load(ok) \in SUBSET arrived /\ seen \in SUBSET arrived
      /\ unsaved \subseteq Load(ok) /\ floor \in Nat /\ Lower \in Int
  BY LoadIds, LowerInt DEF Window, TypeOK
<1>3. Stage(Load(ok), seen, Lower)
        => /\ ids' \subseteq arrived /\ unsaved' \subseteq ids' /\ floor' \in Nat
           /\ unsaved' \subseteq unsaved \cup (seen \ Load(ok))
  BY <1>2, StageKeepsIds
<1> QED BY <1>1, <1>2, <1>3 DEF PullOutcome, HandsOver, TypeOK

----------------------------------------------------------------------------
(* Types                                                                   *)

\* Every variable keeps its type, and the staged ids stay among the delivered
\* ones.
THEOREM Types == Spec => []TypeOK
<1>1. Init => TypeOK
  <2> SUFFICES ASSUME Init PROVE TypeOK
    OBVIOUS
  <2>1. now \in Time /\ ts \in [Rows -> Time]
    BY TimesAssumption DEF Init
  <2>2. learntAt \in [Rows -> [at : Time, cursor : Int]]
    BY TimesAssumption DEF Init
  <2>3. clears \in 0..MaxClears /\ stops \in 0..MaxStops /\ kills \in 0..MaxKills
    BY BudgetAssumption DEF Init
  <2>4. /\ since \in Int /\ newCursor \in Int /\ batch \subseteq arrived
        /\ floor \in Nat /\ rCursor \in Int \cup {NoCursor} /\ mCursor \in Int \cup {NoCursor}
    BY DEF Init
  <2> QED BY <2>1, <2>2, <2>3, <2>4, Zenon DEF Init, TypeOK
<1>2. TypeOK /\ [Next]_vars => TypeOK'
  <2> SUFFICES ASSUME TypeOK, [Next]_vars PROVE TypeOK'
    OBVIOUS
  <2> USE DEF TypeOK, redis, dedup, tick, hist, folded
  <2>1. CASE AdvanceClock
    BY <2>1, TimesAssumption DEF AdvanceClock
  <2>2. ASSUME NEW r \in Rows, NEW t \in Time, RowArrives(r, t) PROVE TypeOK'
    BY <2>2 DEF RowArrives
  <2>3. CASE TickStart
    <3>1. since' \in Int
      BY <2>3, StartFromInt DEF TickStart, ReadCursor
    <3> QED BY <2>3, <3>1 DEF TickStart
  <2>4. CASE Pull
    BY <2>4, PullStep DEF Pull
  <2>5. CASE Learn
    <3>1. learntAt' \in [Rows -> [at : Time, cursor : Int]]
      BY <2>5 DEF Learn
    <3> QED BY <2>5, <3>1 DEF Learn
  <2>6. CASE SaveCursor
    BY <2>6 DEF SaveCursor
  <2>7. CASE Shutdown
    BY <2>7, BudgetAssumption DEF Shutdown
  <2>8. CASE Flush
    BY <2>8 DEF Flush, AfterFailedFlush
  <2>9. CASE Commit
    BY <2>9 DEF Commit, NewestRows
  <2>10. CASE Kill
    BY <2>10, BudgetAssumption DEF Kill
  <2>11. CASE Restart
    BY <2>11 DEF Restart
  <2>12. CASE ClearCursors
    BY <2>12, BudgetAssumption DEF ClearCursors
  <2>13. CASE RewindSource
    BY <2>13 DEF RewindSource
  <2>14. CASE ResetPatterns
    BY <2>14 DEF ResetPatterns
  <2>15. CASE UNCHANGED vars
    BY <2>15 DEF vars
  <2> QED
    BY <2>1, <2>2, <2>3, <2>4, <2>5, <2>6, <2>7, <2>8, <2>9, <2>10, <2>11,
       <2>12, <2>13, <2>14, <2>15 DEF Next, Worker, Clear
<1> QED BY <1>1, <1>2, PTL DEF Spec

----------------------------------------------------------------------------
(* Rows before ids                                                         *)

\* What makes RowsBeforeIds inductive, of a process nobody has cleared: a
\* staged id belongs to a row that is folded, or is being folded by the tick
\* in hand; what a flush leaves behind holds every folded row; and a commit
\* only ever follows such a flush.
Staged == IF pc = "pulled" THEN catalog \cup batch ELSE catalog

RowsFirst ==
  /\ admin = "none"
  /\ RowsBeforeIds
  /\ Up => unsaved \subseteq Staged
  /\ Up => stored \subseteq catalog
  /\ Up /\ ~dirty => catalog \subseteq stored
  /\ pc = "flushed" => ~dirty

RowsInv == clears = 0 => RowsFirst

\* Of any number of rows, any budgets, kills and stops, and any fault of any
\* call but one: an id is durable only after its row is.  The exceptions are
\* the two the runs exhibit: an admin clear, and a catalog that could not be
\* read at start-up.
THEOREM RowsBeforeIdsAlways ==
  ASSUME "catalogLoad" \notin Faults
  PROVE  Spec => [](clears = 0 => RowsBeforeIds)
<1>1. Init => RowsInv
  BY DEF Init, RowsInv, RowsFirst, RowsBeforeIds, Staged
<1>2. TypeOK /\ RowsInv /\ [Next]_vars => RowsInv'
  <2> SUFFICES ASSUME TypeOK, RowsInv, [Next]_vars, clears' = 0
               PROVE  RowsFirst'
    BY DEF RowsInv
  <2> USE DEF redis, dedup, tick, hist, folded
  <2>0. clears = 0 /\ ~ClearCursors
    <3>1. CASE ClearCursors
      BY <3>1 DEF ClearCursors, TypeOK
    <3>2. CASE ~ClearCursors
      BY <3>2 DEF Next, Worker, Clear, AdvanceClock, RowArrives, TickStart, Pull, Learn,
                  SaveCursor, Flush, Commit, Shutdown, Kill, Restart, RewindSource,
                  ResetPatterns, vars
    <3> QED BY <3>1, <3>2
  <2>1. RowsFirst
    BY <2>0 DEF RowsInv
  <2> USE <2>1 DEF RowsFirst, RowsBeforeIds, Staged
  <2>2. CASE AdvanceClock
    BY <2>2 DEF AdvanceClock
  <2>3. ASSUME NEW r \in Rows, NEW t \in Time, RowArrives(r, t) PROVE RowsFirst'
    BY <2>3 DEF RowArrives
  <2>4. CASE TickStart
    BY <2>4 DEF TickStart
  <2>5. CASE Pull
    <3>1. \/ pc' = "pulled" /\ unsaved' \subseteq unsaved \cup batch'
          \/ pc' = "idle" /\ unsaved' \subseteq unsaved
      BY <2>5, PullStep
    <3>2. pc = "started" /\ UNCHANGED <<rIds, stored, catalog, dirty, admin>>
      BY <2>5 DEF Pull
    <3> QED BY <3>1, <3>2
  <2>6. CASE Learn
    BY <2>6 DEF Learn, TypeOK
  <2>7. CASE SaveCursor
    BY <2>7 DEF SaveCursor
  <2>8. CASE Shutdown
    BY <2>8 DEF Shutdown
  <2>9. CASE Flush
    BY <2>9 DEF Flush, AfterFailedFlush
  <2>10. CASE Commit
    BY <2>10 DEF Commit, NewestRows
  <2>11. CASE Kill
    BY <2>11 DEF Kill
  <2>12. CASE Restart
    BY <2>12 DEF Restart
  <2>13. CASE UNCHANGED vars
    BY <2>13 DEF vars
  <2> QED
    BY <2>0, <2>2, <2>3, <2>4, <2>5, <2>6, <2>7, <2>8, <2>9, <2>10, <2>11,
       <2>12, <2>13 DEF Next, Worker, Clear, RewindSource, ResetPatterns
<1>3. RowsInv => (clears = 0 => RowsBeforeIds)
  BY DEF RowsInv, RowsFirst
<1> QED BY <1>1, <1>2, <1>3, Types, PTL DEF Spec

----------------------------------------------------------------------------
(* What a kill may cost                                                    *)

\* A process started now never begins to read later than one scan window
\* before now, whatever the store holds.
LEMMA ResumeBound ==
  ASSUME TypeOK
  PROVE  ResumeFrom \in Int /\ ResumeFrom <= now - ScanWindow
<1>1. /\ StartFrom(rCursor) \in Int /\ StartFrom(rCursor) <= now
      /\ now \in Int
  BY StartFromInt DEF TypeOK
<1> QED BY <1>1, ScanWindowNat DEF ResumeFrom

\* A kill at any moment loses no prompt row, for every reorder window and
\* persist interval: NewWorker's widening of the replay span by the persist
\* interval is exactly what pays for the flush that was not yet due.
THEOREM KillSafeAlways ==
  ASSUME "catalogLoad" \notin Faults
  PROVE  Spec => [](clears = 0 => KillSafe)
<1>1. TypeOK /\ (clears = 0 => RowsBeforeIds) => (clears = 0 => KillSafe)
  <2> SUFFICES ASSUME TypeOK, RowsBeforeIds,
                      NEW r \in catalog \ stored, Prompt(r)
               PROVE  r \notin rIds /\ ResumeFrom <= ts[r]
    BY DEF KillSafe
  <2>1. r \notin rIds
    BY DEF RowsBeforeIds
  <2>2. ts[r] \in Nat /\ learntAt[r].at \in Nat /\ now \in Nat
    BY DEF TypeOK
  <2>3. now - ScanWindow <= ts[r]
    BY <2>2, TimesAssumption DEF Prompt, ScanWindow
  <2>4. ScanWindow \in Nat /\ ResumeFrom \in Int /\ ResumeFrom <= now - ScanWindow
    BY ScanWindowNat, ResumeBound
  <2> QED BY <2>1, <2>2, <2>3, <2>4
<1> QED BY <1>1, RowsBeforeIdsAlways, Types, PTL

----------------------------------------------------------------------------
(* A clear that no tick overlaps                                           *)

Ticking == pc \in {"started", "pulled", "learned"}

\* What each step of the handler has brought about, and nothing undoes while no
\* tick runs: the flush and the commit in between find nothing left to save.
Forgotten == mCursor = NoCursor /\ rCursor = NoCursor
Rewound   == Forgotten /\ ids = {} /\ unsaved = {} /\ rIds = {}

QuietClear ==
  ~overlap =>
    /\ admin # "none" => ~Ticking /\ Forgotten
    /\ admin = "rewound" => Rewound
    /\ justCleared => ~Ticking /\ Rewound /\ catalog = {} /\ stored = {} /\ ~dirty

\* For every fault of every call, every kill and every flush between the steps
\* of clearPatterns: a clear that reports success and met no tick leaves
\* nothing behind of what it set out to forget.
THEOREM QuietClearIsFreshAlways == Spec => []QuietClearIsFresh
<1>1. Init => QuietClear
  BY DEF Init, QuietClear
<1>2. TypeOK /\ QuietClear /\ [Next]_vars => QuietClear'
  <2> SUFFICES ASSUME TypeOK, QuietClear, [Next]_vars
               PROVE  QuietClear'
    OBVIOUS
  <2> USE DEF QuietClear, Ticking, Forgotten, Rewound, redis, dedup, tick, hist, folded
  <2>1. CASE AdvanceClock
    BY <2>1 DEF AdvanceClock
  <2>2. ASSUME NEW r \in Rows, NEW t \in Time, RowArrives(r, t) PROVE QuietClear'
    BY <2>2 DEF RowArrives
  <2>3. CASE TickStart
    BY <2>3 DEF TickStart
  <2>4. CASE Pull
    <3>1. pc = "started" /\ UNCHANGED <<admin, overlap, justCleared>>
      BY <2>4 DEF Pull
    <3> QED BY <3>1
  <2>5. CASE Learn
    BY <2>5 DEF Learn
  <2>6. CASE SaveCursor
    BY <2>6 DEF SaveCursor
  <2>7. CASE Shutdown
    BY <2>7 DEF Shutdown
  <2>8. CASE Flush
    BY <2>8 DEF Flush, AfterFailedFlush
  <2>9. CASE Commit
    BY <2>9 DEF Commit, NewestRows
  <2>10. CASE Kill
    BY <2>10 DEF Kill
  <2>11. CASE Restart
    BY <2>11 DEF Restart
  <2>12. CASE ClearCursors
    BY <2>12 DEF ClearCursors
  <2>13. CASE RewindSource
    BY <2>13 DEF RewindSource
  <2>14. CASE ResetPatterns
    BY <2>14 DEF ResetPatterns
  <2>15. CASE UNCHANGED vars
    BY <2>15 DEF vars
  <2> QED
    BY <2>1, <2>2, <2>3, <2>4, <2>5, <2>6, <2>7, <2>8, <2>9, <2>10, <2>11,
       <2>12, <2>13, <2>14, <2>15 DEF Next, Worker, Clear
<1>3. QuietClear => QuietClearIsFresh
  BY DEF QuietClear, Rewound, Forgotten, QuietClearIsFresh, FreshAfterClear
<1> QED BY <1>1, <1>2, <1>3, Types, PTL DEF Spec

----------------------------------------------------------------------------
(* The delivered ids and the cursor                                        *)

\* Where the next tick would start, and, while a tick runs, where this one did.
Resume == IF rCursor = NoCursor THEN now - Lookback ELSE rCursor
Base   == IF Ticking THEN since ELSE Resume

CursorKept ==
  /\ admin = "none"
  /\ rCursor # NoCursor => rCursor <= now
  /\ ~stopping /\ rCursor = NoCursor => mCursor = NoCursor
  /\ Ticking => since <= Resume
  /\ pc \in {"pulled", "learned"} => since <= newCursor /\ newCursor <= now

FloorKept ==
  Up => floor <= Greater(0, Base - ScanWindow)

CursorInv == clears = 0 => CursorKept /\ FloorKept

\* The cursor calls that must not fail for the store to keep one line of time:
\* a read that fails in a new process, or a first write that fails until a
\* graceful stop, restarts from the lookback window instead.
CursorCallsWork == "cursorGet" \notin Faults /\ "cursorSet" \notin Faults

LEMMA ResumeInt ==
  ASSUME TypeOK
  PROVE  Resume \in Int /\ Base \in Int
BY TimesAssumption, CursorAssumption DEF TypeOK, Resume, Base

\* A tick reads from the durable cursor when there is one.
LEMMA TickStartsAtResume ==
  ASSUME TypeOK, CursorKept, CursorCallsWork, TickStart
  PROVE  since' = Resume
BY TimesAssumption, CursorAssumption
   DEF TickStart, CursorKept, CursorCallsWork, StartFrom, ReadCursor, Resume, TypeOK

\* An uncleared system stays one by every step but ClearCursors.
LEMMA StaysUncleared ==
  ASSUME TypeOK, [Next]_vars, clears' = 0
  PROVE  clears = 0 /\ ~ClearCursors
<1>1. CASE ClearCursors
  BY <1>1 DEF ClearCursors, TypeOK
<1>2. CASE ~ClearCursors
  BY <1>2 DEF Next, Worker, Clear, AdvanceClock, RowArrives, TickStart, Pull, Learn,
              SaveCursor, Flush, Commit, Shutdown, Kill, Restart, RewindSource,
              ResetPatterns, vars, hist
<1> QED BY <1>1, <1>2

\* Between clears the line of time holds, and no step moves Base back.
LEMMA CursorStep ==
  ASSUME TypeOK, TypeOK', CursorKept, CursorCallsWork, [Next]_vars, clears' = 0
  PROVE  CursorKept' /\ Base <= Base'
<1>0. /\ clears = 0 /\ ~ClearCursors
      /\ Resume \in Int /\ Base \in Int /\ now \in Int /\ Lookback \in Nat
      /\ since \in Int /\ newCursor \in Int /\ NoCursor \notin Int
      /\ rCursor \in Int \cup {NoCursor}
      /\ pc \in {"idle", "started", "pulled", "learned", "flushed", "down"}
  BY StaysUncleared, ResumeInt, TimesAssumption, CursorAssumption DEF TypeOK
<1> USE <1>0 DEF CursorKept, Base, Resume, Ticking, redis, dedup, tick, hist, folded
<1>1. CASE AdvanceClock
  BY <1>1 DEF AdvanceClock
<1>2. ASSUME NEW r \in Rows, NEW t \in Time, RowArrives(r, t)
      PROVE  CursorKept' /\ Base <= Base'
  BY <1>2 DEF RowArrives
<1>3. CASE TickStart
  <2>1. since' = Resume
    BY <1>3, TickStartsAtResume
  <2> QED BY <1>3, <2>1 DEF TickStart
<1>4. CASE Pull
  <2>1. PICK ok \in BOOLEAN, seen \in SUBSET Window(Lower) : PullOutcome(ok, seen)
    BY <1>4, PullOutcomes
  <2>2. /\ pc = "started"
        /\ UNCHANGED <<now, rCursor, mCursor, stopping, since, admin>>
    BY <1>4 DEF Pull
  <2>3. TickFrom = since
    BY <2>2 DEF TickFrom, Lesser
  <2>4. \/ pc' = "idle"
        \/ pc' = "pulled" /\ since <= newCursor' /\ newCursor' <= now
    BY <2>1, <2>3 DEF PullOutcome, HandsOver
  <2> QED BY <2>2, <2>4
<1>5. CASE Learn
  BY <1>5 DEF Learn
<1>6. CASE SaveCursor
  <2>1. pc = "learned" /\ pc' = "idle" /\ UNCHANGED <<now, stopping, admin>>
    BY <1>6 DEF SaveCursor
  <2>2. rCursor' \in {rCursor, newCursor}
    BY <1>6 DEF SaveCursor
  <2>3. ~stopping /\ rCursor' = NoCursor => mCursor' = NoCursor
    BY <1>6 DEF SaveCursor, CursorCallsWork
  <2> QED BY <2>1, <2>2, <2>3
<1>7. CASE Shutdown
  BY <1>7 DEF Shutdown
<1>8. CASE Flush
  BY <1>8 DEF Flush, AfterFailedFlush
<1>9. CASE Commit
  BY <1>9 DEF Commit
<1>10. CASE Kill
  BY <1>10 DEF Kill
<1>11. CASE Restart
  BY <1>11 DEF Restart
<1>12. CASE UNCHANGED vars
  BY <1>12 DEF vars
<1>13. ~RewindSource /\ ~ResetPatterns
  BY DEF RewindSource, ResetPatterns
<1> HIDE DEF CursorKept, Base, Resume, Ticking
<1> QED
  BY <1>0, <1>1, <1>2, <1>3, <1>4, <1>5, <1>6, <1>7, <1>8, <1>9, <1>10, <1>11,
     <1>12, <1>13 DEF Next, Worker, Clear

\* What a Pull reads begins one window below Base.
LEMMA LowerIsBase ==
  ASSUME TypeOK, CursorKept, Pull
  PROVE  Lower = Base - ScanWindow
<1>1. Base = since /\ since <= Resume /\ Resume <= now
  BY TimesAssumption, CursorAssumption DEF Pull, Base, Ticking, CursorKept, TypeOK, Resume
<1>2. since \in Int /\ now \in Int /\ Resume \in Int
  BY ResumeInt DEF TypeOK
<1> QED BY <1>1, <1>2 DEF Lower, TickFrom, Lesser

LEMMA BoundMovesUp ==
  ASSUME NEW a \in Int, NEW b \in Int, a <= b, NEW w \in Nat
  PROVE  \A f \in Nat : f <= Greater(0, a - w) => f <= Greater(0, b - w)
BY DEF Greater

LEMMA WindowMovesUp ==
  ASSUME NEW a \in Int, NEW b \in Int, a <= b, NEW w \in Nat
  PROVE  \A t \in Int : t < a - w => t < b - w
OBVIOUS

LEMMA BoundKept ==
  ASSUME NEW x \in Int
  PROVE  /\ 0 <= Greater(0, x)
         /\ \A f \in Nat : f <= Greater(0, x)
              => Greater(f, x) \in Nat /\ Greater(f, x) <= Greater(0, x)
BY DEF Greater

\* What the id set of a process is ever pruned by.
LEMMA FloorStep ==
  ASSUME TypeOK, TypeOK', CursorKept, FloorKept, CursorCallsWork, [Next]_vars, clears' = 0
  PROVE  FloorKept'
<1>0. CursorKept' /\ Base <= Base' /\ clears = 0 /\ ~ClearCursors
  BY CursorStep, StaysUncleared
<1>1. /\ Base \in Int /\ Base' \in Int /\ floor \in Nat /\ ScanWindow \in Nat
      /\ admin = "none"
  <2>1. Base' \in Int
    BY TimesAssumption, CursorAssumption DEF TypeOK, Resume, Base
  <2>2. floor \in Nat /\ admin = "none"
    BY DEF TypeOK, CursorKept
  <2> QED BY <2>1, <2>2, ResumeInt, ScanWindowNat
<1>2. CASE ~Up'
  BY <1>2 DEF FloorKept
<1>b. \A f \in Nat : f <= Greater(0, Base - ScanWindow) => f <= Greater(0, Base' - ScanWindow)
  BY <1>0, <1>1, BoundMovesUp
<1>c. (Up' => floor' <= Greater(0, Base' - ScanWindow)) => FloorKept'
  BY DEF FloorKept, ScanWindow
<1>3. CASE floor' = floor /\ Up
  BY <1>b, <1>c, <1>1, <1>3 DEF FloorKept, Greater
<1>4. CASE Restart
  <2>1. floor' = 0
    BY <1>4 DEF Restart
  <2>2. Base' - ScanWindow \in Int
    BY <1>1
  <2> QED BY <1>c, <2>1, <2>2, BoundKept
<1>5. CASE Pull
  <2>1. PICK ok \in BOOLEAN, seen \in SUBSET Window(Lower) : PullOutcome(ok, seen)
    BY <1>5, PullOutcomes
  <2>2. floor' = floor \/ floor' = Greater(floor, Lower)
    BY <2>1 DEF PullOutcome, Stage
  <2>3. Lower = Base - ScanWindow
    BY <1>5, LowerIsBase
  <2>4. Up
    BY <1>5 DEF Pull
  <2>5. Base - ScanWindow \in Int /\ floor <= Greater(0, Base - ScanWindow)
    BY <1>1, <2>4 DEF FloorKept
  <2>6. floor' \in Nat /\ floor' <= Greater(0, Base - ScanWindow)
    BY <1>1, <2>2, <2>3, <2>5, BoundKept
  <2> QED BY <1>b, <1>c, <2>6
<1>6. (floor' = floor /\ (Up \/ ~Up')) \/ Restart \/ Pull
  <2>1. ~RewindSource /\ ~ResetPatterns
    BY <1>1 DEF RewindSource, ResetPatterns
  <2> QED BY <1>0, <2>1 DEF Next, Worker, Clear, AdvanceClock, RowArrives, TickStart, Learn,
              SaveCursor, Flush, AfterFailedFlush, Commit, Shutdown, Kill, vars, dedup
<1> QED BY <1>2, <1>3, <1>4, <1>5, <1>6

\* No id is pruned that the tick of the durable cursor could still need: for
\* both backends, any windows and budgets, kills, stops and failing saves.
THEOREM IdsCoverDurableCursorAlways ==
  ASSUME CursorCallsWork
  PROVE  Spec => [](clears = 0 => IdsCoverDurableCursor)
<1>1. Init => CursorInv
  <2> SUFFICES ASSUME Init PROVE CursorKept /\ FloorKept
    BY DEF CursorInv
  <2>1. CursorKept
    BY DEF Init, CursorKept, Ticking
  <2>2. FloorKept
    BY TimesAssumption, ScanWindowNat DEF Init, FloorKept, Base, Resume, Ticking, Greater
  <2> QED BY <2>1, <2>2
<1>2. TypeOK /\ TypeOK' /\ CursorInv /\ [Next]_vars => CursorInv'
  BY CursorStep, FloorStep, StaysUncleared DEF CursorInv
<1>3. TypeOK /\ CursorInv => (clears = 0 => IdsCoverDurableCursor)
  <2> SUFFICES ASSUME TypeOK, CursorKept, FloorKept, Up, rCursor # NoCursor
               PROVE  floor <= Greater(0, rCursor - ScanWindow)
    BY DEF CursorInv, IdsCoverDurableCursor
  <2>1. Base <= rCursor /\ Base \in Int /\ rCursor \in Int
    BY ResumeInt DEF Base, Resume, CursorKept, TypeOK
  <2> QED BY <2>1, ScanWindowNat DEF FloorKept, Greater, TypeOK
<1> QED BY <1>1, <1>2, <1>3, Types, PTL DEF Spec

----------------------------------------------------------------------------
(* Each row once                                                           *)

Fits(S) == IsFiniteSet(S) /\ Cardinality(S) <= DedupMax

\* The cap does not bind: when a Pull or a commit cuts the set, no more rows
\* than it holds are at or above the bound it prunes to.
SpanFits ==
  /\ pc = "started" => Fits({r \in arrived : ts[r] >= Lower})
  /\ pc = "flushed" => Fits({r \in arrived : ts[r] >= floor})

\* A row no tick will ask for again.
Behind(r) == ts[r] < Base - ScanWindow

\* What makes LearnedOnce inductive: of the rows that are folded or stored and
\* not excused, each is durable by its id, or staged to become so, or behind
\* the window; a hydrated set holds every durable id the window still reaches;
\* after a flush without its commit the staged rows are excused; and the rows
\* in hand are new ones.
OnceKept ==
  /\ twice \subseteq excused
  /\ \A r \in (IF Up THEN catalog \cup stored ELSE stored) \ excused :
        r \in rIds \/ (Up /\ r \in unsaved) \/ Behind(r)
  /\ Up /\ loaded => \A r \in rIds : r \in ids \/ Behind(r)
  /\ Up /\ pc # "flushed" => stored \cap unsaved \subseteq excused
  /\ pc = "pulled" => /\ batch \subseteq unsaved
                      /\ batch \cap (catalog \cup stored) \subseteq excused

OnceInv == clears = 0 => CursorKept /\ FloorKept /\ OnceKept

\* A set that fits is never cut.
LEMMA NothingTrimmed ==
  ASSUME NEW T, Fits(T), NEW S \in SUBSET T, NEW K \in NewestRows(S, DedupMax)
  PROVE  K = S
<1>1. IsFiniteSet(S) /\ Cardinality(S) \in Nat /\ Cardinality(S) <= Cardinality(T)
  BY FS_Subset, FS_CardinalityType DEF Fits
<1>2. K \subseteq S /\ Cardinality(K) = Lesser(DedupMax, Cardinality(S))
  BY DEF NewestRows
<1>3. Cardinality(K) = Cardinality(S)
  <2>1. Cardinality(T) \in Nat /\ DedupMax \in Nat
    BY BudgetAssumption, FS_CardinalityType DEF Fits
  <2> QED BY <2>1, <1>1, <1>2 DEF Fits, Lesser
<1> QED BY <1>1, <1>2, <1>3, FS_Subset

LEMMA StageKeepsAll ==
  ASSUME NEW known \in SUBSET arrived, NEW seen \in SUBSET arrived, NEW lower,
         Fits({r \in arrived : ts[r] >= lower}), unsaved \subseteq known, Stage(known, seen, lower)
  PROVE  /\ ids' = {r \in known \cup seen : ts[r] >= lower}
         /\ unsaved' = (unsaved \cup (seen \ known)) \cap ids'
<1> DEFINE S == {r \in known \cup seen : ts[r] >= lower}
<1>1. S \in SUBSET {r \in arrived : ts[r] >= lower}
  OBVIOUS
<1>2. PICK kept \in NewestRows(S, DedupMax) :
        ids' = kept /\ unsaved' = (unsaved \cup (seen \ known)) \cap kept
  BY DEF Stage
<1>3. kept = S
  BY <1>1, <1>2, NothingTrimmed
<1> QED BY <1>2, <1>3

\* A row behind the window stays behind it.
LEMMA BehindStays ==
  ASSUME TypeOK, TypeOK', CursorKept, CursorCallsWork, [Next]_vars, clears' = 0
  PROVE  \A r \in arrived : ts'[r] = ts[r] /\ (Behind(r) => Behind(r)')
<1>1. Base <= Base'
  BY CursorStep
<1>2. Base \in Int /\ Base' \in Int
  <2>1. Base' \in Int
    BY TimesAssumption, CursorAssumption DEF TypeOK, Resume, Base
  <2> QED BY <2>1, ResumeInt
<1>3. ASSUME NEW r \in arrived PROVE ts'[r] = ts[r] /\ ts[r] \in Int
  <2>1. ts' = ts \/ \E q \in Rows \ arrived, t \in Time : ts' = [ts EXCEPT ![q] = t]
    BY DEF Next, Worker, Clear, AdvanceClock, RowArrives, TickStart, Pull, Learn,
           SaveCursor, Flush, Commit, Shutdown, Kill, Restart, ClearCursors,
           RewindSource, ResetPatterns, vars
  <2> QED BY <2>1 DEF TypeOK
<1>4. \A t \in Int : t < Base - ScanWindow => t < Base' - ScanWindow
  BY <1>1, <1>2, ScanWindowNat, WindowMovesUp
<1>5. ASSUME NEW r \in arrived PROVE Behind(r)' <=> ts'[r] < Base' - ScanWindow
  BY DEF Behind, ScanWindow
<1> QED BY <1>3, <1>4, <1>5 DEF Behind

LEMMA OncePull ==
  ASSUME TypeOK, TypeOK', CursorKept, OnceKept, SpanFits, "dedupLoad" \notin Faults,
         \A r \in arrived : Behind(r) => Behind(r)', Pull
  PROVE  OnceKept'
<1>1. PICK ok \in BOOLEAN, seen \in SUBSET Window(Lower) : PullOutcome(ok, seen)
  BY PullOutcomes
<1>2. /\ pc = "started" /\ Up
      /\ UNCHANGED <<arrived, ts, rIds, catalog, stored, twice, excused>>
  BY DEF Pull, redis, folded, hist
<1>3. /\ Load(ok) \in SUBSET arrived /\ seen \in SUBSET arrived
      /\ unsaved \subseteq Load(ok) /\ Lower \in Int
      /\ rIds \subseteq arrived /\ catalog \subseteq arrived /\ stored \subseteq arrived
  BY LoadIds, LowerInt DEF Window, TypeOK
<1>4. \A r \in arrived : Behind(r) <=> ts[r] < Lower
  BY LowerIsBase DEF Behind
<1>5. \A r \in seen : ~(ts[r] < Lower)
  BY <1>3 DEF Window, TypeOK
<1>6. loaded' = (loaded \/ ok)
  BY <1>1 DEF PullOutcome
\* The set that Load left holds every durable id the window reaches, once it
\* is hydrated.
<1>7. loaded' => \A r \in rIds : r \in Load(ok) \/ Behind(r)
  BY <1>2, <1>6 DEF OnceKept, Load
<1>8. \A r \in (catalog \cup stored) \ excused : r \in rIds \/ r \in unsaved \/ Behind(r)
  BY <1>2 DEF OnceKept
<1>9. stored \cap unsaved \subseteq excused /\ twice \subseteq excused
  BY <1>2 DEF OnceKept
<1>10. CASE pc' = "idle" /\ ids' = Load(ok) /\ UNCHANGED <<unsaved, floor, batch, newCursor>>
  BY <1>2, <1>3, <1>7, <1>8, <1>9, <1>10 DEF OnceKept
<1>11. ASSUME Stage(Load(ok), seen, Lower)
       PROVE  /\ ids' = {r \in Load(ok) \cup seen : ts[r] >= Lower}
              /\ unsaved' = (unsaved \cup (seen \ Load(ok))) \cap ids'
              /\ \A r \in Load(ok) : r \in ids' \/ Behind(r)
  <2>1. /\ ids' = {r \in Load(ok) \cup seen : ts[r] >= Lower}
        /\ unsaved' = (unsaved \cup (seen \ Load(ok))) \cap ids'
    BY <1>2, <1>3, <1>11, StageKeepsAll DEF SpanFits
  <2>2. \A r \in Load(ok) : ts[r] \in Int
    BY <1>3 DEF TypeOK
  <2> QED BY <2>1, <2>2, <1>3, <1>4
<1>12. CASE /\ Stage(Load(ok), seen, Lower)
            /\ pc' = "idle" /\ seen = {}
            /\ UNCHANGED <<batch, newCursor>>
  <2>1. unsaved' \subseteq unsaved /\ \A r \in unsaved : r \in unsaved' \/ Behind(r)
    BY <1>3, <1>11, <1>12
  <2> QED BY <1>2, <1>3, <1>7, <1>8, <1>9, <1>11, <1>12, <2>1 DEF OnceKept
<1>13. CASE /\ Stage(Load(ok), seen, Lower)
            /\ ok \in Outcomes("dedupLoad")
            /\ HandsOver(Load(ok), seen)
  <2>1. ok = TRUE /\ loaded' = TRUE /\ pc' = "pulled" /\ batch' = seen \ Load(ok)
    BY <1>6, <1>13 DEF HandsOver
  <2>2. /\ unsaved' \subseteq unsaved \cup batch'
        /\ \A r \in unsaved : r \in unsaved' \/ Behind(r)
    BY <1>3, <1>11, <1>13, <2>1
  <2>3. batch' \subseteq unsaved'
    <3>1. \A r \in batch' : r \in seen /\ ts[r] >= Lower
      BY <2>1, <1>3, <1>5 DEF TypeOK
    <3> QED BY <3>1, <2>1, <1>11, <1>13
  <2>4. batch' \cap (catalog \cup stored) \subseteq excused
    <3>1. SUFFICES ASSUME NEW r \in batch', r \in catalog \cup stored, r \notin excused
                   PROVE  FALSE
      OBVIOUS
    <3>2. ~Behind(r) /\ r \notin Load(ok)
      BY <2>1, <1>3, <1>4, <1>5
    <3>3. r \in rIds \/ r \in unsaved
      BY <3>1, <3>2, <1>8
    <3> QED BY <3>2, <3>3, <1>3, <1>7, <2>1
  <2> QED BY <1>2, <1>3, <1>7, <1>8, <1>9, <1>11, <1>13, <2>1, <2>2, <2>3, <2>4 DEF OnceKept
<1> QED BY <1>1, <1>10, <1>12, <1>13 DEF PullOutcome

LEMMA OnceCommit ==
  ASSUME TypeOK, TypeOK', CursorKept, FloorKept, OnceKept, SpanFits,
         \A r \in arrived : Behind(r) => Behind(r)', Commit
  PROVE  OnceKept'
<1>1. /\ pc = "flushed" /\ Up /\ pc' # "flushed" /\ pc' # "pulled"
      /\ UNCHANGED <<arrived, ts, ids, loaded, catalog, stored, twice>>
  BY DEF Commit, dedup, folded
<1>2. \A r \in (catalog \cup stored) \ excused : r \in rIds \/ r \in unsaved \/ Behind(r)
  BY <1>1 DEF OnceKept
<1>3. loaded => \A r \in rIds : r \in ids \/ Behind(r)
  BY <1>1 DEF OnceKept
<1>4. rIds \subseteq arrived /\ unsaved \subseteq ids /\ ids \subseteq arrived
      /\ stored \subseteq arrived /\ catalog \subseteq arrived
  BY DEF TypeOK
<1>5. CASE /\ rIds' \in NewestRows({r \in rIds \cup unsaved : ts[r] >= floor}, DedupMax)
           /\ unsaved' = {} /\ excused' = excused
  <2>1. rIds' = {r \in rIds \cup unsaved : ts[r] >= floor}
    <3>1. {r \in rIds \cup unsaved : ts[r] >= floor}
            \in SUBSET {r \in arrived : ts[r] >= floor}
      BY <1>4
    <3> QED BY <3>1, <1>1, <1>5, NothingTrimmed DEF SpanFits
  <2>2. \A r \in rIds \cup unsaved : r \in rIds' \/ Behind(r)
    <3> SUFFICES ASSUME NEW r \in rIds \cup unsaved, r \notin rIds' PROVE Behind(r)
      OBVIOUS
    <3>1. ts[r] \in Nat /\ floor \in Nat
      BY <1>4 DEF TypeOK
    <3>2. ts[r] < floor
      BY <2>1, <3>1
    <3>3. Base - ScanWindow \in Int /\ floor <= Greater(0, Base - ScanWindow)
      BY <1>1, ResumeInt, ScanWindowNat DEF FloorKept
    <3>4. ts[r] < Base - ScanWindow
      BY <3>1, <3>2, <3>3 DEF Greater
    <3> QED BY <3>4 DEF Behind
  <2>3. loaded => \A r \in rIds' : r \in ids \/ Behind(r)
    BY <2>1, <1>3, <1>4
  <2>4. twice \subseteq excused
    BY DEF OnceKept
  <2>5. \A r \in (catalog \cup stored) \ excused : r \in rIds' \/ Behind(r)'
    BY <1>2, <1>4, <2>2
  <2>6. loaded' => \A r \in rIds' : r \in ids' \/ Behind(r)'
    BY <1>1, <1>4, <2>1, <2>3
  <2> QED BY <1>1, <1>5, <2>4, <2>5, <2>6 DEF OnceKept
<1>6. CASE excused' = excused \cup unsaved /\ rIds' = rIds /\ unsaved' = unsaved
  <2>1. twice \subseteq excused
    BY DEF OnceKept
  <2> QED BY <1>1, <1>2, <1>3, <1>4, <1>6, <2>1 DEF OnceKept
<1> QED BY <1>5, <1>6 DEF Commit

\* Each row is folded once, as long as the ids of the re-read span fit the set
\* and the calls that read it and the cursor answer; a pull, a flush or a save
\* of the ids may fail at any time, and a process may stop or be killed.
THEOREM LearnedOnceAlways ==
  ASSUME CursorCallsWork, "dedupLoad" \notin Faults
  PROVE  Spec /\ []SpanFits => []LearnedOnce
<1>1. Init => OnceInv
  <2> SUFFICES ASSUME Init PROVE CursorKept /\ FloorKept /\ OnceKept
    BY DEF OnceInv
  <2>1. CursorKept
    BY DEF Init, CursorKept, Ticking
  <2>2. FloorKept
    BY TimesAssumption, ScanWindowNat DEF Init, FloorKept, Base, Resume, Ticking, Greater
  <2>3. OnceKept
    BY DEF Init, OnceKept
  <2> QED BY <2>1, <2>2, <2>3
<1>2. TypeOK /\ TypeOK' /\ SpanFits /\ OnceInv /\ [Next]_vars => OnceInv'
  <2> SUFFICES ASSUME TypeOK, TypeOK', SpanFits, OnceInv, [Next]_vars, clears' = 0
               PROVE  (CursorKept /\ FloorKept /\ OnceKept)'
    BY DEF OnceInv
  <2>0. clears = 0 /\ ~ClearCursors
    BY StaysUncleared
  <2>1. CursorKept /\ FloorKept /\ OnceKept
    BY <2>0 DEF OnceInv
  <2>2. CursorKept' /\ FloorKept'
    BY <2>1, CursorStep, FloorStep
  <2>3. ~RewindSource /\ ~ResetPatterns
    BY <2>1 DEF CursorKept, RewindSource, ResetPatterns
  <2>4. \A r \in arrived : Behind(r) => Behind(r)'
    BY <2>1, BehindStays
  <2>5. /\ rIds \subseteq arrived /\ unsaved \subseteq ids /\ ids \subseteq arrived
        /\ stored \subseteq arrived /\ catalog \subseteq arrived /\ batch \subseteq arrived
        /\ catalog \subseteq learnt /\ stored \subseteq learnt
    BY DEF TypeOK
  <2> SUFFICES OnceKept'
    BY <2>2
  <2> USE DEF OnceKept, redis, dedup, tick, hist, folded
  <2>6. CASE AdvanceClock
    BY <2>1, <2>4, <2>5, <2>6 DEF AdvanceClock
  <2>7. ASSUME NEW r \in Rows, NEW t \in Time, RowArrives(r, t) PROVE OnceKept'
    BY <2>1, <2>4, <2>5, <2>7 DEF RowArrives
  <2>8. CASE TickStart
    BY <2>1, <2>4, <2>5, <2>8 DEF TickStart
  <2>9. CASE Pull
    BY <2>1, <2>4, <2>9, OncePull
  <2>10. CASE Learn
    BY <2>1, <2>4, <2>5, <2>10 DEF Learn
  <2>11. CASE SaveCursor
    BY <2>1, <2>4, <2>5, <2>11 DEF SaveCursor
  <2>12. CASE Shutdown
    BY <2>1, <2>4, <2>5, <2>12 DEF Shutdown
  <2>13. CASE Flush
    BY <2>1, <2>4, <2>5, <2>13 DEF Flush, AfterFailedFlush
  <2>14. CASE Commit
    BY <2>1, <2>4, <2>14, OnceCommit
  <2>15. CASE Kill
    BY <2>1, <2>4, <2>5, <2>15 DEF Kill
  <2>16. CASE Restart
    BY <2>1, <2>4, <2>5, <2>16 DEF Restart
  <2>17. CASE UNCHANGED vars
    BY <2>1, <2>4, <2>5, <2>17 DEF vars
  <2> HIDE DEF OnceKept
  <2> QED
    BY <2>0, <2>3, <2>6, <2>7, <2>8, <2>9, <2>10, <2>11, <2>12, <2>13,
       <2>14, <2>15, <2>16, <2>17 DEF Next, Worker, Clear
<1>3. OnceInv => LearnedOnce
  BY DEF OnceInv, OnceKept, LearnedOnce
<1> QED BY <1>1, <1>2, <1>3, Types, PTL DEF Spec

\* So it is whenever the set holds all the rows there are.
COROLLARY LearnedOnceOfFew ==
  ASSUME CursorCallsWork, "dedupLoad" \notin Faults, Fits(Rows)
  PROVE  Spec => []LearnedOnce
<1>1. TypeOK => SpanFits
  <2> SUFFICES ASSUME TypeOK, NEW S \in SUBSET Rows PROVE Fits(S)
    BY DEF SpanFits, TypeOK
  <2>1. /\ IsFiniteSet(S) /\ Cardinality(S) <= Cardinality(Rows)
        /\ Cardinality(S) \in Nat /\ Cardinality(Rows) \in Nat
    BY FS_Subset, FS_CardinalityType DEF Fits
  <2> QED BY <2>1, BudgetAssumption DEF Fits
<1> QED BY <1>1, Types, LearnedOnceAlways, PTL

----------------------------------------------------------------------------
(* Nothing skipped                                                         *)

\* What a cursor at c has left behind for good.
Passed(r, c) == ts[r] < c - ScanWindow

\* A tick that finds no cursor starts the lookback before the clock ...
ColdStart ==
  pc = "idle" /\ pc' = "started" /\ mCursor = NoCursor /\ since' = now - Lookback

\* ... and so before whatever came in time and is still to be folded ...
ColdStartReaches == ColdStart => \A r \in fresh \ learnt : ~Passed(r, since')

\* ... certainly while the lookback reaches to the first row there can be.
LookbackCovers == MaxTime <= Lookback + ScanWindow

IdsAreLearnt ==
  /\ rIds \subseteq learnt
  /\ Up => ids \subseteq learnt \cup batch
  /\ Up /\ pc # "pulled" => ids \subseteq learnt

CursorsInPast ==
  /\ rCursor # NoCursor => rCursor <= now
  /\ mCursor # NoCursor => mCursor <= now
  /\ Ticking => since <= now
  /\ pc \in {"pulled", "learned"} => newCursor <= now

\* Of each cursor that is durable, remembered, started from, or about to be
\* saved: the rows it has passed were folded, or are in hand.
PassedAreLearnt ==
  \A r \in fresh :
    /\ rCursor # NoCursor /\ Passed(r, rCursor) => r \in learnt
    /\ mCursor # NoCursor /\ Passed(r, mCursor) => r \in learnt
    /\ Ticking /\ Passed(r, since) => r \in learnt
    /\ pc = "pulled" /\ Passed(r, newCursor) => r \in learnt \cup batch
    /\ pc = "learned" /\ Passed(r, newCursor) => r \in learnt

SkipInv == IdsAreLearnt /\ CursorsInPast /\ PassedAreLearnt

\* A row that is at most the reorder window late lies above every cursor.
LEMMA PromptIsNotPassed ==
  ASSUME NEW c \in Int, NEW n \in Int, c <= n, NEW t \in Int, t >= n - ReorderWindow
  PROVE  ~(t < c - ScanWindow)
BY TimesAssumption DEF ScanWindow

\* Neither does the lookback of a start without a cursor pass any row.
LEMMA LookbackPassesNothing ==
  ASSUME TypeOK, LookbackCovers, NEW r \in Rows
  PROVE  ~Passed(r, now - Lookback)
<1>1. ts[r] \in Nat /\ now \in Nat /\ now <= MaxTime
  BY TimesAssumption DEF TypeOK
<1> QED BY <1>1, ScanWindowNat, TimesAssumption DEF Passed, LookbackCovers

\* The cursor a Pull returns passes no row of the window but known rows and
\* the rows in hand.
LEMMA PullPasses ==
  ASSUME TypeOK, SkipInv, Pull, NEW ok \in BOOLEAN, NEW seen \in SUBSET Window(Lower),
         HandsOver(Load(ok), seen), NEW r \in fresh, ts[r] < newCursor' - ScanWindow
  PROVE  r \in learnt \cup batch'
<1>1. pc = "started" /\ Ticking /\ Up
  BY DEF Pull, Ticking
<1>2. Load(ok) \subseteq learnt
  BY <1>1 DEF SkipInv, IdsAreLearnt, Load
<1>3. /\ r \in arrived /\ ts[r] \in Int /\ newCursor' \in Int /\ newCursor' <= now
      /\ now \in Int /\ since \in Int /\ since <= now
  BY <1>1 DEF TypeOK, HandsOver, SkipInv, CursorsInPast
<1>4. TickFrom = since /\ Lower = since - ScanWindow
  BY <1>3 DEF TickFrom, Lower, Lesser
<1>5. ScanWindow \in Nat
  BY ScanWindowNat
<1>6. CASE ts[r] < Lower
  BY <1>1, <1>4, <1>6 DEF SkipInv, PassedAreLearnt, Passed
<1>7. CASE ~(ts[r] < Lower)
  <2>1. ts[r] <= now /\ Lower <= ts[r]
    BY <1>3, <1>4, <1>5, <1>7
  <2>2. r \in Window(Lower)
    BY <2>1, <1>3 DEF Window
  <2>3. ~(newCursor' <= Greater(ts[r], TickFrom))
    BY <1>3, <1>4, <1>5, <1>7 DEF Greater
  <2>4. r \in Load(ok) \cup batch'
    BY <2>2, <2>3 DEF HandsOver
  <2> QED BY <2>4, <1>2
<1> QED BY <1>6, <1>7

LEMMA SkipPull ==
  ASSUME TypeOK, TypeOK', SkipInv, Pull
  PROVE  SkipInv'
<1>1. PICK ok \in BOOLEAN, seen \in SUBSET Window(Lower) : PullOutcome(ok, seen)
  BY PullOutcomes
<1>2. /\ pc = "started" /\ Up /\ Ticking
      /\ UNCHANGED <<now, ts, fresh, learnt, rIds, rCursor, mCursor, since>>
  BY DEF Pull, redis, hist, Ticking
<1>3. Load(ok) \subseteq learnt
  BY <1>2 DEF SkipInv, IdsAreLearnt, Load
<1>4. /\ Load(ok) \in SUBSET arrived /\ seen \in SUBSET arrived /\ Lower \in Int
  BY LoadIds, LowerInt DEF Window
<1>5. Stage(Load(ok), seen, Lower) => ids' \subseteq Load(ok) \cup seen
  BY DEF Stage, NewestRows
<1>6. \/ pc' = "idle" /\ ids' \subseteq Load(ok)
      \/ pc' = "pulled" /\ HandsOver(Load(ok), seen) /\ ids' \subseteq Load(ok) \cup batch'
  BY <1>1, <1>5 DEF PullOutcome, HandsOver
<1>7. IdsAreLearnt'
  BY <1>2, <1>3, <1>6 DEF SkipInv, IdsAreLearnt
<1>8. CursorsInPast'
  BY <1>2, <1>6 DEF SkipInv, CursorsInPast, HandsOver, Ticking
<1>9. PassedAreLearnt'
  <2> SUFFICES ASSUME NEW r \in fresh
               PROVE  /\ rCursor # NoCursor /\ Passed(r, rCursor) => r \in learnt
                      /\ mCursor # NoCursor /\ Passed(r, mCursor) => r \in learnt
                      /\ Passed(r, since) => r \in learnt
                      /\ pc' = "pulled" /\ ts[r] < newCursor' - ScanWindow
                           => r \in learnt \cup batch'
    BY <1>2, <1>6 DEF PassedAreLearnt, Passed, ScanWindow, Ticking
  <2>1. pc' = "pulled" /\ ts[r] < newCursor' - ScanWindow => r \in learnt \cup batch'
    BY <1>6, PullPasses
  <2> QED BY <1>2, <2>1 DEF SkipInv, PassedAreLearnt
<1> QED BY <1>7, <1>8, <1>9 DEF SkipInv

\* The durable cursor never leaves a row behind that came in time and was not
\* folded: for both backends, every reorder window and persist interval, every
\* fault of every call, kills, stops and clears, as long as no tick without a
\* cursor starts beyond such a row: the lookback is the one way to lose it.
THEOREM NothingSkippedAlways ==
  Spec /\ [][ColdStartReaches]_vars => []NothingSkipped
<1>1. Init => SkipInv
  BY DEF Init, SkipInv, IdsAreLearnt, CursorsInPast, PassedAreLearnt, Ticking
<1>2. TypeOK /\ TypeOK' /\ SkipInv /\ [Next]_vars /\ [ColdStartReaches]_vars
        => SkipInv'
  <2> SUFFICES ASSUME TypeOK, TypeOK', SkipInv, [Next]_vars,
                      [ColdStartReaches]_vars
               PROVE  SkipInv'
    OBVIOUS
  <2>0. /\ now \in Nat /\ since \in Int /\ newCursor \in Int /\ NoCursor \notin Int
        /\ rCursor \in Int \cup {NoCursor} /\ mCursor \in Int \cup {NoCursor}
        /\ ids \subseteq arrived /\ unsaved \subseteq ids /\ fresh \subseteq arrived
    BY CursorAssumption DEF TypeOK
  <2> USE DEF SkipInv, IdsAreLearnt, CursorsInPast, PassedAreLearnt, Passed, ScanWindow,
              Ticking, redis, dedup, tick, hist, folded
  <2>1. CASE AdvanceClock
    BY <2>0, <2>1 DEF AdvanceClock
  <2>2. ASSUME NEW q \in Rows, NEW t \in Time, RowArrives(q, t) PROVE SkipInv'
    <3>1. /\ q \notin arrived /\ ts' = [ts EXCEPT ![q] = t]
          /\ fresh' = IF t >= now - ReorderWindow THEN fresh \cup {q} ELSE fresh
          /\ UNCHANGED <<now, rCursor, mCursor, rIds, ids, pc, since, newCursor, batch, learnt>>
      BY <2>2 DEF RowArrives
    <3>2. \A r \in fresh : ts'[r] = ts[r]
      BY <3>1, <2>0
    <3>3. ts'[q] = t
      BY <3>1 DEF TypeOK
    <3>4. q \in fresh' =>
            \A c \in Int : c <= now => ~(ts'[q] < c - (ReorderWindow + PersistInterval))
      BY <3>1, <3>3, <2>0, TimesAssumption
    <3>5. PassedAreLearnt'
      BY <3>1, <3>2, <3>4, <2>0
    <3> QED BY <3>1, <3>5
  <2>3. CASE TickStart
    <3>1. /\ pc = "idle" /\ pc' = "started"
          /\ UNCHANGED <<now, ts, fresh, rCursor, mCursor, rIds, ids, batch, learnt>>
      BY <2>3 DEF TickStart
    <3>2. \/ since' = now - Lookback /\ mCursor = NoCursor
          \/ rCursor # NoCursor /\ rCursor <= now /\ since' = rCursor
          \/ mCursor # NoCursor /\ mCursor <= now /\ since' = mCursor
      <4>1. PICK ok \in BOOLEAN : since' = StartFrom(ReadCursor(ok))
        BY <2>3 DEF TickStart
      <4>2. \/ ReadCursor(ok) = rCursor /\ rCursor # NoCursor
            \/ ReadCursor(ok) = mCursor
        BY DEF ReadCursor
      <4>3. /\ rCursor # NoCursor => ~(rCursor > now)
            /\ mCursor # NoCursor => ~(mCursor > now)
        BY <2>0
      <4>4. /\ ReadCursor(ok) = NoCursor => since' = now - Lookback
            /\ ReadCursor(ok) # NoCursor => since' = ReadCursor(ok)
        BY <4>1, <4>2, <4>3 DEF StartFrom
      <4>5. CASE ReadCursor(ok) = NoCursor
        BY <4>2, <4>4, <4>5
      <4>6. CASE ReadCursor(ok) # NoCursor
        BY <4>2, <4>4, <4>6
      <4> QED BY <4>5, <4>6
    <3>3. now - Lookback <= now
      BY <2>0, TimesAssumption
    <3>4. CASE ColdStart
      <4>1. \A r \in fresh \ learnt : ~Passed(r, since')
        BY <3>1, <3>4 DEF ColdStartReaches, vars
      <4>2. since' <= now'
        BY <3>1, <3>3, <3>4 DEF ColdStart
      <4> QED BY <3>1, <4>1, <4>2
    <3>5. CASE /\ since' = rCursor \/ since' = mCursor
               /\ since' # NoCursor /\ since' <= now
      BY <3>1, <3>5
    <3> QED BY <3>1, <3>2, <3>4, <3>5 DEF ColdStart
  <2>4. CASE Pull
    BY <2>4, SkipPull
  <2>5. CASE Learn
    BY <2>5 DEF Learn
  <2>6. CASE SaveCursor
    <3>1. /\ pc = "learned" /\ pc' = "idle" /\ rCursor' \in {rCursor, newCursor}
          /\ mCursor' \in {mCursor, newCursor}
          /\ UNCHANGED <<now, ts, fresh, rIds, ids, learnt>>
      BY <2>6 DEF SaveCursor
    <3> QED BY <3>1
  <2>7. CASE Shutdown
    BY <2>7 DEF Shutdown
  <2>8. CASE Flush
    BY <2>8 DEF Flush, AfterFailedFlush
  <2>9. CASE Commit
    BY <2>0, <2>9 DEF Commit, NewestRows
  <2>10. CASE Kill
    BY <2>10 DEF Kill
  <2>11. CASE Restart
    BY <2>11 DEF Restart
  <2>12. CASE ClearCursors
    BY <2>12 DEF ClearCursors
  <2>13. CASE RewindSource
    BY <2>13 DEF RewindSource
  <2>14. CASE ResetPatterns
    BY <2>14 DEF ResetPatterns
  <2>15. CASE UNCHANGED vars
    BY <2>15 DEF vars
  <2> HIDE DEF SkipInv
  <2> QED
    BY <2>1, <2>2, <2>3, <2>4, <2>5, <2>6, <2>7, <2>8, <2>9, <2>10, <2>11,
       <2>12, <2>13, <2>14, <2>15 DEF Next, Worker, Clear
<1>3. SkipInv => NothingSkipped
  BY DEF SkipInv, PassedAreLearnt, Passed, NothingSkipped
<1> QED BY <1>1, <1>2, <1>3, Types, PTL DEF Spec

\* That holds in particular as long as the source is younger than what a start
\* without a cursor reads.
COROLLARY NothingSkippedEarly ==
  ASSUME LookbackCovers
  PROVE  Spec => []NothingSkipped
<1>1. TypeOK => [ColdStartReaches]_vars
  BY LookbackPassesNothing DEF ColdStartReaches, ColdStart, TypeOK
<1> QED BY <1>1, Types, NothingSkippedAlways, PTL
=============================================================================
