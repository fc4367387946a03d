------------------------ MODULE ServiceHealthProofs ------------------------
(***************************************************************************)
(* Proofs about ServiceHealth, for any replicas, owners, observations and  *)
(* bounds: type correctness, and that the accounting of observations holds *)
(* through every flush, conflict, failure, lost answer and death.          *)
(***************************************************************************)
EXTENDS ServiceHealth, TLAPS

-----------------------------------------------------------------------------
(* What the operators return *)

LEMMA Bounds ==
  /\ Retention \in Nat /\ FirstMinute \in Nat /\ LastMinute \in Nat
  /\ MaxEvents \in Nat /\ MaxBuckets \in Nat \ {0}
  /\ MaxSnapshots \in Nat \ {0} /\ MaxTries \in Nat \ {0}
  /\ FirstMinute <= LastMinute
BY HealthAssumption DEF HealthAssumption

LEMMA StateFields ==
  ASSUME NEW s \in State
  PROVE  /\ s.logs \in Counts
         /\ \A o \in Observations : s.logs[o] \in Nat
         /\ s.status \in Status
BY DEF State, Counts

LEMMA NoStateType ==
  /\ NoState \in State
  /\ \A o \in Observations : NoState.logs[o] = 0
BY Bounds DEF NoState, NoStatus, State, Status, Counts

LEMMA PruneType ==
  ASSUME NEW logs \in Counts, NEW cutoff
  PROVE  /\ Prune(logs, cutoff) \in Counts
         /\ \A o \in Observations :
              Prune(logs, cutoff)[o] = IF minute[o] < cutoff THEN 0 ELSE logs[o]
BY DEF Prune, Counts

LEMMA NewestType ==
  ASSUME NEW logs \in Counts
  PROVE  /\ Newest(logs) \in Counts
         /\ \A o \in Observations :
              Newest(logs)[o] = logs[o] \/ Newest(logs)[o] = 0
BY DEF Newest, Counts

LEMMA PlusType ==
  ASSUME NEW one \in Counts, NEW other \in Counts
  PROVE  /\ Plus(one, other) \in Counts
         /\ \A o \in Observations : Plus(one, other)[o] = one[o] + other[o]
BY DEF Plus, Counts

LEMMA MergeType ==
  ASSUME NEW state \in State, NEW delta \in State
  PROVE  /\ Merge(state, delta) \in State
         /\ Merge(state, delta).logs = Plus(state.logs, delta.logs)
         /\ \A o \in Observations :
              Merge(state, delta).logs[o] = state.logs[o] + delta.logs[o]
<1>1. Plus(state.logs, delta.logs) \in Counts
  BY StateFields, PlusType
<1>2. Later(state.status, delta.status) \in Status
  BY StateFields DEF Later
<1>3. Merge(state, delta).logs = Plus(state.logs, delta.logs)
  BY DEF Merge
<1> QED
  BY <1>1, <1>2, <1>3, StateFields, PlusType DEF Merge, State

LEMMA JobFields ==
  ASSUME NEW j \in Job
  PROVE  /\ j.pc \in PCs /\ j.end \in -1..LastMinute
         /\ j.revision \in 0..MaxEvents /\ j.held \in State
         /\ j.base \in State /\ j.tries \in 0..MaxTries
BY DEF Job

LEMMA IdleType ==
  ASSUME NEW end \in -1..LastMinute
  PROVE  /\ Idle(end) \in Job /\ Idle(end).pc = "idle"
         /\ Idle(end).end = end /\ Idle(end).held = NoState
BY NoStateType, Bounds DEF Idle, Job, PCs

LEMMA DownType ==
  Down \in Job /\ Down.pc = "down" /\ Down.end = -1 /\ Down.held = NoState
<1>1. -1 \in -1..LastMinute
  BY Bounds
<1> QED
  BY <1>1, IdleType DEF Down, Job, PCs

LEMMA FlushedType ==
  ASSUME NEW r \in Replicas, job \in [Replicas -> Job]
  PROVE  /\ Flushed(r) \in State
         /\ \A o \in Observations :
              \/ Flushed(r).logs[o] = job[r].base.logs[o] + job[r].held.logs[o]
              \/ Flushed(r).logs[o] = 0 /\ minute[o] < job[r].end - Retention
              \/ Flushed(r).logs[o] = 0 /\ o \in Cut(r)
<1>1. job[r].base \in State /\ job[r].held \in State
  BY JobFields
<1>2. /\ Merged(r) \in State
      /\ \A o \in Observations :
           Merged(r).logs[o] = job[r].base.logs[o] + job[r].held.logs[o]
  BY <1>1, MergeType DEF Merged
<1>3. Merged(r).logs \in Counts
  BY <1>2, StateFields
<1>4. /\ Retained(r) \in Counts
      /\ \A o \in Observations :
           Retained(r)[o] = IF minute[o] < job[r].end - Retention THEN 0
                            ELSE Merged(r).logs[o]
  BY <1>3, PruneType DEF Retained
<1>5. /\ Newest(Retained(r)) \in Counts
      /\ \A o \in Observations :
           \/ Newest(Retained(r))[o] = Retained(r)[o]
           \/ Newest(Retained(r))[o] = 0
  BY <1>4, NewestType
<1>6. /\ Flushed(r) \in State
      /\ Flushed(r).logs = Newest(Retained(r))
  BY <1>2, <1>5 DEF Flushed, State
<1>7. ASSUME NEW o \in Observations,
             Newest(Retained(r))[o] = 0, Retained(r)[o] # 0
      PROVE  o \in Cut(r)
  <2>1. Retained(r)[o] \in Nat
    BY <1>4 DEF Counts
  <2> QED
    BY <1>7, <2>1 DEF Cut
<1> QED
  BY <1>2, <1>4, <1>5, <1>6, <1>7

LEMMA RoomType ==
  ASSUME NEW r \in Replicas, NEW m \in Minutes,
         pending \in [Replicas -> State]
  PROVE  /\ Room(r, m) \in Counts
         /\ \A o \in Observations :
              \/ Room(r, m)[o] = pending[r].logs[o]
              \/ Room(r, m)[o] = 0 /\ minute[o] < m - Retention + 1
<1>1. pending[r].logs \in Counts
  BY StateFields
<1>2. CASE m \in Buckets(pending[r].logs)
  BY <1>1, <1>2 DEF Room
<1>3. CASE m \notin Buckets(pending[r].logs)
  BY <1>1, <1>3, PruneType DEF Room
<1> QED
  BY <1>2, <1>3

LEMMA SavedType ==
  ASSUME NEW r \in Replicas, history \in Seq(Snapshot),
         Len(history) <= MaxSnapshots, Built(r) \in Snapshot
  PROVE  Saved(r) \in Seq(Snapshot) /\ Len(Saved(r)) <= MaxSnapshots
<1> DEFINE longer == Append(history, Built(r))
<1>1. longer \in Seq(Snapshot) /\ Len(longer) = Len(history) + 1
  OBVIOUS
<1>2. Tail(longer) \in Seq(Snapshot) /\ Len(Tail(longer)) = Len(history)
  BY <1>1
<1>3. /\ Extended(history, Built(r)) \in Seq(Snapshot)
      /\ Len(Extended(history, Built(r))) <= MaxSnapshots
  BY <1>1, <1>2, Bounds DEF Extended
<1> QED
  BY <1>3 DEF Saved

-----------------------------------------------------------------------------
(* Types.  A job ends its window at a time that has come, and holds counts
   only while it flushes. *)

JobInv ==
  \A r \in Replicas :
    /\ job[r].end <= now
    /\ job[r].pc \notin {"down", "idle"} => 0 <= job[r].end
    /\ job[r].pc \notin {"read", "swap"} => job[r].held = NoState

TypeInv == TypeOK /\ JobInv

LEMMA InitTypes == Init => TypeInv
<1> SUFFICES ASSUME Init PROVE TypeInv
  OBVIOUS
<1>1. -1 \in -1..LastMinute
  BY Bounds
<1>2. /\ Idle(-1) \in Job /\ Idle(-1).end = -1 /\ Idle(-1).held = NoState
      /\ Idle(-1).pc = "idle"
  BY <1>1, IdleType
<1>3. JobInv
  BY <1>2, Bounds DEF Init, JobInv
<1>4. now \in FirstMinute..LastMinute /\ settings \in 0..MaxEvents
      /\ pulls \in 0..MaxEvents /\ troubles \in 0..MaxEvents
  BY Bounds DEF Init
<1>5. history \in Seq(Snapshot) /\ Len(history) <= MaxSnapshots
  BY Bounds DEF Init
<1>6. /\ stored \in State /\ pending \in [Replicas -> State]
      /\ job \in [Replicas -> Job]
  BY <1>2, NoStateType DEF Init
<1>7. /\ home \in [Observations -> Replicas \cup {"nobody"}]
      /\ minute \in [Observations -> Minutes]
      /\ echoes \in Counts /\ lost \subseteq Observations
  BY Bounds DEF Init, Minutes, Counts
<1> QED
  BY <1>3, <1>4, <1>5, <1>6, <1>7 DEF TypeInv, TypeOK

\* A job that moves to a state of the right form leaves the others alone.
LEMMA Moved ==
  ASSUME TypeInv, NEW r \in Replicas, NEW next \in Job, Moves(r, next),
         now' = now, next.end <= now,
         next.pc \notin {"down", "idle"} => 0 <= next.end,
         next.pc \notin {"read", "swap"} => next.held = NoState
  PROVE  /\ job' \in [Replicas -> Job] /\ JobInv'
         /\ job'[r] = next
         /\ \A q \in Replicas \ {r} : job'[q] = job[q]
<1>1. /\ job' \in [Replicas -> Job] /\ job'[r] = next
      /\ \A q \in Replicas \ {r} : job'[q] = job[q]
  BY DEF Moves, TypeInv, TypeOK
<1>2. ASSUME NEW q \in Replicas
      PROVE  /\ job'[q].end <= now'
             /\ job'[q].pc \notin {"down", "idle"} => 0 <= job'[q].end
             /\ job'[q].pc \notin {"read", "swap"} => job'[q].held = NoState
  <2>1. CASE q = r
    BY <1>1, <2>1
  <2>2. CASE q # r
    BY <1>1, <2>2 DEF TypeInv, JobInv
  <2> QED
    BY <2>1, <2>2
<1> QED
  BY <1>1, <1>2 DEF JobInv

\* A job that is over, whatever it did.
LEMMA Ended ==
  ASSUME TypeInv, NEW r \in Replicas, Moves(r, Idle(job[r].end)), now' = now
  PROVE  /\ job' \in [Replicas -> Job] /\ JobInv'
         /\ job'[r].held = NoState
         /\ \A q \in Replicas \ {r} : job'[q] = job[q]
<1>1. job[r] \in Job /\ job[r].end <= now
  BY DEF TypeInv, TypeOK, JobInv
<1>2. job[r].end \in -1..LastMinute
  BY <1>1, JobFields
<1>3. /\ Idle(job[r].end) \in Job /\ Idle(job[r].end).end <= now
      /\ Idle(job[r].end).held = NoState /\ Idle(job[r].end).pc = "idle"
  BY <1>1, <1>2, IdleType
<1> QED
  BY <1>3, Moved

\* What GiveUp puts back.
LEMMA GivenUp ==
  ASSUME TypeInv, NEW r \in Replicas, GiveUp(r), now' = now
  PROVE  /\ pending' \in [Replicas -> State]
         /\ job' \in [Replicas -> Job] /\ JobInv'
         /\ job'[r].held = NoState
         /\ \A o \in Observations :
              pending'[r].logs[o] = pending[r].logs[o] + job[r].held.logs[o]
         /\ \A q \in Replicas \ {r} :
              pending'[q] = pending[q] /\ job'[q] = job[q]
<1>1. pending[r] \in State /\ job[r].held \in State
  BY JobFields DEF TypeInv, TypeOK
<1>2. /\ Merge(pending[r], job[r].held) \in State
      /\ \A o \in Observations :
           Merge(pending[r], job[r].held).logs[o]
             = pending[r].logs[o] + job[r].held.logs[o]
  BY <1>1, MergeType
<1>3. /\ job' \in [Replicas -> Job] /\ JobInv' /\ job'[r].held = NoState
      /\ \A q \in Replicas \ {r} : job'[q] = job[q]
  BY Ended DEF GiveUp
<1>4. /\ pending' \in [Replicas -> State]
      /\ pending'[r] = Merge(pending[r], job[r].held)
      /\ \A q \in Replicas \ {r} : pending'[q] = pending[q]
  BY <1>2 DEF GiveUp, TypeInv, TypeOK
<1> QED
  BY <1>2, <1>3, <1>4

\* The snapshot of a job whose window has a time.
LEMMA BuiltType ==
  ASSUME TypeInv, NEW r \in Replicas, At(r, "save")
  PROVE  Built(r) \in Snapshot
<1>1. /\ job[r].revision \in 0..MaxEvents /\ job[r].end \in -1..LastMinute
      /\ 0 <= job[r].end
  BY JobFields DEF TypeInv, TypeOK, JobInv, At
<1> QED
  BY <1>1, Bounds DEF Built, Snapshot, Minutes

-----------------------------------------------------------------------------
(* Each action keeps the types *)

LEMMA RecordTypes ==
  ASSUME TypeInv, NEW r \in Replicas, Record(r)
  PROVE  TypeInv'
<1>1. pending[r] \in State /\ pending[r].status \in Status
  BY StateFields DEF TypeInv, TypeOK
<1>2. ASSUME More PROVE pulls + 1 \in 0..MaxEvents
  BY <1>2, Bounds DEF More, TypeInv, TypeOK
<1>3. ASSUME NEW succeeded \in BOOLEAN, More
      PROVE  Pulled(pending[r].status, succeeded) \in Status
  BY <1>1, <1>2, <1>3 DEF Pulled, Status
<1>4. ASSUME NEW succeeded \in BOOLEAN, RecordSource(r, succeeded)
      PROVE  TypeInv'
  <2>1. [pending[r] EXCEPT !.status = Pulled(@, succeeded)] \in State
    BY <1>1, <1>3, <1>4 DEF RecordSource, State
  <2>2. pending' \in [Replicas -> State] /\ pulls' \in 0..MaxEvents
    BY <1>2, <1>4, <2>1 DEF RecordSource, TypeInv, TypeOK
  <2> QED
    BY <1>4, <2>2
    DEF RecordSource, TypeInv, TypeOK, JobInv, blobs, ghosts
<1>5. ASSUME NEW m \in Minutes, RefuseLog(r, m)
      PROVE  TypeInv'
  <2>1. Room(r, m) \in Counts
    BY RoomType DEF TypeInv, TypeOK
  <2>2. Pulled(pending[r].status, FALSE) \in Status
    BY <1>3, <1>5 DEF RefuseLog
  <2>3. pending' \in [Replicas -> State]
    BY <1>1, <1>5, <2>1, <2>2 DEF RefuseLog, TypeInv, TypeOK, State
  <2>4. pulls' \in 0..MaxEvents
    BY <1>2, <1>5 DEF RefuseLog
  <2> QED
    BY <1>5, <2>3, <2>4
    DEF RefuseLog, TypeInv, TypeOK, JobInv, blobs, ghosts
<1>6. ASSUME NEW m \in Minutes, NEW o \in Observations, RecordLog(r, o, m)
      PROVE  TypeInv'
  <2>1. Room(r, m) \in Counts
    BY RoomType DEF TypeInv, TypeOK
  <2>2. [Room(r, m) EXCEPT ![o] = @ + 1] \in Counts
    BY <2>1 DEF Counts
  <2>3. pending' \in [Replicas -> State]
    BY <1>1, <1>6, <2>2 DEF RecordLog, TypeInv, TypeOK, State
  <2>4. /\ home' \in [Observations -> Replicas \cup {"nobody"}]
        /\ minute' \in [Observations -> Minutes]
    BY <1>6 DEF RecordLog, TypeInv, TypeOK
  <2> QED
    BY <1>6, <2>3, <2>4
    DEF RecordLog, TypeInv, TypeOK, JobInv, blobs, ghosts
<1> QED
  BY <1>4, <1>5, <1>6 DEF Record

LEMMA CollectTypes ==
  ASSUME TypeInv, NEW r \in Replicas, Collect(r)
  PROVE  TypeInv'
<1>1. /\ job[r] \in Job /\ job[r].end <= now /\ pending[r] \in State
      /\ job[r].pc \notin {"down", "idle"} => 0 <= job[r].end
      /\ job[r].pc \notin {"read", "swap"} => job[r].held = NoState
  BY DEF TypeInv, TypeOK, JobInv
<1>2. /\ now \in -1..LastMinute /\ 0 <= now
      /\ Idle(now) \in Job /\ Idle(now).held = NoState /\ Idle(now).end = now
  BY IdleType, Bounds DEF TypeInv, TypeOK
<1>3. /\ settings \in 0..MaxEvents /\ stored \in State /\ NoState \in State
      /\ "take" \in PCs /\ "check" \in PCs /\ "read" \in PCs
      /\ "swap" \in PCs /\ "save" \in PCs /\ "idle" \in PCs
  BY NoStateType DEF TypeInv, TypeOK, PCs
<1>0. ASSUME Take(r) \/ ReadState(r) \/ SwapState(r) \/ RetryFlush(r)
             \/ CheckRevision(r)
      PROVE  0 <= job[r].end
  BY <1>1, <1>0 DEF Take, ReadState, SwapState, RetryFlush, CheckRevision, At
<1>4. CASE Begin(r)
  <2> DEFINE next == [Idle(now) EXCEPT !.pc = "take", !.revision = settings]
  <2>1. /\ next \in Job /\ next.end = now /\ next.held = NoState
    BY <1>2, <1>3 DEF Job
  <2>2. Moves(r, next) /\ now' = now
    BY <1>4 DEF Begin
  <2> HIDE DEF next
  <2>3. now <= now
    BY DEF TypeInv, TypeOK
  <2>4. job' \in [Replicas -> Job] /\ JobInv'
    BY <1>2, <2>1, <2>2, <2>3, Moved
  <2> QED
    BY <1>4, <2>4 DEF Begin, TypeInv, TypeOK, blobs, ghosts
<1>5. CASE Take(r)
  <2> DEFINE next == [job[r] EXCEPT !.held = pending[r],
                        !.pc = IF pending[r] = NoState THEN "check" ELSE "read"]
  <2>1. /\ next \in Job /\ next.end = job[r].end
        /\ next.pc \notin {"read", "swap"} => next.held = NoState
    BY <1>1, <1>3 DEF Job
  <2>2. Moves(r, next) /\ now' = now
    BY <1>5 DEF Take
  <2> HIDE DEF next
  <2>3. job' \in [Replicas -> Job] /\ JobInv'
    BY <1>1, <1>0, <1>5, <2>1, <2>2, Moved
  <2>4. pending' \in [Replicas -> State]
    BY <1>3, <1>5 DEF Take, TypeInv, TypeOK
  <2> QED
    BY <1>5, <2>3, <2>4 DEF Take, TypeInv, TypeOK, blobs, ghosts
<1>6. CASE ReadState(r)
  <2> DEFINE next == [job[r] EXCEPT !.pc = "swap", !.base = stored]
  <2>1. /\ next \in Job /\ next.end = job[r].end /\ next.pc = "swap"
    BY <1>1, <1>3 DEF Job
  <2>2. Moves(r, next) /\ now' = now
    BY <1>6 DEF ReadState
  <2> HIDE DEF next
  <2>3. job' \in [Replicas -> Job] /\ JobInv'
    BY <1>1, <1>0, <1>6, <2>1, <2>2, Moved
  <2> QED
    BY <1>6, <2>3 DEF ReadState, TypeInv, TypeOK, blobs, ghosts
<1>7. CASE SwapState(r)
  <2> DEFINE next == [job[r] EXCEPT !.pc = "check", !.held = NoState,
                                    !.base = NoState, !.tries = 0]
  <2>0. 0 \in 0..MaxTries
    BY Bounds
  <2>1. /\ next \in Job /\ next.end = job[r].end /\ next.held = NoState
    BY <1>1, <1>3, <2>0 DEF Job
  <2>2. Moves(r, next) /\ now' = now
    BY <1>7 DEF SwapState
  <2> HIDE DEF next
  <2>3. job' \in [Replicas -> Job] /\ JobInv'
    BY <1>1, <1>0, <1>7, <2>1, <2>2, Moved
  <2>4. stored' \in State
    BY <1>7, FlushedType DEF SwapState, TypeInv, TypeOK
  <2>5. lost' \subseteq Observations
    BY <1>7 DEF SwapState, Cut, TypeInv, TypeOK
  <2> QED
    BY <1>7, <2>3, <2>4, <2>5 DEF SwapState, TypeInv, TypeOK
<1>8. CASE RetryFlush(r)
  <2>1. CASE job[r].tries + 1 < MaxTries
    <3> DEFINE next == [job[r] EXCEPT !.pc = "read", !.tries = @ + 1]
    <3>0. job[r].tries + 1 \in 0..MaxTries
      BY <1>1, <2>1, JobFields, Bounds
    <3>1. /\ next \in Job /\ next.end = job[r].end /\ next.pc = "read"
      BY <1>1, <1>3, <3>0 DEF Job
    <3>2. Moves(r, next) /\ now' = now /\ pending' = pending
      BY <1>8, <2>1 DEF RetryFlush
    <3> HIDE DEF next
    <3>3. job' \in [Replicas -> Job] /\ JobInv'
      BY <1>1, <1>0, <1>8, <3>1, <3>2, Moved
    <3> QED
      BY <1>8, <3>2, <3>3 DEF RetryFlush, TypeInv, TypeOK, blobs, ghosts
  <2>2. CASE ~(job[r].tries + 1 < MaxTries)
    <3>1. GiveUp(r) /\ now' = now
      BY <1>8, <2>2 DEF RetryFlush
    <3>2. pending' \in [Replicas -> State] /\ job' \in [Replicas -> Job] /\ JobInv'
      BY <3>1, GivenUp
    <3> QED
      BY <1>8, <3>2 DEF RetryFlush, TypeInv, TypeOK, blobs, ghosts
  <2> QED
    BY <2>1, <2>2
<1>9. CASE CheckRevision(r)
  <2>1. CASE settings = job[r].revision
    <3> DEFINE next == [job[r] EXCEPT !.pc = "save"]
    <3>1. job[r].held = NoState
      BY <1>1, <1>9 DEF CheckRevision, At
    <3>2. /\ next \in Job /\ next.end = job[r].end /\ next.held = NoState
      BY <1>1, <1>3, <3>1 DEF Job
    <3>3. Moves(r, next) /\ now' = now
      BY <1>9, <2>1 DEF CheckRevision
    <3> HIDE DEF next
    <3>4. job' \in [Replicas -> Job] /\ JobInv'
      BY <1>1, <1>0, <1>9, <3>2, <3>3, Moved
    <3> QED
      BY <1>9, <3>4 DEF CheckRevision, TypeInv, TypeOK, blobs, ghosts
  <2>2. CASE settings # job[r].revision
    <3>1. Moves(r, Idle(job[r].end)) /\ now' = now
      BY <1>9, <2>2 DEF CheckRevision
    <3>2. job' \in [Replicas -> Job] /\ JobInv'
      BY <3>1, Ended
    <3> QED
      BY <1>9, <3>2 DEF CheckRevision, TypeInv, TypeOK, blobs, ghosts
  <2> QED
    BY <2>1, <2>2
<1>10. CASE SaveSnapshot(r)
  <2>1. job' \in [Replicas -> Job] /\ JobInv'
    BY <1>10, Ended DEF SaveSnapshot
  <2>2. history' \in Seq(Snapshot) /\ Len(history') <= MaxSnapshots
    BY <1>10, BuiltType, SavedType DEF SaveSnapshot, TypeInv, TypeOK
  <2> QED
    BY <1>10, <2>1, <2>2 DEF SaveSnapshot, TypeInv, TypeOK, ghosts
<1> QED
  BY <1>4, <1>5, <1>6, <1>7, <1>8, <1>9, <1>10 DEF Collect

LEMMA TroubleTypes ==
  ASSUME TypeInv, NEW r \in Replicas, Trouble(r)
  PROVE  TypeInv'
<1>1. ASSUME More PROVE troubles + 1 \in 0..MaxEvents
  BY <1>1, Bounds DEF More, TypeInv, TypeOK
<1>2. CASE StoreFails(r)
  <2>1. /\ pending' \in [Replicas -> State] /\ job' \in [Replicas -> Job]
        /\ JobInv' /\ troubles' \in 0..MaxEvents
    BY <1>1, <1>2, GivenUp DEF StoreFails, Fault
  <2> QED
    BY <1>2, <2>1 DEF StoreFails, Fault, TypeInv, TypeOK, ghosts
<1>3. CASE FlushAnswerLost(r)
  <2>1. /\ pending' \in [Replicas -> State] /\ job' \in [Replicas -> Job]
        /\ JobInv' /\ troubles' \in 0..MaxEvents
    BY <1>1, <1>3, GivenUp DEF FlushAnswerLost, Fault
  <2>2. stored' \in State
    BY <1>3, FlushedType DEF FlushAnswerLost, TypeInv, TypeOK
  <2>3. job[r].held.logs \in Counts
    BY JobFields, StateFields DEF TypeInv, TypeOK
  <2>4. echoes' \in Counts
    BY <1>3, <2>3, PlusType DEF FlushAnswerLost, TypeInv, TypeOK
  <2>5. lost' \subseteq Observations
    BY <1>3 DEF FlushAnswerLost, Cut, TypeInv, TypeOK
  <2> QED
    BY <1>3, <2>1, <2>2, <2>4, <2>5 DEF FlushAnswerLost, Fault, TypeInv, TypeOK
<1>4. CASE SaveAnswerLost(r)
  <2>1. /\ pending' \in [Replicas -> State] /\ job' \in [Replicas -> Job]
        /\ JobInv' /\ troubles' \in 0..MaxEvents
    BY <1>1, <1>4, GivenUp DEF SaveAnswerLost, Fault
  <2>2. history' \in Seq(Snapshot) /\ Len(history') <= MaxSnapshots
    BY <1>4, BuiltType, SavedType DEF SaveAnswerLost, TypeInv, TypeOK
  <2> QED
    BY <1>4, <2>1, <2>2 DEF SaveAnswerLost, Fault, TypeInv, TypeOK, ghosts
<1>5. CASE Kill(r)
  <2>1. -1 <= now
    BY Bounds DEF TypeInv, TypeOK
  <2>2. job' \in [Replicas -> Job] /\ JobInv'
    BY <1>5, <2>1, DownType, Moved DEF Kill
  <2>3. /\ pending' \in [Replicas -> State] /\ lost' \subseteq Observations
        /\ troubles' \in 0..MaxEvents
    BY <1>1, <1>5, NoStateType DEF Kill, InMemory, TypeInv, TypeOK
  <2> QED
    BY <1>5, <2>2, <2>3 DEF Kill, TypeInv, TypeOK, blobs
<1>6. CASE Restart(r)
  <2>1. -1 <= now /\ -1 \in -1..LastMinute
    BY Bounds DEF TypeInv, TypeOK
  <2>2. /\ Idle(-1) \in Job /\ Idle(-1).end <= now /\ Idle(-1).held = NoState
        /\ Idle(-1).pc = "idle"
    BY <2>1, IdleType
  <2>3. job' \in [Replicas -> Job] /\ JobInv'
    BY <1>6, <2>2, Moved DEF Restart
  <2> QED
    BY <1>6, <2>3 DEF Restart, TypeInv, TypeOK, blobs, ghosts
<1> QED
  BY <1>2, <1>3, <1>4, <1>5, <1>6 DEF Trouble

LEMMA NextTypes ==
  ASSUME TypeInv, [Next]_vars
  PROVE  TypeInv'
<1>1. CASE UpdateSettings
  <2>1. settings' \in 0..MaxEvents
    BY <1>1, Bounds DEF UpdateSettings, More, TypeInv, TypeOK
  <2> QED
    BY <1>1, <2>1 DEF UpdateSettings, TypeInv, TypeOK, JobInv, ghosts
<1>2. CASE Tick
  <2>1. now' \in FirstMinute..LastMinute /\ now' = now + 1
    BY <1>2, Bounds DEF Tick, TypeInv, TypeOK
  <2>2. ASSUME NEW r \in Replicas PROVE job[r].end <= now + 1
    BY JobFields, Bounds DEF TypeInv, TypeOK, JobInv
  <2>3. JobInv'
    BY <1>2, <2>1, <2>2 DEF Tick, JobInv, TypeInv
  <2> QED
    BY <1>2, <2>1, <2>3 DEF Tick, TypeInv, TypeOK, blobs, ghosts
<1>3. CASE UNCHANGED vars
  BY <1>3 DEF vars, blobs, ghosts, TypeInv, TypeOK, JobInv
<1> QED
  BY <1>1, <1>2, <1>3, RecordTypes, CollectTypes, TroubleTypes DEF Next

\* Type correctness of the buffers, the blobs and the jobs, and the bound of the
\* history (the saves of manager.go), for any number of replicas.
THEOREM Types == Spec => []TypeOK
<1>1. Init => TypeInv
  BY InitTypes
<1>2. TypeInv /\ [Next]_vars => TypeInv'
  BY NextTypes
<1>3. TypeInv => TypeOK
  BY DEF TypeInv
<1> QED
  BY <1>1, <1>2, <1>3, PTL DEF Spec

-----------------------------------------------------------------------------
(* The accounting *)

\* What a replica has of an observation, in its buffer or on its way.
Held(r, o) == pending[r].logs[o] + job[r].held.logs[o]

\* Only the recorder has something of an observation.
AtHome(o) == \A r \in Replicas : r # home[o] => Held(r, o) = 0

\* What is stored and what a replica would add are one, or echoes.
NotTwice(o) ==
  /\ stored.logs[o] <= 1 + echoes[o]
  /\ \A r \in Replicas : stored.logs[o] + Held(r, o) <= 1 + echoes[o]

Unrecorded(o) == home[o] = "nobody" => stored.logs[o] = 0

Kept(o) ==
  \/ home[o] = "nobody" \/ o \in lost \/ Outdated(o)
  \/ stored.logs[o] + Held(home[o], o) > 0

Account(o) == AtHome(o) /\ NotTwice(o) /\ Unrecorded(o) /\ Kept(o)
Inv == TypeInv /\ \A o \in Observations : Account(o)

LEMMA Naturals ==
  ASSUME TypeInv, NEW o \in Observations
  PROVE  /\ stored.logs[o] \in Nat /\ echoes[o] \in Nat
         /\ minute[o] \in Nat /\ now \in Nat
         /\ \A r \in Replicas :
              /\ pending[r].logs[o] \in Nat /\ job[r].held.logs[o] \in Nat
              /\ Held(r, o) \in Nat
<1>1. stored.logs[o] \in Nat /\ echoes[o] \in Nat
  BY StateFields DEF TypeInv, TypeOK, Counts
<1>2. minute[o] \in Nat /\ now \in Nat
  BY Bounds DEF TypeInv, TypeOK, Minutes
<1>3. ASSUME NEW r \in Replicas
      PROVE  pending[r].logs[o] \in Nat /\ job[r].held.logs[o] \in Nat
  BY JobFields, StateFields DEF TypeInv, TypeOK
<1> QED
  BY <1>1, <1>2, <1>3 DEF Held

LEMMA InitAccount == Init => Inv
<1> SUFFICES ASSUME Init PROVE Inv
  OBVIOUS
<1>1. TypeInv
  BY InitTypes
<1>2. ASSUME NEW o \in Observations
      PROVE  /\ stored.logs[o] = 0 /\ echoes[o] = 0 /\ home[o] = "nobody"
             /\ \A r \in Replicas : Held(r, o) = 0
  BY NoStateType DEF Init, Idle, Held
<1> QED
  BY <1>1, <1>2 DEF Inv, Account, AtHome, NotTwice, Unrecorded, Kept

\* A step in which the copies of an observation stay, or in which a replica
\* adds of its copies to the stored ones, or drops copies that are outdated or
\* cut.
LEMMA Moving ==
  ASSUME Inv, TypeInv', NEW o \in Observations, NEW r \in Replicas,
         UNCHANGED <<now, home[o], minute[o], echoes[o]>>,
         lost \subseteq lost',
         \A q \in Replicas \ {r} : Held(q, o)' = Held(q, o),
         Held(r, o)' <= Held(r, o),
         stored'.logs[o] + Held(r, o)' <= stored.logs[o] + Held(r, o),
         \/ Outdated(o) \/ o \in lost'
         \/ stored'.logs[o] + Held(r, o)' = stored.logs[o] + Held(r, o)
  PROVE  Account(o)'
<1>1. /\ stored.logs[o] \in Nat /\ stored'.logs[o] \in Nat /\ echoes[o] \in Nat
      /\ \A q \in Replicas : Held(q, o) \in Nat /\ Held(q, o)' \in Nat
  <2>1. TypeInv
    BY DEF Inv
  <2>2. /\ stored.logs[o] \in Nat /\ echoes[o] \in Nat
        /\ \A q \in Replicas : Held(q, o) \in Nat
    BY <2>1, Naturals
  <2>3. stored'.logs[o] \in Nat
    BY StateFields DEF TypeInv, TypeOK
  <2>4. ASSUME NEW q \in Replicas PROVE Held(q, o)' \in Nat
    <3>1. /\ pending'[q] \in State /\ job'[q].held \in State
      BY JobFields DEF TypeInv, TypeOK
    <3> QED
      BY <3>1, StateFields DEF Held
  <2> QED
    BY <2>2, <2>3, <2>4
<1>2. /\ \A q \in Replicas : q # home[o] => Held(q, o) = 0
      /\ stored.logs[o] <= 1 + echoes[o]
      /\ \A q \in Replicas : stored.logs[o] + Held(q, o) <= 1 + echoes[o]
      /\ home[o] = "nobody" => stored.logs[o] = 0
  BY DEF Inv, Account, AtHome, NotTwice, Unrecorded
<1>3. AtHome(o)'
  BY <1>1, <1>2 DEF AtHome
<1>4. NotTwice(o)'
  BY <1>1, <1>2 DEF NotTwice
<1>5. r # "nobody"
  BY HealthAssumption DEF HealthAssumption
<1>6. Unrecorded(o)'
  BY <1>1, <1>2, <1>5 DEF Unrecorded
<1>7. Kept(o)'
  <2>1. CASE Outdated(o)
    BY <2>1 DEF Outdated, Kept
  <2>2. CASE home[o] = "nobody" \/ o \in lost'
    BY <2>2 DEF Kept
  <2>3. CASE ~Outdated(o) /\ home[o] # "nobody" /\ o \notin lost'
    <3> SUFFICES ASSUME NEW q \in Replicas, q = home[o]
                 PROVE  Kept(o)'
      BY <2>3 DEF Inv, TypeInv, TypeOK
    <3>1. stored.logs[o] + Held(q, o) > 0
      BY <2>3 DEF Inv, Account, Kept
    <3>2. q # r => Held(r, o) = 0
      BY <1>2
    <3>3. stored'.logs[o] + Held(q, o)' > 0
      BY <1>1, <2>3, <3>1, <3>2
    <3>4. Held(q, o)' = Held(home[o], o)'
      BY DEF Held
    <3> QED
      BY <3>3, <3>4 DEF Kept
  <2> QED
    BY <2>1, <2>2, <2>3
<1> QED
  BY <1>3, <1>4, <1>6, <1>7 DEF Account

\* A step that moves observations between a buffer and a job at most.
LEMMA Conserved ==
  ASSUME Inv, TypeInv', UNCHANGED <<home, minute, echoes, lost>>,
         now' = now \/ now' = now + 1,
         \A o \in Observations : stored'.logs[o] = stored.logs[o],
         \A o \in Observations, r \in Replicas : Held(r, o)' = Held(r, o)
  PROVE  Inv'
<1>1. ASSUME NEW o \in Observations
      PROVE  AtHome(o)' /\ NotTwice(o)' /\ Unrecorded(o)'
  BY DEF Inv, Account, AtHome, NotTwice, Unrecorded
<1>2. ASSUME NEW o \in Observations PROVE Kept(o)'
  <2>1. home[o] = "nobody" \/ home[o] \in Replicas
    BY DEF Inv, TypeInv, TypeOK
  <2>2. Outdated(o) => Outdated(o)'
    BY Naturals, Bounds DEF Inv, Outdated
  <2>3. home[o] \in Replicas => Held(home[o], o)' = Held(home[o], o)
    <3> SUFFICES ASSUME NEW q \in Replicas, q = home[o]
                 PROVE  Held(home[o], o)' = Held(home[o], o)
      OBVIOUS
    <3>1. Held(q, o)' = Held(q, o)
      OBVIOUS
    <3> QED
      BY <3>1 DEF Held
  <2> QED
    BY <2>1, <2>2, <2>3 DEF Inv, Account, Kept
<1> QED
  BY <1>1, <1>2 DEF Inv, Account

\* A job gives up: what it held is back in its buffer.
LEMMA PutBack ==
  ASSUME Inv, NEW r \in Replicas, GiveUp(r), now' = now
  PROVE  /\ \A o \in Observations, q \in Replicas : Held(q, o)' = Held(q, o)
         /\ \A o \in Observations : job'[r].held.logs[o] = 0
<1>1. /\ job'[r].held = NoState
      /\ \A o \in Observations :
           pending'[r].logs[o] = pending[r].logs[o] + job[r].held.logs[o]
      /\ \A q \in Replicas \ {r} :
           pending'[q] = pending[q] /\ job'[q] = job[q]
  BY GivenUp DEF Inv
<1>2. ASSUME NEW o \in Observations, NEW q \in Replicas
      PROVE  Held(q, o)' = Held(q, o)
  <2>1. CASE q = r
    BY <1>1, <2>1, NoStateType, Naturals DEF Held, Inv
  <2>2. CASE q # r
    BY <1>1, <2>2 DEF Held
  <2> QED
    BY <2>1, <2>2
<1> QED
  BY <1>1, <1>2, NoStateType

\* A swap stores what its job held, on top of what is stored now.
LEMMA Swapped ==
  ASSUME Inv, NEW r \in Replicas, stored = job[r].base
  PROVE  \A o \in Observations :
           \/ Flushed(r).logs[o] = stored.logs[o] + job[r].held.logs[o]
           \/ Flushed(r).logs[o] = 0 /\ (Outdated(o) \/ o \in Cut(r))
<1>1. ASSUME NEW o \in Observations, minute[o] < job[r].end - Retention
      PROVE  Outdated(o)
  <2>1. job[r].end <= now /\ job[r].end \in Int
    BY JobFields DEF Inv, TypeInv, TypeOK, JobInv
  <2> QED
    BY <1>1, <2>1, Naturals, Bounds DEF Inv, Outdated
<1> QED
  BY <1>1, FlushedType DEF Inv, TypeInv, TypeOK

LEMMA RecordAccount ==
  ASSUME Inv, NEW r \in Replicas, Record(r)
  PROVE  Inv'
<1>1. TypeInv' /\ pending \in [Replicas -> State]
  BY RecordTypes DEF Inv, TypeInv, TypeOK
<1>2. ASSUME NEW succeeded \in BOOLEAN, RecordSource(r, succeeded)
      PROVE  Inv'
  <2>1. ASSUME NEW o \in Observations, NEW q \in Replicas
        PROVE  Held(q, o)' = Held(q, o)
    BY <1>1, <1>2 DEF RecordSource, Held, State
  <2> QED
    BY <1>1, <1>2, <2>1, Conserved DEF RecordSource, blobs, ghosts
\* What making room drops is outdated.
<1>3. ASSUME NEW m \in Minutes, m <= now, NEW o \in Observations
      PROVE  /\ Room(r, m)[o] \in Nat
             /\ \/ Room(r, m)[o] = pending[r].logs[o]
                \/ Room(r, m)[o] = 0 /\ Outdated(o)
  <2>1. /\ Room(r, m) \in Counts
        /\ \/ Room(r, m)[o] = pending[r].logs[o]
           \/ Room(r, m)[o] = 0 /\ minute[o] < m - Retention + 1
    BY <1>1, RoomType
  <2>2. minute[o] \in Nat /\ now \in Nat /\ m \in Nat
    BY Naturals, Bounds DEF Inv, Minutes
  <2> QED
    BY <1>3, <2>1, <2>2, Bounds DEF Counts, Outdated
<1>4. ASSUME NEW m \in Minutes, RefuseLog(r, m)
      PROVE  Inv'
  <2>1. ASSUME NEW o \in Observations PROVE Account(o)'
    <3>1. pending'[r].logs[o] = Room(r, m)[o]
      BY <1>1, <1>4 DEF RefuseLog, State
    <3>2. \A q \in Replicas \ {r} : Held(q, o)' = Held(q, o)
      BY <1>1, <1>4 DEF RefuseLog, Held
    <3>3. /\ pending[r].logs[o] \in Nat /\ job[r].held.logs[o] \in Nat
          /\ stored.logs[o] \in Nat
      BY Naturals DEF Inv
    <3>4. /\ Held(r, o)' = Room(r, m)[o] + job[r].held.logs[o]
          /\ stored' = stored
          /\ UNCHANGED <<now, home[o], minute[o], echoes[o], lost>>
      BY <1>4, <3>1 DEF RefuseLog, Held, blobs, ghosts
    <3>5. /\ Room(r, m)[o] \in Nat
          /\ \/ Room(r, m)[o] = pending[r].logs[o]
             \/ Room(r, m)[o] = 0 /\ Outdated(o)
      BY <1>3, <1>4 DEF RefuseLog
    <3>6. /\ Held(r, o)' <= Held(r, o)
          /\ stored'.logs[o] + Held(r, o)' <= stored.logs[o] + Held(r, o)
          /\ \/ Outdated(o)
             \/ stored'.logs[o] + Held(r, o)' = stored.logs[o] + Held(r, o)
      BY <3>3, <3>4, <3>5 DEF Held
    <3> QED
      BY <1>1, <3>2, <3>4, <3>6, Moving
  <2> QED
    BY <1>1, <2>1 DEF Inv
<1>5. ASSUME NEW m \in Minutes, NEW x \in Observations, RecordLog(r, x, m)
      PROVE  Inv'
  <2>1. ASSUME NEW o \in Observations
        PROVE  /\ pending'[r].logs[o]
                    = IF o = x THEN Room(r, m)[o] + 1 ELSE Room(r, m)[o]
               /\ home'[o] = IF o = x THEN r ELSE home[o]
               /\ minute'[o] = IF o = x THEN m ELSE minute[o]
               /\ \A q \in Replicas \ {r} : Held(q, o)' = Held(q, o)
               /\ stored' = stored /\ job' = job
               /\ UNCHANGED <<now, echoes, lost>>
    <3>1. Room(r, m) \in Counts
      BY <1>1, RoomType
    <3>2. /\ pending'[r].logs = [Room(r, m) EXCEPT ![x] = @ + 1]
          /\ \A q \in Replicas \ {r} : pending'[q] = pending[q]
      BY <1>1, <1>5 DEF RecordLog, State
    <3>3. /\ home'[o] = IF o = x THEN r ELSE home[o]
          /\ minute'[o] = IF o = x THEN m ELSE minute[o]
      BY <1>5 DEF RecordLog, Inv, TypeInv, TypeOK
    <3> QED
      BY <1>5, <3>1, <3>2, <3>3 DEF RecordLog, Counts, Held, blobs, ghosts
  <2>2. /\ \A o \in Observations :
             /\ pending[r].logs[o] \in Nat /\ job[r].held.logs[o] \in Nat
             /\ stored.logs[o] \in Nat /\ echoes[o] \in Nat
        /\ m <= now
    BY <1>5, Naturals DEF Inv, RecordLog
  <2>3. ASSUME NEW o \in Observations, o # x PROVE Account(o)'
    <3>1. /\ Room(r, m)[o] \in Nat
          /\ \/ Room(r, m)[o] = pending[r].logs[o]
             \/ Room(r, m)[o] = 0 /\ Outdated(o)
      BY <1>3, <2>2
    <3>2. /\ Held(r, o)' <= Held(r, o)
          /\ stored'.logs[o] + Held(r, o)' <= stored.logs[o] + Held(r, o)
          /\ \/ Outdated(o)
             \/ stored'.logs[o] + Held(r, o)' = stored.logs[o] + Held(r, o)
      BY <2>1, <2>2, <2>3, <3>1 DEF Held
    <3> QED
      BY <1>1, <2>1, <2>3, <3>2, Moving
  <2>4. Account(x)'
    <3>1. home[x] = "nobody" /\ \A q \in Replicas : q # "nobody"
      BY <1>5, HealthAssumption DEF RecordLog, HealthAssumption
    <3>2. stored.logs[x] = 0 /\ \A q \in Replicas : Held(q, x) = 0
      BY <3>1 DEF Inv, Account, AtHome, Unrecorded
    <3>3. pending[r].logs[x] = 0 /\ job[r].held.logs[x] = 0
      BY <2>2, <3>2 DEF Held
    <3>4. Room(r, m)[x] = 0
      BY <1>3, <2>2, <3>3
    <3>5. Held(r, x)' = 1 /\ \A q \in Replicas \ {r} : Held(q, x)' = 0
      BY <2>1, <3>2, <3>3, <3>4 DEF Held
    <3>6. home'[x] = r /\ stored'.logs[x] = 0 /\ echoes'[x] \in Nat
      BY <2>1, <2>2, <3>2
    <3>7. (Held(home[x], x))' = Held(r, x)'
      BY <3>6 DEF Held
    <3> QED
      BY <3>1, <3>5, <3>6, <3>7
      DEF Account, AtHome, NotTwice, Unrecorded, Kept
  <2> QED
    BY <1>1, <2>3, <2>4 DEF Inv
<1> QED
  BY <1>2, <1>4, <1>5 DEF Record

LEMMA CollectAccount ==
  ASSUME Inv, NEW r \in Replicas, Collect(r)
  PROVE  Inv'
<1>1. /\ TypeInv /\ TypeInv' /\ job \in [Replicas -> Job]
      /\ pending \in [Replicas -> State]
  BY CollectTypes DEF Inv, TypeInv, TypeOK
<1>2. /\ job[r] \in Job
      /\ job[r].pc \notin {"read", "swap"} => job[r].held = NoState
      /\ \A o \in Observations :
           pending[r].logs[o] \in Nat /\ job[r].held.logs[o] \in Nat
  BY <1>1, Naturals DEF TypeInv, TypeOK, JobInv
\* A job that goes on with what it held.
<1>3. ASSUME NEW next, Moves(r, next), next.held = job[r].held,
             pending' = pending, stored' = stored,
             UNCHANGED <<now, home, minute, echoes, lost>>
      PROVE  Inv'
  <2>1. \A q \in Replicas : job'[q].held = job[q].held
    BY <1>1, <1>3 DEF Moves
  <2>2. \A o \in Observations, q \in Replicas : Held(q, o)' = Held(q, o)
    BY <1>3, <2>1 DEF Held
  <2> QED
    BY <1>1, <1>3, <2>2, Conserved
<1>4. ASSUME Moves(r, Idle(job[r].end)), job[r].held = NoState,
             pending' = pending, stored' = stored,
             UNCHANGED <<now, home, minute, echoes, lost>>
      PROVE  Inv'
  <2>1. Idle(job[r].end).held = job[r].held
    BY <1>4 DEF Idle
  <2> QED
    BY <1>3, <1>4, <2>1
<1>5. CASE Begin(r)
  <2> DEFINE next == [Idle(now) EXCEPT !.pc = "take", !.revision = settings]
  <2>1. next.held = job[r].held
    BY <1>2, <1>5 DEF Idle, Begin, At
  <2>2. Moves(r, next)
    BY <1>5 DEF Begin
  <2> HIDE DEF next
  <2> QED
    BY <1>3, <1>5, <2>1, <2>2 DEF Begin, blobs, ghosts
<1>6. CASE Take(r)
  <2>1. /\ job'[r].held = pending[r] /\ pending'[r] = NoState
        /\ job[r].held = NoState
        /\ \A q \in Replicas \ {r} : job'[q] = job[q] /\ pending'[q] = pending[q]
    BY <1>1, <1>2, <1>6 DEF Take, Moves, At, Job
  <2>2. ASSUME NEW o \in Observations, NEW q \in Replicas
        PROVE  Held(q, o)' = Held(q, o)
    <3>1. CASE q = r
      BY <1>2, <2>1, <3>1, NoStateType DEF Held
    <3>2. CASE q # r
      BY <2>1, <3>2 DEF Held
    <3> QED
      BY <3>1, <3>2
  <2> QED
    BY <1>1, <1>6, <2>2, Conserved DEF Take, blobs, ghosts
<1>7. CASE ReadState(r)
  <2> DEFINE next == [job[r] EXCEPT !.pc = "swap", !.base = stored]
  <2>1. next.held = job[r].held
    BY <1>2 DEF Job
  <2>2. Moves(r, next)
    BY <1>7 DEF ReadState
  <2> HIDE DEF next
  <2> QED
    BY <1>3, <1>7, <2>1, <2>2 DEF ReadState, blobs, ghosts
<1>8. CASE SwapState(r)
  <2>1. /\ job'[r].held = NoState /\ pending' = pending
        /\ \A q \in Replicas \ {r} : job'[q] = job[q]
        /\ stored = job[r].base /\ stored' = Flushed(r)
        /\ lost' = lost \cup Cut(r)
        /\ UNCHANGED <<now, home, minute, echoes>>
    BY <1>1, <1>2, <1>8 DEF SwapState, Moves, Job
  <2>2. ASSUME NEW o \in Observations PROVE Account(o)'
    <3>1. \A q \in Replicas \ {r} : Held(q, o)' = Held(q, o)
      BY <2>1 DEF Held
    <3>2. \/ stored'.logs[o] = stored.logs[o] + job[r].held.logs[o]
          \/ stored'.logs[o] = 0 /\ (Outdated(o) \/ o \in lost')
      BY <2>1, Swapped
    <3>3. Held(r, o)' = pending[r].logs[o]
      BY <1>2, <2>1, NoStateType DEF Held
    <3>4. stored.logs[o] \in Nat
      BY <1>1, Naturals
    <3>5. /\ Held(r, o)' <= Held(r, o)
          /\ stored'.logs[o] + Held(r, o)' <= stored.logs[o] + Held(r, o)
          /\ \/ Outdated(o) \/ o \in lost'
             \/ stored'.logs[o] + Held(r, o)' = stored.logs[o] + Held(r, o)
      BY <1>2, <3>2, <3>3, <3>4 DEF Held
    <3> QED
      BY <1>1, <2>1, <3>1, <3>5, Moving
  <2> QED
    BY <1>1, <2>2 DEF Inv
<1>9. CASE RetryFlush(r)
  <2>1. CASE job[r].tries + 1 < MaxTries
    <3> DEFINE next == [job[r] EXCEPT !.pc = "read", !.tries = @ + 1]
    <3>1. next.held = job[r].held
      BY <1>2 DEF Job
    <3>2. Moves(r, next) /\ pending' = pending
      BY <1>9, <2>1 DEF RetryFlush
    <3> HIDE DEF next
    <3> QED
      BY <1>3, <1>9, <3>1, <3>2 DEF RetryFlush, blobs, ghosts
  <2>2. CASE ~(job[r].tries + 1 < MaxTries)
    <3>1. GiveUp(r) /\ UNCHANGED <<now, blobs, home, minute, pulls, troubles, ghosts>>
      BY <1>9, <2>2 DEF RetryFlush
    <3>2. \A o \in Observations, q \in Replicas : Held(q, o)' = Held(q, o)
      BY <3>1, PutBack
    <3> QED
      BY <1>1, <3>1, <3>2, Conserved DEF blobs, ghosts
  <2> QED
    BY <2>1, <2>2
<1>10. CASE CheckRevision(r)
  <2>1. CASE settings = job[r].revision
    <3> DEFINE next == [job[r] EXCEPT !.pc = "save"]
    <3>1. next.held = job[r].held
      BY <1>2 DEF Job
    <3>2. Moves(r, next)
      BY <1>10, <2>1 DEF CheckRevision
    <3> HIDE DEF next
    <3> QED
      BY <1>3, <1>10, <3>1, <3>2 DEF CheckRevision, blobs, ghosts
  <2>2. CASE settings # job[r].revision
    BY <1>2, <1>4, <1>10, <2>2 DEF CheckRevision, At, blobs, ghosts
  <2> QED
    BY <2>1, <2>2
<1>11. CASE SaveSnapshot(r)
  BY <1>2, <1>4, <1>11 DEF SaveSnapshot, At, ghosts
<1> QED
  BY <1>5, <1>6, <1>7, <1>8, <1>9, <1>10, <1>11 DEF Collect

LEMMA TroubleAccount ==
  ASSUME Inv, NEW r \in Replicas, Trouble(r)
  PROVE  Inv'
<1>1. /\ TypeInv /\ TypeInv' /\ job \in [Replicas -> Job]
      /\ pending \in [Replicas -> State]
  BY TroubleTypes DEF Inv, TypeInv, TypeOK
<1>2. ASSUME GiveUp(r), stored' = stored,
             UNCHANGED <<now, home, minute, echoes, lost>>
      PROVE  Inv'
  <2>1. \A o \in Observations, q \in Replicas : Held(q, o)' = Held(q, o)
    BY <1>2, PutBack
  <2> QED
    BY <1>1, <1>2, <2>1, Conserved
<1>3. CASE StoreFails(r)
  BY <1>2, <1>3 DEF StoreFails, Fault, ghosts
<1>4. CASE SaveAnswerLost(r)
  BY <1>2, <1>4 DEF SaveAnswerLost, Fault, ghosts
<1>5. CASE FlushAnswerLost(r)
  <2>1. /\ GiveUp(r) /\ stored = job[r].base /\ stored' = Flushed(r)
        /\ echoes' = Plus(echoes, job[r].held.logs)
        /\ lost' = lost \cup Cut(r)
        /\ UNCHANGED <<now, home, minute>>
    BY <1>5 DEF FlushAnswerLost, Fault
  <2>2. \A o \in Observations, q \in Replicas : Held(q, o)' = Held(q, o)
    BY <2>1, PutBack
  <2>3. ASSUME NEW o \in Observations PROVE Account(o)'
    <3>1. \/ stored'.logs[o] = stored.logs[o] + job[r].held.logs[o]
          \/ stored'.logs[o] = 0 /\ (Outdated(o) \/ o \in lost')
      BY <2>1, Swapped
    <3>2. echoes'[o] = echoes[o] + job[r].held.logs[o]
      BY <2>1 DEF Plus
    <3>3. /\ stored.logs[o] \in Nat /\ echoes[o] \in Nat
          /\ pending[r].logs[o] \in Nat /\ job[r].held.logs[o] \in Nat
          /\ \A q \in Replicas : Held(q, o) \in Nat
      BY <1>1, Naturals
    <3>4. AtHome(o)'
      BY <2>1, <2>2 DEF Inv, Account, AtHome
    <3>5. ASSUME NEW q \in Replicas
          PROVE  stored'.logs[o] + Held(q, o)' <= 1 + echoes'[o]
      <4>1. stored.logs[o] + Held(q, o) <= 1 + echoes[o]
        BY DEF Inv, Account, NotTwice
      <4> QED
        BY <2>2, <3>1, <3>2, <3>3, <4>1
    <3>6. stored.logs[o] <= 1 + echoes[o]
      BY DEF Inv, Account, NotTwice
    <3>7. NotTwice(o)'
      BY <3>1, <3>2, <3>3, <3>5, <3>6 DEF NotTwice
    <3>8. Unrecorded(o)'
      <4> SUFFICES ASSUME home[o] = "nobody" PROVE stored'.logs[o] = 0
        BY <2>1 DEF Unrecorded
      <4>1. r # "nobody"
        BY HealthAssumption DEF HealthAssumption
      <4>2. Held(r, o) = 0 /\ stored.logs[o] = 0
        BY <4>1 DEF Inv, Account, AtHome, Unrecorded
      <4>3. job[r].held.logs[o] = 0
        <5>1. pending[r].logs[o] + job[r].held.logs[o] = 0
          BY <4>2 DEF Held
        <5> QED
          BY <3>3, <5>1
      <4> QED
        BY <3>1, <4>2, <4>3
    <3>9. Kept(o)'
      <4>1. CASE Outdated(o)
        BY <2>1, <4>1 DEF Outdated, Kept
      <4>2. CASE home[o] = "nobody" \/ o \in lost'
        BY <2>1, <4>2 DEF Kept
      <4>3. CASE ~Outdated(o) /\ home[o] # "nobody" /\ o \notin lost'
        <5> SUFFICES ASSUME NEW q \in Replicas, q = home[o]
                     PROVE  Kept(o)'
          BY <1>1, <4>3 DEF TypeInv, TypeOK
        <5>1. stored.logs[o] + Held(q, o) > 0
          BY <2>1, <4>3 DEF Inv, Account, Kept
        <5>2. stored'.logs[o] + Held(q, o)' > 0
          BY <2>2, <3>1, <3>3, <4>3, <5>1
        <5>3. (Held(home[o], o))' = Held(q, o)'
          BY <2>1 DEF Held
        <5> QED
          BY <5>2, <5>3 DEF Kept
      <4> QED
        BY <4>1, <4>2, <4>3
    <3> QED
      BY <3>4, <3>7, <3>8, <3>9 DEF Account
  <2> QED
    BY <1>1, <2>3 DEF Inv
<1>6. CASE Kill(r)
  <2>1. /\ pending'[r] = NoState /\ job'[r].held = NoState
        /\ \A q \in Replicas \ {r} : job'[q] = job[q] /\ pending'[q] = pending[q]
        /\ lost' = lost \cup InMemory(r)
        /\ UNCHANGED <<now, stored, home, minute, echoes>>
    BY <1>1, <1>6, DownType DEF Kill, Moves, blobs
  <2>2. ASSUME NEW o \in Observations PROVE Account(o)'
    <3>1. /\ stored.logs[o] \in Nat /\ echoes[o] \in Nat
          /\ pending[r].logs[o] \in Nat /\ job[r].held.logs[o] \in Nat
      BY <1>1, Naturals
    <3>2. Held(r, o)' = 0
      BY <2>1, NoStateType DEF Held
    <3>3. \A q \in Replicas \ {r} : Held(q, o)' = Held(q, o)
      BY <2>1 DEF Held
    <3>4. AtHome(o)'
      BY <2>1, <3>2, <3>3 DEF Inv, Account, AtHome
    <3>5. NotTwice(o)' /\ Unrecorded(o)'
      BY <2>1, <3>1, <3>2, <3>3 DEF Inv, Account, NotTwice, Unrecorded
    <3>6. Kept(o)'
      <4>1. CASE home[o] = "nobody" \/ o \in lost \/ Outdated(o)
        BY <2>1, <4>1 DEF Outdated, Kept
      <4>2. CASE stored.logs[o] + Held(home[o], o) > 0
        <5>1. CASE home[o] = r
          <6>1. o \in InMemory(r) \/ stored.logs[o] > 0
            BY <3>1, <4>2, <5>1 DEF InMemory, Held
          <6>2. (Held(home[o], o))' = 0
            BY <2>1, <3>2, <5>1 DEF Held
          <6> QED
            BY <2>1, <3>1, <6>1, <6>2 DEF Kept
        <5>2. CASE home[o] = "nobody"
          BY <2>1, <5>2 DEF Kept
        <5>3. CASE home[o] \in Replicas \ {r}
          <6>1. (Held(home[o], o))' = Held(home[o], o)
            BY <2>1, <5>3 DEF Held
          <6> QED
            BY <2>1, <4>2, <6>1 DEF Kept
        <5> QED
          BY <1>1, <5>1, <5>2, <5>3 DEF TypeInv, TypeOK
      <4> QED
        BY <4>1, <4>2 DEF Inv, Account, Kept
    <3> QED
      BY <3>4, <3>5, <3>6 DEF Account
  <2> QED
    BY <1>1, <2>2 DEF Inv
<1>7. CASE Restart(r)
  <2>1. job[r].held = NoState
    <3>1. At(r, "down")
      BY <1>7 DEF Restart, Alive, At
    <3> QED
      BY <1>1, <3>1 DEF TypeInv, JobInv, At
  <2>2. \A q \in Replicas : job'[q].held = job[q].held
    BY <1>1, <1>7, <2>1 DEF Restart, Moves, Idle
  <2>3. \A o \in Observations, q \in Replicas : Held(q, o)' = Held(q, o)
    BY <1>7, <2>2 DEF Restart, Held
  <2> QED
    BY <1>1, <1>7, <2>3, Conserved DEF Restart, blobs, ghosts
<1> QED
  BY <1>3, <1>4, <1>5, <1>6, <1>7 DEF Trouble

LEMMA NextAccount ==
  ASSUME Inv, [Next]_vars
  PROVE  Inv'
<1>1. TypeInv'
  BY NextTypes DEF Inv
<1>2. CASE UpdateSettings \/ Tick \/ UNCHANGED vars
  <2>1. /\ UNCHANGED <<stored, pending, job, home, minute, echoes, lost>>
        /\ now' = now \/ now' = now + 1
    BY <1>2 DEF UpdateSettings, Tick, vars, blobs, ghosts
  <2>2. \A o \in Observations, q \in Replicas : Held(q, o)' = Held(q, o)
    BY <2>1 DEF Held
  <2> QED
    BY <1>1, <2>1, <2>2, Conserved
<1> QED
  BY <1>2, RecordAccount, CollectAccount, TroubleAccount DEF Next

\* The accounting of flushPending and restorePending (manager.go): however the
\* flushes of replicas conflict, fail and are put back, nothing is counted twice
\* without a lost answer, or lost while its process lives and its minute is kept.
THEOREM ObservationsAccounted == Spec => []Accounted
<1>1. Init => Inv
  BY InitAccount
<1>2. Inv /\ [Next]_vars => Inv'
  BY NextAccount
<1>3. Inv => Accounted
  BY DEF Inv, Account, NotTwice, Kept, Accounted, InHand, Held
<1> QED
  BY <1>1, <1>2, <1>3, PTL DEF Spec

=============================================================================
