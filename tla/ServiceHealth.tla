--------------------------- MODULE ServiceHealth ---------------------------
(***************************************************************************)
(* Service health of one organization.  The worker of a replica folds log  *)
(* observations and pull outcomes into a buffer of its manager; the        *)
(* scheduler's job takes the buffer, merges it into the shared state blob  *)
(* with compare-and-swap, and appends a snapshot of the window to the      *)
(* shared history blob, again with compare-and-swap.  Any call of the      *)
(* store may fail, a swap may take effect although its answer is lost, a   *)
(* process may die at any step, and an operator revises the settings.      *)
(*                                                                         *)
(* A minute is one tick, one bucket and one collection interval.  There is *)
(* one service and one source: buckets of several are merged alike.  What  *)
(* a snapshot says is left out, its identity is kept.                      *)
(***************************************************************************)
EXTENDS Integers, Sequences, FiniteSets

CONSTANTS
  Replicas,
  Owners,       \* replicas the ownership predicate lets run "service-health"
  Observations, \* folds of the worker, each recorded at most once
  Retention,    \* MaxLogRetention, in minutes
  MaxBuckets,   \* MaxLogBuckets, of a buffer and of the blob
  MaxSnapshots,
  MaxTries,     \* tries of a compare-and-swap loop, 8 in the code
  FirstMinute, LastMinute, \* bound: the clock; the last stands for all later
  MaxEvents     \* bound: recorded pulls, revisions, failing calls and deaths

ASSUME HealthAssumption ==
  /\ Owners \subseteq Replicas /\ "nobody" \notin Replicas
  /\ \A n \in {Retention, FirstMinute, LastMinute, MaxEvents} : n \in Nat
  /\ \A n \in {MaxBuckets, MaxSnapshots, MaxTries} : n \in Nat \ {0}
  /\ FirstMinute <= LastMinute

VARIABLES
  now,
  settings, \* the revision in the settings blob
  stored,   \* the state blob: counts of observations, status of the source
  history,  \* the snapshots blob
  pending,  \* Manager.pending of each replica
  job,      \* where the scheduler's goroutine of each replica is
  home,     \* who recorded an observation
  minute,   \* the bucket of an observation: the minute of its timestamp
  pulls,    \* pulls so far, in their order: what stands for their time
  troubles, \* failing calls and deaths so far
  echoes,   \* history: lost answers of swaps that stored an observation
  lost      \* history: observations that died in memory, or that a full blob cut

blobs == <<settings, stored, history>>
ghosts == <<echoes, lost>>
vars == <<now, blobs, pending, job, home, minute, pulls, troubles, ghosts>>

Minutes == 0..LastMinute
Counts == [Observations -> Nat]
Status == [attempt : 0..MaxEvents, success : 0..MaxEvents]
State == [logs : Counts, status : Status]
Snapshot == [revision : 0..MaxEvents, end : Minutes]
PCs == {"down", "idle", "take", "read", "swap", "check", "save"}
Job == [pc : PCs, end : -1..LastMinute, revision : 0..MaxEvents,
        held : State, base : State, tries : 0..MaxTries]

NoStatus == [attempt |-> 0, success |-> 0]
NoState == [logs |-> [o \in Observations |-> 0], status |-> NoStatus]
Idle(end) == [pc |-> "idle", end |-> end, revision |-> 0, held |-> NoState,
              base |-> NoState, tries |-> 0]
Down == [Idle(-1) EXCEPT !.pc = "down"]

Init ==
  /\ now = FirstMinute /\ settings = 0 /\ stored = NoState /\ history = << >>
  /\ pending = [r \in Replicas |-> NoState]
  /\ job = [r \in Replicas |-> Idle(-1)]
  /\ home = [o \in Observations |-> "nobody"]
  /\ minute = [o \in Observations |-> 0]
  /\ pulls = 0 /\ troubles = 0
  /\ echoes = [o \in Observations |-> 0] /\ lost = {}

-----------------------------------------------------------------------------
(* Helpers *)

\* Counts without the buckets that start before the cutoff.
Prune(logs, cutoff) ==
  [o \in Observations |-> IF minute[o] < cutoff THEN 0 ELSE logs[o]]

Buckets(logs) == {minute[o] : o \in {x \in Observations : logs[x] > 0}}

\* The newest buckets, as many as the bound allows.
Newest(logs) ==
  [o \in Observations |->
     IF Cardinality({m \in Buckets(logs) : m > minute[o]}) < MaxBuckets
     THEN logs[o] ELSE 0]

Plus(one, other) == [o \in Observations |-> one[o] + other[o]]

\* The status whose attempt is later, taken whole.
Later(one, other) == IF one.attempt < other.attempt THEN other ELSE one

Merge(state, delta) ==
  [logs |-> Plus(state.logs, delta.logs),
   status |-> Later(state.status, delta.status)]

More == pulls + settings + troubles < MaxEvents

Owns(r) == r \in Owners
Alive(r) == job[r].pc # "down"

\* The status of the source after one more pull.
Pulled(status, succeeded) ==
  IF succeeded THEN [attempt |-> pulls + 1, success |-> pulls + 1]
  ELSE [status EXCEPT !.attempt = pulls + 1]

-----------------------------------------------------------------------------
(* The worker *)

\* RecordSourceHealth of a pull.
RecordSource(r, succeeded) ==
  /\ Owns(r) /\ Alive(r) /\ More
  /\ pending' = [pending EXCEPT ![r].status = Pulled(@, succeeded)]
  /\ pulls' = pulls + 1
  /\ UNCHANGED <<now, blobs, job, home, minute, troubles, ghosts>>

\* What the buffer of r holds when a fold of minute m is put into it: only a
\* new bucket has old ones pruned, and the cutoff lies within a minute.
Room(r, m) ==
  IF m \in Buckets(pending[r].logs) THEN pending[r].logs
  ELSE Prune(pending[r].logs, m - Retention + 1)

\* RecordLogHealth of a fold whose rows bear a timestamp of minute m.
RecordLog(r, o, m) ==
  /\ Owns(r) /\ Alive(r) /\ home[o] = "nobody" /\ m <= now
  /\ m \in Buckets(Room(r, m)) \/ Cardinality(Buckets(Room(r, m))) < MaxBuckets
  /\ pending' = [pending EXCEPT ![r].logs = [Room(r, m) EXCEPT ![o] = @ + 1]]
  /\ home' = [home EXCEPT ![o] = r]
  /\ minute' = [minute EXCEPT ![o] = m]
  /\ UNCHANGED <<now, blobs, job, pulls, troubles, ghosts>>

\* RecordLogHealth answers ErrBufferFull and the worker records a failed pull.
RefuseLog(r, m) ==
  /\ Owns(r) /\ Alive(r) /\ m <= now /\ More
  /\ m \notin Buckets(Room(r, m))
  /\ Cardinality(Buckets(Room(r, m))) >= MaxBuckets
  /\ pending' = [pending EXCEPT ![r].logs = Room(r, m),
                                ![r].status = Pulled(@, FALSE)]
  /\ pulls' = pulls + 1
  /\ UNCHANGED <<now, blobs, job, home, minute, troubles, ghosts>>

-----------------------------------------------------------------------------
(* The scheduler's job: Collect *)

At(r, pc) == job[r].pc = pc
Moves(r, next) == job' = [job EXCEPT ![r] = next]

\* Mutant of Begin: the settings are those of the first collection.
BeginStale(r) ==
  /\ Owns(r) /\ At(r, "idle")
  /\ job[r].end < now \/ now = LastMinute
  /\ Moves(r, [Idle(now) EXCEPT !.pc = "take"])
  /\ UNCHANGED <<now, blobs, pending, home, minute, pulls, troubles, ghosts>>

\* runJob is due, and Collect loads the settings.
Begin(r) ==
  /\ Owns(r) /\ At(r, "idle")
  /\ job[r].end < now \/ now = LastMinute
  /\ Moves(r, [Idle(now) EXCEPT !.pc = "take", !.revision = settings])
  /\ UNCHANGED <<now, blobs, pending, home, minute, pulls, troubles, ghosts>>

\* flushPending takes the buffer; an empty one needs no flush.
Take(r) ==
  /\ At(r, "take")
  /\ Moves(r, [job[r] EXCEPT !.held = pending[r],
                 !.pc = IF pending[r] = NoState THEN "check" ELSE "read"])
  /\ pending' = [pending EXCEPT ![r] = NoState]
  /\ UNCHANGED <<now, blobs, home, minute, pulls, troubles, ghosts>>

ReadState(r) ==
  /\ At(r, "read")
  /\ Moves(r, [job[r] EXCEPT !.pc = "swap", !.base = stored])
  /\ UNCHANGED <<now, blobs, pending, home, minute, pulls, troubles, ghosts>>

\* The blob that the swap of r writes: buckets out of retention are dropped,
\* then the oldest beyond the bound.
Merged(r) == Merge(job[r].base, job[r].held)
Retained(r) == Prune(Merged(r).logs, job[r].end - Retention)
Flushed(r) == [Merged(r) EXCEPT !.logs = Newest(Retained(r))]

\* Observations that the bound of the blob cuts.
Cut(r) ==
  {o \in Observations : Retained(r)[o] > 0 /\ Newest(Retained(r))[o] = 0}

\* Mutant of GiveUp: what was recorded meanwhile is overwritten.
GiveUpOverwrites(r) ==
  /\ pending' = [pending EXCEPT ![r] = job[r].held]
  /\ Moves(r, Idle(job[r].end))

\* restorePending, and the collection ends with an error.
GiveUp(r) ==
  /\ pending' = [pending EXCEPT ![r] = Merge(@, job[r].held)]
  /\ Moves(r, Idle(job[r].end))

SwapState(r) ==
  /\ At(r, "swap") /\ stored = job[r].base
  /\ stored' = Flushed(r)
  /\ lost' = lost \cup Cut(r)
  /\ Moves(r, [job[r] EXCEPT !.pc = "check", !.held = NoState,
                             !.base = NoState, !.tries = 0])
  /\ UNCHANGED <<now, settings, history, pending, home, minute, pulls, troubles,
                 echoes>>

\* A peer has swapped since: read again, or ErrConflict after the last try.
RetryFlush(r) ==
  /\ At(r, "swap") /\ stored # job[r].base
  /\ IF job[r].tries + 1 < MaxTries
     THEN /\ Moves(r, [job[r] EXCEPT !.pc = "read", !.tries = @ + 1])
          /\ UNCHANGED pending
     ELSE GiveUp(r)
  /\ UNCHANGED <<now, blobs, home, minute, pulls, troubles, ghosts>>

\* The window is read and built, and SaveSnapshot compares the revision.
CheckRevision(r) ==
  /\ At(r, "check")
  /\ Moves(r, IF settings = job[r].revision THEN [job[r] EXCEPT !.pc = "save"]
              ELSE Idle(job[r].end))
  /\ UNCHANGED <<now, blobs, pending, home, minute, pulls, troubles, ghosts>>

\* Peers give the snapshot of a window and a revision the same SnapshotID.
Built(r) == [revision |-> job[r].revision, end |-> job[r].end]

\* Mutant of Extended: nothing is dropped.
ExtendedUntrimmed(known, snapshot) == Append(known, snapshot)

\* The history with one more snapshot, without the oldest beyond the bound.
Extended(known, snapshot) ==
  LET longer == Append(known, snapshot)
  IN IF Len(longer) > MaxSnapshots THEN Tail(longer) ELSE longer

\* The loop of SaveSnapshot, with effect at its swap: the newest history gets
\* the snapshot, unless it has it.  The revision is not compared again.
Saved(r) ==
  IF \E i \in DOMAIN history : history[i] = Built(r) THEN history
  ELSE Extended(history, Built(r))

SaveSnapshot(r) ==
  /\ At(r, "save")
  /\ history' = Saved(r)
  /\ Moves(r, Idle(job[r].end))
  /\ UNCHANGED <<now, settings, stored, pending, home, minute, pulls, troubles,
                 ghosts>>

-----------------------------------------------------------------------------
(* Failures, the operator, the clock *)

Fault ==
  /\ More /\ troubles' = troubles + 1
  /\ UNCHANGED <<now, settings, home, minute, pulls>>

\* A call of the store fails without effect.
StoreFails(r) ==
  /\ job[r].pc \notin {"down", "idle"} /\ Fault /\ GiveUp(r)
  /\ UNCHANGED <<stored, history, ghosts>>

\* A swap takes effect and its answer is lost.
FlushAnswerLost(r) ==
  /\ At(r, "swap") /\ stored = job[r].base /\ Fault
  /\ stored' = Flushed(r)
  /\ GiveUp(r)
  /\ echoes' = Plus(echoes, job[r].held.logs)
  /\ lost' = lost \cup Cut(r)
  /\ UNCHANGED history

SaveAnswerLost(r) ==
  /\ At(r, "save") /\ Fault
  /\ history' = Saved(r)
  /\ GiveUp(r)
  /\ UNCHANGED <<stored, ghosts>>

\* The process dies, or is stopped: nothing flushes its buffer.
InMemory(r) ==
  {o \in Observations : pending[r].logs[o] > 0 \/ job[r].held.logs[o] > 0}

Kill(r) ==
  /\ Alive(r) /\ More
  /\ troubles' = troubles + 1
  /\ lost' = lost \cup InMemory(r)
  /\ pending' = [pending EXCEPT ![r] = NoState]
  /\ Moves(r, Down)
  /\ UNCHANGED <<now, blobs, home, minute, pulls, echoes>>

Restart(r) ==
  /\ ~Alive(r)
  /\ Moves(r, Idle(-1))
  /\ UNCHANGED <<now, blobs, pending, home, minute, pulls, troubles, ghosts>>

\* UpdateSettings: read, compare the revision and swap, with effect at the swap.
UpdateSettings ==
  /\ More
  /\ settings' = settings + 1
  /\ UNCHANGED <<now, stored, history, pending, job, home, minute, pulls,
                 troubles, ghosts>>

Tick ==
  /\ now < LastMinute
  /\ now' = now + 1
  /\ UNCHANGED <<blobs, pending, job, home, minute, pulls, troubles, ghosts>>

\* What the goroutine of the job does.
Collect(r) ==
  \/ Begin(r) \/ Take(r)
  \/ ReadState(r) \/ SwapState(r) \/ RetryFlush(r)
  \/ CheckRevision(r) \/ SaveSnapshot(r)

Record(r) ==
  \/ \E succeeded \in BOOLEAN : RecordSource(r, succeeded)
  \/ \E m \in Minutes : RefuseLog(r, m)
  \/ \E m \in Minutes, o \in Observations : RecordLog(r, o, m)

Trouble(r) ==
  \/ StoreFails(r) \/ FlushAnswerLost(r) \/ SaveAnswerLost(r)
  \/ Kill(r) \/ Restart(r)

Next ==
  \/ \E r \in Replicas : Collect(r) \/ Record(r) \/ Trouble(r)
  \/ UpdateSettings
  \/ Tick

Spec == Init /\ [][Next]_vars

\* The goroutine of the job runs as long as its process lives, and time passes.
Fairness == WF_vars(Tick) /\ \A r \in Replicas : WF_vars(Collect(r))
LiveSpec == Spec /\ Fairness

-----------------------------------------------------------------------------
(* Properties *)

\* The values each variable takes; only its recorder holds an observation.
TypeOK ==
  /\ now \in FirstMinute..LastMinute
  /\ settings \in 0..MaxEvents
  /\ stored \in State
  /\ history \in Seq(Snapshot) /\ Len(history) <= MaxSnapshots
  /\ pending \in [Replicas -> State]
  /\ job \in [Replicas -> Job]
  /\ home \in [Observations -> Replicas \cup {"nobody"}]
  /\ minute \in [Observations -> Minutes]
  /\ pulls \in 0..MaxEvents /\ troubles \in 0..MaxEvents
  /\ echoes \in Counts
  /\ lost \subseteq Observations

\* A bucket the next flush or the next fold of its replica may drop.
Outdated(o) == minute[o] <= now - Retention

\* What the recorder of an observation still has of it.
InHand(o) ==
  pending[home[o]].logs[o] + job[home[o]].held.logs[o]

\* The accounting behind "a process crash can lose at most the observations
\* since the last collection" (manager.go:255): whatever flushes conflict,
\* fail and are put back, an observation is neither counted twice, unless the
\* answer of a swap was lost, nor lost while its minute is kept, unless the
\* process died with it in its buffer or a full blob cut its bucket.
Accounted ==
  \A o \in Observations :
    /\ stored.logs[o] <= 1 + echoes[o]
    /\ \/ home[o] = "nobody" \/ o \in lost \/ Outdated(o)
       \/ stored.logs[o] + InHand(o) > 0

\* Conflicts of peers, failing calls, and a snapshot of the old revision that is
\* on its way only delay a collection.  In the end what the workers recorded is
\* in the state blob, unless its process died first, or the retention or the
\* bound of the blob dropped it, and a snapshot is under the operator's last
\* revision of the settings, unless no owner is left.
Settled(o) == stored.logs[o] > 0 \/ o \in lost \/ Outdated(o)
InUse(revision) == \E i \in DOMAIN history : history[i].revision = revision
CollectionGoesOn ==
  <>[](/\ \A o \in Observations : home[o] = "nobody" \/ Settled(o)
       /\ InUse(settings) \/ \A r \in Owners : ~Alive(r))

\* "RecordSourceHealth stores attempt/success separately" (manager.go:294): a
\* later attempt that fails does not take the success the store knows of away.
SuccessRemembered ==
  [][stored'.status.success >= stored.status.success]_stored
=============================================================================
