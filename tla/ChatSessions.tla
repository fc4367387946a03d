---------------------------- MODULE ChatSessions ----------------------------
(***************************************************************************)
(* One session of the chat agent: its blob, its entry of the index and its *)
(* lease, three blobs that the replicas change each with its own           *)
(* compare-and-swap loop, and so in steps of their own.  Runs are the      *)
(* calls of Start, each on a replica, each with a goroutine that renews    *)
(* the lease; beside them one admin request at a time creates, reads,      *)
(* lists, cancels or deletes the session, and a new session evicts it.     *)
(*                                                                         *)
(* A writer's change of the session is a step, and its touchIndex another: *)
(* between them the status it wrote is noted.  Contents of turns, tools    *)
(* and events are left out, as is compaction of long sessions.             *)
(***************************************************************************)
EXTENDS Naturals, FiniteSets

CONSTANTS
  Replicas,
  Runs,      \* calls of Start, each used once
  Events,    \* bound: what may happen beside the runs, each kind once
  MaxEvents  \* bound: how many of them in one behaviour

Requests == {"get", "list", "cancel", "delete"}
Troubles == {"lapse",   \* renewal, or winding down, is slower than the TTL
             "timeout", \* a run takes its ten minutes
             "kill",    \* a replica dies
             "fault",   \* a call of the blob store fails
             "reply",   \* a lease is deleted and the answer is lost
             "evict"}   \* a hundred newer sessions push this one out

ASSUME ChatAssumption ==
  /\ Replicas # {} /\ Events \subseteq Requests \cup Troubles
  /\ MaxEvents \in Nat
  /\ "none" \notin Replicas \cup Runs /\ "gone" \notin Replicas

VARIABLES
  session,  \* the session blob
  index,    \* its entry of the index blob
  lease,    \* the lease blob
  active,   \* Service.active of each replica: the run that is reserved
  run,      \* where each call of Start is
  admin,    \* the admin request that is being served
  happened, \* the events so far
  born,     \* Create has answered: users know the session
  lost,     \* history: runs whose lease went away while they worked
  fixed     \* history: a reader has corrected the status

blobs == <<session, index, lease>>
history == <<lost, fixed>>
vars == <<blobs, active, run, admin, happened, born, history>>

Statuses == {"idle", "running", "failed"}
Outcomes == {"none", "answer", "failed", "throttled", "panic", "nothing"}
Preparing == {"checking", "rechecking", "correcting", "read", "reserved"}
Working == {"leased", "seeding", "rereading", "asking", "model",
            "finishing", "closing", "recovering", "failing", "release"}
Over == {"done", "refused", "dead"}
PCs == {"new", "releasing"} \cup Preparing \cup Working \cup Over

Wants == Requests \cup {"none", "create", "evict"}
Steps == {"idle", "indexing", "rolling back", "checking", "correcting",
          "listing", "relisting", "cancelling", "asking lease", "unlisting",
          "unleasing", "erasing"}

NoSession == [there |-> FALSE, status |-> "idle", seeded |-> FALSE,
              asked |-> {}, ended |-> {}]
NoEntry == [there |-> FALSE, status |-> "idle"]
NoLease == [there |-> FALSE, owner |-> "gone", epoch |-> 0, live |-> FALSE,
            cancel |-> FALSE]
NewRun(i) == [pc |-> "new", at |-> i, seeded |-> FALSE, epoch |-> 0,
              note |-> "none", outcome |-> "none", broken |-> FALSE,
              cancelled |-> FALSE, tries |-> 0]
NoRequest == [want |-> "none", at |-> "idle", note |-> "none"]

Init ==
  /\ session = NoSession /\ index = NoEntry /\ lease = NoLease
  /\ active = [i \in Replicas |-> "none"]
  /\ run \in [Runs -> {NewRun(i) : i \in Replicas}]
  /\ admin = NoRequest /\ happened = {} /\ born = FALSE
  /\ lost = {} /\ fixed = FALSE

-----------------------------------------------------------------------------
(* The lease *)

Holds(r) ==
  /\ lease.there /\ lease.owner = run[r].at /\ lease.epoch = run[r].epoch

AtWork(r) == run[r].pc \in Working

\* The runs that work under the lease.
Holders == {q \in Runs : AtWork(q) /\ Holds(q)}

LeaseActive == lease.there /\ lease.live

Event(kind) ==
  /\ kind \in Events \ happened /\ Cardinality(happened) < MaxEvents
  /\ happened' = happened \cup {kind}

(* The lease expires: of itself when no run works under it any more, and as
   a trouble when the one that does is too slow. *)
LapseUnrenewed ==
  /\ LeaseActive /\ Holders = {}
  /\ lease' = [lease EXCEPT !.live = FALSE]
  /\ UNCHANGED <<session, index, active, run, admin, happened, born, history>>

LapseUnderRun ==
  /\ LeaseActive /\ Holders # {} /\ Event("lapse")
  /\ lease' = [lease EXCEPT !.live = FALSE]
  /\ lost' = lost \cup Holders
  /\ UNCHANGED <<session, index, active, run, admin, born, fixed>>

-----------------------------------------------------------------------------
(* Writing the session *)

(* What follows a write of Start, prepare and execute that succeeded ... *)
After(r) ==
  CASE run[r].pc = "correcting" -> "read"
    [] run[r].pc = "leased" -> IF run[r].seeded THEN "asking" ELSE "seeding"
    [] run[r].pc = "seeding" -> "rereading"
    [] run[r].pc = "rereading" -> "asking"
    [] run[r].pc = "asking" -> "model"
    [] run[r].pc = "finishing" -> "closing"
    [] run[r].pc = "closing" ->
         IF run[r].outcome = "panic" THEN "recovering" ELSE "release"
    [] run[r].pc = "recovering" -> "failing"
    [] run[r].pc = "failing" -> "release"

(* ... and one that returned an error: execute's deferred SetStatus is
   there only once the session was set running. *)
AfterError(r) ==
  CASE run[r].pc \in {"checking", "rechecking", "correcting"} -> "refused"
    [] run[r].pc = "leased" -> "release"
    [] run[r].pc \in {"seeding", "rereading", "asking",
                      "finishing"} -> "closing"
    [] run[r].pc = "closing" ->
         IF run[r].outcome = "panic" THEN "recovering" ELSE "release"
    [] run[r].pc = "recovering" -> "failing"
    [] run[r].pc = "failing" -> "release"

Becomes(r, x) == run' = [run EXCEPT ![r] = x]
GoTo(r, pc) == Becomes(r, [run[r] EXCEPT !.pc = pc])
Stops(r) == Becomes(r, [run[r] EXCEPT !.cancelled = TRUE])

(* The goroutine's variables go with it; only whether a message may have
   been left without an end is remembered. *)
Left(r, pc, epoch) ==
  [pc |-> pc, at |-> run[r].at, seeded |-> FALSE, epoch |-> epoch,
   note |-> "none", outcome |-> "none", broken |-> run[r].broken,
   cancelled |-> FALSE, tries |-> 0]
Leaves(r, pc) == Becomes(r, Left(r, pc, 0))

Errs(r) ==
  Becomes(r, [run[r] EXCEPT !.pc = AfterError(r), !.broken = TRUE,
                            !.note = "none"])

\* Mutant of UpdateSession: an absent session is tried again for ever.
UpdateSessionRetries(r, changed) ==
  /\ run[r].note = "none"
  /\ session.there
  /\ session' = changed
  /\ Becomes(r, [run[r] EXCEPT !.note = changed.status])
  /\ UNCHANGED <<index, lease, active, admin, happened, born, lost>>

(* updateSession: the change is applied to what the blob holds now, and an
   absent session is an error. *)
UpdateSession(r, changed) ==
  /\ run[r].note = "none"
  /\ \/ /\ session.there
        /\ session' = changed
        /\ Becomes(r, [run[r] EXCEPT !.note = changed.status])
     \/ /\ ~session.there
        /\ Errs(r) /\ UNCHANGED session
  /\ UNCHANGED <<index, lease, active, admin, happened, born, lost>>

\* Mutant of TouchIndex: the entry is left as it was.
TouchIndexNever(r) ==
  /\ run[r].note # "none"
  /\ Becomes(r, [run[r] EXCEPT !.pc = After(r), !.note = "none"])
  /\ UNCHANGED <<index, session, lease, active, admin, happened, born,
                 history>>

(* touchIndex: the summary of what was written, and an entry that is
   missing comes back. *)
TouchIndex(r) ==
  /\ run[r].note # "none"
  /\ index' = [there |-> TRUE, status |-> run[r].note]
  /\ Becomes(r, [run[r] EXCEPT !.pc = After(r), !.note = "none"])
  /\ UNCHANGED <<session, lease, active, admin, happened, born, history>>

-----------------------------------------------------------------------------
(* Start: prepare *)

(* Get reads the blob; the snapshot says whether the session is seeded. *)
Begin(r) ==
  /\ born /\ run[r].pc = "new"
  /\ \/ /\ ~session.there /\ Leaves(r, "refused")
     \/ /\ session.there
        /\ Becomes(r, [run[r] EXCEPT !.seeded = session.seeded,
                         !.pc = IF session.status = "running" THEN "checking"
                                ELSE "read"])
  /\ UNCHANGED <<blobs, active, admin, happened, born, history>>

(* A session that was read as running is asked for its lease, by Get and
   then by prepare. *)
CheckLease(r) ==
  /\ run[r].pc \in {"checking", "rechecking"}
  /\ GoTo(r, IF ~LeaseActive THEN "correcting"
             ELSE IF run[r].pc = "checking" THEN "rechecking" ELSE "read")
  /\ UNCHANGED <<blobs, active, admin, happened, born, history>>

Correct(r) ==
  /\ run[r].pc = "correcting"
  /\ UpdateSession(r, [session EXCEPT !.status = "failed"])
  /\ fixed' = (fixed \/ session.there)

\* Mutant of Reserve: the map of the replica's runs is not asked.
ReserveUnchecked(r) ==
  /\ run[r].pc = "read"
  /\ active' = [active EXCEPT ![run[r].at] = r] /\ GoTo(r, "reserved")
  /\ UNCHANGED <<blobs, admin, happened, born, history>>

Reserve(r) ==
  /\ run[r].pc = "read"
  /\ \/ /\ active[run[r].at] = "none"
        /\ active' = [active EXCEPT ![run[r].at] = r] /\ GoTo(r, "reserved")
     \/ /\ active[run[r].at] # "none"
        /\ Leaves(r, "refused") /\ UNCHANGED active
  /\ UNCHANGED <<blobs, admin, happened, born, history>>

\* Mutant of Obtainable: an unexpired lease of another owner is taken over.
ObtainableAlways(i) == TRUE

(* The lease is to be had: there is none (which counts as epoch 0), it
   expired, or it is one's own. *)
Obtainable(i) == ~lease.there \/ ~lease.live \/ lease.owner = i

AcquireLease(r) ==
  LET i == run[r].at IN
  /\ run[r].pc = "reserved"
  /\ \/ /\ Obtainable(i)
        /\ lease' = [there |-> TRUE, owner |-> i, live |-> TRUE,
                     cancel |-> FALSE, epoch |-> lease.epoch + 1]
        /\ Becomes(r, [run[r] EXCEPT !.pc = "leased", !.epoch = lease.epoch + 1])
        /\ UNCHANGED active
     \/ /\ ~Obtainable(i)
        /\ active' = [active EXCEPT ![i] = "none"] /\ Leaves(r, "refused")
        /\ UNCHANGED lease
  /\ UNCHANGED <<session, index, admin, happened, born, history>>

-----------------------------------------------------------------------------
(* Start: execute *)

MarkRunning(r) ==
  /\ run[r].pc = "leased"
  /\ UpdateSession(r, [session EXCEPT !.status = "running"])
  /\ UNCHANGED fixed

(* seed: the flag; the discovery turn, which is appended before it if the
   tools found anything, is left out. *)
Seed(r) ==
  /\ run[r].pc = "seeding"
  /\ UpdateSession(r, [session EXCEPT !.status = "running", !.seeded = TRUE])
  /\ UNCHANGED fixed

(* The session is read anew after seeding, with Get's correction (whose
   read, check and write are one step here). *)
Reread(r) ==
  /\ run[r].pc = "rereading"
  /\ \/ /\ session.there /\ (session.status = "running" => LeaseActive)
        /\ run[r].note = "none" /\ GoTo(r, "asking")
        /\ UNCHANGED <<blobs, active, admin, happened, born, history>>
     \/ /\ session.there => session.status = "running" /\ ~LeaseActive
        /\ UpdateSession(r, [session EXCEPT !.status = "failed"])
        /\ fixed' = (fixed \/ session.there)

AppendUser(r) ==
  /\ run[r].pc = "asking"
  /\ UpdateSession(r, [session EXCEPT !.asked = @ \cup {r}])
  /\ UNCHANGED fixed

\* Mutant of RunChat: a run that failed leaves no terminal turn.
RunChatSilent(r) ==
  /\ run[r].pc = "model" /\ run[r].note = "none"
  /\ \E outcome \in Outcomes \ {"none"} :
        Becomes(r, [run[r] EXCEPT !.outcome = outcome,
                      !.broken = outcome = "nothing",
                      !.pc = IF outcome \in {"panic", "nothing", "failed"}
                             THEN "closing" ELSE "finishing"])
  /\ UNCHANGED <<blobs, active, admin, happened, born, history>>

(* RunChat: an answer, an error, a refusal of the rate limit, a panic, or
   neither answer nor error.  A panic and a missing answer write no turn
   before the deferred SetStatus. *)
RunChat(r) ==
  /\ run[r].pc = "model" /\ run[r].note = "none"
  /\ \E outcome \in Outcomes \ {"none"} :
        Becomes(r, [run[r] EXCEPT !.outcome = outcome,
                      !.broken = outcome = "nothing",
                      !.pc = IF outcome \in {"panic", "nothing"}
                             THEN "closing" ELSE "finishing"])
  /\ UNCHANGED <<blobs, active, admin, happened, born, history>>

(* The assistant turn, or persistTerminal; after a panic, persistFailure. *)
AppendEnd(r) ==
  /\ run[r].pc \in {"finishing", "recovering"}
  /\ UpdateSession(r, [session EXCEPT !.ended = @ \cup {r}])
  /\ UNCHANGED fixed

\* Mutant of FinalStatus: the outcome is stored as it is.
FinalStatusRaw(r) == run[r].outcome

(* finalStatus: idle once an answer is stored, and when throttled. *)
FinalStatus(r) ==
  IF run[r].pc = "closing"
     /\ (\/ run[r].outcome = "throttled"
         \/ run[r].outcome = "answer" /\ ~run[r].broken)
  THEN "idle" ELSE "failed"

SetFinal(r) ==
  /\ run[r].pc \in {"closing", "failing"}
  /\ UpdateSession(r, [session EXCEPT !.status = FinalStatus(r)])
  /\ UNCHANGED fixed

-----------------------------------------------------------------------------
(* release, renewal and faults *)

(* release: first the map and the context, which ends the renewal ... *)
Forget(r) ==
  /\ run[r].pc = "release"
  /\ active' = [active EXCEPT ![run[r].at] = "none"]
  /\ Becomes(r, Left(r, "releasing", run[r].epoch))
  /\ UNCHANGED <<blobs, admin, happened, born, history>>

(* The lease is deleted; who works under it loses it. *)
DropLease ==
  /\ lease' = NoLease
  /\ lost' = lost \cup Holders

(* ... then ReleaseLease: only one's own lease and epoch, and a lease that
   is gone or fenced is none of one's business. *)
ReleaseLease(r) ==
  /\ run[r].pc = "releasing"
  /\ \/ /\ Holds(r) /\ DropLease
        /\ \/ Leaves(r, "done") /\ UNCHANGED happened
           \/ /\ run[r].tries < 2 /\ Event("reply")
              /\ Becomes(r, [run[r] EXCEPT !.tries = @ + 1])
     \/ /\ ~Holds(r)
        /\ Leaves(r, "done") /\ UNCHANGED <<lease, lost, happened>>
  /\ UNCHANGED <<session, index, active, admin, born, fixed>>

\* Mutant of RenewLease: the lease is written anew, without the flag.
RenewLeaseForgets(r) ==
  /\ AtWork(r) /\ ~run[r].cancelled
  /\ \/ /\ ~Holds(r)
        /\ Stops(r) /\ UNCHANGED lease
     \/ /\ Holds(r)
        /\ lease' = [lease EXCEPT !.live = TRUE, !.cancel = FALSE]
        /\ UNCHANGED run
  /\ UNCHANGED <<session, index, active, admin, happened, born, history>>

(* RenewLease: it stops the run when the lease is gone, fenced, or asked to
   cancel; otherwise the lease is extended, even if it had expired. *)
RenewLease(r) ==
  /\ AtWork(r) /\ ~run[r].cancelled
  /\ \/ /\ ~Holds(r) \/ lease.cancel
        /\ Stops(r) /\ UNCHANGED lease
     \/ /\ Holds(r) /\ ~lease.cancel
        /\ lease' = [lease EXCEPT !.live = TRUE] /\ UNCHANGED run
  /\ UNCHANGED <<session, index, active, admin, happened, born, history>>

(* The ten minutes of a run are over. *)
RunTimeout(r) ==
  /\ AtWork(r) /\ ~run[r].cancelled /\ Event("timeout")
  /\ Stops(r)
  /\ UNCHANGED <<blobs, active, admin, born, history>>

(* A call of the store fails: of a write or its touchIndex, of the lease, of
   the renewal, or of the release, which is tried three times: once, or as
   often as is left. *)
StoreFails(r) ==
  /\ Event("fault")
  /\ \/ /\ run[r].pc \in {"checking", "rechecking", "correcting"} \cup
                         (Working \ {"model", "release"})
        /\ Errs(r) /\ UNCHANGED active
     \/ /\ run[r].pc = "reserved"
        /\ active' = [active EXCEPT ![run[r].at] = "none"]
        /\ Leaves(r, "refused")
     \/ /\ AtWork(r) /\ ~run[r].cancelled
        /\ Stops(r) /\ UNCHANGED active
     \/ /\ run[r].pc = "releasing" /\ run[r].tries < 2
        /\ Becomes(r, [run[r] EXCEPT !.tries = @ + 1]) /\ UNCHANGED active
     \/ /\ run[r].pc = "releasing"
        /\ Leaves(r, "done") /\ UNCHANGED active
  /\ UNCHANGED <<blobs, admin, born, history>>

(* A process dies.  The one that takes its place is another owner, with an
   empty map; the lease waits for its expiry.  An admin request may have
   been there. *)
Kill(i) ==
  LET victims == {r \in Runs : run[r].at = i
                                /\ run[r].pc \notin (Over \cup {"new"})} IN
  /\ Event("kill")
  /\ run' = [r \in Runs |->
       IF r \in victims THEN Left(r, "dead", 0) ELSE run[r]]
  /\ active' = [active EXCEPT ![i] = "none"]
  /\ lease' = IF lease.owner = i THEN [lease EXCEPT !.owner = "gone"]
              ELSE lease
  /\ admin' \in {admin, NoRequest}
  /\ UNCHANGED <<session, index, born, history>>

-----------------------------------------------------------------------------
(* Admin requests *)

AdminTo(step) == admin' = [admin EXCEPT !.at = step]
AdminDone == admin' = NoRequest
AdminStarts(want, step) ==
  /\ admin.at = "idle"
  /\ IF want = "create" THEN UNCHANGED happened ELSE Event(want)
  /\ admin' = [want |-> want, at |-> step, note |-> "none"]

RunsKeep == UNCHANGED <<active, run, lost>>

(* Create: the blob, then the entry; without the entry the blob is removed. *)
Create ==
  /\ ~born /\ ~session.there /\ AdminStarts("create", "indexing")
  /\ session' = [NoSession EXCEPT !.there = TRUE]
  /\ UNCHANGED <<index, lease, born, fixed>> /\ RunsKeep

CreateEntry ==
  /\ admin.at = "indexing"
  /\ index' = [there |-> TRUE, status |-> "idle"]
  /\ AdminDone /\ born' = TRUE
  /\ UNCHANGED <<session, lease, happened, fixed>> /\ RunsKeep

CreateRollback ==
  /\ admin.at = "rolling back"
  /\ session' = NoSession /\ AdminDone
  /\ UNCHANGED <<index, lease, happened, born, fixed>> /\ RunsKeep

(* Get and List do something only when they read "running". *)
Get ==
  /\ session.there /\ session.status = "running"
  /\ AdminStarts("get", "checking")
  /\ UNCHANGED <<blobs, born, fixed>> /\ RunsKeep

List ==
  /\ index.there /\ index.status = "running"
  /\ AdminStarts("list", "listing")
  /\ UNCHANGED <<blobs, born, fixed>> /\ RunsKeep

(* Delete gets the session, and looks for it in the list if it is gone. *)
Delete ==
  /\ \/ /\ session.there
        /\ AdminStarts("delete", IF session.status = "running"
                                 THEN "checking" ELSE "asking lease")
     \/ /\ ~session.there /\ index.there
        /\ AdminStarts("delete", IF index.status = "running"
                                 THEN "listing" ELSE "asking lease")
  /\ UNCHANGED <<blobs, born, fixed>> /\ RunsKeep

Continue == IF admin.want = "delete" THEN AdminTo("asking lease")
            ELSE AdminDone

AdminCheck ==
  /\ admin.at \in {"checking", "listing"}
  /\ IF LeaseActive THEN Continue
     ELSE AdminTo(IF admin.at = "checking" THEN "correcting" ELSE "relisting")
  /\ UNCHANGED <<blobs, happened, born, fixed>> /\ RunsKeep

(* Get's correction, which is a SetStatus like any other ... *)
AdminCorrect ==
  /\ admin.at = "correcting" /\ admin.note = "none"
  /\ \/ /\ session.there
        /\ session' = [session EXCEPT !.status = "failed"]
        /\ admin' = [admin EXCEPT !.note = "failed"] /\ fixed' = TRUE
     \/ /\ ~session.there /\ AdminDone /\ UNCHANGED <<session, fixed>>
  /\ UNCHANGED <<index, lease, happened, born>> /\ RunsKeep

AdminTouch ==
  /\ admin.at = "correcting" /\ admin.note # "none"
  /\ index' = [there |-> TRUE, status |-> admin.note]
  /\ IF admin.want = "delete"
     THEN admin' = [admin EXCEPT !.at = "asking lease", !.note = "none"]
     ELSE AdminDone
  /\ UNCHANGED <<session, lease, happened, born, fixed>> /\ RunsKeep

(* ... and List's, which looks again whether the entry says running. *)
AdminRelist ==
  /\ admin.at = "relisting"
  /\ IF index.there /\ index.status = "running"
     THEN index' = [index EXCEPT !.status = "failed"] /\ fixed' = TRUE
     ELSE UNCHANGED <<index, fixed>>
  /\ Continue
  /\ UNCHANGED <<session, lease, happened, born>> /\ RunsKeep

(* LeaseActive, and ErrRunActive if it is. *)
DeleteCheck ==
  /\ admin.at = "asking lease"
  /\ IF LeaseActive THEN AdminDone ELSE AdminTo("unlisting")
  /\ UNCHANGED <<blobs, happened, born, fixed>> /\ RunsKeep

Unlist ==
  /\ admin.at = "unlisting"
  /\ index' = NoEntry
  /\ IF index.there \/ session.there THEN AdminTo("unleasing") ELSE AdminDone
  /\ UNCHANGED <<session, lease, happened, born, fixed>> /\ RunsKeep

(* pruneIndex, when another session is created: whoever is oldest goes,
   without a look at its lease. *)
Evict ==
  /\ index.there
  /\ AdminStarts("evict", "unleasing")
  /\ index' = NoEntry
  /\ UNCHANGED <<session, lease, born, fixed>> /\ RunsKeep

(* deleteSessionArtifacts *)
Unlease ==
  /\ admin.at = "unleasing"
  /\ DropLease /\ AdminTo("erasing")
  /\ UNCHANGED <<session, index, active, run, happened, born, fixed>>

Erase ==
  /\ admin.at = "erasing"
  /\ session' = NoSession /\ AdminDone
  /\ UNCHANGED <<index, lease, happened, born, fixed>> /\ RunsKeep

(* Cancel: the flag of an unexpired lease, then whatever run the replica
   that serves the request has by now. *)
RequestCancel ==
  /\ LeaseActive /\ AdminStarts("cancel", "cancelling")
  /\ lease' = [lease EXCEPT !.cancel = TRUE]
  /\ UNCHANGED <<session, index, born, fixed>> /\ RunsKeep

CancelLocal ==
  /\ admin.at = "cancelling" /\ AdminDone
  /\ \E i \in Replicas :
        run' = [r \in Runs |-> IF active[i] = r
                               THEN [run[r] EXCEPT !.cancelled = TRUE]
                               ELSE run[r]]
  /\ UNCHANGED <<blobs, active, happened, born, history>>

AdminFails ==
  /\ admin.at \notin {"idle", "cancelling", "rolling back"}
  /\ Event("fault")
  /\ IF admin.at = "indexing" THEN AdminTo("rolling back") ELSE AdminDone
  /\ UNCHANGED <<blobs, born, fixed>> /\ RunsKeep

-----------------------------------------------------------------------------
Writes(r) ==
  \/ Correct(r) \/ MarkRunning(r) \/ Seed(r) \/ Reread(r)
  \/ AppendUser(r) \/ AppendEnd(r) \/ SetFinal(r) \/ TouchIndex(r)

RunSteps(r) ==
  \/ CheckLease(r) \/ Reserve(r) \/ AcquireLease(r)
  \/ Writes(r) \/ RunChat(r) \/ Forget(r) \/ ReleaseLease(r)

AdminSteps ==
  \/ CreateEntry \/ CreateRollback
  \/ AdminCheck \/ AdminCorrect \/ AdminTouch \/ AdminRelist
  \/ DeleteCheck \/ Unlist \/ Unlease \/ Erase \/ CancelLocal

AdminRequests == Create \/ Get \/ List \/ Delete \/ Evict \/ RequestCancel

Next ==
  \/ \E r \in Runs :
        Begin(r) \/ RunSteps(r) \/ RenewLease(r) \/ RunTimeout(r)
        \/ StoreFails(r)
  \/ AdminRequests \/ AdminSteps \/ AdminFails
  \/ LapseUnrenewed \/ LapseUnderRun
  \/ \E i \in Replicas : Kill(i)

Spec == Init /\ [][Next]_vars

(* A goroutine that runs goes on, a ticker ticks, RunChat returns within
   its context, and the clock reaches an expiry.  Users need not come. *)
Fairness ==
  /\ \A r \in Runs : WF_vars(RunSteps(r)) /\ WF_vars(RenewLease(r))
  /\ WF_vars(AdminSteps) /\ WF_vars(LapseUnrenewed)

FairSpec == Spec /\ Fairness

-----------------------------------------------------------------------------
(* Properties *)

RunType == [pc : PCs, at : Replicas, seeded : BOOLEAN, epoch : Nat,
            note : Statuses \cup {"none"}, outcome : Outcomes,
            broken : BOOLEAN, cancelled : BOOLEAN, tries : 0..2]

TypeOK ==
  /\ session \in [there : BOOLEAN, status : Statuses, seeded : BOOLEAN,
                  asked : SUBSET Runs, ended : SUBSET Runs]
  /\ index \in [there : BOOLEAN, status : Statuses]
  /\ lease \in [there : BOOLEAN, owner : Replicas \cup {"gone"},
                epoch : Nat, live : BOOLEAN, cancel : BOOLEAN]
  /\ active \in [Replicas -> Runs \cup {"none"}]
  /\ run \in [Runs -> RunType]
  /\ admin \in [want : Wants, at : Steps, note : {"none", "failed"}]
  /\ happened \subseteq Events /\ lost \subseteq Runs
  /\ {born, fixed} \subseteq BOOLEAN

(* A run works under its own unexpired lease until it gives it back, unless
   the lease expired under it or was deleted from under it: no other
   replica, and no later run of its own, takes it. *)
HeldWhileWorking ==
  \A r \in Runs : AtWork(r) /\ r \notin lost => Holds(r) /\ lease.live

(* As long as no reader corrects, no lease is lost and nothing fails, the
   session is running exactly from a run's first write to its last, and the
   index says the same once the writers have touched it. *)
Marked(r) == run[r].pc \in {"seeding", "rereading", "asking",
                            "model", "finishing"}
Untroubled ==
  born /\ ~fixed /\ lost = {} /\ happened \cap {"kill", "fault"} = {}
StatusTells ==
  Untroubled /\ session.there /\ (\A r \in Runs : run[r].note = "none") =>
    /\ session.status = "running" => \E r \in Runs : AtWork(r)
    /\ (\E r \in Runs : Marked(r)) => session.status = "running"
    /\ index.there => index.status = session.status

(* The session keeps what ChatExchange promises: the turns of a run are
   stored once and in order, and the exchanges one after the other. *)
Abandoned == lost \cup {r \in Runs : run[r].pc = "dead" \/ run[r].broken}
Exchange == INSTANCE ChatExchange
              WITH asked <- session.asked, ended <- session.ended,
                   abandoned <- Abandoned, gone <- born /\ ~session.there
KeepsExchange == Exchange!Safe
EndsExchange == Exchange!Spec

(* A cancel that was asked for, on whatever replica, is not forgotten: the
   flag stays in the lease of the run, whatever renews or takes it, until the
   run was stopped, came to its end, or lost the lease. *)
CancelStays ==
  [][\A r \in Runs :
       AtWork(r) /\ Holds(r) /\ lease.cancel
         => \/ Holds(r)' /\ lease'.cancel
            \/ ~AtWork(r)' \/ run'[r].cancelled \/ r \in lost']_vars

(* Every run that begins is over at last, whatever fails around it. *)
RunsEnd == <>[](\A r \in Runs : run[r].pc \in {"new"} \cup Over)
=============================================================================
