------------------------------- MODULE OnCall -------------------------------
(***************************************************************************)
(* One incident from its announcement to on-call, with its acknowledgement *)
(* and its record:                                                         *)
(*                                                                         *)
(*   pkg/core/oncall.go               OnCallWorkflow: Start, Ack           *)
(*   pkg/services/incident.go         createIncident, on-call enabled      *)
(*   pkg/services/acktoken.go         the ack link and its expiry          *)
(*   pkg/controllers/ack.go           HandleAck                            *)
(*   pkg/controllers/incidents_admin.go, teams_admin.go   resolve, assign  *)
(*                                                                         *)
(* The Redis key says that the incident waits for an acknowledgement; the  *)
(* timer that escalates it lives in the process that called Start.  The    *)
(* record is read, changed and saved by several handlers.  Whole minutes   *)
(* are ticks; the key, the link and the timers carry what is left of them. *)
(***************************************************************************)
EXTENDS Integers

CONSTANTS
  Calls,        \* createIncident calls for the incident
  Origins,      \* subset of {"webhook", "detection"}
  Waits,        \* values of WaitMinutes
  AutoResolve,  \* values of the intake setting AutoResolveWebhook
  Prompt,       \* a due timer runs within its minute
  Faults,       \* subset of FaultKinds that may occur
  MaxFaults     \* bound on the faults

\* A process dies; a Redis call fails, with or without effect; a save of the
\* record fails; the on-call provider cannot be reached.
FaultKinds == {"crash", "redis", "save", "provider"}

ASSUME OnCallAssumption ==
  /\ Origins \subseteq {"webhook", "detection"}
  /\ Waits \subseteq Nat /\ AutoResolve \subseteq BOOLEAN
  /\ Prompt \in BOOLEAN
  /\ Faults \subseteq FaultKinds /\ MaxFaults \in Nat

VARIABLES
  setup,    \* where the incident comes from and how it is configured
  key,      \* what is left of the Redis key; 0: there is none
  link,     \* the ack link: whether a channel has it, and what is left of it
  record,   \* the incident record
  call,     \* the createIncident calls
  timer,    \* the goroutine Start of each call leaves behind
  ack,      \* where HandleAck is
  admin,    \* where the resolve or assign handler is, and the copy it read

  \* History: what happened.  Guards read only the bound from it.
  started,  \* some Start succeeded
  accepted, \* an acknowledgement was accepted
  stamped,  \* ... and written to the record
  paged,    \* the on-call provider was triggered
  raced,    \* an acknowledgement and an escalation overlapped
  stale,    \* an admin handler saved a copy of a record that had changed
  faults,   \* the kinds of faults that occurred
  spent     \* how many occurred

marks == <<started, accepted, stamped, paged, raced, stale>>
hist == <<started, accepted, stamped, paged, raced, stale, faults, spent>>
vars == <<setup, key, link, record, call, timer, ack, admin, hist>>

Setups == [origin : Origins, wait : Waits, auto : AutoResolve]

NoRecord == [exists |-> FALSE, resolved |-> FALSE, acked |-> FALSE,
             oncall |-> FALSE]

\* Mutant of KeyLife: the key lives exactly as long as the timer waits.
KeyLifeNoMargin == setup.wait

\* expiration: a minute more than the wait.
KeyLife == setup.wait + 1

\* Mutant of LinkLife: the link lives as long as the key.
LinkLifeOfKey == setup.wait + 1

\* The ack link's ttl.
LinkLife == setup.wait

\* Mutant of Saved: a detection's writer replaces the record too.
SavedWhole(stored, rec) == rec

\* saveIncidentRecord: a webhook's record is replaced as a whole; for a
\* detection only the delivery fields of a stored record change.
Saved(stored, rec) ==
  IF setup.origin = "detection" /\ stored.exists
  THEN [stored EXCEPT !.oncall = rec.oncall]
  ELSE rec

\* SaveIncident by an admin handler: for a detection the delivery fields of
\* the stored record are kept.
SavedByAdmin(stored, rec) ==
  IF setup.origin = "detection" /\ stored.exists
  THEN [rec EXCEPT !.oncall = stored.oncall]
  ELSE rec

Fault(kind) ==
  /\ kind \in Faults /\ spent < MaxFaults
  /\ faults' = faults \cup {kind} /\ spent' = spent + 1

NoFault == UNCHANGED <<faults, spent>>

\* A save by createIncident; a failure is logged and the call goes on.
Save(rec) ==
  \/ record' = Saved(record, rec) /\ NoFault
  \/ UNCHANGED record /\ Fault("save")

----------------------------------------------------------------------------
Init ==
  /\ setup \in {s \in Setups : s.auto => s.origin = "webhook"}
  /\ key = 0 /\ link = [sent |-> FALSE, left |-> 0]
  /\ record = NoRecord
  /\ call = [c \in Calls |->
              [pc |-> "idle", reached |-> FALSE, rec |-> NoRecord]]
  /\ timer = [c \in Calls |-> [pc |-> "off", left |-> 0]]
  /\ ack = "idle"
  /\ admin = [pc |-> "idle", rec |-> NoRecord]
  /\ started = FALSE /\ accepted = FALSE /\ stamped = FALSE
  /\ paged = FALSE /\ raced = FALSE /\ stale = FALSE
  /\ faults = {} /\ spent = 0

Down(n) == IF n > 0 THEN n - 1 ELSE 0

\* A timer that is due, or past its check.
Due(c) == timer[c].pc # "off" /\ timer[c].left = 0

Tick ==
  /\ Prompt => \A c \in Calls : ~Due(c)
  /\ key' = Down(key)
  /\ link' = [link EXCEPT !.left = Down(@)]
  /\ timer' = [c \in Calls |-> [timer[c] EXCEPT !.left = Down(@)]]
  /\ UNCHANGED <<setup, record, call, ack, admin, hist>>

----------------------------------------------------------------------------
(* createIncident                                                          *)

\* A webhook's incident is created once.  A detection's is announced again
\* when the call before reached no channel or died.
MayAnnounce(c) ==
  /\ call[c].pc = "idle"
  /\ \A d \in Calls \ {c} :
       \/ call[d].pc = "idle"
       \/ /\ setup.origin = "detection"
          /\ call[d].pc = "dead" \/ (call[d].pc = "ended" /\ ~call[d].reached)

\* The link is signed and the record is saved as pending, on-call marked.
Announce(c) ==
  /\ MayAnnounce(c)
  /\ LET old == IF setup.origin = "detection" THEN record ELSE NoRecord
         rec == [old EXCEPT !.exists = TRUE, !.oncall = TRUE]
     IN
     /\ Save(rec)
     /\ call' = [call EXCEPT ![c].pc = "announced", ![c].rec = rec]
  /\ link' = [link EXCEPT !.left = LinkLife]
  /\ UNCHANGED <<setup, key, timer, ack, admin, marks>>

\* SendAllAlerts; a channel that got the message shows the link.
FanOut(c, reached) ==
  /\ call[c].pc = "announced"
  /\ link' = [link EXCEPT !.sent = @ \/ reached]
  /\ call' = [call EXCEPT ![c].pc = "sent", ![c].reached = reached]
  /\ UNCHANGED <<setup, key, record, timer, ack, admin, hist>>

\* The outcome is saved: in the latest record for a detection, in the call's
\* own copy for a webhook.
Stamp(c) ==
  /\ call[c].pc = "sent"
  /\ LET rec == IF setup.origin = "detection" /\ record.exists
                THEN record ELSE call[c].rec
     IN
     /\ Save(rec)
     /\ call' = [call EXCEPT ![c].pc = "stamped", ![c].rec = rec]
  /\ UNCHANGED <<setup, key, link, timer, ack, admin, marks>>

\* OnCallWorkflow.Start with a wait: the key is set and a goroutine waits.  A
\* Set that returns an error may still have reached Redis.
StartWaiting(c) ==
  /\ call[c].pc = "stamped" /\ ~call[c].rec.resolved /\ setup.wait > 0
  /\ \/ /\ key' = KeyLife
        /\ timer' = [timer EXCEPT
                       ![c] = [pc |-> "waiting", left |-> setup.wait]]
        /\ started' = TRUE /\ NoFault
        /\ call' = [call EXCEPT ![c].pc = "started"]
     \/ /\ Fault("redis") /\ key' \in {key, KeyLife}
        /\ call' = [call EXCEPT ![c].pc = "refused"]
        /\ UNCHANGED <<timer, started>>
  /\ UNCHANGED <<setup, link, record, ack, admin, accepted, stamped, paged,
                 raced, stale>>

\* ... and without one: the provider is triggered at once.
StartAtOnce(c) ==
  /\ call[c].pc = "stamped" /\ ~call[c].rec.resolved /\ setup.wait = 0
  /\ \/ /\ paged' = TRUE /\ started' = TRUE /\ NoFault
        /\ call' = [call EXCEPT ![c].pc = "started"]
     \/ /\ Fault("provider")
        /\ call' = [call EXCEPT ![c].pc = "refused"]
        /\ UNCHANGED <<paged, started>>
  /\ UNCHANGED <<setup, key, link, record, timer, ack, admin, accepted,
                 stamped, raced, stale>>

\* The record was resolved before the outcome was stamped: no on-call.
LeaveAlone(c) ==
  /\ call[c].pc = "stamped" /\ call[c].rec.resolved
  /\ call' = [call EXCEPT ![c].pc = "started"]
  /\ UNCHANGED <<setup, key, link, record, timer, ack, admin, hist>>

\* Mutant of WalkBack: the record is left as it is.
WalkBackNot(c) ==
  /\ call[c].pc = "refused"
  /\ call' = [call EXCEPT ![c].pc = "started"]
  /\ UNCHANGED <<setup, key, link, record, timer, ack, admin, hist>>

\* A Start that failed: the optimistic mark is taken back.
WalkBack(c) ==
  /\ call[c].pc = "refused"
  /\ LET rec == [call[c].rec EXCEPT !.oncall = FALSE] IN
     /\ Save(rec)
     /\ call' = [call EXCEPT ![c].pc = "started", ![c].rec = rec]
  /\ UNCHANGED <<setup, key, link, timer, ack, admin, marks>>

\* The last step; a webhook's incident is saved once more, as resolved.
Finish(c) ==
  /\ call[c].pc = "started"
  /\ call' = [call EXCEPT ![c].pc = "ended"]
  /\ IF setup.auto THEN Save([call[c].rec EXCEPT !.resolved = TRUE])
     ELSE UNCHANGED record /\ NoFault
  /\ UNCHANGED <<setup, key, link, timer, ack, admin, marks>>

----------------------------------------------------------------------------
(* The timer                                                               *)

\* Mutant of Check: the timer does not wait.
CheckEarly(c) ==
  /\ timer[c].pc = "waiting"
  /\ timer' = [timer EXCEPT ![c].pc = IF key > 0 THEN "pending" ELSE "off"]
  /\ UNCHANGED <<setup, key, link, record, call, ack, admin, hist>>

\* The wait is over: Exists, which may fail.
Check(c) ==
  /\ timer[c].pc = "waiting" /\ timer[c].left = 0
  /\ \/ /\ NoFault
        /\ timer' = [timer EXCEPT
                       ![c].pc = IF key > 0 THEN "pending" ELSE "off"]
     \/ /\ Fault("redis")
        /\ timer' = [timer EXCEPT ![c].pc = "off"]
  /\ UNCHANGED <<setup, key, link, record, call, ack, admin, marks>>

\* Still pending: the provider is triggered; a failure is logged.
Escalate(c) ==
  /\ timer[c].pc = "pending"
  /\ timer' = [timer EXCEPT ![c].pc = "escalated"]
  /\ \/ /\ paged' = TRUE /\ raced' = (raced \/ ack = "found") /\ NoFault
     \/ Fault("provider") /\ UNCHANGED <<paged, raced>>
  /\ UNCHANGED <<setup, key, link, record, call, ack, admin, started, accepted,
                 stamped, stale>>

\* ... and Del.
Remove(c) ==
  /\ timer[c].pc = "escalated"
  /\ timer' = [timer EXCEPT ![c].pc = "off"]
  /\ \/ key' = 0 /\ NoFault
     \/ UNCHANGED key /\ Fault("redis")
  /\ UNCHANGED <<setup, link, record, call, ack, admin, marks>>

----------------------------------------------------------------------------
(* HandleAck                                                               *)

\* The token is verified and the key looked up; an error reads as absent.
AckFind ==
  /\ ack = "idle" /\ link.sent /\ link.left > 0 /\ key > 0
  /\ ack' = "found"
  /\ UNCHANGED <<setup, key, link, record, call, timer, admin, hist>>

\* Mutant of AckDelete: the key is left in place.
AckDeleteNothing ==
  /\ ack = "found"
  /\ \/ /\ UNCHANGED key /\ accepted' = TRUE /\ ack' = "deleted" /\ NoFault
        /\ raced' = (raced \/ \E c \in Calls : timer[c].pc = "pending")
     \/ /\ Fault("redis") /\ key' \in {key, 0} /\ ack' = "idle"
        /\ UNCHANGED <<accepted, raced>>
  /\ UNCHANGED <<setup, link, record, call, timer, admin, started, stamped,
                 paged, stale>>

\* Del; an error is reported to the operator.
AckDelete ==
  /\ ack = "found"
  /\ \/ /\ key' = 0 /\ accepted' = TRUE /\ ack' = "deleted" /\ NoFault
        /\ raced' = (raced \/ \E c \in Calls : timer[c].pc = "pending")
     \/ /\ Fault("redis") /\ key' \in {key, 0} /\ ack' = "idle"
        /\ UNCHANGED <<accepted, raced>>
  /\ UNCHANGED <<setup, link, record, call, timer, admin, started, stamped,
                 paged, stale>>

\* UpdateIncidentAck; a failure is only logged.
AckStamp ==
  /\ ack = "deleted" /\ ack' = "idle"
  /\ \/ /\ record' = [record EXCEPT !.acked = record.exists]
        /\ stamped' = (stamped \/ record.exists) /\ NoFault
     \/ Fault("save") /\ UNCHANGED <<record, stamped>>
  /\ UNCHANGED <<setup, key, link, call, timer, admin, started, accepted,
                 paged, raced, stale>>

----------------------------------------------------------------------------
(* resolve and assign                                                      *)

AdminRead ==
  /\ admin.pc = "idle" /\ record.exists
  /\ admin' = [pc |-> "read", rec |-> record]
  /\ UNCHANGED <<setup, key, link, record, call, timer, ack, hist>>

\* The copy is saved, resolved or with an assignment; a copy that is resolved
\* already is not resolved again.
AdminSave(resolves) ==
  /\ admin.pc = "read"
  /\ admin' = [pc |-> "idle", rec |-> NoRecord]
  /\ \/ /\ ~(resolves /\ admin.rec.resolved) /\ NoFault
        /\ record' = SavedByAdmin(record,
                       [admin.rec EXCEPT !.resolved = @ \/ resolves])
        /\ stale' = (stale \/ record # admin.rec)
     \/ /\ \/ resolves /\ admin.rec.resolved /\ NoFault
           \/ Fault("save")
        /\ UNCHANGED <<record, stale>>
  /\ UNCHANGED <<setup, key, link, call, timer, ack, started, accepted,
                 stamped, paged, raced>>

----------------------------------------------------------------------------
\* The process dies, and all that is under way with it; Redis and the record
\* survive, and nothing reads them when it starts again.
Crash ==
  /\ Fault("crash")
  /\ call' = [c \in Calls |->
                IF call[c].pc \in {"idle", "ended"} THEN call[c]
                ELSE [call[c] EXCEPT !.pc = "dead"]]
  /\ timer' = [c \in Calls |-> [pc |-> "off", left |-> 0]]
  /\ ack' = "idle" /\ admin' = [pc |-> "idle", rec |-> NoRecord]
  /\ UNCHANGED <<setup, key, link, record, marks>>

Proceed(c) ==
  \/ Announce(c) \/ Stamp(c) \/ StartWaiting(c) \/ StartAtOnce(c)
  \/ LeaveAlone(c) \/ WalkBack(c) \/ Finish(c)
  \/ \E reached \in BOOLEAN : FanOut(c, reached)

Elapse(c) == Check(c) \/ Escalate(c) \/ Remove(c)

Next ==
  \/ Tick \/ Crash
  \/ \E c \in Calls : Proceed(c) \/ Elapse(c)
  \/ AckFind \/ AckDelete \/ AckStamp
  \/ AdminRead \/ \E resolves \in BOOLEAN : AdminSave(resolves)

Spec == Init /\ [][Next]_vars

\* Fairness: goroutines that are running go on, and time passes.
FairSpec ==
  /\ Spec /\ WF_vars(Tick)
  /\ \A c \in Calls : WF_vars(Proceed(c)) /\ WF_vars(Elapse(c))

----------------------------------------------------------------------------
RecordType == [exists : BOOLEAN, resolved : BOOLEAN, acked : BOOLEAN,
               oncall : BOOLEAN]

TypeOK ==
  /\ setup \in Setups /\ (setup.auto => setup.origin = "webhook")
  /\ key \in 0..KeyLife
  /\ link \in [sent : BOOLEAN, left : 0..LinkLife]
  /\ record \in RecordType
  /\ call \in [Calls ->
       [pc : {"idle", "announced", "sent", "stamped", "refused", "started",
              "ended", "dead"},
        reached : BOOLEAN, rec : RecordType]]
  /\ timer \in [Calls -> [pc : {"off", "waiting", "pending", "escalated"},
                          left : 0..setup.wait]]
  /\ \A c \in Calls : timer[c].pc # "waiting" => timer[c].left = 0
  /\ ack \in {"idle", "found", "deleted"}
  /\ admin \in [pc : {"idle", "read"}, rec : RecordType]
  /\ <<started, accepted, stamped, paged, raced, stale>> \in
       BOOLEAN \X BOOLEAN \X BOOLEAN \X BOOLEAN \X BOOLEAN \X BOOLEAN
  /\ faults \subseteq FaultKinds /\ spent \in 0..MaxFaults

\* slack.md: the acknowledgement "stops escalation".  An incident that is
\* announced once is not both acknowledged and escalated, unless the two
\* handlers overlapped: the link is dead before the timer is due, and the key
\* is gone when the acknowledgement is answered.
AckedNotPaged ==
  setup.origin = "webhook" /\ accepted /\ paged => raced

\* What HandleAck wrote stays in the record: createIncident takes it back only
\* where it saves its own copy after Start, and an admin handler only when it
\* saves a copy that has changed meanwhile.
AckKept ==
  /\ stamped /\ ~stale
  /\ setup.origin = "webhook" => ~setup.auto /\ "redis" \notin faults
  => record.acked

\* incident.go: the mark is walked back "so the UI does not lie".  When all
\* calls are over, a record that says on-call was triggered tells the truth; the
\* mark of an incident that was resolved before Start is not walked back.
OnCallMarkHonest ==
  /\ record.oncall /\ ~stale
  /\ faults \cap {"crash", "save"} = {}
  /\ \A c \in Calls : call[c].pc \in {"idle", "ended"}
  => started \/ record.resolved

\* README.md: an incident is "escalated to on-call if it isn't acknowledged in
\* time"; here as far as the process lives and Redis and the provider answer.
EscalatedWithoutFaults ==
  started ~>
    (paged \/ accepted \/ faults \cap {"crash", "redis", "provider"} # {})
=============================================================================
