---------------------------- MODULE OnCallProofs ----------------------------
(***************************************************************************)
(* Proofs about OnCall: its type invariant, and that an acknowledgement    *)
(* stops the escalation, stays in the record, and that the on-call mark    *)
(* tells the truth, for any calls, waits, settings and faults.             *)
(***************************************************************************)
EXTENDS OnCall, TLAPS

PCs == {"idle", "announced", "sent", "stamped", "refused", "started",
        "ended", "dead"}

CallType == [pc : PCs, reached : BOOLEAN, rec : RecordType]

AdminType == [pc : {"idle", "read"}, rec : RecordType]

LinkType == [sent : BOOLEAN, left : 0..LinkLife]

Flags == <<started, accepted, stamped, paged, raced, stale>>

Six == BOOLEAN \X BOOLEAN \X BOOLEAN \X BOOLEAN \X BOOLEAN \X BOOLEAN

\* Only a waiting timer has time left.
TimersRest == \A c \in Calls : timer[c].pc # "waiting" => timer[c].left = 0

TimerType == [pc : {"off", "waiting", "pending", "escalated"},
              left : 0..setup.wait]

\* The constants of one incident are numbers and truth values.
LEMMA SetupType ==
  ASSUME TypeOK
  PROVE  /\ setup.wait \in Nat /\ setup.auto \in BOOLEAN
         /\ KeyLife \in Nat /\ LinkLife \in Nat
         /\ KeyLife = LinkLife + 1 /\ LinkLife = setup.wait
<1>1. setup \in [origin : Origins, wait : Waits, auto : AutoResolve]
  BY DEF TypeOK, Setups
<1>2. setup.wait \in Waits /\ setup.auto \in AutoResolve
  BY <1>1
<1>3. setup.wait \in Nat /\ setup.auto \in BOOLEAN
  BY <1>2, OnCallAssumption
<1>4. QED
  BY <1>3 DEF KeyLife, LinkLife

\* What the stores save is a record.
LEMMA SavedType ==
  ASSUME NEW stored \in RecordType, NEW rec \in RecordType
  PROVE  Saved(stored, rec) \in RecordType /\ SavedByAdmin(stored, rec) \in RecordType
BY DEF Saved, SavedByAdmin, RecordType

\* A save leaves a record behind, and counts as at most one fault.
LEMMA SaveType ==
  ASSUME TypeOK, NEW rec \in RecordType, Save(rec)
  PROVE  /\ record' \in RecordType
         /\ faults' \subseteq FaultKinds /\ spent' \in 0..MaxFaults
BY OnCallAssumption, SavedType DEF TypeOK, Save, Fault, NoFault

\* A fault is counted within its bound.
LEMMA FaultType ==
  ASSUME TypeOK, NEW kind \in FaultKinds, Fault(kind) \/ NoFault
  PROVE  faults' \subseteq FaultKinds /\ spent' \in 0..MaxFaults
BY OnCallAssumption DEF TypeOK, Fault, NoFault

LEMMA InitType == Init => TypeOK
<1> SUFFICES ASSUME Init PROVE TypeOK
  OBVIOUS
<1>1. setup \in [origin : Origins, wait : Waits, auto : AutoResolve]
  BY DEF Init, Setups
<1>2. setup.wait \in Waits
  BY <1>1
<1>15. setup.wait \in Nat
  BY <1>2, OnCallAssumption
<1>3. 0 \in 0..KeyLife /\ 0 \in 0..LinkLife /\ 0 \in 0..setup.wait
  BY <1>15 DEF KeyLife, LinkLife
<1>4. setup \in Setups /\ (setup.auto => setup.origin = "webhook")
  BY DEF Init
<1>5. NoRecord \in RecordType
  BY DEF NoRecord, RecordType
<1>6. 0 \in 0..MaxFaults
  BY OnCallAssumption
<1>7. timer \in [Calls -> TimerType]
  BY <1>3 DEF Init, TimerType
<1>8. call \in [Calls -> CallType]
  BY <1>5 DEF Init, CallType, PCs
<1>9. link \in [sent : BOOLEAN, left : 0..LinkLife]
  BY <1>3 DEF Init
<1>10. admin \in [pc : {"idle", "read"}, rec : RecordType]
  BY <1>5 DEF Init
<1>11. \A c \in Calls : timer[c].pc # "waiting" => timer[c].left = 0
  BY DEF Init
<1>12. key = 0 /\ record = NoRecord /\ ack = "idle" /\ faults = {} /\ spent = 0
  BY DEF Init
<1>13. <<started, accepted, stamped, paged, raced, stale>> \in
         BOOLEAN \X BOOLEAN \X BOOLEAN \X BOOLEAN \X BOOLEAN \X BOOLEAN
  BY DEF Init
<1>14. QED
  BY <1>3, <1>4, <1>5, <1>6, <1>7, <1>8, <1>9, <1>10, <1>11, <1>12, <1>13
  DEF TypeOK, TimerType, CallType, PCs

LEMMA NoRecordType == NoRecord \in RecordType
BY DEF NoRecord, RecordType

\* The parts of the type invariant.
LEMMA Parts ==
  ASSUME TypeOK
  PROVE  /\ setup \in Setups /\ key \in 0..KeyLife /\ link \in LinkType
         /\ record \in RecordType /\ call \in [Calls -> CallType]
         /\ timer \in [Calls -> TimerType] /\ TimersRest
         /\ ack \in {"idle", "found", "deleted"} /\ admin \in AdminType
         /\ Flags \in Six /\ faults \subseteq FaultKinds /\ spent \in 0..MaxFaults
BY DEF TypeOK, LinkType, CallType, PCs, TimerType, AdminType, Flags, Six, TimersRest

\* A step that leaves the setup alone is typed part by part.
LEMMA Typed ==
  ASSUME TypeOK, setup' = setup, key' \in 0..KeyLife, link' \in LinkType,
         record' \in RecordType, call' \in [Calls -> CallType],
         timer' \in [Calls -> TimerType], TimersRest',
         ack' \in {"idle", "found", "deleted"}, admin' \in AdminType,
         Flags' \in Six, faults' \subseteq FaultKinds, spent' \in 0..MaxFaults
  PROVE  TypeOK'
BY DEF TypeOK, LinkType, CallType, PCs, TimerType, AdminType, Flags, Six, TimersRest,
       KeyLife, LinkLife

LEMMA TickType == ASSUME TypeOK, Tick PROVE TypeOK'
<1>1. key' \in 0..KeyLife
  BY Parts, SetupType DEF Tick, Down
<1>2. link' \in LinkType
  BY Parts, SetupType DEF Tick, Down, LinkType
<1>3. timer' \in [Calls -> TimerType]
  BY Parts, SetupType DEF Tick, Down, TimerType
<1>4. TimersRest'
  BY Parts, SetupType DEF Tick, Down, TimersRest, TimerType
<1> QED
  BY <1>1, <1>2, <1>3, <1>4, Parts, Typed DEF Tick, hist, Flags

\* A call moves on, with a record.
LEMMA CallMoves ==
  ASSUME TypeOK, NEW c \in Calls, NEW pc \in PCs
  PROVE  [call EXCEPT ![c].pc = pc] \in [Calls -> CallType]
BY Parts DEF CallType

LEMMA CallCopies ==
  ASSUME TypeOK, NEW c \in Calls, NEW pc \in PCs, NEW rec \in RecordType
  PROVE  [call EXCEPT ![c].pc = pc, ![c].rec = rec] \in [Calls -> CallType]
BY Parts DEF CallType

LEMMA CallReaches ==
  ASSUME TypeOK, NEW c \in Calls, NEW pc \in PCs, NEW reached \in BOOLEAN
  PROVE  [call EXCEPT ![c].pc = pc, ![c].reached = reached] \in [Calls -> CallType]
BY Parts DEF CallType

LEMMA CallRecord ==
  ASSUME TypeOK, NEW c \in Calls
  PROVE  call[c].rec \in RecordType
BY Parts DEF CallType

\* Marks on a record leave a record.
LEMMA RecordMarks ==
  ASSUME NEW rec \in RecordType, NEW b \in BOOLEAN
  PROVE  /\ [rec EXCEPT !.exists = TRUE, !.oncall = TRUE] \in RecordType
         /\ [rec EXCEPT !.oncall = FALSE] \in RecordType
         /\ [rec EXCEPT !.resolved = TRUE] \in RecordType
         /\ [rec EXCEPT !.resolved = @ \/ b] \in RecordType
         /\ [rec EXCEPT !.acked = rec.exists] \in RecordType
BY DEF RecordType

LEMMA AnnounceType ==
  ASSUME TypeOK, NEW c \in Calls, Announce(c) PROVE TypeOK'
<1> DEFINE old == IF setup.origin = "detection" THEN record ELSE NoRecord
           rec == [old EXCEPT !.exists = TRUE, !.oncall = TRUE]
<1>1. rec \in RecordType
  BY Parts, NoRecordType, RecordMarks
<1>2. Save(rec) /\ call' = [call EXCEPT ![c].pc = "announced", ![c].rec = rec]
  BY DEF Announce
<1>3. link' \in LinkType
  BY Parts, SetupType DEF Announce, LinkType
<1> HIDE DEF rec
<1>4. call' \in [Calls -> CallType]
  BY <1>1, <1>2, CallCopies DEF PCs
<1> QED
  BY <1>1, <1>2, <1>3, <1>4, SaveType, Parts, Typed DEF Announce, Flags, marks, TimersRest

LEMMA FanOutType ==
  ASSUME TypeOK, NEW c \in Calls, NEW reached \in BOOLEAN, FanOut(c, reached)
  PROVE  TypeOK'
<1>1. link' \in LinkType
  BY Parts DEF FanOut, LinkType
<1>2. call' \in [Calls -> CallType]
  BY CallReaches DEF FanOut, PCs
<1> QED
  BY <1>1, <1>2, Parts, Typed DEF FanOut, Flags, hist, TimersRest

LEMMA StampType ==
  ASSUME TypeOK, NEW c \in Calls, Stamp(c) PROVE TypeOK'
<1> DEFINE rec == IF setup.origin = "detection" /\ record.exists
                  THEN record ELSE call[c].rec
<1>1. rec \in RecordType
  BY Parts, CallRecord
<1>2. Save(rec) /\ call' = [call EXCEPT ![c].pc = "stamped", ![c].rec = rec]
  BY DEF Stamp
<1> HIDE DEF rec
<1>3. call' \in [Calls -> CallType]
  BY <1>1, <1>2, CallCopies DEF PCs
<1> QED
  BY <1>1, <1>2, <1>3, SaveType, Parts, Typed DEF Stamp, Flags, marks, TimersRest

LEMMA StartWaitingType ==
  ASSUME TypeOK, NEW c \in Calls, StartWaiting(c) PROVE TypeOK'
<1>0. PICK pc \in PCs : call' = [call EXCEPT ![c].pc = pc]
  BY DEF StartWaiting, PCs
<1>1. call' \in [Calls -> CallType]
  BY <1>0, CallMoves
<1>2. key' \in 0..KeyLife
  BY Parts, SetupType DEF StartWaiting
<1>3. timer' \in [Calls -> TimerType]
  BY Parts, SetupType DEF StartWaiting, TimerType
<1>4. TimersRest'
  BY Parts DEF StartWaiting, TimersRest, TimerType
<1>5. faults' \subseteq FaultKinds /\ spent' \in 0..MaxFaults
  BY FaultType DEF StartWaiting, FaultKinds
<1>6. Flags' \in Six
  BY Parts DEF StartWaiting, Flags, Six
<1> QED
  BY <1>1, <1>2, <1>3, <1>4, <1>5, <1>6, Parts, Typed DEF StartWaiting

LEMMA StartAtOnceType ==
  ASSUME TypeOK, NEW c \in Calls, StartAtOnce(c) PROVE TypeOK'
<1>0. PICK pc \in PCs : call' = [call EXCEPT ![c].pc = pc]
  BY DEF StartAtOnce, PCs
<1>1. call' \in [Calls -> CallType]
  BY <1>0, CallMoves
<1>2. faults' \subseteq FaultKinds /\ spent' \in 0..MaxFaults
  BY FaultType DEF StartAtOnce, FaultKinds
<1>3. Flags' \in Six
  BY Parts DEF StartAtOnce, Flags, Six
<1> QED
  BY <1>1, <1>2, <1>3, Parts, Typed DEF StartAtOnce, TimersRest

LEMMA LeaveAloneType ==
  ASSUME TypeOK, NEW c \in Calls, LeaveAlone(c) PROVE TypeOK'
BY CallMoves, Parts, Typed DEF LeaveAlone, PCs, Flags, hist, TimersRest

LEMMA WalkBackType ==
  ASSUME TypeOK, NEW c \in Calls, WalkBack(c) PROVE TypeOK'
<1> DEFINE rec == [call[c].rec EXCEPT !.oncall = FALSE]
<1>1. rec \in RecordType
  BY CallRecord, RecordMarks
<1>2. Save(rec) /\ call' = [call EXCEPT ![c].pc = "started", ![c].rec = rec]
  BY DEF WalkBack
<1> HIDE DEF rec
<1>3. call' \in [Calls -> CallType]
  BY <1>1, <1>2, CallCopies DEF PCs
<1> QED
  BY <1>1, <1>2, <1>3, SaveType, Parts, Typed DEF WalkBack, Flags, marks, TimersRest

LEMMA FinishType ==
  ASSUME TypeOK, NEW c \in Calls, Finish(c) PROVE TypeOK'
<1> DEFINE rec == [call[c].rec EXCEPT !.resolved = TRUE]
<1>1. rec \in RecordType
  BY CallRecord, RecordMarks
<1>2. Save(rec) \/ (UNCHANGED record /\ NoFault)
  BY DEF Finish
<1>3. call' \in [Calls -> CallType]
  BY CallMoves DEF Finish, PCs
<1> HIDE DEF rec
<1>4. record' \in RecordType /\ faults' \subseteq FaultKinds /\ spent' \in 0..MaxFaults
  BY <1>1, <1>2, SaveType, Parts DEF NoFault
<1> QED
  BY <1>3, <1>4, Parts, Typed DEF Finish, Flags, marks, TimersRest

LEMMA ElapseType ==
  ASSUME TypeOK, NEW c \in Calls, Elapse(c) PROVE TypeOK'
<1>1. faults' \subseteq FaultKinds /\ spent' \in 0..MaxFaults
  BY FaultType DEF Elapse, Check, Escalate, Remove, FaultKinds
<1>2. timer' \in [Calls -> TimerType]
  BY Parts DEF Elapse, Check, Escalate, Remove, TimerType
<1>3. TimersRest'
  BY Parts DEF Elapse, Check, Escalate, Remove, TimersRest, TimerType
<1>4. key' \in 0..KeyLife
  BY Parts, SetupType DEF Elapse, Check, Escalate, Remove
<1>5. Flags' \in Six
  BY Parts DEF Elapse, Check, Escalate, Remove, Flags, Six, marks
<1> QED
  BY <1>1, <1>2, <1>3, <1>4, <1>5, Parts, Typed DEF Elapse, Check, Escalate, Remove

LEMMA AckType ==
  ASSUME TypeOK, AckFind \/ AckDelete \/ AckStamp PROVE TypeOK'
<1>1. faults' \subseteq FaultKinds /\ spent' \in 0..MaxFaults
  BY FaultType, Parts DEF AckFind, AckDelete, AckStamp, FaultKinds, hist
<1>2. key' \in 0..KeyLife
  BY Parts, SetupType DEF AckFind, AckDelete, AckStamp
<1>3. record' \in RecordType
  BY Parts, RecordMarks DEF AckFind, AckDelete, AckStamp
<1>4. Flags' \in Six
  BY Parts DEF AckFind, AckDelete, AckStamp, Flags, Six, hist, RecordType
<1> QED
  BY <1>1, <1>2, <1>3, <1>4, Parts, Typed DEF AckFind, AckDelete, AckStamp, TimersRest

LEMMA AdminReadType == ASSUME TypeOK, AdminRead PROVE TypeOK'
BY Parts, Typed DEF AdminRead, AdminType, Flags, hist, TimersRest

LEMMA AdminSaveType ==
  ASSUME TypeOK, NEW resolves \in BOOLEAN, AdminSave(resolves) PROVE TypeOK'
<1>1. faults' \subseteq FaultKinds /\ spent' \in 0..MaxFaults
  BY FaultType, Parts DEF AdminSave, FaultKinds
<1>2. [admin.rec EXCEPT !.resolved = @ \/ resolves] \in RecordType
  BY Parts, RecordMarks DEF AdminType
<1>3. record' \in RecordType
  BY <1>2, Parts, SavedType DEF AdminSave
<1>4. admin' \in AdminType
  BY NoRecordType DEF AdminSave, AdminType
<1>5. Flags' \in Six
  BY Parts DEF AdminSave, Flags, Six
<1> QED
  BY <1>1, <1>3, <1>4, <1>5, Parts, Typed DEF AdminSave, TimersRest

LEMMA CrashType == ASSUME TypeOK, Crash PROVE TypeOK'
<1>1. faults' \subseteq FaultKinds /\ spent' \in 0..MaxFaults
  BY FaultType DEF Crash, FaultKinds
<1>2. call' \in [Calls -> CallType]
  BY Parts DEF Crash, CallType, PCs
<1>3. timer' \in [Calls -> TimerType] /\ TimersRest'
  BY SetupType DEF Crash, TimerType, TimersRest
<1>4. admin' \in AdminType
  BY NoRecordType DEF Crash, AdminType
<1> QED
  BY <1>1, <1>2, <1>3, <1>4, Parts, Typed DEF Crash, Flags, marks

LEMMA NextType == TypeOK /\ [Next]_vars => TypeOK'
<1> SUFFICES ASSUME TypeOK, [Next]_vars PROVE TypeOK'
  OBVIOUS
<1>1. ASSUME NEW c \in Calls, Proceed(c) PROVE TypeOK'
  BY <1>1, AnnounceType, FanOutType, StampType, StartWaitingType, StartAtOnceType,
     LeaveAloneType, WalkBackType, FinishType DEF Proceed
<1>2. CASE UNCHANGED vars
  BY <1>2, Parts, Typed DEF vars, hist, Flags, TimersRest
<1> QED
  BY <1>1, <1>2, TickType, CrashType, ElapseType, AckType, AdminReadType,
     AdminSaveType DEF Next

\* The state of an incident is well typed: key, link and timers within their
\* lives, at most MaxFaults faults (createIncident, Start, HandleAck).
THEOREM Types == Spec => []TypeOK
BY InitType, NextType, PTL DEF Spec

----------------------------------------------------------------------------
(* An acknowledgement stops the escalation                                 *)

Webhook == setup.origin = "webhook"

Pc(c) == call[c].pc

Late == {"refused", "started", "ended", "dead"}

\* The webhook's one call is past its Start.
Begun == \E c \in Calls : Pc(c) \in Late

OneCall == \A c, d \in Calls : Pc(c) # "idle" /\ Pc(d) # "idle" => c = d

TimersOfStart ==
  \A c \in Calls : timer[c].pc # "off" => Pc(c) \in {"started", "ended"}

\* Nothing is acknowledged, and nobody paged, before Start.
StartedFirst == key > 0 \/ ack # "idle" \/ accepted \/ paged => Begun

\* Without a wait there is nothing to acknowledge.
NoWaitNoKey == setup.wait = 0 => key = 0 /\ ack = "idle" /\ ~accepted

\* The link is dead when a timer is due, and stays so.
LinkBeforeTimer ==
  \A c \in Calls : timer[c].pc = "waiting" => link.left <= timer[c].left

LinkDead ==
  paged \/ (\E c \in Calls : timer[c].pc \in {"pending", "escalated"})
  => link.left = 0

\* An acknowledgement found its key before the page, or overlapped it.
FoundBefore == paged /\ ack = "found" => raced

\* Once it is answered there is no key to find, and no timer that found one.
Settled ==
  accepted /\ ~raced =>
    key = 0 /\ ~paged /\ \A c \in Calls : timer[c].pc # "pending"

EscalationInv ==
  Webhook =>
    /\ OneCall /\ TimersOfStart /\ StartedFirst /\ NoWaitNoKey
    /\ LinkBeforeTimer /\ LinkDead /\ FoundBefore /\ Settled

LEMMA EscalationInit == Init => EscalationInv
BY DEF Init, EscalationInv, OneCall, TimersOfStart, StartedFirst, NoWaitNoKey,
       LinkBeforeTimer, LinkDead, FoundBefore, Settled, Pc

\* How the calls may move in a step of one call.
LEMMA PcMoves ==
  ASSUME TypeOK, NEW c \in Calls
  PROVE  \A d \in Calls :
    /\ Announce(c) => Pc(d)' = IF d = c THEN "announced" ELSE Pc(d)
    /\ (\E reached \in BOOLEAN : FanOut(c, reached)) =>
         Pc(d)' = IF d = c THEN "sent" ELSE Pc(d)
    /\ Stamp(c) => Pc(d)' = IF d = c THEN "stamped" ELSE Pc(d)
    /\ WalkBack(c) => Pc(d)' = IF d = c THEN "started" ELSE Pc(d)
    /\ LeaveAlone(c) => Pc(d)' = IF d = c THEN "started" ELSE Pc(d)
    /\ Finish(c) => Pc(d)' = IF d = c THEN "ended" ELSE Pc(d)
BY Parts DEF Announce, FanOut, Stamp, WalkBack, LeaveAlone, Finish, Pc, CallType

LEMMA EscAnnounce ==
  ASSUME TypeOK, EscalationInv, NEW c \in Calls, Announce(c), Webhook
  PROVE  EscalationInv'
<1>1. \A d \in Calls : Pc(d)' = IF d = c THEN "announced" ELSE Pc(d)
  BY PcMoves
<1>2. Pc(c) = "idle" /\ \A d \in Calls : Pc(d) = "idle"
  BY DEF Announce, MayAnnounce, Webhook, Pc
<1>3. ~Begun /\ \A d \in Calls : timer[d].pc = "off"
  BY <1>2 DEF Begun, Late, EscalationInv, TimersOfStart
<1>4. UNCHANGED <<setup, key, timer, ack, accepted, paged, raced>>
  BY DEF Announce, marks
<1>5. ~(key > 0 \/ ack # "idle" \/ accepted \/ paged)
  BY <1>3 DEF EscalationInv, StartedFirst
<1> QED
  BY <1>1, <1>2, <1>3, <1>4, <1>5
  DEF EscalationInv, OneCall, TimersOfStart, StartedFirst, NoWaitNoKey,
      LinkBeforeTimer, LinkDead, FoundBefore, Settled, Webhook

\* A call moves on, and nothing else that matters here.
LEMMA EscQuiet ==
  ASSUME EscalationInv, Webhook, NEW c \in Calls, NEW pc,
         Pc(c) # "idle", pc # "idle",
         \A d \in Calls : Pc(d)' = IF d = c THEN pc ELSE Pc(d),
         Pc(c) \in Late => pc \in Late,
         Pc(c) \in {"started", "ended"} => pc \in {"started", "ended"},
         UNCHANGED <<setup, key, timer, ack, accepted, paged, raced>>,
         link'.left = link.left
  PROVE  EscalationInv'
<1>1. Begun => Begun'
  BY DEF Begun
<1>2. OneCall' /\ TimersOfStart' /\ StartedFirst'
  BY <1>1 DEF EscalationInv, OneCall, TimersOfStart, StartedFirst
<1>3. NoWaitNoKey' /\ LinkBeforeTimer' /\ LinkDead' /\ FoundBefore' /\ Settled'
  BY DEF EscalationInv, NoWaitNoKey, LinkBeforeTimer, LinkDead, FoundBefore, Settled
<1> QED
  BY <1>2, <1>3 DEF EscalationInv

LEMMA EscProceedQuietly ==
  ASSUME TypeOK, EscalationInv, Webhook, NEW c \in Calls,
         \/ \E reached \in BOOLEAN : FanOut(c, reached)
         \/ Stamp(c) \/ WalkBack(c) \/ LeaveAlone(c) \/ Finish(c)
  PROVE  EscalationInv'
<1>1. UNCHANGED <<setup, key, timer, ack, accepted, paged, raced>>
  BY DEF FanOut, Stamp, WalkBack, LeaveAlone, Finish, hist, marks
<1>2. link'.left = link.left
  BY Parts DEF FanOut, Stamp, WalkBack, LeaveAlone, Finish, LinkType
<1>3. CASE \E reached \in BOOLEAN : FanOut(c, reached)
  <2>1. Pc(c) = "announced"
    BY <1>3 DEF FanOut, Pc
  <2> QED BY <2>1, <1>1, <1>2, <1>3, PcMoves, EscQuiet DEF Late
<1>4. CASE Stamp(c)
  <2>1. Pc(c) = "sent"
    BY <1>4 DEF Stamp, Pc
  <2> QED BY <2>1, <1>1, <1>2, <1>4, PcMoves, EscQuiet DEF Late
<1>5. CASE WalkBack(c)
  <2>1. Pc(c) = "refused"
    BY <1>5 DEF WalkBack, Pc
  <2> QED BY <2>1, <1>1, <1>2, <1>5, PcMoves, EscQuiet DEF Late
<1>6. CASE LeaveAlone(c)
  <2>1. Pc(c) = "stamped"
    BY <1>6 DEF LeaveAlone, Pc
  <2> QED BY <2>1, <1>1, <1>2, <1>6, PcMoves, EscQuiet DEF Late
<1>7. CASE Finish(c)
  <2>1. Pc(c) = "started"
    BY <1>7 DEF Finish, Pc
  <2> QED BY <2>1, <1>1, <1>2, <1>7, PcMoves, EscQuiet DEF Late
<1> QED BY <1>3, <1>4, <1>5, <1>6, <1>7

\* While the one call has not reached Start, nothing has happened yet.
LEMMA NothingYet ==
  ASSUME TypeOK, EscalationInv, Webhook, NEW c \in Calls, Pc(c) = "stamped"
  PROVE  /\ key = 0 /\ ack = "idle" /\ ~accepted /\ ~paged
         /\ \A d \in Calls : timer[d].pc = "off"
<1>1. \A d \in Calls : d # c => Pc(d) = "idle"
  BY DEF EscalationInv, OneCall
<1>2. ~Begun /\ \A d \in Calls : timer[d].pc = "off"
  BY <1>1 DEF EscalationInv, TimersOfStart, Begun, Late
<1>3. key \in Nat
  BY Parts, SetupType
<1> QED
  BY <1>2, <1>3 DEF EscalationInv, StartedFirst

LEMMA EscStartWaiting ==
  ASSUME TypeOK, EscalationInv, Webhook, NEW c \in Calls, StartWaiting(c)
  PROVE  EscalationInv'
<1>1. Pc(c) = "stamped" /\ setup.wait > 0
  BY DEF StartWaiting, Pc
<1>2. /\ key = 0 /\ ack = "idle" /\ ~accepted /\ ~paged
      /\ \A d \in Calls : timer[d].pc = "off"
  BY <1>1, NothingYet
<1>3. UNCHANGED <<setup, link, ack, accepted, paged, raced>>
  BY DEF StartWaiting
<1>4. \E pc \in {"started", "refused"} :
        /\ \A d \in Calls : Pc(d)' = IF d = c THEN pc ELSE Pc(d)
        /\ pc = "refused" => timer' = timer
  BY Parts DEF StartWaiting, Pc, CallType
<1>5. \A d \in Calls :
        \/ timer'[d].pc = "off"
        \/ d = c /\ timer'[d].pc = "waiting" /\ timer'[d].left = setup.wait
  BY <1>2, Parts DEF StartWaiting, TimerType
<1>6. Begun'
  BY <1>4 DEF Begun, Late
<1>7. OneCall' /\ TimersOfStart'
  BY <1>1, <1>2, <1>4, <1>5 DEF EscalationInv, OneCall, TimersOfStart
<1>8. LinkBeforeTimer'
  BY <1>3, <1>5, Parts, SetupType DEF LinkBeforeTimer, LinkType
<1>9. NoWaitNoKey' /\ LinkDead' /\ FoundBefore' /\ Settled' /\ StartedFirst'
  BY <1>1, <1>2, <1>3, <1>5, <1>6, SetupType
  DEF NoWaitNoKey, LinkDead, FoundBefore, Settled, StartedFirst
<1> QED
  BY <1>7, <1>8, <1>9 DEF EscalationInv

LEMMA EscStartAtOnce ==
  ASSUME TypeOK, EscalationInv, Webhook, NEW c \in Calls, StartAtOnce(c)
  PROVE  EscalationInv'
<1>1. Pc(c) = "stamped" /\ setup.wait = 0
  BY DEF StartAtOnce, Pc
<1>2. /\ key = 0 /\ ack = "idle" /\ ~accepted /\ ~paged
      /\ \A d \in Calls : timer[d].pc = "off"
  BY <1>1, NothingYet
<1>3. UNCHANGED <<setup, key, link, timer, ack, accepted, raced>>
  BY DEF StartAtOnce
<1>4. \E pc \in {"started", "refused"} :
        \A d \in Calls : Pc(d)' = IF d = c THEN pc ELSE Pc(d)
  BY Parts DEF StartAtOnce, Pc, CallType
<1>5. link.left = 0
  BY <1>1, Parts, SetupType DEF LinkType
<1>6. Begun'
  BY <1>4 DEF Begun, Late
<1>7. OneCall' /\ TimersOfStart'
  BY <1>1, <1>2, <1>3, <1>4 DEF EscalationInv, OneCall, TimersOfStart
<1> QED
  BY <1>1, <1>2, <1>3, <1>5, <1>6, <1>7
  DEF EscalationInv, NoWaitNoKey, LinkBeforeTimer, LinkDead, FoundBefore, Settled,
      StartedFirst

\* Calls that stay where they are.
LEMMA EscStill ==
  ASSUME EscalationInv, UNCHANGED call
  PROVE  Webhook => OneCall' /\ (Begun => Begun')
BY DEF EscalationInv, OneCall, Begun, Pc

LEMMA EscTick ==
  ASSUME TypeOK, EscalationInv, Webhook, Tick
  PROVE  EscalationInv'
<1>1. UNCHANGED <<setup, call, ack, accepted, paged, raced>>
  BY DEF Tick, hist
<1>2. key \in Nat /\ key' \in Nat /\ (key = 0 => key' = 0) /\ (key' > 0 => key > 0)
  BY Parts, SetupType DEF Tick, Down
<1>3. /\ link.left \in Nat /\ link'.left = Down(link.left)
      /\ \A c \in Calls : /\ timer'[c].pc = timer[c].pc
                           /\ timer[c].left \in Nat
                           /\ timer'[c].left = Down(timer[c].left)
  BY Parts, SetupType DEF Tick, LinkType, TimerType
<1>4. LinkBeforeTimer' /\ LinkDead'
  BY <1>1, <1>3 DEF EscalationInv, LinkBeforeTimer, LinkDead, Down
<1>5. TimersOfStart' /\ Settled' /\ FoundBefore' /\ NoWaitNoKey'
  BY <1>1, <1>2, <1>3
  DEF EscalationInv, TimersOfStart, Settled, FoundBefore, NoWaitNoKey, Pc
<1>6. OneCall' /\ StartedFirst'
  BY <1>1, <1>2, EscStill DEF EscalationInv, StartedFirst
<1> QED
  BY <1>4, <1>5, <1>6 DEF EscalationInv

LEMMA EscCrash ==
  ASSUME TypeOK, EscalationInv, Webhook, Crash
  PROVE  EscalationInv'
<1>1. UNCHANGED <<setup, key, link, accepted, paged, raced>> /\ ack' = "idle"
  BY DEF Crash, marks
<1>2. \A c \in Calls : /\ timer'[c].pc = "off"
                       /\ Pc(c)' = IF Pc(c) \in {"idle", "ended"}
                                   THEN Pc(c) ELSE "dead"
  BY Parts DEF Crash, Pc, CallType
<1>3. Begun => Begun'
  BY <1>2 DEF Begun, Late
<1>4. OneCall' /\ TimersOfStart' /\ StartedFirst'
  BY <1>1, <1>2, <1>3 DEF EscalationInv, OneCall, TimersOfStart, StartedFirst
<1> QED
  BY <1>1, <1>2, <1>4 DEF EscalationInv, NoWaitNoKey, LinkBeforeTimer, LinkDead,
     FoundBefore, Settled

LEMMA EscTimer ==
  ASSUME TypeOK, EscalationInv, Webhook, NEW c \in Calls, Elapse(c)
  PROVE  EscalationInv'
<1>1. UNCHANGED <<setup, link, call, ack, accepted>>
  BY DEF Elapse, Check, Escalate, Remove, marks
<1>2. key' \in {key, 0} /\ key \in Nat
  BY Parts, SetupType DEF Elapse, Check, Escalate, Remove
<1>3. \A d \in Calls \ {c} : timer'[d] = timer[d]
  BY Parts DEF Elapse, Check, Escalate, Remove
<1>4. timer[c].pc # "off" /\ timer'[c].left = timer[c].left /\ timer'[c].pc # "waiting"
  BY Parts DEF Elapse, Check, Escalate, Remove, TimerType
<1>5. OneCall' /\ TimersOfStart'
  BY <1>1, <1>3, <1>4, EscStill
  DEF EscalationInv, TimersOfStart, Pc
<1>6. Begun
  BY <1>4 DEF EscalationInv, TimersOfStart, Begun, Late
<1>7. NoWaitNoKey' /\ LinkBeforeTimer' /\ StartedFirst'
  BY <1>1, <1>2, <1>3, <1>4, <1>6, EscStill
  DEF EscalationInv, NoWaitNoKey, LinkBeforeTimer, StartedFirst
<1>8. CASE Check(c)
  <2>1. UNCHANGED <<key, paged, raced>> /\ timer[c].pc = "waiting" /\ timer[c].left = 0
    BY <1>8 DEF Check, marks
  <2>2. link.left = 0
    BY <2>1, Parts, SetupType DEF EscalationInv, LinkBeforeTimer, LinkType
  <2>3. timer'[c].pc = "pending" => key > 0
    BY <1>8, Parts DEF Check, TimerType
  <2>4. LinkDead' /\ FoundBefore' /\ Settled'
    BY <1>1, <1>3, <2>1, <2>2, <2>3
    DEF EscalationInv, LinkDead, FoundBefore, Settled
  <2> QED BY <1>1, <1>5, <1>7, <2>4 DEF EscalationInv
<1>9. CASE Escalate(c)
  <2>1. UNCHANGED key /\ timer[c].pc = "pending" /\ timer'[c].pc = "escalated"
    BY <1>9, Parts DEF Escalate, TimerType
  <2>2. \/ UNCHANGED <<paged, raced>>
        \/ raced' <=> raced \/ ack = "found"
    BY <1>9 DEF Escalate
  <2>3. /\ raced => raced'
        /\ paged' /\ ~paged /\ ack = "found" => raced'
    <3>1. CASE UNCHANGED <<paged, raced>>
      BY <3>1
    <3>2. CASE raced' <=> raced \/ ack = "found"
      BY <3>2
    <3> QED BY <2>2, <3>1, <3>2
  <2>4. accepted => raced
    BY <2>1 DEF EscalationInv, Settled
  <2>5. LinkDead'
    BY <1>1, <2>1 DEF EscalationInv, LinkDead
  <2>6. FoundBefore'
    BY <1>1, <2>3 DEF EscalationInv, FoundBefore
  <2>7. Settled'
    BY <1>1, <2>3, <2>4 DEF Settled
  <2> QED BY <1>1, <1>5, <1>7, <2>5, <2>6, <2>7 DEF EscalationInv
<1>10. CASE Remove(c)
  <2>1. UNCHANGED <<paged, raced>> /\ timer[c].pc = "escalated" /\ timer'[c].pc = "off"
    BY <1>10, Parts DEF Remove, marks, TimerType
  <2>2. LinkDead' /\ FoundBefore' /\ Settled'
    BY <1>1, <1>2, <1>3, <2>1
    DEF EscalationInv, LinkDead, FoundBefore, Settled
  <2> QED BY <1>1, <1>5, <1>7, <2>2 DEF EscalationInv
<1> QED BY <1>8, <1>9, <1>10 DEF Elapse

LEMMA EscAck ==
  ASSUME TypeOK, EscalationInv, Webhook, AckFind \/ AckDelete \/ AckStamp
  PROVE  EscalationInv'
<1>1. UNCHANGED <<setup, link, call, timer, paged>>
  BY DEF AckFind, AckDelete, AckStamp, hist
<1>2. key \in Nat /\ key' \in {key, 0}
  BY Parts, SetupType DEF AckFind, AckDelete, AckStamp
<1>3. OneCall' /\ TimersOfStart' /\ LinkBeforeTimer' /\ LinkDead'
  BY <1>1, EscStill
  DEF EscalationInv, TimersOfStart, LinkBeforeTimer, LinkDead, Pc
<1>4. key > 0 \/ ack # "idle"
  BY DEF AckFind, AckDelete, AckStamp
<1>5. StartedFirst' /\ NoWaitNoKey'
  BY <1>1, <1>4, EscStill, Parts, SetupType
  DEF EscalationInv, StartedFirst, NoWaitNoKey
<1>6. CASE AckFind
  <2>1. ~paged /\ key > 0 /\ UNCHANGED <<key, accepted, raced>>
    BY <1>6 DEF AckFind, EscalationInv, LinkDead, hist
  <2> QED
    BY <1>1, <1>3, <1>5, <2>1 DEF EscalationInv, FoundBefore, Settled
<1>7. CASE AckDelete
  <2>1. ack = "found" /\ ack' # "found"
    BY <1>7 DEF AckDelete
  <2>2. paged => raced
    BY <2>1 DEF EscalationInv, FoundBefore
  <2>3. \/ UNCHANGED <<accepted, raced>>
        \/ /\ key' = 0
           /\ raced' = (raced \/ \E c \in Calls : timer[c].pc = "pending")
    BY <1>7 DEF AckDelete
  <2>4. FoundBefore'
    BY <2>1 DEF FoundBefore
  <2>5. Settled'
    BY <1>1, <1>2, <2>2, <2>3 DEF EscalationInv, Settled
  <2> QED BY <1>1, <1>3, <1>5, <2>4, <2>5 DEF EscalationInv
<1>8. CASE AckStamp
  <2>1. UNCHANGED <<key, accepted, raced>> /\ ack' = "idle"
    BY <1>8 DEF AckStamp
  <2> QED
    BY <1>1, <1>3, <1>5, <2>1 DEF EscalationInv, FoundBefore, Settled
<1> QED BY <1>6, <1>7, <1>8

LEMMA EscNext == TypeOK /\ EscalationInv /\ [Next]_vars => EscalationInv'
<1> SUFFICES ASSUME TypeOK, EscalationInv, [Next]_vars PROVE EscalationInv'
  OBVIOUS
<1>1. setup' = setup
  BY DEF Next, vars, Tick, Crash, Proceed, Elapse, Announce, FanOut, Stamp, StartWaiting,
     StartAtOnce, LeaveAlone, WalkBack, Finish, Check, Escalate, Remove, AckFind,
     AckDelete, AckStamp, AdminRead, AdminSave
<1>2. CASE ~Webhook
  BY <1>1, <1>2 DEF EscalationInv, Webhook
<1>3. CASE Webhook
  <2>1. ASSUME NEW c \in Calls, Proceed(c) PROVE EscalationInv'
    BY <1>3, <2>1, EscAnnounce, EscProceedQuietly, EscStartWaiting, EscStartAtOnce
    DEF Proceed
  <2>2. ASSUME UNCHANGED <<setup, key, link, call, timer, ack, accepted, paged, raced>>
        PROVE  EscalationInv'
    BY <2>2 DEF EscalationInv, OneCall, TimersOfStart, StartedFirst, NoWaitNoKey,
       LinkBeforeTimer, LinkDead, FoundBefore, Settled, Webhook, Begun, Pc
  <2>3. CASE AdminRead \/ (\E resolves \in BOOLEAN : AdminSave(resolves)) \/ UNCHANGED vars
    BY <2>2, <2>3 DEF AdminRead, AdminSave, vars, hist
  <2> QED
    BY <1>3, <2>1, <2>3, EscTick, EscCrash, EscTimer, EscAck DEF Next
<1> QED BY <1>2, <1>3

----------------------------------------------------------------------------
(* The record: acknowledgements stay, the on-call mark is honest           *)

Early == {"announced", "sent", "stamped"}

Active == Early \cup {"refused", "started"}

\* The calls for one incident follow each other.
Sequential ==
  \A c, d \in Calls : c # d /\ Pc(c) \in Active => Pc(d) \notin Active

\* A webhook whose Start was refused had no wait, or Redis failed.
RefusedWhy ==
  Webhook /\ "redis" \notin faults /\ (\E c \in Calls : Pc(c) = "refused")
  => setup.wait = 0

\* Only an accepted acknowledgement is written.
StampedFirst == ack = "deleted" \/ stamped => accepted

Kept ==
  /\ stamped /\ ~stale
  /\ Webhook => ~setup.auto /\ "redis" \notin faults
  => record.acked /\ record.exists

Clean == ~stale /\ "crash" \notin faults /\ "save" \notin faults

\* A call that takes its incident for resolved is right.
ResolvedCopy ==
  Clean => \A c \in Calls :
             Pc(c) \in Early /\ call[c].rec.resolved => record.resolved

\* The mark stands for a Start that succeeded, or is still to come.
Marked ==
  Clean /\ record.oncall =>
    \/ started \/ record.resolved
    \/ \E c \in Calls : Pc(c) \in Early \cup {"refused"}

RecordInv ==
  /\ Sequential /\ RefusedWhy /\ StampedFirst
  /\ Kept /\ ResolvedCopy /\ Marked

LEMMA RecordInit == Init => RecordInv
BY DEF Init, RecordInv, Sequential, RefusedWhy, StampedFirst, Kept, ResolvedCopy,
       Marked, Pc, NoRecord, Active, Early

\* The fields a save by createIncident leaves.
LEMMA SavedFields ==
  ASSUME NEW stored \in RecordType, NEW rec \in RecordType
  PROVE  /\ Saved(stored, rec).oncall = rec.oncall
         /\ setup.origin = "detection" /\ stored.exists =>
              /\ Saved(stored, rec).acked = stored.acked
              /\ Saved(stored, rec).exists
              /\ Saved(stored, rec).resolved = stored.resolved
         /\ ~(setup.origin = "detection" /\ stored.exists) =>
              Saved(stored, rec) = rec
BY DEF Saved, RecordType

\* A save by createIncident while the record is clean, and otherwise.
LEMMA SaveFields ==
  ASSUME TypeOK, NEW rec \in RecordType, Save(rec)
  PROVE  /\ faults \subseteq faults'
         /\ "save" \notin faults' => record' = Saved(record, rec)
         /\ record' = record \/ record' = Saved(record, rec)
BY DEF Save, Fault, NoFault

LEMMA Origin == ASSUME TypeOK, ~Webhook PROVE setup.origin = "detection"
<1>1. setup \in [origin : Origins, wait : Waits, auto : AutoResolve]
  BY Parts DEF Setups
<1>2. setup.origin \in Origins
  BY <1>1
<1> QED BY <1>2, OnCallAssumption DEF Webhook

\* A save in a detection's call never takes an acknowledgement back.
LEMMA DetectionKeeps ==
  ASSUME TypeOK, ~Webhook, Kept, NEW rec \in RecordType, Save(rec),
         UNCHANGED <<setup, stamped, stale>>
  PROVE  Kept'
<1>1. record' = record \/ record' = Saved(record, rec)
  BY SaveFields
<1>2. setup.origin = "detection" /\ record \in RecordType /\ ~Webhook'
  BY Origin, Parts DEF Webhook
<1> QED
  BY <1>1, <1>2, SavedFields DEF Kept

\* A webhook's call before and in its Start has no acknowledgement to lose.
LEMMA WebhookKeeps ==
  ASSUME TypeOK, EscalationInv, RecordInv, Webhook, NEW c \in Calls,
         Pc(c) \in {"idle"} \cup Early \cup {"refused"},
         \A d \in Calls : Pc(c) = "idle" => Pc(d) = "idle",
         faults \subseteq faults', UNCHANGED <<setup, stamped, stale>>
  PROVE  Kept'
<1>1. CASE Pc(c) # "refused"
  <2>1. \A d \in Calls : d # c => Pc(d) = "idle"
    BY <1>1 DEF EscalationInv, OneCall
  <2>2. ~Begun
    BY <1>1, <2>1 DEF Begun, Late, Early
  <2>3. ~stamped
    BY <2>2 DEF EscalationInv, StartedFirst, RecordInv, StampedFirst
  <2> QED BY <2>3 DEF Kept
<1>2. CASE Pc(c) = "refused"
  <2>1. "redis" \in faults \/ ~accepted
    BY <1>2 DEF RecordInv, RefusedWhy, EscalationInv, NoWaitNoKey
  <2>2. "redis" \in faults' \/ ~stamped
    BY <2>1 DEF RecordInv, StampedFirst
  <2> QED BY <2>2 DEF Kept, Webhook
<1> QED BY <1>1, <1>2

LEMMA RecAnnounce ==
  ASSUME TypeOK, EscalationInv, RecordInv, NEW c \in Calls, Announce(c)
  PROVE  RecordInv'
<1> DEFINE old == IF setup.origin = "detection" THEN record ELSE NoRecord
           rec == [old EXCEPT !.exists = TRUE, !.oncall = TRUE]
<1>1. old \in RecordType /\ rec \in RecordType
  BY Parts, NoRecordType, RecordMarks
<1>2. Save(rec) /\ call' = [call EXCEPT ![c].pc = "announced", ![c].rec = rec]
  BY DEF Announce
<1>3. UNCHANGED <<setup, ack, accepted, stamped, stale>>
  BY DEF Announce, marks
<1>4. rec.resolved = old.resolved /\ NoRecord.resolved = FALSE
  BY <1>1 DEF RecordType, NoRecord
<1>5. setup.origin # "detection" => old = NoRecord
  OBVIOUS
<1>6. setup.origin = "detection" => old = record
  OBVIOUS
<1> HIDE DEF old, rec
<1>7. \A d \in Calls : /\ Pc(d)' = IF d = c THEN "announced" ELSE Pc(d)
                       /\ call'[d].rec = IF d = c THEN rec ELSE call[d].rec
  BY <1>2, PcMoves, Parts DEF CallType
<1>8. \A d \in Calls : Pc(d) \notin Active
  BY DEF Announce, MayAnnounce, Active, Early, Pc
<1>9. /\ faults \subseteq faults'
      /\ "save" \notin faults' => record' = Saved(record, rec)
  BY <1>1, <1>2, SaveFields
<1>10. Sequential' /\ RefusedWhy' /\ StampedFirst'
  BY <1>3, <1>7, <1>8, <1>9
  DEF Sequential, RefusedWhy, StampedFirst, RecordInv, Active, Early, Webhook
<1>11. Kept'
  <2>1. CASE ~Webhook
    BY <2>1, <1>1, <1>2, <1>3, DetectionKeeps DEF RecordInv
  <2>2. CASE Webhook
    <3>1. Pc(c) = "idle" /\ \A d \in Calls : Pc(d) = "idle"
      BY <2>2 DEF Announce, MayAnnounce, Webhook, Pc
    <3> QED BY <2>2, <3>1, <1>3, <1>9, WebhookKeeps
  <2> QED BY <2>1, <2>2
<1>12. ResolvedCopy'
  <2>1. SUFFICES ASSUME Clean', rec.resolved PROVE record'.resolved
    BY <1>7, <1>8 DEF ResolvedCopy, Active
  <2>2. setup.origin = "detection" /\ record.resolved
    BY <2>1, <1>4, <1>5, <1>6
  <2>3. record' = Saved(record, rec)
    BY <2>1, <1>9 DEF Clean
  <2> QED BY <2>1, <2>2, <2>3, <1>1, SavedFields, Parts
<1>13. Marked'
  BY <1>7 DEF Marked, Early
<1> QED
  BY <1>10, <1>11, <1>12, <1>13 DEF RecordInv

LEMMA RecFanOut ==
  ASSUME TypeOK, RecordInv, NEW c \in Calls, NEW reached \in BOOLEAN,
         FanOut(c, reached)
  PROVE  RecordInv'
<1>0. /\ call \in [Calls -> CallType]
      /\ call' = [call EXCEPT ![c].pc = "sent", ![c].reached = reached]
  BY Parts DEF FanOut
<1>1. \A d \in Calls : /\ Pc(d)' = IF d = c THEN "sent" ELSE Pc(d)
                       /\ call'[d].rec = call[d].rec
  <2>1. \A d \in Calls : d # c => call'[d] = call[d]
    BY <1>0
  <2>2. call'[c].pc = "sent" /\ call'[c].rec = call[c].rec
    BY <1>0 DEF CallType
  <2> QED BY <2>1, <2>2 DEF Pc
<1>2. Pc(c) = "announced"
  BY DEF FanOut, Pc
<1>3. UNCHANGED <<setup, record, ack, hist>>
  BY DEF FanOut
<1>4. UNCHANGED <<started, accepted, stamped, stale, faults>>
  BY <1>3 DEF hist
<1>5. Sequential' /\ RefusedWhy' /\ StampedFirst'
  BY <1>1, <1>2, <1>3, <1>4
  DEF RecordInv, Sequential, RefusedWhy, StampedFirst, Active, Early, Webhook
<1>6. Kept' /\ ResolvedCopy'
  BY <1>1, <1>2, <1>3, <1>4 DEF RecordInv, Kept, ResolvedCopy, Clean, Early, Webhook
<1>7. Marked'
  BY <1>1 DEF Marked, Early
<1> QED
  BY <1>5, <1>6, <1>7 DEF RecordInv

LEMMA RecStamp ==
  ASSUME TypeOK, EscalationInv, RecordInv, NEW c \in Calls, Stamp(c)
  PROVE  RecordInv'
<1> DEFINE rec == IF setup.origin = "detection" /\ record.exists
                  THEN record ELSE call[c].rec
<1>1. rec \in RecordType
  BY Parts, CallRecord
<1>2. Save(rec) /\ call' = [call EXCEPT ![c].pc = "stamped", ![c].rec = rec]
  BY DEF Stamp
<1>3. UNCHANGED <<setup, ack, accepted, stamped, stale>>
  BY DEF Stamp, marks
<1>4. setup.origin = "detection" /\ record.exists => rec = record
  OBVIOUS
<1>5. ~(setup.origin = "detection" /\ record.exists) => rec = call[c].rec
  OBVIOUS
<1> HIDE DEF rec
<1>6. \A d \in Calls : /\ Pc(d)' = IF d = c THEN "stamped" ELSE Pc(d)
                       /\ call'[d].rec = IF d = c THEN rec ELSE call[d].rec
  BY <1>2, PcMoves, Parts DEF CallType
<1>7. Pc(c) = "sent"
  BY DEF Stamp, Pc
<1>8. \A d \in Calls : d # c => Pc(d) \notin Active
  BY <1>7 DEF RecordInv, Sequential, Active, Early
<1>9. /\ faults \subseteq faults'
      /\ "save" \notin faults' => record' = Saved(record, rec)
  BY <1>1, <1>2, SaveFields
<1>10. Sequential' /\ RefusedWhy' /\ StampedFirst'
  BY <1>3, <1>6, <1>8, <1>9
  DEF Sequential, RefusedWhy, StampedFirst, RecordInv, Active, Early, Webhook
<1>11. Kept'
  <2>1. CASE ~Webhook
    BY <2>1, <1>1, <1>2, <1>3, DetectionKeeps DEF RecordInv
  <2>2. CASE Webhook
    BY <2>2, <1>3, <1>7, <1>9, WebhookKeeps DEF Early
  <2> QED BY <2>1, <2>2
<1>12. ResolvedCopy'
  <2>1. SUFFICES ASSUME Clean', rec.resolved PROVE record'.resolved
    BY <1>6, <1>8 DEF ResolvedCopy, Active
  <2>2. record' = Saved(record, rec)
    BY <2>1, <1>9 DEF Clean
  <2> QED BY <2>1, <2>2, <1>1, <1>4, SavedFields, Parts
<1>13. Marked'
  BY <1>6 DEF Marked, Early
<1> QED
  BY <1>10, <1>11, <1>12, <1>13 DEF RecordInv

LEMMA RecStart ==
  ASSUME TypeOK, EscalationInv, RecordInv, NEW c \in Calls,
         StartWaiting(c) \/ StartAtOnce(c) \/ LeaveAlone(c)
  PROVE  RecordInv'
<1>1. /\ Pc(c) = "stamped"
      /\ UNCHANGED <<setup, record, ack, accepted, stamped, stale>>
      /\ faults \subseteq faults' /\ (started => started')
  BY DEF StartWaiting, StartAtOnce, LeaveAlone, Pc, Fault, NoFault, hist
<1>2. \E pc \in {"started", "refused"} :
        /\ \A d \in Calls : /\ Pc(d)' = IF d = c THEN pc ELSE Pc(d)
                           /\ call'[d].rec = call[d].rec
        /\ pc = "refused" => "redis" \in faults' \/ setup.wait = 0
        /\ pc = "started" => started' \/ call[c].rec.resolved
  BY Parts DEF StartWaiting, StartAtOnce, LeaveAlone, Pc, Fault, CallType
<1>3. \A d \in Calls : d # c => Pc(d) \notin Active
  BY <1>1 DEF RecordInv, Sequential, Active, Early
<1>4. Sequential' /\ RefusedWhy' /\ StampedFirst'
  BY <1>1, <1>2, <1>3
  DEF RecordInv, Sequential, RefusedWhy, StampedFirst, Active, Early, Webhook
<1>5. Kept'
  BY <1>1 DEF RecordInv, Kept, Webhook
<1>6. Clean' => Clean
  BY <1>1 DEF Clean
<1>7. ResolvedCopy'
  BY <1>1, <1>2, <1>6 DEF RecordInv, ResolvedCopy, Early
<1>8. Clean /\ call[c].rec.resolved => record.resolved
  BY <1>1 DEF RecordInv, ResolvedCopy, Early
<1>9. Marked'
  BY <1>1, <1>2, <1>6, <1>8 DEF Marked
<1> QED
  BY <1>4, <1>5, <1>7, <1>9 DEF RecordInv

LEMMA RecWalkBack ==
  ASSUME TypeOK, EscalationInv, RecordInv, NEW c \in Calls, WalkBack(c)
  PROVE  RecordInv'
<1> DEFINE rec == [call[c].rec EXCEPT !.oncall = FALSE]
<1>0. rec \in RecordType
  BY CallRecord, RecordMarks
<1>1. rec \in RecordType /\ ~rec.oncall
  BY <1>0, CallRecord DEF RecordType
<1>2. Save(rec) /\ call' = [call EXCEPT ![c].pc = "started", ![c].rec = rec]
  BY DEF WalkBack
<1>3. UNCHANGED <<setup, ack, accepted, stamped, stale>>
  BY DEF WalkBack, marks
<1> HIDE DEF rec
<1>4. \A d \in Calls : /\ Pc(d)' = IF d = c THEN "started" ELSE Pc(d)
                       /\ call'[d].rec = IF d = c THEN rec ELSE call[d].rec
  BY <1>2, PcMoves, Parts DEF CallType
<1>5. Pc(c) = "refused"
  BY DEF WalkBack, Pc
<1>6. \A d \in Calls : d # c => Pc(d) \notin Active
  BY <1>5 DEF RecordInv, Sequential, Active, Early
<1>7. /\ faults \subseteq faults'
      /\ "save" \notin faults' => record' = Saved(record, rec)
  BY <1>1, <1>2, SaveFields
<1>8. Sequential' /\ RefusedWhy' /\ StampedFirst'
  BY <1>3, <1>4, <1>6, <1>7
  DEF Sequential, RefusedWhy, StampedFirst, RecordInv, Active, Early, Webhook
<1>9. Kept'
  <2>1. CASE ~Webhook
    BY <2>1, <1>1, <1>2, <1>3, DetectionKeeps DEF RecordInv
  <2>2. CASE Webhook
    BY <2>2, <1>3, <1>5, <1>7, WebhookKeeps DEF Early
  <2> QED BY <2>1, <2>2
<1>10. ResolvedCopy'
  BY <1>4, <1>6 DEF ResolvedCopy, Active, Early
<1>11. Clean' => ~record'.oncall
  BY <1>1, <1>7, SavedFields, Parts DEF Clean
<1> QED
  BY <1>8, <1>9, <1>10, <1>11 DEF RecordInv, Marked

LEMMA RecFinish ==
  ASSUME TypeOK, EscalationInv, RecordInv, NEW c \in Calls, Finish(c)
  PROVE  RecordInv'
<1> DEFINE rec == [call[c].rec EXCEPT !.resolved = TRUE]
<1>0. rec \in RecordType
  BY CallRecord, RecordMarks
<1>1. rec \in RecordType /\ rec.resolved
  BY <1>0, CallRecord DEF RecordType
<1>2. /\ setup.auto => Save(rec)
      /\ ~setup.auto => UNCHANGED record /\ NoFault
  BY DEF Finish
<1>3. UNCHANGED <<setup, ack, started, accepted, stamped, stale>>
  BY DEF Finish, marks
<1> HIDE DEF rec
<1>4. \A d \in Calls : /\ Pc(d)' = IF d = c THEN "ended" ELSE Pc(d)
                       /\ call'[d].rec = call[d].rec
  BY PcMoves, Parts DEF Finish, CallType
<1>5. Pc(c) = "started"
  BY DEF Finish, Pc
<1>6. \A d \in Calls : d # c => Pc(d) \notin Active
  BY <1>5 DEF RecordInv, Sequential, Active, Early
<1>7. /\ faults \subseteq faults'
      /\ setup.auto => Webhook /\ ("save" \notin faults' => record' = Saved(record, rec))
  BY <1>1, <1>2, SaveFields DEF NoFault, TypeOK, Webhook
<1>8. setup.auto /\ Clean' => record'.resolved
  BY <1>1, <1>7, SavedFields, Parts DEF Clean, Webhook
<1>9. Sequential' /\ RefusedWhy' /\ StampedFirst'
  BY <1>3, <1>4, <1>6, <1>7
  DEF Sequential, RefusedWhy, StampedFirst, RecordInv, Active, Early, Webhook
<1>10. Kept'
  BY <1>2, <1>3, <1>7 DEF RecordInv, Kept, Webhook, NoFault
<1>11. ResolvedCopy'
  BY <1>4, <1>6 DEF ResolvedCopy, Active, Early
<1>12. Marked'
  <2>1. CASE setup.auto
    BY <2>1, <1>8 DEF Marked
  <2>2. CASE ~setup.auto
    <3>1. record' = record /\ (Clean' => Clean)
      BY <2>2, <1>2, <1>3, <1>7 DEF Clean
    <3> QED
      BY <3>1, <1>3, <1>4, <1>5 DEF RecordInv, Marked, Early
  <2> QED BY <2>1, <2>2
<1> QED
  BY <1>9, <1>10, <1>11, <1>12 DEF RecordInv

\* Steps that touch neither the calls nor the record nor an acknowledgement.
LEMMA RecQuiet ==
  ASSUME RecordInv, UNCHANGED <<setup, record, call, stamped, stale, started>>,
         faults \subseteq faults', accepted => accepted', ack' = "deleted" => accepted'
  PROVE  RecordInv'
<1>1. Sequential' /\ RefusedWhy' /\ StampedFirst'
  BY DEF RecordInv, Sequential, RefusedWhy, StampedFirst, Webhook, Pc
<1>2. Clean' => Clean
  BY DEF Clean
<1>3. Kept' /\ ResolvedCopy'
  BY <1>2 DEF RecordInv, Kept, ResolvedCopy, Webhook, Pc
<1>4. Marked'
  BY <1>2 DEF RecordInv, Marked, Pc
<1> QED
  BY <1>1, <1>3, <1>4 DEF RecordInv

LEMMA RecTimers ==
  ASSUME RecordInv, Tick \/ \E c \in Calls : Elapse(c)
  PROVE  RecordInv'
<1>1. /\ UNCHANGED <<setup, record, call, ack, stamped, stale, started, accepted>>
      /\ faults \subseteq faults'
  BY DEF Tick, Elapse, Check, Escalate, Remove, hist, marks, Fault, NoFault
<1>2. ack' = "deleted" => accepted'
  BY <1>1 DEF RecordInv, StampedFirst
<1> QED
  BY <1>1, <1>2, RecQuiet

LEMMA RecAckStamp ==
  ASSUME TypeOK, RecordInv, AckStamp
  PROVE  RecordInv'
<1>1. /\ UNCHANGED <<setup, call, accepted, stale, started>> /\ ack' = "idle"
      /\ faults \subseteq faults' /\ ack = "deleted"
  BY DEF AckStamp, Fault, NoFault
<1>8. accepted
  BY <1>1 DEF RecordInv, StampedFirst
<1>9. stamped' => stamped \/ record.exists
  <2>1. CASE UNCHANGED stamped
    BY <2>1
  <2>2. CASE stamped' = (stamped \/ record.exists)
    BY <2>2
  <2> QED BY <2>1, <2>2 DEF AckStamp
<1>2. /\ record'.exists = record.exists /\ record'.oncall = record.oncall
      /\ record'.resolved = record.resolved
      /\ \/ record' = record /\ stamped' = stamped
         \/ record'.acked = record.exists
  BY Parts DEF AckStamp, RecordType
<1>3. Sequential' /\ RefusedWhy' /\ StampedFirst'
  BY <1>1, <1>8 DEF RecordInv, Sequential, RefusedWhy, StampedFirst, Webhook, Pc
<1>4. Clean' => Clean
  BY <1>1 DEF Clean
<1>5. ResolvedCopy'
  BY <1>1, <1>2, <1>4 DEF RecordInv, ResolvedCopy, Pc
<1>6. Marked'
  BY <1>1, <1>2, <1>4 DEF RecordInv, Marked, Pc
<1>7. Kept'
  <2>1. CASE record' = record /\ stamped' = stamped
    BY <2>1, <1>1 DEF RecordInv, Kept, Webhook
  <2>2. CASE record'.acked = record.exists
    <3>1. ASSUME stamped PROVE (stamped /\ ~stale /\
             (Webhook => ~setup.auto /\ "redis" \notin faults)) => record.exists
      BY DEF RecordInv, Kept
    <3>2. SUFFICES ASSUME ~stale, Webhook => ~setup.auto /\ "redis" \notin faults,
                          stamped'
                   PROVE  record'.acked /\ record'.exists
      BY <1>1 DEF Kept, Webhook
    <3> QED BY <3>1, <3>2, <2>2, <1>9, <1>2
  <2> QED BY <1>2, <2>1, <2>2
<1> QED
  BY <1>3, <1>5, <1>6, <1>7 DEF RecordInv

LEMMA RecAck ==
  ASSUME TypeOK, RecordInv, AckFind \/ AckDelete \/ AckStamp
  PROVE  RecordInv'
<1>1. CASE AckFind \/ AckDelete
  <2>1. /\ UNCHANGED <<setup, record, call, stamped, stale, started>>
        /\ faults \subseteq faults' /\ (accepted => accepted')
        /\ ack' = "deleted" => accepted'
    BY <1>1 DEF AckFind, AckDelete, hist, Fault, NoFault
  <2> QED BY <2>1, RecQuiet
<1> QED BY <1>1, RecAckStamp

\* An admin handler's save changes only resolved, unless its copy is stale.
LEMMA AdminFields ==
  ASSUME TypeOK, NEW resolves \in BOOLEAN, AdminSave(resolves), ~stale'
  PROVE  /\ ~stale
         /\ record'.exists = record.exists /\ record'.acked = record.acked
         /\ record'.oncall = record.oncall /\ (record.resolved => record'.resolved)
<1>1. CASE UNCHANGED <<record, stale>>
  BY <1>1
<1>2. CASE /\ record' = SavedByAdmin(record,
                          [admin.rec EXCEPT !.resolved = @ \/ resolves])
           /\ stale' = (stale \/ record # admin.rec)
  <2>1. ~stale /\ record = admin.rec
    BY <1>2
  <2>2. record' = SavedByAdmin(record, [record EXCEPT !.resolved = @ \/ resolves])
    BY <1>2, <2>1
  <2> QED BY <2>1, <2>2, Parts DEF SavedByAdmin, RecordType
<1> QED BY <1>1, <1>2 DEF AdminSave

LEMMA RecAdmin ==
  ASSUME TypeOK, RecordInv, NEW resolves \in BOOLEAN, AdminSave(resolves)
  PROVE  RecordInv'
<1>1. /\ UNCHANGED <<setup, call, ack, started, accepted, stamped>>
      /\ faults \subseteq faults'
  BY DEF AdminSave, Fault, NoFault
<1>2. Sequential' /\ RefusedWhy' /\ StampedFirst'
  BY <1>1 DEF RecordInv, Sequential, RefusedWhy, StampedFirst, Webhook, Pc
<1>3. CASE stale'
  BY <1>2, <1>3 DEF RecordInv, Kept, ResolvedCopy, Marked, Clean
<1>4. CASE ~stale'
  <2>1. Clean' => Clean
    BY <1>1, <1>4, AdminFields DEF Clean
  <2>2. Kept'
    BY <1>1, <1>4, AdminFields DEF RecordInv, Kept, Webhook
  <2>3. ResolvedCopy'
    BY <1>1, <1>4, <2>1, AdminFields DEF RecordInv, ResolvedCopy, Pc
  <2>4. Marked'
    BY <1>1, <1>4, <2>1, AdminFields DEF RecordInv, Marked, Pc
  <2> QED
    BY <1>2, <2>2, <2>3, <2>4 DEF RecordInv
<1> QED BY <1>3, <1>4

LEMMA RecCrash ==
  ASSUME TypeOK, RecordInv, Crash
  PROVE  RecordInv'
<1>1. /\ UNCHANGED <<setup, record, accepted, stamped, stale>> /\ ack' = "idle"
      /\ faults \subseteq faults' /\ "crash" \in faults'
  BY DEF Crash, marks, Fault
<1>2. \A c \in Calls : Pc(c)' = IF Pc(c) \in {"idle", "ended"} THEN Pc(c) ELSE "dead"
  BY Parts DEF Crash, Pc, CallType
<1>3. Sequential' /\ RefusedWhy' /\ StampedFirst'
  BY <1>1, <1>2
  DEF RecordInv, Sequential, RefusedWhy, StampedFirst, Webhook, Active, Early
<1>4. Kept' /\ ResolvedCopy' /\ Marked'
  BY <1>1 DEF RecordInv, Kept, ResolvedCopy, Marked, Clean, Webhook
<1> QED
  BY <1>3, <1>4 DEF RecordInv

LEMMA RecNext ==
  TypeOK /\ EscalationInv /\ RecordInv /\ [Next]_vars => RecordInv'
<1> SUFFICES ASSUME TypeOK, EscalationInv, RecordInv, [Next]_vars PROVE RecordInv'
  OBVIOUS
<1>1. ASSUME NEW c \in Calls, Proceed(c) PROVE RecordInv'
  BY <1>1, RecAnnounce, RecFanOut, RecStamp, RecStart, RecWalkBack, RecFinish DEF Proceed
<1>2. CASE AdminRead \/ UNCHANGED vars
  <2>1. /\ UNCHANGED <<setup, record, call, ack, stamped, stale, started, accepted, faults>>
    BY <1>2 DEF AdminRead, vars, hist
  <2>2. ack' = "deleted" => accepted'
    BY <2>1 DEF RecordInv, StampedFirst
  <2> QED BY <2>1, <2>2, RecQuiet
<1> QED
  BY <1>1, <1>2, RecTimers, RecAck, RecAdmin, RecCrash DEF Next

LEMMA Invariants == Spec => [](TypeOK /\ EscalationInv /\ RecordInv)
<1>1. Init => TypeOK /\ EscalationInv /\ RecordInv
  BY InitType, EscalationInit, RecordInit
<1>2. TypeOK /\ EscalationInv /\ RecordInv /\ [Next]_vars
        => TypeOK' /\ EscalationInv' /\ RecordInv'
  BY NextType, EscNext, RecNext
<1> QED
  BY <1>1, <1>2, PTL DEF Spec

\* "... and stops escalation": a webhook's incident is escalated and
\* acknowledged only if the two handlers overlapped (Start, HandleAck).
THEOREM AckStopsEscalation == Spec => []AckedNotPaged
<1>1. EscalationInv => AckedNotPaged
  BY DEF EscalationInv, Settled, AckedNotPaged, Webhook
<1> QED
  BY <1>1, Invariants, PTL

\* "marks the incident acknowledged": what HandleAck wrote is not taken back by
\* createIncident or by an admin handler, but in the cases AckKept names.
THEOREM AckStays == Spec => []AckKept
<1>1. RecordInv => AckKept
  BY DEF RecordInv, Kept, AckKept, Webhook
<1> QED
  BY <1>1, Invariants, PTL

\* The on-call mark of a record is walked back whenever Start fails.
THEOREM MarkHonest == Spec => []OnCallMarkHonest
<1>1. RecordInv => OnCallMarkHonest
  BY DEF RecordInv, Marked, OnCallMarkHonest, Clean, Pc, Early
<1> QED
  BY <1>1, Invariants, PTL
=============================================================================
