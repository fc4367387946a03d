-------------------------- MODULE DetectionEpisodes --------------------------
(***************************************************************************)
(* The detection episodes of one fingerprint, and the calls that page for  *)
(* them:                                                                   *)
(*                                                                         *)
(*   pkg/storage/detection_episode.go, memory.go, file.go,                 *)
(*   postgres_detection_episode.go    the episode store                    *)
(*   pkg/storage/storage.go           how incident records are merged      *)
(*   pkg/services/agent.go            createIncidentFromFindingWithLease   *)
(*   pkg/services/incident.go         createIncident, for a detection      *)
(*   pkg/controllers/incidents_admin.go   resolve                          *)
(*                                                                         *)
(* Every store operation on an episode runs under one lock per fingerprint *)
(* (a mutex, a file lock or an advisory transaction lock), so each is one  *)
(* step; the calls that use the store are many, in one process or in       *)
(* several.  Time is relative: an episode carries the age of its last      *)
(* occurrence and what is left of the lease of its pending claim.          *)
(***************************************************************************)
EXTENDS Integers, FiniteSets

CONSTANTS
  Calls,        \* createIncidentFromFinding calls that may be under way
  Severities,   \* ranks a finding may carry: 1 low ... 4 critical
  Hints,        \* ranks a known observation may carry, 0 being "not stated"
  QuietPeriod,  \* ticks without an occurrence after which an episode is over
  Lease,        \* ticks a notification claim lives without a renewal
  MaxLag,       \* how late a known observation may be recorded
  MaxEpisodes,  \* bound on the episodes opened
  MaxTokens,    \* bound on the claims taken
  MaxCount,     \* where the occurrence count saturates
  MaxFaults,    \* bound on crashes and failed deliveries together
  MaxPurges,    \* bound on incidents dropped by retention
  Holds,        \* what a registered emit interceptor may do instead of paging
  HeartbeatsKeepUp  \* no tick runs down a claim whose call is still alive

\* "failed" is a diversion the interceptor could not deliver.
HoldKinds == {"suppressed", "grouped", "delayed", "diverted", "failed"}

ASSUME EpisodeAssumption ==
  /\ Severities \subseteq 1..4 /\ Hints \subseteq 0..4
  /\ QuietPeriod \in Nat \ {0} /\ Lease \in Nat \ {0} /\ MaxLag \in Nat
  /\ MaxEpisodes \in Nat /\ MaxTokens \in Nat /\ MaxCount \in Nat \ {0}
  /\ MaxFaults \in Nat /\ MaxPurges \in Nat
  /\ Holds \subseteq HoldKinds
  /\ HeartbeatsKeepUp \in BOOLEAN

VARIABLES
  episode,   \* the episodes by number; numbers above opened are blank
  opened,    \* how many were ever opened
  active,    \* activeEpisodes: the open episode, or 0
  tokens,    \* how many claim tokens were ever drawn
  incident,  \* the incident record each episode owns
  call,      \* the calls

  \* History: what happened.  Guards read only the bounds from it.
  pages,     \* notifications that reached a channel
  accepted,  \* tokens completed with a terminal outcome
  resolved,  \* episodes whose incident an operator resolved
  started,   \* episodes on-call was started for
  restarted, \* kinds of claims that started it when it was started already
  faults,
  purges,
  crashed    \* a call died before its end

store == <<episode, opened, active, tokens>>
hist  == <<pages, accepted, resolved, started, restarted, faults,
           purges, crashed>>
vars  == <<store, incident, call, hist>>

Episodes == 1..MaxEpisodes
Ranks    == 0..4

----------------------------------------------------------------------------
(* Severities and outcomes                                                 *)

Lesser(a, b)  == IF a < b THEN a ELSE b
Greater(a, b) == IF a < b THEN b ELSE a

\* NormalizeSeverity: what is not one of the four words becomes "medium".
Normalize(s) == IF s = 0 THEN 2 ELSE s

Terminal(outcome)  ==
  outcome \in {"sent", "partial", "suppressed", "grouped", "diverted"}
Delivered(outcome) == outcome \in {"sent", "partial", "diverted"}

\* A finding of this rank asks for on-call (params["oncall_enable"]).
Pages(severity) == severity >= 3

----------------------------------------------------------------------------
(* The episode store                                                       *)

Blank ==
  [open |-> FALSE, count |-> 0, age |-> 0, observed |-> 0, handled |-> 0,
   notified |-> 0, kind |-> "none", severity |-> 0, token |-> 0, lease |-> 0,
   done |-> 0, outcome |-> "none"]

NoIncident ==
  [exists |-> FALSE, resolved |-> FALSE, count |-> 0, observed |-> 0,
   status |-> "", oncall |-> FALSE]

\* The episode's incident was resolved, or is gone after a delivery; or the
\* episode has been quiet too long.  An occurrence then closes the episode.
Finished(e, lag) ==
  \/ incident[e].exists /\ incident[e].resolved
  \/ /\ ~incident[e].exists
     /\ episode[e].token = 0 /\ Delivered(episode[e].outcome)
  \/ episode[e].age - lag >= QuietPeriod

\* Counting one more occurrence in an episode that continues.
Counted(ep, severity, lag) ==
  [ep EXCEPT !.count = Lesser(@ + 1, MaxCount),
             !.age = lag,
             !.observed = Greater(@, severity)]

\* Mutants of Owed: an occurrence as severe as the one handled escalates; a
\* claim whose call is gone is never taken over.
OwedAtLevel(ep) ==
  IF ep.token # 0 THEN (IF ep.lease = 0 THEN ep.kind ELSE "none")
  ELSE IF ep.handled = 0 THEN "initial"
  ELSE IF ep.observed >= ep.handled THEN "escalation" ELSE "none"
OwedUnlessPending(ep) ==
  IF ep.token # 0 THEN "none"
  ELSE IF ep.handled = 0 THEN "initial"
  ELSE IF ep.observed > ep.handled THEN "escalation" ELSE "none"

\* The notification a counted episode owes now: a lapsed claim is taken over
\* as what it was; without a claim, an episode nobody handled yet is due its
\* initial one, and one that got worse an escalation.
Owed(ep) ==
  IF ep.token # 0 THEN (IF ep.lease = 0 THEN ep.kind ELSE "none")
  ELSE IF ep.handled = 0 THEN "initial"
  ELSE IF ep.observed > ep.handled THEN "escalation" ELSE "none"

Claimed(ep, kind, token) ==
  [ep EXCEPT !.kind = kind, !.severity = ep.observed, !.token = token,
             !.lease = Lease]

\* Mutant of Closed: the episode is left open.
ClosedStillOpen(ep) == ep

Closed(ep) == [ep EXCEPT !.open = FALSE]

NewEpisode(severity) ==
  [Blank EXCEPT !.open = TRUE, !.count = 1, !.observed = severity]

\* Mutant of Complete: the severity seen by now counts as handled, not the one
\* the claim was taken at.
CompleteAtObserved(ep, token, outcome) ==
  IF token # ep.token THEN ep
  ELSE [ep EXCEPT !.handled = IF Terminal(outcome) THEN ep.observed ELSE @,
                  !.notified = IF Delivered(outcome) THEN ep.observed ELSE @,
                  !.done = token, !.outcome = outcome,
                  !.kind = "none", !.severity = 0, !.token = 0, !.lease = 0]

\* CompleteDetectionNotification: only the pending token completes, whether or
\* not its lease has run out; a terminal outcome settles the severity the
\* claim was taken at.
Complete(ep, token, outcome) ==
  IF token # ep.token THEN ep
  ELSE [ep EXCEPT !.handled = IF Terminal(outcome) THEN ep.severity ELSE @,
                  !.notified = IF Delivered(outcome) THEN ep.severity ELSE @,
                  !.done = token, !.outcome = outcome,
                  !.kind = "none", !.severity = 0, !.token = 0, !.lease = 0]

\* applyDetectionEpisodeDecision: the incident's progress is set from the
\* episode's.
Applied(inc, ep) ==
  IF inc.exists THEN [inc EXCEPT !.count = ep.count, !.observed = ep.observed]
  ELSE inc

\* Mutants of Saved: the whole record is replaced by the writer's copy; the
\* last writer's progress wins.
SavedWhole(stored, rec) == rec
SavedLastWins(stored, rec) ==
  IF ~stored.exists THEN rec
  ELSE [stored EXCEPT
          !.count = rec.count, !.observed = rec.observed,
          !.status = IF rec.status = "" THEN @ ELSE rec.status,
          !.oncall = IF rec.status = "" THEN @ ELSE rec.oncall]

\* SaveDetectionIncident: lifecycle fields of the stored record are kept,
\* progress only rises, delivery fields are taken when a status is given.
Saved(stored, rec) ==
  IF ~stored.exists THEN rec
  ELSE [stored EXCEPT
          !.count = Greater(@, rec.count),
          !.observed = Greater(@, rec.observed),
          !.status = IF rec.status = "" THEN @ ELSE rec.status,
          !.oncall = IF rec.status = "" THEN @ ELSE rec.oncall]

----------------------------------------------------------------------------
Idle ==
  [pc |-> "idle", e |-> 0, token |-> 0, kind |-> "none", severity |-> 0,
   claimed |-> 0, count |-> 0, observed |-> 0, skip |-> FALSE,
   outcome |-> "none", rec |-> NoIncident]

Init ==
  /\ episode = [e \in Episodes |-> Blank]
  /\ opened = 0 /\ active = 0 /\ tokens = 0
  /\ incident = [e \in Episodes |-> NoIncident]
  /\ call = [c \in Calls |-> Idle]
  /\ pages = {} /\ accepted = {} /\ resolved = {}
  /\ started = {} /\ restarted = {}
  /\ faults = 0 /\ purges = 0 /\ crashed = FALSE

\* Bound: an age beyond which nothing changes; once no further episode can be
\* opened, the last one is not left to go quiet.
Oldest == IF opened = MaxEpisodes THEN QuietPeriod - 1 ELSE QuietPeriod + MaxLag

\* The claim a call took is still its own and has not lapsed.
Holding(c) ==
  /\ call[c].token # 0
  /\ episode[call[c].e].token = call[c].token /\ episode[call[c].e].lease > 0

\* One tick: episodes age and the leases of pending claims run down.
Tick ==
  /\ HeartbeatsKeepUp =>
       \A c \in Calls : Holding(c) => episode[call[c].e].lease > 1
  /\ episode' = [e \in Episodes |->
       [episode[e] EXCEPT
          !.age = IF episode[e].open /\ @ < Oldest THEN @ + 1 ELSE @,
          !.lease = IF @ > 0 THEN @ - 1 ELSE 0]]
  /\ UNCHANGED <<opened, active, tokens, incident, call, hist>>

----------------------------------------------------------------------------
(* RecordDetectionOccurrence                                               *)

Continues(lag) == active # 0 /\ ~Finished(active, lag)

\* What a call remembers of the decision.
Decided(e, ep, severity) ==
  [Idle EXCEPT !.pc = "claimed", !.e = e, !.token = ep.token, !.kind = ep.kind,
               !.severity = severity, !.claimed = ep.severity,
               !.count = ep.count, !.observed = ep.observed]

\* The condition continues and nothing is owed: the call only updates the
\* incident.
EmitCoalesced(c, severity) ==
  /\ call[c].pc = "idle"
  /\ Continues(0)
  /\ LET ep == Counted(episode[active], severity, 0) IN
     /\ Owed(ep) = "none"
     /\ episode' = [episode EXCEPT ![active] = ep]
     /\ call' = [call EXCEPT ![c] =
                   [Decided(active, ep, severity) EXCEPT
                      !.pc = "coalesced", !.token = 0]]
  /\ UNCHANGED <<opened, active, tokens, incident, pages, accepted, resolved,
                 started, restarted, faults, purges, crashed>>

\* The condition continues and a notification is owed: the call claims it.
EmitClaims(c, severity) ==
  /\ call[c].pc = "idle" /\ tokens < MaxTokens
  /\ Continues(0)
  /\ LET counted == Counted(episode[active], severity, 0)
         ep      == Claimed(counted, Owed(counted), tokens + 1)
     IN
     /\ Owed(counted) # "none"
     /\ episode' = [episode EXCEPT ![active] = ep]
     /\ call' = [call EXCEPT ![c] = Decided(active, ep, severity)]
  /\ tokens' = tokens + 1
  /\ UNCHANGED <<opened, active, incident, pages, accepted, resolved, started,
                 restarted, faults, purges, crashed>>

\* No episode continues: the last one is closed and a new one opened, with its
\* initial notification claimed.
EmitOpens(c, severity) ==
  /\ call[c].pc = "idle" /\ tokens < MaxTokens /\ opened < MaxEpisodes
  /\ ~Continues(0)
  /\ LET e  == opened + 1
         ep == Claimed(NewEpisode(severity), "initial", tokens + 1)
     IN
     /\ episode' = [n \in Episodes |->
                      IF n = e THEN ep
                      ELSE IF n = active THEN Closed(episode[n])
                      ELSE episode[n]]
     /\ call' = [call EXCEPT ![c] = Decided(e, ep, severity)]
     /\ active' = e /\ opened' = e
  /\ tokens' = tokens + 1
  /\ UNCHANGED <<incident, pages, accepted, resolved, started, restarted,
                 faults, purges, crashed>>

Emit(c) ==
  \E severity \in Severities :
    \/ EmitCoalesced(c, severity)
    \/ EmitClaims(c, severity)
    \/ EmitOpens(c, severity)

\* ContinueDetectionEpisode: a known, normal observation counts towards an
\* open episode and never opens or claims; it too closes one that is over.
Continue(hint, lag) ==
  /\ active # 0
  /\ IF Finished(active, lag)
     THEN /\ episode' = [episode EXCEPT ![active] = Closed(@)]
          /\ active' = 0
          /\ UNCHANGED incident
     ELSE LET ep == Counted(episode[active], Normalize(hint), lag) IN
          /\ episode' = [episode EXCEPT ![active] = ep]
          /\ incident' = [incident EXCEPT ![active] = Applied(@, ep)]
          /\ UNCHANGED active
  /\ UNCHANGED <<opened, tokens, call, pages, accepted, resolved, started,
                 restarted, faults, purges, crashed>>

----------------------------------------------------------------------------
(* The rest of createIncidentFromFindingWithLease                          *)

\* updateCoalescedDetectionIncident: read the incident, if there is one, ...
CoalesceRead(c) ==
  /\ call[c].pc = "coalesced"
  /\ LET inc == incident[call[c].e]
         rec == [inc EXCEPT !.count = call[c].count,
                            !.observed = call[c].observed, !.status = ""]
     IN
     call' = [call EXCEPT ![c] =
                IF inc.exists THEN [@ EXCEPT !.pc = "merging", !.rec = rec]
                ELSE Idle]
  /\ UNCHANGED <<store, incident, hist>>

\* ... and save it with the decision's progress.
CoalesceSave(c) ==
  /\ call[c].pc = "merging"
  /\ incident' = [incident EXCEPT ![call[c].e] = Saved(@, call[c].rec)]
  /\ call' = [call EXCEPT ![c] = Idle]
  /\ UNCHANGED <<store, hist>>

\* The heartbeat renews a claim that is still pending and has not lapsed.
Renew(c) ==
  /\ Holding(c)
  /\ episode' = [episode EXCEPT ![call[c].e].lease = Lease]
  /\ UNCHANGED <<opened, active, tokens, incident, call, hist>>

\* Mutant of Skips: the flag of the record is not looked at.
SkipsNever(c) == FALSE

\* skipOnCall: an escalation of an incident on-call already runs for.
Skips(c) ==
  /\ call[c].kind = "escalation"
  /\ incident[call[c].e].exists /\ incident[call[c].e].oncall

\* An escalation looks that up first.
Inspect(c) ==
  /\ call[c].pc = "claimed"
  /\ call' = [call EXCEPT ![c].pc = "inspected", ![c].skip = Skips(c)]
  /\ UNCHANGED <<store, incident, hist>>

\* That lookup fails: the claim is given up as failed.
InspectFails(c) ==
  /\ call[c].pc = "claimed" /\ call[c].kind = "escalation"
  /\ faults < MaxFaults
  /\ faults' = faults + 1
  /\ call' = [call EXCEPT ![c].pc = "concluding", ![c].outcome = "failed"]
  /\ UNCHANGED <<store, incident, pages, accepted, resolved, started,
                 restarted, purges, crashed>>

\* The record createIncident writes: the stored one with the decision applied,
\* or a new one.
Draft(c, status) ==
  LET inc == incident[call[c].e] IN
  [inc EXCEPT !.exists = TRUE, !.count = call[c].count,
              !.observed = call[c].observed, !.status = status]

\* The interceptor holds the finding back, or delivers it elsewhere itself.
Hold(c, outcome) ==
  /\ call[c].pc = "inspected"
  /\ ~Terminal(outcome) => faults < MaxFaults
  /\ faults' = IF Terminal(outcome) THEN faults ELSE faults + 1
  /\ incident' = IF outcome = "delayed" THEN incident
                 ELSE [incident EXCEPT
                         ![call[c].e] = Saved(@, Draft(c, outcome))]
  /\ pages' = IF Delivered(outcome)
              THEN pages \cup {[e |-> call[c].e, severity |-> call[c].claimed,
                                token |-> call[c].token]}
              ELSE pages
  /\ call' = [call EXCEPT ![c].pc = "concluding", ![c].outcome = outcome]
  /\ UNCHANGED <<store, accepted, resolved, started, restarted,
                 purges, crashed>>

\* Persist first, as pending, with on-call optimistically marked.
Announce(c) ==
  /\ call[c].pc = "inspected"
  /\ LET draft == Draft(c, "pending")
         rec   == IF call[c].skip THEN draft
                  ELSE [draft EXCEPT !.oncall = Pages(call[c].severity)]
     IN
     /\ incident' = [incident EXCEPT ![call[c].e] = Saved(@, rec)]
     /\ call' = [call EXCEPT ![c].pc = "announced", ![c].rec = rec]
  /\ UNCHANGED <<store, hist>>

\* SendAllAlerts: all channels, some of them, or none.
FanOut(c, outcome) ==
  /\ call[c].pc = "announced"
  /\ outcome = "failed" => faults < MaxFaults
  /\ faults' = IF outcome = "failed" THEN faults + 1 ELSE faults
  /\ pages' = IF Delivered(outcome)
              THEN pages \cup {[e |-> call[c].e, severity |-> call[c].claimed,
                                token |-> call[c].token]}
              ELSE pages
  /\ call' = [call EXCEPT ![c].pc = "sent", ![c].outcome = outcome]
  /\ UNCHANGED <<store, incident, accepted, resolved, started,
                 restarted, purges, crashed>>

\* The outcome is stamped on the record as it is now.
Stamp(c) ==
  /\ call[c].pc = "sent"
  /\ LET stored == incident[call[c].e]
         latest == IF stored.exists THEN stored ELSE call[c].rec
         rec    == [latest EXCEPT !.status = call[c].outcome]
     IN
     /\ incident' = [incident EXCEPT ![call[c].e] = Saved(@, rec)]
     /\ call' = [call EXCEPT ![c].pc = "stamped", ![c].rec = rec]
  /\ UNCHANGED <<store, hist>>

\* On-call starts for a severe finding unless it runs already or the record was
\* resolved when the outcome was stamped; a start that fails is walked back.
StartOnCall(c) ==
  /\ call[c].pc = "stamped"
  /\ call' = [call EXCEPT ![c].pc = "concluding"]
  /\ IF Pages(call[c].severity) /\ ~call[c].skip /\ ~call[c].rec.resolved
     THEN \/ /\ started' = started \cup {call[c].e}
             /\ restarted' = IF call[c].e \in started
                             THEN restarted \cup {call[c].kind} ELSE restarted
             /\ UNCHANGED <<incident, faults>>
          \/ /\ faults < MaxFaults
             /\ faults' = faults + 1
             /\ incident' = [incident EXCEPT ![call[c].e] =
                               Saved(@, [call[c].rec EXCEPT !.oncall = FALSE])]
             /\ UNCHANGED <<started, restarted>>
     ELSE UNCHANGED <<incident, started, restarted, faults>>
  /\ UNCHANGED <<store, pages, accepted, resolved, purges, crashed>>

\* CompleteDetectionNotification, the last thing a call does.
Conclude(c) ==
  /\ call[c].pc = "concluding"
  /\ LET e  == call[c].e
         ep == Complete(episode[e], call[c].token, call[c].outcome)
     IN
     /\ episode' = [episode EXCEPT ![e] = ep]
     /\ incident' = IF ep = episode[e] THEN incident
                    ELSE [incident EXCEPT ![e] = Applied(@, ep)]
     /\ accepted' = IF ep # episode[e] /\ Terminal(call[c].outcome)
                    THEN accepted \cup {[e |-> e, severity |-> call[c].claimed,
                                         token |-> call[c].token]}
                    ELSE accepted
  /\ call' = [call EXCEPT ![c] = Idle]
  /\ UNCHANGED <<opened, active, tokens, pages, resolved, started,
                 restarted, faults, purges, crashed>>

\* The process running a call dies, or the completion never reaches the store.
Crash(c) ==
  /\ call[c].pc # "idle" /\ faults < MaxFaults
  /\ faults' = faults + 1 /\ crashed' = TRUE
  /\ call' = [call EXCEPT ![c] = Idle]
  /\ UNCHANGED <<store, incident, pages, accepted, resolved, started,
                 restarted, purges>>

----------------------------------------------------------------------------
(* The operator, and retention                                             *)

\* resolve: first the record (SaveIncident keeps the detection's fields, the
\* open flag is the operator's) ...
Resolve(e) ==
  /\ incident[e].exists /\ ~incident[e].resolved
  /\ incident' = [incident EXCEPT ![e].resolved = TRUE]
  /\ resolved' = resolved \cup {e}
  /\ UNCHANGED <<store, call, pages, accepted, started, restarted,
                 faults, purges, crashed>>

\* ... then CloseDetectionEpisodeByIncident, which may never come.
CloseByIncident(e) ==
  /\ e \in resolved /\ episode[e].open
  /\ episode' = [episode EXCEPT ![e] = Closed(@)]
  /\ active' = IF active = e THEN 0 ELSE active
  /\ UNCHANGED <<opened, tokens, incident, call, hist>>

\* The incident history is trimmed (file store) or purged (Lifecycle).
Purge(e) ==
  /\ incident[e].exists /\ purges < MaxPurges
  /\ purges' = purges + 1
  /\ incident' = [incident EXCEPT ![e] = NoIncident]
  /\ resolved' = resolved \ {e}
  /\ UNCHANGED <<store, call, pages, accepted, started, restarted,
                 faults, crashed>>

----------------------------------------------------------------------------
Advance(c) ==
  \/ CoalesceRead(c) \/ CoalesceSave(c)
  \/ Inspect(c) \/ Announce(c) \/ Stamp(c) \/ StartOnCall(c) \/ Conclude(c)
  \/ \E outcome \in {"sent", "partial", "failed"} : FanOut(c, outcome)

Step(c) ==
  \/ Emit(c) \/ Advance(c) \/ Renew(c) \/ InspectFails(c) \/ Crash(c)
  \/ \E outcome \in Holds : Hold(c, outcome)

Next ==
  \/ Tick
  \/ \E c \in Calls : Step(c)
  \/ \E hint \in Hints, lag \in 0..MaxLag : Continue(hint, lag)
  \/ \E e \in Episodes : Resolve(e) \/ CloseByIncident(e) \/ Purge(e)

Spec == Init /\ [][Next]_vars

\* Fairness: a call runs to its end and its heartbeat with it, the condition
\* keeps being reported, and time passes.  Operators and faults owe nothing.
Fairness ==
  /\ WF_vars(Tick)
  /\ \A c \in Calls :
       WF_vars(Advance(c)) /\ WF_vars(Renew(c)) /\ SF_vars(Emit(c))

FairSpec == Spec /\ Fairness

----------------------------------------------------------------------------
Outcomes == {"none", "sent", "partial"} \cup HoldKinds

EpisodeType ==
  [open : BOOLEAN, count : 0..MaxCount, age : 0..(QuietPeriod + MaxLag),
   observed : Ranks, handled : Ranks, notified : Ranks,
   kind : {"none", "initial", "escalation"}, severity : Ranks,
   token : 0..MaxTokens, lease : 0..Lease, done : 0..MaxTokens,
   outcome : Outcomes]

IncidentType ==
  [exists : BOOLEAN, resolved : BOOLEAN, count : 0..MaxCount, observed : Ranks,
   status : {"", "pending", "sent", "partial"} \cup HoldKinds,
   oncall : BOOLEAN]

CallType ==
  [pc : {"idle", "coalesced", "merging", "claimed", "inspected", "announced",
         "sent", "stamped", "concluding"},
   e : 0..MaxEpisodes, token : 0..MaxTokens,
   kind : {"none", "initial", "escalation"}, severity : Ranks, claimed : Ranks,
   count : 0..MaxCount, observed : Ranks, skip : BOOLEAN,
   outcome : Outcomes,
   rec : IncidentType]

ClaimType == [e : Episodes, severity : Ranks, token : 1..MaxTokens]

TypeOK ==
  /\ episode \in [Episodes -> EpisodeType]
  /\ opened \in 0..MaxEpisodes /\ active \in 0..opened
  /\ tokens \in 0..MaxTokens
  /\ active # 0 => episode[active].open
  /\ \A e \in Episodes : episode[e].open => e = active
  /\ incident \in [Episodes -> IncidentType]
  /\ call \in [Calls -> CallType]
  /\ \A c \in Calls : call[c].pc # "idle" => call[c].e \in 1..opened
  /\ pages \subseteq ClaimType /\ accepted \subseteq ClaimType
  /\ resolved \subseteq Episodes
  /\ started \subseteq Episodes /\ restarted \subseteq {"initial", "escalation"}
  /\ faults \in 0..MaxFaults /\ purges \in 0..MaxPurges /\ crashed \in BOOLEAN

\* Once the store accepted that a notification was dealt with, the same episode
\* is paged again only for something strictly worse, however claims lapse, are
\* taken over and are completed late.
PagedAgainOnlyForWorse ==
  \A a \in accepted, p \in pages :
    a.e = p.e /\ a.token < p.token => a.severity < p.severity

\* A severity counts as handled only if a claim taken at that severity was
\* concluded: neither a rise during the fan-out nor a claim that was lost is
\* swallowed.
HandledWasClaimed ==
  \A e \in Episodes :
    episode[e].handled # 0 =>
      \E a \in accepted : a.e = e /\ a.severity = episode[e].handled

\* The level handled never falls, whatever claims are completed late.
HandledOnlyRises ==
  [][\A e \in Episodes : episode'[e].handled >= episode[e].handled]_vars

\* When no call is under way, and none has died nor a record been purged, the
\* incident shows as many occurrences, and as high a severity, as its episode:
\* progress written out of order is never lost.
IncidentCatchesUp ==
  (~crashed /\ purges = 0 /\ \A c \in Calls : call[c].pc = "idle") =>
    \A e \in Episodes :
      incident[e].exists => /\ incident[e].count = episode[e].count
                            /\ incident[e].observed = episode[e].observed

\* No writer of the detection path takes back an operator's resolution.
ResolutionSticks ==
  \A e \in resolved : incident[e].resolved

\* An escalation never starts on-call a second time for its incident.
EscalationDoesNotRestartOnCall == "escalation" \notin restarted

\* While a condition persists, every severity it reaches is dealt with in the
\* end, or its episode is over: closed, or its incident resolved.
EveryRiseHandled ==
  \A e \in Episodes, s \in Severities \cup {Normalize(h) : h \in Hints} :
    episode[e].open /\ episode[e].observed >= s
      ~> (episode[e].handled >= s \/ ~episode[e].open \/ e \in resolved)
=============================================================================
