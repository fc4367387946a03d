----------------------- MODULE DetectionEpisodesProofs -----------------------
(***************************************************************************)
(* Theorems about DetectionEpisodes, for any number of calls and episodes, *)
(* any severities, leases, quiet periods and faults.  Section 1 proves the *)
(* type invariant; section 2 the three promises about what is paged and    *)
(* what counts as handled, from one inductive invariant.                   *)
(***************************************************************************)
EXTENDS DetectionEpisodes, TLAPS

----------------------------------------------------------------------------
(* What the helpers return                                                 *)

\* Every helper of the episode store maps episodes to episodes.
LEMMA CountedType ==
  ASSUME NEW ep \in EpisodeType, NEW severity \in Ranks, NEW lag \in 0..MaxLag
  PROVE  /\ Counted(ep, severity, lag) \in EpisodeType
         /\ Counted(ep, severity, lag).open = ep.open
         /\ Counted(ep, severity, lag).handled = ep.handled
         /\ Counted(ep, severity, lag).token = ep.token
         /\ Counted(ep, severity, lag).severity = ep.severity
         /\ Counted(ep, severity, lag).observed >= ep.observed
         /\ Counted(ep, severity, lag).observed >= severity
<1> DEFINE count == Lesser(ep.count + 1, MaxCount)
           observed == Greater(ep.observed, severity)
<1>1. count \in 0..MaxCount
  BY EpisodeAssumption DEF EpisodeType, Lesser
<1>2. /\ observed \in Ranks
      /\ observed >= ep.observed /\ observed >= severity
  BY DEF EpisodeType, Greater, Ranks
<1>3. lag \in 0..(QuietPeriod + MaxLag)
  BY EpisodeAssumption
<1>4. Counted(ep, severity, lag)
        = [ep EXCEPT !.count = count, !.age = lag, !.observed = observed]
  BY DEF Counted, EpisodeType
<1> HIDE DEF count, observed
<1> QED BY <1>1, <1>2, <1>3, <1>4 DEF EpisodeType

LEMMA ClaimedType ==
  ASSUME NEW ep \in EpisodeType, NEW token \in 0..MaxTokens,
         NEW kind \in {"none", "initial", "escalation"}
  PROVE  /\ Claimed(ep, kind, token) \in EpisodeType
         /\ Claimed(ep, kind, token).open = ep.open
         /\ Claimed(ep, kind, token).handled = ep.handled
         /\ Claimed(ep, kind, token).observed = ep.observed
         /\ Claimed(ep, kind, token).token = token
         /\ Claimed(ep, kind, token).kind = kind
         /\ Claimed(ep, kind, token).severity = ep.observed
<1>1. Lease \in 0..Lease
  BY EpisodeAssumption
<1> QED BY <1>1 DEF Claimed, EpisodeType

LEMMA NewEpisodeType ==
  ASSUME NEW severity \in Ranks
  PROVE  /\ NewEpisode(severity) \in EpisodeType
         /\ NewEpisode(severity).open
         /\ NewEpisode(severity).handled = 0
         /\ NewEpisode(severity).observed = severity
<1>1. /\ 0 \in 0..MaxCount /\ 1 \in 0..MaxCount /\ 0 \in 0..(QuietPeriod + MaxLag)
      /\ 0 \in Ranks /\ 0 \in 0..MaxTokens /\ 0 \in 0..Lease
  BY EpisodeAssumption DEF Ranks
<1>2. "none" \in Outcomes
  BY DEF Outcomes
<1> QED BY <1>1, <1>2 DEF NewEpisode, Blank, EpisodeType

LEMMA ClosedType ==
  ASSUME NEW ep \in EpisodeType
  PROVE  /\ Closed(ep) \in EpisodeType /\ ~Closed(ep).open
         /\ Closed(ep).handled = ep.handled /\ Closed(ep).token = ep.token
         /\ Closed(ep).observed = ep.observed
         /\ Closed(ep).severity = ep.severity
BY DEF Closed, EpisodeType

LEMMA BlankType == Blank \in EpisodeType
BY EpisodeAssumption DEF Blank, EpisodeType, Ranks, Outcomes

LEMMA OwedType ==
  ASSUME NEW ep \in EpisodeType
  PROVE  Owed(ep) \in {"none", "initial", "escalation"}
BY DEF Owed, EpisodeType

LEMMA CompleteType ==
  ASSUME NEW ep \in EpisodeType, NEW token \in 0..MaxTokens,
         NEW outcome \in Outcomes
  PROVE  /\ Complete(ep, token, outcome) \in EpisodeType
         /\ Complete(ep, token, outcome).open = ep.open
<1>1. 0 \in Ranks /\ 0 \in 0..MaxTokens /\ 0 \in 0..Lease
  BY EpisodeAssumption DEF Ranks
<1> DEFINE handled == IF Terminal(outcome) THEN ep.severity ELSE ep.handled
           notified == IF Delivered(outcome) THEN ep.severity ELSE ep.notified
<1>2. handled \in Ranks /\ notified \in Ranks
  BY DEF EpisodeType
<1>3. CASE token # ep.token
  BY <1>3 DEF Complete
<1>4. CASE token = ep.token
  <2>1. Complete(ep, token, outcome)
          = [ep EXCEPT !.handled = handled, !.notified = notified,
                       !.done = token, !.outcome = outcome, !.kind = "none",
                       !.severity = 0, !.token = 0, !.lease = 0]
    BY <1>4 DEF Complete, EpisodeType
  <2> DEFINE settled == [ep EXCEPT !.handled = handled, !.notified = notified,
                                   !.done = token, !.outcome = outcome]
  <2>2. /\ Complete(ep, token, outcome)
             = [settled EXCEPT !.kind = "none", !.severity = 0, !.token = 0,
                               !.lease = 0]
        /\ settled.open = ep.open
    BY <2>1 DEF EpisodeType
  <2> HIDE DEF handled, notified
  <2>3. settled \in EpisodeType
    BY <1>2 DEF EpisodeType
  <2> HIDE DEF settled
  <2>4. Complete(ep, token, outcome) \in EpisodeType
    BY <1>1, <2>2, <2>3 DEF EpisodeType
  <2>5. Complete(ep, token, outcome).open = settled.open
    BY <2>2, <2>3 DEF EpisodeType
  <2> QED BY <2>2, <2>4, <2>5
<1> QED BY <1>3, <1>4

\* ... and every writer of incidents maps incidents to incidents.
LEMMA NoIncidentType == NoIncident \in IncidentType
BY EpisodeAssumption DEF NoIncident, IncidentType, Ranks

LEMMA AppliedType ==
  ASSUME NEW inc \in IncidentType, NEW ep \in EpisodeType
  PROVE  Applied(inc, ep) \in IncidentType
BY DEF Applied, IncidentType, EpisodeType

LEMMA SavedType ==
  ASSUME NEW inc \in IncidentType, NEW rec \in IncidentType
  PROVE  Saved(inc, rec) \in IncidentType
BY DEF Saved, IncidentType, Greater, Ranks

LEMMA NormalizeType ==
  ASSUME NEW hint \in Hints
  PROVE  Normalize(hint) \in Ranks /\ hint \in Ranks
BY EpisodeAssumption DEF Normalize, Ranks

LEMMA SeverityType == ASSUME NEW s \in Severities PROVE s \in Ranks /\ s >= 1
BY EpisodeAssumption DEF Ranks

LEMMA IdleType == Idle \in CallType
BY EpisodeAssumption, NoIncidentType
   DEF Idle, CallType, Ranks, Outcomes

LEMMA DecidedType ==
  ASSUME NEW e \in Episodes, NEW ep \in EpisodeType, NEW severity \in Ranks
  PROVE  /\ Decided(e, ep, severity) \in CallType
         /\ [Decided(e, ep, severity) EXCEPT !.pc = "coalesced",
                                             !.token = 0] \in CallType
<1>1. /\ e \in 0..MaxEpisodes /\ 0 \in 0..MaxTokens
      /\ "claimed" # "coalesced"
  BY EpisodeAssumption DEF Episodes
<1>2. /\ ep.token \in 0..MaxTokens /\ ep.severity \in Ranks
      /\ ep.kind \in {"none", "initial", "escalation"}
      /\ ep.count \in 0..MaxCount /\ ep.observed \in Ranks
  BY DEF EpisodeType
<1> QED BY <1>1, <1>2, IdleType DEF Decided, CallType

LEMMA DecidedFields ==
  ASSUME NEW e, NEW ep, NEW severity
  PROVE  /\ Decided(e, ep, severity).pc = "claimed"
         /\ Decided(e, ep, severity).e = e
         /\ Decided(e, ep, severity).token = ep.token
         /\ Decided(e, ep, severity).kind = ep.kind
         /\ Decided(e, ep, severity).claimed = ep.severity
BY DEF Decided, Idle

----------------------------------------------------------------------------
(* 1. Types                                                                *)

Claiming ==
  {"claimed", "inspected", "announced", "sent", "stamped", "concluding"}

\* A call past its claim has a token and a kind, and one past its fan-out an
\* outcome that a fan-out can have: what TypeOK needs of Stamp and the history.
CallShape(cl) ==
  /\ cl.pc \in Claiming => cl.token # 0 /\ cl.kind # "none"
  /\ cl.pc = "sent" => cl.outcome \in {"sent", "partial", "failed"}

TypeInv == TypeOK /\ \A c \in Calls : CallShape(call[c])

LEMMA TypeInit == Init => TypeInv
<1> SUFFICES ASSUME Init PROVE TypeInv
  OBVIOUS
<1>1. episode \in [Episodes -> EpisodeType]
  BY BlankType DEF Init
<1>2. incident \in [Episodes -> IncidentType]
  BY NoIncidentType DEF Init
<1>3. call \in [Calls -> CallType]
  BY IdleType DEF Init
<1>4. /\ opened \in 0..MaxEpisodes /\ active \in 0..opened
      /\ tokens \in 0..MaxTokens
      /\ faults \in 0..MaxFaults /\ purges \in 0..MaxPurges
  BY EpisodeAssumption DEF Init
<1>6. \A e \in Episodes : ~episode[e].open
  BY DEF Init, Blank
<1>7. \A c \in Calls : call[c].pc = "idle" /\ CallShape(call[c])
  BY DEF Init, Idle, CallShape, Claiming
<1>8. /\ active = 0 /\ pages = {} /\ accepted = {} /\ resolved = {}
      /\ started = {} /\ restarted = {} /\ crashed = FALSE
  BY DEF Init
<1> QED
  BY <1>1, <1>2, <1>3, <1>4, <1>6, <1>7, <1>8 DEF TypeInv, TypeOK

\* What a call other than an Emit leaves typed: its own record, when the new
\* one is, and the incident it writes.
LEMMA CallTypes ==
  ASSUME TypeInv, NEW c \in Calls, NEW cl \in CallType, CallShape(cl),
         cl.pc # "idle" => cl.e \in 1..opened,
         call' = [call EXCEPT ![c] = cl], opened' = opened
  PROVE  /\ call' \in [Calls -> CallType]
         /\ \A d \in Calls : /\ call'[d].pc # "idle" => call'[d].e \in 1..opened'
                            /\ CallShape(call'[d])
BY DEF TypeInv, TypeOK

\* The first step of a call: it takes what the episode store decided.
LEMMA TypeEmit ==
  ASSUME TypeInv, NEW c \in Calls, Emit(c)
  PROVE  TypeInv'
<1> USE DEF TypeInv, TypeOK
<1> PICK severity \in Severities : \/ EmitCoalesced(c, severity)
                                  \/ EmitClaims(c, severity)
                                  \/ EmitOpens(c, severity)
  BY DEF Emit
<1>1. severity \in Ranks /\ 0 \in 0..MaxLag
  BY SeverityType, EpisodeAssumption
<1>2. CASE EmitCoalesced(c, severity)
  <2> USE <1>2 DEF EmitCoalesced, Continues
  <2> DEFINE ep == Counted(episode[active], severity, 0)
             cl == [Decided(active, ep, severity) EXCEPT
                      !.pc = "coalesced", !.token = 0]
  <2>1. active \in Episodes /\ active \in 1..opened
    BY EpisodeAssumption DEF Episodes
  <2>2. ep \in EpisodeType /\ ep.open = episode[active].open
    BY <2>1, <1>1, CountedType
  <2>3. cl \in CallType /\ cl.e = active /\ CallShape(cl)
    BY <2>1, <2>2, <1>1, DecidedType, EpisodeAssumption
       DEF Decided, Idle, CallShape, Claiming
  <2>4. episode' = [episode EXCEPT ![active] = ep]
    OBVIOUS
  <2>5. call' = [call EXCEPT ![c] = cl]
    OBVIOUS
  <2> HIDE DEF ep, cl
  <2>7. /\ episode' \in [Episodes -> EpisodeType]
        /\ active # 0 => episode'[active].open
        /\ \A e \in Episodes : episode'[e].open => e = active
    BY <2>1, <2>2, <2>4
  <2>8. /\ call' \in [Calls -> CallType]
        /\ \A d \in Calls : /\ call'[d].pc # "idle" => call'[d].e \in 1..opened
                           /\ CallShape(call'[d])
    <3>1. opened' = opened
      OBVIOUS
    <3> HIDE <1>2 DEF EmitCoalesced, TypeInv, TypeOK, Continues
    <3> QED BY <2>1, <2>3, <2>5, <3>1, CallTypes
  <2> QED BY <2>7, <2>8
<1>3. CASE EmitClaims(c, severity)
  <2> USE <1>3 DEF EmitClaims, Continues
  <2> DEFINE counted == Counted(episode[active], severity, 0)
             ep == Claimed(counted, Owed(counted), tokens + 1)
             cl == Decided(active, ep, severity)
  <2>1. active \in Episodes /\ active \in 1..opened
    BY EpisodeAssumption DEF Episodes
  <2>2. counted \in EpisodeType /\ counted.open = episode[active].open
    BY <2>1, <1>1, CountedType
  <2>3. tokens + 1 \in 0..MaxTokens /\ tokens + 1 # 0
    BY EpisodeAssumption
  <2>4. ep \in EpisodeType
    BY <2>2, <2>3, ClaimedType, OwedType
  <2>5. /\ ep.open = episode[active].open /\ ep.token = tokens + 1
        /\ ep.kind = Owed(counted)
    <3> HIDE <1>3 DEF EmitClaims, TypeInv, TypeOK, Continues, counted
    <3> QED BY <2>2, <2>3, ClaimedType, OwedType
  <2>6. cl \in CallType /\ cl.e = active /\ CallShape(cl)
    <3>1. Owed(counted) # "none"
      OBVIOUS
    <3> HIDE <1>3 DEF EmitClaims, TypeInv, TypeOK, Continues, ep, counted
    <3>2. cl \in CallType
      BY <2>1, <2>4, <1>1, DecidedType
    <3>3. cl.pc = "claimed" /\ cl.e = active /\ cl.token = ep.token
          /\ cl.kind = ep.kind
      BY DecidedFields
    <3> QED BY <3>1, <3>2, <3>3, <2>3, <2>5 DEF CallShape
  <2>7. episode' = [episode EXCEPT ![active] = ep]
    OBVIOUS
  <2>8. call' = [call EXCEPT ![c] = cl]
    OBVIOUS
  <2>9. tokens' \in 0..MaxTokens
    BY <2>1, <2>3, <1>1 DEF Greater
  <2> HIDE DEF counted, ep, cl
  <2> QED BY <2>1, <2>4, <2>5, <2>6, <2>7, <2>8, <2>9
<1>4. CASE EmitOpens(c, severity)
  <2> USE <1>4 DEF EmitOpens
  <2> DEFINE e == opened + 1
             ep == Claimed(NewEpisode(severity), "initial", tokens + 1)
             cl == Decided(e, ep, severity)
  <2>1. e \in Episodes /\ e \in 1..opened' /\ opened' \in 0..MaxEpisodes
    BY EpisodeAssumption DEF Episodes
  <2>2. tokens + 1 \in 0..MaxTokens /\ tokens + 1 # 0
    BY EpisodeAssumption
  <2>3. ep \in EpisodeType
    BY <2>2, <1>1, ClaimedType, NewEpisodeType
  <2>4. ep.open /\ ep.token = tokens + 1 /\ ep.kind = "initial"
    <3> HIDE <1>4 DEF EmitOpens, TypeInv, TypeOK
    <3> QED BY <1>1, <2>2, NewEpisodeType, ClaimedType
  <2>5. cl \in CallType /\ cl.e = e /\ CallShape(cl)
    <3> HIDE <1>4 DEF EmitOpens, TypeInv, TypeOK, ep, e
    <3>1. cl \in CallType
      BY <2>1, <2>3, <1>1, DecidedType
    <3>2. cl.pc = "claimed" /\ cl.e = e /\ cl.token = ep.token
          /\ cl.kind = ep.kind
      BY DecidedFields
    <3> QED BY <3>1, <3>2, <2>2, <2>4 DEF CallShape
  <2>6. \A n \in Episodes : Closed(episode[n]) \in EpisodeType
                            /\ ~Closed(episode[n]).open
    BY ClosedType
  <2>7. episode' = [n \in Episodes |-> IF n = e THEN ep
                                       ELSE IF n = active THEN Closed(episode[n])
                                       ELSE episode[n]]
    OBVIOUS
  <2>8. call' = [call EXCEPT ![c] = cl] /\ active' = e
    OBVIOUS
  <2>9. tokens' \in 0..MaxTokens
    BY <2>1, <2>2, <1>1
  <2>10. \A n \in Episodes : episode'[n].open => n = e
    BY <2>6, <2>7
  <2>11. \A d \in Calls : call[d].pc # "idle" => call[d].e \in 1..opened'
    BY <2>1 DEF CallType
  <2> HIDE DEF e, ep, cl
  <2>12. episode' \in [Episodes -> EpisodeType]
    BY <2>3, <2>6, <2>7
  <2> QED
    BY <2>1, <2>4, <2>5, <2>7, <2>8, <2>9, <2>10, <2>11, <2>12
<1> QED BY <1>2, <1>3, <1>4

LEMMA IncidentTypes ==
  ASSUME TypeInv, NEW e, NEW rec \in IncidentType,
         incident' = [incident EXCEPT ![e] = rec]
  PROVE  incident' \in [Episodes -> IncidentType]
BY DEF TypeInv, TypeOK

\* The claim of a call that pages is a claim of an episode that was opened.
LEMMA CallFacts ==
  ASSUME TypeInv, NEW c \in Calls, call[c].pc # "idle"
  PROVE  /\ call[c] \in CallType /\ CallShape(call[c])
         /\ call[c].e \in Episodes /\ call[c].e \in 1..opened
         /\ episode[call[c].e] \in EpisodeType
         /\ incident[call[c].e] \in IncidentType
         /\ call[c].pc \in Claiming =>
              [e |-> call[c].e, severity |-> call[c].claimed,
               token |-> call[c].token] \in ClaimType
<1>1. call[c] \in CallType /\ CallShape(call[c])
  BY DEF TypeInv, TypeOK
<1>2. call[c].e \in Episodes /\ call[c].e \in 1..opened
  BY EpisodeAssumption DEF TypeInv, TypeOK, Episodes
<1>3. /\ episode[call[c].e] \in EpisodeType
      /\ incident[call[c].e] \in IncidentType
  BY <1>2 DEF TypeInv, TypeOK
<1>4. call[c].claimed \in Ranks /\ call[c].token \in 0..MaxTokens
  BY <1>1 DEF CallType
<1>5. call[c].pc \in Claiming => call[c].token \in 1..MaxTokens
  BY <1>1, <1>4, EpisodeAssumption DEF CallShape
<1> QED BY <1>1, <1>2, <1>3, <1>4, <1>5 DEF ClaimType

LEMMA DraftType ==
  ASSUME TypeInv, NEW c \in Calls, call[c].pc # "idle",
         NEW status \in {"", "pending", "sent", "partial"} \cup HoldKinds
  PROVE  Draft(c, status) \in IncidentType
<1>1. /\ incident[call[c].e] \in IncidentType
      /\ call[c].count \in 0..MaxCount /\ call[c].observed \in Ranks
  BY CallFacts DEF CallType
<1> QED BY <1>1 DEF Draft, IncidentType

\* The steps of a call between its claim and its end.
LEMMA TypeAdvance ==
  ASSUME TypeInv, NEW c \in Calls, Advance(c)
  PROVE  TypeInv'
<1>1. call[c].pc # "idle" /\ call[c] \in CallType
  BY DEF Advance, CoalesceRead, CoalesceSave, Inspect, Announce, Stamp,
         StartOnCall, Conclude, FanOut, TypeInv, TypeOK
<1>2. /\ CallShape(call[c])
      /\ call[c].e \in Episodes /\ call[c].e \in 1..opened
      /\ episode[call[c].e] \in EpisodeType
      /\ incident[call[c].e] \in IncidentType
      /\ call[c].pc \in Claiming =>
           [e |-> call[c].e, severity |-> call[c].claimed,
            token |-> call[c].token] \in ClaimType
  BY <1>1, CallFacts
<1>3. Idle \in CallType /\ Idle.pc = "idle" /\ CallShape(Idle)
  BY IdleType DEF Idle, CallShape, Claiming
<1>4. CASE CoalesceRead(c)
  <2> DEFINE inc == incident[call[c].e]
             rec == [inc EXCEPT !.count = call[c].count,
                                !.observed = call[c].observed, !.status = ""]
             cl == IF inc.exists
                   THEN [call[c] EXCEPT !.pc = "merging", !.rec = rec] ELSE Idle
  <2>1. rec \in IncidentType
    BY <1>1, <1>2 DEF IncidentType, CallType
  <2>2. /\ cl \in CallType /\ CallShape(cl)
        /\ cl.pc # "idle" => cl.e \in 1..opened
    <3> HIDE DEF rec
    <3> QED BY <2>1, <1>1, <1>2, <1>3 DEF CallType, CallShape, Claiming
  <2>3. call' = [call EXCEPT ![c] = cl]
    BY <1>4, <1>1 DEF CoalesceRead, TypeInv, TypeOK
  <2>4. UNCHANGED <<store, incident, hist>>
    BY <1>4 DEF CoalesceRead
  <2> HIDE DEF cl
  <2> QED BY <2>2, <2>3, <2>4, CallTypes DEF store, hist, TypeInv, TypeOK
<1>5. CASE CoalesceSave(c)
  <2>1. /\ call' = [call EXCEPT ![c] = Idle]
        /\ incident' = [incident EXCEPT ![call[c].e] =
                          Saved(incident[call[c].e], call[c].rec)]
        /\ UNCHANGED <<store, hist>>
    BY <1>5, <1>2 DEF CoalesceSave, TypeInv, TypeOK
  <2>2. Saved(incident[call[c].e], call[c].rec) \in IncidentType
    BY <1>1, <1>2, SavedType DEF CallType
  <2>3. incident' \in [Episodes -> IncidentType]
    BY <2>1, <2>2, IncidentTypes
  <2> QED BY <2>1, <2>3, <1>3, CallTypes DEF store, hist, TypeInv, TypeOK
<1>6. CASE Inspect(c)
  <2> DEFINE cl == [call[c] EXCEPT !.pc = "inspected", !.skip = Skips(c)]
  <2>1. Skips(c) \in BOOLEAN
    BY <1>2 DEF Skips, IncidentType
  <2>2. cl \in CallType /\ CallShape(cl) /\ cl.e \in 1..opened
    BY <2>1, <1>1, <1>2, <1>6 DEF Inspect, CallType, CallShape, Claiming
  <2>3. call' = [call EXCEPT ![c] = cl] /\ UNCHANGED <<store, incident, hist>>
    BY <1>6 DEF Inspect, TypeInv, TypeOK
  <2> HIDE DEF cl
  <2> QED BY <2>2, <2>3, CallTypes DEF store, hist, TypeInv, TypeOK
<1>7. CASE Announce(c)
  <2> DEFINE draft == Draft(c, "pending")
             oncall == Pages(call[c].severity)
             rec == IF call[c].skip THEN draft
                    ELSE [draft EXCEPT !.oncall = oncall]
             cl == [call[c] EXCEPT !.pc = "announced", !.rec = rec]
  <2>1. draft \in IncidentType
    BY <1>1, DraftType
  <2>2. rec \in IncidentType
    <3>1. oncall \in BOOLEAN
      BY DEF Pages
    <3> HIDE DEF draft, oncall
    <3> QED BY <2>1, <3>1 DEF IncidentType
  <2>3. cl \in CallType /\ CallShape(cl) /\ cl.e \in 1..opened
    <3> HIDE DEF rec
    <3> QED BY <2>2, <1>1, <1>2, <1>7
            DEF Announce, CallType, CallShape, Claiming
  <2>4. /\ call' = [call EXCEPT ![c] = cl] /\ UNCHANGED <<store, hist>>
        /\ incident' = [incident EXCEPT ![call[c].e] =
                          Saved(incident[call[c].e], rec)]
    BY <1>7, <1>2 DEF Announce, TypeInv, TypeOK
  <2>5. Saved(incident[call[c].e], rec) \in IncidentType
    BY <2>2, <1>2, SavedType
  <2> HIDE DEF cl, rec
  <2>6. incident' \in [Episodes -> IncidentType]
    BY <2>4, <2>5, IncidentTypes
  <2> QED BY <2>3, <2>4, <2>6, CallTypes DEF store, hist, TypeInv, TypeOK
<1>8. CASE \E outcome \in {"sent", "partial", "failed"} : FanOut(c, outcome)
  <2> PICK outcome \in {"sent", "partial", "failed"} : FanOut(c, outcome)
    BY <1>8
  <2> DEFINE cl == [call[c] EXCEPT !.pc = "sent", !.outcome = outcome]
  <2>1. cl \in CallType /\ CallShape(cl) /\ cl.e \in 1..opened
    BY <1>1, <1>2 DEF FanOut, CallType, CallShape, Claiming, Outcomes, HoldKinds
  <2>2. /\ call' = [call EXCEPT ![c] = cl] /\ call[c].pc \in Claiming
        /\ UNCHANGED <<store, incident, accepted, resolved, started,
                       restarted, purges, crashed>>
    BY DEF FanOut, TypeInv, TypeOK, Claiming
  <2>3. pages' \subseteq ClaimType
    BY <2>2, <1>2 DEF FanOut, TypeInv, TypeOK
  <2>4. faults' \in 0..MaxFaults
    BY EpisodeAssumption DEF FanOut, TypeInv, TypeOK
  <2> HIDE DEF cl
  <2> QED BY <2>1, <2>2, <2>3, <2>4, CallTypes DEF store, TypeInv, TypeOK
<1>9. CASE Stamp(c)
  <2> DEFINE latest == IF incident[call[c].e].exists THEN incident[call[c].e]
                       ELSE call[c].rec
             rec == [latest EXCEPT !.status = call[c].outcome]
             cl == [call[c] EXCEPT !.pc = "stamped", !.rec = rec]
  <2>1. /\ latest \in IncidentType
        /\ call[c].outcome \in {"sent", "partial", "failed"}
    BY <1>1, <1>2, <1>9 DEF Stamp, CallShape, CallType
  <2>2. rec \in IncidentType
    <3> HIDE DEF latest
    <3> QED BY <2>1 DEF IncidentType, HoldKinds
  <2>3. cl \in CallType /\ CallShape(cl) /\ cl.e \in 1..opened
    <3> HIDE DEF rec
    <3> QED BY <2>2, <1>1, <1>2, <1>9 DEF Stamp, CallType, CallShape, Claiming
  <2>4. /\ call' = [call EXCEPT ![c] = cl] /\ UNCHANGED <<store, hist>>
        /\ incident' = [incident EXCEPT ![call[c].e] =
                          Saved(incident[call[c].e], rec)]
    BY <1>9, <1>2 DEF Stamp, TypeInv, TypeOK
  <2>5. Saved(incident[call[c].e], rec) \in IncidentType
    BY <2>2, <1>2, SavedType
  <2> HIDE DEF cl, rec
  <2>6. incident' \in [Episodes -> IncidentType]
    BY <2>4, <2>5, IncidentTypes
  <2> QED BY <2>3, <2>4, <2>6, CallTypes DEF store, hist, TypeInv, TypeOK
<1>10. CASE StartOnCall(c)
  <2> DEFINE cl == [call[c] EXCEPT !.pc = "concluding"]
             rec == [call[c].rec EXCEPT !.oncall = FALSE]
  <2>1. cl \in CallType /\ CallShape(cl) /\ cl.e \in 1..opened
    BY <1>1, <1>2, <1>10 DEF StartOnCall, CallType, CallShape, Claiming
  <2>2. rec \in IncidentType
    BY <1>1 DEF CallType, IncidentType
  <2>3. Saved(incident[call[c].e], rec) \in IncidentType
    BY <2>2, <1>2, SavedType
  <2>4. /\ call' = [call EXCEPT ![c] = cl]
        /\ UNCHANGED <<store, pages, accepted, resolved, purges,
                       crashed>>
    BY <1>10 DEF StartOnCall, TypeInv, TypeOK
  <2>5. /\ started' \subseteq Episodes
        /\ restarted' \subseteq {"initial", "escalation"}
        /\ faults' \in 0..MaxFaults
        /\ \/ incident' = incident
           \/ incident' = [incident EXCEPT ![call[c].e] =
                             Saved(incident[call[c].e], rec)]
    <3>1. call[c].kind \in {"initial", "escalation"}
      BY <1>1, <1>2, <1>10 DEF StartOnCall, CallType, CallShape, Claiming
    <3>2. /\ started' \subseteq Episodes
          /\ restarted' \subseteq {"initial", "escalation"}
      BY <3>1, <1>2, <1>10 DEF StartOnCall, TypeInv, TypeOK
    <3>3. faults' \in 0..MaxFaults
      BY <1>10, EpisodeAssumption DEF StartOnCall, TypeInv, TypeOK
    <3>4. \/ incident' = incident
          \/ incident' = [incident EXCEPT ![call[c].e] =
                            Saved(incident[call[c].e], rec)]
      BY <1>10, <1>2 DEF StartOnCall, TypeInv, TypeOK
    <3> QED BY <3>2, <3>3, <3>4
  <2> HIDE DEF cl, rec
  <2>6. incident' \in [Episodes -> IncidentType]
    BY <2>3, <2>5, IncidentTypes DEF TypeInv, TypeOK
  <2> QED BY <2>1, <2>4, <2>5, <2>6, CallTypes DEF store, TypeInv, TypeOK
<1>11. CASE Conclude(c)
  <2> DEFINE e == call[c].e
             ep == Complete(episode[e], call[c].token, call[c].outcome)
  <2>1. ep \in EpisodeType /\ ep.open = episode[e].open
    BY <1>1, <1>2, CompleteType DEF CallType
  <2>2. Applied(incident[e], ep) \in IncidentType
    BY <2>1, <1>2, AppliedType
  <2>3. /\ call' = [call EXCEPT ![c] = Idle]
        /\ episode' = [episode EXCEPT ![e] = ep]
        /\ UNCHANGED <<opened, active, tokens, pages, resolved,
                       started, restarted, faults, purges, crashed>>
    BY <1>11 DEF Conclude
  <2>4. \/ incident' = incident
        \/ incident' = [incident EXCEPT ![e] = Applied(incident[e], ep)]
    BY <1>11, <1>2 DEF Conclude, TypeInv, TypeOK
  <2>5. accepted' \subseteq ClaimType
    BY <1>11, <1>2 DEF Conclude, Claiming, TypeInv, TypeOK
  <2> HIDE DEF ep
  <2>6. incident' \in [Episodes -> IncidentType]
    BY <2>2, <2>4, IncidentTypes DEF TypeInv, TypeOK
  <2>7. /\ episode' \in [Episodes -> EpisodeType]
        /\ \A n \in Episodes : episode'[n].open = episode[n].open
    BY <2>1, <2>3, <1>2 DEF TypeInv, TypeOK
  <2>8. active # 0 => active \in Episodes
    BY EpisodeAssumption DEF TypeInv, TypeOK, Episodes
  <2> QED
    BY <2>3, <2>5, <2>6, <2>7, <2>8, <1>3, CallTypes DEF TypeInv, TypeOK
<1> QED
  BY <1>4, <1>5, <1>6, <1>7, <1>8, <1>9, <1>10, <1>11 DEF Advance

\* The other things that happen to a call.
LEMMA TypeRest ==
  ASSUME TypeInv, NEW c \in Calls,
         \/ Renew(c) \/ InspectFails(c) \/ Crash(c)
         \/ \E outcome \in Holds : Hold(c, outcome)
  PROVE  TypeInv'
<1>1. CASE Renew(c)
  <2> DEFINE e == call[c].e
             ep == [episode[e] EXCEPT !.lease = Lease]
  <2>1. call[c].pc # "idle" => e \in Episodes
    BY CallFacts
  <2>2. /\ call[c].token # 0 /\ episode' = [episode EXCEPT ![e].lease = Lease]
        /\ UNCHANGED <<opened, active, tokens, incident, call, hist>>
    BY <1>1 DEF Renew, Holding
  <2>3. \A n \in Episodes : /\ episode'[n] \in EpisodeType
                            /\ episode'[n].open = episode[n].open
    <3>1. \A x \in EpisodeType : /\ [x EXCEPT !.lease = Lease] \in EpisodeType
                                /\ [x EXCEPT !.lease = Lease].open = x.open
      BY EpisodeAssumption DEF EpisodeType
    <3> QED BY <3>1, <2>2 DEF TypeInv, TypeOK
  <2>4. episode' \in [Episodes -> EpisodeType]
    BY <2>2, <2>3 DEF TypeInv, TypeOK
  <2>5. active # 0 => active \in Episodes
    BY EpisodeAssumption DEF TypeInv, TypeOK, Episodes
  <2> QED BY <2>2, <2>3, <2>4, <2>5 DEF hist, TypeInv, TypeOK
<1>2. CASE InspectFails(c)
  <2> DEFINE cl == [call[c] EXCEPT !.pc = "concluding", !.outcome = "failed"]
  <2>1. call[c].pc = "claimed"
    BY <1>2 DEF InspectFails
  <2>2. cl \in CallType /\ CallShape(cl) /\ cl.e \in 1..opened
    BY <2>1, CallFacts DEF CallType, CallShape, Claiming, Outcomes, HoldKinds
  <2>3. /\ call' = [call EXCEPT ![c] = cl]
        /\ UNCHANGED <<store, incident, pages, accepted, resolved,
                       started, restarted, purges, crashed>>
    BY <1>2 DEF InspectFails, TypeInv, TypeOK
  <2>4. faults' \in 0..MaxFaults
    BY <1>2, EpisodeAssumption DEF InspectFails, TypeInv, TypeOK
  <2> HIDE DEF cl
  <2> QED BY <2>2, <2>3, <2>4, CallTypes DEF store, TypeInv, TypeOK
<1>3. CASE Crash(c)
  <2>1. Idle \in CallType /\ Idle.pc = "idle" /\ CallShape(Idle)
    BY IdleType DEF Idle, CallShape, Claiming
  <2>2. faults' \in 0..MaxFaults /\ crashed' \in BOOLEAN
    BY <1>3, EpisodeAssumption DEF Crash, TypeInv, TypeOK
  <2> QED BY <1>3, <2>1, <2>2, CallTypes DEF Crash, store, TypeInv, TypeOK
<1>4. CASE \E outcome \in Holds : Hold(c, outcome)
  <2> PICK outcome \in Holds : Hold(c, outcome)
    BY <1>4
  <2> DEFINE cl == [call[c] EXCEPT !.pc = "concluding", !.outcome = outcome]
             rec == Saved(incident[call[c].e], Draft(c, outcome))
  <2>1. call[c].pc = "inspected" /\ outcome \in HoldKinds
    BY EpisodeAssumption DEF Hold
  <2>2. cl \in CallType /\ CallShape(cl) /\ cl.e \in 1..opened
    BY <2>1, CallFacts DEF CallType, CallShape, Claiming, Outcomes
  <2>3. rec \in IncidentType
    BY <2>1, DraftType, SavedType, CallFacts
  <2>4. /\ call' = [call EXCEPT ![c] = cl]
        /\ \/ incident' = incident
           \/ incident' = [incident EXCEPT ![call[c].e] = rec]
        /\ UNCHANGED <<store, accepted, resolved, started,
                       restarted, purges, crashed>>
    BY DEF Hold
  <2>5. pages' \subseteq ClaimType
    <3> DEFINE page == [e |-> call[c].e, severity |-> call[c].claimed,
                        token |-> call[c].token]
    <3>1. page \in ClaimType
      BY <2>1, CallFacts DEF Claiming, ClaimType
    <3>2. pages' = pages \cup {page} \/ pages' = pages
      BY DEF Hold
    <3> QED BY <3>1, <3>2 DEF TypeInv, TypeOK
  <2>6. faults' \in 0..MaxFaults
    <3>1. /\ faults \in 0..MaxFaults /\ MaxFaults \in Nat
          /\ ~Terminal(outcome) => faults < MaxFaults
          /\ faults' = IF Terminal(outcome) THEN faults ELSE faults + 1
      BY EpisodeAssumption DEF Hold, TypeInv, TypeOK
    <3> QED BY <3>1
  <2> HIDE DEF cl, rec
  <2>7. incident' \in [Episodes -> IncidentType]
    BY <2>3, <2>4, IncidentTypes DEF TypeInv, TypeOK
  <2> QED BY <2>2, <2>4, <2>5, <2>6, <2>7, CallTypes DEF store, TypeInv, TypeOK
<1> QED BY <1>1, <1>2, <1>3, <1>4

\* What happens around the calls: time, known observations, the operator.
LEMMA TypeAround ==
  ASSUME TypeInv,
         \/ Tick
         \/ \E hint \in Hints, lag \in 0..MaxLag : Continue(hint, lag)
         \/ \E e \in Episodes : Resolve(e) \/ CloseByIncident(e) \/ Purge(e)
  PROVE  TypeInv'
<1>0. active # 0 => active \in Episodes
  BY EpisodeAssumption DEF TypeInv, TypeOK, Episodes
<1>1. CASE Tick
  <2> DEFINE older(ep) ==
        [ep EXCEPT !.age = IF ep.open /\ @ < Oldest THEN @ + 1 ELSE @,
                   !.lease = IF @ > 0 THEN @ - 1 ELSE 0]
  <2>1. \A ep \in EpisodeType : /\ older(ep) \in EpisodeType
                               /\ older(ep).open = ep.open
    <3> SUFFICES ASSUME NEW ep \in EpisodeType
                 PROVE  older(ep) \in EpisodeType /\ older(ep).open = ep.open
      OBVIOUS
    <3> DEFINE age == IF ep.open /\ ep.age < Oldest THEN ep.age + 1 ELSE ep.age
               lease == IF ep.lease > 0 THEN ep.lease - 1 ELSE 0
    <3>1. age \in 0..(QuietPeriod + MaxLag)
      BY EpisodeAssumption DEF EpisodeType, Oldest
    <3>2. lease \in 0..Lease
      BY EpisodeAssumption DEF EpisodeType
    <3>3. older(ep) = [ep EXCEPT !.age = age, !.lease = lease]
      BY DEF EpisodeType
    <3> HIDE DEF age, lease, older
    <3> QED BY <3>1, <3>2, <3>3 DEF EpisodeType
  <2>2. /\ episode' = [e \in Episodes |-> older(episode[e])]
        /\ UNCHANGED <<opened, active, tokens, incident, call, hist>>
    BY <1>1 DEF Tick
  <2> HIDE DEF older
  <2>3. /\ episode' \in [Episodes -> EpisodeType]
        /\ \A n \in Episodes : episode'[n].open = episode[n].open
    BY <2>1, <2>2 DEF TypeInv, TypeOK
  <2> QED BY <2>2, <2>3, <1>0 DEF hist, TypeInv, TypeOK
<1>2. CASE \E hint \in Hints, lag \in 0..MaxLag : Continue(hint, lag)
  <2> PICK hint \in Hints, lag \in 0..MaxLag : Continue(hint, lag)
    BY <1>2
  <2> DEFINE ep == Counted(episode[active], Normalize(hint), lag)
             closed == Closed(episode[active])
  <2>1. active \in Episodes /\ episode[active] \in EpisodeType
    BY <1>0 DEF Continue, TypeInv, TypeOK
  <2>2. ep \in EpisodeType /\ ep.open = episode[active].open
    BY <2>1, NormalizeType, CountedType
  <2>3. closed \in EpisodeType /\ ~closed.open
    BY <2>1, ClosedType
  <2>4. Applied(incident[active], ep) \in IncidentType
    BY <2>1, <2>2, AppliedType DEF TypeInv, TypeOK
  <2>6. /\ \/ /\ episode' = [episode EXCEPT ![active] = closed]
              /\ active' = 0 /\ incident' = incident
           \/ /\ episode' = [episode EXCEPT ![active] = ep]
              /\ incident' = [incident EXCEPT ![active] =
                                Applied(incident[active], ep)]
              /\ active' = active
        /\ UNCHANGED <<opened, tokens, call, pages, accepted, resolved,
                       started, restarted, faults, purges, crashed>>
    BY <2>1 DEF Continue, TypeInv, TypeOK
  <2> HIDE DEF ep, closed
  <2>7. incident' \in [Episodes -> IncidentType]
    BY <2>4, <2>6, IncidentTypes DEF TypeInv, TypeOK
  <2>8. episode' \in [Episodes -> EpisodeType] /\ active' \in 0..opened
    BY <2>2, <2>3, <2>6, EpisodeAssumption DEF TypeInv, TypeOK
  <2>9. /\ active' # 0 => episode'[active'].open
        /\ \A n \in Episodes : episode'[n].open => n = active'
    BY <2>1, <2>2, <2>3, <2>6 DEF TypeInv, TypeOK
  <2> QED BY <2>6, <2>7, <2>8, <2>9 DEF TypeInv, TypeOK
<1>3. CASE \E e \in Episodes : Resolve(e) \/ CloseByIncident(e) \/ Purge(e)
  <2> PICK e \in Episodes : Resolve(e) \/ CloseByIncident(e) \/ Purge(e)
    BY <1>3
  <2>1. CASE Resolve(e)
    <3>1. [incident[e] EXCEPT !.resolved = TRUE] \in IncidentType
      BY DEF IncidentType, TypeInv, TypeOK
    <3>2. incident' \in [Episodes -> IncidentType]
      BY <2>1, <3>1, IncidentTypes DEF Resolve, TypeInv, TypeOK
    <3> QED BY <2>1, <3>2 DEF Resolve, store, TypeInv, TypeOK
  <2>2. CASE CloseByIncident(e)
    <3>1. Closed(episode[e]) \in EpisodeType /\ ~Closed(episode[e]).open
      BY ClosedType DEF TypeInv, TypeOK
    <3>2. /\ episode' = [episode EXCEPT ![e] = Closed(episode[e])]
          /\ active' = IF active = e THEN 0 ELSE active
          /\ UNCHANGED <<opened, tokens, incident, call, hist>>
      BY <2>2 DEF CloseByIncident
    <3>3. /\ episode' \in [Episodes -> EpisodeType] /\ active' \in 0..opened
          /\ active' # 0 => episode'[active'].open
          /\ \A n \in Episodes : episode'[n].open => n = active'
      BY <3>1, <3>2, <1>0, EpisodeAssumption DEF TypeInv, TypeOK
    <3> QED BY <3>2, <3>3 DEF hist, TypeInv, TypeOK
  <2>3. CASE Purge(e)
    <3>1. incident' \in [Episodes -> IncidentType]
      BY <2>3, NoIncidentType, IncidentTypes DEF Purge
    <3>2. purges' \in 0..MaxPurges
      BY <2>3, EpisodeAssumption DEF Purge, TypeInv, TypeOK
    <3> QED BY <2>3, <3>1, <3>2 DEF Purge, store, TypeInv, TypeOK
  <2> QED BY <2>1, <2>2, <2>3
<1> QED BY <1>1, <1>2, <1>3

LEMMA TypeStep == TypeInv /\ [Next]_vars => TypeInv'
<1> SUFFICES ASSUME TypeInv, [Next]_vars PROVE TypeInv'
  OBVIOUS
<1>1. CASE \E c \in Calls : Step(c)
  BY <1>1, TypeEmit, TypeAdvance, TypeRest DEF Step
<1>2. CASE UNCHANGED vars
  BY <1>2 DEF vars, store, hist, TypeInv, TypeOK
<1> QED BY <1>1, <1>2, TypeAround DEF Next

\* Every variable keeps its type; in particular at most one episode of the
\* condition is open, and it is the active one.
THEOREM Types == Spec => []TypeOK
<1>1. Spec => []TypeInv
  BY TypeInit, TypeStep, PTL DEF Spec
<1>2. TypeInv => TypeOK
  BY DEF TypeInv
<1> QED BY <1>1, <1>2, PTL

----------------------------------------------------------------------------
(* 2. What is paged, and what counts as handled                            *)

\* A pending claim is always for something worse than what was handled.
PendingIsDue(ep) ==
  ep.token # 0 => ep.handled < ep.severity /\ ep.severity <= ep.observed

\* What a call that holds a token knows: its episode has moved on to a later
\* token or still waits for this one, at the severity the call claimed; and
\* whatever was accepted before its claim was less severe.
ClaimInv(cl) ==
  cl.token # 0 =>
    /\ cl.e \in 1..opened /\ cl.token <= tokens
    /\ episode[cl.e].token # 0 => cl.token <= episode[cl.e].token
    /\ episode[cl.e].token = cl.token => episode[cl.e].severity = cl.claimed
    /\ \A a \in accepted :
         a.e = cl.e /\ a.token < cl.token => a.severity < cl.claimed

EpisodesInv ==
  \A e \in Episodes : /\ PendingIsDue(episode[e])
                      /\ e > opened => episode[e].handled = 0
                      /\ episode[e].token <= tokens

CallsInv == \A c \in Calls : ClaimInv(call[c])

PagesInv ==
  \A p \in pages : /\ p.e <= opened /\ p.token <= tokens
                   /\ episode[p.e].token # 0 => p.token <= episode[p.e].token

AcceptedInv ==
  \A a \in accepted : /\ a.e <= opened /\ a.token <= tokens
                      /\ a.severity <= episode[a.e].handled

PageInv ==
  /\ EpisodesInv /\ CallsInv /\ PagesInv /\ AcceptedInv
  /\ PagedAgainOnlyForWorse /\ HandledWasClaimed

\* An episode is at most counted, aged or closed; a call keeps its claim or ends.
Undisturbed(old, ep) ==
  /\ ep.handled = old.handled /\ ep.token = old.token
  /\ ep.severity = old.severity /\ ep.observed >= old.observed

KeepsClaim(old, cl) ==
  \/ cl.token = 0
  \/ (cl.token = old.token /\ cl.e = old.e /\ cl.claimed = old.claimed)

\* What a step may never do: handle less than before.
HandledRises ==
  \A e \in Episodes : episode'[e].handled >= episode[e].handled

\* Most steps settle nothing: no claim is taken, announced or concluded.
Quiet ==
  /\ UNCHANGED <<tokens, opened, pages, accepted>>
  /\ \A e \in Episodes : Undisturbed(episode[e], episode'[e])
  /\ \A c \in Calls : KeepsClaim(call[c], call'[c])

LEMMA EpisodeNumbers ==
  ASSUME NEW ep \in EpisodeType
  PROVE  /\ ep.handled \in Nat /\ ep.severity \in Nat /\ ep.observed \in Nat
         /\ ep.token \in Nat
BY EpisodeAssumption DEF EpisodeType, Ranks

LEMMA PageFrame ==
  ASSUME TypeInv, TypeInv', PageInv, Quiet
  PROVE  PageInv' /\ HandledRises
<1>0. /\ opened \in Nat /\ opened <= MaxEpisodes
      /\ \A e \in Episodes : episode[e] \in EpisodeType /\ episode'[e] \in EpisodeType
      /\ pages \subseteq ClaimType /\ accepted \subseteq ClaimType
      /\ Episodes = 1..MaxEpisodes
  BY EpisodeAssumption DEF TypeInv, TypeOK, Episodes
<1>1. EpisodesInv'
  <2> SUFFICES ASSUME NEW e \in Episodes
               PROVE  /\ PendingIsDue(episode'[e])
                      /\ e > opened => episode'[e].handled = 0
                      /\ episode'[e].token <= tokens
    BY DEF EpisodesInv, Quiet
  <2>1. /\ episode[e].handled \in Nat /\ episode[e].severity \in Nat
        /\ episode[e].observed \in Nat /\ episode'[e].observed \in Nat
    BY <1>0, EpisodeNumbers
  <2>2. /\ episode'[e].handled = episode[e].handled
        /\ episode'[e].token = episode[e].token
        /\ episode'[e].severity = episode[e].severity
        /\ episode'[e].observed >= episode[e].observed
    BY DEF Quiet, Undisturbed
  <2> QED BY <2>1, <2>2 DEF PageInv, EpisodesInv, PendingIsDue
<1>2. CallsInv'
  <2> SUFFICES ASSUME NEW c \in Calls, call'[c].token # 0
               PROVE  ClaimInv(call[c])'
    BY DEF CallsInv, ClaimInv
  <2>1. /\ call'[c].token = call[c].token /\ call'[c].e = call[c].e
        /\ call'[c].claimed = call[c].claimed
    BY DEF Quiet, KeepsClaim
  <2>2. ClaimInv(call[c])
    BY DEF PageInv, CallsInv
  <2>3. call[c].e \in Episodes
    BY <2>1, <2>2, <1>0, EpisodeAssumption DEF ClaimInv
  <2> QED BY <2>1, <2>2, <2>3 DEF ClaimInv, Quiet, Undisturbed
<1>3. PagesInv'
  <2>1. \A p \in pages : p.e \in Episodes
    BY <1>0 DEF ClaimType
  <2> QED BY <2>1 DEF PageInv, Quiet, Undisturbed, PagesInv
<1>4. AcceptedInv'
  <2>1. \A a \in accepted : a.e \in Episodes
    BY <1>0 DEF ClaimType
  <2> QED BY <2>1 DEF PageInv, Quiet, Undisturbed, AcceptedInv
<1>5. PagedAgainOnlyForWorse' /\ HandledWasClaimed'
  BY DEF PageInv, Quiet, Undisturbed, PagedAgainOnlyForWorse, HandledWasClaimed
<1>6. HandledRises
  BY <1>0, EpisodeNumbers DEF HandledRises, Quiet, Undisturbed
<1> QED BY <1>1, <1>2, <1>3, <1>4, <1>5, <1>6 DEF PageInv

LEMMA OneEpisode ==
  ASSUME TypeInv, NEW e \in Episodes, NEW ep, Undisturbed(episode[e], ep),
         episode' = [episode EXCEPT ![e] = ep]
  PROVE  \A n \in Episodes : Undisturbed(episode[n], episode'[n])
<1>1. \A n \in Episodes : Undisturbed(episode[n], episode[n])
  BY EpisodeNumbers DEF Undisturbed, TypeInv, TypeOK
<1> QED BY <1>1 DEF TypeInv, TypeOK

LEMMA SameEpisodes ==
  ASSUME TypeInv, UNCHANGED episode
  PROVE  \A n \in Episodes : Undisturbed(episode[n], episode'[n])
BY EpisodeNumbers DEF Undisturbed, TypeInv, TypeOK

LEMMA OneCall ==
  ASSUME TypeInv, NEW c \in Calls, NEW cl, KeepsClaim(call[c], cl),
         call' = [call EXCEPT ![c] = cl]
  PROVE  \A d \in Calls : KeepsClaim(call[d], call'[d])
BY DEF KeepsClaim, TypeInv, TypeOK

LEMMA SameCalls ==
  ASSUME UNCHANGED call
  PROVE  \A d \in Calls : KeepsClaim(call[d], call'[d])
BY DEF KeepsClaim

SameClaim == \A d \in Calls : /\ call'[d].token = call[d].token
                              /\ call'[d].e = call[d].e
                              /\ call'[d].claimed = call[d].claimed

\* The steps of a call that touch no episode and send nothing.
LEMMA QuietCall ==
  ASSUME TypeInv, NEW c \in Calls,
         \/ CoalesceRead(c) \/ CoalesceSave(c) \/ Inspect(c) \/ InspectFails(c)
         \/ Announce(c) \/ Stamp(c) \/ StartOnCall(c) \/ Crash(c)
  PROVE  Quiet
<1>1. UNCHANGED <<episode, tokens, opened, pages, accepted>>
  BY DEF CoalesceRead, CoalesceSave, Inspect, InspectFails, Announce, Stamp,
         StartOnCall, Crash, store, hist
<1>2. call[c] \in CallType
  BY DEF TypeInv, TypeOK
<1>3. \A d \in Calls : KeepsClaim(call[d], call'[d])
  <2>1. KeepsClaim(call[c], Idle)
    BY DEF KeepsClaim, Idle
  <2>2. CASE CoalesceSave(c) \/ Crash(c)
    BY <2>1, <2>2, OneCall DEF CoalesceSave, Crash
  <2>3. CASE CoalesceRead(c)
    <3> DEFINE rec == [incident[call[c].e] EXCEPT
                         !.count = call[c].count,
                         !.observed = call[c].observed, !.status = ""]
               cl == IF incident[call[c].e].exists
                     THEN [call[c] EXCEPT !.pc = "merging", !.rec = rec]
                     ELSE Idle
    <3>1. call' = [call EXCEPT ![c] = cl]
      BY <2>3 DEF CoalesceRead
    <3> HIDE DEF rec
    <3>2. KeepsClaim(call[c], cl)
      BY <1>2, <2>1 DEF KeepsClaim, CallType
    <3> QED BY <3>1, <3>2, OneCall
  <2>4. CASE Inspect(c) \/ InspectFails(c) \/ Announce(c) \/ Stamp(c) \/ StartOnCall(c)
    <3>1. ASSUME Inspect(c) PROVE SameClaim
      BY <3>1, <1>2 DEF Inspect, SameClaim, TypeInv, TypeOK, CallType
    <3>2. ASSUME InspectFails(c) PROVE SameClaim
      BY <3>2, <1>2 DEF InspectFails, SameClaim, TypeInv, TypeOK, CallType
    <3>3. ASSUME Announce(c) PROVE SameClaim
      BY <3>3, <1>2 DEF Announce, SameClaim, TypeInv, TypeOK, CallType
    <3>4. ASSUME Stamp(c) PROVE SameClaim
      BY <3>4, <1>2 DEF Stamp, SameClaim, TypeInv, TypeOK, CallType
    <3>5. ASSUME StartOnCall(c) PROVE SameClaim
      BY <3>5, <1>2 DEF StartOnCall, SameClaim, TypeInv, TypeOK, CallType
    <3>6. SameClaim
      BY <2>4, <3>1, <3>2, <3>3, <3>4, <3>5
    <3> QED BY <3>6 DEF SameClaim, KeepsClaim
  <2> QED BY <2>2, <2>3, <2>4
<1> QED BY <1>1, <1>3, SameEpisodes DEF Quiet

LEMMA QuietEpisode ==
  ASSUME TypeInv, PageInv,
         \/ Tick \/ \E c \in Calls : Renew(c)
         \/ \E hint \in Hints, lag \in 0..MaxLag : Continue(hint, lag)
         \/ \E e \in Episodes : Resolve(e) \/ CloseByIncident(e) \/ Purge(e)
  PROVE  Quiet
<1>0. /\ active # 0 => active \in Episodes
      /\ \A e \in Episodes : episode[e] \in EpisodeType
  BY EpisodeAssumption DEF TypeInv, TypeOK, Episodes
<1>1. UNCHANGED <<tokens, opened, pages, accepted, call>>
  BY DEF Tick, Renew, Continue, Resolve, CloseByIncident, Purge, store, hist
<1>2. \A n \in Episodes : Undisturbed(episode[n], episode'[n])
  <2>1. CASE Tick
    <3> SUFFICES ASSUME NEW n \in Episodes
                 PROVE  Undisturbed(episode[n], episode'[n])
      OBVIOUS
    <3>1. /\ episode'[n].handled = episode[n].handled
          /\ episode'[n].token = episode[n].token
          /\ episode'[n].severity = episode[n].severity
          /\ episode'[n].observed = episode[n].observed
      BY <2>1, <1>0 DEF Tick, EpisodeType
    <3> QED BY <3>1, <1>0, EpisodeNumbers DEF Undisturbed
  <2>2. CASE \E c \in Calls : Renew(c)
    <3> PICK c \in Calls : Renew(c)
      BY <2>2
    <3> DEFINE e == call[c].e
               ep == [episode[e] EXCEPT !.lease = Lease]
    <3>1. e \in Episodes
      <4>1. call[c].token # 0 /\ ClaimInv(call[c])
        BY DEF Renew, Holding, PageInv, CallsInv
      <4> QED BY <4>1, EpisodeAssumption DEF ClaimInv, TypeInv, TypeOK, Episodes
    <3>2. episode' = [episode EXCEPT ![e] = ep]
      BY DEF Renew
    <3>3. Undisturbed(episode[e], ep)
      BY <1>0, <3>1, EpisodeNumbers DEF Undisturbed, EpisodeType
    <3> QED BY <3>1, <3>2, <3>3, OneEpisode
  <2>3. CASE \E hint \in Hints, lag \in 0..MaxLag : Continue(hint, lag)
    <3> PICK hint \in Hints, lag \in 0..MaxLag : Continue(hint, lag)
      BY <2>3
    <3> DEFINE ep == Counted(episode[active], Normalize(hint), lag)
               closed == Closed(episode[active])
    <3>1. active \in Episodes
      BY <1>0 DEF Continue
    <3>2. Undisturbed(episode[active], ep)
      BY <1>0, <3>1, NormalizeType, CountedType DEF Undisturbed
    <3>3. Undisturbed(episode[active], closed)
      BY <1>0, <3>1, ClosedType, EpisodeNumbers DEF Undisturbed
    <3>4. \/ episode' = [episode EXCEPT ![active] = ep]
          \/ episode' = [episode EXCEPT ![active] = closed]
      BY DEF Continue
    <3> HIDE DEF ep, closed
    <3> QED BY <3>1, <3>2, <3>3, <3>4, OneEpisode
  <2>4. CASE \E e \in Episodes : Resolve(e) \/ CloseByIncident(e) \/ Purge(e)
    <3> PICK e \in Episodes : Resolve(e) \/ CloseByIncident(e) \/ Purge(e)
      BY <2>4
    <3>1. Undisturbed(episode[e], Closed(episode[e]))
      BY <1>0, ClosedType, EpisodeNumbers DEF Undisturbed
    <3>2. \/ episode' = [episode EXCEPT ![e] = Closed(episode[e])]
          \/ UNCHANGED episode
      BY DEF Resolve, CloseByIncident, Purge, store
    <3> QED BY <3>1, <3>2, OneEpisode, SameEpisodes
  <2> QED BY <2>1, <2>2, <2>3, <2>4
<1> QED BY <1>1, <1>2, SameCalls DEF Quiet

\* An occurrence that claims nothing is quiet too.
LEMMA QuietCoalesced ==
  ASSUME TypeInv, NEW c \in Calls, NEW severity \in Severities,
         EmitCoalesced(c, severity)
  PROVE  Quiet
<1> DEFINE ep == Counted(episode[active], severity, 0)
           cl == [Decided(active, ep, severity) EXCEPT
                    !.pc = "coalesced", !.token = 0]
<1>1. active \in Episodes /\ episode[active] \in EpisodeType
  BY EpisodeAssumption DEF EmitCoalesced, Continues, TypeInv, TypeOK, Episodes
<1>2. severity \in Ranks /\ 0 \in 0..MaxLag
  BY SeverityType, EpisodeAssumption
<1>3. Undisturbed(episode[active], ep)
  BY <1>1, <1>2, CountedType DEF Undisturbed
<1>4. KeepsClaim(call[c], cl)
  BY DEF KeepsClaim, Decided, Idle
<1>5. /\ episode' = [episode EXCEPT ![active] = ep]
      /\ call' = [call EXCEPT ![c] = cl]
      /\ UNCHANGED <<tokens, opened, pages, accepted>>
  BY DEF EmitCoalesced
<1> HIDE DEF ep, cl
<1> QED BY <1>1, <1>3, <1>4, <1>5, OneEpisode, OneCall DEF Quiet

\* What is owed is always for something worse than what was handled.
LEMMA OwedDue ==
  ASSUME NEW ep \in EpisodeType, PendingIsDue(ep), ep.observed >= 1,
         Owed(ep) # "none"
  PROVE  ep.handled < ep.observed
BY EpisodeNumbers DEF Owed, PendingIsDue

\* Taking a claim: the token is new, the severity claimed is the episode's.
LEMMA TakeClaim ==
  ASSUME TypeInv, TypeInv', PageInv,
         NEW c \in Calls, NEW e \in Episodes, NEW ep \in EpisodeType,
         NEW cl \in CallType,
         e <= opened', opened <= opened', tokens' = tokens + 1,
         UNCHANGED <<pages, accepted>>,
         episode'[e] = ep,
         \A n \in Episodes \ {e} : Undisturbed(episode[n], episode'[n]),
         call' = [call EXCEPT ![c] = cl],
         ep.token = tokens + 1, ep.handled = episode[e].handled,
         ep.handled < ep.observed, ep.severity = ep.observed,
         cl.token = ep.token, cl.e = e, cl.claimed = ep.severity
  PROVE  PageInv' /\ HandledRises
<1>0. /\ opened \in Nat /\ tokens \in Nat /\ opened' \in Nat
      /\ opened <= MaxEpisodes /\ MaxEpisodes \in Nat
      /\ Episodes = 1..MaxEpisodes
      /\ pages \subseteq ClaimType /\ accepted \subseteq ClaimType
  BY EpisodeAssumption DEF TypeInv, TypeOK, Episodes
<1>1. \A n \in Episodes :
        /\ episode'[n].handled = episode[n].handled
        /\ n # e => /\ episode'[n].token = episode[n].token
                    /\ episode'[n].severity = episode[n].severity
                    /\ episode'[n].observed >= episode[n].observed
  BY DEF Undisturbed
<1>2. \A n \in Episodes :
        /\ episode[n].handled \in Nat /\ episode[n].token \in Nat
        /\ episode[n].severity \in Nat /\ episode[n].observed \in Nat
        /\ episode'[n].observed \in Nat
  BY EpisodeNumbers DEF TypeInv, TypeOK
<1>3. EpisodesInv'
  <2> SUFFICES ASSUME NEW n \in Episodes
               PROVE  /\ PendingIsDue(episode'[n])
                      /\ n > opened' => episode'[n].handled = 0
                      /\ episode'[n].token <= tokens'
    BY DEF EpisodesInv
  <2>1. /\ PendingIsDue(episode[n]) /\ episode[n].token <= tokens
        /\ n > opened => episode[n].handled = 0
    BY DEF PageInv, EpisodesInv
  <2>2. CASE n = e
    <3>1. PendingIsDue(ep)
      BY EpisodeNumbers DEF PendingIsDue
    <3>2. ~(n > opened') /\ ep.token <= tokens'
      BY <2>2, <1>0
    <3> QED BY <2>2, <3>1, <3>2
  <2>3. CASE n # e
    <3>1. PendingIsDue(episode'[n])
      BY <2>1, <2>3, <1>1, <1>2 DEF PendingIsDue
    <3>2. n > opened' => episode'[n].handled = 0
      BY <2>1, <1>0, <1>1
    <3>3. episode'[n].token <= tokens'
      BY <2>1, <2>3, <1>0, <1>1, <1>2
    <3> QED BY <3>1, <3>2, <3>3
  <2> QED BY <2>2, <2>3
<1>4. \A a \in accepted : a.e \in Episodes /\ a.token \in Nat /\ a.severity \in Nat
  BY <1>0 DEF ClaimType, Ranks
<1>5. AcceptedInv'
  <2> SUFFICES ASSUME NEW a \in accepted
               PROVE  /\ a.e <= opened' /\ a.token <= tokens'
                      /\ a.severity <= episode'[a.e].handled
    BY DEF AcceptedInv
  <2>1. /\ a.e <= opened /\ a.token <= tokens
        /\ a.severity <= episode[a.e].handled
    BY DEF PageInv, AcceptedInv
  <2> QED BY <2>1, <1>0, <1>1, <1>4
<1>6. CallsInv'
  <2> SUFFICES ASSUME NEW d \in Calls, call'[d].token # 0
               PROVE  ClaimInv(call[d])'
    BY DEF CallsInv, ClaimInv
  <2>1. CASE d = c
    <3>1. call'[d] = cl
      BY <2>1 DEF TypeInv, TypeOK
    <3>2. \A a \in accepted : a.e = e => a.severity < ep.severity
      BY <1>1, <1>2, <1>4, EpisodeNumbers DEF PageInv, AcceptedInv
    <3> QED BY <3>1, <3>2, <1>0 DEF ClaimInv
  <2>2. CASE d # c
    <3>1. call'[d] = call[d]
      BY <2>2 DEF TypeInv, TypeOK
    <3>2. ClaimInv(call[d]) /\ call[d].token # 0 /\ call[d].token \in Nat
      BY <3>1, EpisodeAssumption DEF PageInv, CallsInv, TypeInv, TypeOK, CallType
    <3>3. /\ call[d].e \in 1..opened /\ call[d].e \in Episodes
          /\ call[d].token <= tokens
          /\ \A a \in accepted :
               a.e = call[d].e /\ a.token < call[d].token
                 => a.severity < call[d].claimed
      BY <3>2, <1>0 DEF ClaimInv
    <3>4. /\ episode'[call[d].e].token # 0
               => call[d].token <= episode'[call[d].e].token
          /\ episode'[call[d].e].token = call[d].token
               => episode'[call[d].e].severity = call[d].claimed
      <4>1. CASE call[d].e = e
        BY <4>1, <3>2, <3>3, <1>0
      <4>2. CASE call[d].e # e
        BY <4>2, <3>2, <3>3, <1>1 DEF ClaimInv
      <4> QED BY <4>1, <4>2
    <3>5. call[d].e \in 1..opened' /\ call[d].token <= tokens'
      BY <3>2, <3>3, <1>0
    <3> QED BY <3>1, <3>3, <3>4, <3>5 DEF ClaimInv
  <2> QED BY <2>1, <2>2
<1>7. PagesInv'
  <2> SUFFICES ASSUME NEW p \in pages
               PROVE  /\ p.e <= opened' /\ p.token <= tokens'
                      /\ episode'[p.e].token # 0
                           => p.token <= episode'[p.e].token
    BY DEF PagesInv
  <2>1. p.e \in Episodes /\ p.token \in Nat
    BY <1>0 DEF ClaimType
  <2>2. /\ p.e <= opened /\ p.token <= tokens
        /\ episode[p.e].token # 0 => p.token <= episode[p.e].token
    BY DEF PageInv, PagesInv
  <2>3. CASE p.e = e
    BY <2>1, <2>2, <2>3, <1>0
  <2>4. CASE p.e # e
    BY <2>1, <2>2, <2>4, <1>0, <1>1
  <2> QED BY <2>3, <2>4
<1>8. PagedAgainOnlyForWorse' /\ HandledWasClaimed'
  BY <1>1 DEF PageInv, PagedAgainOnlyForWorse, HandledWasClaimed
<1>9. HandledRises
  BY <1>1, <1>2 DEF HandledRises
<1> QED BY <1>3, <1>5, <1>6, <1>7, <1>8, <1>9 DEF PageInv

LEMMA PageEmitClaims ==
  ASSUME TypeInv, TypeInv', PageInv, NEW c \in Calls, NEW severity \in Severities,
         EmitClaims(c, severity)
  PROVE  PageInv' /\ HandledRises
<1> DEFINE counted == Counted(episode[active], severity, 0)
           ep == Claimed(counted, Owed(counted), tokens + 1)
           cl == Decided(active, ep, severity)
<1>1. active \in Episodes /\ active <= opened /\ episode[active] \in EpisodeType
  BY EpisodeAssumption DEF EmitClaims, Continues, TypeInv, TypeOK, Episodes
<1>2. /\ severity \in Ranks /\ severity >= 1 /\ 0 \in 0..MaxLag
      /\ tokens + 1 \in 0..MaxTokens
  BY SeverityType, EpisodeAssumption DEF EmitClaims, TypeInv, TypeOK
<1>3. /\ counted \in EpisodeType
      /\ counted.handled = episode[active].handled
      /\ counted.token = episode[active].token
      /\ counted.severity = episode[active].severity
      /\ counted.observed >= episode[active].observed
      /\ counted.observed >= severity
  BY <1>1, <1>2, CountedType
<1>4. /\ episode' = [episode EXCEPT ![active] = ep]
      /\ call' = [call EXCEPT ![c] = cl]
      /\ tokens' = tokens + 1
      /\ UNCHANGED <<opened, pages, accepted>>
      /\ Owed(counted) # "none"
  BY DEF EmitClaims
<1> HIDE DEF counted
<1>5. counted.handled < counted.observed
  <2>1. PendingIsDue(episode[active])
    BY <1>1 DEF PageInv, EpisodesInv
  <2>2. PendingIsDue(counted) /\ counted.observed >= 1
    BY <2>1, <1>1, <1>2, <1>3, EpisodeNumbers DEF PendingIsDue, Ranks
  <2> QED BY <1>3, <1>4, <2>2, OwedDue
<1>6. /\ ep \in EpisodeType
      /\ ep.handled = counted.handled /\ ep.observed = counted.observed
      /\ ep.token = tokens + 1 /\ ep.severity = counted.observed
  <2>1. Owed(counted) \in {"none", "initial", "escalation"}
    BY <1>3, OwedType
  <2> HIDE DEF PageInv
  <2> QED BY <1>2, <1>3, <2>1, ClaimedType
<1> HIDE DEF ep
<1>7. /\ cl \in CallType /\ cl.token = ep.token /\ cl.e = active
      /\ cl.claimed = ep.severity
  <2>1. cl \in CallType
    BY <1>1, <1>2, <1>6, DecidedType
  <2> QED BY <2>1, DecidedFields
<1> HIDE DEF cl
<1>8. \A n \in Episodes \ {active} : Undisturbed(episode[n], episode'[n])
  BY <1>4, EpisodeNumbers DEF Undisturbed, TypeInv, TypeOK
<1>9. episode'[active] = ep
  BY <1>1, <1>4 DEF TypeInv, TypeOK
<1>10. active <= opened' /\ opened <= opened'
  BY <1>1, <1>4 DEF TypeInv, TypeOK
<1> QED BY <1>1, <1>3, <1>4, <1>5, <1>6, <1>7, <1>8, <1>9, <1>10, TakeClaim

LEMMA PageEmitOpens ==
  ASSUME TypeInv, TypeInv', PageInv, NEW c \in Calls, NEW severity \in Severities,
         EmitOpens(c, severity)
  PROVE  PageInv' /\ HandledRises
<1> DEFINE e  == opened + 1
           ep == Claimed(NewEpisode(severity), "initial", tokens + 1)
           cl == Decided(e, ep, severity)
<1>1. /\ e \in Episodes /\ opened < e /\ opened \in Nat
      /\ tokens + 1 \in 0..MaxTokens
  BY EpisodeAssumption DEF EmitOpens, TypeInv, TypeOK, Episodes
<1>2. severity \in Ranks /\ severity >= 1
  BY SeverityType
<1>3. /\ ep \in EpisodeType
      /\ ep.handled = 0 /\ ep.observed = severity
      /\ ep.token = tokens + 1 /\ ep.severity = severity
  BY <1>1, <1>2, NewEpisodeType, ClaimedType
<1>4. episode[e].handled = 0
  BY <1>1 DEF PageInv, EpisodesInv
<1> HIDE DEF ep
<1>5. /\ cl \in CallType /\ cl.token = ep.token /\ cl.e = e
      /\ cl.claimed = ep.severity
  <2>1. cl \in CallType
    BY <1>1, <1>2, <1>3, DecidedType
  <2> QED BY <2>1, DecidedFields
<1>6. /\ episode' = [n \in Episodes |->
                       IF n = e THEN ep
                       ELSE IF n = active THEN Closed(episode[n])
                       ELSE episode[n]]
      /\ call' = [call EXCEPT ![c] = cl]
      /\ tokens' = tokens + 1 /\ opened' = e
      /\ UNCHANGED <<pages, accepted>>
  BY DEF EmitOpens, ep
<1> HIDE DEF cl
<1>7. \A n \in Episodes \ {e} : Undisturbed(episode[n], episode'[n])
  BY <1>6, ClosedType, EpisodeNumbers DEF Undisturbed, TypeInv, TypeOK
<1>8. episode'[e] = ep
  BY <1>1, <1>6
<1>9. e <= opened' /\ opened <= opened'
  BY <1>1, <1>6
<1> HIDE DEF e
<1>10. ep.handled < ep.observed
  BY <1>2, <1>3 DEF Ranks
<1> QED BY <1>1, <1>3, <1>4, <1>5, <1>6, <1>7, <1>8, <1>9, <1>10, TakeClaim

\* Sending: the page carries the call's claim, so whatever was accepted before
\* that claim was less severe.
LEMMA PageSend ==
  ASSUME TypeInv, TypeInv', PageInv, NEW c \in Calls,
         call[c].pc \in Claiming,
         \/ pages' = pages
         \/ pages' = pages \cup {[e |-> call[c].e, severity |-> call[c].claimed,
                                  token |-> call[c].token]},
         UNCHANGED <<episode, opened, tokens, accepted>>,
         \A d \in Calls : KeepsClaim(call[d], call'[d])
  PROVE  PageInv' /\ HandledRises
<1> DEFINE page == [e |-> call[c].e, severity |-> call[c].claimed,
                    token |-> call[c].token]
<1>1. call[c].token # 0 /\ ClaimInv(call[c])
  BY DEF TypeInv, CallShape, PageInv, CallsInv
<1>2. EpisodesInv' /\ AcceptedInv' /\ HandledWasClaimed'
  BY DEF PageInv, EpisodesInv, AcceptedInv, HandledWasClaimed
<1>3. CallsInv'
  BY DEF PageInv, CallsInv, ClaimInv, KeepsClaim
<1>4. /\ page.e <= opened /\ page.token <= tokens
      /\ episode[page.e].token # 0 => page.token <= episode[page.e].token
      /\ \A a \in accepted :
           a.e = page.e /\ a.token < page.token => a.severity < page.severity
  BY <1>1 DEF ClaimInv, TypeInv, TypeOK
<1> HIDE DEF page
<1>5. \A p \in pages' : p \in pages \/ p = page
  BY DEF page
<1>6. PagesInv'
  BY <1>4, <1>5 DEF PageInv, PagesInv
<1>7. PagedAgainOnlyForWorse'
  BY <1>4, <1>5 DEF PageInv, PagedAgainOnlyForWorse
<1>8. HandledRises
  BY EpisodeNumbers DEF HandledRises, TypeInv, TypeOK
<1> QED BY <1>2, <1>3, <1>6, <1>7, <1>8 DEF PageInv

LEMMA CompleteSettles ==
  ASSUME NEW ep \in EpisodeType, NEW token \in 0..MaxTokens,
         NEW outcome \in Outcomes, Complete(ep, token, outcome) # ep
  PROVE  /\ token = ep.token
         /\ Complete(ep, token, outcome).token = 0
         /\ Complete(ep, token, outcome).handled
              = IF Terminal(outcome) THEN ep.severity ELSE ep.handled
BY DEF Complete, EpisodeType

\* Concluding: only the pending token does; it is the episode's last, so no
\* page can follow it, and it was claimed for more than what was handled.
LEMMA PageConclude ==
  ASSUME TypeInv, TypeInv', PageInv, NEW c \in Calls, Conclude(c)
  PROVE  PageInv' /\ HandledRises
<1> DEFINE e    == call[c].e
           old  == episode[e]
           ep   == Complete(old, call[c].token, call[c].outcome)
           done == [e |-> e, severity |-> call[c].claimed, token |-> call[c].token]
<1>1. /\ e \in Episodes /\ old \in EpisodeType /\ call[c] \in CallType
      /\ call[c].token # 0 /\ ClaimInv(call[c])
  BY CallFacts DEF Conclude, Claiming, CallShape, PageInv, CallsInv
<1>2. call[c].token \in 0..MaxTokens /\ call[c].outcome \in Outcomes
  BY <1>1 DEF CallType
<1>3. /\ episode' = [episode EXCEPT ![e] = ep]
      /\ call' = [call EXCEPT ![c] = Idle]
      /\ UNCHANGED <<opened, tokens, pages>>
      /\ accepted' = IF ep # old /\ Terminal(call[c].outcome)
                     THEN accepted \cup {done} ELSE accepted
  BY DEF Conclude
<1>4. \A d \in Calls : KeepsClaim(call[d], call'[d])
  BY <1>3, OneCall DEF KeepsClaim, Idle
<1>5. CASE ep = old
  <2>1. UNCHANGED <<episode, accepted>>
    BY <1>1, <1>3, <1>5 DEF TypeInv, TypeOK
  <2> HIDE DEF ep
  <2>2. Quiet
    BY <1>3, <1>4, <2>1, SameEpisodes DEF Quiet
  <2> QED BY <2>2, PageFrame
<1>6. CASE ep # old
  <2>1. /\ call[c].token = old.token /\ ep.token = 0
        /\ ep.handled = IF Terminal(call[c].outcome)
                        THEN old.severity ELSE old.handled
    BY <1>1, <1>2, <1>6, CompleteSettles
  <2>2. /\ PendingIsDue(old) /\ old.severity = call[c].claimed
        /\ old.handled < old.severity
        /\ e \in 1..opened /\ old.token <= tokens
    BY <1>1, <2>1 DEF PendingIsDue, ClaimInv, PageInv, EpisodesInv
  <2>3. /\ old.handled \in Nat /\ old.severity \in Nat /\ ep.handled \in Nat
        /\ old.handled <= ep.handled /\ tokens \in Nat /\ opened \in Nat
    BY <1>1, <2>1, <2>2, EpisodeNumbers, EpisodeAssumption DEF TypeInv, TypeOK
  <2>4. /\ done.e = e /\ done.severity = old.severity /\ done.token = old.token
        /\ \A a \in accepted' :
             a \in accepted \/ (a = done /\ Terminal(call[c].outcome))
    BY <1>3, <2>1, <2>2
  <2>5. /\ episode'[e] = ep
        /\ \A n \in Episodes : n # e => episode'[n] = episode[n]
    BY <1>1, <1>3 DEF TypeInv, TypeOK
  <2>6. /\ \A p \in pages : p.e \in Episodes
        /\ \A a \in accepted : a.e \in Episodes /\ a.severity \in Nat
    BY DEF TypeInv, TypeOK, ClaimType, Ranks
  <2>7. old.token = call[c].token /\ old.token # 0
    BY <1>1, <2>1
  <2>8. accepted \subseteq accepted'
    BY <1>3
  <2>9. Terminal(call[c].outcome) => done \in accepted'
    BY <1>3, <1>6
  <2> HIDE DEF ep, done
  <2>10. EpisodesInv'
    BY <1>3, <2>1, <2>2, <2>3, <2>5 DEF PageInv, EpisodesInv, PendingIsDue
  <2>11. CallsInv'
    <3> SUFFICES ASSUME NEW d \in Calls, call'[d].token # 0
                 PROVE  ClaimInv(call[d])'
      BY DEF CallsInv, ClaimInv
    <3>1. d # c /\ call'[d] = call[d]
      BY <1>3 DEF Idle, TypeInv, TypeOK
    <3>2. ClaimInv(call[d]) /\ call[d].token # 0 /\ call[d].token \in Nat
      BY <3>1, EpisodeAssumption DEF PageInv, CallsInv, TypeInv, TypeOK, CallType
    <3>3. call[d].e \in Episodes
      BY <3>2, EpisodeAssumption DEF ClaimInv, TypeInv, TypeOK, Episodes
    <3>4. call[d].e = e => call[d].token <= old.token
      BY <2>7, <3>2 DEF ClaimInv
    <3>5. \A a \in accepted' :
            a.e = call[d].e /\ a.token < call[d].token
              => a.severity < call[d].claimed
      BY <1>1, <2>4, <3>2, <3>4, EpisodeNumbers DEF ClaimInv
    <3> QED BY <1>3, <2>1, <2>5, <3>1, <3>2, <3>3, <3>5 DEF ClaimInv
  <2>12. PagesInv'
    BY <1>3, <2>1, <2>5, <2>6 DEF PageInv, PagesInv
  <2>13. AcceptedInv'
    <3> SUFFICES ASSUME NEW a \in accepted'
                 PROVE  /\ a.e <= opened' /\ a.token <= tokens'
                        /\ a.severity <= episode'[a.e].handled
      BY DEF AcceptedInv
    <3>1. CASE a \in accepted
      <4>1. /\ a.e <= opened /\ a.token <= tokens /\ a.e \in Episodes
            /\ a.severity <= episode[a.e].handled /\ a.severity \in Nat
        BY <3>1, <2>6 DEF PageInv, AcceptedInv
      <4> QED BY <4>1, <1>3, <2>3, <2>5
    <3>2. CASE a = done /\ Terminal(call[c].outcome)
      BY <3>2, <1>3, <2>1, <2>2, <2>3, <2>4, <2>5
    <3> QED BY <2>4, <3>1, <3>2
  <2>14. PagedAgainOnlyForWorse'
    <3>1. \A p \in pages : p.e = e => ~(done.token < p.token)
      BY <1>1, <2>4, <2>7, EpisodeNumbers DEF PageInv, PagesInv, TypeInv, TypeOK, ClaimType
    <3> QED BY <3>1, <2>4, <1>3 DEF PageInv, PagedAgainOnlyForWorse
  <2>15. HandledWasClaimed'
    <3> SUFFICES ASSUME NEW n \in Episodes, episode'[n].handled # 0
                 PROVE  \E a \in accepted' :
                          a.e = n /\ a.severity = episode'[n].handled
      BY DEF HandledWasClaimed
    <3>1. CASE n = e /\ Terminal(call[c].outcome)
      BY <3>1, <2>1, <2>4, <2>5, <2>9
    <3>2. CASE ~(n = e /\ Terminal(call[c].outcome))
      BY <3>2, <2>1, <2>5, <2>8 DEF PageInv, HandledWasClaimed
    <3> QED BY <3>1, <3>2
  <2>16. HandledRises
    BY <2>3, <2>5, EpisodeNumbers DEF HandledRises, TypeInv, TypeOK
  <2> QED BY <2>10, <2>11, <2>12, <2>13, <2>14, <2>15, <2>16 DEF PageInv
<1> QED BY <1>5, <1>6

LEMMA PageInit == Init => PageInv
<1> SUFFICES ASSUME Init PROVE PageInv
  OBVIOUS
<1>1. \A e \in Episodes : episode[e] = Blank
  BY DEF Init
<1>2. EpisodesInv /\ HandledWasClaimed
  BY <1>1 DEF EpisodesInv, HandledWasClaimed, PendingIsDue, Blank, Init
<1>3. CallsInv
  BY DEF Init, CallsInv, ClaimInv, Idle
<1>4. PagesInv /\ AcceptedInv /\ PagedAgainOnlyForWorse
  BY DEF Init, PagesInv, AcceptedInv, PagedAgainOnlyForWorse
<1> QED BY <1>2, <1>3, <1>4 DEF PageInv

\* One step per action, grouped by what the action does to a claim.
LEMMA PageStep ==
  TypeInv /\ TypeInv' /\ PageInv /\ [Next]_vars => PageInv' /\ HandledRises
<1> SUFFICES ASSUME TypeInv, TypeInv', PageInv, [Next]_vars PROVE PageInv' /\ HandledRises
  OBVIOUS
<1>1. CASE UNCHANGED vars
  BY <1>1, SameEpisodes, SameCalls, PageFrame DEF Quiet, vars, store, hist
<1>2. CASE \/ Tick
           \/ \E hint \in Hints, lag \in 0..MaxLag : Continue(hint, lag)
           \/ \E e \in Episodes : Resolve(e) \/ CloseByIncident(e) \/ Purge(e)
  BY <1>2, QuietEpisode, PageFrame
<1>3. ASSUME NEW c \in Calls, Step(c) PROVE PageInv' /\ HandledRises
  <2>1. CASE Renew(c)
    BY <2>1, QuietEpisode, PageFrame
  <2>2. CASE \/ CoalesceRead(c) \/ CoalesceSave(c) \/ Inspect(c)
             \/ InspectFails(c) \/ Announce(c) \/ Stamp(c) \/ StartOnCall(c)
             \/ Crash(c)
    BY <2>2, QuietCall, PageFrame
  <2>3. CASE Emit(c)
    <3> PICK severity \in Severities : \/ EmitCoalesced(c, severity)
                                       \/ EmitClaims(c, severity)
                                       \/ EmitOpens(c, severity)
      BY <2>3 DEF Emit
    <3>1. CASE EmitCoalesced(c, severity)
      BY <3>1, QuietCoalesced, PageFrame
    <3> QED BY <3>1, PageEmitClaims, PageEmitOpens
  <2>4. CASE \/ \E outcome \in Holds : Hold(c, outcome)
             \/ \E outcome \in {"sent", "partial", "failed"} : FanOut(c, outcome)
    <3>1. /\ call[c].pc \in Claiming
          /\ UNCHANGED <<episode, opened, tokens, accepted>>
          /\ \/ pages' = pages
             \/ pages' = pages \cup {[e |-> call[c].e,
                                      severity |-> call[c].claimed,
                                      token |-> call[c].token]}
      BY <2>4 DEF Hold, FanOut, Claiming, store
    <3>2. \A d \in Calls : /\ call'[d].token = call[d].token
                          /\ call'[d].e = call[d].e
                          /\ call'[d].claimed = call[d].claimed
      BY <2>4 DEF Hold, FanOut, TypeInv, TypeOK, CallType
    <3>3. \A d \in Calls : KeepsClaim(call[d], call'[d])
      BY <3>2 DEF KeepsClaim
    <3> QED BY <3>1, <3>3, PageSend
  <2>5. CASE Conclude(c)
    BY <2>5, PageConclude
  <2> QED BY <1>3, <2>1, <2>2, <2>3, <2>4, <2>5 DEF Step, Advance
<1> QED BY <1>1, <1>2, <1>3 DEF Next

LEMMA Paging == Spec => [](TypeInv /\ PageInv)
<1>1. Init => TypeInv /\ PageInv
  BY TypeInit, PageInit
<1>2. TypeInv /\ PageInv /\ [Next]_vars => (TypeInv /\ PageInv)'
  BY TypeStep, PageStep
<1> QED BY <1>1, <1>2, PTL DEF Spec

\* After a notification was accepted as dealt with, its episode is paged again
\* only for something strictly worse: whatever leases lapse, whoever takes a
\* claim over, and however late a completion arrives.
THEOREM PagedAgain == Spec => []PagedAgainOnlyForWorse
<1>1. PageInv => PagedAgainOnlyForWorse
  BY DEF PageInv
<1> QED BY <1>1, Paging, PTL

\* What counts as handled was claimed at that severity and concluded.
THEOREM Handled == Spec => []HandledWasClaimed
<1>1. PageInv => HandledWasClaimed
  BY DEF PageInv
<1> QED BY <1>1, Paging, PTL

\* The level handled never falls, even when a claim that was taken over is
\* completed by the call it was taken from.
THEOREM HandledRisesOnly == Spec => HandledOnlyRises
<1>1. TypeInv /\ TypeInv' /\ PageInv /\ [Next]_vars =>
        [\A e \in Episodes : episode'[e].handled >= episode[e].handled]_vars
  BY PageStep DEF HandledRises
<1> QED BY <1>1, Paging, PTL DEF Spec, HandledOnlyRises
=============================================================================
