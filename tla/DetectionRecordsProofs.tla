----------------------- MODULE DetectionRecordsProofs -----------------------
(***************************************************************************)
(* Theorems about the incident records DetectionEpisodes writes, for any   *)
(* number of calls and episodes, any severities, leases and quiet periods: *)
(* what an operator resolved stays resolved (1); as long as heartbeats     *)
(* keep claims alive, an episode has one claimant at a time (2), its       *)
(* incident catches up with it (3), and an escalation does not start       *)
(* on-call again (4).  The types and the paging invariant are those of     *)
(* DetectionEpisodesProofs.                                                *)
(***************************************************************************)
EXTENDS DetectionEpisodesProofs

----------------------------------------------------------------------------
(* What a write leaves of the stored record                                *)

LEMMA SavedFields ==
  ASSUME NEW inc \in IncidentType, NEW rec \in IncidentType, inc.exists
  PROVE  /\ Saved(inc, rec).exists
         /\ Saved(inc, rec).resolved = inc.resolved
         /\ Saved(inc, rec).count = Greater(inc.count, rec.count)
         /\ Saved(inc, rec).observed = Greater(inc.observed, rec.observed)
         /\ Saved(inc, rec).oncall = IF rec.status = "" THEN inc.oncall ELSE rec.oncall
BY DEF Saved, IncidentType

LEMMA SavedNew ==
  ASSUME NEW inc \in IncidentType, NEW rec \in IncidentType, ~inc.exists
  PROVE  Saved(inc, rec) = rec
BY DEF Saved

LEMMA AppliedFields ==
  ASSUME NEW inc \in IncidentType, NEW ep \in EpisodeType
  PROVE  /\ Applied(inc, ep).exists = inc.exists
         /\ Applied(inc, ep).resolved = inc.resolved
         /\ Applied(inc, ep).oncall = inc.oncall
         /\ inc.exists => /\ Applied(inc, ep).count = ep.count
                          /\ Applied(inc, ep).observed = ep.observed
BY DEF Applied, IncidentType

LEMMA DraftFields ==
  ASSUME TypeInv, NEW c \in Calls, call[c].pc # "idle",
         NEW status \in {"pending", "sent", "partial"} \cup HoldKinds
  PROVE  /\ Draft(c, status) \in IncidentType
         /\ Draft(c, status).exists
         /\ Draft(c, status).status = status /\ status # ""
         /\ Draft(c, status).count = call[c].count
         /\ Draft(c, status).observed = call[c].observed
         /\ Draft(c, status).oncall = incident[call[c].e].oncall
<1>1. incident[call[c].e] \in IncidentType
  BY CallFacts
<1>2. status # ""
  BY DEF HoldKinds
<1> QED BY <1>1, <1>2, DraftType DEF Draft, IncidentType

LEMMA WithOnCall ==
  ASSUME NEW inc \in IncidentType, NEW b \in BOOLEAN
  PROVE  [inc EXCEPT !.oncall = b] \in IncidentType
BY DEF IncidentType

\* The progress a call may write: what was decided for it, that of the record
\* it keeps, or that of the record as it is stored.
SameProgress(x, y) == x.count = y.count /\ x.observed = y.observed

Carries(c, rec) ==
  \/ SameProgress(rec, call[c])
  \/ SameProgress(rec, call[c].rec)
  \/ incident[call[c].e].exists /\ SameProgress(rec, incident[call[c].e])

\* How a call writes its incident: it saves a record over the stored one.
Writes(c, rec) ==
  /\ rec \in IncidentType /\ Carries(c, rec)
  /\ incident' = [incident EXCEPT ![call[c].e] = Saved(incident[call[c].e], rec)]

\* Any other way is to apply the progress of the episode it completes.
LEMMA AdvanceWrites ==
  ASSUME TypeInv, NEW c \in Calls,
         Step(c)
  PROVE  \/ UNCHANGED incident
         \/ /\ call[c].pc # "idle"
            /\ \/ \E rec : Writes(c, rec)
               \/ \E ep \in EpisodeType :
                    /\ SameProgress(ep, episode[call[c].e])
                    /\ incident' = [incident EXCEPT
                         ![call[c].e] = Applied(incident[call[c].e], ep)]
<1>0. call[c] \in CallType
  BY DEF TypeInv, TypeOK
<1>1. CASE Emit(c) \/ Renew(c) \/ InspectFails(c) \/ Crash(c) \/ CoalesceRead(c) \/ Inspect(c)
           \/ \E outcome \in {"sent", "partial", "failed"} : FanOut(c, outcome)
  BY <1>1 DEF Emit, EmitCoalesced, EmitClaims, EmitOpens, Renew, InspectFails, Crash,
              CoalesceRead, Inspect, FanOut
<1>2. ASSUME call[c].pc # "idle"
      PROVE  /\ call[c].e \in Episodes /\ incident[call[c].e] \in IncidentType
             /\ call[c].rec \in IncidentType
  BY <1>2, <1>0, CallFacts DEF CallType
<1>3. CASE CoalesceSave(c)
  <2>1. call[c].pc # "idle"
    BY <1>3 DEF CoalesceSave
  <2>2. Writes(c, call[c].rec)
    BY <1>2, <1>3, <2>1 DEF CoalesceSave, Writes, Carries, SameProgress, TypeInv, TypeOK
  <2> QED BY <2>1, <2>2
<1>4. CASE Announce(c)
  <2> DEFINE draft == Draft(c, "pending")
             rec == IF call[c].skip THEN draft
                    ELSE [draft EXCEPT !.oncall = Pages(call[c].severity)]
  <2>1. call[c].pc # "idle"
    BY <1>4 DEF Announce
  <2>2. draft \in IncidentType
    BY <2>1, DraftFields
  <2>3. rec \in IncidentType
    <3>1. Pages(call[c].severity) \in BOOLEAN
      BY DEF Pages
    <3> HIDE DEF draft
    <3>2. [draft EXCEPT !.oncall = Pages(call[c].severity)] \in IncidentType
      BY <2>2, <3>1, WithOnCall
    <3> QED BY <2>2, <3>2
  <2>5. Carries(c, rec)
    <3>1. SameProgress(draft, call[c])
      BY <2>1, DraftFields DEF SameProgress
    <3> HIDE DEF draft
    <3> QED BY <2>2, <3>1 DEF Carries, SameProgress, IncidentType
  <2>4. incident' = [incident EXCEPT ![call[c].e] = Saved(incident[call[c].e], rec)]
    BY <1>2, <1>4, <2>1 DEF Announce, TypeInv, TypeOK
  <2> HIDE DEF rec
  <2> QED BY <2>1, <2>3, <2>4, <2>5 DEF Writes
<1>5. CASE Stamp(c)
  <2> DEFINE latest == IF incident[call[c].e].exists THEN incident[call[c].e] ELSE call[c].rec
             rec == [latest EXCEPT !.status = call[c].outcome]
  <2>1. call[c].pc = "sent"
    BY <1>5 DEF Stamp
  <2>2. call[c].outcome \in {"sent", "partial", "failed"}
    BY <2>1 DEF TypeInv, CallShape
  <2>3. rec \in IncidentType
    <3>1. latest \in IncidentType
      BY <1>2, <2>1
    <3>2. call[c].outcome \in {"", "pending", "sent", "partial"} \cup HoldKinds
      BY <2>2 DEF HoldKinds
    <3> HIDE DEF latest
    <3> QED BY <3>1, <3>2 DEF IncidentType
  <2>5. Carries(c, rec)
    <3>1. latest \in IncidentType
      BY <1>2, <2>1
    <3> QED BY <3>1 DEF Carries, SameProgress, IncidentType
  <2>4. incident' = [incident EXCEPT ![call[c].e] = Saved(incident[call[c].e], rec)]
    BY <1>2, <1>5, <2>1 DEF Stamp, TypeInv, TypeOK
  <2> HIDE DEF rec
  <2> QED BY <2>1, <2>3, <2>4, <2>5 DEF Writes
<1>6. CASE StartOnCall(c)
  <2>1. call[c].pc = "stamped"
    BY <1>6 DEF StartOnCall
  <2>2. [call[c].rec EXCEPT !.oncall = FALSE] \in IncidentType
    BY <1>2, <2>1 DEF IncidentType
  <2>3. \/ UNCHANGED incident
        \/ incident' = [incident EXCEPT ![call[c].e] =
                          Saved(incident[call[c].e], [call[c].rec EXCEPT !.oncall = FALSE])]
    BY <1>2, <1>6, <2>1 DEF StartOnCall, TypeInv, TypeOK
  <2>4. Carries(c, [call[c].rec EXCEPT !.oncall = FALSE])
    BY <1>2, <2>1 DEF Carries, SameProgress, IncidentType
  <2> QED BY <2>1, <2>2, <2>3, <2>4 DEF Writes
<1>7. CASE Conclude(c)
  <2> DEFINE ep == Complete(episode[call[c].e], call[c].token, call[c].outcome)
  <2>1. call[c].pc # "idle"
    BY <1>7 DEF Conclude
  <2>2. episode[call[c].e] \in EpisodeType
    BY <2>1, CallFacts
  <2>3. call[c].token \in 0..MaxTokens /\ call[c].outcome \in Outcomes
    BY <1>0 DEF CallType
  <2>4. ep \in EpisodeType
    BY <2>2, <2>3, CompleteType
  <2>5. UNCHANGED incident \/ incident' = [incident EXCEPT
                                ![call[c].e] = Applied(incident[call[c].e], ep)]
    BY <1>2, <1>7, <2>1 DEF Conclude, TypeInv, TypeOK
  <2>6. SameProgress(ep, episode[call[c].e])
    BY <2>2 DEF Complete, SameProgress, EpisodeType
  <2> HIDE DEF ep
  <2> QED BY <2>1, <2>4, <2>5, <2>6
<1>8. CASE \E outcome \in Holds : Hold(c, outcome)
  <2> PICK outcome \in Holds : Hold(c, outcome)
    BY <1>8
  <2>1. call[c].pc # "idle"
    BY DEF Hold
  <2>2. Draft(c, outcome) \in IncidentType
    BY <2>1, DraftFields, EpisodeAssumption
  <2>3. UNCHANGED incident \/ incident' = [incident EXCEPT
                ![call[c].e] = Saved(incident[call[c].e], Draft(c, outcome))]
    BY <1>2, <2>1 DEF Hold, TypeInv, TypeOK
  <2>4. Carries(c, Draft(c, outcome))
    BY <2>1, DraftFields, EpisodeAssumption DEF Carries, SameProgress
  <2> QED BY <2>1, <2>2, <2>3, <2>4 DEF Writes
<1> QED BY <1>1, <1>3, <1>4, <1>5, <1>6, <1>7, <1>8 DEF Step, Advance

----------------------------------------------------------------------------
(* 1. Resolved incidents                                                   *)

ResolvedInv == \A e \in resolved : incident[e].exists /\ incident[e].resolved

\* Whatever the calls of the episode still write, late, merged, or walked back:
\* once an operator resolved an incident it stays resolved.
THEOREM ResolutionSticksAlways == Spec => []ResolutionSticks
<1>1. Init => ResolvedInv
  BY DEF Init, ResolvedInv
<1>2. TypeInv /\ ResolvedInv /\ [Next]_vars => ResolvedInv'
  <2> SUFFICES ASSUME TypeInv, ResolvedInv, [Next]_vars
               PROVE  ResolvedInv'
    OBVIOUS
  <2>0. resolved \subseteq Episodes /\ \A e \in Episodes : incident[e] \in IncidentType
    BY DEF TypeInv, TypeOK
  <2>1. CASE \E c \in Calls : Step(c)
    <3> PICK c \in Calls : Step(c)
      BY <2>1
    <3>1. resolved' = resolved
      BY DEF Step, Emit, EmitCoalesced, EmitClaims, EmitOpens, Advance, CoalesceRead,
             CoalesceSave, Inspect, Announce, Stamp, StartOnCall, Conclude, FanOut,
             Renew, InspectFails, Crash, Hold, hist
    <3>2. CASE UNCHANGED incident
      BY <3>1, <3>2 DEF ResolvedInv
    <3>3. CASE call[c].pc # "idle" /\ \E rec : Writes(c, rec)
      <4> PICK rec : Writes(c, rec)
        BY <3>3
      <4>0. /\ rec \in IncidentType
            /\ \A e \in Episodes : \/ incident'[e] = incident[e]
                                   \/ incident'[e] = Saved(incident[e], rec)
        BY <3>3 DEF Writes, TypeInv, TypeOK
      <4>1. ASSUME NEW e \in resolved PROVE incident'[e].exists /\ incident'[e].resolved
        <5>1. /\ incident[e] \in IncidentType /\ incident[e].exists /\ incident[e].resolved
              /\ e \in Episodes
          BY <2>0 DEF ResolvedInv
        <5>2. Saved(incident[e], rec).exists /\ Saved(incident[e], rec).resolved
          BY <4>0, <5>1, SavedFields
        <5> QED BY <4>0, <5>1, <5>2
      <4> QED BY <4>1, <3>1 DEF ResolvedInv
    <3>4. CASE \E ep \in EpisodeType :
                 incident' = [incident EXCEPT
                   ![call[c].e] = Applied(incident[call[c].e], ep)]
      <4> PICK ep \in EpisodeType :
                 incident' = [incident EXCEPT
                   ![call[c].e] = Applied(incident[call[c].e], ep)]
        BY <3>4
      <4>1. ASSUME NEW e \in resolved PROVE incident'[e].exists /\ incident'[e].resolved
        BY <2>0, AppliedFields DEF ResolvedInv, TypeInv, TypeOK
      <4> QED BY <4>1, <3>1 DEF ResolvedInv
    <3> QED BY <3>2, <3>3, <3>4, AdvanceWrites
  <2>2. CASE Tick
    BY <2>2 DEF Tick, hist, ResolvedInv
  <2>3. CASE \E hint \in Hints, lag \in 0..MaxLag : Continue(hint, lag)
    <3> PICK hint \in Hints, lag \in 0..MaxLag : Continue(hint, lag)
      BY <2>3
    <3> DEFINE ep == Counted(episode[active], Normalize(hint), lag)
    <3>1. active \in Episodes
      BY EpisodeAssumption DEF Continue, TypeInv, TypeOK, Episodes
    <3>2. ep \in EpisodeType
      BY <3>1, NormalizeType, CountedType DEF TypeInv, TypeOK
    <3>3. /\ resolved' = resolved
          /\ \/ UNCHANGED incident
             \/ incident' = [incident EXCEPT ![active] = Applied(incident[active], ep)]
      BY <3>1 DEF Continue, TypeInv, TypeOK
    <3> HIDE DEF ep
    <3>4. ASSUME NEW e \in resolved PROVE incident'[e].exists /\ incident'[e].resolved
      BY <2>0, <3>1, <3>2, <3>3, AppliedFields DEF ResolvedInv, TypeInv, TypeOK
    <3> QED BY <3>3, <3>4 DEF ResolvedInv
  <2>4. ASSUME NEW e \in Episodes, Resolve(e) \/ CloseByIncident(e) \/ Purge(e)
        PROVE  ResolvedInv'
    <3>1. CASE Resolve(e)
      <4>1. /\ incident[e].exists /\ resolved' = resolved \cup {e}
            /\ incident' = [incident EXCEPT ![e] = [incident[e] EXCEPT !.resolved = TRUE]]
        BY <3>1, <2>0 DEF Resolve
      <4>2. incident'[e].exists /\ incident'[e].resolved
        BY <4>1, <2>0 DEF IncidentType, TypeInv, TypeOK
      <4>3. \A n \in Episodes \ {e} : incident'[n] = incident[n]
        BY <4>1
      <4> QED BY <4>1, <4>2, <4>3, <2>0 DEF ResolvedInv
    <3>2. CASE CloseByIncident(e)
      BY <3>2 DEF CloseByIncident, hist, ResolvedInv
    <3>3. CASE Purge(e)
      BY <3>3, <2>0 DEF Purge, ResolvedInv
    <3> QED BY <2>4, <3>1, <3>2, <3>3
  <2>5. CASE UNCHANGED vars
    BY <2>5 DEF vars, hist, ResolvedInv
  <2> QED BY <2>1, <2>2, <2>3, <2>4, <2>5 DEF Next
<1>3. Spec => []TypeInv
  BY Paging, PTL
<1>4. ResolvedInv => ResolutionSticks
  BY DEF ResolvedInv, ResolutionSticks
<1> QED BY <1>1, <1>2, <1>3, <1>4, PTL DEF Spec

----------------------------------------------------------------------------
(* 2. One claimant at a time                                               *)

\* A call that claimed still holds its claim, as what it claimed it for.
HeldClaims ==
  \A c \in Calls : call[c].pc \in Claiming =>
    /\ Holding(c)
    /\ episode[call[c].e].kind = call[c].kind
    /\ call[c].severity \in Severities

OneClaimant ==
  \A c, d \in Calls :
    call[c].pc \in Claiming /\ call[d].pc \in Claiming /\ call[c].e = call[d].e
      => c = d

\* A claim is initial exactly while the episode has handled nothing.
KindIsDue ==
  \A e \in Episodes :
    episode[e].token # 0 => (episode[e].kind = "initial" <=> episode[e].handled = 0)

ClaimsHeld == HeldClaims /\ OneClaimant /\ KindIsDue

SameDecision(old, cl) ==
  /\ cl.e = old.e /\ cl.token = old.token /\ cl.kind = old.kind
  /\ cl.severity = old.severity /\ cl.claimed = old.claimed
  /\ cl.count = old.count /\ cl.observed = old.observed

\* A call under way keeps what was decided for it, until it ends.
LEMMA CallMoves ==
  ASSUME TypeInv, NEW c \in Calls,
         Advance(c) \/ InspectFails(c) \/ Crash(c) \/ \E outcome \in Holds : Hold(c, outcome)
  PROVE  /\ call[c].pc # "idle"
         /\ \A d \in Calls \ {c} : call'[d] = call[d]
         /\ \/ call'[c] = Idle
            \/ /\ SameDecision(call[c], call'[c])
               /\ \/ call[c].pc = "coalesced" /\ call'[c].pc = "merging"
                  \/ call[c].pc \in Claiming /\ call'[c].pc \in Claiming
<1>0. call \in [Calls -> CallType] /\ call[c] \in CallType
  BY DEF TypeInv, TypeOK
<1>1. CASE CoalesceRead(c)
  <2> DEFINE rec == [incident[call[c].e] EXCEPT !.count = call[c].count,
                       !.observed = call[c].observed, !.status = ""]
  <2>1. /\ call[c].pc = "coalesced"
        /\ call' = [call EXCEPT ![c] =
                      IF incident[call[c].e].exists
                      THEN [call[c] EXCEPT !.pc = "merging", !.rec = rec]
                      ELSE Idle]
    BY <1>1 DEF CoalesceRead
  <2> HIDE DEF rec
  <2> QED BY <2>1, <1>0 DEF SameDecision, CallType
<1>2. CASE CoalesceSave(c) \/ Conclude(c) \/ Crash(c)
  <2>1. call[c].pc # "idle" /\ call' = [call EXCEPT ![c] = Idle]
    <3>1. CASE CoalesceSave(c)
      BY <3>1 DEF CoalesceSave
    <3>2. CASE Conclude(c)
      BY <3>2 DEF Conclude
    <3>3. CASE Crash(c)
      BY <3>3 DEF Crash
    <3> QED BY <1>2, <3>1, <3>2, <3>3
  <2> QED BY <2>1, <1>0
<1>3. CASE Inspect(c)
  BY <1>3, <1>0 DEF Inspect, SameDecision, CallType, Claiming
<1>9. CASE InspectFails(c)
  BY <1>9, <1>0 DEF InspectFails, SameDecision, CallType, Claiming
<1>4. CASE Announce(c)
  <2>1. PICK rec : /\ call[c].pc = "inspected"
                   /\ call' = [call EXCEPT ![c].pc = "announced", ![c].rec = rec]
    BY <1>4 DEF Announce
  <2> QED BY <2>1, <1>0 DEF SameDecision, CallType, Claiming
<1>5. CASE Stamp(c)
  <2>1. PICK rec : /\ call[c].pc = "sent"
                   /\ call' = [call EXCEPT ![c].pc = "stamped", ![c].rec = rec]
    BY <1>5 DEF Stamp
  <2> QED BY <2>1, <1>0 DEF SameDecision, CallType, Claiming
<1>6. CASE StartOnCall(c)
  BY <1>6, <1>0 DEF StartOnCall, SameDecision, CallType, Claiming
<1>7. CASE \E outcome \in {"sent", "partial", "failed"} : FanOut(c, outcome)
  BY <1>7, <1>0 DEF FanOut, SameDecision, CallType, Claiming
<1>8. CASE \E outcome \in Holds : Hold(c, outcome)
  <2>1. PICK outcome \in Holds :
          /\ call[c].pc = "inspected"
          /\ call' = [call EXCEPT ![c].pc = "concluding", ![c].outcome = outcome]
    BY <1>8 DEF Hold
  <2> QED BY <2>1, <1>0 DEF SameDecision, CallType, Claiming
<1> QED BY <1>1, <1>2, <1>3, <1>4, <1>5, <1>6, <1>7, <1>8, <1>9 DEF Advance

\* What most steps leave of every claim.
KeepsClaims ==
  /\ \A e \in Episodes : /\ episode'[e].token = episode[e].token
                         /\ episode'[e].kind = episode[e].kind
                         /\ episode'[e].handled = episode[e].handled
  /\ \A c \in Calls : Holding(c) => episode'[call[c].e].lease > 0
  /\ \A c \in Calls :
       call'[c].pc \in Claiming =>
         call[c].pc \in Claiming /\ SameDecision(call[c], call'[c])

LEMMA ClaimFrame ==
  ASSUME TypeInv, ClaimsHeld, KeepsClaims
  PROVE  ClaimsHeld'
<1>1. \A c \in Calls : call[c].pc \in Claiming => call[c].e \in Episodes
  BY CallFacts DEF Claiming
<1>2. HeldClaims'
  <2> SUFFICES ASSUME NEW c \in Calls, call'[c].pc \in Claiming
               PROVE  /\ Holding(c)'
                      /\ episode'[call'[c].e].kind = call'[c].kind
                      /\ call'[c].severity \in Severities
    BY DEF HeldClaims
  <2>1. call[c].pc \in Claiming /\ SameDecision(call[c], call'[c])
    BY DEF KeepsClaims
  <2>2. Holding(c) /\ episode[call[c].e].kind = call[c].kind /\ call[c].severity \in Severities
    BY <2>1 DEF ClaimsHeld, HeldClaims
  <2> QED BY <2>1, <2>2, <1>1 DEF KeepsClaims, Holding, SameDecision
<1>3. OneClaimant'
  BY DEF ClaimsHeld, OneClaimant, KeepsClaims, SameDecision
<1>4. KindIsDue'
  BY DEF ClaimsHeld, KindIsDue, KeepsClaims
<1> QED BY <1>2, <1>3, <1>4 DEF ClaimsHeld

LEMMA HeldEpisode ==
  ASSUME TypeInv, PageInv, NEW c \in Calls, Holding(c)
  PROVE  call[c].e \in Episodes
BY EpisodeAssumption
   DEF TypeInv, TypeOK, Episodes, Holding, PageInv, CallsInv, ClaimInv

\* The steps outside the calls, and heartbeats, leave the claims; time passes
\* only as far as the heartbeats let it.
LEMMA ClaimQuiet ==
  ASSUME TypeInv, PageInv, HeartbeatsKeepUp,
         \/ Tick \/ \E c \in Calls : Renew(c)
         \/ \E hint \in Hints, lag \in 0..MaxLag : Continue(hint, lag)
         \/ \E e \in Episodes : Resolve(e) \/ CloseByIncident(e) \/ Purge(e)
         \/ UNCHANGED vars
  PROVE  KeepsClaims
<1>0. /\ \A e \in Episodes : episode[e] \in EpisodeType
      /\ episode \in [Episodes -> EpisodeType]
      /\ active # 0 => active \in Episodes
      /\ \A c \in Calls : Holding(c) => call[c].e \in Episodes
  BY HeldEpisode, EpisodeAssumption DEF TypeInv, TypeOK, Episodes
<1>1. UNCHANGED call
  BY DEF Tick, Renew, Continue, Resolve, CloseByIncident, Purge, store, hist, vars
<1>2. ASSUME NEW e \in Episodes
      PROVE  /\ episode'[e].token = episode[e].token
             /\ episode'[e].kind = episode[e].kind
             /\ episode'[e].handled = episode[e].handled
             /\ (\E c \in Calls : Holding(c) /\ call[c].e = e) => episode'[e].lease > 0
  <2>0. episode[e] \in EpisodeType /\ Lease > 0
    BY <1>0, EpisodeAssumption
  <2>1. CASE Tick
    <3>1. episode'[e] =
            [episode[e] EXCEPT
               !.age = IF episode[e].open /\ @ < Oldest THEN @ + 1 ELSE @,
               !.lease = IF @ > 0 THEN @ - 1 ELSE 0]
      BY <2>1 DEF Tick
    <3>2. /\ episode'[e].token = episode[e].token
          /\ episode'[e].kind = episode[e].kind
          /\ episode'[e].handled = episode[e].handled
          /\ episode'[e].lease = IF episode[e].lease > 0 THEN episode[e].lease - 1 ELSE 0
      BY <3>1, <2>0 DEF EpisodeType
    <3>3. episode[e].lease \in Nat
      BY <2>0, EpisodeAssumption DEF EpisodeType
    <3>4. (\E c \in Calls : Holding(c) /\ call[c].e = e) => episode[e].lease > 1
      BY <2>1 DEF Tick
    <3> QED BY <3>2, <3>3, <3>4
  <2>2. CASE \E c \in Calls : Renew(c)
    <3> PICK c \in Calls : Renew(c)
      BY <2>2
    <3>1. episode' = [episode EXCEPT ![call[c].e] = [episode[call[c].e] EXCEPT !.lease = Lease]]
      BY DEF Renew
    <3>2. \/ episode'[e] = episode[e]
          \/ episode'[e] = [episode[e] EXCEPT !.lease = Lease]
      BY <3>1, <1>0
    <3> QED BY <3>2, <2>0 DEF EpisodeType, Holding
  <2>3. CASE \E hint \in Hints, lag \in 0..MaxLag : Continue(hint, lag)
    <3> PICK hint \in Hints, lag \in 0..MaxLag : Continue(hint, lag)
      BY <2>3
    <3>1. \/ episode'[e] = episode[e]
          \/ episode'[e] = Closed(episode[e])
          \/ episode'[e] = Counted(episode[e], Normalize(hint), lag)
      BY <1>0 DEF Continue
    <3> QED BY <3>1, <2>0 DEF EpisodeType, Closed, Counted, Holding
  <2>4. CASE \E n \in Episodes : Resolve(n) \/ CloseByIncident(n) \/ Purge(n)
    <3>1. \/ episode'[e] = episode[e]
          \/ episode'[e] = Closed(episode[e])
      BY <2>4, <1>0 DEF Resolve, CloseByIncident, Purge, store
    <3> QED BY <3>1, <2>0 DEF EpisodeType, Closed, Holding
  <2>5. CASE UNCHANGED vars
    BY <2>5 DEF vars, store, Holding
  <2> QED BY <2>1, <2>2, <2>3, <2>4, <2>5
<1> QED BY <1>0, <1>1, <1>2 DEF KeepsClaims, SameDecision

\* A step of a call other than a claim or a completion leaves the claims too.
LEMMA ClaimCall ==
  ASSUME TypeInv, PageInv, NEW c \in Calls,
         \/ Advance(c) /\ ~Conclude(c)
         \/ InspectFails(c) \/ Crash(c) \/ \E outcome \in Holds : Hold(c, outcome)
         \/ \E severity \in Severities : EmitCoalesced(c, severity)
  PROVE  KeepsClaims
<1>0. \A d \in Calls : Holding(d) => call[d].e \in Episodes /\ episode[call[d].e].lease > 0
  BY HeldEpisode DEF Holding
<1>1. CASE \E severity \in Severities : EmitCoalesced(c, severity)
  <2> PICK severity \in Severities : EmitCoalesced(c, severity)
    BY <1>1
  <2> DEFINE ep == Counted(episode[active], severity, 0)
             cl == [Decided(active, ep, severity) EXCEPT !.pc = "coalesced", !.token = 0]
  <2>1. /\ episode' = [episode EXCEPT ![active] = ep]
        /\ call' = [call EXCEPT ![c] = cl]
    BY DEF EmitCoalesced
  <2>2. cl.pc = "coalesced"
    BY DEF Decided, Idle
  <2>3. ASSUME NEW e \in Episodes
        PROVE  /\ episode'[e].token = episode[e].token
               /\ episode'[e].kind = episode[e].kind
               /\ episode'[e].handled = episode[e].handled
               /\ episode'[e].lease = episode[e].lease
    <3>1. episode[e] \in EpisodeType
      BY DEF TypeInv, TypeOK
    <3>2. episode'[e] = episode[e] \/ episode'[e] = Counted(episode[e], severity, 0)
      BY <2>1 DEF TypeInv, TypeOK
    <3> QED BY <3>1, <3>2 DEF Counted, EpisodeType
  <2>4. \A d \in Calls : call'[d].pc \in Claiming => call'[d] = call[d]
    <3> HIDE DEF cl
    <3> QED BY <2>1, <2>2 DEF Claiming, TypeInv, TypeOK
  <2> HIDE DEF cl, ep
  <2> QED BY <1>0, <2>3, <2>4 DEF KeepsClaims, SameDecision
<1>2. ASSUME \/ Advance(c) /\ ~Conclude(c)
             \/ InspectFails(c) \/ Crash(c) \/ \E outcome \in Holds : Hold(c, outcome)
      PROVE  KeepsClaims
  <2>1. UNCHANGED episode
    BY <1>2 DEF Advance, CoalesceRead, CoalesceSave, Inspect, Announce, Stamp,
                StartOnCall, FanOut, InspectFails, Crash, Hold, store, hist
  <2>2. \A d \in Calls : call'[d].pc \in Claiming =>
                           call[d].pc \in Claiming /\ SameDecision(call[d], call'[d])
    BY <1>2, CallMoves DEF SameDecision, Claiming, Idle
  <2> QED BY <1>0, <2>1, <2>2 DEF KeepsClaims
<1> QED BY <1>1, <1>2

\* A completion frees its episode: nobody else was claiming it.
LEMMA ClaimConclude ==
  ASSUME TypeInv, ClaimsHeld, NEW c \in Calls, Conclude(c)
  PROVE  ClaimsHeld'
<1> DEFINE e == call[c].e
           ep == Complete(episode[e], call[c].token, call[c].outcome)
<1>1. /\ call[c].pc \in Claiming /\ e \in Episodes /\ episode[e] \in EpisodeType
      /\ call[c].token # 0 /\ episode[e].token = call[c].token
  BY CallFacts DEF Conclude, Claiming, ClaimsHeld, HeldClaims, Holding
<1>2. /\ episode' = [episode EXCEPT ![e] = ep]
      /\ call' = [call EXCEPT ![c] = Idle]
  BY DEF Conclude
<1>3. ep.token = 0
  BY <1>1 DEF Complete, EpisodeType
<1> HIDE DEF ep
<1>4. /\ episode'[e] = ep /\ \A n \in Episodes \ {e} : episode'[n] = episode[n]
      /\ call'[c].pc = "idle" /\ \A d \in Calls \ {c} : call'[d] = call[d]
  BY <1>1, <1>2 DEF TypeInv, TypeOK, Idle
<1>5. \A d \in Calls : call'[d].pc \in Claiming =>
         d # c /\ call'[d] = call[d] /\ call[d].e \in Episodes \ {e}
  BY <1>1, <1>4, CallFacts DEF Claiming, ClaimsHeld, OneClaimant
<1>6. HeldClaims'
  BY <1>4, <1>5 DEF ClaimsHeld, HeldClaims, Holding
<1>7. OneClaimant'
  BY <1>5 DEF ClaimsHeld, OneClaimant
<1>8. KindIsDue'
  BY <1>3, <1>4 DEF ClaimsHeld, KindIsDue
<1> QED BY <1>6, <1>7, <1>8 DEF ClaimsHeld

\* Taking a claim of an episode nobody is claiming.
LEMMA ClaimTaken ==
  ASSUME TypeInv, ClaimsHeld, NEW c \in Calls, NEW e \in Episodes, NEW cl,
         call' = [call EXCEPT ![c] = cl],
         \A n \in Episodes \ {e} : /\ episode'[n].token = episode[n].token
                                   /\ episode'[n].kind = episode[n].kind
                                   /\ episode'[n].handled = episode[n].handled
                                   /\ episode'[n].lease = episode[n].lease,
         cl.e = e, cl.token = episode'[e].token, cl.kind = episode'[e].kind,
         cl.severity \in Severities,
         episode'[e].token # 0, episode'[e].lease > 0,
         episode'[e].kind = "initial" <=> episode'[e].handled = 0,
         call[c].pc = "idle",
         \A d \in Calls : ~(call[d].pc \in Claiming /\ call[d].e = e)
  PROVE  ClaimsHeld'
<1>1. call'[c] = cl /\ \A d \in Calls \ {c} : call'[d] = call[d]
  BY DEF TypeInv, TypeOK
<1>2. \A d \in Calls \ {c} : call[d].pc \in Claiming => call[d].e \in Episodes \ {e}
  BY CallFacts DEF Claiming
<1>3. HeldClaims'
  <2>1. Holding(c)' /\ episode'[call'[c].e].kind = call'[c].kind
        /\ call'[c].severity \in Severities
    BY <1>1 DEF Holding
  <2>2. ASSUME NEW d \in Calls \ {c}, call'[d].pc \in Claiming
        PROVE  Holding(d)' /\ episode'[call'[d].e].kind = call'[d].kind
               /\ call'[d].severity \in Severities
    BY <1>1, <1>2, <2>2 DEF Holding, ClaimsHeld, HeldClaims
  <2> QED BY <2>1, <2>2 DEF HeldClaims
<1>4. OneClaimant'
  <2> SUFFICES ASSUME NEW d \in Calls, NEW f \in Calls, call'[d].pc \in Claiming,
                      call'[f].pc \in Claiming, call'[d].e = call'[f].e
               PROVE  d = f
    BY DEF OneClaimant
  <2> QED BY <1>1, <1>2 DEF ClaimsHeld, OneClaimant
<1>5. KindIsDue'
  BY DEF ClaimsHeld, KindIsDue
<1> QED BY <1>3, <1>4, <1>5 DEF ClaimsHeld

LEMMA ClaimEmit ==
  ASSUME TypeInv, PageInv, ClaimsHeld, NEW c \in Calls, NEW severity \in Severities,
         EmitClaims(c, severity) \/ EmitOpens(c, severity)
  PROVE  ClaimsHeld'
<1>0. /\ tokens + 1 # 0 /\ tokens + 1 \in 0..MaxTokens /\ Lease > 0
      /\ severity \in Ranks /\ 0 \in 0..MaxLag
  BY EpisodeAssumption, SeverityType DEF EmitClaims, EmitOpens, TypeInv, TypeOK
<1>1. CASE EmitClaims(c, severity)
  <2> DEFINE counted == Counted(episode[active], severity, 0)
             ep == Claimed(counted, Owed(counted), tokens + 1)
  <2>1. /\ active \in Episodes /\ episode[active] \in EpisodeType
        /\ episode' = [episode EXCEPT ![active] = ep]
        /\ call' = [call EXCEPT ![c] = Decided(active, ep, severity)]
        /\ call[c].pc = "idle" /\ Owed(counted) # "none"
    BY <1>1, EpisodeAssumption DEF EmitClaims, Continues, TypeInv, TypeOK, Episodes
  <2>2. /\ counted.token = episode[active].token /\ counted.lease = episode[active].lease
        /\ counted.kind = episode[active].kind /\ counted.handled = episode[active].handled
        /\ counted \in EpisodeType
    BY <2>1, <1>0, CountedType DEF Counted, EpisodeType
  <2> HIDE DEF counted
  <2>3. /\ ep.token = tokens + 1 /\ ep.lease = Lease /\ ep.kind = Owed(counted)
        /\ ep.handled = counted.handled
    BY <2>2 DEF Claimed, EpisodeType
  <2>4. Owed(counted) = "initial" <=> counted.handled = 0
    BY <2>1, <2>2 DEF Owed, ClaimsHeld, KindIsDue
  <2>5. \A d \in Calls : ~(call[d].pc \in Claiming /\ call[d].e = active)
    BY <2>1, <2>2 DEF Owed, ClaimsHeld, HeldClaims, Holding
  <2> HIDE DEF ep
  <2>6. /\ episode'[active] = ep
        /\ \A n \in Episodes \ {active} : episode'[n] = episode[n]
    BY <2>1 DEF TypeInv, TypeOK
  <2> DEFINE cl == Decided(active, ep, severity)
  <2>7. /\ cl.e = active /\ cl.token = ep.token /\ cl.kind = ep.kind
        /\ cl.severity = severity /\ call' = [call EXCEPT ![c] = cl]
    BY <2>1, DecidedFields DEF Decided, Idle
  <2> HIDE DEF cl
  <2>8. /\ cl.token = episode'[active].token /\ cl.kind = episode'[active].kind
        /\ cl.severity \in Severities
        /\ episode'[active].token # 0 /\ episode'[active].lease > 0
        /\ episode'[active].kind = "initial" <=> episode'[active].handled = 0
    BY <1>0, <2>3, <2>4, <2>6, <2>7
  <2>9. /\ \A n \in Episodes \ {active} : /\ episode'[n].token = episode[n].token
                                           /\ episode'[n].kind = episode[n].kind
                                           /\ episode'[n].handled = episode[n].handled
                                           /\ episode'[n].lease = episode[n].lease
        /\ active \in Episodes /\ call[c].pc = "idle" /\ cl.e = active
        /\ call' = [call EXCEPT ![c] = cl]
    BY <2>1, <2>6, <2>7
  <2> QED BY <2>5, <2>8, <2>9, ClaimTaken
<1>2. CASE EmitOpens(c, severity)
  <2> DEFINE e == opened + 1
             ep == Claimed(NewEpisode(severity), "initial", tokens + 1)
  <2>1. /\ e \in Episodes /\ call[c].pc = "idle"
        /\ episode' = [n \in Episodes |->
                         IF n = e THEN ep
                         ELSE IF n = active THEN Closed(episode[n]) ELSE episode[n]]
        /\ call' = [call EXCEPT ![c] = Decided(e, ep, severity)]
    BY <1>2, EpisodeAssumption DEF EmitOpens, TypeInv, TypeOK, Episodes
  <2>2. /\ ep.token = tokens + 1 /\ ep.lease = Lease /\ ep.kind = "initial"
        /\ ep.handled = 0
    BY DEF Claimed, NewEpisode, Blank
  <2>3. \A d \in Calls : ~(call[d].pc \in Claiming /\ call[d].e = e)
    BY EpisodeAssumption DEF TypeInv, TypeOK, Claiming
  <2> HIDE DEF ep
  <2>4. episode'[e] = ep
    BY <2>1
  <2>5. ASSUME NEW n \in Episodes \ {e}
        PROVE  /\ episode'[n].token = episode[n].token
               /\ episode'[n].kind = episode[n].kind
               /\ episode'[n].handled = episode[n].handled
               /\ episode'[n].lease = episode[n].lease
    <3>1. episode'[n] = episode[n] \/ episode'[n] = Closed(episode[n])
      BY <2>1
    <3> QED BY <3>1 DEF Closed, EpisodeType, TypeInv, TypeOK
  <2> DEFINE cl == Decided(e, ep, severity)
  <2>6. /\ cl.e = e /\ cl.token = ep.token /\ cl.kind = ep.kind
        /\ cl.severity = severity /\ call' = [call EXCEPT ![c] = cl]
    BY <2>1, DecidedFields DEF Decided, Idle
  <2> HIDE DEF e, cl
  <2> QED BY <1>0, <2>1, <2>2, <2>3, <2>4, <2>5, <2>6, ClaimTaken
<1> QED BY <1>1, <1>2

LEMMA ClaimsInit == Init => ClaimsHeld
BY DEF Init, ClaimsHeld, HeldClaims, OneClaimant, KindIsDue, Idle, Blank, Claiming

LEMMA ClaimsStep ==
  ASSUME HeartbeatsKeepUp, TypeInv, PageInv, ClaimsHeld, [Next]_vars
  PROVE  ClaimsHeld'
<1>1. CASE \E c \in Calls : Step(c)
  <2> PICK c \in Calls : Step(c)
    BY <1>1
  <2>1. CASE Conclude(c)
    BY <2>1, ClaimConclude
  <2>2. CASE Renew(c)
    BY <2>2, ClaimQuiet, ClaimFrame
  <2>3. CASE \E severity \in Severities : EmitClaims(c, severity) \/ EmitOpens(c, severity)
    BY <2>3, ClaimEmit
  <2>4. CASE \/ Advance(c) /\ ~Conclude(c)
             \/ InspectFails(c) \/ Crash(c) \/ \E outcome \in Holds : Hold(c, outcome)
             \/ \E severity \in Severities : EmitCoalesced(c, severity)
    BY <2>4, ClaimCall, ClaimFrame
  <2> QED BY <2>1, <2>2, <2>3, <2>4 DEF Step, Emit
<1>2. CASE \/ Tick
           \/ \E hint \in Hints, lag \in 0..MaxLag : Continue(hint, lag)
           \/ \E e \in Episodes : Resolve(e) \/ CloseByIncident(e) \/ Purge(e)
           \/ UNCHANGED vars
  BY <1>2, ClaimQuiet, ClaimFrame
<1> QED BY <1>1, <1>2 DEF Next

\* While heartbeats keep claims alive, an episode is being notified about by
\* one call at a time, which still holds the claim it took.
THEOREM OneClaimantAtATime ==
  ASSUME HeartbeatsKeepUp
  PROVE  Spec => [](HeldClaims /\ OneClaimant)
<1>1. TypeInv /\ PageInv /\ ClaimsHeld /\ [Next]_vars => ClaimsHeld'
  BY ClaimsStep
<1>2. ClaimsHeld => HeldClaims /\ OneClaimant
  BY DEF ClaimsHeld
<1> QED BY <1>1, <1>2, ClaimsInit, Paging, PTL DEF Spec

----------------------------------------------------------------------------
(* 3. The incident catches up with its episode                             *)

\* Progress only rises, so nothing, stored or about to be written, is ahead of
\* the episode; a number not opened yet has no incident.
Within(x, e) == x.count <= episode[e].count /\ x.observed <= episode[e].observed

IncidentsWithin ==
  \A e \in Episodes : incident[e].exists => e <= opened /\ Within(incident[e], e)

CallsWithin ==
  \A c \in Calls : call[c].pc # "idle" =>
    Within(call[c], call[c].e) /\ Within(call[c].rec, call[c].e)

\* A call that will still bring the incident level with its episode: it is
\* going to complete its claim, or carries the latest progress itself.
Brings(c, e) ==
  /\ call[c].pc # "idle" /\ call[c].e = e
  /\ \/ call[c].pc \in Claiming
     \/ call[c].pc = "coalesced" /\ SameProgress(call[c], episode[e])
     \/ call[c].pc = "merging" /\ SameProgress(call[c].rec, episode[e])

MergesExist == \A c \in Calls : call[c].pc = "merging" => incident[call[c].e].exists

LevelOrBrought(e) ==
  incident[e].exists =>
    SameProgress(incident[e], episode[e]) \/ \E c \in Calls : Brings(c, e)

CatchUp ==
  ~crashed /\ purges = 0 =>
    MergesExist /\ \A e \in Episodes : LevelOrBrought(e)

ProgressInv == IncidentsWithin /\ CallsWithin

LEMMA ProgressNumbers ==
  ASSUME TypeInv
  PROVE  /\ \A e \in Episodes : /\ episode[e].count \in Nat /\ episode[e].observed \in Nat
                                /\ incident[e].count \in Nat /\ incident[e].observed \in Nat
         /\ \A c \in Calls : /\ call[c].count \in Nat /\ call[c].observed \in Nat
                             /\ call[c].rec.count \in Nat /\ call[c].rec.observed \in Nat
<1>0. MaxCount \in Nat /\ 0..MaxCount \subseteq Nat /\ Ranks \subseteq Nat
  BY EpisodeAssumption DEF Ranks
<1>1. ASSUME NEW e \in Episodes
      PROVE  /\ episode[e].count \in Nat /\ episode[e].observed \in Nat
             /\ incident[e].count \in Nat /\ incident[e].observed \in Nat
  BY <1>0 DEF TypeInv, TypeOK, EpisodeType, IncidentType
<1>2. ASSUME NEW c \in Calls
      PROVE  /\ call[c].count \in Nat /\ call[c].observed \in Nat
             /\ call[c].rec.count \in Nat /\ call[c].rec.observed \in Nat
  BY <1>0 DEF TypeInv, TypeOK, CallType, IncidentType
<1> QED BY <1>1, <1>2

\* What one step may do to the progress of an episode that is open already.
Rises(e) ==
  episode'[e].count >= episode[e].count /\ episode'[e].observed >= episode[e].observed

\* The record a call keeps always has a progress the call could write.
LEMMA CallRecords ==
  ASSUME TypeInv, NEW c \in Calls,
         Advance(c) \/ InspectFails(c) \/ Crash(c) \/ \E outcome \in Holds : Hold(c, outcome)
  PROVE  \/ call'[c] = Idle
         \/ /\ Carries(c, call'[c].rec)
            /\ call'[c].pc = "merging" =>
                 /\ call[c].pc = "coalesced" /\ incident[call[c].e].exists
                 /\ incident' = incident
                 /\ SameProgress(call'[c].rec, call[c])
<1>0. call \in [Calls -> CallType] /\ call[c] \in CallType
  BY DEF TypeInv, TypeOK
<1>1. CASE CoalesceRead(c)
  <2> DEFINE rec == [incident[call[c].e] EXCEPT !.count = call[c].count,
                       !.observed = call[c].observed, !.status = ""]
  <2>1. /\ call[c].pc = "coalesced" /\ incident' = incident
        /\ call' = [call EXCEPT ![c] =
                      IF incident[call[c].e].exists
                      THEN [call[c] EXCEPT !.pc = "merging", !.rec = rec]
                      ELSE Idle]
    BY <1>1 DEF CoalesceRead
  <2>2. SameProgress(rec, call[c])
    BY <2>1, CallFacts DEF SameProgress, IncidentType
  <2> HIDE DEF rec
  <2>3. CASE incident[call[c].e].exists
    <3>1. call'[c].rec = rec
      BY <2>1, <2>3, <1>0 DEF CallType
    <3> QED BY <2>1, <2>2, <2>3, <3>1 DEF Carries
  <2>4. CASE ~incident[call[c].e].exists
    BY <2>1, <2>4, <1>0
  <2> QED BY <2>3, <2>4
<1>2. CASE CoalesceSave(c) \/ Conclude(c) \/ Crash(c)
  <2>1. call' = [call EXCEPT ![c] = Idle]
    <3>1. CASE CoalesceSave(c)
      BY <3>1 DEF CoalesceSave
    <3>2. CASE Conclude(c)
      BY <3>2 DEF Conclude
    <3>3. CASE Crash(c)
      BY <3>3 DEF Crash
    <3> QED BY <1>2, <3>1, <3>2, <3>3
  <2> QED BY <2>1, <1>0
<1>3. CASE \/ Inspect(c) \/ InspectFails(c) \/ StartOnCall(c)
           \/ \E outcome \in {"sent", "partial", "failed"} : FanOut(c, outcome)
           \/ \E outcome \in Holds : Hold(c, outcome)
  <2>1. call'[c].rec = call[c].rec /\ call'[c].pc # "merging"
    <3>1. CASE Inspect(c)
      BY <3>1, <1>0 DEF Inspect, CallType
    <3>2. CASE InspectFails(c)
      BY <3>2, <1>0 DEF InspectFails, CallType
    <3>3. CASE StartOnCall(c)
      BY <3>3, <1>0 DEF StartOnCall, CallType
    <3>4. CASE \E outcome \in {"sent", "partial", "failed"} : FanOut(c, outcome)
      BY <3>4, <1>0 DEF FanOut, CallType
    <3>5. CASE \E outcome \in Holds : Hold(c, outcome)
      <4>1. PICK outcome \in Holds :
              call' = [call EXCEPT ![c].pc = "concluding", ![c].outcome = outcome]
        BY <3>5 DEF Hold
      <4> QED BY <4>1, <1>0 DEF CallType
    <3> QED BY <1>3, <3>1, <3>2, <3>3, <3>4, <3>5
  <2> QED BY <2>1 DEF Carries, SameProgress
<1>4. CASE Announce(c)
  <2> DEFINE draft == Draft(c, "pending")
             rec == IF call[c].skip THEN draft
                    ELSE [draft EXCEPT !.oncall = Pages(call[c].severity)]
  <2>1. /\ call[c].pc = "inspected"
        /\ call' = [call EXCEPT ![c].pc = "announced", ![c].rec = rec]
    BY <1>4 DEF Announce
  <2>2. draft \in IncidentType /\ SameProgress(draft, call[c])
    BY <2>1, DraftFields DEF SameProgress
  <2>3. SameProgress(rec, call[c])
    <3> HIDE DEF draft
    <3> QED BY <2>2 DEF SameProgress, IncidentType
  <2> HIDE DEF rec
  <2>4. call'[c].rec = rec /\ call'[c].pc = "announced"
    BY <2>1, <1>0 DEF CallType
  <2> QED BY <2>3, <2>4 DEF Carries
<1>5. CASE Stamp(c)
  <2> DEFINE latest == IF incident[call[c].e].exists THEN incident[call[c].e] ELSE call[c].rec
             rec == [latest EXCEPT !.status = call[c].outcome]
  <2>1. /\ call[c].pc = "sent"
        /\ call' = [call EXCEPT ![c].pc = "stamped", ![c].rec = rec]
    BY <1>5 DEF Stamp
  <2>2. latest \in IncidentType
    BY <2>1, <1>0, CallFacts DEF CallType
  <2>3. SameProgress(rec, latest)
    <3> HIDE DEF latest
    <3> QED BY <2>2 DEF SameProgress, IncidentType
  <2>4. Carries(c, rec)
    <3> HIDE DEF rec
    <3> QED BY <2>3 DEF Carries, SameProgress
  <2> HIDE DEF rec
  <2>5. call'[c].rec = rec /\ call'[c].pc = "stamped"
    BY <2>1, <1>0 DEF CallType
  <2> QED BY <2>4, <2>5
<1> QED BY <1>1, <1>2, <1>3, <1>4, <1>5 DEF Advance

\* Saving a record that is not ahead keeps the incident within, and level if it
\* was level.
LEMMA SavedWithin ==
  ASSUME TypeInv, NEW e \in Episodes, NEW rec \in IncidentType,
         incident[e].exists => Within(incident[e], e), Within(rec, e)
  PROVE  LET inc == Saved(incident[e], rec) IN
         /\ Within(inc, e)
         /\ incident[e].exists => inc.exists
         /\ (incident[e].exists /\ SameProgress(incident[e], episode[e]))
              => SameProgress(inc, episode[e])
         /\ SameProgress(rec, episode[e]) => SameProgress(inc, episode[e])
<1>0. /\ incident[e] \in IncidentType /\ rec.count \in Nat /\ rec.observed \in Nat
      /\ incident[e].count \in Nat /\ incident[e].observed \in Nat
      /\ episode[e].count \in Nat /\ episode[e].observed \in Nat
  <2>1. 0..MaxCount \subseteq Nat /\ Ranks \subseteq Nat
    BY EpisodeAssumption DEF Ranks
  <2>2. rec.count \in 0..MaxCount /\ rec.observed \in Ranks
    BY DEF IncidentType
  <2> QED BY <2>1, <2>2, ProgressNumbers DEF TypeInv, TypeOK
<1> DEFINE inc == Saved(incident[e], rec)
<1>1. CASE ~incident[e].exists
  BY <1>0, <1>1, SavedNew DEF SameProgress
<1>2. CASE incident[e].exists
  <2>1. /\ inc.exists /\ inc.count = Greater(incident[e].count, rec.count)
        /\ inc.observed = Greater(incident[e].observed, rec.observed)
    BY <1>0, <1>2, SavedFields
  <2> HIDE DEF inc
  <2>2. /\ Within(inc, e)
        /\ SameProgress(incident[e], episode[e]) => SameProgress(inc, episode[e])
        /\ SameProgress(rec, episode[e]) => SameProgress(inc, episode[e])
    BY <1>0, <1>2, <2>1 DEF Within, SameProgress, Greater
  <2> QED BY <1>2, <2>1, <2>2 DEF inc
<1> QED BY <1>1, <1>2

\* What a step of a call under way does to episodes and incidents: it leaves
\* every other incident, and takes back nothing of its own.
LEMMA CallEffect ==
  ASSUME TypeInv, ProgressInv, NEW c \in Calls,
         Advance(c) \/ InspectFails(c) \/ Crash(c) \/ \E outcome \in Holds : Hold(c, outcome)
  PROVE  /\ opened' = opened
         /\ \A e \in Episodes : SameProgress(episode'[e], episode[e])
         /\ \A e \in Episodes \ {call[c].e} : incident'[e] = incident[e]
         /\ \A e \in Episodes :
              /\ incident[e].exists => incident'[e].exists
              /\ incident'[e].exists => Within(incident'[e], e)
              /\ incident[e].exists /\ SameProgress(incident[e], episode[e])
                   => SameProgress(incident'[e], episode[e])
         /\ \A rec : Carries(c, rec) => Within(rec, call[c].e)
<1> DEFINE e == call[c].e
<1>0. /\ call[c].pc # "idle" /\ e \in Episodes /\ incident[e] \in IncidentType
      /\ Within(call[c], e) /\ Within(call[c].rec, e)
      /\ incident[e].exists => Within(incident[e], e)
  BY CallMoves, CallFacts DEF ProgressInv, IncidentsWithin, CallsWithin
<1>1. opened' = opened
  BY DEF Advance, CoalesceRead, CoalesceSave, Inspect, Announce, Stamp, StartOnCall,
         FanOut, Conclude, InspectFails, Crash, Hold, store
<1>2. \A rec : Carries(c, rec) => Within(rec, e)
  BY <1>0 DEF Carries, SameProgress, Within
<1>3. \A n \in Episodes : SameProgress(episode'[n], episode[n])
  <2>1. CASE Conclude(c)
    <3> DEFINE ep == Complete(episode[e], call[c].token, call[c].outcome)
    <3>1. episode' = [episode EXCEPT ![e] = ep]
      BY <2>1 DEF Conclude
    <3>2. SameProgress(ep, episode[e])
      BY <1>0, CallFacts DEF Complete, SameProgress, EpisodeType
    <3> HIDE DEF ep
    <3> QED BY <1>0, <3>1, <3>2 DEF SameProgress, TypeInv, TypeOK
  <2>2. CASE ~Conclude(c)
    <3>1. UNCHANGED episode
      BY <2>2 DEF Advance, CoalesceRead, CoalesceSave, Inspect, Announce, Stamp,
                  StartOnCall, FanOut, InspectFails, Crash, Hold, store
    <3> QED BY <3>1 DEF SameProgress
  <2> QED BY <2>1, <2>2
<1>4. \A n \in Episodes \ {e} : incident'[n] = incident[n]
  BY <1>0, AdvanceWrites DEF Step, Writes, TypeInv, TypeOK
<1>5. /\ incident[e].exists => incident'[e].exists
      /\ incident'[e].exists => Within(incident'[e], e)
      /\ incident[e].exists /\ SameProgress(incident[e], episode[e])
           => SameProgress(incident'[e], episode[e])
  <2>1. CASE UNCHANGED incident
    BY <2>1, <1>0
  <2>2. CASE \E rec : Writes(c, rec)
    <3> PICK rec : Writes(c, rec)
      BY <2>2
    <3>1. rec \in IncidentType /\ Within(rec, e) /\ incident'[e] = Saved(incident[e], rec)
      BY <1>0, <1>2 DEF Writes, TypeInv, TypeOK
    <3> HIDE DEF e
    <3> QED BY <3>1, <1>0, SavedWithin
  <2>3. CASE \E ep \in EpisodeType :
               /\ SameProgress(ep, episode[call[c].e])
               /\ incident' = [incident EXCEPT ![call[c].e] = Applied(incident[call[c].e], ep)]
    <3> PICK ep \in EpisodeType :
               /\ SameProgress(ep, episode[e])
               /\ incident' = [incident EXCEPT ![e] = Applied(incident[e], ep)]
      BY <2>3
    <3>1. incident'[e] = Applied(incident[e], ep)
      BY <1>0 DEF TypeInv, TypeOK
    <3>2. /\ incident'[e].exists = incident[e].exists
          /\ incident[e].exists => SameProgress(incident'[e], episode[e])
      BY <1>0, <3>1, AppliedFields DEF SameProgress
    <3>3. episode[e].count \in Nat /\ episode[e].observed \in Nat
      BY <1>0, ProgressNumbers
    <3> HIDE DEF e
    <3> QED BY <3>2, <3>3 DEF SameProgress, Within
  <2> QED BY <2>1, <2>2, <2>3, AdvanceWrites DEF Step
<1> HIDE DEF e
<1>6. \A n \in Episodes :
              /\ incident[n].exists => incident'[n].exists
              /\ incident'[n].exists => Within(incident'[n], n)
              /\ incident[n].exists /\ SameProgress(incident[n], episode[n])
                   => SameProgress(incident'[n], episode[n])
  BY <1>4, <1>5 DEF ProgressInv, IncidentsWithin
<1> QED BY <1>1, <1>2, <1>3, <1>4, <1>6 DEF e

LEMMA ProgressCall ==
  ASSUME TypeInv, ProgressInv, NEW c \in Calls,
         Advance(c) \/ InspectFails(c) \/ Crash(c) \/ \E outcome \in Holds : Hold(c, outcome)
  PROVE  ProgressInv'
<1>1. /\ opened' = opened
      /\ \A e \in Episodes : SameProgress(episode'[e], episode[e])
      /\ \A e \in Episodes : incident'[e].exists => Within(incident'[e], e)
      /\ \A e \in Episodes \ {call[c].e} : incident'[e] = incident[e]
      /\ \A rec : Carries(c, rec) => Within(rec, call[c].e)
  BY CallEffect
<1>2. call[c].pc # "idle" /\ call[c].e \in 1..opened
  BY CallMoves, CallFacts
<1>3. opened \in Nat
  BY EpisodeAssumption DEF TypeInv, TypeOK
<1>4. IncidentsWithin'
  <2> SUFFICES ASSUME NEW e \in Episodes, incident'[e].exists
               PROVE  e <= opened' /\ Within(incident[e], e)'
    BY DEF IncidentsWithin
  <2>1. e <= opened
    BY <1>1, <1>2, <1>3 DEF ProgressInv, IncidentsWithin
  <2> QED BY <1>1, <2>1 DEF Within, SameProgress
<1>5. CallsWithin'
  <2> SUFFICES ASSUME NEW d \in Calls, call'[d].pc # "idle"
               PROVE  Within(call[d], call[d].e)' /\ Within(call[d].rec, call[d].e)'
    BY DEF CallsWithin
  <2>1. CASE d # c
    <3>1. call'[d] = call[d] /\ call[d].e \in Episodes
      BY <2>1, CallMoves, CallFacts
    <3> QED BY <3>1, <1>1 DEF ProgressInv, CallsWithin, Within, SameProgress
  <2>2. CASE d = c
    <3>1. SameDecision(call[c], call'[c]) /\ Carries(c, call'[c].rec)
      BY <2>2, CallMoves, CallRecords DEF Idle
    <3>2. Within(call[c], call[c].e) /\ Within(call'[c].rec, call[c].e)
      BY <1>1, <1>2, <3>1 DEF ProgressInv, CallsWithin
    <3>3. call[c].e \in Episodes
      BY <1>2, CallFacts
    <3> QED BY <1>1, <2>2, <3>1, <3>2, <3>3 DEF Within, SameProgress, SameDecision
  <2> QED BY <2>1, <2>2
<1> QED BY <1>4, <1>5 DEF ProgressInv

\* The first step of a call takes the episode's latest progress with it.
LEMMA ProgressEmitted ==
  ASSUME TypeInv, TypeInv', ProgressInv, NEW c \in Calls, NEW e \in Episodes, NEW cl,
         UNCHANGED incident, opened <= opened',
         \A n \in Episodes : n <= opened => Rises(n),
         call' = [call EXCEPT ![c] = cl],
         cl.e = e, SameProgress(cl, episode'[e]), cl.rec = NoIncident
  PROVE  ProgressInv'
<1>0. /\ MaxCount \in Nat /\ 0..MaxCount \subseteq Nat /\ Ranks \subseteq Nat
      /\ opened \in Nat /\ opened' \in Nat /\ Episodes \subseteq Nat
  BY EpisodeAssumption DEF Ranks, TypeInv, TypeOK, Episodes
<1>1. \A n \in Episodes : episode'[n].count \in Nat /\ episode'[n].observed \in Nat
  BY <1>0 DEF TypeInv, TypeOK, EpisodeType
<1>2. IncidentsWithin'
  <2> SUFFICES ASSUME NEW n \in Episodes, incident[n].exists
               PROVE  n <= opened' /\ Within(incident[n], n)'
    BY DEF IncidentsWithin
  <2>1. n <= opened /\ Within(incident[n], n)
    BY DEF ProgressInv, IncidentsWithin
  <2>2. Rises(n) /\ n \in Nat
    BY <1>0, <2>1
  <2>3. n <= opened'
    BY <1>0, <2>1, <2>2
  <2>4. /\ incident[n].count \in Nat /\ incident[n].observed \in Nat
        /\ episode[n].count \in Nat /\ episode[n].observed \in Nat
        /\ episode'[n].count \in Nat /\ episode'[n].observed \in Nat
    BY <1>1, ProgressNumbers
  <2>5. Within(incident[n], n)'
    BY <2>1, <2>2, <2>4 DEF Within, Rises
  <2> QED BY <2>3, <2>5
<1>3. CallsWithin'
  <2> SUFFICES ASSUME NEW d \in Calls, call'[d].pc # "idle"
               PROVE  Within(call[d], call[d].e)' /\ Within(call[d].rec, call[d].e)'
    BY DEF CallsWithin
  <2>1. CASE d # c
    <3>1. call'[d] = call[d]
      BY <2>1 DEF TypeInv, TypeOK
    <3>2. call[d].e \in Episodes /\ call[d].e \in 1..opened
      BY <3>1, CallFacts
    <3>3. Rises(call[d].e)
      BY <3>2, <1>0
    <3> QED BY <1>1, <3>1, <3>2, <3>3, ProgressNumbers
            DEF ProgressInv, CallsWithin, Within, Rises
  <2>2. CASE d = c
    <3>1. call'[c] = cl
      BY DEF TypeInv, TypeOK
    <3>2. NoIncident.count = 0 /\ NoIncident.observed = 0
      BY DEF NoIncident
    <3> QED BY <1>1, <2>2, <3>1, <3>2 DEF Within, SameProgress
  <2> QED BY <2>1, <2>2
<1> QED BY <1>2, <1>3 DEF ProgressInv

LEMMA CountedRises ==
  ASSUME NEW ep \in EpisodeType, NEW severity \in Ranks, NEW lag \in 0..MaxLag
  PROVE  /\ Counted(ep, severity, lag).count >= ep.count
         /\ Counted(ep, severity, lag).observed >= ep.observed
<1>1. ep.count \in Nat /\ ep.count <= MaxCount /\ MaxCount \in Nat
  BY EpisodeAssumption DEF EpisodeType
<1>2. Counted(ep, severity, lag).count = Lesser(ep.count + 1, MaxCount)
  BY DEF Counted, EpisodeType
<1> QED BY <1>1, <1>2, CountedType DEF Lesser

\* How the first step changes the episodes and the call.
EmitEffect(c) ==
  \E e \in Episodes : \E cl :
    /\ call[c].pc = "idle" /\ call' = [call EXCEPT ![c] = cl]
    /\ cl.e = e /\ SameProgress(cl, episode'[e]) /\ cl.rec = NoIncident
    /\ cl.pc \in Claiming \cup {"coalesced"}
    /\ UNCHANGED incident /\ opened <= opened'
    /\ \A n \in Episodes : n <= opened => Rises(n)
    /\ \A n \in Episodes \ {e} : SameProgress(episode'[n], episode[n])
    /\ UNCHANGED <<crashed, purges>>

LEMMA EmitEffects ==
  ASSUME TypeInv, NEW c \in Calls, Emit(c)
  PROVE  EmitEffect(c)
<1> PICK severity \in Severities :
      EmitCoalesced(c, severity) \/ EmitClaims(c, severity) \/ EmitOpens(c, severity)
  BY DEF Emit
<1>0. /\ severity \in Ranks /\ 0 \in 0..MaxLag /\ Episodes = 1..MaxEpisodes
      /\ opened \in Nat /\ opened <= MaxEpisodes /\ MaxEpisodes \in Nat
      /\ \A n \in Episodes : /\ episode[n] \in EpisodeType
                             /\ episode[n].count \in Nat /\ episode[n].observed \in Nat
  <2>1. severity \in Ranks
    BY SeverityType
  <2>2. \A n \in Episodes : /\ episode[n] \in EpisodeType
                            /\ episode[n].count \in Nat /\ episode[n].observed \in Nat
    BY ProgressNumbers DEF TypeInv, TypeOK
  <2>3. opened \in 0..MaxEpisodes
    BY DEF TypeInv, TypeOK
  <2> QED BY <2>1, <2>2, <2>3, EpisodeAssumption DEF Episodes
<1>1. \A n \in Episodes : SameProgress(episode'[n], episode[n]) => Rises(n)
  BY <1>0 DEF SameProgress, Rises
<1>2. ASSUME EmitCoalesced(c, severity) \/ EmitClaims(c, severity)
      PROVE  EmitEffect(c)
  <2> DEFINE counted == Counted(episode[active], severity, 0)
             claimed == Claimed(counted, Owed(counted), tokens + 1)
  <2>1. active \in Episodes /\ call[c].pc = "idle" /\ opened' = opened
        /\ UNCHANGED <<incident, crashed, purges>>
    BY <1>2, <1>0 DEF EmitCoalesced, EmitClaims, Continues, TypeInv, TypeOK
  <2>2. counted \in EpisodeType
    BY <1>0, <2>1, CountedType
  <2>3. counted.count >= episode[active].count /\ counted.observed >= episode[active].observed
    BY <1>0, <2>1, CountedRises
  <2>4. SameProgress(claimed, counted)
    <3> HIDE DEF counted
    <3> QED BY <2>2 DEF Claimed, SameProgress, EpisodeType
  <2>5. PICK ep : \E cl : /\ SameProgress(ep, counted) /\ cl.e = active
                          /\ SameProgress(cl, ep) /\ cl.rec = NoIncident
                          /\ cl.pc \in Claiming \cup {"coalesced"}
                          /\ episode' = [episode EXCEPT ![active] = ep]
                          /\ call' = [call EXCEPT ![c] = cl]
    <3>1. CASE EmitCoalesced(c, severity)
      <4> DEFINE cl == [Decided(active, counted, severity) EXCEPT !.pc = "coalesced", !.token = 0]
      <4>1. /\ episode' = [episode EXCEPT ![active] = counted]
            /\ call' = [call EXCEPT ![c] = cl]
        BY <3>1 DEF EmitCoalesced
      <4> HIDE DEF counted
      <4>2. cl.e = active /\ SameProgress(cl, counted) /\ cl.rec = NoIncident
            /\ cl.pc = "coalesced" /\ SameProgress(counted, counted)
        BY DEF Decided, Idle, SameProgress
      <4> HIDE DEF cl
      <4> QED BY <4>1, <4>2
    <3>2. CASE EmitClaims(c, severity)
      <4> DEFINE cl == Decided(active, claimed, severity)
      <4>1. /\ episode' = [episode EXCEPT ![active] = claimed]
            /\ call' = [call EXCEPT ![c] = cl]
        BY <3>2 DEF EmitClaims
      <4> HIDE DEF counted, claimed
      <4>2. cl.e = active /\ SameProgress(cl, claimed) /\ cl.rec = NoIncident
            /\ cl.pc = "claimed"
        BY DEF Decided, Idle, SameProgress
      <4> HIDE DEF cl
      <4>3. cl.pc \in Claiming
        BY <4>2 DEF Claiming
      <4> QED BY <4>1, <4>2, <4>3, <2>4
    <3> QED BY <1>2, <3>1, <3>2
  <2> HIDE DEF counted, claimed
  <2>6. PICK cl : /\ SameProgress(ep, counted) /\ cl.e = active
                  /\ SameProgress(cl, ep) /\ cl.rec = NoIncident
                  /\ cl.pc \in Claiming \cup {"coalesced"}
                  /\ episode' = [episode EXCEPT ![active] = ep]
                  /\ call' = [call EXCEPT ![c] = cl]
    BY <2>5
  <2>7. episode'[active] = ep /\ \A n \in Episodes \ {active} : episode'[n] = episode[n]
    BY <2>1, <2>6 DEF TypeInv, TypeOK
  <2>8. \A n \in Episodes \ {active} : SameProgress(episode'[n], episode[n])
    BY <2>7 DEF SameProgress
  <2>9. Rises(active)
    BY <2>3, <2>6, <2>7 DEF SameProgress, Rises
  <2>10. \A n \in Episodes : n <= opened => Rises(n)
    BY <1>1, <2>8, <2>9
  <2>11. SameProgress(cl, episode'[active]) /\ opened <= opened'
    BY <1>0, <2>1, <2>6, <2>7
  <2> QED BY <2>1, <2>6, <2>8, <2>10, <2>11 DEF EmitEffect
<1>3. ASSUME EmitOpens(c, severity)
      PROVE  EmitEffect(c)
  <2> DEFINE e == opened + 1
             ep == Claimed(NewEpisode(severity), "initial", tokens + 1)
             cl == Decided(e, ep, severity)
  <2>1. /\ e \in Episodes /\ call[c].pc = "idle" /\ opened' = e
        /\ episode' = [n \in Episodes |->
                         IF n = e THEN ep
                         ELSE IF n = active THEN Closed(episode[n]) ELSE episode[n]]
        /\ call' = [call EXCEPT ![c] = cl]
        /\ UNCHANGED <<incident, crashed, purges>>
    BY <1>3, <1>0 DEF EmitOpens
  <2>2. /\ cl.e = e /\ SameProgress(cl, ep) /\ cl.rec = NoIncident
        /\ cl.pc \in Claiming
    <3> HIDE DEF ep
    <3>1. /\ cl.e = e /\ SameProgress(cl, ep) /\ cl.rec = NoIncident
          /\ cl.pc = "claimed"
      BY DEF Decided, Idle, SameProgress
    <3> HIDE DEF cl
    <3> QED BY <3>1 DEF Claiming
  <2> HIDE DEF ep, cl
  <2>3. episode'[e] = ep
    BY <2>1
  <2>4. \A n \in Episodes \ {e} : SameProgress(episode'[n], episode[n])
    <3> SUFFICES ASSUME NEW n \in Episodes \ {e}
                 PROVE  SameProgress(episode'[n], episode[n])
      OBVIOUS
    <3>1. episode'[n] = episode[n] \/ episode'[n] = Closed(episode[n])
      BY <2>1
    <3> QED BY <1>0, <3>1 DEF Closed, SameProgress, EpisodeType
  <2>5. opened <= opened' /\ \A n \in Episodes : n <= opened => n # e
    BY <1>0, <2>1
  <2> HIDE DEF e
  <2> QED BY <1>1, <2>1, <2>2, <2>3, <2>4, <2>5 DEF EmitEffect
<1> QED BY <1>2, <1>3

\* The steps outside the calls that concern progress: an observation counts
\* towards the open episode, and its incident is set level with it at once.
RestEffect ==
  /\ UNCHANGED <<opened, call, crashed>> /\ purges' >= purges
  /\ \A e \in Episodes :
       \/ /\ SameProgress(episode'[e], episode[e])
          /\ \/ /\ incident'[e].exists = incident[e].exists
                /\ SameProgress(incident'[e], incident[e])
             \/ ~incident'[e].exists /\ purges' = purges + 1
       \/ /\ Rises(e) /\ e <= opened
          /\ incident'[e].exists = incident[e].exists
          /\ incident[e].exists => SameProgress(incident'[e], episode'[e])

LEMMA RestEffects ==
  ASSUME TypeInv,
         \/ Tick \/ \E c \in Calls : Renew(c)
         \/ \E hint \in Hints, lag \in 0..MaxLag : Continue(hint, lag)
         \/ \E e \in Episodes : Resolve(e) \/ CloseByIncident(e) \/ Purge(e)
         \/ UNCHANGED vars
  PROVE  RestEffect
<1>0. /\ \A e \in Episodes : episode[e] \in EpisodeType /\ incident[e] \in IncidentType
      /\ purges \in Nat
      /\ active # 0 => active \in Episodes /\ active <= opened
  BY EpisodeAssumption DEF TypeInv, TypeOK, Episodes
<1>1. CASE \E hint \in Hints, lag \in 0..MaxLag : Continue(hint, lag)
  <2> PICK hint \in Hints, lag \in 0..MaxLag : Continue(hint, lag)
    BY <1>1
  <2> DEFINE ep == Counted(episode[active], Normalize(hint), lag)
  <2>1. active \in Episodes /\ active <= opened /\ UNCHANGED <<opened, call, crashed, purges>>
    BY <1>0 DEF Continue
  <2>2. /\ ep \in EpisodeType /\ ep.count >= episode[active].count
        /\ ep.observed >= episode[active].observed
    BY <1>0, <2>1, NormalizeType, CountedType, CountedRises
  <2>3. \/ /\ episode' = [episode EXCEPT ![active] = Closed(episode[active])]
           /\ UNCHANGED incident
        \/ /\ episode' = [episode EXCEPT ![active] = ep]
           /\ incident' = [incident EXCEPT ![active] = Applied(incident[active], ep)]
    BY DEF Continue
  <2> HIDE DEF ep
  <2>4. CASE /\ episode' = [episode EXCEPT ![active] = Closed(episode[active])]
             /\ UNCHANGED incident
    <3>1. \A e \in Episodes : episode'[e] = episode[e] \/ episode'[e] = Closed(episode[e])
      BY <2>4 DEF TypeInv, TypeOK
    <3>2. \A e \in Episodes : SameProgress(episode'[e], episode[e])
      BY <1>0, <3>1 DEF Closed, SameProgress, EpisodeType
    <3> QED BY <1>0, <2>1, <2>4, <3>2 DEF RestEffect, SameProgress
  <2>5. CASE /\ episode' = [episode EXCEPT ![active] = ep]
             /\ incident' = [incident EXCEPT ![active] = Applied(incident[active], ep)]
    <3>1. /\ episode'[active] = ep /\ incident'[active] = Applied(incident[active], ep)
          /\ \A e \in Episodes \ {active} : /\ episode'[e] = episode[e]
                                            /\ incident'[e] = incident[e]
      BY <2>1, <2>5 DEF TypeInv, TypeOK
    <3>2. /\ incident'[active].exists = incident[active].exists
          /\ incident[active].exists => SameProgress(incident'[active], ep)
      BY <1>0, <2>1, <2>2, <3>1, AppliedFields DEF SameProgress
    <3>3. Rises(active)
      BY <2>2, <3>1 DEF Rises
    <3> QED BY <1>0, <2>1, <3>1, <3>2, <3>3 DEF RestEffect, SameProgress
  <2> QED BY <2>3, <2>4, <2>5
<1>2. ASSUME NEW n \in Episodes, Purge(n)
      PROVE  RestEffect
  <2>1. /\ incident'[n] = NoIncident /\ \A e \in Episodes \ {n} : incident'[e] = incident[e]
        /\ UNCHANGED <<episode, opened, call, crashed>> /\ purges' = purges + 1
    BY <1>2 DEF Purge, store, TypeInv, TypeOK
  <2>2. ~NoIncident.exists
    BY DEF NoIncident
  <2> QED BY <1>0, <2>1, <2>2 DEF RestEffect, SameProgress
<1>3. ASSUME \/ Tick \/ \E c \in Calls : Renew(c)
             \/ \E e \in Episodes : Resolve(e) \/ CloseByIncident(e)
             \/ UNCHANGED vars
      PROVE  RestEffect
  <2>1. UNCHANGED <<opened, call, crashed, purges>>
    BY <1>3 DEF Tick, Renew, Resolve, CloseByIncident, store, hist, vars
  <2>2. \A e \in Episodes : SameProgress(episode'[e], episode[e])
    <3> SUFFICES ASSUME NEW e \in Episodes PROVE SameProgress(episode'[e], episode[e])
      OBVIOUS
    <3>1. CASE Tick
      BY <3>1, <1>0 DEF Tick, SameProgress, EpisodeType
    <3>2. CASE \E c \in Calls : Renew(c)
      <4>1. PICK c \in Calls : episode' = [episode EXCEPT ![call[c].e] =
                                 [episode[call[c].e] EXCEPT !.lease = Lease]]
        BY <3>2 DEF Renew
      <4>2. \/ episode'[e] = episode[e]
            \/ episode'[e] = [episode[e] EXCEPT !.lease = Lease]
        BY <4>1 DEF TypeInv, TypeOK
      <4> QED BY <4>2, <1>0 DEF SameProgress, EpisodeType
    <3>3. CASE \E n \in Episodes : Resolve(n) \/ CloseByIncident(n)
      <4>1. episode'[e] = episode[e] \/ episode'[e] = Closed(episode[e])
        BY <3>3 DEF Resolve, CloseByIncident, store, TypeInv, TypeOK
      <4> QED BY <4>1, <1>0 DEF Closed, SameProgress, EpisodeType
    <3>4. CASE UNCHANGED vars
      BY <3>4 DEF vars, store, SameProgress
    <3> QED BY <1>3, <3>1, <3>2, <3>3, <3>4
  <2>3. \A e \in Episodes : /\ incident'[e].exists = incident[e].exists
                            /\ SameProgress(incident'[e], incident[e])
    <3>1. CASE UNCHANGED incident
      BY <3>1 DEF SameProgress
    <3>2. CASE \E n \in Episodes : Resolve(n)
      <4>1. PICK n \in Episodes :
              incident' = [incident EXCEPT ![n] = [incident[n] EXCEPT !.resolved = TRUE]]
        BY <3>2 DEF Resolve
      <4>2. \A e \in Episodes : \/ incident'[e] = incident[e]
                                \/ incident'[e] = [incident[e] EXCEPT !.resolved = TRUE]
        BY <4>1 DEF TypeInv, TypeOK
      <4> QED BY <4>2, <1>0 DEF SameProgress, IncidentType
    <3> QED BY <1>3, <3>1, <3>2 DEF Tick, Renew, CloseByIncident, vars
  <2> QED BY <1>0, <2>1, <2>2, <2>3 DEF RestEffect
<1> QED BY <1>1, <1>2, <1>3

LEMMA ProgressRest ==
  ASSUME TypeInv, TypeInv', ProgressInv, RestEffect
  PROVE  ProgressInv'
<1>0. /\ MaxCount \in Nat /\ 0..MaxCount \subseteq Nat /\ Ranks \subseteq Nat
  BY EpisodeAssumption DEF Ranks
<1>1. \A n \in Episodes : episode'[n].count \in Nat /\ episode'[n].observed \in Nat
  BY <1>0 DEF TypeInv, TypeOK, EpisodeType
<1>2. \A n \in Episodes : Rises(n)
  BY ProgressNumbers DEF RestEffect, SameProgress, Rises
<1>3. IncidentsWithin'
  <2> SUFFICES ASSUME NEW n \in Episodes, incident'[n].exists
               PROVE  n <= opened /\ Within(incident[n], n)'
    BY DEF IncidentsWithin, RestEffect
  <2>1. CASE /\ SameProgress(episode'[n], episode[n])
             /\ incident'[n].exists = incident[n].exists
             /\ SameProgress(incident'[n], incident[n])
    BY <2>1 DEF ProgressInv, IncidentsWithin, Within, SameProgress
  <2>2. CASE n <= opened /\ SameProgress(incident'[n], episode'[n])
    BY <1>1, <2>2 DEF Within, SameProgress
  <2> QED BY <2>1, <2>2 DEF RestEffect
<1>4. CallsWithin'
  <2> SUFFICES ASSUME NEW d \in Calls, call[d].pc # "idle"
               PROVE  Within(call[d], call[d].e)' /\ Within(call[d].rec, call[d].e)'
    BY DEF CallsWithin, RestEffect
  <2>1. call'[d] = call[d] /\ call[d].e \in Episodes
    BY CallFacts DEF RestEffect
  <2> QED BY <1>1, <1>2, <2>1, ProgressNumbers
          DEF ProgressInv, CallsWithin, Within, Rises
<1> QED BY <1>3, <1>4 DEF ProgressInv

LEMMA ProgressStep ==
  ASSUME TypeInv, TypeInv', ProgressInv, [Next]_vars
  PROVE  ProgressInv'
<1>1. ASSUME NEW c \in Calls, Step(c)
      PROVE  ProgressInv'
  <2>1. CASE Emit(c)
    <3>1. EmitEffect(c)
      BY <2>1, EmitEffects
    <3> QED BY <3>1, ProgressEmitted DEF EmitEffect
  <2>2. CASE Renew(c)
    BY <2>2, RestEffects, ProgressRest
  <2> QED BY <1>1, <2>1, <2>2, ProgressCall DEF Step
<1>2. CASE \/ Tick
           \/ \E hint \in Hints, lag \in 0..MaxLag : Continue(hint, lag)
           \/ \E e \in Episodes : Resolve(e) \/ CloseByIncident(e) \/ Purge(e)
           \/ UNCHANGED vars
  BY <1>2, RestEffects, ProgressRest
<1> QED BY <1>1, <1>2 DEF Next

\* A call that ends without dying leaves its incident level, if it could.
LEMMA LevelWhenDone ==
  ASSUME TypeInv, HeldClaims, ProgressInv, MergesExist, NEW c \in Calls,
         Advance(c) \/ InspectFails(c) \/ \E outcome \in Holds : Hold(c, outcome),
         call'[c] = Idle, incident'[call[c].e].exists
  PROVE  /\ incident[call[c].e].exists
         /\ Brings(c, call[c].e) =>
              SameProgress(incident'[call[c].e], episode'[call[c].e])
<1> DEFINE e == call[c].e
<1>0. /\ call[c].pc # "idle" /\ e \in Episodes /\ incident[e] \in IncidentType
      /\ episode[e] \in EpisodeType /\ call[c] \in CallType
      /\ call \in [Calls -> CallType]
  BY CallMoves, CallFacts DEF TypeInv, TypeOK
<1>1. Idle.pc = "idle"
  BY DEF Idle
<1>2. CASE CoalesceRead(c)
  <2>1. ~incident[e].exists
    <3> SUFFICES ASSUME incident[e].exists PROVE FALSE
      OBVIOUS
    <3>1. PICK rec : call' = [call EXCEPT ![c] = [call[c] EXCEPT !.pc = "merging", !.rec = rec]]
      BY <1>2 DEF CoalesceRead
    <3>2. call'[c].pc = "merging"
      BY <3>1, <1>0 DEF CallType
    <3> QED BY <3>2, <1>1
  <2> QED BY <2>1, <1>2 DEF CoalesceRead
<1>3. CASE CoalesceSave(c)
  <2>1. /\ call[c].pc = "merging" /\ incident[e].exists /\ UNCHANGED episode
        /\ incident'[e] = Saved(incident[e], call[c].rec)
    BY <1>0, <1>3 DEF CoalesceSave, MergesExist, store, TypeInv, TypeOK
  <2>2. /\ call[c].rec \in IncidentType /\ Within(call[c].rec, e)
        /\ Within(incident[e], e)
    BY <1>0, <2>1 DEF CallType, ProgressInv, CallsWithin, IncidentsWithin
  <2>3. Brings(c, e) => SameProgress(call[c].rec, episode[e])
    BY <2>1 DEF Brings, Claiming
  <2> HIDE DEF e
  <2>4. SameProgress(call[c].rec, episode[e]) =>
          SameProgress(Saved(incident[e], call[c].rec), episode[e])
    BY <1>0, <2>1, <2>2, SavedWithin
  <2>5. Brings(c, e) => SameProgress(incident'[e], episode'[e])
    BY <2>1, <2>3, <2>4
  <2> QED BY <2>1, <2>5 DEF e
<1>4. CASE Conclude(c)
  <2> DEFINE ep == Complete(episode[e], call[c].token, call[c].outcome)
  <2>1. call[c].token # 0 /\ episode[e].token = call[c].token
    BY <1>4 DEF Conclude, HeldClaims, Claiming, Holding
  <2>2. ep.token = 0 /\ SameProgress(ep, episode[e])
    BY <1>0, <2>1 DEF Complete, SameProgress, EpisodeType
  <2>3. ep # episode[e]
    <3> HIDE DEF ep
    <3> QED BY <2>1, <2>2
  <2>4. episode' = [episode EXCEPT ![e] = ep] /\ incident' = [incident EXCEPT ![e] = Applied(incident[e], ep)]
    BY <1>4, <2>3 DEF Conclude
  <2>5. ep \in EpisodeType
    <3>1. call[c].token \in 0..MaxTokens /\ call[c].outcome \in Outcomes
      BY <1>0 DEF CallType
    <3> HIDE DEF e
    <3> QED BY <1>0, <3>1, CompleteType
  <2> HIDE DEF ep
  <2>6. episode'[e] = ep /\ incident'[e] = Applied(incident[e], ep)
    BY <1>0, <2>4 DEF TypeInv, TypeOK
  <2> HIDE DEF e
  <2>7. /\ incident'[e].exists = incident[e].exists
        /\ incident[e].exists => SameProgress(incident'[e], ep)
    BY <1>0, <2>5, <2>6, AppliedFields DEF SameProgress
  <2> QED BY <2>6, <2>7 DEF e
<1>5. ASSUME \/ Inspect(c) \/ InspectFails(c) \/ Announce(c) \/ Stamp(c) \/ StartOnCall(c)
             \/ \E outcome \in {"sent", "partial", "failed"} : FanOut(c, outcome)
             \/ \E outcome \in Holds : Hold(c, outcome)
      PROVE  FALSE
  <2>1. CASE Inspect(c)
    BY <2>1, <1>0, <1>1 DEF Inspect, CallType
  <2>2. CASE InspectFails(c)
    BY <2>2, <1>0, <1>1 DEF InspectFails, CallType
  <2>3. CASE Announce(c)
    <3>1. PICK rec : call' = [call EXCEPT ![c].pc = "announced", ![c].rec = rec]
      BY <2>3 DEF Announce
    <3> QED BY <3>1, <1>0, <1>1 DEF CallType
  <2>4. CASE Stamp(c)
    <3>1. PICK rec : call' = [call EXCEPT ![c].pc = "stamped", ![c].rec = rec]
      BY <2>4 DEF Stamp
    <3> QED BY <3>1, <1>0, <1>1 DEF CallType
  <2>5. CASE StartOnCall(c)
    <3>1. call' = [call EXCEPT ![c].pc = "concluding"]
      BY <2>5 DEF StartOnCall
    <3> QED BY <3>1, <1>0, <1>1 DEF CallType
  <2>6. CASE \E outcome \in {"sent", "partial", "failed"} : FanOut(c, outcome)
    <3>1. PICK outcome \in {"sent", "partial", "failed"} :
            call' = [call EXCEPT ![c].pc = "sent", ![c].outcome = outcome]
      BY <2>6 DEF FanOut
    <3> QED BY <3>1, <1>0, <1>1 DEF CallType
  <2>7. CASE \E outcome \in Holds : Hold(c, outcome)
    <3>1. PICK outcome \in Holds :
            call' = [call EXCEPT ![c].pc = "concluding", ![c].outcome = outcome]
      BY <2>7 DEF Hold
    <3> QED BY <3>1, <1>0, <1>1 DEF CallType
  <2> QED BY <1>5, <2>1, <2>2, <2>3, <2>4, <2>5, <2>6, <2>7
<1> QED BY <1>2, <1>3, <1>4, <1>5 DEF Advance

LEMMA CatchUpStep ==
  ASSUME TypeInv, HeldClaims, ProgressInv, CatchUp, [Next]_vars
  PROVE  CatchUp'
<1>1. ASSUME NEW c \in Calls, EmitEffect(c)
      PROVE  CatchUp'
  <2> SUFFICES ASSUME ~crashed, purges = 0
               PROVE  MergesExist' /\ \A n \in Episodes : LevelOrBrought(n)'
    BY <1>1 DEF CatchUp, EmitEffect
  <2>0. PICK e \in Episodes :
          \E cl :
             /\ call[c].pc = "idle" /\ call' = [call EXCEPT ![c] = cl]
             /\ cl.e = e /\ SameProgress(cl, episode'[e])
             /\ cl.pc \in Claiming \cup {"coalesced"} /\ UNCHANGED incident
             /\ \A n \in Episodes \ {e} : SameProgress(episode'[n], episode[n])
    BY <1>1 DEF EmitEffect
  <2>1. PICK cl :
          /\ call[c].pc = "idle" /\ call' = [call EXCEPT ![c] = cl]
          /\ cl.e = e /\ SameProgress(cl, episode'[e])
          /\ cl.pc \in Claiming \cup {"coalesced"} /\ UNCHANGED incident
          /\ \A n \in Episodes \ {e} : SameProgress(episode'[n], episode[n])
    BY <2>0
  <2>2. call'[c] = cl /\ \A d \in Calls \ {c} : call'[d] = call[d]
    BY <2>1 DEF TypeInv, TypeOK
  <2>3. MergesExist'
    BY <2>1, <2>2 DEF MergesExist, CatchUp, Claiming
  <2>4. ASSUME NEW n \in Episodes, incident'[n].exists
        PROVE  SameProgress(incident'[n], episode'[n]) \/ \E d \in Calls : Brings(d, n)'
    <3>1. CASE n = e
      BY <2>1, <2>2, <3>1 DEF Brings, Claiming
    <3>2. CASE n # e
      <4>1. SameProgress(incident[n], episode[n]) \/ \E d \in Calls : Brings(d, n)
        BY <2>1, <2>4 DEF CatchUp, LevelOrBrought
      <4>2. CASE SameProgress(incident[n], episode[n])
        BY <2>1, <3>2, <4>2 DEF SameProgress
      <4>3. ASSUME NEW d \in Calls, Brings(d, n)
            PROVE  Brings(d, n)'
        <5>1. d # c
          BY <2>1, <4>3 DEF Brings
        <5> QED BY <2>1, <2>2, <3>2, <4>3, <5>1 DEF Brings, SameProgress
      <4> QED BY <4>1, <4>2, <4>3
    <3> QED BY <3>1, <3>2
  <2> QED BY <2>3, <2>4 DEF LevelOrBrought
<1>2. ASSUME NEW c \in Calls,
             Advance(c) \/ InspectFails(c) \/ \E outcome \in Holds : Hold(c, outcome)
      PROVE  CatchUp'
  <2>1. UNCHANGED <<crashed, purges>>
    BY <1>2 DEF Advance, CoalesceRead, CoalesceSave, Inspect, Announce, Stamp, StartOnCall,
                FanOut, Conclude, InspectFails, Hold, hist
  <2> SUFFICES ASSUME ~crashed, purges = 0
               PROVE  MergesExist' /\ \A n \in Episodes : LevelOrBrought(n)'
    BY <2>1 DEF CatchUp
  <2>2. MergesExist /\ \A n \in Episodes : LevelOrBrought(n)
    BY DEF CatchUp
  <2>3. /\ \A n \in Episodes : SameProgress(episode'[n], episode[n])
        /\ \A n \in Episodes \ {call[c].e} : incident'[n] = incident[n]
        /\ \A n \in Episodes :
             /\ incident[n].exists => incident'[n].exists
             /\ incident[n].exists /\ SameProgress(incident[n], episode[n])
                  => SameProgress(incident'[n], episode[n])
    BY <1>2, CallEffect
  <2>4. /\ \A d \in Calls \ {c} : call'[d] = call[d]
        /\ \/ call'[c] = Idle
           \/ /\ SameDecision(call[c], call'[c])
              /\ \/ call[c].pc = "coalesced" /\ call'[c].pc = "merging"
                 \/ call[c].pc \in Claiming /\ call'[c].pc \in Claiming
    BY <1>2, CallMoves
  <2>5. \/ call'[c] = Idle
        \/ call'[c].pc # "merging"
        \/ /\ call[c].pc = "coalesced" /\ incident[call[c].e].exists
           /\ incident' = incident
           /\ SameProgress(call'[c].rec, call[c])
    BY <1>2, CallRecords
  <2>6. Idle.pc = "idle" /\ call[c].e \in Episodes
    BY <1>2, CallMoves, CallFacts DEF Idle
  <2>7. MergesExist'
    <3> SUFFICES ASSUME NEW d \in Calls, call'[d].pc = "merging"
                 PROVE  incident'[call'[d].e].exists
      BY DEF MergesExist
    <3>1. CASE d = c
      BY <2>4, <2>5, <2>6, <3>1 DEF SameDecision, Claiming
    <3>2. CASE d # c
      BY <2>2, <2>3, <2>4, <3>2, CallFacts DEF MergesExist
    <3> QED BY <3>1, <3>2
  <2>8. ASSUME NEW n \in Episodes, incident'[n].exists
        PROVE  SameProgress(incident'[n], episode'[n]) \/ \E d \in Calls : Brings(d, n)'
    <3>1. CASE n = call[c].e /\ call'[c].pc \in Claiming
      BY <2>4, <2>6, <3>1 DEF Brings, Claiming, SameDecision
    <3>2. CASE ~(n = call[c].e /\ call'[c].pc \in Claiming)
      <4>1. incident[n].exists
        <5>1. CASE n # call[c].e
          BY <2>3, <2>8, <5>1
        <5>2. CASE n = call[c].e /\ call'[c] = Idle
          BY <1>2, <2>2, <2>8, <5>2, LevelWhenDone
        <5>3. CASE n = call[c].e /\ call'[c].pc = "merging"
          BY <2>5, <2>6, <5>3
        <5> QED BY <2>4, <3>2, <5>1, <5>2, <5>3
      <4>2. SameProgress(incident[n], episode[n]) \/ \E d \in Calls : Brings(d, n)
        BY <2>2, <4>1 DEF LevelOrBrought
      <4>3. CASE SameProgress(incident[n], episode[n])
        BY <2>3, <4>1, <4>3 DEF SameProgress
      <4>4. ASSUME NEW d \in Calls \ {c}, Brings(d, n)
            PROVE  Brings(d, n)'
        BY <2>3, <2>4, <4>4 DEF Brings, SameProgress
      <4>5. ASSUME Brings(c, n)
            PROVE  SameProgress(incident'[n], episode'[n]) \/ Brings(c, n)'
        <5>1. n = call[c].e
          BY <4>5 DEF Brings
        <5>2. CASE call'[c] = Idle
          BY <1>2, <2>2, <2>8, <4>5, <5>1, <5>2, LevelWhenDone
        <5>3. CASE call'[c].pc = "merging"
          <6>1. call[c].pc = "coalesced" /\ SameProgress(call'[c].rec, call[c])
                /\ call'[c].e = n
            BY <2>4, <2>5, <2>6, <5>1, <5>3 DEF SameDecision
          <6>2. SameProgress(call[c], episode[n])
            BY <4>5, <6>1 DEF Brings, Claiming
          <6> QED BY <2>3, <5>3, <6>1, <6>2 DEF Brings, SameProgress
        <5> QED BY <2>4, <3>2, <5>1, <5>2, <5>3
      <4> QED BY <4>2, <4>3, <4>4, <4>5
    <3> QED BY <3>1, <3>2
  <2> QED BY <2>7, <2>8 DEF LevelOrBrought
<1>3. ASSUME RestEffect
      PROVE  CatchUp'
  <2> SUFFICES ASSUME ~crashed, purges' = 0
               PROVE  MergesExist' /\ \A n \in Episodes : LevelOrBrought(n)'
    BY <1>3 DEF CatchUp, RestEffect
  <2>1. purges = 0
    BY <1>3, EpisodeAssumption DEF RestEffect, TypeInv, TypeOK
  <2>2. MergesExist /\ \A n \in Episodes : LevelOrBrought(n)
    BY <2>1 DEF CatchUp
  <2>3. \A n \in Episodes :
          /\ incident'[n].exists = incident[n].exists
          /\ \/ /\ SameProgress(episode'[n], episode[n])
                /\ SameProgress(incident'[n], incident[n])
             \/ incident[n].exists => SameProgress(incident'[n], episode'[n])
    BY <1>3, <2>1 DEF RestEffect
  <2>4. UNCHANGED call
    BY <1>3 DEF RestEffect
  <2>5. MergesExist'
    <3> SUFFICES ASSUME NEW d \in Calls, call[d].pc = "merging"
                 PROVE  incident'[call[d].e].exists
      BY <2>4 DEF MergesExist
    <3> QED BY <2>2, <2>3, CallFacts DEF MergesExist
  <2>6. ASSUME NEW n \in Episodes
        PROVE  LevelOrBrought(n)'
    BY <2>2, <2>3, <2>4 DEF LevelOrBrought, Brings, SameProgress
  <2> QED BY <2>5, <2>6
<1>4. ASSUME NEW c \in Calls, Crash(c)
      PROVE  CatchUp'
  BY <1>4 DEF Crash, CatchUp
<1>5. ASSUME NEW c \in Calls, Step(c)
      PROVE  CatchUp'
  BY <1>1, <1>2, <1>3, <1>4, <1>5, EmitEffects, RestEffects DEF Step
<1>6. CASE \/ Tick
           \/ \E hint \in Hints, lag \in 0..MaxLag : Continue(hint, lag)
           \/ \E e \in Episodes : Resolve(e) \/ CloseByIncident(e) \/ Purge(e)
           \/ UNCHANGED vars
  BY <1>3, <1>6, RestEffects
<1> QED BY <1>5, <1>6 DEF Next

\* As long as heartbeats keep claims alive: once no call is under way, none died
\* and no record was purged, the incident shows the progress of its episode,
\* in whatever order calls and observations wrote it.
THEOREM IncidentCatchesUpAlways ==
  ASSUME HeartbeatsKeepUp
  PROVE  Spec => []IncidentCatchesUp
<1>1. Init => ProgressInv /\ CatchUp
  <2> SUFFICES ASSUME Init PROVE ProgressInv /\ CatchUp
    OBVIOUS
  <2>1. /\ \A e \in Episodes : ~incident[e].exists
        /\ \A c \in Calls : call[c].pc = "idle"
    BY DEF Init, NoIncident, Idle
  <2> QED BY <2>1 DEF ProgressInv, IncidentsWithin, CallsWithin, CatchUp, MergesExist,
                      LevelOrBrought
<1>2. TypeInv /\ TypeInv' /\ ProgressInv /\ [Next]_vars => ProgressInv'
  BY ProgressStep
<1>3. TypeInv /\ HeldClaims /\ ProgressInv /\ CatchUp /\ [Next]_vars => CatchUp'
  BY CatchUpStep
<1>4. CatchUp => IncidentCatchesUp
  BY DEF CatchUp, LevelOrBrought, Brings, SameProgress, IncidentCatchesUp
<1> QED BY <1>1, <1>2, <1>3, <1>4, OneClaimantAtATime, Paging, PTL DEF Spec

----------------------------------------------------------------------------
(* 4. An escalation does not start on-call again                           *)

\* What the argument lasts for: records are not purged, and at most one fault
\* has happened; after one, the argument needs every severity to page, or a low
\* one retried after it would clear the flag the escalation looks at.
Mild ==
  purges = 0 /\ (faults = 0 \/ (faults = 1 /\ \A s \in Severities : Pages(s)))

NoFault == purges = 0 /\ faults = 0

Marked(e) == incident[e].exists /\ incident[e].oncall

Starting == {"inspected", "announced", "sent", "stamped"}

\* A call that is going to start on-call has marked the record.
MarksFirst(c) ==
  call[c].pc \in {"announced", "sent", "stamped"} /\ ~call[c].skip
    /\ Pages(call[c].severity)
    => Marked(call[c].e)

\* An escalation that does not skip on-call is not preceded by a start, nor,
\* without faults, is the initial notification.
EscalatesFirst(c) ==
  call[c].pc \in Starting /\ call[c].kind = "escalation" /\ ~call[c].skip
    => call[c].e \notin started

InitialFirst(c) ==
  call[c].pc \in Starting \cup {"claimed"} /\ call[c].kind = "initial"
    => call[c].e \notin started

Succeeds(c) ==
  call[c].pc \in {"sent", "stamped", "concluding"} => Terminal(call[c].outcome)

\* Merging an occurrence touches no delivery field.
MergesKeepStatus ==
  \A c \in Calls : call[c].pc = "merging" => call[c].rec.status = ""

StartedOnce ==
  /\ EscalationDoesNotRestartOnCall
  /\ \A e \in started : Marked(e)
  /\ \A c \in Calls : MarksFirst(c) /\ EscalatesFirst(c)

\* Without faults a claim always has its call, and an episode on-call runs for
\* has its initial notification behind it.
ClaimsSettle ==
  /\ \A e \in Episodes :
       /\ episode[e].token # 0 =>
            \E c \in Calls : call[c].pc \in Claiming /\ call[c].e = e
       /\ episode[e].token = 0 /\ episode[e].handled = 0 => e \notin started
  /\ \A c \in Calls : InitialFirst(c) /\ Succeeds(c)

OnCallInv ==
  /\ started \subseteq 1..opened
  /\ MergesKeepStatus
  /\ Mild => StartedOnce
  /\ NoFault => ClaimsSettle

\* Steps that start nothing, settle nothing and leave the claiming calls.
LEMMA OnCallFrame ==
  ASSUME TypeInv, OnCallInv,
         UNCHANGED <<started, restarted>>, started \subseteq 1..opened',
         Mild' => Mild, NoFault' => NoFault,
         Mild' => \A e \in Episodes : Marked(e) => Marked(e)',
         \A e \in Episodes : /\ episode'[e].token = episode[e].token
                            /\ episode'[e].handled = episode[e].handled,
         \A c \in Calls : \/ call'[c] = call[c]
                          \/ /\ call[c].pc \notin Claiming /\ call'[c].pc \notin Claiming
                             /\ call'[c].pc = "merging" => call'[c].rec.status = ""
  PROVE  OnCallInv'
<1>0. started \subseteq Episodes
  BY DEF TypeInv, TypeOK
<1>2. MergesKeepStatus'
  BY DEF OnCallInv, MergesKeepStatus
<1>3. ASSUME Mild' PROVE StartedOnce'
  <2>1. Mild /\ StartedOnce /\ \A e \in Episodes : Marked(e) => Marked(e)'
    BY <1>3 DEF OnCallInv
  <2>2. ASSUME NEW c \in Calls PROVE MarksFirst(c)' /\ EscalatesFirst(c)'
    <3>1. CASE call'[c] = call[c]
      <4>1. call[c].pc # "idle" => call[c].e \in Episodes
        BY CallFacts
      <4>2. MarksFirst(c) /\ EscalatesFirst(c)
        BY <2>1 DEF StartedOnce
      <4>3. MarksFirst(c)'
        <5> SUFFICES ASSUME call[c].pc \in {"announced", "sent", "stamped"},
                            ~call[c].skip, Pages(call[c].severity)
                     PROVE  Marked(call[c].e)'
          BY <3>1 DEF MarksFirst
        <5>1. Marked(call[c].e) /\ call[c].e \in Episodes
          BY <4>1, <4>2 DEF MarksFirst
        <5> QED BY <2>1, <3>1, <5>1 DEF Marked
      <4>4. EscalatesFirst(c)'
        BY <3>1, <4>2 DEF EscalatesFirst
      <4> QED BY <4>3, <4>4
    <3>2. CASE call'[c].pc \notin Claiming
      BY <3>2 DEF MarksFirst, EscalatesFirst, Starting, Claiming
    <3> QED BY <3>1, <3>2
  <2> QED BY <1>0, <2>1, <2>2 DEF StartedOnce, EscalationDoesNotRestartOnCall
<1>4. ASSUME NoFault' PROVE ClaimsSettle'
  <2>1. ClaimsSettle
    BY <1>4 DEF OnCallInv
  <2>2. ASSUME NEW c \in Calls PROVE InitialFirst(c)' /\ Succeeds(c)'
    BY <2>1 DEF ClaimsSettle, InitialFirst, Succeeds, Starting, Claiming
  <2>3. ASSUME NEW e \in Episodes, episode'[e].token # 0
        PROVE  \E c \in Calls : call'[c].pc \in Claiming /\ call'[c].e = e
    <3>1. episode[e].token # 0
      BY <2>3
    <3>2. PICK c \in Calls : call[c].pc \in Claiming /\ call[c].e = e
      BY <2>1, <3>1 DEF ClaimsSettle
    <3> QED BY <3>2
  <2> QED BY <2>1, <2>2, <2>3 DEF ClaimsSettle
<1> QED BY <1>2, <1>3, <1>4 DEF OnCallInv

\* A step of a claiming call concerns its own incident only: what it has to
\* keep for itself.
KeepsOnCall(c) ==
  /\ started' \subseteq started \cup {call[c].e}
  /\ Mild' =>
       /\ EscalationDoesNotRestartOnCall'
       /\ call[c].e \in started' =>
            incident'[call[c].e].exists /\ incident'[call[c].e].oncall
       /\ MarksFirst(c)' /\ EscalatesFirst(c)'
  /\ NoFault' =>
       /\ call'[c].pc \in Claiming /\ call'[c].e = call[c].e
       /\ InitialFirst(c)' /\ Succeeds(c)'

LEMMA OnCallClaiming ==
  ASSUME TypeInv, ClaimsHeld, OnCallInv, NEW c \in Calls, call[c].pc \in Claiming,
         UNCHANGED <<episode, opened>>, Mild' => Mild, NoFault' => NoFault,
         \A d \in Calls \ {c} : call'[d] = call[d],
         call'[c].pc # "merging",
         \A n \in Episodes \ {call[c].e} : incident'[n] = incident[n],
         KeepsOnCall(c)
  PROVE  OnCallInv'
<1> DEFINE e == call[c].e
<1>0. /\ started \subseteq Episodes /\ e \in Episodes /\ e \in 1..opened
      /\ episode[e].token # 0
  <2>1. started \subseteq Episodes
    BY DEF TypeInv, TypeOK
  <2>2. e \in Episodes /\ e \in 1..opened
    <3>1. call[c].pc # "idle"
      BY DEF Claiming
    <3> QED BY <3>1, CallFacts
  <2>3. episode[e].token # 0
    <3>1. Holding(c)
      BY DEF ClaimsHeld, HeldClaims
    <3> QED BY <3>1 DEF Holding
  <2> QED BY <2>1, <2>2, <2>3
<1>1. \A d \in Calls \ {c} : call[d].pc \in Claiming => call[d].e \in Episodes \ {e}
  BY CallFacts DEF Claiming, ClaimsHeld, OneClaimant
<1>2. started' \subseteq 1..opened'
  BY <1>0 DEF OnCallInv, KeepsOnCall
<1>3. MergesKeepStatus'
  BY DEF OnCallInv, MergesKeepStatus
<1>4. ASSUME Mild' PROVE StartedOnce'
  <2>1. StartedOnce
    BY <1>4 DEF OnCallInv
  <2>2. ASSUME NEW n \in started' PROVE Marked(n)'
    <3>1. CASE n = e
      BY <1>4, <2>2, <3>1 DEF KeepsOnCall, Marked
    <3>2. CASE n # e
      <4>1. n \in started /\ n \in Episodes
        BY <1>0, <2>2, <3>2 DEF KeepsOnCall
      <4>2. Marked(n) /\ incident'[n] = incident[n]
        BY <2>1, <3>2, <4>1 DEF StartedOnce
      <4> QED BY <4>2 DEF Marked
    <3> QED BY <3>1, <3>2
  <2>3. ASSUME NEW d \in Calls PROVE MarksFirst(d)' /\ EscalatesFirst(d)'
    <3>1. CASE d = c
      BY <1>4, <3>1 DEF KeepsOnCall
    <3>2. CASE d # c
      BY <1>1, <2>1, <3>2 DEF KeepsOnCall, StartedOnce, MarksFirst, EscalatesFirst, Starting,
                              Claiming, Marked
    <3> QED BY <3>1, <3>2
  <2> QED BY <1>4, <2>2, <2>3 DEF StartedOnce, KeepsOnCall
<1>5. ASSUME NoFault' PROVE ClaimsSettle'
  <2>1. ClaimsSettle
    BY <1>5 DEF OnCallInv
  <2>2. ASSUME NEW d \in Calls PROVE InitialFirst(d)' /\ Succeeds(d)'
    <3>1. CASE d = c
      BY <1>5, <3>1 DEF KeepsOnCall
    <3>2. CASE d # c
      BY <1>1, <2>1, <3>2 DEF KeepsOnCall, ClaimsSettle, InitialFirst, Succeeds, Starting,
                              Claiming
    <3> QED BY <3>1, <3>2
  <2>3. ASSUME NEW n \in Episodes, episode'[n].token # 0
        PROVE  \E d \in Calls : call'[d].pc \in Claiming /\ call'[d].e = n
    <3>1. CASE n = e
      BY <1>5, <3>1 DEF KeepsOnCall
    <3>2. CASE n # e
      BY <2>1, <2>3, <3>2 DEF ClaimsSettle
    <3> QED BY <3>1, <3>2
  <2>4. ASSUME NEW n \in Episodes, episode'[n].token = 0 /\ episode'[n].handled = 0
        PROVE  n \notin started'
    BY <1>0, <2>1, <2>4 DEF ClaimsSettle, KeepsOnCall
  <2> QED BY <2>2, <2>3, <2>4 DEF ClaimsSettle
<1> QED BY <1>2, <1>3, <1>4, <1>5 DEF OnCallInv

LEMMA FaultsRise ==
  ASSUME TypeInv, [Next]_vars
  PROVE  (Mild' => Mild) /\ (NoFault' => NoFault)
<1>1. faults' \in {faults, faults + 1} /\ purges' \in {purges, purges + 1}
  <2>1. CASE \E c \in Calls : Step(c)
    <3> PICK c \in Calls : Step(c)
      BY <2>1
    <3>1. purges' = purges
      BY DEF Step, Emit, EmitCoalesced, EmitClaims, EmitOpens, Advance, CoalesceRead,
             CoalesceSave, Inspect, Announce, Stamp, StartOnCall, Conclude, FanOut,
             Renew, InspectFails, Crash, Hold, hist
    <3>2. faults' \in {faults, faults + 1}
      <4>1. CASE StartOnCall(c)
        BY <4>1 DEF StartOnCall
      <4>2. CASE \E outcome \in {"sent", "partial", "failed"} : FanOut(c, outcome)
        BY <4>2 DEF FanOut
      <4>3. CASE \E outcome \in Holds : Hold(c, outcome)
        BY <4>3 DEF Hold
      <4>4. CASE InspectFails(c) \/ Crash(c)
        BY <4>4 DEF InspectFails, Crash
      <4>5. CASE \/ Emit(c) \/ CoalesceRead(c) \/ CoalesceSave(c) \/ Inspect(c)
                 \/ Announce(c) \/ Stamp(c) \/ Conclude(c) \/ Renew(c)
        BY <4>5 DEF Emit, EmitCoalesced, EmitClaims, EmitOpens, CoalesceRead,
                    CoalesceSave, Inspect, Announce, Stamp, Conclude, Renew, hist
      <4> QED BY <4>1, <4>2, <4>3, <4>4, <4>5 DEF Step, Advance
    <3> QED BY <3>1, <3>2
  <2>2. CASE Tick
    BY <2>2 DEF Tick, hist
  <2>3. CASE \E hint \in Hints, lag \in 0..MaxLag : Continue(hint, lag)
    BY <2>3 DEF Continue
  <2>4. CASE \E e \in Episodes : Resolve(e) \/ CloseByIncident(e) \/ Purge(e)
    BY <2>4 DEF Resolve, CloseByIncident, Purge, hist
  <2>5. CASE UNCHANGED vars
    BY <2>5 DEF vars, hist
  <2> QED BY <2>1, <2>2, <2>3, <2>4, <2>5 DEF Next
<1>2. faults \in Nat /\ purges \in Nat
  BY EpisodeAssumption DEF TypeInv, TypeOK
<1> QED BY <1>1, <1>2 DEF Mild, NoFault

\* What a claiming call may rely on.
LEMMA ClaimingFacts ==
  ASSUME TypeInv, ClaimsHeld, NEW c \in Calls, call[c].pc \in Claiming
  PROVE  /\ call[c].pc # "idle" /\ call[c].e \in Episodes /\ call[c].e \in 1..opened
         /\ call[c] \in CallType /\ call \in [Calls -> CallType]
         /\ incident[call[c].e] \in IncidentType
         /\ incident \in [Episodes -> IncidentType]
         /\ call[c].severity \in Severities
         /\ call[c].kind = "initial" \/ call[c].kind = "escalation"
<1>1. call[c].pc # "idle" /\ call[c].severity \in Severities
  BY DEF Claiming, ClaimsHeld, HeldClaims
<1>2. call[c] \in CallType /\ CallShape(call[c])
  BY <1>1, CallFacts
<1> QED BY <1>1, <1>2, CallFacts DEF CallShape, CallType, TypeInv, TypeOK

\* The steps of a claiming call before it may start on-call: nothing is started,
\* and the mark of the record is kept or put.
LEMMA OnCallBefore ==
  ASSUME TypeInv, ClaimsHeld, OnCallInv, Mild' => Mild, NoFault' => NoFault, NEW c \in Calls,
         \/ Inspect(c) \/ InspectFails(c) \/ Announce(c) \/ Stamp(c)
         \/ \E outcome \in {"sent", "partial", "failed"} : FanOut(c, outcome)
         \/ \E outcome \in Holds : Hold(c, outcome)
  PROVE  /\ call[c].pc \in Claiming /\ call'[c].pc # "merging"
         /\ UNCHANGED <<episode, opened>>
         /\ KeepsOnCall(c)
<1> DEFINE e == call[c].e
<1>0. call[c].pc \in Claiming
  BY DEF Inspect, InspectFails, Announce, Stamp, FanOut, Hold, Claiming
<1>1. /\ call[c].pc # "idle" /\ e \in Episodes /\ call[c] \in CallType
      /\ call \in [Calls -> CallType] /\ incident[e] \in IncidentType
      /\ incident \in [Episodes -> IncidentType] /\ call[c].severity \in Severities
      /\ call[c].kind = "initial" \/ call[c].kind = "escalation"
  BY <1>0, ClaimingFacts
<1>2. UNCHANGED <<episode, opened, started, restarted>>
  BY DEF Inspect, InspectFails, Announce, Stamp, FanOut, Hold, store, hist
<1>3. Mild' => /\ StartedOnce /\ MarksFirst(c) /\ EscalatesFirst(c)
               /\ e \in started => Marked(e)
  BY DEF OnCallInv, StartedOnce
<1>4. NoFault' => NoFault /\ InitialFirst(c) /\ Succeeds(c)
  BY DEF OnCallInv, ClaimsSettle
<1>5. SUFFICES /\ call'[c].pc \in Claiming /\ SameDecision(call[c], call'[c])
               /\ Mild' => /\ e \in started => incident'[e].exists /\ incident'[e].oncall
                           /\ MarksFirst(c)' /\ EscalatesFirst(c)'
               /\ NoFault' => InitialFirst(c)' /\ Succeeds(c)'
  BY <1>0, <1>2, <1>3 DEF KeepsOnCall, SameDecision, Claiming, StartedOnce,
                          EscalationDoesNotRestartOnCall
<1>6. CASE Inspect(c)
  <2>1. /\ call[c].pc = "claimed" /\ incident' = incident
        /\ call'[c].pc = "inspected" /\ call'[c].skip = Skips(c)
        /\ SameDecision(call[c], call'[c])
    BY <1>1, <1>6 DEF Inspect, SameDecision, CallType
  <2>2. MarksFirst(c)' /\ Succeeds(c)'
    BY <2>1 DEF MarksFirst, Succeeds
  <2>3. Mild' => EscalatesFirst(c)'
    BY <1>2, <1>3, <2>1 DEF EscalatesFirst, Skips, Marked, SameDecision
  <2>4. NoFault' => InitialFirst(c)'
    BY <1>2, <1>4, <2>1 DEF InitialFirst, SameDecision
  <2> QED BY <1>3, <2>1, <2>2, <2>3, <2>4 DEF Marked, Claiming
<1>7. CASE InspectFails(c)
  <2>1. /\ call[c].pc = "claimed" /\ incident' = incident /\ faults' = faults + 1
        /\ call'[c].pc = "concluding"
        /\ SameDecision(call[c], call'[c])
    BY <1>1, <1>7 DEF InspectFails, SameDecision, CallType
  <2>2. MarksFirst(c)' /\ EscalatesFirst(c)' /\ ~NoFault'
    <3>1. faults + 1 # 0
      BY EpisodeAssumption DEF TypeInv, TypeOK
    <3> QED BY <2>1, <3>1 DEF MarksFirst, EscalatesFirst, Starting, NoFault
  <2> QED BY <1>3, <2>1, <2>2 DEF Marked, Claiming
<1>8. CASE \E outcome \in {"sent", "partial", "failed"} : FanOut(c, outcome)
  <2> PICK outcome \in {"sent", "partial", "failed"} : FanOut(c, outcome)
    BY <1>8
  <2>1. /\ call[c].pc = "announced" /\ incident' = incident
        /\ call'[c].pc = "sent" /\ call'[c].outcome = outcome /\ call'[c].skip = call[c].skip
        /\ SameDecision(call[c], call'[c])
    BY <1>1 DEF FanOut, SameDecision, CallType
  <2>2. Mild' => MarksFirst(c)' /\ EscalatesFirst(c)'
    BY <1>2, <1>3, <2>1 DEF MarksFirst, EscalatesFirst, Starting, Marked, SameDecision
  <2>3. NoFault' => outcome # "failed"
    <3>1. outcome = "failed" => faults' = faults + 1
      BY DEF FanOut
    <3>2. faults + 1 # 0
      BY EpisodeAssumption DEF TypeInv, TypeOK
    <3> QED BY <3>1, <3>2 DEF NoFault
  <2>4. NoFault' => InitialFirst(c)' /\ Succeeds(c)'
    BY <1>2, <1>4, <2>1, <2>3 DEF InitialFirst, Succeeds, Starting, Terminal, SameDecision
  <2> QED BY <1>3, <2>1, <2>2, <2>4 DEF Marked, Claiming
<1>9. CASE \E outcome \in Holds : Hold(c, outcome)
  <2> PICK outcome \in Holds : Hold(c, outcome)
    BY <1>9
  <2>1. /\ call[c].pc = "inspected"
        /\ call'[c].pc = "concluding" /\ call'[c].outcome = outcome
        /\ SameDecision(call[c], call'[c])
    BY <1>1 DEF Hold, SameDecision, CallType
  <2>2. MarksFirst(c)' /\ EscalatesFirst(c)'
    BY <2>1 DEF MarksFirst, EscalatesFirst, Starting
  <2>3. NoFault' => Terminal(outcome)
    <3>1. ~Terminal(outcome) => faults' = faults + 1
      BY DEF Hold
    <3>2. faults + 1 # 0
      BY EpisodeAssumption DEF TypeInv, TypeOK
    <3> QED BY <3>1, <3>2 DEF NoFault
  <2>4. NoFault' => InitialFirst(c)' /\ Succeeds(c)'
    BY <2>1, <2>3 DEF InitialFirst, Succeeds, Starting
  <2>5. Marked(e) => incident'[e].exists /\ incident'[e].oncall
    <3> DEFINE draft == Draft(c, outcome)
    <3>1. incident'[e] = incident[e] \/ incident'[e] = Saved(incident[e], draft)
      BY <1>1 DEF Hold
    <3>2. draft \in IncidentType /\ draft.oncall = incident[e].oncall
      BY <1>1, DraftFields, EpisodeAssumption
    <3> HIDE DEF draft, e
    <3>3. incident[e].exists /\ incident[e].oncall =>
            Saved(incident[e], draft).exists /\ Saved(incident[e], draft).oncall
      BY <1>1, <3>2, SavedFields
    <3> QED BY <3>1, <3>3 DEF Marked
  <2> QED BY <1>3, <2>1, <2>2, <2>4, <2>5 DEF Claiming
<1>10. CASE Announce(c)
  <2> DEFINE draft == Draft(c, "pending")
             rec == IF call[c].skip THEN draft
                    ELSE [draft EXCEPT !.oncall = Pages(call[c].severity)]
  <2>1. /\ call[c].pc = "inspected"
        /\ call' = [call EXCEPT ![c].pc = "announced", ![c].rec = rec]
        /\ incident' = [incident EXCEPT ![e] = Saved(incident[e], rec)]
    BY <1>10, <1>1 DEF Announce
  <2>2. /\ draft \in IncidentType /\ draft.exists /\ draft.status # ""
        /\ draft.oncall = incident[e].oncall
    BY <1>1, DraftFields
  <2>3. /\ rec \in IncidentType /\ rec.exists /\ rec.status # ""
        /\ rec.oncall = IF call[c].skip THEN incident[e].oncall ELSE Pages(call[c].severity)
    <3>1. Pages(call[c].severity) \in BOOLEAN
      BY DEF Pages
    <3> HIDE DEF draft
    <3>2. [draft EXCEPT !.oncall = Pages(call[c].severity)] \in IncidentType
      BY <2>2, <3>1, WithOnCall
    <3> QED BY <2>2, <3>2 DEF IncidentType
  <2> HIDE DEF draft, rec
  <2>4. /\ call'[c].pc = "announced" /\ call'[c].skip = call[c].skip
        /\ SameDecision(call[c], call'[c]) /\ incident'[e] = Saved(incident[e], rec)
    BY <1>1, <2>1 DEF SameDecision, CallType
  <2>5. incident'[e].exists /\ incident'[e].oncall = rec.oncall
    <3> HIDE DEF e
    <3>0. rec \in IncidentType /\ rec.status # ""
      BY <2>3
    <3>1. CASE incident[e].exists
      <4>1. /\ Saved(incident[e], rec).exists
            /\ Saved(incident[e], rec).oncall
                 = IF rec.status = "" THEN incident[e].oncall ELSE rec.oncall
        BY <1>1, <3>0, <3>1, SavedFields
      <4> QED BY <2>4, <3>0, <4>1
    <3>2. CASE ~incident[e].exists
      BY <1>1, <2>3, <2>4, <3>2, SavedNew
    <3> QED BY <3>1, <3>2
  <2>6. MarksFirst(c)' /\ Succeeds(c)'
    BY <2>3, <2>4, <2>5 DEF MarksFirst, Succeeds, Marked, SameDecision
  <2>7. Mild' => EscalatesFirst(c)'
    BY <1>2, <1>3, <2>1, <2>4 DEF EscalatesFirst, Starting, SameDecision
  <2>8. NoFault' => InitialFirst(c)'
    BY <1>2, <1>4, <2>1, <2>4 DEF InitialFirst, Starting, SameDecision
  <2>9. Mild' /\ e \in started => incident'[e].oncall
    <3> SUFFICES ASSUME Mild', e \in started, ~call[c].skip
                 PROVE  Pages(call[c].severity)
      BY <1>3, <2>3, <2>5 DEF Marked
    <3>1. call[c].kind = "initial"
      BY <1>1, <1>3, <2>1 DEF EscalatesFirst, Starting
    <3>2. ~NoFault
      BY <2>1, <3>1 DEF OnCallInv, ClaimsSettle, InitialFirst, Starting
    <3> QED BY <1>1, <3>2 DEF Mild, NoFault
  <2> QED BY <2>4, <2>5, <2>6, <2>7, <2>8, <2>9 DEF Claiming
<1>11. CASE Stamp(c)
  <2> DEFINE latest == IF incident[e].exists THEN incident[e] ELSE call[c].rec
             rec == [latest EXCEPT !.status = call[c].outcome]
  <2>1. /\ call[c].pc = "sent"
        /\ call' = [call EXCEPT ![c].pc = "stamped", ![c].rec = rec]
        /\ incident' = [incident EXCEPT ![e] = Saved(incident[e], rec)]
    BY <1>11, <1>1 DEF Stamp
  <2>2. call[c].outcome \in {"", "pending", "sent", "partial"} \cup HoldKinds
    BY <2>1, CallFacts DEF CallShape, HoldKinds
  <2>3. rec \in IncidentType /\ rec.oncall = latest.oncall
    <3>1. latest \in IncidentType
      BY <1>1 DEF CallType
    <3> HIDE DEF latest
    <3> QED BY <2>2, <3>1 DEF IncidentType
  <2>4. incident[e].exists => rec.oncall = incident[e].oncall
    BY <2>3
  <2> HIDE DEF rec
  <2>5. /\ call'[c].pc = "stamped" /\ call'[c].skip = call[c].skip
        /\ call'[c].outcome = call[c].outcome
        /\ SameDecision(call[c], call'[c]) /\ incident'[e] = Saved(incident[e], rec)
    BY <1>1, <2>1 DEF SameDecision, CallType
  <2>6. Marked(e) => incident'[e].exists /\ incident'[e].oncall
    <3> HIDE DEF e
    <3> SUFFICES ASSUME incident[e].exists, incident[e].oncall
                 PROVE  incident'[e].exists /\ incident'[e].oncall
      BY DEF Marked
    <3>1. rec \in IncidentType /\ rec.oncall /\ incident[e] \in IncidentType
      BY <1>1, <2>3, <2>4
    <3>2. Saved(incident[e], rec).exists /\ Saved(incident[e], rec).oncall
      BY <3>1, SavedFields
    <3> QED BY <2>5, <3>2
  <2>7. Mild' => MarksFirst(c)'
    BY <1>3, <2>1, <2>5, <2>6 DEF MarksFirst, Marked, SameDecision
  <2>8. Mild' => EscalatesFirst(c)'
    BY <1>2, <1>3, <2>1, <2>5 DEF EscalatesFirst, Starting, SameDecision
  <2>9. NoFault' => InitialFirst(c)' /\ Succeeds(c)'
    BY <1>2, <1>4, <2>1, <2>5 DEF InitialFirst, Succeeds, Starting, SameDecision
  <2> QED BY <1>3, <2>5, <2>6, <2>7, <2>8, <2>9 DEF Claiming
<1> QED BY <1>6, <1>7, <1>8, <1>9, <1>10, <1>11

\* On-call starts, fails to start, or has no reason to.
LEMMA OnCallStarts ==
  ASSUME TypeInv, ClaimsHeld, OnCallInv, Mild' => Mild, NoFault' => NoFault, NEW c \in Calls,
         StartOnCall(c)
  PROVE  /\ call[c].pc \in Claiming /\ call'[c].pc # "merging"
         /\ UNCHANGED <<episode, opened>>
         /\ KeepsOnCall(c)
<1> DEFINE e == call[c].e
<1>0. call[c].pc = "stamped" /\ call[c].pc \in Claiming
  BY DEF StartOnCall, Claiming
<1>1. /\ e \in Episodes /\ call[c] \in CallType
      /\ call \in [Calls -> CallType] /\ incident[e] \in IncidentType
      /\ incident \in [Episodes -> IncidentType]
      /\ call[c].kind = "initial" \/ call[c].kind = "escalation"
  BY <1>0, ClaimingFacts
<1>2. /\ UNCHANGED <<episode, opened>>
      /\ call'[c].pc = "concluding" /\ call'[c].outcome = call[c].outcome
      /\ SameDecision(call[c], call'[c])
  BY <1>1 DEF StartOnCall, store, SameDecision, CallType
<1>3. MarksFirst(c)' /\ EscalatesFirst(c)' /\ InitialFirst(c)'
  BY <1>2 DEF MarksFirst, EscalatesFirst, InitialFirst, Starting
<1>4. NoFault' => Succeeds(c)'
  BY <1>0, <1>2 DEF OnCallInv, ClaimsSettle, Succeeds
<1>5. SUFFICES /\ started' \subseteq started \cup {e}
               /\ Mild' => /\ EscalationDoesNotRestartOnCall'
                           /\ e \in started' => incident'[e].exists /\ incident'[e].oncall
  BY <1>0, <1>2, <1>3, <1>4 DEF KeepsOnCall, SameDecision, Claiming
<1>6. CASE UNCHANGED <<started, restarted, incident>>
  BY <1>6 DEF OnCallInv, StartedOnce, EscalationDoesNotRestartOnCall, Marked
<1>7. CASE /\ Pages(call[c].severity) /\ ~call[c].skip
           /\ started' = started \cup {e} /\ incident' = incident
           /\ restarted' = IF e \in started THEN restarted \cup {call[c].kind} ELSE restarted
  <2>1. Mild' => EscalationDoesNotRestartOnCall'
    BY <1>0, <1>1, <1>7 DEF OnCallInv, StartedOnce, EscalatesFirst, Starting,
                            EscalationDoesNotRestartOnCall
  <2>2. Mild' => Marked(e)
    BY <1>0, <1>7 DEF OnCallInv, StartedOnce, MarksFirst
  <2> QED BY <1>7, <2>1, <2>2 DEF Marked
<1>8. CASE /\ ~call[c].skip /\ faults' = faults + 1
           /\ UNCHANGED <<started, restarted>>
  <2>1. Mild' => Mild /\ NoFault
    <3>1. faults \in Nat
      BY EpisodeAssumption DEF TypeInv, TypeOK
    <3> QED BY <1>8, <3>1 DEF Mild, NoFault
  <2>2. Mild' => e \notin started
    BY <1>0, <1>1, <1>8, <2>1 DEF OnCallInv, StartedOnce, ClaimsSettle, EscalatesFirst,
                                  InitialFirst, Starting
  <2> QED BY <1>8, <2>2 DEF OnCallInv, StartedOnce, EscalationDoesNotRestartOnCall
<1> QED BY <1>6, <1>7, <1>8 DEF StartOnCall

\* A claim is taken for an episode that, if it is its first, on-call does not run
\* for: without faults no initial notification is ever taken twice.
LEMMA OnCallClaims ==
  ASSUME TypeInv, TypeInv', ClaimsHeld, OnCallInv, NEW c \in Calls, NEW e \in Episodes,
         Mild' => Mild, NoFault' => NoFault,
         UNCHANGED <<incident, started, restarted>>,
         started \subseteq 1..opened',
         \A n \in Episodes \ {e} : /\ episode'[n].token = episode[n].token
                                   /\ episode'[n].handled = episode[n].handled,
         \A d \in Calls \ {c} : call'[d] = call[d],
         call[c].pc = "idle", call'[c].pc = "claimed", call'[c].e = e,
         episode'[e].token # 0,
         NoFault /\ call'[c].kind = "initial" => e \notin started
  PROVE  OnCallInv'
<1>0. started \subseteq Episodes
  BY DEF TypeInv, TypeOK
<1>1. MergesKeepStatus'
  BY DEF OnCallInv, MergesKeepStatus
<1>2. ASSUME Mild' PROVE StartedOnce'
  <2>1. StartedOnce
    BY <1>2 DEF OnCallInv
  <2>2. ASSUME NEW d \in Calls PROVE MarksFirst(d)' /\ EscalatesFirst(d)'
    <3>1. CASE d = c
      BY <3>1 DEF MarksFirst, EscalatesFirst, Starting
    <3>2. CASE d # c
      BY <2>1, <3>2 DEF StartedOnce, MarksFirst, EscalatesFirst, Marked
    <3> QED BY <3>1, <3>2
  <2> QED BY <2>1, <2>2 DEF StartedOnce, EscalationDoesNotRestartOnCall, Marked
<1>3. ASSUME NoFault' PROVE ClaimsSettle'
  <2>1. ClaimsSettle
    BY <1>3 DEF OnCallInv
  <2>2. ASSUME NEW d \in Calls PROVE InitialFirst(d)' /\ Succeeds(d)'
    <3>1. CASE d = c
      BY <1>3, <3>1 DEF InitialFirst, Succeeds
    <3>2. CASE d # c
      BY <2>1, <3>2 DEF ClaimsSettle, InitialFirst, Succeeds
    <3> QED BY <3>1, <3>2
  <2>3. ASSUME NEW n \in Episodes, episode'[n].token # 0
        PROVE  \E d \in Calls : call'[d].pc \in Claiming /\ call'[d].e = n
    <3>1. CASE n = e
      BY <3>1 DEF Claiming
    <3>2. CASE n # e
      BY <2>1, <2>3, <3>2 DEF ClaimsSettle, Claiming
    <3> QED BY <3>1, <3>2
  <2> QED BY <2>1, <2>2, <2>3 DEF ClaimsSettle
<1> QED BY <1>1, <1>2, <1>3 DEF OnCallInv

LEMMA OnCallEmit ==
  ASSUME TypeInv, TypeInv', ClaimsHeld, OnCallInv, Mild' => Mild, NoFault' => NoFault,
         NEW c \in Calls, NEW severity \in Severities,
         EmitClaims(c, severity) \/ EmitOpens(c, severity)
  PROVE  OnCallInv'
<1>0. /\ tokens + 1 # 0 /\ tokens + 1 \in 0..MaxTokens
      /\ severity \in Ranks /\ 0 \in 0..MaxLag
      /\ opened \in Nat /\ opened <= MaxEpisodes /\ MaxEpisodes \in Nat
      /\ started \subseteq 1..opened
  <2>1. tokens \in Nat /\ opened \in Nat /\ opened <= MaxEpisodes
    BY EpisodeAssumption DEF TypeInv, TypeOK
  <2>2. tokens < MaxTokens
    BY DEF EmitClaims, EmitOpens
  <2>3. severity \in Ranks
    BY SeverityType
  <2>4. started \subseteq 1..opened
    BY DEF OnCallInv
  <2> QED BY <2>1, <2>2, <2>3, <2>4, EpisodeAssumption
<1>1. CASE EmitClaims(c, severity)
  <2> DEFINE counted == Counted(episode[active], severity, 0)
             ep == Claimed(counted, Owed(counted), tokens + 1)
  <2>1. /\ active \in Episodes /\ episode[active] \in EpisodeType
        /\ episode' = [episode EXCEPT ![active] = ep]
        /\ call' = [call EXCEPT ![c] = Decided(active, ep, severity)]
        /\ call[c].pc = "idle" /\ Owed(counted) # "none"
        /\ UNCHANGED <<incident, started, restarted, opened>>
    BY <1>1, EpisodeAssumption DEF EmitClaims, Continues, TypeInv, TypeOK, Episodes
  <2>2. /\ counted.token = episode[active].token /\ counted.lease = episode[active].lease
        /\ counted.handled = episode[active].handled
        /\ counted \in EpisodeType
    BY <2>1, <1>0, CountedType DEF Counted, EpisodeType
  <2> HIDE DEF counted
  <2>3. ep.token = tokens + 1 /\ ep.kind = Owed(counted)
    BY <2>2 DEF Claimed, EpisodeType
  <2>4. NoFault /\ Owed(counted) = "initial" => active \notin started
    <3> SUFFICES ASSUME NoFault, Owed(counted) = "initial"
                 PROVE  active \notin started
      OBVIOUS
    <3>1. ClaimsSettle
      BY DEF OnCallInv
    <3>2. CASE episode[active].token # 0
      <4>1. PICK d \in Calls : call[d].pc \in Claiming /\ call[d].e = active
        BY <2>1, <3>1, <3>2 DEF ClaimsSettle
      <4>2. episode[active].lease > 0
        BY <4>1 DEF ClaimsHeld, HeldClaims, Holding
      <4> QED BY <2>1, <2>2, <3>2, <4>2 DEF Owed
    <3>3. CASE episode[active].token = 0
      <4>1. episode[active].handled = 0
        BY <2>2, <3>3 DEF Owed
      <4> QED BY <2>1, <3>1, <3>3, <4>1 DEF ClaimsSettle
    <3> QED BY <3>2, <3>3
  <2> DEFINE cl == Decided(active, ep, severity)
  <2> HIDE DEF ep
  <2>5. cl.pc = "claimed" /\ cl.e = active /\ cl.kind = ep.kind
    BY DEF Decided, Idle
  <2> HIDE DEF cl
  <2>6. /\ call'[c] = cl /\ \A d \in Calls \ {c} : call'[d] = call[d]
        /\ episode'[active] = ep /\ \A n \in Episodes \ {active} : episode'[n] = episode[n]
    BY <2>1 DEF cl, TypeInv, TypeOK
  <2>7. started \subseteq 1..opened'
    BY <1>0, <2>1
  <2>8. call'[c].pc = "claimed" /\ call'[c].e = active /\ episode'[active].token # 0
    BY <1>0, <2>3, <2>5, <2>6
  <2>9. NoFault /\ call'[c].kind = "initial" => active \notin started
    BY <2>3, <2>4, <2>5, <2>6
  <2> QED BY <2>1, <2>6, <2>7, <2>8, <2>9, OnCallClaims
<1>2. CASE EmitOpens(c, severity)
  <2> DEFINE e == opened + 1
             ep == Claimed(NewEpisode(severity), "initial", tokens + 1)
             cl == Decided(e, ep, severity)
  <2>1. /\ e \in Episodes /\ call[c].pc = "idle" /\ opened' = e
        /\ episode' = [n \in Episodes |->
                         IF n = e THEN ep
                         ELSE IF n = active THEN Closed(episode[n]) ELSE episode[n]]
        /\ call' = [call EXCEPT ![c] = cl]
        /\ UNCHANGED <<incident, started, restarted>>
    BY <1>2, <1>0 DEF EmitOpens, Episodes
  <2>2. ep.token = tokens + 1
    BY DEF Claimed, NewEpisode, Blank
  <2> HIDE DEF ep
  <2>3. cl.pc = "claimed" /\ cl.e = e
    BY DEF Decided, Idle
  <2> HIDE DEF cl
  <2>4. /\ episode'[e] = ep /\ call'[c] = cl
        /\ \A d \in Calls \ {c} : call'[d] = call[d]
    BY <2>1 DEF TypeInv, TypeOK
  <2>5. ASSUME NEW n \in Episodes \ {e}
        PROVE  /\ episode'[n].token = episode[n].token
               /\ episode'[n].handled = episode[n].handled
    <3>1. episode'[n] = episode[n] \/ episode'[n] = Closed(episode[n])
      BY <2>1
    <3> QED BY <3>1 DEF Closed, EpisodeType, TypeInv, TypeOK
  <2>6. e \notin started /\ started \subseteq 1..opened'
    BY <1>0, <2>1
  <2>7. call'[c].pc = "claimed" /\ call'[c].e = e /\ episode'[e].token # 0
    BY <1>0, <2>2, <2>3, <2>4
  <2> HIDE DEF e
  <2> QED BY <2>1, <2>4, <2>5, <2>6, <2>7, OnCallClaims
<1> QED BY <1>1, <1>2

\* A completion: without faults it settles what was claimed, so the episode is
\* not due an initial notification any more.
LEMMA OnCallConcludes ==
  ASSUME TypeInv, PageInv, ClaimsHeld, OnCallInv, Mild' => Mild, NoFault' => NoFault,
         NEW c \in Calls, Conclude(c)
  PROVE  OnCallInv'
<1> DEFINE e == call[c].e
           ep == Complete(episode[e], call[c].token, call[c].outcome)
<1>0. call[c].pc = "concluding" /\ call[c].pc \in Claiming
  BY DEF Conclude, Claiming
<1>1. /\ e \in Episodes /\ call[c] \in CallType
      /\ call \in [Calls -> CallType] /\ incident[e] \in IncidentType
      /\ incident \in [Episodes -> IncidentType]
      /\ episode[e] \in EpisodeType /\ started \subseteq Episodes
  BY <1>0, ClaimingFacts DEF TypeInv, TypeOK
<1>2. call[c].token # 0 /\ episode[e].token = call[c].token
  BY <1>0 DEF ClaimsHeld, HeldClaims, Holding
<1>3. /\ episode' = [episode EXCEPT ![e] = ep]
      /\ call' = [call EXCEPT ![c] = Idle]
      /\ UNCHANGED <<opened, started, restarted>>
      /\ \/ incident' = incident
         \/ incident' = [incident EXCEPT ![e] = Applied(incident[e], ep)]
  BY DEF Conclude
<1>4. /\ ep.token = 0
      /\ Terminal(call[c].outcome) => ep.handled = episode[e].severity
  BY <1>1, <1>2 DEF Complete, EpisodeType
<1>5. ep \in EpisodeType
  <2>1. call[c].token \in 0..MaxTokens /\ call[c].outcome \in Outcomes
    BY <1>1 DEF CallType
  <2> HIDE DEF e
  <2> QED BY <1>1, <2>1, CompleteType
<1>6. episode[e].severity # 0
  <2>1. episode[e].handled < episode[e].severity
    BY <1>1, <1>2 DEF PageInv, EpisodesInv, PendingIsDue
  <2> QED BY <1>1, <2>1, EpisodeNumbers
<1> HIDE DEF ep
<1>7. /\ episode'[e] = ep /\ \A n \in Episodes \ {e} : episode'[n] = episode[n]
      /\ call'[c] = Idle /\ \A d \in Calls \ {c} : call'[d] = call[d]
      /\ Idle.pc = "idle"
  BY <1>1, <1>3 DEF TypeInv, TypeOK, Idle
<1>8. ASSUME NEW n \in Episodes PROVE Marked(n) => incident'[n].exists /\ incident'[n].oncall
  <2>1. incident'[n] = incident[n] \/ incident'[n] = Applied(incident[n], ep)
    BY <1>1, <1>3
  <2> QED BY <1>1, <1>5, <2>1, AppliedFields DEF Marked
<1>9. MergesKeepStatus' /\ started' \subseteq 1..opened'
  BY <1>3, <1>7 DEF OnCallInv, MergesKeepStatus
<1>10. ASSUME Mild' PROVE StartedOnce'
  <2>1. StartedOnce
    BY <1>10 DEF OnCallInv
  <2>2. ASSUME NEW d \in Calls PROVE MarksFirst(d)' /\ EscalatesFirst(d)'
    <3>1. CASE d = c
      BY <1>7, <3>1 DEF MarksFirst, EscalatesFirst, Starting
    <3>2. CASE d # c
      <4>1. call'[d] = call[d] /\ MarksFirst(d) /\ EscalatesFirst(d)
        BY <1>7, <2>1, <3>2 DEF StartedOnce
      <4>2. MarksFirst(d)'
        <5> SUFFICES ASSUME call[d].pc \in {"announced", "sent", "stamped"},
                            ~call[d].skip, Pages(call[d].severity)
                     PROVE  incident'[call[d].e].exists /\ incident'[call[d].e].oncall
          BY <4>1 DEF MarksFirst, Marked
        <5>1. Marked(call[d].e) /\ call[d].e \in Episodes
          BY <4>1, CallFacts DEF MarksFirst
        <5> QED BY <1>8, <5>1
      <4> QED BY <1>3, <4>1, <4>2 DEF EscalatesFirst
    <3> QED BY <3>1, <3>2
  <2> QED BY <1>1, <1>3, <1>8, <2>1, <2>2
          DEF StartedOnce, EscalationDoesNotRestartOnCall, Marked
<1>11. ASSUME NoFault' PROVE ClaimsSettle'
  <2>1. ClaimsSettle
    BY <1>11 DEF OnCallInv
  <2>2. ASSUME NEW d \in Calls PROVE InitialFirst(d)' /\ Succeeds(d)'
    <3>1. CASE d = c
      BY <1>7, <3>1 DEF InitialFirst, Succeeds, Starting
    <3>2. CASE d # c
      BY <1>3, <1>7, <2>1, <3>2 DEF ClaimsSettle, InitialFirst, Succeeds
    <3> QED BY <3>1, <3>2
  <2>3. ASSUME NEW n \in Episodes, episode'[n].token # 0
        PROVE  \E d \in Calls : call'[d].pc \in Claiming /\ call'[d].e = n
    BY <1>4, <1>7, <2>1, <2>3 DEF ClaimsSettle
  <2>4. ASSUME NEW n \in Episodes, episode'[n].token = 0 /\ episode'[n].handled = 0
        PROVE  n \notin started
    <3>1. Terminal(call[c].outcome)
      BY <1>0, <2>1 DEF ClaimsSettle, Succeeds
    <3>2. n # e
      BY <1>4, <1>6, <1>7, <2>4, <3>1
    <3> QED BY <1>7, <2>1, <2>4, <3>2 DEF ClaimsSettle
  <2> QED BY <1>3, <2>2, <2>3, <2>4 DEF ClaimsSettle
<1> QED BY <1>9, <1>10, <1>11 DEF OnCallInv

\* A call that dies leaves its claim behind; that is the fault the argument
\* allows for.
LEMMA OnCallCrash ==
  ASSUME TypeInv, OnCallInv, Mild' => Mild, NEW c \in Calls, Crash(c)
  PROVE  OnCallInv'
<1>1. /\ UNCHANGED <<incident, started, restarted, opened>> /\ faults' = faults + 1
      /\ call'[c] = Idle /\ \A d \in Calls \ {c} : call'[d] = call[d]
      /\ Idle.pc = "idle"
  BY DEF Crash, store, TypeInv, TypeOK, Idle
<1>2. ~NoFault'
  <2>1. faults + 1 # 0
    BY EpisodeAssumption DEF TypeInv, TypeOK
  <2> QED BY <1>1, <2>1 DEF NoFault
<1>3. MergesKeepStatus' /\ started' \subseteq 1..opened'
  BY <1>1 DEF OnCallInv, MergesKeepStatus
<1>4. ASSUME Mild' PROVE StartedOnce'
  <2>1. StartedOnce
    BY <1>4 DEF OnCallInv
  <2>2. ASSUME NEW d \in Calls PROVE MarksFirst(d)' /\ EscalatesFirst(d)'
    <3>1. CASE d = c
      BY <1>1, <3>1 DEF MarksFirst, EscalatesFirst, Starting
    <3>2. CASE d # c
      BY <1>1, <2>1, <3>2 DEF StartedOnce, MarksFirst, EscalatesFirst, Marked
    <3> QED BY <3>1, <3>2
  <2> QED BY <1>1, <2>1, <2>2 DEF StartedOnce, EscalationDoesNotRestartOnCall, Marked
<1> QED BY <1>2, <1>3, <1>4 DEF OnCallInv

\* Coalesced occurrences: they write no delivery field.
LEMMA OnCallCoalesced ==
  ASSUME TypeInv, PageInv, OnCallInv, Mild' => Mild, NoFault' => NoFault, NEW c \in Calls,
         \/ CoalesceRead(c) \/ CoalesceSave(c)
         \/ \E severity \in Severities : EmitCoalesced(c, severity)
  PROVE  OnCallInv'
<1>1. /\ UNCHANGED <<started, restarted, opened>>
      /\ call[c].pc \notin Claiming
      /\ \A e \in Episodes : /\ episode'[e].token = episode[e].token
                             /\ episode'[e].handled = episode[e].handled
  <2>1. KeepsClaims
    <3>1. CASE CoalesceRead(c) \/ CoalesceSave(c)
      <4>1. ~Conclude(c)
        BY <3>1 DEF CoalesceRead, CoalesceSave, Conclude
      <4> QED BY <3>1, <4>1, ClaimCall DEF Advance
    <3>2. CASE \E severity \in Severities : EmitCoalesced(c, severity)
      BY <3>2, ClaimCall
    <3> QED BY <3>1, <3>2
  <2> QED BY <2>1 DEF KeepsClaims, CoalesceRead, CoalesceSave, EmitCoalesced, Claiming,
                      store, hist
<1>2. /\ \A d \in Calls \ {c} : call'[d] = call[d]
      /\ call'[c].pc \notin Claiming
      /\ call'[c].pc = "merging" => call'[c].rec.status = ""
  <2>0. call \in [Calls -> CallType] /\ call[c] \in CallType
    BY DEF TypeInv, TypeOK
  <2>1. CASE CoalesceRead(c)
    <3> DEFINE rec == [incident[call[c].e] EXCEPT !.count = call[c].count,
                         !.observed = call[c].observed, !.status = ""]
    <3>1. /\ call[c].pc = "coalesced"
          /\ call' = [call EXCEPT ![c] =
                        IF incident[call[c].e].exists
                        THEN [call[c] EXCEPT !.pc = "merging", !.rec = rec]
                        ELSE Idle]
      BY <2>1 DEF CoalesceRead
    <3>2. rec.status = ""
      BY <3>1, CallFacts DEF IncidentType
    <3> HIDE DEF rec
    <3>3. CASE incident[call[c].e].exists
      BY <2>0, <3>1, <3>2, <3>3 DEF CallType, Claiming
    <3>4. CASE ~incident[call[c].e].exists
      BY <2>0, <3>1, <3>4 DEF Idle, Claiming
    <3> QED BY <3>3, <3>4
  <2>2. CASE CoalesceSave(c)
    BY <2>0, <2>2 DEF CoalesceSave, Idle, Claiming
  <2>3. CASE \E severity \in Severities : EmitCoalesced(c, severity)
    <3>1. PICK ep, severity :
            call' = [call EXCEPT ![c] = [Decided(active, ep, severity) EXCEPT
                                           !.pc = "coalesced", !.token = 0]]
      BY <2>3 DEF EmitCoalesced
    <3> QED BY <2>0, <3>1 DEF Decided, Idle, Claiming
  <2> QED BY <2>1, <2>2, <2>3
<1>3. \A e \in Episodes : Marked(e) => incident'[e].exists /\ incident'[e].oncall
  <2>1. CASE UNCHANGED incident
    BY <2>1 DEF Marked
  <2>2. CASE CoalesceSave(c)
    <3>1. /\ call[c].pc = "merging" /\ call[c].rec \in IncidentType
          /\ call[c].rec.status = ""
      BY <2>2, CallFacts DEF CoalesceSave, OnCallInv, MergesKeepStatus, CallType
    <3>2. ASSUME NEW e \in Episodes, Marked(e)
          PROVE  incident'[e].exists /\ incident'[e].oncall
      <4>1. \/ incident'[e] = incident[e]
            \/ incident'[e] = Saved(incident[e], call[c].rec)
        BY <2>2 DEF CoalesceSave, TypeInv, TypeOK
      <4>2. incident[e] \in IncidentType
        BY DEF TypeInv, TypeOK
      <4>3. /\ Saved(incident[e], call[c].rec).exists
            /\ Saved(incident[e], call[c].rec).oncall
                 = IF call[c].rec.status = "" THEN incident[e].oncall
                   ELSE call[c].rec.oncall
        BY <3>1, <3>2, <4>2, SavedFields DEF Marked
      <4> QED BY <3>1, <3>2, <4>1, <4>3 DEF Marked
    <3> QED BY <3>2
  <2> QED BY <2>1, <2>2 DEF CoalesceRead, EmitCoalesced
<1>4. started \subseteq 1..opened'
  BY <1>1 DEF OnCallInv
<1> QED BY <1>1, <1>2, <1>3, <1>4, OnCallFrame DEF Marked

\* Time, heartbeats, observations and the operator leave what on-call depends on.
LEMMA OnCallQuiet ==
  ASSUME HeartbeatsKeepUp, TypeInv, PageInv, OnCallInv, Mild' => Mild, NoFault' => NoFault,
         \/ Tick \/ \E c \in Calls : Renew(c)
         \/ \E hint \in Hints, lag \in 0..MaxLag : Continue(hint, lag)
         \/ \E e \in Episodes : Resolve(e) \/ CloseByIncident(e) \/ Purge(e)
         \/ UNCHANGED vars
  PROVE  OnCallInv'
<1>1. /\ UNCHANGED <<started, restarted, opened, call>>
      /\ \A e \in Episodes : /\ episode'[e].token = episode[e].token
                             /\ episode'[e].handled = episode[e].handled
  <2>1. KeepsClaims
    BY ClaimQuiet
  <2> QED BY <2>1 DEF KeepsClaims, Tick, Renew, Continue, Resolve, CloseByIncident, Purge,
                      store, hist, vars
<1>2. Mild' => \A e \in Episodes : Marked(e) => incident'[e].exists /\ incident'[e].oncall
  <2> SUFFICES ASSUME Mild', NEW e \in Episodes, Marked(e)
               PROVE  incident'[e].exists /\ incident'[e].oncall
    OBVIOUS
  <2>0. incident[e] \in IncidentType
    BY DEF TypeInv, TypeOK
  <2>1. CASE UNCHANGED incident
    BY <2>1 DEF Marked
  <2>2. CASE \E hint \in Hints, lag \in 0..MaxLag : Continue(hint, lag)
    <3> PICK hint \in Hints, lag \in 0..MaxLag : Continue(hint, lag)
      BY <2>2
    <3> DEFINE ep == Counted(episode[active], Normalize(hint), lag)
    <3>1. active \in Episodes
      BY EpisodeAssumption DEF Continue, TypeInv, TypeOK, Episodes
    <3>2. ep \in EpisodeType
      BY <3>1, NormalizeType, CountedType DEF TypeInv, TypeOK
    <3>3. incident'[e] = incident[e] \/ incident'[e] = Applied(incident[e], ep)
      BY <3>1 DEF Continue, TypeInv, TypeOK
    <3> HIDE DEF ep
    <3> QED BY <2>0, <3>2, <3>3, AppliedFields DEF Marked
  <2>3. CASE \E n \in Episodes : Resolve(n)
    <3>1. \/ incident'[e] = incident[e]
          \/ incident'[e] = [incident[e] EXCEPT !.resolved = TRUE]
      BY <2>3 DEF Resolve, TypeInv, TypeOK
    <3> QED BY <2>0, <3>1 DEF Marked, IncidentType
  <2>4. CASE \E n \in Episodes : Purge(n)
    <3>1. purges' = purges + 1 /\ purges \in Nat
      BY <2>4, EpisodeAssumption DEF Purge, TypeInv, TypeOK
    <3> QED BY <3>1 DEF Mild
  <2> QED BY <2>1, <2>2, <2>3, <2>4 DEF Tick, Renew, CloseByIncident, vars
<1>3. started \subseteq 1..opened'
  BY <1>1 DEF OnCallInv
<1> QED BY <1>1, <1>2, <1>3, OnCallFrame DEF Marked

LEMMA OnCallStep ==
  ASSUME HeartbeatsKeepUp, TypeInv, TypeInv', PageInv, ClaimsHeld, OnCallInv, [Next]_vars
  PROVE  OnCallInv'
<1>0. (Mild' => Mild) /\ (NoFault' => NoFault)
  BY FaultsRise
<1>1. ASSUME NEW c \in Calls, Step(c)
      PROVE  OnCallInv'
  <2>1. CASE \/ Inspect(c) \/ InspectFails(c) \/ Announce(c) \/ Stamp(c)
             \/ \E outcome \in {"sent", "partial", "failed"} : FanOut(c, outcome)
             \/ \E outcome \in Holds : Hold(c, outcome)
             \/ StartOnCall(c)
    <3>1. /\ call[c].pc \in Claiming /\ call'[c].pc # "merging"
          /\ UNCHANGED <<episode, opened>> /\ KeepsOnCall(c)
      BY <1>0, <2>1, OnCallBefore, OnCallStarts
    <3>2. /\ \A d \in Calls \ {c} : call'[d] = call[d]
          /\ \A n \in Episodes \ {call[c].e} : incident'[n] = incident[n]
      <4>1. Advance(c) \/ InspectFails(c) \/ \E outcome \in Holds : Hold(c, outcome)
        BY <2>1 DEF Advance
      <4>2. \A d \in Calls \ {c} : call'[d] = call[d]
        BY <4>1, CallMoves
      <4>3. \A n \in Episodes \ {call[c].e} : incident'[n] = incident[n]
        BY <3>1, <4>1, AdvanceWrites, ClaimingFacts DEF Step, Writes
      <4> QED BY <4>2, <4>3
    <3> QED BY <1>0, <3>1, <3>2, OnCallClaiming
  <2>2. CASE Crash(c)
    BY <1>0, <2>2, OnCallCrash
  <2>3. CASE \/ CoalesceRead(c) \/ CoalesceSave(c)
             \/ \E severity \in Severities : EmitCoalesced(c, severity)
    BY <1>0, <2>3, OnCallCoalesced
  <2>4. CASE \E severity \in Severities : EmitClaims(c, severity) \/ EmitOpens(c, severity)
    BY <1>0, <2>4, OnCallEmit
  <2>5. CASE Conclude(c)
    BY <1>0, <2>5, OnCallConcludes
  <2>6. CASE Renew(c)
    BY <1>0, <2>6, OnCallQuiet
  <2> QED BY <1>1, <2>1, <2>2, <2>3, <2>4, <2>5, <2>6 DEF Step, Emit, Advance
<1>2. CASE \/ Tick
           \/ \E hint \in Hints, lag \in 0..MaxLag : Continue(hint, lag)
           \/ \E e \in Episodes : Resolve(e) \/ CloseByIncident(e) \/ Purge(e)
           \/ UNCHANGED vars
  BY <1>0, <1>2, OnCallQuiet
<1> QED BY <1>1, <1>2 DEF Next

\* While heartbeats keep claims alive and no record is purged: until a fault
\* happens, and if every severity pages also after the first one, on-call is not
\* started again by an escalation of an incident it was started for, whatever
\* rises while an earlier notification is still going out.
THEOREM OnCallStartedOnce ==
  ASSUME HeartbeatsKeepUp
  PROVE  Spec => [](Mild => EscalationDoesNotRestartOnCall)
<1>1. Init => OnCallInv
  <2> SUFFICES ASSUME Init PROVE OnCallInv
    OBVIOUS
  <2>1. /\ started = {} /\ restarted = {}
        /\ \A c \in Calls : call[c].pc = "idle"
        /\ \A e \in Episodes : episode[e].token = 0
    BY DEF Init, Idle, Blank
  <2> QED BY <2>1 DEF OnCallInv, MergesKeepStatus, StartedOnce, ClaimsSettle, MarksFirst,
                      EscalatesFirst, InitialFirst, Succeeds, Starting,
                      EscalationDoesNotRestartOnCall
<1>2. TypeInv /\ TypeInv' /\ PageInv /\ ClaimsHeld /\ OnCallInv /\ [Next]_vars => OnCallInv'
  BY OnCallStep
<1>3. TypeInv /\ PageInv /\ ClaimsHeld /\ [Next]_vars => ClaimsHeld'
  BY ClaimsStep
<1>4. OnCallInv => (Mild => EscalationDoesNotRestartOnCall)
  BY DEF OnCallInv, StartedOnce
<1> QED BY <1>1, <1>2, <1>3, <1>4, ClaimsInit, Paging, PTL DEF Spec

=============================================================================
