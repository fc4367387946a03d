------------------------- MODULE ChatSessionsProofs -------------------------
(***************************************************************************)
(* Proofs about ChatSessions, for any replicas, runs and bounds: type      *)
(* correctness, that working runs hold their lease, that a cancel stays,   *)
(* that a session implements the safety part of ChatExchange, and that its *)
(* status and the index tell whether a run works.                          *)
(***************************************************************************)
EXTENDS ChatSessions, TLAPS

-----------------------------------------------------------------------------
(* The stages of a run *)

Writing == {"correcting", "leased", "seeding", "rereading", "asking",
            "finishing", "closing", "recovering", "failing"}
Early == {"new", "checking", "rechecking", "correcting", "read", "reserved",
          "leased", "seeding", "rereading", "asking"}
Busy == {"reserved"} \cup Working

\* Its message is not stored yet ...
Unasked(x) == x.pc \in Early /\ ~(x.pc = "asking" /\ x.note # "none")

\* ... or it is, and the end of the exchange is still to be written.
Unended(x) ==
  \/ x.pc = "model"
  \/ x.pc = "asking" /\ x.note # "none"
  \/ x.pc \in {"finishing", "recovering"} /\ x.note = "none"
  \/ x.pc = "closing" /\ x.outcome = "panic"

(* What is true of the record of a run by itself: a note is of a write, and
   a run is whole until the model has answered. *)
WellFormed(x) ==
  /\ x.note # "none" => x.pc \in Writing
  /\ x.pc \in Early \cup {"model"} => x.outcome = "none" /\ ~x.broken
  /\ x.pc = "finishing" => x.outcome # "panic"

(* What most steps do to the record of a run: they neither store a turn nor
   reserve the replica or take the lease. *)
Moved(x, y) ==
  /\ y \in RunType /\ WellFormed(y) /\ y.at = x.at
  /\ x.broken => y.broken
  /\ x.pc = "dead" => y.pc = "dead"
  /\ y.pc \in Working => x.pc \in Working /\ y.epoch = x.epoch
  /\ y.pc = "reserved" => x.pc = "reserved"
  /\ x.cancelled /\ y.pc \in Working => y.cancelled
  /\ Unasked(y) => Unasked(x)
  /\ Unended(y) => Unended(x)
  /\ Unended(x) => Unended(y) \/ y.broken \/ y.pc = "dead"

AllMove == \A r \in Runs : Moved(run[r], run'[r])

RecordsOK ==
  /\ run \in [Runs -> RunType]
  /\ \A r \in Runs : WellFormed(run[r])

SessionType == [there : BOOLEAN, status : Statuses, seeded : BOOLEAN,
                asked : SUBSET Runs, ended : SUBSET Runs]

USE DEF Statuses, Outcomes, Preparing, Working, Over, PCs, Writing, Early,
        Busy

LEMMA RunFields ==
  ASSUME NEW x \in RunType
  PROVE  /\ x.pc \in PCs /\ x.at \in Replicas /\ x.seeded \in BOOLEAN
         /\ x.epoch \in Nat /\ x.note \in Statuses \cup {"none"}
         /\ x.outcome \in Outcomes /\ x.broken \in BOOLEAN
         /\ x.cancelled \in BOOLEAN /\ x.tries \in 0..2
BY DEF RunType

LEMMA MovedSame ==
  ASSUME NEW x \in RunType, WellFormed(x)
  PROVE  Moved(x, x)
BY DEF Moved

LEMMA OneRecord ==
  ASSUME RecordsOK, NEW r \in Runs, NEW y \in RunType, WellFormed(y),
         Becomes(r, y)
  PROVE  /\ RecordsOK' /\ run'[r] = y
         /\ \A q \in Runs : q # r => run'[q] = run[q]
<1>1. /\ run' \in [Runs -> RunType] /\ run'[r] = y
      /\ \A q \in Runs : q # r => run'[q] = run[q]
  BY DEF Becomes, RecordsOK
<1>2. ASSUME NEW q \in Runs PROVE WellFormed(run'[q])
  BY <1>1 DEF RecordsOK
<1>3. \A q \in Runs : WellFormed(run[q])'
  BY <1>2 DEF WellFormed
<1> QED
  BY <1>1, <1>3 DEF RecordsOK

LEMMA SomeMove ==
  ASSUME RecordsOK, NEW r \in Runs, NEW y, Moved(run[r], y),
         Becomes(r, y)
  PROVE  AllMove /\ RecordsOK'
<1>1. y \in RunType /\ WellFormed(y)
  BY DEF Moved
<1>2. /\ RecordsOK' /\ run'[r] = y
      /\ \A q \in Runs : q # r => run'[q] = run[q]
  BY <1>1, OneRecord
<1>3. ASSUME NEW q \in Runs PROVE Moved(run[q], run'[q])
  BY <1>2, MovedSame DEF RecordsOK
<1> QED
  BY <1>2, <1>3 DEF AllMove

LEMMA NoneMove ==
  ASSUME RecordsOK, UNCHANGED run
  PROVE  AllMove /\ RecordsOK'
<1>1. ASSUME NEW q \in Runs PROVE Moved(run[q], run'[q])
  BY MovedSame DEF RecordsOK
<1>2. RecordsOK'
  BY DEF RecordsOK, WellFormed
<1> QED
  BY <1>1, <1>2 DEF AllMove

LEMMA LeftMoved ==
  ASSUME RecordsOK, NEW r \in Runs, NEW pc \in {"releasing"} \cup Over,
         ~Unended(run[r]) \/ pc = "dead", run[r].pc # "dead",
         NEW e \in Nat
  PROVE  Moved(run[r], Left(r, pc, e))
<1> DEFINE x == run[r]
           y == Left(r, pc, e)
<1>1. x.at \in Replicas /\ x.broken \in BOOLEAN
  BY RunFields DEF RecordsOK
<1>2. /\ y.pc = pc /\ y.at = x.at /\ y.note = "none"
      /\ y.outcome = "none" /\ y.broken = x.broken
  BY DEF Left
<1>3. 0 \in 0..2 /\ pc \in PCs
  OBVIOUS
<1>4. y \in RunType
  BY <1>1, <1>3 DEF RunType, Left
<1>5. WellFormed(y) /\ ~Unasked(y) /\ ~Unended(y)
  BY <1>2 DEF WellFormed, Unasked, Unended
<1>6. y.pc \notin Working \cup {"reserved"}
  BY <1>2
<1> QED
  BY <1>1, <1>2, <1>4, <1>5, <1>6 DEF Moved

LEMMA LeavesMove ==
  ASSUME RecordsOK, NEW r \in Runs, NEW pc \in Over,
         ~Unended(run[r]) \/ pc = "dead", run[r].pc # "dead",
         Leaves(r, pc)
  PROVE  AllMove /\ RecordsOK'
<1>1. Moved(run[r], Left(r, pc, 0))
  BY LeftMoved
<1> QED
  BY <1>1, SomeMove DEF Leaves

LEMMA StopsMove ==
  ASSUME RecordsOK, NEW r \in Runs, Stops(r)
  PROVE  AllMove /\ RecordsOK'
<1> DEFINE x == run[r]
           y == [x EXCEPT !.cancelled = TRUE]
<1>1. x \in RunType /\ WellFormed(x)
  BY DEF RecordsOK
<1>2. /\ y \in RunType /\ y.pc = x.pc /\ y.at = x.at /\ y.note = x.note
      /\ y.outcome = x.outcome /\ y.broken = x.broken
      /\ y.epoch = x.epoch /\ y.cancelled = TRUE
  BY <1>1 DEF RunType
<1>3. Moved(x, y)
  BY <1>1, <1>2 DEF Moved, WellFormed, Unasked, Unended
<1> QED
  BY <1>3, SomeMove DEF Stops

LEMMA ErrsMove ==
  ASSUME RecordsOK, NEW r \in Runs,
         run[r].pc \in Writing \cup {"checking", "rechecking"}, Errs(r)
  PROVE  AllMove /\ RecordsOK'
<1> DEFINE x == run[r]
           y == [x EXCEPT !.pc = AfterError(r), !.broken = TRUE,
                          !.note = "none"]
<1>1. x \in RunType /\ WellFormed(x)
  BY DEF RecordsOK
<1>2. AfterError(r) \in PCs
  BY DEF AfterError
<1>3. /\ y \in RunType /\ y.pc = AfterError(r) /\ y.at = x.at
      /\ y.note = "none" /\ y.outcome = x.outcome /\ y.broken = TRUE
      /\ y.epoch = x.epoch /\ y.cancelled = x.cancelled
  BY <1>1, <1>2 DEF RunType
<1>4. /\ y.pc \in {"refused", "release", "closing", "recovering", "failing"}
      /\ y.pc \in Working => x.pc \in Working
      /\ y.pc = "closing" => x.pc \in {"seeding", "rereading", "asking",
                                      "finishing"}
      /\ y.pc = "recovering" => x.pc = "closing" /\ x.outcome = "panic"
  BY <1>3 DEF AfterError
<1>5. ~Unasked(y) /\ WellFormed(y)
  BY <1>3, <1>4 DEF Unasked, WellFormed
<1>6. Unended(y) => Unended(x)
  BY <1>1, <1>3, <1>4 DEF Unended, WellFormed
<1>7. y.pc # "reserved" /\ x.pc # "dead"
  BY <1>4
<1> HIDE DEF y
<1>8. Moved(x, y)
  BY <1>3, <1>4, <1>5, <1>6, <1>7 DEF Moved
<1>9. Becomes(r, y)
  BY DEF Errs, y
<1> QED
  BY <1>8, <1>9, SomeMove

LEMMA TouchMoves ==
  ASSUME RecordsOK, NEW r \in Runs, TouchIndex(r)
  PROVE  AllMove /\ RecordsOK'
<1> DEFINE x == run[r]
           y == [x EXCEPT !.pc = After(r), !.note = "none"]
<1>1. x \in RunType /\ WellFormed(x)
  BY DEF RecordsOK
<1>0. x.note # "none" /\ x.pc \in Writing
  BY <1>1 DEF WellFormed, TouchIndex
<1>2. After(r) \in PCs
  BY <1>0 DEF After
<1>3. /\ y \in RunType /\ y.pc = After(r) /\ y.at = x.at
      /\ y.note = "none" /\ y.outcome = x.outcome /\ y.broken = x.broken
      /\ y.epoch = x.epoch /\ y.cancelled = x.cancelled
  <2> HIDE DEF x
  <2>1. x \in RunType
    BY <1>1
  <2>2. y \in RunType
    BY <2>1, <1>2 DEF RunType
  <2>3. /\ y.pc = After(r) /\ y.note = "none"
        /\ y.at = x.at /\ y.epoch = x.epoch
    BY <2>1 DEF RunType
  <2>4. /\ y.outcome = x.outcome /\ y.broken = x.broken
        /\ y.cancelled = x.cancelled
    BY <2>1 DEF RunType
  <2> QED
    BY <2>2, <2>3, <2>4
<1>4. /\ y.pc \in {"read", "asking", "seeding", "rereading", "model",
                   "closing", "recovering", "release", "failing"}
      /\ y.pc \in Working => x.pc \in Working
      /\ y.pc \in Early => x.pc \in Early /\ x.pc # "asking"
      /\ y.pc = "model" <=> x.pc = "asking"
      /\ y.pc = "closing" <=> x.pc = "finishing"
      /\ y.pc = "recovering" <=> x.pc = "closing" /\ x.outcome = "panic"
      /\ y.pc # "finishing"
  <2>1. /\ x.pc = "correcting" => After(r) = "read"
        /\ x.pc = "leased" => After(r) \in {"asking", "seeding"}
        /\ x.pc = "seeding" => After(r) = "rereading"
        /\ x.pc = "rereading" => After(r) = "asking"
        /\ x.pc = "asking" => After(r) = "model"
        /\ x.pc = "finishing" => After(r) = "closing"
    BY DEF After
  <2>2. /\ x.pc = "closing" /\ x.outcome = "panic" => After(r) = "recovering"
        /\ x.pc = "closing" /\ x.outcome # "panic" => After(r) = "release"
        /\ x.pc = "recovering" => After(r) = "failing"
        /\ x.pc = "failing" => After(r) = "release"
    BY DEF After
  <2> HIDE DEF y
  <2> QED
    BY <1>0, <1>3, <2>1, <2>2
<1>5. Unasked(y) => Unasked(x)
  BY <1>3, <1>4 DEF Unasked
<1>6. Unended(y) <=> Unended(x)
  BY <1>0, <1>1, <1>3, <1>4 DEF Unended, WellFormed
<1>7. WellFormed(y)
  BY <1>1, <1>3, <1>4 DEF WellFormed
<1>8. y.pc # "reserved" /\ x.pc # "dead"
  BY <1>0, <1>4
<1> HIDE DEF y
<1>9. Moved(x, y)
  BY <1>3, <1>4, <1>5, <1>6, <1>7, <1>8 DEF Moved
<1>10. Becomes(r, y)
  BY DEF TouchIndex, y
<1> QED
  BY <1>9, <1>10, SomeMove

LEMMA NoteTyped ==
  ASSUME RecordsOK, NEW r \in Runs, NEW status \in Statuses,
         run[r].pc \in Writing,
         Becomes(r, [run[r] EXCEPT !.note = status])
  PROVE  /\ RecordsOK' /\ run'[r] \in RunType /\ WellFormed(run'[r])
         /\ run'[r].pc = run[r].pc /\ run'[r].note = status
         /\ run'[r].at = run[r].at /\ run'[r].outcome = run[r].outcome
         /\ run'[r].broken = run[r].broken /\ run'[r].epoch = run[r].epoch
         /\ run'[r].cancelled = run[r].cancelled
         /\ \A q \in Runs : q # r => run'[q] = run[q]
<1> DEFINE x == run[r]
           y == [x EXCEPT !.note = status]
<1>1. x \in RunType /\ WellFormed(x)
  BY DEF RecordsOK
<1>3. /\ y \in RunType /\ y.pc = x.pc /\ y.at = x.at
      /\ y.note = status /\ y.outcome = x.outcome /\ y.broken = x.broken
      /\ y.epoch = x.epoch /\ y.cancelled = x.cancelled
  BY <1>1 DEF RunType
<1>4. WellFormed(y)
  BY <1>1, <1>3 DEF WellFormed
<1>5. Becomes(r, y)
  OBVIOUS
<1> HIDE DEF y
<1>6. /\ RecordsOK' /\ run'[r] = y
      /\ \A q \in Runs : q # r => run'[q] = run[q]
  BY <1>3, <1>4, <1>5, OneRecord
<1> QED
  BY <1>3, <1>4, <1>6

LEMMA NoteMoves ==
  ASSUME RecordsOK, NEW r \in Runs, NEW status \in Statuses,
         run[r].pc \in Writing \ {"asking", "finishing", "recovering"},
         Becomes(r, [run[r] EXCEPT !.note = status])
  PROVE  AllMove /\ RecordsOK'
<1> DEFINE x == run[r]
           y == [x EXCEPT !.note = status]
<1>1. x \in RunType /\ WellFormed(x)
  BY DEF RecordsOK
<1>3. /\ y \in RunType /\ y.pc = x.pc /\ y.at = x.at
      /\ y.note = status /\ y.outcome = x.outcome /\ y.broken = x.broken
      /\ y.epoch = x.epoch /\ y.cancelled = x.cancelled
  BY <1>1 DEF RunType
<1>4. /\ WellFormed(y)
      /\ Unasked(y) <=> Unasked(x)
      /\ Unended(y) <=> Unended(x)
  BY <1>1, <1>3 DEF WellFormed, Unasked, Unended
<1>5. Becomes(r, y)
  OBVIOUS
<1> HIDE DEF y
<1>6. Moved(x, y)
  BY <1>3, <1>4 DEF Moved
<1> QED
  BY <1>5, <1>6, SomeMove

-----------------------------------------------------------------------------
(* The steps that move every record *)

LEMMA UpdateMoves ==
  ASSUME RecordsOK, NEW r \in Runs, NEW changed,
         session.there => changed.status \in Statuses,
         run[r].pc \in Writing \ {"asking", "finishing", "recovering"},
         UpdateSession(r, changed)
  PROVE  AllMove /\ RecordsOK'
<1>1. CASE Errs(r)
  BY <1>1, ErrsMove
<1>2. CASE session.there /\ Becomes(r, [run[r] EXCEPT !.note = changed.status])
  BY <1>2, NoteMoves
<1> QED
  BY <1>1, <1>2 DEF UpdateSession

LEMMA BeginMoves ==
  ASSUME RecordsOK, session.seeded \in BOOLEAN, NEW r \in Runs, Begin(r)
  PROVE  AllMove /\ RecordsOK'
<1> DEFINE x == run[r]
           p == IF session.status = "running" THEN "checking" ELSE "read"
           y == [x EXCEPT !.seeded = session.seeded, !.pc = p]
<1>1. x \in RunType /\ WellFormed(x) /\ x.pc = "new"
  BY DEF RecordsOK, Begin
<1>2. CASE Leaves(r, "refused")
  <2>1. ~Unended(x)
    BY <1>1 DEF Unended
  <2> QED
    BY <1>1, <1>2, <2>1, LeavesMove
<1>3. CASE Becomes(r, y)
  <2>1. p \in {"checking", "read"}
    OBVIOUS
  <2> HIDE DEF p
  <2>2. /\ y \in RunType /\ y.pc = p /\ y.at = x.at /\ y.note = x.note
        /\ y.outcome = x.outcome /\ y.broken = x.broken
        /\ y.epoch = x.epoch /\ y.cancelled = x.cancelled
    BY <1>1, <2>1 DEF RunType
  <2> HIDE DEF y
  <2>3. /\ WellFormed(y) /\ ~Unended(y) /\ ~Unended(x) /\ Unasked(x)
    BY <1>1, <2>1, <2>2 DEF WellFormed, Unended, Unasked
  <2>4. Moved(x, y)
    BY <1>1, <2>1, <2>2, <2>3 DEF Moved
  <2> QED
    BY <1>3, <2>4, SomeMove
<1> QED
  BY <1>2, <1>3 DEF Begin

LEMMA GoToMoves ==
  ASSUME RecordsOK, NEW r \in Runs, NEW pc \in PCs, GoTo(r, pc),
         run[r].note = "none",
         \/ /\ run[r].pc \in {"checking", "rechecking"}
            /\ pc \in {"rechecking", "correcting", "read"}
         \/ run[r].pc = "rereading" /\ pc = "asking"
  PROVE  AllMove /\ RecordsOK'
<1> DEFINE x == run[r]
           y == [x EXCEPT !.pc = pc]
<1>1. x \in RunType /\ WellFormed(x)
  BY DEF RecordsOK
<1>2. /\ y \in RunType /\ y.pc = pc /\ y.at = x.at /\ y.note = x.note
      /\ y.outcome = x.outcome /\ y.broken = x.broken
      /\ y.epoch = x.epoch /\ y.cancelled = x.cancelled
  BY <1>1 DEF RunType
<1> HIDE DEF y
<1>3. /\ WellFormed(y) /\ ~Unended(y) /\ ~Unended(x) /\ Unasked(x)
  BY <1>1, <1>2 DEF WellFormed, Unended, Unasked
<1>4. Moved(x, y)
  BY <1>1, <1>2, <1>3 DEF Moved
<1>5. Becomes(r, y)
  BY DEF GoTo, y
<1> QED
  BY <1>4, <1>5, SomeMove

LEMMA CheckMoves ==
  ASSUME RecordsOK, NEW r \in Runs, CheckLease(r)
  PROVE  AllMove /\ RecordsOK'
<1> DEFINE p == IF ~LeaseActive THEN "correcting"
                ELSE IF run[r].pc = "checking" THEN "rechecking" ELSE "read"
<1>1. /\ run[r].pc \in {"checking", "rechecking"}
      /\ p \in {"rechecking", "correcting", "read"} /\ GoTo(r, p)
  BY DEF CheckLease
<1>2. run[r].note = "none"
  BY <1>1 DEF RecordsOK, WellFormed
<1> HIDE DEF p
<1>3. p \in PCs
  BY <1>1
<1> QED
  BY <1>1, <1>2, <1>3, GoToMoves

LEMMA RereadMoves ==
  ASSUME RecordsOK, session \in SessionType, NEW r \in Runs, Reread(r)
  PROVE  AllMove /\ RecordsOK'
<1> DEFINE changed == [session EXCEPT !.status = "failed"]
<1>1. run[r].pc = "rereading"
  BY DEF Reread
<1>2. CASE run[r].note = "none" /\ GoTo(r, "asking")
  BY <1>1, <1>2, GoToMoves
<1>3. CASE UpdateSession(r, changed)
  <2>1. changed.status \in Statuses
    BY DEF SessionType
  <2> HIDE DEF changed
  <2> QED
    BY <1>1, <1>3, <2>1, UpdateMoves
<1> QED
  BY <1>2, <1>3 DEF Reread

LEMMA ChangesTyped ==
  ASSUME session \in SessionType, NEW r \in Runs
  PROVE  /\ \A st \in Statuses :
              /\ [session EXCEPT !.status = st] \in SessionType
              /\ [session EXCEPT !.status = st].status = st
              /\ [session EXCEPT !.status = st].asked = session.asked
              /\ [session EXCEPT !.status = st].ended = session.ended
              /\ [session EXCEPT !.status = st].there = session.there
         /\ LET s == [session EXCEPT !.status = "running", !.seeded = TRUE]
            IN /\ s \in SessionType /\ s.status = "running"
               /\ s.asked = session.asked /\ s.ended = session.ended
               /\ s.there = session.there
         /\ LET s == [session EXCEPT !.asked = @ \cup {r}]
            IN /\ s \in SessionType /\ s.asked = session.asked \cup {r}
               /\ s.ended = session.ended /\ s.status = session.status
               /\ s.there = session.there
         /\ LET s == [session EXCEPT !.ended = @ \cup {r}]
            IN /\ s \in SessionType /\ s.ended = session.ended \cup {r}
               /\ s.asked = session.asked /\ s.status = session.status
               /\ s.there = session.there
<1>1. ASSUME NEW st \in Statuses
      PROVE  /\ [session EXCEPT !.status = st] \in SessionType
             /\ [session EXCEPT !.status = st].status = st
             /\ [session EXCEPT !.status = st].asked = session.asked
             /\ [session EXCEPT !.status = st].ended = session.ended
             /\ [session EXCEPT !.status = st].there = session.there
  BY DEF SessionType
<1> DEFINE s1 == [session EXCEPT !.status = "running", !.seeded = TRUE]
           s2 == [session EXCEPT !.asked = @ \cup {r}]
           s3 == [session EXCEPT !.ended = @ \cup {r}]
<1>2. /\ s1 \in SessionType /\ s1.status = "running"
      /\ s1.asked = session.asked /\ s1.ended = session.ended
      /\ s1.there = session.there
  BY DEF SessionType
<1>3. /\ s2 \in SessionType /\ s2.asked = session.asked \cup {r}
      /\ s2.ended = session.ended /\ s2.status = session.status
      /\ s2.there = session.there
  BY DEF SessionType
<1>4. /\ s3 \in SessionType /\ s3.ended = session.ended \cup {r}
      /\ s3.asked = session.asked /\ s3.status = session.status
      /\ s3.there = session.there
  BY DEF SessionType
<1> QED
  BY <1>1, <1>2, <1>3, <1>4

LEMMA WritesMove ==
  ASSUME RecordsOK, session \in SessionType, NEW r \in Runs,
         Correct(r) \/ MarkRunning(r) \/ Seed(r) \/ SetFinal(r)
  PROVE  AllMove /\ RecordsOK'
<1>1. ASSUME NEW st \in Statuses,
             run[r].pc \in Writing \ {"asking", "finishing", "recovering"},
             UpdateSession(r, [session EXCEPT !.status = st])
      PROVE  AllMove /\ RecordsOK'
  <2>1. [session EXCEPT !.status = st].status \in Statuses
    BY ChangesTyped
  <2> QED
    BY <1>1, <2>1, UpdateMoves
<1>2. CASE Correct(r)
  BY <1>1, <1>2 DEF Correct
<1>3. CASE MarkRunning(r)
  BY <1>1, <1>3 DEF MarkRunning
<1>4. CASE Seed(r)
  <2>1. [session EXCEPT !.status = "running", !.seeded = TRUE].status
           \in Statuses
    BY ChangesTyped
  <2> QED
    BY <1>4, <2>1, UpdateMoves DEF Seed
<1>5. CASE SetFinal(r)
  <2>1. FinalStatus(r) \in Statuses
    BY DEF FinalStatus
  <2> QED
    BY <1>1, <1>5, <2>1 DEF SetFinal
<1> QED
  BY <1>2, <1>3, <1>4, <1>5

LEMMA ChatMoves ==
  ASSUME RecordsOK, NEW r \in Runs, RunChat(r)
  PROVE  AllMove /\ RecordsOK'
<1> DEFINE x == run[r]
           Y(outcome) ==
             [x EXCEPT !.outcome = outcome, !.broken = outcome = "nothing",
                       !.pc = IF outcome \in {"panic", "nothing"}
                              THEN "closing" ELSE "finishing"]
<1>1. x \in RunType /\ WellFormed(x) /\ x.pc = "model" /\ x.note = "none"
  BY DEF RecordsOK, RunChat
<1>2. PICK outcome \in Outcomes \ {"none"} : Becomes(r, Y(outcome))
  BY DEF RunChat
<1> DEFINE p == IF outcome \in {"panic", "nothing"} THEN "closing"
                ELSE "finishing"
           b == outcome = "nothing"
           y == [x EXCEPT !.outcome = outcome, !.broken = b, !.pc = p]
<1>3. p \in {"closing", "finishing"} /\ b \in BOOLEAN
  OBVIOUS
<1>4. /\ p = "closing" => outcome = "panic" \/ b
      /\ p = "finishing" => outcome # "panic"
  OBVIOUS
<1>5. Becomes(r, y)
  BY <1>2
<1> HIDE DEF p, b
<1>6. /\ y \in RunType /\ y.pc = p /\ y.at = x.at /\ y.note = "none"
      /\ y.outcome = outcome /\ y.broken = b
      /\ y.epoch = x.epoch /\ y.cancelled = x.cancelled
  BY <1>1, <1>3 DEF RunType
<1> HIDE DEF y
<1>7. /\ WellFormed(y) /\ Unended(x) /\ ~Unasked(y)
      /\ Unended(y) \/ y.broken
  BY <1>1, <1>3, <1>4, <1>6 DEF WellFormed, Unended, Unasked
<1>8. ~x.broken
  BY <1>1 DEF WellFormed
<1>9. Moved(x, y)
  BY <1>1, <1>3, <1>6, <1>7, <1>8 DEF Moved
<1> QED
  BY <1>5, <1>9, SomeMove

LEMMA ForgetMoves ==
  ASSUME RecordsOK, NEW r \in Runs, Forget(r)
  PROVE  AllMove /\ RecordsOK'
<1>1. run[r].pc = "release" /\ run[r].epoch \in Nat
  BY RunFields DEF Forget, RecordsOK
<1>2. ~Unended(run[r])
  BY <1>1 DEF Unended
<1>3. Moved(run[r], Left(r, "releasing", run[r].epoch))
  BY <1>1, <1>2, LeftMoved
<1> QED
  BY <1>3, SomeMove DEF Forget

LEMMA RetryMoves ==
  ASSUME RecordsOK, NEW r \in Runs, run[r].pc = "releasing",
         run[r].tries < 2, Becomes(r, [run[r] EXCEPT !.tries = @ + 1])
  PROVE  AllMove /\ RecordsOK'
<1> DEFINE x == run[r]
           y == [x EXCEPT !.tries = @ + 1]
<1>1. x \in RunType /\ WellFormed(x) /\ x.tries \in 0..2
  BY RunFields DEF RecordsOK
<1>2. x.tries + 1 \in 0..2
  BY <1>1
<1>3. /\ y \in RunType /\ y.pc = x.pc /\ y.at = x.at /\ y.note = x.note
      /\ y.outcome = x.outcome /\ y.broken = x.broken
      /\ y.epoch = x.epoch /\ y.cancelled = x.cancelled
  BY <1>1, <1>2 DEF RunType
<1>5. Becomes(r, y)
  OBVIOUS
<1> HIDE DEF y
<1>4. /\ WellFormed(y) /\ ~Unasked(y) /\ ~Unended(y) /\ ~Unended(x)
  BY <1>1, <1>3 DEF WellFormed, Unasked, Unended
<1>6. Moved(x, y)
  BY <1>3, <1>4 DEF Moved
<1> QED
  BY <1>5, <1>6, SomeMove

LEMMA DoneMoves ==
  ASSUME RecordsOK, NEW r \in Runs, run[r].pc = "releasing",
         Leaves(r, "done")
  PROVE  AllMove /\ RecordsOK'
<1>1. ~Unended(run[r])
  BY DEF Unended
<1> QED
  BY <1>1, LeavesMove

LEMMA ReleaseMoves ==
  ASSUME RecordsOK, NEW r \in Runs, ReleaseLease(r)
  PROVE  AllMove /\ RecordsOK'
<1>1. run[r].pc = "releasing"
  BY DEF ReleaseLease
<1>2. \/ Leaves(r, "done")
      \/ run[r].tries < 2 /\ Becomes(r, [run[r] EXCEPT !.tries = @ + 1])
  BY DEF ReleaseLease
<1> QED
  BY <1>1, <1>2, DoneMoves, RetryMoves

LEMMA RenewMoves ==
  ASSUME RecordsOK, NEW r \in Runs, RenewLease(r)
  PROVE  AllMove /\ RecordsOK'
<1>1. Stops(r) \/ UNCHANGED run
  BY DEF RenewLease
<1> QED
  BY <1>1, StopsMove, NoneMove

LEMMA RefusedMoves ==
  ASSUME RecordsOK, NEW r \in Runs, run[r].pc \in {"read", "reserved"},
         Leaves(r, "refused")
  PROVE  AllMove /\ RecordsOK'
<1>1. ~Unended(run[r])
  BY DEF Unended
<1> QED
  BY <1>1, LeavesMove

LEMMA FailureMoves ==
  ASSUME RecordsOK, NEW r \in Runs, StoreFails(r)
  PROVE  AllMove /\ RecordsOK'
<1>1. CASE /\ run[r].pc \in {"checking", "rechecking", "correcting"} \cup
                            (Working \ {"model", "release"})
           /\ Errs(r)
  <2>1. run[r].pc \in Writing \cup {"checking", "rechecking"}
    BY <1>1
  <2> QED
    BY <1>1, <2>1, ErrsMove
<1>2. CASE run[r].pc = "reserved" /\ Leaves(r, "refused")
  BY <1>2, RefusedMoves
<1>3. CASE Stops(r)
  BY <1>3, StopsMove
<1>4. CASE /\ run[r].pc = "releasing" /\ run[r].tries < 2
           /\ Becomes(r, [run[r] EXCEPT !.tries = @ + 1])
  BY <1>4, RetryMoves
<1>5. CASE run[r].pc = "releasing" /\ Leaves(r, "done")
  BY <1>5, DoneMoves
<1> QED
  BY <1>1, <1>2, <1>3, <1>4, <1>5 DEF StoreFails

LEMMA KillMoves ==
  ASSUME RecordsOK, NEW i \in Replicas, Kill(i)
  PROVE  AllMove /\ RecordsOK'
<1> DEFINE victims == {r \in Runs : run[r].at = i
                         /\ run[r].pc \notin (Over \cup {"new"})}
           F(r) == IF r \in victims THEN Left(r, "dead", 0) ELSE run[r]
<1>1. run' = [r \in Runs |-> F(r)]
  BY DEF Kill
<1>2. ASSUME NEW r \in Runs PROVE Moved(run[r], F(r))
  <2>1. CASE r \in victims
    <3>1. run[r].pc # "dead"
      BY <2>1
    <3> QED
      BY <2>1, <3>1, LeftMoved
  <2>2. CASE r \notin victims
    BY <2>2, MovedSame DEF RecordsOK
  <2> QED
    BY <2>1, <2>2
<1>3. /\ \A r \in Runs : run'[r] = F(r)
      /\ \A r \in Runs : F(r) \in RunType /\ WellFormed(F(r))
  BY <1>1, <1>2 DEF Moved
<1>4. run' \in [Runs -> RunType]
  <2> HIDE DEF F
  <2> QED
    BY <1>1, <1>3
<1> HIDE DEF F
<1>5. \A r \in Runs : WellFormed(run'[r])
  BY <1>3
<1>6. \A r \in Runs : WellFormed(run[r])'
  BY <1>5 DEF WellFormed
<1> QED
  BY <1>2, <1>3, <1>4, <1>6 DEF AllMove, RecordsOK

LEMMA CancelLocalMoves ==
  ASSUME RecordsOK, CancelLocal
  PROVE  AllMove /\ RecordsOK'
<1>0. PICK i \in Replicas :
        run' = [r \in Runs |-> IF active[i] = r
                                THEN [run[r] EXCEPT !.cancelled = TRUE]
                                ELSE run[r]]
  BY DEF CancelLocal
<1> DEFINE F(r) == IF active[i] = r THEN [run[r] EXCEPT !.cancelled = TRUE]
                   ELSE run[r]
<1>1. run' = [r \in Runs |-> F(r)]
  BY <1>0
<1>2. ASSUME NEW r \in Runs PROVE Moved(run[r], F(r))
  <2> DEFINE x == run[r]
             y == [x EXCEPT !.cancelled = TRUE]
  <2>1. x \in RunType /\ WellFormed(x)
    BY DEF RecordsOK
  <2>2. /\ y \in RunType /\ y.pc = x.pc /\ y.at = x.at /\ y.note = x.note
        /\ y.outcome = x.outcome /\ y.broken = x.broken
        /\ y.epoch = x.epoch /\ y.cancelled = TRUE
    BY <2>1 DEF RunType
  <2>3. Moved(x, y)
    BY <2>1, <2>2 DEF Moved, WellFormed, Unasked, Unended
  <2>4. Moved(x, x)
    BY <2>1, MovedSame
  <2> QED
    BY <2>3, <2>4
<1>3. /\ \A r \in Runs : run'[r] = F(r)
      /\ \A r \in Runs : F(r) \in RunType /\ WellFormed(F(r))
  BY <1>1, <1>2 DEF Moved
<1>4. run' \in [Runs -> RunType]
  <2> HIDE DEF F
  <2> QED
    BY <1>1, <1>3
<1> HIDE DEF F
<1>5. \A r \in Runs : WellFormed(run'[r])
  BY <1>3
<1>6. \A r \in Runs : WellFormed(run[r])'
  BY <1>5 DEF WellFormed
<1> QED
  BY <1>2, <1>3, <1>4, <1>6 DEF AllMove, RecordsOK

-----------------------------------------------------------------------------
(* The steps that do more: they reserve, take the lease or store a turn *)

Moving(r) ==
  \/ Begin(r) \/ CheckLease(r) \/ Correct(r) \/ MarkRunning(r) \/ Seed(r)
  \/ Reread(r) \/ SetFinal(r) \/ TouchIndex(r) \/ RunChat(r) \/ Forget(r)
  \/ ReleaseLease(r) \/ RenewLease(r) \/ RunTimeout(r) \/ StoreFails(r)

LEMMA MovingMoves ==
  ASSUME RecordsOK, session \in SessionType, NEW r \in Runs, Moving(r)
  PROVE  AllMove /\ RecordsOK'
<1>1. session.seeded \in BOOLEAN
  BY DEF SessionType
<1>2. CASE RunTimeout(r)
  BY <1>2, StopsMove DEF RunTimeout
<1> QED
  BY <1>1, <1>2, BeginMoves, CheckMoves, WritesMove, RereadMoves, TouchMoves,
     ChatMoves, ForgetMoves, ReleaseMoves, RenewMoves, FailureMoves
     DEF Moving

(* A turn is stored, and the touch is still to come. *)
StoresTurn(r) ==
  /\ session.there
  /\ Becomes(r, [run[r] EXCEPT !.note = session.status])
  /\ UNCHANGED <<index, lease, active, admin, happened, born, history>>
Asks(r) ==
  /\ run[r].pc = "asking" /\ run[r].note = "none" /\ StoresTurn(r)
  /\ session' = [session EXCEPT !.asked = @ \cup {r}]
Ends(r) ==
  /\ run[r].pc \in {"finishing", "recovering"} /\ run[r].note = "none"
  /\ StoresTurn(r)
  /\ session' = [session EXCEPT !.ended = @ \cup {r}]

(* The session is gone, and the run goes on to its end. *)
Misses(r) ==
  /\ run[r].pc \in {"asking", "finishing", "recovering"}
  /\ ~session.there /\ Errs(r)
  /\ UNCHANGED <<session, index, lease, active, admin, happened, born,
                 history>>

LEMMA AppendCases ==
  ASSUME session \in SessionType, NEW r \in Runs,
         AppendUser(r) \/ AppendEnd(r)
  PROVE  Asks(r) \/ Ends(r) \/ Misses(r)
<1> DEFINE s2 == [session EXCEPT !.asked = @ \cup {r}]
           s3 == [session EXCEPT !.ended = @ \cup {r}]
<1>1. s2.status = session.status /\ s3.status = session.status
  BY ChangesTyped
<1>2. CASE AppendUser(r)
  <2>1. run[r].pc = "asking" /\ UpdateSession(r, s2) /\ UNCHANGED fixed
    BY <1>2 DEF AppendUser
  <2> HIDE DEF s2
  <2>2. CASE ~session.there /\ Errs(r) /\ UNCHANGED session
    BY <2>1, <2>2 DEF Misses, UpdateSession, history
  <2>3. CASE /\ session.there /\ session' = s2
             /\ Becomes(r, [run[r] EXCEPT !.note = s2.status])
    BY <1>1, <2>1, <2>3 DEF Asks, StoresTurn, UpdateSession, history, s2
  <2> QED
    BY <2>1, <2>2, <2>3 DEF UpdateSession
<1>3. CASE AppendEnd(r)
  <2>1. /\ run[r].pc \in {"finishing", "recovering"}
        /\ UpdateSession(r, s3) /\ UNCHANGED fixed
    BY <1>3 DEF AppendEnd
  <2> HIDE DEF s3
  <2>2. CASE ~session.there /\ Errs(r) /\ UNCHANGED session
    BY <2>1, <2>2 DEF Misses, UpdateSession, history
  <2>3. CASE /\ session.there /\ session' = s3
             /\ Becomes(r, [run[r] EXCEPT !.note = s3.status])
    BY <1>1, <2>1, <2>3 DEF Ends, StoresTurn, UpdateSession, history, s3
  <2> QED
    BY <2>1, <2>2, <2>3 DEF UpdateSession
<1> QED
  BY <1>2, <1>3

LEMMA MissesMove ==
  ASSUME RecordsOK, NEW r \in Runs, Misses(r)
  PROVE  AllMove /\ RecordsOK'
BY ErrsMove DEF Misses

LEMMA StoresTyped ==
  ASSUME RecordsOK, session \in SessionType, NEW r \in Runs,
         Asks(r) \/ Ends(r)
  PROVE  /\ RecordsOK' /\ session' \in SessionType
         /\ run'[r] \in RunType /\ WellFormed(run'[r])
         /\ run'[r].pc = run[r].pc /\ run'[r].note # "none"
         /\ run'[r].at = run[r].at /\ run'[r].outcome = run[r].outcome
         /\ run'[r].broken = run[r].broken /\ run'[r].epoch = run[r].epoch
         /\ run'[r].cancelled = run[r].cancelled
         /\ \A q \in Runs : q # r => run'[q] = run[q]
<1>1. session.status \in Statuses
  BY DEF SessionType
<1>2. run[r].pc \in Writing
  BY DEF Asks, Ends
<1>3. Becomes(r, [run[r] EXCEPT !.note = session.status])
  BY DEF Asks, Ends, StoresTurn
<1>4. session' \in SessionType
  BY ChangesTyped DEF Asks, Ends
<1>5. "none" \notin Statuses
  OBVIOUS
<1> QED
  BY <1>1, <1>2, <1>3, <1>4, <1>5, NoteTyped

Reserves(r) ==
  /\ run[r].pc = "read" /\ active[run[r].at] = "none"
  /\ active' = [active EXCEPT ![run[r].at] = r] /\ GoTo(r, "reserved")
  /\ UNCHANGED <<blobs, admin, happened, born, history>>

LEMMA ReservesTyped ==
  ASSUME RecordsOK, NEW r \in Runs, Reserves(r)
  PROVE  /\ RecordsOK'
         /\ run'[r].pc = "reserved" /\ run'[r].note = run[r].note
         /\ run'[r].at = run[r].at /\ run'[r].outcome = run[r].outcome
         /\ run'[r].broken = run[r].broken
         /\ \A q \in Runs : q # r => run'[q] = run[q]
<1> DEFINE x == run[r]
           y == [x EXCEPT !.pc = "reserved"]
<1>1. x \in RunType /\ WellFormed(x) /\ x.pc = "read"
  BY DEF RecordsOK, Reserves
<1>2. /\ y \in RunType /\ y.pc = "reserved" /\ y.at = x.at
      /\ y.note = x.note /\ y.outcome = x.outcome /\ y.broken = x.broken
  BY <1>1 DEF RunType
<1>3. WellFormed(y)
  BY <1>1, <1>2 DEF WellFormed
<1>4. Becomes(r, y)
  BY DEF Reserves, GoTo
<1> HIDE DEF y
<1> QED
  BY <1>2, <1>3, <1>4, OneRecord

Takes(r) ==
  /\ run[r].pc = "reserved" /\ Obtainable(run[r].at)
  /\ lease' = [there |-> TRUE, owner |-> run[r].at, live |-> TRUE,
               cancel |-> FALSE, epoch |-> lease.epoch + 1]
  /\ Becomes(r, [run[r] EXCEPT !.pc = "leased", !.epoch = lease.epoch + 1])
  /\ UNCHANGED <<session, index, active, admin, happened, born, history>>

LEMMA TakesTyped ==
  ASSUME RecordsOK, lease.epoch \in Nat, NEW r \in Runs, Takes(r)
  PROVE  /\ RecordsOK'
         /\ run'[r].pc = "leased" /\ run'[r].note = run[r].note
         /\ run'[r].at = run[r].at /\ run'[r].outcome = run[r].outcome
         /\ run'[r].broken = run[r].broken
         /\ run'[r].epoch = lease.epoch + 1
         /\ \A q \in Runs : q # r => run'[q] = run[q]
<1> DEFINE x == run[r]
           e == lease.epoch + 1
           y == [x EXCEPT !.pc = "leased", !.epoch = e]
<1>1. x \in RunType /\ WellFormed(x) /\ x.pc = "reserved"
  BY DEF RecordsOK, Takes
<1>2. e \in Nat
  OBVIOUS
<1>3. Becomes(r, y)
  BY DEF Takes
<1> HIDE DEF e
<1>4. /\ y \in RunType /\ y.pc = "leased" /\ y.at = x.at
      /\ y.note = x.note /\ y.outcome = x.outcome /\ y.broken = x.broken
      /\ y.epoch = e
  BY <1>1, <1>2 DEF RunType
<1>5. WellFormed(y)
  BY <1>1, <1>4 DEF WellFormed
<1> HIDE DEF y
<1>6. /\ RecordsOK' /\ run'[r] = y
      /\ \A q \in Runs : q # r => run'[q] = run[q]
  BY <1>3, <1>4, <1>5, OneRecord
<1> QED
  BY <1>4, <1>6 DEF e

-----------------------------------------------------------------------------
(* The shared state stays typed *)

IndexType == [there : BOOLEAN, status : Statuses]
LeaseType == [there : BOOLEAN, owner : Replicas \cup {"gone"},
              epoch : Nat, live : BOOLEAN, cancel : BOOLEAN]
AdminType == [want : Wants, at : Steps, note : {"none", "failed"}]

HistoryTyped ==
  /\ happened \subseteq Events /\ lost \subseteq Runs
  /\ born \in BOOLEAN /\ fixed \in BOOLEAN

SharedTyped ==
  /\ session \in SessionType /\ index \in IndexType /\ lease \in LeaseType
  /\ active \in [Replicas -> Runs \cup {"none"}]
  /\ admin \in AdminType /\ HistoryTyped

LEMMA Constants ==
  /\ NoSession \in SessionType /\ [NoSession EXCEPT !.there = TRUE] \in SessionType
  /\ NoEntry \in IndexType /\ NoLease \in LeaseType
  /\ NoRequest \in AdminType
<1>1. NoSession \in SessionType
  BY DEF NoSession, SessionType
<1>2. [NoSession EXCEPT !.there = TRUE] \in SessionType
  BY <1>1 DEF SessionType
<1>3. NoEntry \in IndexType
  BY DEF NoEntry, IndexType
<1>4. NoLease \in LeaseType
  BY DEF NoLease, LeaseType
<1>5. NoRequest \in AdminType
  BY DEF NoRequest, AdminType, Wants, Steps, Requests
<1> QED
  BY <1>1, <1>2, <1>3, <1>4, <1>5

LEMMA EventTyped ==
  ASSUME HistoryTyped, NEW kind, Event(kind)
  PROVE  happened' \subseteq Events
BY DEF HistoryTyped, Event

LEMMA DropTyped ==
  ASSUME HistoryTyped, lease \in LeaseType, DropLease
  PROVE  lease' \in LeaseType /\ lost' \subseteq Runs
BY Constants DEF HistoryTyped, DropLease, Holders

LEMMA LeaseEdits ==
  ASSUME lease \in LeaseType
  PROVE  /\ [lease EXCEPT !.live = FALSE] \in LeaseType
         /\ [lease EXCEPT !.live = TRUE] \in LeaseType
         /\ [lease EXCEPT !.cancel = TRUE] \in LeaseType
         /\ [lease EXCEPT !.owner = "gone"] \in LeaseType
BY DEF LeaseType

LEMMA UpdateShared ==
  ASSUME SharedTyped, NEW r \in Runs, NEW changed \in SessionType,
         UpdateSession(r, changed), fixed' \in BOOLEAN
  PROVE  SharedTyped'
BY DEF UpdateSession, SharedTyped, HistoryTyped

LEMMA WritesShared ==
  ASSUME SharedTyped, NEW r \in Runs,
         Correct(r) \/ MarkRunning(r) \/ Seed(r) \/ SetFinal(r)
  PROVE  SharedTyped'
<1> DEFINE to(st) == [session EXCEPT !.status = st]
           s1 == [session EXCEPT !.status = "running", !.seeded = TRUE]
<1>0. /\ session \in SessionType /\ session.there \in BOOLEAN
      /\ fixed \in BOOLEAN
  BY DEF SharedTyped, HistoryTyped, SessionType
<1>1. s1 \in SessionType /\ \A st \in Statuses : to(st) \in SessionType
  BY <1>0, ChangesTyped
<1> HIDE DEF s1, to
<1>2. CASE Correct(r)
  <2>1. UpdateSession(r, to("failed")) /\ fixed' = (fixed \/ session.there)
    BY <1>2 DEF Correct, to
  <2> QED
    BY <1>0, <1>1, <2>1, UpdateShared
<1>3. CASE MarkRunning(r)
  <2>1. UpdateSession(r, to("running")) /\ UNCHANGED fixed
    BY <1>3 DEF MarkRunning, to
  <2> QED
    BY <1>0, <1>1, <2>1, UpdateShared
<1>4. CASE Seed(r)
  <2>1. UpdateSession(r, s1) /\ UNCHANGED fixed
    BY <1>4 DEF Seed, s1
  <2> QED
    BY <1>0, <1>1, <2>1, UpdateShared
<1>5. CASE SetFinal(r)
  <2>1. FinalStatus(r) \in Statuses
    BY DEF FinalStatus
  <2>2. UpdateSession(r, to(FinalStatus(r))) /\ UNCHANGED fixed
    BY <1>5 DEF SetFinal, to
  <2> QED
    BY <1>0, <1>1, <2>1, <2>2, UpdateShared
<1> QED
  BY <1>2, <1>3, <1>4, <1>5

LEMMA RereadShared ==
  ASSUME SharedTyped, NEW r \in Runs, Reread(r)
  PROVE  SharedTyped'
<1> DEFINE changed == [session EXCEPT !.status = "failed"]
<1>0. /\ session \in SessionType /\ session.there \in BOOLEAN
      /\ fixed \in BOOLEAN /\ changed \in SessionType
  BY ChangesTyped DEF SharedTyped, HistoryTyped, SessionType
<1>1. CASE UNCHANGED <<blobs, active, admin, happened, born, history>>
  BY <1>1 DEF SharedTyped, HistoryTyped, blobs, history
<1>2. CASE UpdateSession(r, changed) /\ fixed' = (fixed \/ session.there)
  <2> HIDE DEF changed
  <2> QED
    BY <1>0, <1>2, UpdateShared
<1> QED
  BY <1>1, <1>2 DEF Reread

LEMMA TouchShared ==
  ASSUME SharedTyped, RecordsOK, NEW r \in Runs, TouchIndex(r)
  PROVE  SharedTyped'
<1>1. run[r].note \in Statuses
  BY RunFields DEF RecordsOK, TouchIndex
<1>2. index' \in IndexType
  BY <1>1 DEF TouchIndex, IndexType
<1> QED
  BY <1>2 DEF TouchIndex, SharedTyped, HistoryTyped, history

LEMMA ActiveShared ==
  ASSUME SharedTyped, NEW i \in Replicas, NEW q \in Runs \cup {"none"},
         active' = [active EXCEPT ![i] = q],
         UNCHANGED <<session, index, lease, admin, lost, fixed, born>>,
         happened' \subseteq Events
  PROVE  SharedTyped'
<1>1. active' \in [Replicas -> Runs \cup {"none"}]
  BY DEF SharedTyped
<1> QED
  BY <1>1 DEF SharedTyped, HistoryTyped

LEMMA ReleaseShared ==
  ASSUME SharedTyped, NEW r \in Runs, ReleaseLease(r)
  PROVE  SharedTyped'
<1>1. happened' \subseteq Events
  BY EventTyped DEF ReleaseLease, SharedTyped, HistoryTyped
<1>2. /\ lease' \in LeaseType /\ lost' \subseteq Runs
  <2>1. CASE DropLease
    BY <2>1, DropTyped DEF SharedTyped, HistoryTyped
  <2>2. CASE UNCHANGED <<lease, lost>>
    BY <2>2 DEF SharedTyped, HistoryTyped
  <2> QED
    BY <2>1, <2>2 DEF ReleaseLease
<1>3. UNCHANGED <<session, index, active, admin, born, fixed>>
  BY DEF ReleaseLease
<1> QED
  BY <1>1, <1>2, <1>3 DEF SharedTyped, HistoryTyped

LEMMA RenewShared ==
  ASSUME SharedTyped, NEW r \in Runs, RenewLease(r)
  PROVE  SharedTyped'
<1>1. lease' \in LeaseType
  BY LeaseEdits DEF RenewLease, SharedTyped
<1> QED
  BY <1>1 DEF RenewLease, SharedTyped, HistoryTyped, history

LEMMA FailureShared ==
  ASSUME SharedTyped, RecordsOK, NEW r \in Runs, StoreFails(r)
  PROVE  SharedTyped'
<1>1. happened' \subseteq Events
  BY EventTyped DEF StoreFails, SharedTyped
<1>2. run[r].at \in Replicas
  BY RunFields DEF RecordsOK
<1>3. UNCHANGED <<session, index, lease, admin, lost, fixed, born>>
  BY DEF StoreFails, blobs, history
<1>4. \/ active' = [active EXCEPT ![run[r].at] = "none"]
      \/ UNCHANGED active
  BY DEF StoreFails
<1>5. CASE UNCHANGED active
  BY <1>1, <1>3, <1>5 DEF SharedTyped, HistoryTyped
<1> QED
  BY <1>1, <1>2, <1>3, <1>4, <1>5, ActiveShared

LEMMA MovingShared ==
  ASSUME SharedTyped, RecordsOK, NEW r \in Runs, Moving(r)
  PROVE  SharedTyped'
<1>1. CASE Begin(r) \/ CheckLease(r) \/ RunChat(r)
  <2>1. UNCHANGED <<blobs, active, admin, happened, born, history>>
    BY <1>1 DEF Begin, CheckLease, RunChat
  <2> QED
    BY <2>1 DEF SharedTyped, HistoryTyped, blobs, history
<1>2. CASE Forget(r)
  <2>1. run[r].at \in Replicas
    BY RunFields DEF RecordsOK
  <2>2. happened' \subseteq Events
    BY <1>2 DEF Forget, SharedTyped, HistoryTyped
  <2>3. /\ active' = [active EXCEPT ![run[r].at] = "none"]
        /\ UNCHANGED <<session, index, lease, admin, lost, fixed, born>>
    BY <1>2 DEF Forget, blobs, history
  <2> QED
    BY <2>1, <2>2, <2>3, ActiveShared
<1>3. CASE RunTimeout(r)
  <2>1. happened' \subseteq Events
    BY <1>3, EventTyped DEF RunTimeout, SharedTyped
  <2>2. UNCHANGED <<blobs, active, admin, born, history>>
    BY <1>3 DEF RunTimeout
  <2> QED
    BY <2>1, <2>2 DEF SharedTyped, HistoryTyped, blobs, history
<1> QED
  BY <1>1, <1>2, <1>3, WritesShared, RereadShared, TouchShared,
     ReleaseShared, RenewShared, FailureShared DEF Moving

LEMMA TurnShared ==
  ASSUME SharedTyped, RecordsOK, NEW r \in Runs,
         Asks(r) \/ Ends(r) \/ Misses(r)
  PROVE  SharedTyped'
<1>1. session' \in SessionType
  BY ChangesTyped DEF SharedTyped, Asks, Ends, Misses
<1>2. UNCHANGED <<index, lease, active, admin, happened, born, history>>
  BY DEF Asks, Ends, Misses, StoresTurn
<1> QED
  BY <1>1, <1>2 DEF SharedTyped, HistoryTyped, history

(* A refusal: the replica or the lease is taken. *)
Declines(r) ==
  /\ run[r].pc \in {"read", "reserved"} /\ Leaves(r, "refused")
  /\ \/ run[r].pc = "read" /\ UNCHANGED active
     \/ /\ run[r].pc = "reserved"
        /\ active' = [active EXCEPT ![run[r].at] = "none"]
  /\ UNCHANGED <<blobs, admin, happened, born, history>>

LEMMA AdmissionCases ==
  ASSUME NEW r \in Runs, Reserve(r) \/ AcquireLease(r)
  PROVE  Reserves(r) \/ Takes(r) \/ Declines(r)
<1>1. CASE Reserve(r)
  BY <1>1 DEF Reserve, Reserves, Declines
<1>2. CASE AcquireLease(r)
  BY <1>2 DEF AcquireLease, Takes, Declines, blobs
<1> QED
  BY <1>1, <1>2

LEMMA DeclinesMove ==
  ASSUME RecordsOK, NEW r \in Runs, Declines(r)
  PROVE  AllMove /\ RecordsOK'
BY RefusedMoves DEF Declines

LEMMA AdmissionShared ==
  ASSUME SharedTyped, RecordsOK, NEW r \in Runs,
         Reserves(r) \/ Takes(r) \/ Declines(r)
  PROVE  SharedTyped'
<1>0. run[r].at \in Replicas
  BY RunFields DEF RecordsOK
<1>1. CASE Reserves(r)
  <2>1. happened' \subseteq Events
    BY <1>1 DEF Reserves, SharedTyped, HistoryTyped
  <2>2. /\ active' = [active EXCEPT ![run[r].at] = r]
        /\ UNCHANGED <<session, index, lease, admin, lost, fixed, born>>
    BY <1>1 DEF Reserves, blobs, history
  <2> QED
    BY <1>0, <2>1, <2>2, ActiveShared
<1>2. CASE Declines(r)
  <2>1. happened' \subseteq Events
    BY <1>2 DEF Declines, SharedTyped, HistoryTyped
  <2>2. UNCHANGED <<session, index, lease, admin, lost, fixed, born>>
    BY <1>2 DEF Declines, blobs, history
  <2>3. CASE UNCHANGED active
    BY <2>1, <2>2, <2>3 DEF SharedTyped, HistoryTyped
  <2>4. CASE active' = [active EXCEPT ![run[r].at] = "none"]
    BY <1>0, <2>1, <2>2, <2>4, ActiveShared
  <2> QED
    BY <1>2, <2>3, <2>4 DEF Declines
<1>3. CASE Takes(r)
  <2>1. lease.epoch + 1 \in Nat
    BY DEF SharedTyped, LeaseType
  <2>2. lease' \in LeaseType
    BY <1>0, <1>3, <2>1 DEF Takes, LeaseType
  <2> QED
    BY <1>3, <2>2 DEF Takes, SharedTyped, HistoryTyped, history
<1> QED
  BY <1>1, <1>2, <1>3

LEMMA KillShared ==
  ASSUME SharedTyped, NEW i \in Replicas, Kill(i)
  PROVE  SharedTyped'
<1>1. happened' \subseteq Events
  BY EventTyped DEF Kill, SharedTyped
<1>2. active' \in [Replicas -> Runs \cup {"none"}]
  BY DEF Kill, SharedTyped
<1>3. lease' \in LeaseType
  BY LeaseEdits DEF Kill, SharedTyped
<1>4. admin' \in AdminType
  BY Constants DEF Kill, SharedTyped
<1>5. UNCHANGED <<session, index, born, history>>
  BY DEF Kill
<1> QED
  BY <1>1, <1>2, <1>3, <1>4, <1>5 DEF SharedTyped, HistoryTyped, history

LEMMA LapseShared ==
  ASSUME SharedTyped, LapseUnrenewed \/ LapseUnderRun
  PROVE  SharedTyped'
<1>1. lease' \in LeaseType
  BY LeaseEdits DEF LapseUnrenewed, LapseUnderRun, SharedTyped
<1>2. happened' \subseteq Events /\ lost' \subseteq Runs
  BY EventTyped
     DEF LapseUnrenewed, LapseUnderRun, SharedTyped, HistoryTyped, Holders,
         history
<1>3. UNCHANGED <<session, index, active, admin, born, fixed>>
  BY DEF LapseUnrenewed, LapseUnderRun, history
<1> QED
  BY <1>1, <1>2, <1>3 DEF SharedTyped, HistoryTyped

(* Admin requests *)

LEMMA AdminToTyped ==
  ASSUME admin \in AdminType, NEW step \in Steps,
         AdminTo(step) \/ AdminDone
  PROVE  admin' \in AdminType
BY Constants DEF AdminTo, AdminDone, AdminType

LEMMA AdminStartsTyped ==
  ASSUME HistoryTyped, NEW want \in Wants, NEW step \in Steps,
         AdminStarts(want, step)
  PROVE  admin' \in AdminType /\ happened' \subseteq Events
<1>1. admin' \in AdminType
  BY DEF AdminStarts, AdminType
<1>2. happened' \subseteq Events
  BY EventTyped DEF AdminStarts, HistoryTyped
<1> QED
  BY <1>1, <1>2

LEMMA AdminShared ==
  ASSUME SharedTyped, RunsKeep \/ UNCHANGED <<active, lost>>,
         session' \in SessionType, index' \in IndexType,
         lease' \in LeaseType, admin' \in AdminType,
         happened' \subseteq Events, born' \in BOOLEAN, fixed' \in BOOLEAN
  PROVE  SharedTyped'
BY DEF SharedTyped, HistoryTyped, RunsKeep

LEMMA RequestsShared ==
  ASSUME SharedTyped, AdminRequests
  PROVE  SharedTyped'
<1> USE DEF Steps, Wants, Requests
<1>0. /\ session \in SessionType /\ index \in IndexType
      /\ lease \in LeaseType /\ HistoryTyped
      /\ born \in BOOLEAN /\ fixed \in BOOLEAN
  BY DEF SharedTyped, HistoryTyped
<1>1. CASE Create
  BY <1>0, <1>1, AdminStartsTyped, AdminShared, Constants DEF Create
<1>2. CASE Get
  BY <1>0, <1>2, AdminStartsTyped, AdminShared DEF Get, blobs
<1>3. CASE List
  BY <1>0, <1>3, AdminStartsTyped, AdminShared DEF List, blobs
<1>4. CASE Delete
  <2>1. PICK step \in {"checking", "listing", "asking lease"} :
           AdminStarts("delete", step)
    BY <1>4 DEF Delete
  <2>2. admin' \in AdminType /\ happened' \subseteq Events
    BY <1>0, <2>1, AdminStartsTyped
  <2> QED
    BY <1>0, <1>4, <2>2, AdminShared DEF Delete, blobs
<1>5. CASE Evict
  BY <1>0, <1>5, AdminStartsTyped, AdminShared, Constants DEF Evict
<1>6. CASE RequestCancel
  BY <1>0, <1>6, AdminStartsTyped, AdminShared, LeaseEdits DEF RequestCancel
<1> QED
  BY <1>1, <1>2, <1>3, <1>4, <1>5, <1>6 DEF AdminRequests

LEMMA ContinueTyped ==
  ASSUME admin \in AdminType, Continue
  PROVE  admin' \in AdminType
<1>1. "asking lease" \in Steps
  BY DEF Steps
<1> QED
  BY <1>1, AdminToTyped DEF Continue

LEMMA AdminStepsShared ==
  ASSUME SharedTyped, AdminSteps
  PROVE  SharedTyped'
<1>0. /\ session \in SessionType /\ index \in IndexType
      /\ lease \in LeaseType /\ HistoryTyped /\ admin \in AdminType
      /\ happened \subseteq Events
      /\ born \in BOOLEAN /\ fixed \in BOOLEAN
  BY DEF SharedTyped, HistoryTyped
<1>1. /\ "correcting" \in Steps /\ "relisting" \in Steps
      /\ "unlisting" \in Steps /\ "unleasing" \in Steps
      /\ "erasing" \in Steps /\ "asking lease" \in Steps
  BY DEF Steps
<1>2. CASE CreateEntry
  <2>1. index' \in IndexType
    BY <1>2 DEF CreateEntry, IndexType
  <2> QED
    BY <1>0, <1>1, <1>2, <2>1, AdminToTyped, AdminShared DEF CreateEntry
<1>3. CASE CreateRollback
  BY <1>0, <1>1, <1>3, AdminToTyped, AdminShared, Constants
     DEF CreateRollback
<1>4. CASE AdminCheck
  <2>1. Continue \/ AdminTo("correcting") \/ AdminTo("relisting")
    BY <1>4 DEF AdminCheck
  <2>2. admin' \in AdminType
    BY <1>0, <1>1, <2>1, ContinueTyped, AdminToTyped
  <2> QED
    BY <1>0, <1>4, <2>2, AdminShared DEF AdminCheck, blobs
<1>5. CASE AdminCorrect
  <2>1. session' \in SessionType
    BY <1>0, <1>5 DEF AdminCorrect, SessionType
  <2>2. admin' \in AdminType
    BY <1>0, <1>5, Constants DEF AdminCorrect, AdminType, AdminDone
  <2>3. fixed' \in BOOLEAN
    BY <1>0, <1>5 DEF AdminCorrect
  <2> QED
    BY <1>0, <1>5, <2>1, <2>2, <2>3, AdminShared DEF AdminCorrect
<1>6. CASE AdminTouch
  <2>1. admin.note = "failed"
    BY <1>0, <1>6 DEF AdminTouch, AdminType
  <2>2. index' \in IndexType
    BY <1>6, <2>1 DEF AdminTouch, IndexType
  <2>3. admin' \in AdminType
    <3>1. [admin EXCEPT !.at = "asking lease", !.note = "none"] \in AdminType
      BY <1>0, <1>1 DEF AdminType
    <3> QED
      BY <1>6, <3>1, Constants DEF AdminTouch, AdminDone
  <2> QED
    BY <1>0, <1>6, <2>2, <2>3, AdminShared DEF AdminTouch
<1>7. CASE AdminRelist
  <2>1. index' \in IndexType /\ fixed' \in BOOLEAN
    BY <1>0, <1>7 DEF AdminRelist, IndexType
  <2>2. admin' \in AdminType
    BY <1>0, <1>7, ContinueTyped DEF AdminRelist
  <2> QED
    BY <1>0, <1>7, <2>1, <2>2, AdminShared DEF AdminRelist
<1>8. CASE DeleteCheck
  <2>1. AdminDone \/ AdminTo("unlisting")
    BY <1>8 DEF DeleteCheck
  <2>2. admin' \in AdminType
    BY <1>0, <1>1, <2>1, AdminToTyped
  <2> QED
    BY <1>0, <1>8, <2>2, AdminShared DEF DeleteCheck, blobs
<1>9. CASE Unlist
  <2>1. AdminDone \/ AdminTo("unleasing")
    BY <1>9 DEF Unlist
  <2>2. admin' \in AdminType
    BY <1>0, <1>1, <2>1, AdminToTyped
  <2> QED
    BY <1>0, <1>9, <2>2, AdminShared, Constants DEF Unlist
<1>10. CASE Unlease
  <2>1. lease' \in LeaseType /\ lost' \subseteq Runs
    BY <1>0, <1>10, DropTyped DEF Unlease
  <2>2. admin' \in AdminType
    BY <1>0, <1>1, <1>10, AdminToTyped DEF Unlease
  <2> QED
    BY <1>0, <1>10, <2>1, <2>2 DEF Unlease, SharedTyped, HistoryTyped
<1>11. CASE Erase
  BY <1>0, <1>11, AdminToTyped, AdminShared, Constants, <1>1 DEF Erase
<1>12. CASE CancelLocal
  <2>1. admin' \in AdminType
    BY <1>12, Constants DEF CancelLocal, AdminDone
  <2>2. UNCHANGED <<blobs, active, happened, born, history>>
    BY <1>12 DEF CancelLocal
  <2> QED
    BY <2>1, <2>2 DEF SharedTyped, HistoryTyped, blobs, history
<1> QED
  BY <1>2, <1>3, <1>4, <1>5, <1>6, <1>7, <1>8, <1>9, <1>10, <1>11, <1>12
     DEF AdminSteps

LEMMA AdminFailsShared ==
  ASSUME SharedTyped, AdminFails
  PROVE  SharedTyped'
<1>0. /\ session \in SessionType /\ index \in IndexType
      /\ lease \in LeaseType /\ HistoryTyped /\ admin \in AdminType
      /\ born \in BOOLEAN /\ fixed \in BOOLEAN
      /\ "rolling back" \in Steps
  BY DEF SharedTyped, HistoryTyped, Steps
<1>1. happened' \subseteq Events
  BY <1>0, EventTyped DEF AdminFails
<1>2. AdminTo("rolling back") \/ AdminDone
  BY DEF AdminFails
<1>3. admin' \in AdminType
  BY <1>0, <1>2, AdminToTyped
<1> QED
  BY <1>0, <1>1, <1>3, AdminShared DEF AdminFails, blobs

-----------------------------------------------------------------------------
(* Type correctness *)

\* The steps that leave every run as it is.
Beside == AdminRequests \/ (AdminSteps /\ ~CancelLocal) \/ AdminFails
          \/ LapseUnrenewed \/ LapseUnderRun

LEMMA BesideKeeps ==
  ASSUME Beside
  PROVE  UNCHANGED <<active, run>>
BY DEF Beside, AdminRequests, Create, Get, List, Delete, Evict, RequestCancel,
       AdminSteps, CreateEntry, CreateRollback, AdminCheck, AdminCorrect,
       AdminTouch, AdminRelist, DeleteCheck, Unlist, Unlease, Erase,
       AdminFails, RunsKeep, LapseUnrenewed, LapseUnderRun

LEMMA StepCases ==
  ASSUME session \in SessionType, Next
  PROVE  \/ \E r \in Runs : Moving(r)
         \/ \E r \in Runs : Asks(r) \/ Ends(r) \/ Misses(r)
         \/ \E r \in Runs : Reserves(r) \/ Takes(r) \/ Declines(r)
         \/ Beside \/ CancelLocal
         \/ \E i \in Replicas : Kill(i)
<1>1. ASSUME NEW r \in Runs,
             \/ Begin(r) \/ RunSteps(r) \/ RenewLease(r) \/ RunTimeout(r)
             \/ StoreFails(r)
      PROVE  \/ Moving(r)
             \/ AppendUser(r) \/ AppendEnd(r)
             \/ Reserve(r) \/ AcquireLease(r)
  BY <1>1 DEF Moving, RunSteps, Writes
<1> QED
  BY <1>1, AppendCases, AdmissionCases DEF Next, Beside

LEMMA StepTyped ==
  ASSUME SharedTyped, RecordsOK, Next
  PROVE  SharedTyped' /\ RecordsOK'
<1>0. session \in SessionType /\ lease.epoch \in Nat
  BY DEF SharedTyped, LeaseType
<1>1. CASE \E r \in Runs : Moving(r)
  BY <1>0, <1>1, MovingMoves, MovingShared
<1>2. CASE \E r \in Runs : Asks(r) \/ Ends(r) \/ Misses(r)
  BY <1>0, <1>2, StoresTyped, MissesMove, TurnShared
<1>3. CASE \E r \in Runs : Reserves(r) \/ Takes(r) \/ Declines(r)
  BY <1>0, <1>3, ReservesTyped, TakesTyped, DeclinesMove, AdmissionShared
<1>4. CASE Beside
  <2>1. RecordsOK'
    BY <1>4, BesideKeeps, NoneMove
  <2> QED
    BY <1>4, <2>1, RequestsShared, AdminStepsShared, AdminFailsShared,
       LapseShared DEF Beside
<1>5. CASE CancelLocal
  BY <1>5, CancelLocalMoves, AdminStepsShared DEF AdminSteps
<1>6. CASE \E i \in Replicas : Kill(i)
  BY <1>6, KillMoves, KillShared
<1> QED
  BY <1>0, <1>1, <1>2, <1>3, <1>4, <1>5, <1>6, StepCases

LEMMA InitTyped ==
  ASSUME Init
  PROVE  SharedTyped /\ RecordsOK
<1>1. /\ session \in SessionType /\ index \in IndexType
      /\ lease \in LeaseType /\ admin \in AdminType
  BY Constants DEF Init
<1>2. active \in [Replicas -> Runs \cup {"none"}] /\ HistoryTyped
  BY DEF Init, HistoryTyped
<1>3. ASSUME NEW i \in Replicas
      PROVE  NewRun(i) \in RunType /\ WellFormed(NewRun(i))
  <2>1. 0 \in 0..2
    OBVIOUS
  <2> QED
    BY <2>1 DEF NewRun, RunType, WellFormed
<1>4. run \in [Runs -> {NewRun(i) : i \in Replicas}]
  BY DEF Init
<1>5. ASSUME NEW r \in Runs
      PROVE  run[r] \in RunType /\ WellFormed(run[r])
  <2>1. PICK i \in Replicas : run[r] = NewRun(i)
    BY <1>4
  <2> QED
    BY <1>3, <2>1
<1>6. run \in [Runs -> RunType]
  BY <1>4, <1>5
<1> QED
  BY <1>1, <1>2, <1>5, <1>6 DEF SharedTyped, RecordsOK

LEMMA TypesMean ==
  ASSUME SharedTyped, RecordsOK
  PROVE  TypeOK
<1>1. session \in [there : BOOLEAN, status : Statuses, seeded : BOOLEAN,
                   asked : SUBSET Runs, ended : SUBSET Runs]
  BY DEF SharedTyped, SessionType
<1>2. index \in [there : BOOLEAN, status : Statuses]
  BY DEF SharedTyped, IndexType
<1>3. lease \in [there : BOOLEAN, owner : Replicas \cup {"gone"},
                 epoch : Nat, live : BOOLEAN, cancel : BOOLEAN]
  BY DEF SharedTyped, LeaseType
<1>4. admin \in [want : Wants, at : Steps, note : {"none", "failed"}]
  BY DEF SharedTyped, AdminType
<1>5. {born, fixed} \subseteq BOOLEAN
  BY DEF SharedTyped, HistoryTyped
<1>6. run \in [Runs -> RunType]
  BY DEF RecordsOK
<1>7. /\ active \in [Replicas -> Runs \cup {"none"}]
      /\ happened \subseteq Events /\ lost \subseteq Runs
  BY DEF SharedTyped, HistoryTyped
<1> QED
  BY <1>1, <1>2, <1>3, <1>4, <1>5, <1>6, <1>7 DEF TypeOK

LEMMA Invariance ==
  Spec => [](SharedTyped /\ RecordsOK)
<1>1. Init => SharedTyped /\ RecordsOK
  BY InitTyped
<1>2. SharedTyped /\ RecordsOK /\ [Next]_vars => (SharedTyped /\ RecordsOK)'
  <2>1. SUFFICES ASSUME SharedTyped, RecordsOK, [Next]_vars
                 PROVE  SharedTyped' /\ RecordsOK'
    OBVIOUS
  <2>2. CASE Next
    BY <2>1, <2>2, StepTyped
  <2>3. CASE UNCHANGED vars
    <3>1. RecordsOK'
      BY <2>1, <2>3, NoneMove DEF vars
    <3>2. SharedTyped'
      BY <2>1, <2>3 DEF vars, blobs, history, SharedTyped, HistoryTyped
    <3> QED
      BY <3>1, <3>2
  <2> QED
    BY <2>1, <2>2, <2>3
<1> QED
  BY <1>1, <1>2, PTL DEF Spec

(* In every state the blobs, the runs and the admin request are of their
   types: a note is a status that was written, and no step leaves the steps
   of store.go and service.go. *)
THEOREM TypesAlways == Spec => []TypeOK
<1>1. SharedTyped /\ RecordsOK => TypeOK
  BY TypesMean
<1> QED
  BY <1>1, Invariance, PTL

-----------------------------------------------------------------------------
(* The reservation and the lease *)

\* Service.active names the run that is admitted, or being admitted.
ReservedOK ==
  \A r \in Runs : run[r].pc \in Busy => active[run[r].at] = r

(* What a step other than taking the lease does to it, as seen by a run
   that goes on to work under it. *)
LeaseKept ==
  /\ lost \subseteq lost'
  /\ \A q \in Runs :
       run'[q].pc \in Working /\ Holds(q) /\ q \notin lost' =>
         /\ lease'.there /\ lease'.owner = lease.owner
         /\ lease'.epoch = lease.epoch
         /\ lease.live => lease'.live
         /\ lease.cancel => lease'.cancel

ActiveKept ==
  \A q \in Runs :
    run'[q].pc \in Busy => active'[run[q].at] = active[run[q].at]

LEMMA MoveKeepsReserved ==
  ASSUME ReservedOK, AllMove, ActiveKept
  PROVE  ReservedOK'
<1> SUFFICES ASSUME NEW q \in Runs, run'[q].pc \in Busy
             PROVE  active'[run'[q].at] = q
  BY DEF ReservedOK
<1>1. run'[q].at = run[q].at /\ run[q].pc \in Busy
  BY DEF AllMove, Moved
<1> QED
  BY <1>1 DEF ReservedOK, ActiveKept

LEMMA SameActiveKept ==
  ASSUME UNCHANGED active
  PROVE  ActiveKept
BY DEF ActiveKept

LEMMA FreedKept ==
  ASSUME SharedTyped, ReservedOK, AllMove, NEW r \in Runs,
         run[r].pc \in Busy, run'[r].pc \notin Busy,
         active' = [active EXCEPT ![run[r].at] = "none"]
  PROVE  ActiveKept
<1> SUFFICES ASSUME NEW q \in Runs, run'[q].pc \in Busy
             PROVE  active'[run[q].at] = active[run[q].at]
  BY DEF ActiveKept
<1>1. run[q].pc \in Busy /\ q # r
  BY DEF AllMove, Moved
<1>2. run[q].at # run[r].at
  BY <1>1 DEF ReservedOK
<1> QED
  BY <1>2 DEF SharedTyped

LEMMA LeftGone ==
  ASSUME RecordsOK, NEW r \in Runs, NEW pc, NEW e,
         Becomes(r, Left(r, pc, e))
  PROVE  run'[r].pc = pc
<1>1. run'[r] = Left(r, pc, e)
  BY DEF Becomes, RecordsOK
<1> QED
  BY <1>1 DEF Left

LEMMA MovingKeepsActive ==
  ASSUME SharedTyped, RecordsOK, ReservedOK, NEW r \in Runs,
         Moving(r) \/ Misses(r) \/ Declines(r), AllMove
  PROVE  ActiveKept
<1>1. CASE UNCHANGED active
  BY <1>1, SameActiveKept
<1>2. CASE Forget(r)
  <2>1. /\ run[r].pc = "release"
        /\ Becomes(r, Left(r, "releasing", run[r].epoch))
        /\ active' = [active EXCEPT ![run[r].at] = "none"]
    BY <1>2 DEF Forget
  <2>2. run'[r].pc = "releasing"
    BY <2>1, LeftGone
  <2> QED
    BY <2>1, <2>2, FreedKept
<1>3. ASSUME run[r].pc = "reserved", Leaves(r, "refused"),
             active' = [active EXCEPT ![run[r].at] = "none"]
      PROVE  ActiveKept
  <2>1. run'[r].pc = "refused"
    BY <1>3, LeftGone DEF Leaves
  <2> QED
    BY <1>3, <2>1, FreedKept
<1>4. CASE StoreFails(r)
  <2>1. \/ UNCHANGED active
        \/ /\ run[r].pc = "reserved" /\ Leaves(r, "refused")
           /\ active' = [active EXCEPT ![run[r].at] = "none"]
    BY <1>4 DEF StoreFails
  <2> QED
    BY <1>1, <1>3, <2>1
<1>5. CASE Declines(r)
  BY <1>1, <1>3, <1>5 DEF Declines
<1>6. CASE Misses(r)
  BY <1>1, <1>6 DEF Misses
<1>7. CASE Correct(r) \/ MarkRunning(r) \/ Seed(r) \/ SetFinal(r)
  BY <1>1, <1>7 DEF Correct, MarkRunning, Seed, SetFinal, UpdateSession
<1>8. CASE \/ Begin(r) \/ CheckLease(r) \/ Reread(r) \/ TouchIndex(r)
           \/ RunChat(r) \/ ReleaseLease(r) \/ RenewLease(r)
           \/ RunTimeout(r)
  BY <1>1, <1>8 DEF Begin, CheckLease, Reread, TouchIndex, RunChat,
     ReleaseLease, RenewLease, RunTimeout, UpdateSession
<1> QED
  BY <1>2, <1>4, <1>5, <1>6, <1>7, <1>8 DEF Moving

LEMMA KillKeepsActive ==
  ASSUME SharedTyped, RecordsOK, NEW i \in Replicas, Kill(i), AllMove
  PROVE  ActiveKept
<1> SUFFICES ASSUME NEW q \in Runs, run'[q].pc \in Busy
             PROVE  active'[run[q].at] = active[run[q].at]
  BY DEF ActiveKept
<1>1. run[q].pc \in Busy
  BY DEF AllMove, Moved
<1>2. run[q].at # i
  <2>1. SUFFICES ASSUME run[q].at = i PROVE FALSE
    OBVIOUS
  <2>2. q \in {r \in Runs : run[r].at = i
                  /\ run[r].pc \notin (Over \cup {"new"})}
    BY <1>1, <2>1
  <2>3. run'[q] = Left(q, "dead", 0)
    BY <2>2 DEF Kill
  <2> QED
    BY <2>3 DEF Left
<1> QED
  BY <1>2 DEF Kill, SharedTyped

LEMMA ReservedStep ==
  ASSUME SharedTyped, RecordsOK, ReservedOK, Next
  PROVE  ReservedOK'
<1>0. session \in SessionType /\ lease.epoch \in Nat
  BY DEF SharedTyped, LeaseType
<1>1. ASSUME NEW r \in Runs, Moving(r) \/ Misses(r) \/ Declines(r)
      PROVE  ReservedOK'
  <2>1. AllMove
    BY <1>0, <1>1, MovingMoves, MissesMove, DeclinesMove
  <2> QED
    BY <1>1, <2>1, MovingKeepsActive, MoveKeepsReserved
<1>2. ASSUME NEW r \in Runs, Asks(r) \/ Ends(r)
      PROVE  ReservedOK'
  <2>1. UNCHANGED active
    BY <1>2 DEF Asks, Ends, StoresTurn
  <2>2. /\ run'[r].pc = run[r].pc /\ run'[r].at = run[r].at
        /\ \A q \in Runs : q # r => run'[q] = run[q]
    BY <1>0, <1>2, StoresTyped
  <2> QED
    BY <2>1, <2>2 DEF ReservedOK
<1>3. ASSUME NEW r \in Runs, Reserves(r)
      PROVE  ReservedOK'
  <2>1. /\ run'[r].at = run[r].at
        /\ \A q \in Runs : q # r => run'[q] = run[q]
    BY <1>3, ReservesTyped
  <2>2. /\ active[run[r].at] = "none" /\ run[r].at \in Replicas
        /\ active' = [active EXCEPT ![run[r].at] = r]
    BY <1>3, RunFields DEF Reserves, RecordsOK
  <2>3. "none" \notin Runs
    BY ChatAssumption DEF ChatAssumption
  <2>4. active'[run[r].at] = r
    BY <2>2 DEF SharedTyped
  <2>5. ASSUME NEW q \in Runs, q # r, run[q].pc \in Busy
        PROVE  active'[run[q].at] = q
    <3>1. active[run[q].at] = q
      BY <2>5 DEF ReservedOK
    <3>2. run[q].at # run[r].at
      BY <2>2, <2>3, <3>1
    <3> QED
      BY <2>2, <3>1, <3>2 DEF SharedTyped
  <2> QED
    BY <2>1, <2>4, <2>5 DEF ReservedOK
<1>4. ASSUME NEW r \in Runs, Takes(r)
      PROVE  ReservedOK'
  <2>1. /\ run'[r].at = run[r].at /\ run[r].pc = "reserved"
        /\ \A q \in Runs : q # r => run'[q] = run[q]
    BY <1>0, <1>4, TakesTyped DEF Takes
  <2>2. UNCHANGED active
    BY <1>4 DEF Takes
  <2> QED
    BY <2>1, <2>2 DEF ReservedOK
<1>5. CASE Beside
  BY <1>5, BesideKeeps DEF ReservedOK
<1>6. CASE CancelLocal
  <2>1. UNCHANGED active
    BY <1>6 DEF CancelLocal
  <2> QED
    BY <1>6, <2>1, CancelLocalMoves, SameActiveKept, MoveKeepsReserved
<1>7. CASE \E i \in Replicas : Kill(i)
  BY <1>7, KillMoves, KillKeepsActive, MoveKeepsReserved
<1> QED
  BY <1>0, <1>1, <1>2, <1>3, <1>4, <1>5, <1>6, <1>7, StepCases

LEMMA SameLeaseKept ==
  ASSUME UNCHANGED <<lease, lost>>
  PROVE  LeaseKept
BY DEF LeaseKept, Holds

LEMMA DroppedKept ==
  ASSUME DropLease,
         \A q \in Runs : run'[q].pc \in Working => run[q].pc \in Working
  PROVE  LeaseKept
<1>1. ASSUME NEW q \in Runs, run'[q].pc \in Working, Holds(q)
      PROVE  q \in lost'
  <2>1. run[q].pc \in Working
    BY <1>1
  <2> QED
    BY <1>1, <2>1 DEF DropLease, Holders, AtWork
<1>2. lost \subseteq lost'
  BY DEF DropLease
<1> QED
  BY <1>1, <1>2 DEF LeaseKept

LEMMA WorkedBefore ==
  ASSUME AllMove
  PROVE  \A q \in Runs : run'[q].pc \in Working => run[q].pc \in Working
BY DEF AllMove, Moved

LEMMA MovingKeepsLease ==
  ASSUME SharedTyped, RecordsOK, NEW r \in Runs, AllMove,
         Moving(r) \/ Misses(r) \/ Declines(r)
  PROVE  LeaseKept
<1>1. CASE ReleaseLease(r)
  <2>1. DropLease \/ UNCHANGED <<lease, lost>>
    BY <1>1 DEF ReleaseLease
  <2> QED
    BY <2>1, DroppedKept, SameLeaseKept, WorkedBefore
<1>2. CASE RenewLease(r)
  <2>1. /\ UNCHANGED lost
        /\ lease' = lease \/ lease' = [lease EXCEPT !.live = TRUE]
    BY <1>2 DEF RenewLease, history
  <2>2. lease \in LeaseType
    BY DEF SharedTyped
  <2>3. /\ lease'.there = lease.there /\ lease'.owner = lease.owner
        /\ lease'.epoch = lease.epoch /\ lease'.cancel = lease.cancel
        /\ lease.live => lease'.live
    BY <2>1, <2>2 DEF LeaseType
  <2> QED
    BY <2>1, <2>3 DEF LeaseKept, Holds
<1>3. CASE Correct(r) \/ MarkRunning(r) \/ Seed(r) \/ SetFinal(r)
  <2>1. UNCHANGED <<lease, lost>>
    BY <1>3 DEF Correct, MarkRunning, Seed, SetFinal, UpdateSession
  <2> QED
    BY <2>1, SameLeaseKept
<1>4. CASE Begin(r) \/ CheckLease(r) \/ Reread(r) \/ TouchIndex(r)
  <2>1. UNCHANGED <<lease, lost>>
    BY <1>4 DEF Begin, CheckLease, Reread, TouchIndex, UpdateSession, blobs,
                history
  <2> QED
    BY <2>1, SameLeaseKept
<1>5. CASE \/ RunChat(r) \/ Forget(r) \/ RunTimeout(r) \/ StoreFails(r)
           \/ Misses(r) \/ Declines(r)
  <2>1. UNCHANGED <<lease, lost>>
    BY <1>5 DEF RunChat, Forget, RunTimeout, StoreFails, Misses, Declines,
                blobs, history
  <2> QED
    BY <2>1, SameLeaseKept
<1> QED
  BY <1>1, <1>2, <1>3, <1>4, <1>5 DEF Moving

LEMMA BesideKeepsLease ==
  ASSUME SharedTyped, RecordsOK, Beside
  PROVE  LeaseKept
<1>0. lease \in LeaseType /\ UNCHANGED run
  BY BesideKeeps DEF SharedTyped
<1>1. CASE RequestCancel
  <2>1. /\ UNCHANGED lost /\ lease' = [lease EXCEPT !.cancel = TRUE]
    BY <1>1 DEF RequestCancel, RunsKeep
  <2>2. /\ lease'.there = lease.there /\ lease'.owner = lease.owner
        /\ lease'.epoch = lease.epoch /\ lease'.live = lease.live
        /\ lease'.cancel
    BY <1>0, <2>1 DEF LeaseType
  <2> QED
    BY <2>1, <2>2 DEF LeaseKept, Holds
<1>2. CASE Unlease
  BY <1>0, <1>2, DroppedKept DEF Unlease
<1>3. CASE LapseUnderRun
  BY <1>0, <1>3 DEF LapseUnderRun, LeaseKept, Holders, AtWork, Holds
<1>4. CASE LapseUnrenewed
  BY <1>0, <1>4 DEF LapseUnrenewed, LeaseKept, Holders, AtWork, Holds,
                    history
<1>5. CASE Create \/ Get \/ List \/ Delete \/ Evict
  <2>1. UNCHANGED <<lease, lost>>
    BY <1>5 DEF Create, Get, List, Delete, Evict, RunsKeep, blobs
  <2> QED
    BY <2>1, SameLeaseKept
<1>6. CASE \/ CreateEntry \/ CreateRollback \/ AdminCheck \/ AdminCorrect
           \/ AdminTouch \/ AdminRelist
  <2>1. UNCHANGED <<lease, lost>>
    BY <1>6 DEF CreateEntry, CreateRollback, AdminCheck, AdminCorrect,
                AdminTouch, AdminRelist, RunsKeep, blobs
  <2> QED
    BY <2>1, SameLeaseKept
<1>7. CASE DeleteCheck \/ Unlist \/ Erase \/ AdminFails
  <2>1. UNCHANGED <<lease, lost>>
    BY <1>7 DEF DeleteCheck, Unlist, Erase, AdminFails, RunsKeep, blobs
  <2> QED
    BY <2>1, SameLeaseKept
<1> QED
  BY <1>1, <1>2, <1>3, <1>4, <1>5, <1>6, <1>7
     DEF Beside, AdminRequests, AdminSteps

LEMMA KillKeepsLease ==
  ASSUME SharedTyped, RecordsOK, NEW i \in Replicas, Kill(i), AllMove
  PROVE  LeaseKept
<1>0. lost' = lost /\ lease \in LeaseType
  BY DEF Kill, history, SharedTyped
<1>1. CASE lease.owner # i
  BY <1>0, <1>1 DEF Kill, LeaseKept, Holds
<1>2. CASE lease.owner = i
  <2>1. ASSUME NEW q \in Runs, run'[q].pc \in Working, Holds(q)
        PROVE  FALSE
    <3>1. run[q].pc \in Working /\ run[q].at = i
      BY <1>2, <2>1, WorkedBefore DEF Holds
    <3>2. q \in {r \in Runs : run[r].at = i
                    /\ run[r].pc \notin (Over \cup {"new"})}
      BY <3>1
    <3>3. run'[q] = Left(q, "dead", 0)
      BY <3>2 DEF Kill
    <3> QED
      BY <2>1, <3>3 DEF Left
  <2> QED
    BY <1>0, <2>1 DEF LeaseKept
<1> QED
  BY <1>1, <1>2

HeldOK == \A r \in Runs :
  run[r].pc \in Working /\ r \notin lost => Holds(r) /\ lease.live

LEMMA MoveKeepsHeld ==
  ASSUME HeldOK, AllMove, LeaseKept
  PROVE  HeldOK'
<1> SUFFICES ASSUME NEW q \in Runs, run'[q].pc \in Working, q \notin lost'
             PROVE  Holds(q)' /\ lease'.live
  BY DEF HeldOK
<1>1. /\ run[q].pc \in Working /\ run'[q].at = run[q].at
      /\ run'[q].epoch = run[q].epoch
  BY DEF AllMove, Moved
<1>2. q \notin lost
  BY DEF LeaseKept
<1>3. Holds(q) /\ lease.live
  BY <1>1, <1>2 DEF HeldOK
<1> QED
  BY <1>1, <1>3 DEF LeaseKept, Holds

\* Whoever may take the lease takes it from no run that still holds it.
LEMMA TakenFromNobody ==
  ASSUME RecordsOK, ReservedOK, HeldOK, NEW r \in Runs, Takes(r),
         NEW q \in Runs, run[q].pc \in Working
  PROVE  q \in lost
<1> SUFFICES ASSUME q \notin lost PROVE FALSE
  OBVIOUS
<1>1. lease.there /\ lease.owner = run[q].at /\ lease.live
  BY DEF HeldOK, Holds
<1>2. lease.owner = run[r].at /\ run[r].pc = "reserved"
  BY <1>1 DEF Takes, Obtainable
<1>3. active[run[r].at] = r /\ active[run[q].at] = q
  BY <1>2 DEF ReservedOK
<1> QED
  BY <1>1, <1>2, <1>3

LEMMA TakesKeepsHeld ==
  ASSUME SharedTyped, RecordsOK, ReservedOK, HeldOK, NEW r \in Runs, Takes(r)
  PROVE  HeldOK'
<1> SUFFICES ASSUME NEW q \in Runs, run'[q].pc \in Working, q \notin lost'
             PROVE  Holds(q)' /\ lease'.live
  BY DEF HeldOK
<1>0. lease.epoch \in Nat
  BY DEF SharedTyped, LeaseType
<1>1. CASE q = r
  <2>1. /\ run'[r].at = run[r].at /\ run'[r].epoch = lease.epoch + 1
    BY <1>0, TakesTyped
  <2>2. /\ lease'.there /\ lease'.owner = run[r].at /\ lease'.live
        /\ lease'.epoch = lease.epoch + 1
    BY DEF Takes
  <2> QED
    BY <1>1, <2>1, <2>2 DEF Holds
<1>2. CASE q # r
  <2>1. run'[q] = run[q] /\ lost' = lost
    BY <1>0, <1>2, TakesTyped DEF Takes, history
  <2> QED
    BY <2>1, TakenFromNobody
<1> QED
  BY <1>1, <1>2

LEMMA HeldStep ==
  ASSUME SharedTyped, RecordsOK, ReservedOK, HeldOK, Next
  PROVE  HeldOK'
<1>0. session \in SessionType /\ lease.epoch \in Nat
  BY DEF SharedTyped, LeaseType
<1>1. ASSUME NEW r \in Runs, Moving(r) \/ Misses(r) \/ Declines(r)
      PROVE  HeldOK'
  <2>1. AllMove
    BY <1>0, <1>1, MovingMoves, MissesMove, DeclinesMove
  <2> QED
    BY <1>1, <2>1, MovingKeepsLease, MoveKeepsHeld
<1>2. ASSUME NEW r \in Runs, Asks(r) \/ Ends(r)
      PROVE  HeldOK'
  <2>1. UNCHANGED <<lease, lost>>
    BY <1>2 DEF Asks, Ends, StoresTurn, history
  <2>2. /\ run'[r].pc = run[r].pc /\ run'[r].at = run[r].at
        /\ run'[r].epoch = run[r].epoch
        /\ \A q \in Runs : q # r => run'[q] = run[q]
    BY <1>0, <1>2, StoresTyped
  <2> QED
    BY <2>1, <2>2 DEF HeldOK, Holds
<1>3. ASSUME NEW r \in Runs, Reserves(r)
      PROVE  HeldOK'
  <2>1. /\ run'[r].pc = "reserved"
        /\ \A q \in Runs : q # r => run'[q] = run[q]
    BY <1>3, ReservesTyped
  <2>2. UNCHANGED <<lease, lost>>
    BY <1>3 DEF Reserves, blobs, history
  <2> QED
    BY <2>1, <2>2 DEF HeldOK, Holds
<1>4. ASSUME NEW r \in Runs, Takes(r)
      PROVE  HeldOK'
  BY <1>4, TakesKeepsHeld
<1>5. CASE Beside
  BY <1>5, BesideKeeps, NoneMove, BesideKeepsLease, MoveKeepsHeld
<1>6. CASE CancelLocal
  <2>1. UNCHANGED <<lease, lost>>
    BY <1>6 DEF CancelLocal, blobs, history
  <2> QED
    BY <1>6, <2>1, CancelLocalMoves, SameLeaseKept, MoveKeepsHeld
<1>7. CASE \E i \in Replicas : Kill(i)
  BY <1>7, KillMoves, KillKeepsLease, MoveKeepsHeld
<1> QED
  BY <1>0, <1>1, <1>2, <1>3, <1>4, <1>5, <1>6, <1>7, StepCases

LEMMA LeaseInvariance ==
  Spec => [](SharedTyped /\ RecordsOK /\ ReservedOK /\ HeldOK)
<1>1. Init => ReservedOK /\ HeldOK
  <2>1. SUFFICES ASSUME Init, NEW r \in Runs
                 PROVE  run[r].pc = "new"
    BY DEF ReservedOK, HeldOK
  <2>2. run[r] \in {NewRun(i) : i \in Replicas}
    BY <2>1 DEF Init
  <2> QED
    BY <2>2 DEF NewRun
<1>2. /\ SharedTyped /\ RecordsOK /\ ReservedOK /\ HeldOK
      /\ [Next]_vars
      => (ReservedOK /\ HeldOK)'
  <2>1. SUFFICES ASSUME SharedTyped, RecordsOK, ReservedOK, HeldOK,
                        [Next]_vars
                 PROVE  ReservedOK' /\ HeldOK'
    OBVIOUS
  <2>2. CASE Next
    BY <2>1, <2>2, ReservedStep, HeldStep
  <2>3. CASE UNCHANGED vars
    BY <2>1, <2>3 DEF vars, blobs, history, ReservedOK, HeldOK, Holds
  <2> QED
    BY <2>1, <2>2, <2>3
<1> QED
  BY <1>1, <1>2, Invariance, PTL DEF Spec

(* On any number of replicas, a run that AcquireLease admitted holds its
   unexpired lease until its release, unless the lease expired under it or
   was deleted from under it. *)
THEOREM HeldAlways == Spec => []HeldWhileWorking
<1>1. HeldOK => HeldWhileWorking
  BY DEF HeldOK, HeldWhileWorking, AtWork
<1> QED
  BY <1>1, LeaseInvariance, PTL

-----------------------------------------------------------------------------
(* A cancel stays *)

CancelKept(r) ==
  \/ Holds(r)' /\ lease'.cancel
  \/ run'[r].pc \notin Working
  \/ run'[r].cancelled
  \/ r \in lost'

LEMMA MoveKeepsCancel ==
  ASSUME AllMove, LeaseKept, NEW r \in Runs, Holds(r), lease.cancel
  PROVE  CancelKept(r)
<1> SUFFICES ASSUME run'[r].pc \in Working, r \notin lost'
             PROVE  Holds(r)' /\ lease'.cancel
  BY DEF CancelKept
<1>1. run'[r].at = run[r].at /\ run'[r].epoch = run[r].epoch
  BY DEF AllMove, Moved
<1> QED
  BY <1>1 DEF LeaseKept, Holds

LEMMA SameRunKeepsCancel ==
  ASSUME UNCHANGED lease, NEW r \in Runs, Holds(r), lease.cancel,
         run'[r].at = run[r].at, run'[r].epoch = run[r].epoch
  PROVE  CancelKept(r)
BY DEF CancelKept, Holds

LEMMA CancelStep ==
  ASSUME SharedTyped, RecordsOK, ReservedOK, HeldOK, Next,
         NEW r \in Runs, run[r].pc \in Working, Holds(r), lease.cancel
  PROVE  CancelKept(r)
<1>0. session \in SessionType /\ lease.epoch \in Nat
  BY DEF SharedTyped, LeaseType
<1>1. ASSUME NEW q \in Runs, Moving(q) \/ Misses(q) \/ Declines(q)
      PROVE  CancelKept(r)
  <2>1. AllMove
    BY <1>0, <1>1, MovingMoves, MissesMove, DeclinesMove
  <2> QED
    BY <1>1, <2>1, MovingKeepsLease, MoveKeepsCancel
<1>2. ASSUME NEW q \in Runs, Asks(q) \/ Ends(q)
      PROVE  CancelKept(r)
  <2>1. UNCHANGED lease
    BY <1>2 DEF Asks, Ends, StoresTurn
  <2>2. run'[r].at = run[r].at /\ run'[r].epoch = run[r].epoch
    BY <1>0, <1>2, StoresTyped
  <2> QED
    BY <2>1, <2>2, SameRunKeepsCancel
<1>3. ASSUME NEW q \in Runs, Reserves(q)
      PROVE  CancelKept(r)
  <2>1. UNCHANGED lease /\ q # r
    BY <1>3 DEF Reserves, blobs
  <2>2. run'[r] = run[r]
    BY <1>3, <2>1, ReservesTyped
  <2> QED
    BY <2>1, <2>2, SameRunKeepsCancel
<1>4. ASSUME NEW q \in Runs, Takes(q)
      PROVE  CancelKept(r)
  <2>1. r \in lost
    BY <1>4, TakenFromNobody
  <2> QED
    BY <1>4, <2>1 DEF Takes, history, CancelKept
<1>5. CASE Beside
  BY <1>5, BesideKeeps, NoneMove, BesideKeepsLease, MoveKeepsCancel
<1>6. CASE CancelLocal
  <2>1. UNCHANGED <<lease, lost>>
    BY <1>6 DEF CancelLocal, blobs, history
  <2> QED
    BY <1>6, <2>1, CancelLocalMoves, SameLeaseKept, MoveKeepsCancel
<1>7. CASE \E i \in Replicas : Kill(i)
  BY <1>7, KillMoves, KillKeepsLease, MoveKeepsCancel
<1> QED
  BY <1>0, <1>1, <1>2, <1>3, <1>4, <1>5, <1>6, <1>7, StepCases

(* Whatever a renewal, a takeover or another request writes, the flag that
   Cancel put into a lease stays until the run it is for was stopped, ended,
   or lost the lease. *)
THEOREM CancelStaysAlways == Spec => CancelStays
<1> DEFINE Kept == \A r \in Runs :
              AtWork(r) /\ Holds(r) /\ lease.cancel
                => \/ Holds(r)' /\ lease'.cancel
                   \/ ~AtWork(r)' \/ run'[r].cancelled \/ r \in lost'
<1>1. SharedTyped /\ RecordsOK /\ ReservedOK /\ HeldOK /\ [Next]_vars
      => [Kept]_vars
  <2>1. SUFFICES ASSUME SharedTyped, RecordsOK, ReservedOK, HeldOK, Next,
                        NEW r \in Runs, AtWork(r), Holds(r), lease.cancel
                 PROVE  \/ Holds(r)' /\ lease'.cancel
                        \/ ~AtWork(r)' \/ run'[r].cancelled \/ r \in lost'
    OBVIOUS
  <2>2. CancelKept(r)
    BY <2>1, CancelStep DEF AtWork
  <2> QED
    BY <2>2 DEF CancelKept, AtWork
<1> QED
  BY <1>1, LeaseInvariance, PTL DEF Spec, CancelStays

-----------------------------------------------------------------------------
(* The exchanges: where each run is agrees with what the session holds *)

StagesOK ==
  /\ \A r \in Runs : r \in session.asked => ~Unasked(run[r])
  /\ \A r \in Runs :
       session.there /\ Unended(run[r]) => r \in session.asked
  /\ \A r \in Runs :
       r \in session.ended => ~Unasked(run[r]) /\ ~Unended(run[r])
  /\ \A r \in Runs :
       r \in session.asked \ session.ended
         => r \in Abandoned \/ Unended(run[r])

\* A session that nobody knows has no runs, and one that is gone no turns.
BornOK ==
  /\ ~born => \A r \in Runs : run[r].pc = "new"
  /\ ~session.there \/ ~born => session.asked = {} /\ session.ended = {}
  /\ admin.at \in {"indexing", "rolling back"} => ~born
  /\ admin.at = "indexing" => session.there

SameLog ==
  /\ session'.asked = session.asked /\ session'.ended = session.ended
  /\ session'.there = session.there

Grows ==
  \A r \in Runs :
    /\ r \in lost => r \in lost'
    /\ run[r].broken => run'[r].broken
    /\ run[r].pc = "dead" => run'[r].pc = "dead"

LEMMA MoveGrows ==
  ASSUME AllMove, lost \subseteq lost'
  PROVE  Grows
BY DEF Grows, AllMove, Moved

LEMMA AbandonedGrows ==
  ASSUME Grows
  PROVE  \A r \in Runs : r \in Abandoned => r \in Abandoned'
BY DEF Grows, Abandoned

LEMMA MoveKeepsStages ==
  ASSUME StagesOK, AllMove, lost \subseteq lost',
         SameLog \/ session' = NoSession
  PROVE  StagesOK'
<1>1. ASSUME NEW r \in Runs
      PROVE  /\ Unasked(run'[r]) => Unasked(run[r])
             /\ Unended(run'[r]) => Unended(run[r])
             /\ Unended(run[r]) => Unended(run'[r]) \/ r \in Abandoned'
             /\ r \in Abandoned => r \in Abandoned'
  <2>1. Moved(run[r], run'[r])
    BY DEF AllMove
  <2>2. /\ Unasked(run'[r]) => Unasked(run[r])
        /\ Unended(run'[r]) => Unended(run[r])
        /\ Unended(run[r]) => \/ Unended(run'[r]) \/ run'[r].broken
                             \/ run'[r].pc = "dead"
    BY <2>1 DEF Moved
  <2>3. r \in Abandoned => r \in Abandoned'
    BY MoveGrows, AbandonedGrows
  <2> QED
    BY <2>2, <2>3 DEF Abandoned
<1>2. CASE SameLog
  <2>1. \A r \in Runs : r \in session'.asked => ~Unasked(run'[r])
    BY <1>1, <1>2 DEF StagesOK, SameLog
  <2>2. \A r \in Runs :
          session'.there /\ Unended(run'[r]) => r \in session'.asked
    BY <1>1, <1>2 DEF StagesOK, SameLog
  <2>3. \A r \in Runs :
          r \in session'.ended => ~Unasked(run'[r]) /\ ~Unended(run'[r])
    BY <1>1, <1>2 DEF StagesOK, SameLog
  <2>4. \A r \in Runs :
          r \in session'.asked \ session'.ended
            => r \in Abandoned' \/ Unended(run'[r])
    BY <1>1, <1>2 DEF StagesOK, SameLog
  <2> QED
    BY <2>1, <2>2, <2>3, <2>4 DEF StagesOK, Unasked, Unended
<1>3. CASE session' = NoSession
  <2>1. /\ session'.asked = {} /\ session'.ended = {} /\ ~session'.there
    BY <1>3 DEF NoSession
  <2> QED
    BY <2>1 DEF StagesOK
<1> QED
  BY <1>2, <1>3

LEMMA AbandonedSame ==
  ASSUME UNCHANGED lost,
         \A r \in Runs :
           /\ run'[r].broken = run[r].broken
           /\ run'[r].pc = "dead" <=> run[r].pc = "dead"
  PROVE  Abandoned' = Abandoned
<1>1. ASSUME NEW r \in Runs, run[r].pc = "dead" \/ run[r].broken
      PROVE  run'[r].pc = "dead" \/ run'[r].broken
  BY <1>1
<1>2. ASSUME NEW r \in Runs, run'[r].pc = "dead" \/ run'[r].broken
      PROVE  run[r].pc = "dead" \/ run[r].broken
  BY <1>2
<1>3. lost' = lost
  OBVIOUS
<1>4. Abandoned \subseteq Abandoned'
  BY <1>1, <1>3 DEF Abandoned
<1>5. Abandoned' \subseteq Abandoned
  BY <1>2, <1>3 DEF Abandoned
<1> QED
  BY <1>4, <1>5

LEMMA AsksFacts ==
  ASSUME SharedTyped, RecordsOK, StagesOK, NEW r \in Runs, Asks(r)
  PROVE  /\ session.there /\ session'.there = session.there
         /\ session'.asked = session.asked \cup {r}
         /\ session'.ended = session.ended
         /\ r \notin session.asked /\ r \notin session.ended
         /\ Unended(run'[r]) /\ ~Unasked(run'[r])
         /\ \A q \in Runs : q # r => run'[q] = run[q]
         /\ Abandoned' = Abandoned /\ UNCHANGED born
<1>1. session \in SessionType
  BY DEF SharedTyped
<1>2. /\ session'.asked = session.asked \cup {r}
      /\ session'.ended = session.ended /\ session'.there = session.there
  BY <1>1, ChangesTyped DEF Asks
<1>3. Unasked(run[r])
  BY DEF Asks, Unasked
<1>4. /\ run'[r].pc = "asking" /\ run'[r].note # "none"
      /\ run'[r].broken = run[r].broken /\ run[r].pc = "asking"
      /\ \A q \in Runs : q # r => run'[q] = run[q]
  BY <1>1, StoresTyped DEF Asks
<1>5. Unended(run'[r]) /\ ~Unasked(run'[r])
  BY <1>4 DEF Unended, Unasked
<1>6. session.there /\ UNCHANGED <<lost, born>>
  BY DEF Asks, StoresTurn, history
<1>7. Abandoned' = Abandoned
  BY <1>4, <1>6, AbandonedSame
<1>8. r \notin session.asked /\ r \notin session.ended
  BY <1>3 DEF StagesOK
<1> QED
  BY <1>2, <1>4, <1>5, <1>6, <1>7, <1>8

LEMMA AsksKeepsStages ==
  ASSUME SharedTyped, RecordsOK, StagesOK, NEW r \in Runs, Asks(r)
  PROVE  StagesOK'
<1>1. ASSUME NEW q \in Runs
      PROVE  /\ q \in session'.asked => ~Unasked(run'[q])
             /\ session'.there /\ Unended(run'[q]) => q \in session'.asked
             /\ q \in session'.ended => ~Unasked(run'[q]) /\ ~Unended(run'[q])
             /\ q \in session'.asked \ session'.ended
                  => q \in Abandoned' \/ Unended(run'[q])
  BY AsksFacts DEF StagesOK
<1> QED
  BY <1>1 DEF StagesOK, Unasked, Unended

LEMMA EndsFacts ==
  ASSUME SharedTyped, RecordsOK, StagesOK, NEW r \in Runs, Ends(r)
  PROVE  /\ session.there /\ session'.there = session.there
         /\ session'.ended = session.ended \cup {r}
         /\ session'.asked = session.asked
         /\ r \in session.asked /\ r \notin session.ended
         /\ ~Unended(run'[r]) /\ ~Unasked(run'[r])
         /\ \A q \in Runs : q # r => run'[q] = run[q]
         /\ Abandoned' = Abandoned /\ UNCHANGED born
<1>1. session \in SessionType
  BY DEF SharedTyped
<1>2. /\ session'.ended = session.ended \cup {r}
      /\ session'.asked = session.asked /\ session'.there = session.there
  BY <1>1, ChangesTyped DEF Ends
<1>3. Unended(run[r]) /\ session.there /\ UNCHANGED <<lost, born>>
  BY DEF Ends, Unended, StoresTurn, history
<1>4. /\ run'[r].pc = run[r].pc /\ run'[r].note # "none"
      /\ run[r].pc \in {"finishing", "recovering"}
      /\ run'[r].broken = run[r].broken
      /\ \A q \in Runs : q # r => run'[q] = run[q]
  BY <1>1, StoresTyped DEF Ends
<1>5. ~Unended(run'[r]) /\ ~Unasked(run'[r])
  BY <1>4 DEF Unended, Unasked
<1>7. Abandoned' = Abandoned
  BY <1>3, <1>4, AbandonedSame
<1>8. r \in session.asked /\ r \notin session.ended
  BY <1>3 DEF StagesOK
<1> QED
  BY <1>2, <1>3, <1>4, <1>5, <1>7, <1>8

LEMMA EndsKeepsStages ==
  ASSUME SharedTyped, RecordsOK, StagesOK, NEW r \in Runs, Ends(r)
  PROVE  StagesOK'
<1>1. ASSUME NEW q \in Runs
      PROVE  /\ q \in session'.asked => ~Unasked(run'[q])
             /\ session'.there /\ Unended(run'[q]) => q \in session'.asked
             /\ q \in session'.ended => ~Unasked(run'[q]) /\ ~Unended(run'[q])
             /\ q \in session'.asked \ session'.ended
                  => q \in Abandoned' \/ Unended(run'[q])
  BY EndsFacts DEF StagesOK
<1> QED
  BY <1>1 DEF StagesOK, Unasked, Unended

LEMMA AdmissionKeepsStages ==
  ASSUME SharedTyped, RecordsOK, StagesOK, NEW r \in Runs,
         Reserves(r) \/ Takes(r)
  PROVE  StagesOK' /\ SameLog /\ Abandoned' = Abandoned /\ UNCHANGED born
<1>0. lease.epoch \in Nat
  BY DEF SharedTyped, LeaseType
<1>1. /\ run[r].pc \in {"read", "reserved"}
      /\ run'[r].pc \in {"reserved", "leased"}
      /\ run'[r].broken = run[r].broken
      /\ \A q \in Runs : q # r => run'[q] = run[q]
  BY <1>0, ReservesTyped, TakesTyped DEF Reserves, Takes
<1>2. /\ Unasked(run[r]) /\ ~Unended(run[r]) /\ ~Unended(run'[r])
  BY <1>1 DEF Unasked, Unended
<1>3. UNCHANGED <<session, lost, born>>
  BY DEF Reserves, Takes, blobs, history
<1>4. Abandoned' = Abandoned
  BY <1>1, <1>3, AbandonedSame
<1>5. ASSUME NEW q \in Runs
      PROVE  /\ q \in session'.asked => ~Unasked(run'[q])
             /\ session'.there /\ Unended(run'[q]) => q \in session'.asked
             /\ q \in session'.ended => ~Unasked(run'[q]) /\ ~Unended(run'[q])
             /\ q \in session'.asked \ session'.ended
                  => q \in Abandoned' \/ Unended(run'[q])
  BY <1>1, <1>2, <1>3, <1>4 DEF StagesOK
<1>6. StagesOK'
  BY <1>5 DEF StagesOK, Unasked, Unended
<1> QED
  BY <1>3, <1>4, <1>6 DEF SameLog

LEMMA MovingKeepsLog ==
  ASSUME SharedTyped, NEW r \in Runs, Moving(r) \/ Misses(r) \/ Declines(r)
  PROVE  SameLog /\ UNCHANGED <<born, admin>>
<1>1. session \in SessionType
  BY DEF SharedTyped
<1>2. CASE UNCHANGED <<session, born, admin>>
  BY <1>2 DEF SameLog
<1>3. ASSUME NEW changed, UpdateSession(r, changed),
             changed.asked = session.asked, changed.ended = session.ended,
             changed.there = session.there
      PROVE  SameLog /\ UNCHANGED <<born, admin>>
  BY <1>3 DEF UpdateSession, SameLog
<1>4. ASSUME NEW st \in Statuses,
             UpdateSession(r, [session EXCEPT !.status = st])
      PROVE  SameLog /\ UNCHANGED <<born, admin>>
  BY <1>1, <1>3, <1>4, ChangesTyped
<1>5. CASE Correct(r) \/ MarkRunning(r)
  BY <1>4, <1>5 DEF Correct, MarkRunning
<1>6. CASE SetFinal(r)
  <2>1. FinalStatus(r) \in Statuses
    BY DEF FinalStatus
  <2> QED
    BY <1>4, <1>6, <2>1 DEF SetFinal
<1>7. CASE Seed(r)
  <2> DEFINE s1 == [session EXCEPT !.status = "running", !.seeded = TRUE]
  <2>1. /\ s1.asked = session.asked /\ s1.ended = session.ended
        /\ s1.there = session.there
    BY <1>1, ChangesTyped
  <2>2. UpdateSession(r, s1)
    BY <1>7 DEF Seed
  <2> HIDE DEF s1
  <2> QED
    BY <1>3, <2>1, <2>2
<1>8. CASE Reread(r)
  <2>1. \/ UNCHANGED <<session, born, admin>>
        \/ UpdateSession(r, [session EXCEPT !.status = "failed"])
    BY <1>8 DEF Reread, blobs
  <2> QED
    BY <1>2, <1>4, <2>1
<1>9. CASE Begin(r) \/ CheckLease(r) \/ TouchIndex(r) \/ RunChat(r)
  <2>1. UNCHANGED <<session, born, admin>>
    BY <1>9 DEF Begin, CheckLease, TouchIndex, RunChat, blobs
  <2> QED
    BY <1>2, <2>1
<1>10. CASE \/ Forget(r) \/ ReleaseLease(r) \/ RenewLease(r) \/ RunTimeout(r)
            \/ StoreFails(r) \/ Misses(r) \/ Declines(r)
  <2>1. UNCHANGED <<session, born, admin>>
    BY <1>10 DEF Forget, ReleaseLease, RenewLease, RunTimeout, StoreFails,
                 Misses, Declines, blobs
  <2> QED
    BY <1>2, <2>1
<1> QED
  BY <1>5, <1>6, <1>7, <1>8, <1>9, <1>10 DEF Moving

\* What a step beside the runs does to the session.
LEMMA BesideLog ==
  ASSUME SharedTyped, BornOK, Beside
  PROVE  \/ SameLog
         \/ session' = NoSession
         \/ ~born /\ session' = [NoSession EXCEPT !.there = TRUE]
<1>1. CASE UNCHANGED session
  BY <1>1 DEF SameLog
<1>2. CASE Create \/ CreateRollback \/ Erase
  BY <1>2 DEF Create, CreateRollback, Erase
<1>3. CASE AdminCorrect
  <2>1. session \in SessionType
    BY DEF SharedTyped
  <2>2. CASE session' = [session EXCEPT !.status = "failed"]
    BY <2>1, <2>2, ChangesTyped DEF SameLog
  <2> QED
    BY <1>1, <1>3, <2>2 DEF AdminCorrect
<1>4. CASE Get \/ List \/ Delete \/ Evict \/ RequestCancel \/ CreateEntry
  BY <1>1, <1>4 DEF Get, List, Delete, Evict, RequestCancel, CreateEntry,
                    blobs
<1>5. CASE \/ AdminCheck \/ AdminTouch \/ AdminRelist \/ DeleteCheck
           \/ Unlist \/ Unlease \/ AdminFails
  BY <1>1, <1>5 DEF AdminCheck, AdminTouch, AdminRelist, DeleteCheck, Unlist,
                    Unlease, AdminFails, blobs
<1>6. CASE LapseUnrenewed \/ LapseUnderRun
  BY <1>1, <1>6 DEF LapseUnrenewed, LapseUnderRun
<1> QED
  BY <1>2, <1>3, <1>4, <1>5, <1>6 DEF Beside, AdminRequests, AdminSteps

\* Who knows the session, and what the admin request is at.
LEMMA BesideBorn ==
  ASSUME SharedTyped, BornOK, Beside
  PROVE  /\ born' = born \/ (session.there /\ SameLog)
         /\ born => born'
         /\ admin'.at \in {"indexing", "rolling back"} => ~born'
         /\ admin'.at = "indexing" => session'.there
<1>0. /\ admin \in AdminType /\ session \in SessionType
      /\ NoRequest.at = "idle"
  BY DEF SharedTyped, NoRequest
<1> DEFINE Idle == admin'.at \notin {"indexing", "rolling back"}
<1>1. CASE Create
  <2>1. /\ ~born /\ UNCHANGED born
        /\ session' = [NoSession EXCEPT !.there = TRUE]
    BY <1>1 DEF Create
  <2>2. session'.there
    BY <2>1 DEF NoSession
  <2> QED
    BY <2>1, <2>2
<1>2. CASE CreateEntry
  <2>1. admin.at = "indexing" /\ born' = TRUE /\ UNCHANGED session
        /\ admin' = NoRequest
    BY <1>2 DEF CreateEntry, AdminDone
  <2> QED
    BY <1>0, <2>1 DEF BornOK, SameLog
<1>3. ASSUME Idle, UNCHANGED born
      PROVE  /\ born' = born \/ (session.there /\ SameLog)
             /\ born => born'
             /\ admin'.at \in {"indexing", "rolling back"} => ~born'
             /\ admin'.at = "indexing" => session'.there
  BY <1>3
<1>4. CASE CreateRollback \/ Erase \/ Unlease
  <2>1. UNCHANGED born /\ (AdminDone \/ AdminTo("erasing"))
    BY <1>4 DEF CreateRollback, Erase, Unlease
  <2>2. Idle
    BY <1>0, <2>1 DEF AdminDone, AdminTo, AdminType
  <2> QED
    BY <1>3, <2>1, <2>2
<1>5. CASE Get \/ List \/ Delete \/ Evict \/ RequestCancel
  <2>1. UNCHANGED born
    BY <1>5 DEF Get, List, Delete, Evict, RequestCancel
  <2>2. \E want \in Wants, step \in {"checking", "listing", "asking lease",
                                    "unleasing", "cancelling"} :
           AdminStarts(want, step)
    BY <1>5 DEF Get, List, Delete, Evict, RequestCancel, Wants, Requests
  <2>3. Idle
    <3>1. PICK want \in Wants, step \in {"checking", "listing",
                         "asking lease", "unleasing", "cancelling"} :
             admin' = [want |-> want, at |-> step, note |-> "none"]
      BY <2>2 DEF AdminStarts
    <3>2. admin'.at = step
      BY <3>1
    <3> QED
      BY <3>2
  <2> QED
    BY <1>3, <2>1, <2>3
<1>6. CASE AdminCheck \/ AdminRelist \/ DeleteCheck \/ Unlist
  <2>1. UNCHANGED born
    BY <1>6 DEF AdminCheck, AdminRelist, DeleteCheck, Unlist
  <2>2. \/ AdminDone
        \/ \E step \in {"correcting", "relisting", "asking lease",
                       "unlisting", "unleasing"} : AdminTo(step)
    BY <1>6 DEF AdminCheck, AdminRelist, DeleteCheck, Unlist, Continue
  <2>3. Idle
    BY <1>0, <2>2 DEF AdminDone, AdminTo, AdminType
  <2> QED
    BY <1>3, <2>1, <2>3
<1>7. CASE AdminCorrect
  <2>1. UNCHANGED born /\ admin.at = "correcting"
    BY <1>7 DEF AdminCorrect
  <2>2. AdminDone \/ admin' = [admin EXCEPT !.note = "failed"]
    BY <1>7 DEF AdminCorrect
  <2>3. Idle
    BY <1>0, <2>1, <2>2 DEF AdminDone, AdminType
  <2> QED
    BY <1>3, <2>1, <2>3
<1>8. CASE AdminTouch
  <2>1. UNCHANGED born
    BY <1>8 DEF AdminTouch
  <2>2. \/ AdminDone
        \/ admin' = [admin EXCEPT !.at = "asking lease", !.note = "none"]
    BY <1>8 DEF AdminTouch
  <2>3. Idle
    BY <1>0, <2>2 DEF AdminDone, AdminType
  <2> QED
    BY <1>3, <2>1, <2>3
<1>9. CASE AdminFails
  <2>1. UNCHANGED <<born, session>>
    BY <1>9 DEF AdminFails, blobs
  <2>2. \/ AdminDone
        \/ admin.at = "indexing" /\ AdminTo("rolling back")
    BY <1>9 DEF AdminFails
  <2>3. CASE AdminDone
    BY <1>0, <1>3, <2>1, <2>3 DEF AdminDone
  <2>4. CASE admin.at = "indexing" /\ AdminTo("rolling back")
    <3>1. ~born /\ admin'.at = "rolling back"
      BY <1>0, <2>4 DEF BornOK, AdminTo, AdminType
    <3> QED
      BY <2>1, <3>1
  <2> QED
    BY <2>2, <2>3, <2>4
<1>10. CASE LapseUnrenewed \/ LapseUnderRun
  <2>1. UNCHANGED <<born, session, admin>>
    BY <1>10 DEF LapseUnrenewed, LapseUnderRun
  <2> QED
    BY <2>1 DEF BornOK
<1> QED
  BY <1>1, <1>2, <1>4, <1>5, <1>6, <1>7, <1>8, <1>9, <1>10
     DEF Beside, AdminRequests, AdminSteps

LEMMA NotNew ==
  ASSUME RecordsOK, NEW r \in Runs, run[r].pc = "new",
         \/ Moving(r) \/ Asks(r) \/ Ends(r) \/ Misses(r)
         \/ Reserves(r) \/ Takes(r) \/ Declines(r)
  PROVE  born
<1>1. CASE Begin(r)
  BY <1>1 DEF Begin
<1>2. CASE TouchIndex(r)
  BY <1>2 DEF TouchIndex, RecordsOK, WellFormed
<1>3. CASE StoreFails(r)
  BY <1>3 DEF StoreFails, AtWork
<1>4. CASE \/ CheckLease(r) \/ Correct(r) \/ MarkRunning(r) \/ Seed(r)
           \/ Reread(r) \/ SetFinal(r) \/ RunChat(r) \/ Forget(r)
  BY <1>4 DEF CheckLease, Correct, MarkRunning, Seed, Reread, SetFinal,
              RunChat, Forget
<1>5. CASE \/ ReleaseLease(r) \/ RenewLease(r) \/ RunTimeout(r)
           \/ Asks(r) \/ Ends(r) \/ Misses(r)
           \/ Reserves(r) \/ Takes(r) \/ Declines(r)
  BY <1>5 DEF ReleaseLease, RenewLease, RunTimeout, AtWork, Asks, Ends,
              Misses, Reserves, Takes, Declines
<1> QED
  BY <1>1, <1>2, <1>3, <1>4, <1>5 DEF Moving

LEMMA BornByLog ==
  ASSUME BornOK, SameLog, UNCHANGED <<born, admin>>,
         ~born => \A r \in Runs : run'[r].pc = "new"
  PROVE  BornOK'
BY DEF BornOK, SameLog

LEMMA RunStepBorn ==
  ASSUME SharedTyped, RecordsOK, StagesOK, BornOK, NEW r \in Runs,
         \/ Moving(r) \/ Asks(r) \/ Ends(r) \/ Misses(r)
         \/ Reserves(r) \/ Takes(r) \/ Declines(r)
  PROVE  BornOK'
<1>1. born
  BY NotNew DEF BornOK
<1>2. CASE Moving(r) \/ Misses(r) \/ Declines(r)
  BY <1>1, <1>2, MovingKeepsLog, BornByLog
<1>3. CASE Reserves(r) \/ Takes(r)
  <2>1. SameLog /\ UNCHANGED <<born, admin>>
    BY <1>3 DEF Reserves, Takes, blobs, SameLog
  <2> QED
    BY <1>1, <2>1, BornByLog
<1>4. CASE Asks(r) \/ Ends(r)
  <2>1. session.there /\ session'.there
    BY <1>4, AsksFacts, EndsFacts
  <2>2. UNCHANGED <<born, admin>>
    BY <1>4 DEF Asks, Ends, StoresTurn
  <2> QED
    BY <1>1, <2>1, <2>2 DEF BornOK
<1> QED
  BY <1>2, <1>3, <1>4

LEMMA BesideKeepsBorn ==
  ASSUME SharedTyped, BornOK, Beside
  PROVE  BornOK'
<1>1. UNCHANGED run /\ (born => born')
  BY BesideKeeps, BesideBorn
<1>2. ~born' => \A r \in Runs : run'[r].pc = "new"
  BY <1>1 DEF BornOK
<1>3. ~session'.there \/ ~born'
        => session'.asked = {} /\ session'.ended = {}
  <2>1. CASE SameLog
    BY <1>1, <2>1 DEF BornOK, SameLog
  <2>2. CASE \/ session' = NoSession
             \/ session' = [NoSession EXCEPT !.there = TRUE]
    BY <2>2 DEF NoSession
  <2> QED
    BY <2>1, <2>2, BesideLog
<1>4. /\ admin'.at \in {"indexing", "rolling back"} => ~born'
      /\ admin'.at = "indexing" => session'.there
  BY BesideBorn
<1> QED
  BY <1>2, <1>3, <1>4 DEF BornOK

LEMMA CancelLocalBorn ==
  ASSUME SharedTyped, RecordsOK, BornOK, CancelLocal
  PROVE  BornOK'
<1>1. /\ SameLog /\ UNCHANGED <<born, session>> /\ admin'.at = "idle"
  BY DEF CancelLocal, blobs, SameLog, AdminDone, NoRequest
<1>2. \A r \in Runs : run'[r].pc = run[r].pc
  <2>1. PICK i \in Replicas :
          run' = [r \in Runs |-> IF active[i] = r
                                  THEN [run[r] EXCEPT !.cancelled = TRUE]
                                  ELSE run[r]]
    BY DEF CancelLocal
  <2> SUFFICES ASSUME NEW r \in Runs PROVE run'[r].pc = run[r].pc
    OBVIOUS
  <2>2. run[r] \in RunType
    BY DEF RecordsOK
  <2>3. \/ run'[r] = [run[r] EXCEPT !.cancelled = TRUE]
        \/ run'[r] = run[r]
    BY <2>1
  <2> QED
    BY <2>2, <2>3 DEF RunType
<1> QED
  BY <1>1, <1>2 DEF BornOK

LEMMA KillBorn ==
  ASSUME SharedTyped, RecordsOK, BornOK, NEW i \in Replicas, Kill(i)
  PROVE  BornOK'
<1>1. /\ UNCHANGED <<born, session>> /\ admin' \in {admin, NoRequest}
      /\ NoRequest.at = "idle"
  BY DEF Kill, NoRequest
<1>2. ASSUME NEW r \in Runs, run[r].pc = "new"
      PROVE  run'[r].pc = "new"
  <2>1. run'[r] = run[r]
    BY <1>2 DEF Kill
  <2> QED
    BY <1>2, <2>1
<1> QED
  BY <1>1, <1>2 DEF BornOK

LEMMA LostGrows ==
  ASSUME LeaseKept
  PROVE  lost \subseteq lost'
BY DEF LeaseKept

LEMMA ExchangeStep ==
  ASSUME SharedTyped, RecordsOK, StagesOK, BornOK, Next
  PROVE  StagesOK' /\ BornOK'
<1>0. session \in SessionType
  BY DEF SharedTyped
<1>1. ASSUME NEW r \in Runs, Moving(r) \/ Misses(r) \/ Declines(r)
      PROVE  StagesOK' /\ BornOK'
  <2>1. AllMove
    BY <1>0, <1>1, MovingMoves, MissesMove, DeclinesMove
  <2>2. SameLog /\ lost \subseteq lost'
    BY <1>1, <2>1, MovingKeepsLog, MovingKeepsLease, LostGrows
  <2> QED
    BY <1>1, <2>1, <2>2, MoveKeepsStages, RunStepBorn
<1>2. ASSUME NEW r \in Runs, Asks(r) \/ Ends(r)
      PROVE  StagesOK' /\ BornOK'
  BY <1>2, AsksKeepsStages, EndsKeepsStages, RunStepBorn
<1>3. ASSUME NEW r \in Runs, Reserves(r) \/ Takes(r)
      PROVE  StagesOK' /\ BornOK'
  BY <1>3, AdmissionKeepsStages, RunStepBorn
<1>4. CASE Beside
  <2>1. AllMove /\ lost \subseteq lost' /\ UNCHANGED run
    BY <1>4, BesideKeeps, NoneMove, BesideKeepsLease, LostGrows
  <2>2. CASE SameLog \/ session' = NoSession
    BY <1>4, <2>1, <2>2, MoveKeepsStages, BesideKeepsBorn
  <2>3. CASE ~born /\ session' = [NoSession EXCEPT !.there = TRUE]
    <3>1. session'.asked = {} /\ session'.ended = {}
      BY <2>3 DEF NoSession
    <3>2. ASSUME NEW r \in Runs PROVE ~Unended(run'[r])
      <4>1. run'[r].pc = "new" /\ run'[r] \in RunType /\ WellFormed(run'[r])
        BY <2>1, <2>3 DEF BornOK, AllMove, Moved
      <4> QED
        BY <4>1 DEF Unended
    <3>3. StagesOK'
      BY <3>1, <3>2 DEF StagesOK, Unended
    <3> QED
      BY <1>4, <3>3, BesideKeepsBorn
  <2> QED
    BY <1>4, <2>2, <2>3, BesideLog
<1>5. CASE CancelLocal
  <2>1. SameLog /\ lost \subseteq lost'
    BY <1>5 DEF CancelLocal, blobs, history, SameLog
  <2> QED
    BY <1>5, <2>1, CancelLocalMoves, MoveKeepsStages, CancelLocalBorn
<1>6. ASSUME NEW i \in Replicas, Kill(i)
      PROVE  StagesOK' /\ BornOK'
  <2>1. SameLog /\ lost \subseteq lost'
    BY <1>6 DEF Kill, history, SameLog
  <2> QED
    BY <1>6, <2>1, KillMoves, MoveKeepsStages, KillBorn
<1> QED
  BY <1>0, <1>1, <1>2, <1>3, <1>4, <1>5, <1>6, StepCases

-----------------------------------------------------------------------------
(* The session implements ChatExchange *)

LEMMA GrowingImplements ==
  ASSUME Grows, SameLog, UNCHANGED born,
         lost \subseteq Runs, lost' \subseteq Runs
  PROVE  [Exchange!Next]_(Exchange!log)
<1>1. /\ UNCHANGED <<session.asked, session.ended>>
      /\ UNCHANGED (born /\ ~session.there)
  BY DEF SameLog
<1>a. Abandoned \subseteq Runs /\ Abandoned' \subseteq Runs
  BY DEF Abandoned
<1>b. \A r \in Runs : r \in Abandoned => r \in Abandoned'
  BY AbandonedGrows
<1>2. Abandoned \subseteq Abandoned' /\ Abandoned' \subseteq Runs
  BY <1>a, <1>b
<1>3. CASE Abandoned' = Abandoned
  BY <1>1, <1>3 DEF Exchange!log
<1>4. CASE Abandoned' # Abandoned
  <2>1. Exchange!Abandon
    BY <1>1, <1>2, <1>4 DEF Exchange!Abandon
  <2> QED
    BY <2>1 DEF Exchange!Next
<1> QED
  BY <1>3, <1>4

\* A run that still counts asks only when every earlier one has its end.
LEMMA AloneAsking ==
  ASSUME SharedTyped, RecordsOK, ReservedOK, HeldOK, StagesOK,
         NEW r \in Runs, run[r].pc = "asking", r \notin Abandoned,
         r \notin session.asked
  PROVE  session.asked \ session.ended \subseteq Abandoned
<1> SUFFICES ASSUME NEW q \in Runs, q \in session.asked,
                    q \notin session.ended, q \notin Abandoned
             PROVE  FALSE
  BY DEF SharedTyped, SessionType
<1>1. Unended(run[q])
  BY DEF StagesOK
<1>2. run[q].pc \in Working
  BY <1>1 DEF Unended
<1>3. q \notin lost /\ r \notin lost
  BY DEF Abandoned
<1>4. run[q].at = run[r].at
  BY <1>2, <1>3 DEF HeldOK, Holds
<1>5. active[run[q].at] = q /\ active[run[r].at] = r
  BY <1>2 DEF ReservedOK
<1> QED
  BY <1>4, <1>5

LEMMA AsksImplements ==
  ASSUME SharedTyped, RecordsOK, ReservedOK, HeldOK, StagesOK,
         NEW r \in Runs, Asks(r)
  PROVE  Exchange!Ask(r)
<1>1. run[r].pc = "asking"
  BY DEF Asks
<1>2. /\ session.there /\ session'.there
      /\ session'.asked = session.asked \cup {r}
      /\ session'.ended = session.ended
      /\ r \notin session.asked
      /\ Abandoned' = Abandoned /\ UNCHANGED born
  BY AsksFacts
<1>3. r \in Abandoned \/ session.asked \ session.ended \subseteq Abandoned
  BY <1>1, <1>2, AloneAsking
<1>4. ~(born /\ ~session.there) /\ ~(born' /\ ~session'.there)
  BY <1>2
<1>5. UNCHANGED (born /\ ~session.there)
  BY <1>4
<1> QED
  BY <1>2, <1>3, <1>4, <1>5 DEF Exchange!Ask

LEMMA EndsImplements ==
  ASSUME SharedTyped, RecordsOK, StagesOK, NEW r \in Runs, Ends(r)
  PROVE  Exchange!End(r)
<1>2. /\ session.there /\ session'.there
      /\ session'.ended = session.ended \cup {r}
      /\ session'.asked = session.asked
      /\ r \in session.asked /\ r \notin session.ended
      /\ Abandoned' = Abandoned /\ UNCHANGED born
  BY EndsFacts
<1>4. ~(born /\ ~session.there) /\ ~(born' /\ ~session'.there)
  BY <1>2
<1>5. UNCHANGED (born /\ ~session.there)
  BY <1>4
<1> QED
  BY <1>2, <1>4, <1>5 DEF Exchange!End

LEMMA StutterImplements ==
  ASSUME UNCHANGED lost, UNCHANGED run, session'.asked = session.asked,
         session'.ended = session.ended,
         (born' /\ ~session'.there) <=> (born /\ ~session.there)
  PROVE  [Exchange!Next]_(Exchange!log)
<1>1. Abandoned' = Abandoned
  BY DEF Abandoned
<1>2. UNCHANGED (born /\ ~session.there)
  OBVIOUS
<1> QED
  BY <1>1, <1>2 DEF Exchange!log

LEMMA BesideImplements ==
  ASSUME SharedTyped, SharedTyped', RecordsOK, BornOK, Beside
  PROVE  [Exchange!Next]_(Exchange!log)
<1>0. lost \subseteq Runs /\ lost' \subseteq Runs
  BY DEF SharedTyped, HistoryTyped
<1>1. UNCHANGED run /\ AllMove /\ lost \subseteq lost'
  BY BesideKeeps, NoneMove, BesideKeepsLease, LostGrows
<1>2. Grows
  BY <1>1, MoveGrows
<1>3. CASE Create \/ CreateRollback
  <2>a. UNCHANGED <<born, lost>>
    BY <1>3 DEF Create, CreateRollback, RunsKeep
  <2>b. ~born
    BY <1>3 DEF Create, CreateRollback, BornOK
  <2>1. ~born /\ ~born' /\ UNCHANGED lost
    BY <2>a, <2>b
  <2>c. \/ session' = NoSession
        \/ session' = [NoSession EXCEPT !.there = TRUE]
    BY <1>3 DEF Create, CreateRollback
  <2>2. session'.asked = {} /\ session'.ended = {}
    BY <2>c DEF NoSession
  <2>3. session.asked = {} /\ session.ended = {}
    BY <2>1 DEF BornOK
  <2> QED
    BY <1>1, <2>1, <2>2, <2>3, StutterImplements
<1>4. CASE Erase
  <2>1. /\ session' = NoSession /\ UNCHANGED <<born, lost>>
    BY <1>4 DEF Erase, RunsKeep
  <2>2. /\ session'.asked = {} /\ session'.ended = {} /\ ~session'.there
    BY <2>1 DEF NoSession
  <2>3. CASE born /\ session.there
    <3>1. Abandoned' = Abandoned
      BY <1>1, <2>1 DEF Abandoned
    <3>2. ~(born /\ ~session.there)
      BY <2>3
    <3>3. (born /\ ~session.there)' = TRUE
      BY <2>1, <2>2, <2>3
    <3>4. Exchange!Erase
      BY <2>2, <3>1, <3>2, <3>3 DEF Exchange!Erase
    <3> QED
      BY <3>4 DEF Exchange!Next
  <2>4. CASE ~(born /\ session.there)
    <3>1. session.asked = {} /\ session.ended = {}
      BY <2>4 DEF BornOK
    <3> QED
      BY <1>1, <2>1, <2>2, <2>4, <3>1, StutterImplements
  <2> QED
    BY <2>3, <2>4
<1>5. CASE CreateEntry
  <2>1. session.there /\ SameLog /\ UNCHANGED lost
    BY <1>5 DEF CreateEntry, BornOK, SameLog, RunsKeep
  <2> QED
    BY <1>1, <2>1, StutterImplements DEF SameLog
<1>6. CASE AdminCorrect
  <2>1. session \in SessionType /\ UNCHANGED born
    BY <1>6 DEF SharedTyped, AdminCorrect
  <2>a. \/ session' = [session EXCEPT !.status = "failed"]
        \/ UNCHANGED session
    BY <1>6 DEF AdminCorrect
  <2>2. SameLog
    <3>1. CASE session' = [session EXCEPT !.status = "failed"]
      <4>1. /\ [session EXCEPT !.status = "failed"].asked = session.asked
            /\ [session EXCEPT !.status = "failed"].ended = session.ended
            /\ [session EXCEPT !.status = "failed"].there = session.there
        BY <2>1 DEF SessionType
      <4> QED
        BY <3>1, <4>1 DEF SameLog
    <3>2. CASE UNCHANGED session
      BY <3>2 DEF SameLog
    <3> QED
      BY <2>a, <3>1, <3>2
  <2> QED
    BY <1>0, <1>2, <2>1, <2>2, GrowingImplements
<1>7. CASE UNCHANGED <<session, born>>
  <2>1. SameLog /\ UNCHANGED born
    BY <1>7 DEF SameLog
  <2> QED
    BY <1>0, <1>2, <2>1, GrowingImplements
<1>8. CASE Get \/ List \/ Delete \/ Evict \/ RequestCancel
  BY <1>7, <1>8 DEF Get, List, Delete, Evict, RequestCancel, blobs
<1>9. CASE \/ AdminCheck \/ AdminTouch \/ AdminRelist \/ DeleteCheck
           \/ Unlist \/ Unlease \/ AdminFails
  BY <1>7, <1>9 DEF AdminCheck, AdminTouch, AdminRelist, DeleteCheck, Unlist,
                    Unlease, AdminFails, blobs
<1>10. CASE LapseUnrenewed \/ LapseUnderRun
  BY <1>7, <1>10 DEF LapseUnrenewed, LapseUnderRun
<1> QED
  BY <1>3, <1>4, <1>5, <1>6, <1>8, <1>9, <1>10
     DEF Beside, AdminRequests, AdminSteps

LEMMA StepImplements ==
  ASSUME SharedTyped, RecordsOK, ReservedOK, HeldOK, StagesOK, BornOK, Next
  PROVE  [Exchange!Next]_(Exchange!log)
<1>a. SharedTyped'
  BY StepTyped
<1>0. /\ session \in SessionType
      /\ lost \subseteq Runs /\ lost' \subseteq Runs
  BY <1>a DEF SharedTyped, HistoryTyped
<1>1. ASSUME NEW r \in Runs, Moving(r) \/ Misses(r) \/ Declines(r)
      PROVE  [Exchange!Next]_(Exchange!log)
  <2>1. AllMove
    BY <1>0, <1>1, MovingMoves, MissesMove, DeclinesMove
  <2>2. SameLog /\ UNCHANGED born /\ lost \subseteq lost'
    BY <1>1, <2>1, MovingKeepsLog, MovingKeepsLease, LostGrows
  <2> QED
    BY <1>0, <2>1, <2>2, MoveGrows, GrowingImplements
<1>2. ASSUME NEW r \in Runs, Asks(r) \/ Ends(r)
      PROVE  [Exchange!Next]_(Exchange!log)
  BY <1>2, AsksImplements, EndsImplements DEF Exchange!Next
<1>3. ASSUME NEW r \in Runs, Reserves(r) \/ Takes(r)
      PROVE  [Exchange!Next]_(Exchange!log)
  <2>1. SameLog /\ Abandoned' = Abandoned /\ UNCHANGED born
    BY <1>3, AdmissionKeepsStages
  <2>2. /\ UNCHANGED <<session.asked, session.ended>>
        /\ UNCHANGED (born /\ ~session.there)
    BY <2>1 DEF SameLog
  <2> QED
    BY <2>1, <2>2 DEF Exchange!log
<1>4. CASE Beside
  BY <1>a, <1>4, BesideImplements
<1>5. CASE CancelLocal
  <2>1. SameLog /\ lost \subseteq lost' /\ UNCHANGED born
    BY <1>5 DEF CancelLocal, blobs, history, SameLog
  <2> QED
    BY <1>0, <1>5, <2>1, CancelLocalMoves, MoveGrows, GrowingImplements
<1>6. ASSUME NEW i \in Replicas, Kill(i)
      PROVE  [Exchange!Next]_(Exchange!log)
  <2>1. SameLog /\ lost \subseteq lost' /\ UNCHANGED born
    BY <1>6 DEF Kill, history, SameLog
  <2> QED
    BY <1>0, <1>6, <2>1, KillMoves, MoveGrows, GrowingImplements
<1> QED
  BY <1>0, <1>1, <1>2, <1>3, <1>4, <1>5, <1>6, StepCases

LEMMA StartFacts ==
  ASSUME Init
  PROVE  StagesOK /\ BornOK /\ Exchange!Init
<1>1. /\ session = NoSession /\ born = FALSE /\ lost = {}
      /\ admin = NoRequest
  BY DEF Init
<1>2. /\ session.asked = {} /\ session.ended = {} /\ ~session.there
      /\ admin.at = "idle"
  BY <1>1 DEF NoSession, NoRequest
<1>3. ASSUME NEW r \in Runs
      PROVE  run[r].pc = "new" /\ run[r].broken = FALSE
  <2>1. run[r] \in {NewRun(i) : i \in Replicas}
    BY DEF Init
  <2> QED
    BY <2>1 DEF NewRun
<1>4. StagesOK /\ BornOK
  BY <1>1, <1>2, <1>3 DEF StagesOK, BornOK
<1>5. Abandoned = {}
  BY <1>1, <1>3 DEF Abandoned
<1>6. (born /\ ~session.there) = FALSE
  BY <1>1
<1>7. Exchange!Init
  BY <1>2, <1>5, <1>6 DEF Exchange!Init
<1> QED
  BY <1>4, <1>7

LEMMA ExchangeInvariance ==
  Spec => []( /\ SharedTyped /\ RecordsOK /\ ReservedOK /\ HeldOK
              /\ StagesOK /\ BornOK )
<1>1. Init => StagesOK /\ BornOK
  BY StartFacts
<1>2. /\ SharedTyped /\ RecordsOK /\ ReservedOK /\ HeldOK
      /\ StagesOK /\ BornOK /\ [Next]_vars
      => (StagesOK /\ BornOK)'
  <2>1. SUFFICES ASSUME SharedTyped, RecordsOK, StagesOK, BornOK, [Next]_vars
                 PROVE  StagesOK' /\ BornOK'
    OBVIOUS
  <2>2. CASE Next
    BY <2>1, <2>2, ExchangeStep
  <2>3. CASE UNCHANGED vars
    <3>1. AllMove /\ SameLog /\ lost \subseteq lost' /\ UNCHANGED <<born, admin>>
      BY <2>1, <2>3, NoneMove DEF vars, blobs, history, SameLog
    <3>2. StagesOK'
      BY <2>1, <3>1, MoveKeepsStages
    <3>3. ~born => \A r \in Runs : run'[r].pc = "new"
      BY <2>1, <2>3 DEF vars, BornOK
    <3> QED
      BY <2>1, <3>1, <3>2, <3>3, BornByLog
  <2> QED
    BY <2>1, <2>2, <2>3
<1> QED
  BY <1>1, <1>2, LeaseInvariance, PTL DEF Spec

(* Whatever the replicas, the readers, the deletions and the faults do, the
   session does what ChatExchange allows: the turns of execute are stored
   once and in order, one exchange after the other. *)
THEOREM KeepsExchangeAlways == Spec => KeepsExchange
<1>1. Init => Exchange!Init
  BY StartFacts
<1>2. /\ SharedTyped /\ RecordsOK /\ ReservedOK /\ HeldOK
      /\ StagesOK /\ BornOK /\ [Next]_vars
      => [Exchange!Next]_(Exchange!log)
  <2>1. SUFFICES ASSUME SharedTyped, RecordsOK, ReservedOK, HeldOK,
                        StagesOK, BornOK, [Next]_vars
                 PROVE  [Exchange!Next]_(Exchange!log)
    OBVIOUS
  <2>2. CASE Next
    BY <2>1, <2>2, StepImplements
  <2>3. CASE UNCHANGED vars
    BY <2>3, StutterImplements DEF vars, blobs, history
  <2> QED
    BY <2>1, <2>2, <2>3
<1> QED
  BY <1>1, <1>2, ExchangeInvariance, PTL
     DEF Spec, KeepsExchange, Exchange!Safe

-----------------------------------------------------------------------------
(* The status: who writes it, and what the index says meanwhile *)

Calm == ~fixed /\ lost = {} /\ happened \cap {"kill", "fault"} = {}

\* At most one run works: what the lease is for, when none is lost.
Alone == \A p, q \in Runs :
  run[p].pc \in Working /\ run[q].pc \in Working => p = q

\* A run that wrote "running", and has not written its final status yet.
InCourse(x) ==
  \/ x.pc \in {"seeding", "rereading", "asking", "model", "finishing"}
  \/ x.pc = "leased" /\ x.note # "none"
  \/ x.pc = "closing" /\ x.note = "none"

(* While all is calm only the run that works writes: the session is running
   exactly in its course, a note is what it wrote last, and without one the
   index agrees. *)
NotesOK == \A r \in Runs :
  run[r].note # "none" => /\ run[r].pc \in Working
                          /\ session.there => session.status = run[r].note
StatusOK ==
  /\ ~born => ~index.there /\ session.status = "idle"
  /\ admin.note = "none"
  /\ NotesOK
  /\ session.there =>
       /\ session.status = "running" <=> \E r \in Runs : InCourse(run[r])
       /\ index.there => \/ index.status = session.status
                         \/ \E r \in Runs : run[r].note # "none"

LEMMA HeldAlone ==
  ReservedOK /\ HeldOK /\ lost = {} => Alone
<1> SUFFICES ASSUME ReservedOK, HeldOK, lost = {},
                    NEW p \in Runs, NEW q \in Runs,
                    run[p].pc \in Working, run[q].pc \in Working
             PROVE  p = q
  BY DEF Alone
<1>1. run[p].at = lease.owner /\ run[q].at = lease.owner
  BY DEF HeldOK, Holds
<1>2. active[run[p].at] = p /\ active[run[q].at] = q
  BY DEF ReservedOK
<1> QED
  BY <1>1, <1>2

LEMMA StepsTo ==
  ASSUME RecordsOK, NEW r \in Runs, NEW y, Becomes(r, y)
  PROVE  run'[r] = y /\ \A q \in Runs : q # r => run'[q] = run[q]
BY DEF Becomes, RecordsOK

LEMMA LeftFields ==
  ASSUME NEW r \in Runs, NEW pc, NEW e
  PROVE  Left(r, pc, e).pc = pc /\ Left(r, pc, e).note = "none"
BY DEF Left

(* Steps that write neither the session nor the index: a note stays with its
   run, and the run in its course. *)
Alike(x, y) ==
  /\ y.note = x.note
  /\ x.note # "none" => y.pc \in Working
  /\ InCourse(y) <=> InCourse(x)

LEMMA AlikeKeeps ==
  ASSUME StatusOK, UNCHANGED <<session, index, born>>, admin'.note = "none",
         \A q \in Runs : Alike(run[q], run'[q])
  PROVE  StatusOK'
<1>1. NotesOK'
  BY DEF NotesOK, StatusOK, Alike
<1>2. (\E q \in Runs : InCourse(run'[q])) <=> (\E q \in Runs : InCourse(run[q]))
  BY DEF Alike
<1>3. (\E q \in Runs : run'[q].note # "none")
        <=> (\E q \in Runs : run[q].note # "none")
  BY DEF Alike
<1> QED
  BY <1>1, <1>2, <1>3 DEF StatusOK, InCourse

LEMMA MoverAlike ==
  ASSUME RecordsOK, StatusOK, NEW r \in Runs, NEW y, Becomes(r, y),
         Alike(run[r], y), UNCHANGED <<session, index, born, admin>>
  PROVE  StatusOK'
<1>1. run'[r] = y /\ \A q \in Runs : q # r => run'[q] = run[q]
  BY StepsTo
<1>2. ASSUME NEW q \in Runs
      PROVE  Alike(run[q], run'[q])
  <2>1. CASE q = r
    BY <1>1, <2>1
  <2>2. CASE q # r
    <3>1. Alike(run[q], run[q])
      BY DEF Alike, StatusOK, NotesOK
    <3> QED
      BY <1>1, <2>2, <3>1
  <2> QED
    BY <2>1, <2>2
<1> QED
  BY <1>2, AlikeKeeps DEF StatusOK

LEMMA LeavesAlike ==
  ASSUME RecordsOK, StatusOK, NEW r \in Runs,
         run[r].pc \in {"new", "read", "reserved", "release", "releasing"},
         NEW pc \in {"releasing", "refused", "done"}, NEW e,
         Becomes(r, Left(r, pc, e)),
         UNCHANGED <<session, index, born, admin>>
  PROVE  StatusOK'
<1>1. run[r].note = "none"
  BY DEF RecordsOK, WellFormed
<1>2. Alike(run[r], Left(r, pc, e))
  BY <1>1, LeftFields DEF Alike, InCourse
<1> QED
  BY <1>2, MoverAlike

LEMMA StopsAlike ==
  ASSUME RecordsOK, StatusOK, NEW r \in Runs, Stops(r),
         UNCHANGED <<session, index, born, admin>>
  PROVE  StatusOK'
<1> DEFINE y == [run[r] EXCEPT !.cancelled = TRUE]
<1>1. run[r] \in RunType
  BY DEF RecordsOK
<1>2. y.pc = run[r].pc /\ y.note = run[r].note
  BY <1>1 DEF RunType
<1>3. Becomes(r, y)
  BY DEF Stops
<1> HIDE DEF y
<1>4. Alike(run[r], y)
  BY <1>2 DEF Alike, InCourse, StatusOK, NotesOK
<1> QED
  BY <1>3, <1>4, MoverAlike

LEMMA GoesAlike ==
  ASSUME RecordsOK, StatusOK, NEW r \in Runs, NEW pc, GoTo(r, pc),
         run[r].note = "none",
         (pc \in {"asking", "finishing"}) <=> (run[r].pc = "rereading"),
         run[r].pc \in {"checking", "rechecking", "rereading", "read"},
         pc \in {"correcting", "rechecking", "read", "asking", "reserved"},
         UNCHANGED <<session, index, born, admin>>
  PROVE  StatusOK'
<1> DEFINE y == [run[r] EXCEPT !.pc = pc]
<1>1. run[r] \in RunType
  BY DEF RecordsOK
<1>2. y.pc = pc /\ y.note = run[r].note
  BY <1>1 DEF RunType
<1>3. Becomes(r, y)
  BY DEF GoTo
<1> HIDE DEF y
<1>4. Alike(run[r], y)
  BY <1>2 DEF Alike, InCourse
<1> QED
  BY <1>3, <1>4, MoverAlike

LEMMA BeginAlike ==
  ASSUME RecordsOK, StatusOK, NEW r \in Runs, Begin(r)
  PROVE  StatusOK'
<1>1. run[r].pc = "new" /\ UNCHANGED <<session, index, born, admin>>
  BY DEF Begin, blobs
<1>2. CASE Leaves(r, "refused")
  BY <1>1, <1>2, LeavesAlike DEF Leaves
<1>3. CASE Becomes(r, [run[r] EXCEPT !.seeded = session.seeded,
                         !.pc = IF session.status = "running" THEN "checking"
                                ELSE "read"])
  <2> DEFINE p == IF session.status = "running" THEN "checking" ELSE "read"
             y == [run[r] EXCEPT !.seeded = session.seeded, !.pc = p]
  <2>1. run[r] \in RunType /\ run[r].note = "none"
    BY <1>1 DEF RecordsOK, WellFormed
  <2>2. p \in {"checking", "read"}
    OBVIOUS
  <2>3. Becomes(r, y)
    BY <1>3
  <2> HIDE DEF p
  <2>4. y.pc = p /\ y.note = run[r].note
    BY <2>1 DEF RunType
  <2> HIDE DEF y
  <2>5. Alike(run[r], y)
    BY <1>1, <2>1, <2>2, <2>4 DEF Alike, InCourse
  <2> QED
    BY <1>1, <2>3, <2>5, MoverAlike
<1> QED
  BY <1>2, <1>3 DEF Begin

LEMMA ChatAlike ==
  ASSUME RecordsOK, StatusOK, NEW r \in Runs, RunChat(r)
  PROVE  StatusOK'
<1>1. /\ run[r].pc = "model" /\ run[r].note = "none" /\ run[r] \in RunType
      /\ UNCHANGED <<session, index, born, admin>>
  BY DEF RunChat, RecordsOK, blobs
<1>2. PICK outcome \in Outcomes \ {"none"} :
        Becomes(r, [run[r] EXCEPT !.outcome = outcome,
                      !.broken = outcome = "nothing",
                      !.pc = IF outcome \in {"panic", "nothing"}
                             THEN "closing" ELSE "finishing"])
  BY DEF RunChat
<1> DEFINE p == IF outcome \in {"panic", "nothing"} THEN "closing"
                ELSE "finishing"
           b == outcome = "nothing"
           y == [run[r] EXCEPT !.outcome = outcome, !.broken = b, !.pc = p]
<1>3. p \in {"closing", "finishing"}
  OBVIOUS
<1>4. Becomes(r, y)
  BY <1>2
<1> HIDE DEF p, b
<1>5. y.pc = p /\ y.note = "none"
  BY <1>1 DEF RunType
<1> HIDE DEF y
<1>6. Alike(run[r], y)
  BY <1>1, <1>3, <1>5 DEF Alike, InCourse
<1> QED
  BY <1>1, <1>4, <1>6, MoverAlike

LEMMA ReleaseAlike ==
  ASSUME RecordsOK, StatusOK, NEW r \in Runs, ReleaseLease(r)
  PROVE  StatusOK'
<1>1. /\ run[r].pc = "releasing" /\ run[r] \in RunType
      /\ UNCHANGED <<session, index, born, admin>>
  BY DEF ReleaseLease, RecordsOK
<1>2. CASE Leaves(r, "done")
  BY <1>1, <1>2, LeavesAlike DEF Leaves
<1>3. CASE Becomes(r, [run[r] EXCEPT !.tries = @ + 1])
  <2> DEFINE y == [run[r] EXCEPT !.tries = @ + 1]
  <2>1. y.pc = run[r].pc /\ y.note = run[r].note
    BY <1>1 DEF RunType
  <2> HIDE DEF y
  <2>2. Alike(run[r], y)
    BY <1>1, <2>1 DEF Alike, InCourse, StatusOK, NotesOK
  <2> QED
    BY <1>1, <1>3, <2>2, MoverAlike DEF y
<1> QED
  BY <1>2, <1>3 DEF ReleaseLease

\* Admission: the map and the lease, neither of the two blobs.
LEMMA AdmissionAlike ==
  ASSUME SharedTyped, RecordsOK, StatusOK, NEW r \in Runs,
         Reserves(r) \/ Takes(r) \/ Declines(r)
  PROVE  StatusOK'
<1>1. lease.epoch \in Nat /\ UNCHANGED <<session, index, born, admin>>
  BY DEF SharedTyped, LeaseType, Reserves, Takes, Declines, blobs
<1>2. CASE Declines(r)
  <2>1. /\ run[r].pc \in {"read", "reserved"}
        /\ Becomes(r, Left(r, "refused", 0))
    BY <1>2 DEF Declines, Leaves
  <2> QED
    BY <1>1, <2>1, LeavesAlike
<1>3. CASE Reserves(r) \/ Takes(r)
  <2>1. /\ run'[r].pc \in {"reserved", "leased"} /\ run'[r].note = run[r].note
        /\ \A q \in Runs : q # r => run'[q] = run[q]
    BY <1>1, <1>3, ReservesTyped, TakesTyped
  <2>2. run[r].pc \in {"read", "reserved"} /\ run[r].note = "none"
    BY <1>3 DEF Reserves, Takes, RecordsOK, WellFormed
  <2>3. Alike(run[r], run'[r])
    BY <2>1, <2>2 DEF Alike, InCourse
  <2>4. ASSUME NEW q \in Runs PROVE Alike(run[q], run'[q])
    <3>1. Alike(run[q], run[q])
      BY DEF Alike, StatusOK, NotesOK
    <3> QED
      BY <2>1, <2>3, <3>1
  <2> QED
    BY <1>1, <2>4, AlikeKeeps DEF StatusOK
<1> QED
  BY <1>2, <1>3

LEMMA CancelLocalAlike ==
  ASSUME RecordsOK, StatusOK, CancelLocal
  PROVE  StatusOK'
<1>1. PICK i \in Replicas :
        run' = [r \in Runs |-> IF active[i] = r
                                THEN [run[r] EXCEPT !.cancelled = TRUE]
                                ELSE run[r]]
  BY DEF CancelLocal
<1>2. ASSUME NEW r \in Runs PROVE Alike(run[r], run'[r])
  <2>1. run[r] \in RunType
    BY DEF RecordsOK
  <2>2. \/ run'[r] = [run[r] EXCEPT !.cancelled = TRUE]
        \/ run'[r] = run[r]
    BY <1>1
  <2>3. run'[r].pc = run[r].pc /\ run'[r].note = run[r].note
    BY <2>1, <2>2 DEF RunType
  <2> QED
    BY <2>3 DEF Alike, InCourse, StatusOK, NotesOK
<1>3. UNCHANGED <<session, index, born>> /\ admin'.note = "none"
  BY DEF CancelLocal, AdminDone, NoRequest, blobs
<1> QED
  BY <1>2, <1>3, AlikeKeeps

(* A write to a session that is gone: nothing is said of its status. *)
LEMMA ErrsKeeps ==
  ASSUME RecordsOK, StatusOK, NEW r \in Runs, Errs(r), ~session.there,
         UNCHANGED <<session, index, born, admin>>
  PROVE  StatusOK'
<1> DEFINE y == [run[r] EXCEPT !.pc = AfterError(r), !.broken = TRUE,
                               !.note = "none"]
<1>1. run[r] \in RunType
  BY DEF RecordsOK
<1>2. y.note = "none"
  BY <1>1 DEF RunType
<1>3. Becomes(r, y)
  BY DEF Errs
<1> HIDE DEF y
<1>4. run'[r] = y /\ \A q \in Runs : q # r => run'[q] = run[q]
  BY <1>3, StepsTo
<1>5. NotesOK'
  BY <1>2, <1>4 DEF StatusOK, NotesOK
<1> QED
  BY <1>5 DEF StatusOK

(* The first half of a write: what the session says is "running" from the
   first one to the last, and the writer notes it for the index. *)
LEMMA WriteKeeps ==
  ASSUME RecordsOK, StatusOK, Alone, born, NEW r \in Runs,
         run[r].pc \in Writing \ {"correcting"}, run[r].note = "none",
         NEW status \in Statuses,
         Becomes(r, [run[r] EXCEPT !.note = status]),
         session'.status = status, session.there,
         status = "running"
           <=> run[r].pc \in {"leased", "seeding", "rereading", "asking",
                              "finishing"},
         UNCHANGED <<index, born, admin>>
  PROVE  StatusOK'
<1>1. /\ run'[r].pc = run[r].pc /\ run'[r].note = status
      /\ \A q \in Runs : q # r => run'[q] = run[q]
  BY NoteTyped
<1>2. run'[r].pc \in Working /\ run'[r].note # "none"
  BY <1>1
<1>3. ASSUME NEW q \in Runs, q # r
      PROVE  run'[q].pc \notin Working /\ run'[q].note = "none"
  <2>1. run'[q] = run[q] /\ run[q].pc \notin Working
    BY <1>1, <1>2, <1>3 DEF Alone
  <2> QED
    BY <2>1 DEF StatusOK, NotesOK
<1>4. NotesOK'
  BY <1>1, <1>2, <1>3 DEF NotesOK
<1>5. InCourse(run'[r]) <=> status = "running"
  BY <1>1, <1>2 DEF InCourse
<1>6. ASSUME NEW q \in Runs, q # r
      PROVE  ~InCourse(run'[q])
  BY <1>3, <1>6 DEF InCourse
<1>7. session'.status = "running" <=> \E q \in Runs : InCourse(run'[q])
  BY <1>5, <1>6
<1> QED
  BY <1>2, <1>4, <1>7 DEF StatusOK, InCourse

(* ... and the second: the entry gets the status that was noted. *)
LEMMA TouchKeeps ==
  ASSUME RecordsOK, StatusOK, Alone, born, NEW r \in Runs, TouchIndex(r)
  PROVE  StatusOK'
<1> DEFINE x == run[r]
           y == [x EXCEPT !.pc = After(r), !.note = "none"]
<1>1. /\ x \in RunType /\ x.note # "none" /\ x.pc \in Working \cap Writing
      /\ x.outcome = "panic" \/ x.outcome # "panic"
  BY DEF TouchIndex, RecordsOK, WellFormed, StatusOK, NotesOK
<1>2. /\ x.pc = "leased" => After(r) \in {"asking", "seeding"}
      /\ x.pc = "seeding" => After(r) = "rereading"
      /\ x.pc = "rereading" => After(r) = "asking"
      /\ x.pc = "asking" => After(r) = "model"
      /\ x.pc = "finishing" => After(r) = "closing"
  BY DEF After
<1>3. /\ x.pc = "closing" => After(r) \in {"recovering", "release"}
      /\ x.pc = "recovering" => After(r) = "failing"
      /\ x.pc = "failing" => After(r) = "release"
  BY DEF After
<1>4. y.pc = After(r) /\ y.note = "none"
  <2> HIDE DEF x
  <2> QED
    BY <1>1 DEF RunType
<1>5. /\ Becomes(r, y)
      /\ index' = [there |-> TRUE, status |-> x.note]
      /\ UNCHANGED <<session, born, admin>>
  BY DEF TouchIndex
<1> HIDE DEF y
<1>6. run'[r] = y /\ \A q \in Runs : q # r => run'[q] = run[q]
  BY <1>5, StepsTo
<1>7. InCourse(y) <=> InCourse(x)
  BY <1>1, <1>2, <1>3, <1>4 DEF InCourse
<1>8. (\E q \in Runs : InCourse(run'[q])) <=> (\E q \in Runs : InCourse(run[q]))
  BY <1>6, <1>7
<1>9. NotesOK'
  BY <1>4, <1>5, <1>6 DEF StatusOK, NotesOK
<1>10. session.there => index'.status = session'.status
  BY <1>1, <1>5 DEF StatusOK, NotesOK
<1> QED
  BY <1>5, <1>8, <1>9, <1>10 DEF StatusOK, InCourse

\* A run's write of the session, or its error if the session is gone.
LEMMA UpdateKeeps ==
  ASSUME SharedTyped, RecordsOK, StatusOK, Alone, born, NEW r \in Runs,
         run[r].pc \in Writing \ {"correcting"},
         NEW changed, UpdateSession(r, changed),
         changed.status \in Statuses,
         session.there =>
           (changed.status = "running"
              <=> run[r].pc \in {"leased", "seeding", "rereading", "asking",
                                 "finishing"})
  PROVE  StatusOK'
<1>1. CASE ~session.there /\ Errs(r) /\ UNCHANGED session
  BY <1>1, ErrsKeeps DEF UpdateSession
<1>2. CASE /\ session.there /\ session' = changed
           /\ Becomes(r, [run[r] EXCEPT !.note = changed.status])
  BY <1>2, WriteKeeps DEF UpdateSession
<1> QED
  BY <1>1, <1>2 DEF UpdateSession

\* The two appends leave the status as they find it.
LEMMA AppendKeeps ==
  ASSUME SharedTyped, RecordsOK, StatusOK, Alone, born, NEW r \in Runs,
         Asks(r) \/ Ends(r)
  PROVE  StatusOK'
<1>1. /\ run[r].pc \in {"asking", "finishing", "recovering"}
      /\ run[r].note = "none" /\ session.there
      /\ Becomes(r, [run[r] EXCEPT !.note = session.status])
      /\ UNCHANGED <<index, born, admin>>
  BY DEF Asks, Ends, StoresTurn
<1>2. session.status \in Statuses /\ session'.status = session.status
  <2>1. session \in SessionType
    BY DEF SharedTyped
  <2> QED
    BY <2>1, ChangesTyped DEF Asks, Ends, SessionType
<1>3. ASSUME NEW q \in Runs, q # r
      PROVE  ~InCourse(run[q])
  <2>1. run[q].pc \notin Working
    BY <1>1, <1>3 DEF Alone
  <2> QED
    BY <2>1 DEF InCourse
<1>4. session.status = "running" <=> InCourse(run[r])
  BY <1>1, <1>3 DEF StatusOK
<1>5. InCourse(run[r]) <=> run[r].pc \in {"asking", "finishing"}
  BY <1>1 DEF InCourse
<1> QED
  BY <1>1, <1>2, <1>4, <1>5, WriteKeeps

LEMMA WritesKeep ==
  ASSUME SharedTyped, RecordsOK, StatusOK, Alone, born, NEW r \in Runs,
         \/ Correct(r) \/ MarkRunning(r) \/ Seed(r) \/ Reread(r) \/ SetFinal(r),
         ~fixed'
  PROVE  StatusOK'
<1> DEFINE to(st) == [session EXCEPT !.status = st]
           s1 == [session EXCEPT !.status = "running", !.seeded = TRUE]
<1>0. session \in SessionType
  BY DEF SharedTyped
<1>1. s1.status = "running" /\ \A st \in Statuses : to(st).status = st
  BY <1>0, ChangesTyped
<1> HIDE DEF s1, to
<1>2. CASE Correct(r)
  <2>1. Errs(r) /\ ~session.there /\ UNCHANGED <<session, index, born, admin>>
    BY <1>2 DEF Correct, UpdateSession
  <2> QED
    BY <2>1, ErrsKeeps
<1>3. CASE MarkRunning(r)
  <2>1. run[r].pc = "leased" /\ UpdateSession(r, to("running"))
    BY <1>3 DEF MarkRunning, to
  <2> QED
    BY <1>1, <2>1, UpdateKeeps
<1>4. CASE Seed(r)
  <2>1. run[r].pc = "seeding" /\ UpdateSession(r, s1)
    BY <1>4 DEF Seed, s1
  <2> QED
    BY <1>1, <2>1, UpdateKeeps
<1>5. CASE SetFinal(r)
  <2>1. /\ run[r].pc \in {"closing", "failing"}
        /\ UpdateSession(r, to(FinalStatus(r)))
    BY <1>5 DEF SetFinal, to
  <2>2. FinalStatus(r) \in {"idle", "failed"}
    BY DEF FinalStatus
  <2>3. to(FinalStatus(r)).status = FinalStatus(r)
    BY <1>1, <2>2
  <2> QED
    BY <2>1, <2>2, <2>3, UpdateKeeps
<1>6. CASE Reread(r)
  <2>1. CASE /\ run[r].note = "none" /\ GoTo(r, "asking")
             /\ UNCHANGED <<blobs, active, admin, happened, born, history>>
    BY <1>6, <2>1, GoesAlike DEF Reread, blobs
  <2>2. CASE /\ UpdateSession(r, to("failed"))
             /\ fixed' = (fixed \/ session.there)
    <3>1. Errs(r) /\ ~session.there /\ UNCHANGED <<session, index, born, admin>>
      BY <2>2 DEF UpdateSession
    <3> QED
      BY <3>1, ErrsKeeps
  <2> QED
    BY <1>6, <2>1, <2>2 DEF Reread, to
<1> QED
  BY <1>2, <1>3, <1>4, <1>5, <1>6

\* Beside the runs: only a new session, a reader, and deletion write.
LEMMA BesideKeepsStatus ==
  ASSUME SharedTyped, RecordsOK, BornOK, StatusOK, Beside, ~fixed'
  PROVE  StatusOK'
<1>0. UNCHANGED run /\ NoRequest.note = "none"
  BY BesideKeeps DEF NoRequest
<1>1. ASSUME UNCHANGED session, UNCHANGED index, UNCHANGED born,
             admin'.note = "none"
      PROVE  StatusOK'
  BY <1>0, <1>1 DEF StatusOK, NotesOK, InCourse
<1>2. admin \in AdminType /\ admin.note = "none"
  BY DEF SharedTyped, StatusOK
<1>3. ASSUME NEW step \in Steps, AdminTo(step)
      PROVE  admin'.note = "none"
  BY <1>2, <1>3 DEF AdminTo, AdminType
<1>4. ASSUME NEW want, NEW step, AdminStarts(want, step)
      PROVE  admin'.note = "none"
  BY <1>4 DEF AdminStarts
<1>5. AdminDone => admin'.note = "none"
  BY <1>0 DEF AdminDone
<1>6. Continue => admin'.note = "none"
  BY <1>3, <1>5 DEF Continue, Steps
<1>7. CASE Create
  <2>1. /\ ~born /\ ~born' /\ ~index'.there /\ admin'.note = "none"
        /\ session' = [NoSession EXCEPT !.there = TRUE]
    BY <1>4, <1>7 DEF Create, StatusOK
  <2>2. session'.status = "idle"
    BY <2>1 DEF NoSession
  <2>3. ASSUME NEW r \in Runs
        PROVE  run'[r].note = "none" /\ ~InCourse(run'[r])
    <3>1. run[r].pc = "new" /\ run[r].note = "none"
      BY <2>1 DEF BornOK, RecordsOK, WellFormed
    <3> QED
      BY <1>0, <3>1 DEF InCourse
  <2>4. NotesOK'
    BY <2>3 DEF NotesOK
  <2> QED
    BY <2>1, <2>2, <2>3, <2>4 DEF StatusOK, InCourse
<1>8. CASE CreateEntry
  <2>1. /\ ~born /\ born' /\ UNCHANGED session /\ admin'.note = "none"
        /\ index' = [there |-> TRUE, status |-> "idle"]
    BY <1>5, <1>8 DEF CreateEntry, BornOK
  <2>2. session'.status = "idle" /\ index'.status = "idle"
    BY <2>1 DEF StatusOK
  <2>3. NotesOK'
    BY <1>0, <2>1 DEF StatusOK, NotesOK
  <2> QED
    BY <1>0, <2>1, <2>2, <2>3 DEF StatusOK, InCourse
<1>9. CASE CreateRollback \/ Erase
  <2>1. /\ session' = NoSession /\ UNCHANGED <<index, born>>
        /\ admin'.note = "none"
    BY <1>5, <1>9 DEF CreateRollback, Erase
  <2>2. ~session'.there /\ session'.status = "idle"
    BY <2>1 DEF NoSession
  <2>3. NotesOK'
    BY <1>0, <2>2 DEF StatusOK, NotesOK
  <2> QED
    BY <2>1, <2>2, <2>3 DEF StatusOK
<1>10. CASE Evict \/ Unlist
  <2>1. UNCHANGED <<session, born>> /\ index' = NoEntry /\ admin'.note = "none"
    BY <1>3, <1>4, <1>5, <1>10 DEF Evict, Unlist, Steps
  <2>2. ~index'.there
    BY <2>1 DEF NoEntry
  <2>3. NotesOK'
    BY <1>0, <2>1 DEF StatusOK, NotesOK
  <2> QED
    BY <1>0, <2>1, <2>2, <2>3 DEF StatusOK, InCourse
<1>11. CASE Get \/ List \/ Delete \/ RequestCancel
  BY <1>1, <1>4, <1>11 DEF Get, List, Delete, RequestCancel, blobs
<1>12. CASE AdminCheck \/ DeleteCheck
  BY <1>1, <1>3, <1>5, <1>6, <1>12 DEF AdminCheck, DeleteCheck, blobs, Steps
<1>13. CASE AdminCorrect
  BY <1>1, <1>5, <1>13 DEF AdminCorrect
<1>14. CASE AdminTouch
  BY <1>2, <1>14 DEF AdminTouch
<1>15. CASE AdminRelist
  BY <1>1, <1>6, <1>15 DEF AdminRelist
<1>16. CASE Unlease
  BY <1>1, <1>3, <1>16 DEF Unlease, Steps
<1>17. CASE AdminFails
  BY <1>1, <1>3, <1>5, <1>17 DEF AdminFails, blobs, Steps
<1>18. CASE LapseUnrenewed \/ LapseUnderRun
  BY <1>1, <1>2, <1>18 DEF LapseUnrenewed, LapseUnderRun
<1> QED
  BY <1>7, <1>8, <1>9, <1>10, <1>11, <1>12, <1>13, <1>14, <1>15, <1>16,
     <1>17, <1>18 DEF Beside, AdminRequests, AdminSteps

\* Events are not undone, and what a reader corrected stays corrected.
LEMMA EventsKept ==
  ASSUME NEW kind, Event(kind)
  PROVE  happened \subseteq happened'
BY DEF Event

LEMMA RunCalm ==
  ASSUME NEW r \in Runs,
         \/ Moving(r) \/ Asks(r) \/ Ends(r) \/ Misses(r)
         \/ Reserves(r) \/ Takes(r) \/ Declines(r)
  PROVE  /\ fixed => fixed'
         /\ lost \subseteq lost' /\ happened \subseteq happened'
<1>1. CASE UNCHANGED <<fixed, lost, happened>>
  BY <1>1
<1>2. ASSUME UNCHANGED <<lost, happened>>,
             fixed' = fixed \/ fixed' = (fixed \/ session.there)
      PROVE  /\ fixed => fixed'
             /\ lost \subseteq lost' /\ happened \subseteq happened'
  <2>1. fixed => fixed'
    BY <1>2, Zenon
  <2> QED
    BY <1>2, <2>1
<1>3. CASE Correct(r) \/ MarkRunning(r) \/ Seed(r) \/ SetFinal(r) \/ Reread(r)
  <2>1. UNCHANGED <<lost, happened>>
    BY <1>3 DEF Correct, MarkRunning, Seed, SetFinal, Reread, UpdateSession,
                history
  <2>2. fixed' = fixed \/ fixed' = (fixed \/ session.there)
    BY <1>3, Zenon DEF Correct, MarkRunning, Seed, SetFinal, Reread, history
  <2> QED
    BY <1>2, <2>1, <2>2
<1>4. CASE ReleaseLease(r)
  <2>1. /\ happened' = happened \/ Event("reply")
        /\ lost' = lost \/ lost' = lost \cup Holders
        /\ fixed' = fixed
    BY <1>4 DEF ReleaseLease, DropLease
  <2>2. happened \subseteq happened'
    BY <2>1, EventsKept
  <2>3. lost \subseteq lost'
    BY <2>1
  <2> QED
    BY <2>1, <2>2, <2>3
<1>5. CASE RunTimeout(r) \/ StoreFails(r)
  <2>1. /\ Event("timeout") \/ Event("fault")
        /\ UNCHANGED <<lost, fixed>>
    BY <1>5 DEF RunTimeout, StoreFails, history
  <2>2. happened \subseteq happened'
    BY <2>1, EventsKept
  <2>3. lost \subseteq lost'
    BY <2>1
  <2> QED
    BY <2>1, <2>2, <2>3
<1>6. CASE \/ Begin(r) \/ CheckLease(r) \/ TouchIndex(r) \/ RunChat(r)
           \/ Forget(r) \/ RenewLease(r)
  BY <1>1, <1>6 DEF Begin, CheckLease, TouchIndex, RunChat, Forget,
                    RenewLease, history
<1>7. CASE \/ Asks(r) \/ Ends(r) \/ Misses(r)
           \/ Reserves(r) \/ Takes(r) \/ Declines(r)
  BY <1>1, <1>7 DEF Asks, Ends, StoresTurn, Misses, Reserves, Takes,
                    Declines, history
<1> QED
  BY <1>3, <1>4, <1>5, <1>6, <1>7 DEF Moving

LEMMA BesideCalm ==
  ASSUME Beside \/ CancelLocal \/ \E i \in Replicas : Kill(i)
  PROVE  /\ fixed => fixed'
         /\ lost \subseteq lost' /\ happened \subseteq happened'
<1>0. ASSUME NEW want, NEW step, AdminStarts(want, step)
      PROVE  happened \subseteq happened'
  BY <1>0, EventsKept DEF AdminStarts
<1>1. CASE AdminRequests
  <2>1. UNCHANGED <<lost, fixed>>
    BY <1>1 DEF AdminRequests, Create, Get, List, Delete, Evict,
                RequestCancel, RunsKeep
  <2>2. \E want, step : AdminStarts(want, step)
    BY <1>1 DEF AdminRequests, Create, Get, List, Delete, Evict,
                RequestCancel
  <2>3. happened \subseteq happened'
    BY <1>0, <2>2
  <2> QED
    BY <2>1, <2>3
<1>2. CASE AdminSteps
  <2>1. fixed => fixed'
    BY <1>2 DEF AdminSteps, CreateEntry, CreateRollback, AdminCheck,
                AdminCorrect, AdminTouch, AdminRelist, DeleteCheck, Unlist,
                Unlease, Erase, CancelLocal, history
  <2>2. UNCHANGED happened
    BY <1>2 DEF AdminSteps, CreateEntry, CreateRollback, AdminCheck,
                AdminCorrect, AdminTouch, AdminRelist, DeleteCheck, Unlist,
                Unlease, Erase, CancelLocal
  <2>3. lost' = lost \/ lost' = lost \cup Holders
    BY <1>2 DEF AdminSteps, CreateEntry, CreateRollback, AdminCheck,
                AdminCorrect, AdminTouch, AdminRelist, DeleteCheck, Unlist,
                Unlease, DropLease, Erase, CancelLocal, RunsKeep, history
  <2>4. lost \subseteq lost'
    BY <2>3
  <2> QED
    BY <2>1, <2>2, <2>4
<1>3. CASE AdminFails
  <2>1. Event("fault") /\ UNCHANGED <<lost, fixed>>
    BY <1>3 DEF AdminFails, RunsKeep
  <2>2. happened \subseteq happened'
    BY <2>1, EventsKept
  <2> QED
    BY <2>1, <2>2
<1>4. CASE LapseUnrenewed \/ LapseUnderRun
  <2>1. /\ happened' = happened \/ Event("lapse")
        /\ lost' = lost \/ lost' = lost \cup Holders
        /\ fixed' = fixed
    BY <1>4 DEF LapseUnrenewed, LapseUnderRun, history
  <2>2. happened \subseteq happened'
    BY <2>1, EventsKept
  <2>3. lost \subseteq lost'
    BY <2>1
  <2> QED
    BY <2>1, <2>2, <2>3
<1>5. CASE \E i \in Replicas : Kill(i)
  <2>1. Event("kill") /\ UNCHANGED <<lost, fixed>>
    BY <1>5 DEF Kill, history
  <2>2. happened \subseteq happened'
    BY <2>1, EventsKept
  <2>3. lost \subseteq lost'
    BY <2>1
  <2> QED
    BY <2>1, <2>2, <2>3
<1> QED
  BY <1>1, <1>2, <1>3, <1>4, <1>5 DEF Beside, AdminSteps

LEMMA CalmBefore ==
  ASSUME SharedTyped, Next, Calm'
  PROVE  Calm
<1>1. session \in SessionType
  BY DEF SharedTyped
<1>2. /\ fixed => fixed'
      /\ lost \subseteq lost' /\ happened \subseteq happened'
  BY <1>1, RunCalm, BesideCalm, StepCases
<1> QED
  BY <1>2 DEF Calm

LEMMA MovingKeepsStatus ==
  ASSUME SharedTyped, RecordsOK, StatusOK, Alone, born, NEW r \in Runs,
         Moving(r) \/ Misses(r), Calm'
  PROVE  StatusOK'
<1>0. ~fixed' /\ happened' \cap {"kill", "fault"} = {}
  BY DEF Calm
<1>1. CASE Begin(r)
  BY <1>1, BeginAlike
<1>2. CASE CheckLease(r)
  <2>1. /\ run[r].pc \in {"checking", "rechecking"} /\ run[r].note = "none"
        /\ UNCHANGED <<session, index, born, admin>>
        /\ \E pc \in {"correcting", "rechecking", "read"} : GoTo(r, pc)
    BY <1>2 DEF CheckLease, RecordsOK, WellFormed, blobs
  <2> QED
    BY <2>1, GoesAlike
<1>3. CASE \/ Correct(r) \/ MarkRunning(r) \/ Seed(r) \/ Reread(r)
           \/ SetFinal(r)
  BY <1>0, <1>3, WritesKeep
<1>4. CASE TouchIndex(r)
  BY <1>4, TouchKeeps
<1>5. CASE RunChat(r)
  BY <1>5, ChatAlike
<1>6. CASE Forget(r)
  BY <1>6, LeavesAlike DEF Forget, blobs
<1>7. CASE ReleaseLease(r)
  BY <1>7, ReleaseAlike
<1>8. CASE RenewLease(r)
  <2>1. UNCHANGED <<session, index, born, admin>> /\ (Stops(r) \/ UNCHANGED run)
    BY <1>8 DEF RenewLease
  <2>2. CASE UNCHANGED run
    BY <2>1, <2>2 DEF StatusOK, NotesOK, InCourse
  <2> QED
    BY <2>1, <2>2, StopsAlike
<1>9. CASE RunTimeout(r)
  BY <1>9, StopsAlike DEF RunTimeout, blobs
<1>10. CASE StoreFails(r)
  BY <1>0, <1>10 DEF StoreFails, Event
<1>11. CASE Misses(r)
  <2>1. /\ ~session.there /\ Errs(r)
        /\ UNCHANGED <<session, index, born, admin>>
    BY <1>11 DEF Misses
  <2> QED
    BY <2>1, ErrsKeeps
<1> QED
  BY <1>1, <1>2, <1>3, <1>4, <1>5, <1>6, <1>7, <1>8, <1>9, <1>10, <1>11
     DEF Moving

LEMMA StatusStep ==
  ASSUME SharedTyped, RecordsOK, BornOK, Calm => StatusOK, Calm => Alone,
         Next, Calm'
  PROVE  StatusOK'
<1>0. /\ session \in SessionType /\ Calm /\ StatusOK /\ Alone /\ ~fixed'
      /\ happened' \cap {"kill", "fault"} = {}
  BY CalmBefore DEF SharedTyped, Calm
<1>1. ASSUME NEW r \in Runs,
             \/ Moving(r) \/ Asks(r) \/ Ends(r) \/ Misses(r)
             \/ Reserves(r) \/ Takes(r) \/ Declines(r)
      PROVE  StatusOK'
  <2>1. born
    BY <1>1, NotNew DEF BornOK
  <2>2. CASE Moving(r) \/ Misses(r)
    BY <1>0, <2>1, <2>2, MovingKeepsStatus
  <2>3. CASE Asks(r) \/ Ends(r)
    BY <1>0, <2>1, <2>3, AppendKeeps
  <2>4. CASE Reserves(r) \/ Takes(r) \/ Declines(r)
    BY <1>0, <2>4, AdmissionAlike
  <2> QED
    BY <1>1, <2>2, <2>3, <2>4
<1>2. CASE Beside
  BY <1>0, <1>2, BesideKeepsStatus
<1>3. CASE CancelLocal
  BY <1>0, <1>3, CancelLocalAlike
<1>4. CASE \E i \in Replicas : Kill(i)
  BY <1>0, <1>4 DEF Kill, Event
<1> QED
  BY <1>0, <1>1, <1>2, <1>3, <1>4, StepCases

LEMMA StatusInvariance == Spec => [](Calm => StatusOK)
<1>1. Init => StatusOK
  <2>1. SUFFICES ASSUME Init PROVE StatusOK
    OBVIOUS
  <2>2. /\ session = NoSession /\ index = NoEntry /\ admin = NoRequest
        /\ born = FALSE
    BY <2>1 DEF Init
  <2>3. /\ ~session.there /\ session.status = "idle" /\ ~index.there
        /\ admin.note = "none"
    BY <2>2 DEF NoSession, NoEntry, NoRequest
  <2>4. ASSUME NEW r \in Runs PROVE run[r].note = "none"
    <3>1. run[r] \in {NewRun(i) : i \in Replicas}
      BY <2>1 DEF Init
    <3> QED
      BY <3>1 DEF NewRun
  <2>5. NotesOK
    BY <2>4 DEF NotesOK
  <2> QED
    BY <2>3, <2>5 DEF StatusOK
<1>2. ReservedOK /\ HeldOK => (Calm => Alone)
  BY HeldAlone DEF Calm
<1>3. /\ SharedTyped /\ RecordsOK /\ BornOK /\ (Calm => Alone)
      /\ (Calm => StatusOK) /\ [Next]_vars
      => (Calm => StatusOK)'
  <2>1. SUFFICES ASSUME SharedTyped, RecordsOK, BornOK, Calm => Alone,
                        Calm => StatusOK, [Next]_vars, Calm'
                 PROVE  StatusOK'
    OBVIOUS
  <2>2. CASE Next
    BY <2>1, <2>2, StatusStep
  <2>3. CASE UNCHANGED vars
    BY <2>1, <2>3 DEF vars, blobs, history, Calm, StatusOK, NotesOK, InCourse
  <2> QED
    BY <2>1, <2>2, <2>3
<1> QED
  BY <1>1, <1>2, <1>3, ExchangeInvariance, PTL DEF Spec

(* As long as no reader corrects, no lease is lost and nothing fails, the
   session is running exactly from a run's first write to its last, whatever
   the replicas, the requests, the deletions and the cancels between them, and
   once the writers have touched the index it says the same. *)
THEOREM StatusTellsAlways == Spec => []StatusTells
<1>1. RecordsOK /\ (Calm => StatusOK) => StatusTells
  <2>1. SUFFICES ASSUME RecordsOK, Calm => StatusOK, Untroubled, session.there,
                        \A r \in Runs : run[r].note = "none"
                 PROVE  /\ session.status = "running" => \E r \in Runs : AtWork(r)
                        /\ (\E r \in Runs : Marked(r))
                             => session.status = "running"
                        /\ index.there => index.status = session.status
    BY DEF StatusTells
  <2>2. StatusOK
    BY <2>1 DEF Untroubled, Calm
  <2>3. session.status = "running" <=> \E r \in Runs : InCourse(run[r])
    BY <2>1, <2>2 DEF StatusOK
  <2>4. \A r \in Runs : /\ InCourse(run[r]) => AtWork(r)
                        /\ Marked(r) => InCourse(run[r])
    BY DEF InCourse, AtWork, Marked
  <2>5. index.there => index.status = session.status
    BY <2>1, <2>2 DEF StatusOK
  <2> QED
    BY <2>3, <2>4, <2>5
<1> QED
  BY <1>1, Invariance, StatusInvariance, PTL
=============================================================================
