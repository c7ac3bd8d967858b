--------------------------- MODULE Threads_proofs ---------------------------
(***************************************************************************)
(* What the coordinator's log and its notes promise, for any number of     *)
(* threads, calls and messages, of closes and of ends of the process.      *)
(***************************************************************************)
EXTENDS Threads, FiniteSetTheorems, TLAPS

SessionAts == Away \cup {"tracked", "recovering", "open", "closing", "dead"}
Phases == {"idle", "live", "ending", "finishing"}
Causes == {"none", "done", "user", "shutdown", "error"}
Unbegun == {"none", "listing", "steering", "starting"}
CallAts == Unbegun \cup {"recording", "waiting"} \cup InEnding \cup {"over", "failed", "gone"}

SessionRecord == [at : SessionAts, by : Nat, phase : Phases, turn : Nat, cause : Causes]
CallRecord ==
  [at : CallAts, thread : Sessions, turn : Nat, childTurn : Nat, cause : Causes, tries : Nat, stale : BOOLEAN,
   met : SUBSET Nat]
SendRecord == [at : {"none", "checking", "starting", "over", "gone"}, to : Sessions]

ThreadsTypeOK ==
  /\ sess \in [Sessions -> SessionRecord]
  /\ call \in [Calls -> CallRecord]
  /\ send \in [Sends -> SendRecord]
  /\ starts \subseteq Calls /\ unclosed \subseteq Calls /\ left \subseteq Calls
  /\ ends \in [Calls -> Nat] /\ notes \in [Calls -> Nat]
  /\ closes \in Nat /\ faults \in Nat

-----------------------------------------------------------------------------
(* The inductive invariant.                                                *)

(* A run that the log shows as going on is waited for, or its end could    *)
(* not be written, or the coordinator is away and its recovery, which      *)
(* reads the log, is still to come, or has read it and has still to close  *)
(* the run.                                                                *)
Unread == {"closing", "dead", "closed", "opening", "tracked"}
Tended ==
  /\ sess[Coordinator].at # "absent"
  /\ \A k \in starts :
       \/ ends[k] > 0 \/ call[k].at \in Awaited \/ k \in left
       \/ sess[Coordinator].at \in Unread
       \/ sess[Coordinator].at = "recovering" /\ k \in unclosed

(* Only a call that has come past its record is in the log.                *)
Recorded == \A k \in starts : call[k].at \notin Unbegun \cup {"recording"}

(* The turn of a thread knows when it is over why it ended.                *)
TurnsCounted ==
  \A s \in Sessions :
    /\ sess[s].phase # "idle" => sess[s].turn > 0
    /\ s # Coordinator /\ sess[s].phase \in {"ending", "finishing"} => sess[s].cause \in {"done", "user", "shutdown"}
    /\ sess[s].cause # "error"

(* A turn is the turn of the call that started it, which waits for it; no  *)
(* later turn is.  So why a run ended is settled once.                     *)
OwnTurn ==
  \A k \in Calls :
    /\ call[k].childTurn <= sess[call[k].thread].turn
    /\ call[k].at \in Unbegun => call[k].childTurn = 0 /\ call[k].cause = "none"
    /\ OfTurn(k, call[k].thread) /\ call[k].thread # Coordinator /\ sess[call[k].thread].phase # "idle" =>
         call[k].at \in {"recording", "waiting", "gone"} /\ call[k].cause = "none"
    /\ call[k].at \in InEnding => call[k].cause # "none"

(* Who is about to wake the coordinator has a reason to, and has not.      *)
Due(k) == call[k].cause \in {"done", "error"} /\ (k \in starts => ends[k] > 0)
WakesForReason ==
  \A k \in Calls :
    /\ call[k].at \in {"reaching"} \cup Waking => Due(k)
    /\ notes[k] > 0 => notes[k] = 1 /\ call[k].at = "over" /\ Due(k)

(* Until the coordinator is closed for the first time nobody holds a dead  *)
(* entry of it.                                                            *)
NeverClosed ==
  closes = 0 => sess[Coordinator].at \notin {"closing", "dead"} /\ \A k \in Calls : ~call[k].stale

(* Every turn costs a note two attempts: one that found the turn begun     *)
(* when it wanted to start its own, and one that found it ending.          *)
Met(k) == sess[Coordinator].phase # "idle" /\ sess[Coordinator].turn \in call[k].met
Paid(k) ==
  /\ call[k].met \subseteq 1..sess[Coordinator].turn
  /\ call[k].at \notin Waking \cup {"over", "failed", "gone"} => call[k].tries = 0 /\ call[k].met = {}
  /\ closes = 0 =>
       /\ call[k].tries <= 2 * Cardinality(call[k].met)
       /\ call[k].at = "waking" /\ Met(k) => call[k].tries + 1 <= 2 * Cardinality(call[k].met)
       /\ call[k].at = "wakeStart" => ~Met(k)
       /\ call[k].at = "over" /\ call[k].cause \in {"done", "error"} /\ notes[k] = 0 => call[k].tries >= WakeAttempts
AttemptsPaid == \A k \in Calls : Paid(k)

ThreadsInv ==
  /\ ThreadsTypeOK /\ Tended /\ Recorded /\ TurnsCounted /\ OwnTurn /\ WakesForReason /\ NeverClosed /\ AttemptsPaid
-----------------------------------------------------------------------------
(* The labels that the actions write.                                      *)
LEMMA Names ==
  /\ {"absent", "closed", "opening", "tracked", "recovering", "open", "closing", "dead"} \subseteq SessionAts
  /\ {"idle", "live", "ending", "finishing"} \subseteq Phases
  /\ {"none", "done", "user", "shutdown", "error"} \subseteq Causes
  /\ {"none", "listing", "steering", "starting", "recording", "waiting", "ended", "reading", "appending", "reaching",
      "waking", "wakeWait", "wakeStart", "over", "failed", "gone"} \subseteq CallAts
BY DEF SessionAts, Away, Phases, Causes, CallAts, Unbegun, InEnding, Waking

(* Records with new fields.                                                *)
LEMMA CallUpdates ==
  \A r \in CallRecord :
    /\ \A b \in BOOLEAN : [r EXCEPT !.stale = b] \in CallRecord
    /\ \A a \in CallAts : [r EXCEPT !.at = a] \in CallRecord
    /\ \A a \in CallAts, b \in BOOLEAN : [r EXCEPT !.at = a, !.stale = b] \in CallRecord
    /\ \A a \in CallAts, t \in Sessions : [r EXCEPT !.at = a, !.thread = t] \in CallRecord
    /\ \A a \in CallAts, t \in Sessions, n \in Nat : [r EXCEPT !.at = a, !.thread = t, !.turn = n] \in CallRecord
    /\ \A a \in CallAts, c \in Causes : [r EXCEPT !.cause = c, !.at = a] \in CallRecord
    /\ \A n \in Nat, c \in Causes : [r EXCEPT !.cause = c, !.childTurn = n] \in CallRecord
    /\ \A a \in CallAts, n \in Nat : [r EXCEPT !.at = a, !.childTurn = n] \in CallRecord
    /\ \A a \in CallAts, n \in Nat, m \in SUBSET Nat : [r EXCEPT !.at = a, !.tries = n, !.met = m] \in CallRecord
BY DEF CallRecord

LEMMA SessionUpdates ==
  \A r \in SessionRecord :
    /\ \A p \in Phases, n \in Nat, c \in Causes : [r EXCEPT !.phase = p, !.turn = n, !.cause = c] \in SessionRecord
    /\ \A p \in Phases, c \in Causes : [r EXCEPT !.phase = p, !.cause = c] \in SessionRecord
    /\ \A a \in SessionAts, n \in Nat : [r EXCEPT !.at = a, !.by = n] \in SessionRecord
    /\ \A a \in SessionAts, n \in Nat, c \in Causes : [r EXCEPT !.at = a, !.by = n, !.cause = c] \in SessionRecord
BY DEF SessionRecord

LEMMA BegunType ==
  ASSUME ThreadsTypeOK, NEW s \in Sessions
  PROVE  Begun(s) \in [Sessions -> SessionRecord]
<1>1. sess \in [Sessions -> SessionRecord]
  BY DEF ThreadsTypeOK
<1>2. sess[s].turn + 1 \in Nat
  BY <1>1 DEF SessionRecord
<1>3. (IF sess[s].at = "closing" THEN "shutdown" ELSE "none") \in Causes
  BY DEF Causes
<1>4. "live" \in Phases
  BY DEF Phases
<1> QED BY <1>1, <1>2, <1>3, <1>4, SessionUpdates DEF Begun

(* What a note has met is finite; a turn it has met already counts once.   *)
LEMMA OneMore ==
  ASSUME NEW n \in Nat, NEW S \in SUBSET (1..n), NEW t
  PROVE  /\ Cardinality(S) \in Nat
         /\ Cardinality(S \cup {t}) = IF t \in S THEN Cardinality(S) ELSE Cardinality(S) + 1
<1>1. IsFiniteSet(1..n)
  BY FS_Interval
<1>2. IsFiniteSet(S)
  BY <1>1, FS_Subset
<1> QED BY <1>2, FS_CardinalityType, FS_AddElement

(* An attempt of wake fails. *)
LEMMA FailedAttempt ==
  ASSUME ThreadsTypeOK, NEW k \in Calls, NEW at \in CallAts
  PROVE  /\ Failed(k, at) \in CallRecord
         /\ Failed(k, at).at = IF call[k].tries + 1 = WakeAttempts THEN "over" ELSE at
         /\ Failed(k, at).tries = call[k].tries + 1
         /\ Failed(k, at).met = call[k].met \cup {sess[Coordinator].turn}
         /\ Failed(k, at).thread = call[k].thread /\ Failed(k, at).childTurn = call[k].childTurn
         /\ Failed(k, at).cause = call[k].cause /\ Failed(k, at).stale = call[k].stale
<1> DEFINE a == IF call[k].tries + 1 = WakeAttempts THEN "over" ELSE at
           n == call[k].tries + 1
           m == call[k].met \cup {sess[Coordinator].turn}
<1>1. call[k] \in CallRecord /\ sess[Coordinator] \in SessionRecord
  BY DEF ThreadsTypeOK, Sessions
<1>2. a \in CallAts
  BY Names
<1>3. n \in Nat
  BY <1>1 DEF CallRecord
<1>4. m \in SUBSET Nat
  BY <1>1 DEF CallRecord, SessionRecord
<1>5. Failed(k, at) = [call[k] EXCEPT !.at = a, !.tries = n, !.met = m]
  BY DEF Failed
<1> HIDE DEF a, n, m
<1>6. /\ Failed(k, at).at = a /\ Failed(k, at).tries = n /\ Failed(k, at).met = m
      /\ Failed(k, at).thread = call[k].thread /\ Failed(k, at).childTurn = call[k].childTurn
      /\ Failed(k, at).cause = call[k].cause /\ Failed(k, at).stale = call[k].stale
  BY <1>1, <1>5 DEF CallRecord
<1>7. Failed(k, at) \in CallRecord
  BY <1>1, <1>2, <1>3, <1>4, <1>5 DEF CallRecord
<1> QED BY <1>6, <1>7 DEF a, n, m

-----------------------------------------------------------------------------
(* One lemma per action. *)

(* ensureSession opens a closed session. *)
LEMMA OpenKeeps ==
  ASSUME ThreadsInv, NEW s \in Sessions, NEW j, Open(s, j)
  PROVE  ThreadsInv'
<1> USE ThreadsAssumption DEF ThreadsInv, ThreadsTypeOK, Sessions, Coordinator, NoOne, Open, logs, bounds
<1>1. ThreadsTypeOK'
  <2>1. sess' \in [Sessions -> SessionRecord]
    BY Names DEF SessionRecord
  <2>2. call' \in [Calls -> CallRecord]
    BY Names DEF CallRecord
  <2>3. /\ send' \in [Sends -> SendRecord]
        /\ starts' \subseteq Calls /\ unclosed' \subseteq Calls /\ left' \subseteq Calls
        /\ ends' \in [Calls -> Nat] /\ notes' \in [Calls -> Nat]
        /\ closes' \in Nat /\ faults' \in Nat
    BY DEF SendRecord
  <2> QED BY <2>1, <2>2, <2>3
<1>2. Tended'
  BY DEF Tended, Awaited, Unread, Recorded, Unbegun, Away, SessionRecord, CallRecord
<1>3. Recorded'
  BY DEF Recorded, Unbegun, SessionRecord, CallRecord
<1>4. TurnsCounted'
  BY DEF TurnsCounted, SessionRecord, CallRecord
<1>5. OwnTurn'
  BY DEF OwnTurn, OfTurn, Unbegun, InEnding, Waking, TurnsCounted, SessionRecord, CallRecord
<1>6. WakesForReason'
  BY DEF WakesForReason, Due, Waking, OwnTurn, OfTurn, Recorded, InEnding, Unbegun, SessionRecord, CallRecord
<1>7. NeverClosed'
  BY DEF NeverClosed, Waking, SessionRecord, CallRecord
<1>8. AttemptsPaid'
  BY DEF AttemptsPaid, Paid, Met, Waking, NeverClosed, Due, OwnTurn, OfTurn, Unbegun, InEnding,
     TurnsCounted, WakesForReason, SessionRecord, CallRecord
<1> QED BY <1>1, <1>2, <1>3, <1>4, <1>5, <1>6, <1>7, <1>8

(* The session is open; the coordinator has still its recovery before it. *)
LEMMA OpenedKeeps ==
  ASSUME ThreadsInv, NEW s \in Sessions, Opened(s)
  PROVE  ThreadsInv'
<1> USE ThreadsAssumption DEF ThreadsInv, ThreadsTypeOK, Sessions, Coordinator, NoOne, Opened, logs, bounds
<1>1. ThreadsTypeOK'
  <2>1. sess' \in [Sessions -> SessionRecord]
    BY Names DEF SessionRecord
  <2>2. call' \in [Calls -> CallRecord]
    BY Names DEF CallRecord
  <2>3. /\ send' \in [Sends -> SendRecord]
        /\ starts' \subseteq Calls /\ unclosed' \subseteq Calls /\ left' \subseteq Calls
        /\ ends' \in [Calls -> Nat] /\ notes' \in [Calls -> Nat]
        /\ closes' \in Nat /\ faults' \in Nat
    BY DEF SendRecord
  <2> QED BY <2>1, <2>2, <2>3
<1>2. Tended'
  BY DEF Tended, Awaited, Unread, Recorded, Unbegun, Away, SessionRecord, CallRecord
<1>3. Recorded'
  BY DEF Recorded, Unbegun, SessionRecord, CallRecord
<1>4. TurnsCounted'
  BY DEF TurnsCounted, SessionRecord, CallRecord
<1>5. OwnTurn'
  BY DEF OwnTurn, OfTurn, Unbegun, InEnding, Waking, TurnsCounted, SessionRecord, CallRecord
<1>6. WakesForReason'
  BY DEF WakesForReason, Due, Waking, OwnTurn, OfTurn, Recorded, InEnding, Unbegun, SessionRecord, CallRecord
<1>7. NeverClosed'
  BY DEF NeverClosed, Waking, SessionRecord, CallRecord
<1>8. AttemptsPaid'
  <2>1. sess'[Coordinator].turn = sess[Coordinator].turn /\ sess'[Coordinator].phase = sess[Coordinator].phase
    BY DEF SessionRecord
  <2> QED BY <2>1 DEF AttemptsPaid, Paid, Met
<1> QED BY <1>1, <1>2, <1>3, <1>4, <1>5, <1>6, <1>7, <1>8

(* The recovery reads what runs the log shows as going on. *)
LEMMA ReadRunsKeeps ==
  ASSUME ThreadsInv, ReadRuns
  PROVE  ThreadsInv'
<1> USE ThreadsAssumption DEF ThreadsInv, ThreadsTypeOK, Sessions, Coordinator, NoOne, ReadRuns, logs, bounds
<1>1. ThreadsTypeOK'
  <2>1. sess' \in [Sessions -> SessionRecord]
    BY Names DEF SessionRecord
  <2>2. call' \in [Calls -> CallRecord]
    BY Names DEF CallRecord
  <2>3. /\ send' \in [Sends -> SendRecord]
        /\ starts' \subseteq Calls /\ unclosed' \subseteq Calls /\ left' \subseteq Calls
        /\ ends' \in [Calls -> Nat] /\ notes' \in [Calls -> Nat]
        /\ closes' \in Nat /\ faults' \in Nat
    BY DEF SendRecord
  <2> QED BY <2>1, <2>2, <2>3
<1>2. Tended'
  BY DEF Tended, Awaited, Unread, Recorded, Unbegun, Away, SessionRecord, CallRecord
<1>3. Recorded'
  BY DEF Recorded, Unbegun, SessionRecord, CallRecord
<1>4. TurnsCounted'
  BY DEF TurnsCounted, SessionRecord, CallRecord
<1>5. OwnTurn'
  BY DEF OwnTurn, OfTurn, Unbegun, InEnding, Waking, TurnsCounted, SessionRecord, CallRecord
<1>6. WakesForReason'
  BY DEF WakesForReason, Due, Waking, OwnTurn, OfTurn, Recorded, InEnding, Unbegun, SessionRecord, CallRecord
<1>7. NeverClosed'
  BY DEF NeverClosed, Waking, SessionRecord, CallRecord
<1>8. AttemptsPaid'
  BY DEF AttemptsPaid, Paid, Met, Waking, NeverClosed, Due, OwnTurn, OfTurn, Unbegun, InEnding,
     TurnsCounted, WakesForReason, SessionRecord, CallRecord
<1> QED BY <1>1, <1>2, <1>3, <1>4, <1>5, <1>6, <1>7, <1>8

(* The recovery writes an end. *)
LEMMA CloseRunKeeps ==
  ASSUME ThreadsInv, NEW k \in Calls, CloseRun(k)
  PROVE  ThreadsInv'
<1> USE ThreadsAssumption DEF ThreadsInv, ThreadsTypeOK, Sessions, Coordinator, NoOne, CloseRun, logs, bounds
<1>1. ThreadsTypeOK'
  <2>1. sess' \in [Sessions -> SessionRecord]
    BY Names DEF SessionRecord
  <2>2. call' \in [Calls -> CallRecord]
    BY Names DEF CallRecord
  <2>3. /\ send' \in [Sends -> SendRecord]
        /\ starts' \subseteq Calls /\ unclosed' \subseteq Calls /\ left' \subseteq Calls
        /\ ends' \in [Calls -> Nat] /\ notes' \in [Calls -> Nat]
        /\ closes' \in Nat /\ faults' \in Nat
    BY DEF SendRecord
  <2> QED BY <2>1, <2>2, <2>3
<1>2. Tended'
  BY DEF Tended, Awaited, Unread, Recorded, Unbegun, Away, SessionRecord, CallRecord
<1>3. Recorded'
  BY DEF Recorded, Unbegun, SessionRecord, CallRecord
<1>4. TurnsCounted'
  BY DEF TurnsCounted, SessionRecord, CallRecord
<1>5. OwnTurn'
  BY DEF OwnTurn, OfTurn, Unbegun, InEnding, Waking, TurnsCounted, SessionRecord, CallRecord
<1>6. WakesForReason'
  BY DEF WakesForReason, Due, Waking, OwnTurn, OfTurn, Recorded, InEnding, Unbegun, SessionRecord, CallRecord
<1>7. NeverClosed'
  BY DEF NeverClosed, Waking, SessionRecord, CallRecord
<1>8. AttemptsPaid'
  BY DEF AttemptsPaid, Paid, Met, Waking, NeverClosed, Due, OwnTurn, OfTurn, Unbegun, InEnding,
     TurnsCounted, WakesForReason, SessionRecord, CallRecord
<1> QED BY <1>1, <1>2, <1>3, <1>4, <1>5, <1>6, <1>7, <1>8

(* The recovery is over when no run is left to close. *)
LEMMA RecoveredKeeps ==
  ASSUME ThreadsInv, Recovered
  PROVE  ThreadsInv'
<1>a. sess' \in [Sessions -> SessionRecord]
  <2>1. [sess[Coordinator] EXCEPT !.at = "open", !.by = NoOne] \in SessionRecord
    <3>1. sess[Coordinator] \in SessionRecord /\ "open" \in SessionAts /\ NoOne \in Nat
      BY Names DEF ThreadsInv, ThreadsTypeOK, Sessions, Coordinator, NoOne
    <3> QED BY <3>1, SessionUpdates
  <2>2. sess' = [sess EXCEPT ![Coordinator] = [sess[Coordinator] EXCEPT !.at = "open", !.by = NoOne]]
    BY DEF Recovered, ThreadsInv, ThreadsTypeOK, Sessions, Coordinator
  <2>3. sess \in [Sessions -> SessionRecord]
    BY DEF ThreadsInv, ThreadsTypeOK
  <2> QED BY <2>1, <2>2, <2>3
<1> USE ThreadsAssumption DEF ThreadsInv, ThreadsTypeOK, Sessions, Coordinator, NoOne, Recovered, logs, bounds
<1>1. ThreadsTypeOK'
  <2>1. sess' \in [Sessions -> SessionRecord]
    BY <1>a
  <2>2. call' \in [Calls -> CallRecord]
    BY Names DEF CallRecord
  <2>3. /\ send' \in [Sends -> SendRecord]
        /\ starts' \subseteq Calls /\ unclosed' \subseteq Calls /\ left' \subseteq Calls
        /\ ends' \in [Calls -> Nat] /\ notes' \in [Calls -> Nat]
        /\ closes' \in Nat /\ faults' \in Nat
    BY DEF SendRecord
  <2> QED BY <2>1, <2>2, <2>3
<1>2. Tended'
  BY DEF Tended, Awaited, Unread, Recorded, Unbegun, Away, SessionRecord, CallRecord
<1>3. Recorded'
  BY DEF Recorded, Unbegun, SessionRecord, CallRecord
<1>4. TurnsCounted'
  BY DEF TurnsCounted, SessionRecord, CallRecord
<1>5. OwnTurn'
  BY DEF OwnTurn, OfTurn, Unbegun, InEnding, Waking, TurnsCounted, SessionRecord, CallRecord
<1>6. WakesForReason'
  BY DEF WakesForReason, Due, Waking, OwnTurn, OfTurn, Recorded, InEnding, Unbegun, SessionRecord, CallRecord
<1>7. NeverClosed'
  BY DEF NeverClosed, Waking, SessionRecord, CallRecord
<1>8. AttemptsPaid'
  BY DEF AttemptsPaid, Paid, Met, Waking, NeverClosed, Due, OwnTurn, OfTurn, Unbegun, InEnding,
     TurnsCounted, WakesForReason, SessionRecord, CallRecord
<1> QED BY <1>1, <1>2, <1>3, <1>4, <1>5, <1>6, <1>7, <1>8

(* The recovery gives up: what it was to close is left to the next one. *)
LEMMA RecoveryFailsKeeps ==
  ASSUME ThreadsInv, RecoveryFails
  PROVE  ThreadsInv'
<1>a. sess' \in [Sessions -> SessionRecord]
  <2>1. [sess[Coordinator] EXCEPT !.at = "open", !.by = NoOne] \in SessionRecord
    <3>1. sess[Coordinator] \in SessionRecord /\ "open" \in SessionAts /\ NoOne \in Nat
      BY Names DEF ThreadsInv, ThreadsTypeOK, Sessions, Coordinator, NoOne
    <3> QED BY <3>1, SessionUpdates
  <2>2. sess' = [sess EXCEPT ![Coordinator] = [sess[Coordinator] EXCEPT !.at = "open", !.by = NoOne]]
    BY DEF RecoveryFails, ThreadsInv, ThreadsTypeOK, Sessions, Coordinator
  <2>3. sess \in [Sessions -> SessionRecord]
    BY DEF ThreadsInv, ThreadsTypeOK
  <2> QED BY <2>1, <2>2, <2>3
<1> USE ThreadsAssumption DEF ThreadsInv, ThreadsTypeOK, Sessions, Coordinator, NoOne, RecoveryFails, logs, bounds
<1>1. ThreadsTypeOK'
  <2>1. sess' \in [Sessions -> SessionRecord]
    BY <1>a
  <2>2. call' \in [Calls -> CallRecord]
    BY Names DEF CallRecord
  <2>3. /\ send' \in [Sends -> SendRecord]
        /\ starts' \subseteq Calls /\ unclosed' \subseteq Calls /\ left' \subseteq Calls
        /\ ends' \in [Calls -> Nat] /\ notes' \in [Calls -> Nat]
        /\ closes' \in Nat /\ faults' \in Nat
    BY DEF SendRecord
  <2> QED BY <2>1, <2>2, <2>3
<1>2. Tended'
  BY DEF Tended, Awaited, Unread, Recorded, Unbegun, Away, SessionRecord, CallRecord
<1>3. Recorded'
  BY DEF Recorded, Unbegun, SessionRecord, CallRecord
<1>4. TurnsCounted'
  BY DEF TurnsCounted, SessionRecord, CallRecord
<1>5. OwnTurn'
  BY DEF OwnTurn, OfTurn, Unbegun, InEnding, Waking, TurnsCounted, SessionRecord, CallRecord
<1>6. WakesForReason'
  BY DEF WakesForReason, Due, Waking, OwnTurn, OfTurn, Recorded, InEnding, Unbegun, SessionRecord, CallRecord
<1>7. NeverClosed'
  BY DEF NeverClosed, Waking, SessionRecord, CallRecord
<1>8. AttemptsPaid'
  BY DEF AttemptsPaid, Paid, Met, Waking, NeverClosed, Due, OwnTurn, OfTurn, Unbegun, InEnding,
     TurnsCounted, WakesForReason, SessionRecord, CallRecord
<1> QED BY <1>1, <1>2, <1>3, <1>4, <1>5, <1>6, <1>7, <1>8

(* closeSession: the coordinator is away from here on. *)
LEMMA CloseSessionKeeps ==
  ASSUME ThreadsInv, NEW s \in Sessions, CloseSession(s)
  PROVE  ThreadsInv'
<1>a. sess' \in [Sessions -> SessionRecord]
  <2>1. sess \in [Sessions -> SessionRecord] /\ sess' = [sess EXCEPT ![s] = Shutting(sess[s])]
    BY DEF CloseSession, ThreadsInv, ThreadsTypeOK
  <2>2. Shutting(sess[s]) \in SessionRecord
    <3> DEFINE a == IF sess[s].phase = "idle" THEN "dead" ELSE "closing"
               c == IF sess[s].phase = "live" THEN "shutdown" ELSE sess[s].cause
    <3>1. sess[s] \in SessionRecord
      BY <2>1
    <3>2. a \in SessionAts /\ c \in Causes /\ NoOne \in Nat
      BY <3>1, Names DEF SessionRecord, NoOne
    <3>3. Shutting(sess[s]) = [sess[s] EXCEPT !.at = a, !.by = NoOne, !.cause = c]
      BY <3>1 DEF Shutting, SessionRecord
    <3> HIDE DEF a, c
    <3>4. [sess[s] EXCEPT !.at = a, !.by = NoOne, !.cause = c] \in SessionRecord
      BY <3>1, <3>2, SessionUpdates
    <3> QED BY <3>3, <3>4
  <2> QED BY <2>1, <2>2
<1> USE ThreadsAssumption DEF ThreadsInv, ThreadsTypeOK, Sessions, Coordinator, NoOne, CloseSession, logs, bounds
<1>1. ThreadsTypeOK'
  <2>1. sess' \in [Sessions -> SessionRecord]
    BY <1>a
  <2>2. call' \in [Calls -> CallRecord]
    BY Names DEF CallRecord, Shutting
  <2>3. /\ send' \in [Sends -> SendRecord]
        /\ starts' \subseteq Calls /\ unclosed' \subseteq Calls /\ left' \subseteq Calls
        /\ ends' \in [Calls -> Nat] /\ notes' \in [Calls -> Nat]
        /\ closes' \in Nat /\ faults' \in Nat
    BY DEF SendRecord, Shutting
  <2> QED BY <2>1, <2>2, <2>3
<1>2. Tended'
  BY DEF Tended, Awaited, Unread, Recorded, Unbegun, Away, SessionRecord, CallRecord, Shutting
<1>3. Recorded'
  BY DEF Recorded, Unbegun, SessionRecord, CallRecord, Shutting
<1>4. TurnsCounted'
  BY DEF TurnsCounted, SessionRecord, CallRecord, Shutting
<1>5. OwnTurn'
  BY DEF OwnTurn, OfTurn, Unbegun, InEnding, Waking, TurnsCounted, SessionRecord, CallRecord, Shutting
<1>6. WakesForReason'
  BY DEF WakesForReason, Due, Waking, OwnTurn, OfTurn, Recorded, InEnding, Unbegun, SessionRecord,
     CallRecord, Shutting
<1>7. NeverClosed'
  BY DEF NeverClosed, Waking, SessionRecord, CallRecord, Shutting
<1>8. AttemptsPaid'
  BY DEF AttemptsPaid, Paid, Met, Waking, NeverClosed, Due, OwnTurn, OfTurn, Unbegun, InEnding,
     TurnsCounted, WakesForReason, SessionRecord, CallRecord, Shutting
<1> QED BY <1>1, <1>2, <1>3, <1>4, <1>5, <1>6, <1>7, <1>8

(* The agent of a session that closes is closed when its turn is over. *)
LEMMA CloseAgentKeeps ==
  ASSUME ThreadsInv, NEW s \in Sessions, CloseAgent(s)
  PROVE  ThreadsInv'
<1> USE ThreadsAssumption DEF ThreadsInv, ThreadsTypeOK, Sessions, Coordinator, NoOne, CloseAgent, logs, bounds
<1>1. ThreadsTypeOK'
  <2>1. sess' \in [Sessions -> SessionRecord]
    BY Names DEF SessionRecord
  <2>2. call' \in [Calls -> CallRecord]
    BY Names DEF CallRecord
  <2>3. /\ send' \in [Sends -> SendRecord]
        /\ starts' \subseteq Calls /\ unclosed' \subseteq Calls /\ left' \subseteq Calls
        /\ ends' \in [Calls -> Nat] /\ notes' \in [Calls -> Nat]
        /\ closes' \in Nat /\ faults' \in Nat
    BY DEF SendRecord
  <2> QED BY <2>1, <2>2, <2>3
<1>2. Tended'
  BY DEF Tended, Awaited, Unread, Recorded, Unbegun, Away, SessionRecord, CallRecord
<1>3. Recorded'
  BY DEF Recorded, Unbegun, SessionRecord, CallRecord
<1>4. TurnsCounted'
  BY DEF TurnsCounted, SessionRecord, CallRecord
<1>5. OwnTurn'
  BY DEF OwnTurn, OfTurn, Unbegun, InEnding, Waking, TurnsCounted, SessionRecord, CallRecord
<1>6. WakesForReason'
  BY DEF WakesForReason, Due, Waking, OwnTurn, OfTurn, Recorded, InEnding, Unbegun, SessionRecord, CallRecord
<1>7. NeverClosed'
  BY DEF NeverClosed, Waking, SessionRecord, CallRecord
<1>8. AttemptsPaid'
  BY DEF AttemptsPaid, Paid, Met, Waking, NeverClosed, Due, OwnTurn, OfTurn, Unbegun, InEnding,
     TurnsCounted, WakesForReason, SessionRecord, CallRecord
<1> QED BY <1>1, <1>2, <1>3, <1>4, <1>5, <1>6, <1>7, <1>8

(* Whoever held the entry of a closed session holds a dead one. *)
LEMMA SessionClosedKeeps ==
  ASSUME ThreadsInv, NEW s \in Sessions, SessionClosed(s)
  PROVE  ThreadsInv'
<1> USE ThreadsAssumption DEF ThreadsInv, ThreadsTypeOK, Sessions, Coordinator, NoOne, SessionClosed, logs, bounds
<1>1. ThreadsTypeOK'
  <2>1. sess' \in [Sessions -> SessionRecord]
    BY Names DEF SessionRecord, Stale
  <2>2. call' \in [Calls -> CallRecord]
    BY CallUpdates DEF Stale
  <2>3. /\ send' \in [Sends -> SendRecord]
        /\ starts' \subseteq Calls /\ unclosed' \subseteq Calls /\ left' \subseteq Calls
        /\ ends' \in [Calls -> Nat] /\ notes' \in [Calls -> Nat]
        /\ closes' \in Nat /\ faults' \in Nat
    BY DEF SendRecord, Stale
  <2> QED BY <2>1, <2>2, <2>3
<1>2. Tended'
  BY DEF Tended, Awaited, Unread, Recorded, Unbegun, Away, SessionRecord, CallRecord, Stale
<1>3. Recorded'
  BY DEF Recorded, Unbegun, SessionRecord, CallRecord, Stale
<1>4. TurnsCounted'
  BY DEF TurnsCounted, SessionRecord, CallRecord, Stale
<1>5. OwnTurn'
  BY DEF OwnTurn, OfTurn, Unbegun, InEnding, Waking, TurnsCounted, SessionRecord, CallRecord, Stale
<1>6. WakesForReason'
  BY DEF WakesForReason, Due, Waking, OwnTurn, OfTurn, Recorded, InEnding, Unbegun, SessionRecord,
     CallRecord, Stale
<1>7. NeverClosed'
  BY DEF NeverClosed, Waking, SessionRecord, CallRecord, Stale
<1>8. AttemptsPaid'
  BY DEF AttemptsPaid, Paid, Met, Waking, NeverClosed, Due, OwnTurn, OfTurn, Unbegun, InEnding,
     TurnsCounted, WakesForReason, SessionRecord, CallRecord, Stale
<1> QED BY <1>1, <1>2, <1>3, <1>4, <1>5, <1>6, <1>7, <1>8

(* The process ends, and with it every call. *)
LEMMA RestartKeeps ==
  ASSUME ThreadsInv, Restart
  PROVE  ThreadsInv'
<1> USE ThreadsAssumption DEF ThreadsInv, Sessions, Coordinator, NoOne, logs, bounds
<1>a. \A s \in Sessions : /\ sess'[s].turn = sess[s].turn /\ sess'[s].phase \in {"idle", sess[s].phase}
                          /\ sess'[s].cause \in {"none", sess[s].cause} /\ sess'[s].at \in {sess[s].at, "closed"}
                          /\ sess[s].at = "absent" => sess'[s] = sess[s]
                          /\ sess[s].at # "absent" => sess'[s].at = "closed" /\ sess'[s].phase = "idle"
  BY DEF ThreadsTypeOK, Restart, SessionRecord
<1>b. \A q \in Calls : /\ call'[q].thread = call[q].thread /\ call'[q].childTurn = call[q].childTurn
                       /\ call'[q].cause = call[q].cause /\ call'[q].tries = call[q].tries
                       /\ call'[q].stale = call[q].stale /\ call'[q].met = call[q].met
                       /\ call'[q].at = IF call[q].at \in {"none", "over", "failed"} THEN call[q].at ELSE "gone"
  BY DEF ThreadsTypeOK, Restart, CallRecord, Gone
<1>c. /\ starts' = starts /\ ends' = ends /\ notes' = notes /\ closes' = closes /\ starts \subseteq Calls
      /\ unclosed' = {} /\ left' = left /\ left \subseteq Calls /\ faults' = faults + 1
  BY DEF Restart, ThreadsTypeOK
<1>d. \A q \in Calls : call[q].thread \in Sessions
  BY DEF ThreadsTypeOK, CallRecord
<1>1. ThreadsTypeOK'
  <2>1. sess' \in [Sessions -> SessionRecord]
    BY Names DEF ThreadsTypeOK, Restart, SessionRecord
  <2>2. call' \in [Calls -> CallRecord]
    <3> SUFFICES ASSUME NEW q \in Calls PROVE [call[q] EXCEPT !.at = Gone(@)] \in CallRecord
      BY DEF Restart
    <3>1. Gone(call[q].at) \in CallAts
      BY Names DEF Gone
    <3> QED BY <3>1 DEF ThreadsTypeOK, CallRecord
  <2>3. send' \in [Sends -> SendRecord]
    <3> SUFFICES ASSUME NEW m \in Sends PROVE [send[m] EXCEPT !.at = Gone(@)] \in SendRecord
      BY DEF Restart
    <3> QED BY DEF ThreadsTypeOK, SendRecord, Gone
  <2>4. closes' \in Nat /\ faults' \in Nat /\ unclosed' \subseteq Calls
    BY <1>c DEF ThreadsTypeOK
  <2> QED BY <2>1, <2>2, <2>3, <2>4, <1>c DEF ThreadsTypeOK
<1>2. Tended'
  BY <1>a, <1>c DEF Tended, Awaited, Unread
<1>3. Recorded'
  BY <1>b, <1>c DEF Recorded, Unbegun
<1>4. TurnsCounted'
  BY <1>a DEF TurnsCounted
<1>5. OwnTurn'
  BY <1>a, <1>b, <1>d DEF OwnTurn, OfTurn, Unbegun, InEnding, Waking
<1>6. WakesForReason'
  BY <1>b, <1>c DEF WakesForReason, Due, Waking
<1>7. NeverClosed'
  BY <1>a, <1>b, <1>c DEF NeverClosed
<1>8. AttemptsPaid'
  BY <1>a, <1>b, <1>c DEF AttemptsPaid, Paid, Met, Waking
<1> QED BY <1>1, <1>2, <1>3, <1>4, <1>5, <1>6, <1>7, <1>8

(* Why a turn ended is settled when it takes no more messages. *)
LEMMA StopAcceptingKeeps ==
  ASSUME ThreadsInv, NEW s \in Sessions, NEW c \in {"done", "user"}, StopAccepting(s, c)
  PROVE  ThreadsInv'
<1> USE ThreadsAssumption DEF ThreadsInv, ThreadsTypeOK, Sessions, Coordinator, NoOne, StopAccepting, logs, bounds
<1>1. ThreadsTypeOK'
  <2>1. sess' \in [Sessions -> SessionRecord]
    BY Names DEF SessionRecord
  <2>2. call' \in [Calls -> CallRecord]
    BY Names DEF CallRecord
  <2>3. /\ send' \in [Sends -> SendRecord]
        /\ starts' \subseteq Calls /\ unclosed' \subseteq Calls /\ left' \subseteq Calls
        /\ ends' \in [Calls -> Nat] /\ notes' \in [Calls -> Nat]
        /\ closes' \in Nat /\ faults' \in Nat
    BY DEF SendRecord
  <2> QED BY <2>1, <2>2, <2>3
<1>2. Tended'
  BY DEF Tended, Awaited, Unread, Recorded, Unbegun, Away, SessionRecord, CallRecord
<1>3. Recorded'
  BY DEF Recorded, Unbegun, SessionRecord, CallRecord
<1>4. TurnsCounted'
  BY DEF TurnsCounted, SessionRecord, CallRecord
<1>5. OwnTurn'
  BY DEF OwnTurn, OfTurn, Unbegun, InEnding, Waking, TurnsCounted, SessionRecord, CallRecord
<1>6. WakesForReason'
  BY DEF WakesForReason, Due, Waking, OwnTurn, OfTurn, Recorded, InEnding, Unbegun, SessionRecord, CallRecord
<1>7. NeverClosed'
  BY DEF NeverClosed, Waking, SessionRecord, CallRecord
<1>8. AttemptsPaid'
  <2>1. /\ sess'[Coordinator].turn = sess[Coordinator].turn
        /\ sess'[Coordinator].phase # "idle" => sess[Coordinator].phase # "idle"
    BY DEF SessionRecord
  <2> QED BY <2>1 DEF AttemptsPaid, Paid, Met, Due
<1> QED BY <1>1, <1>2, <1>3, <1>4, <1>5, <1>6, <1>7, <1>8

(* turn.end is out. *)
LEMMA EndTurnKeeps ==
  ASSUME ThreadsInv, NEW s \in Sessions, EndTurn(s)
  PROVE  ThreadsInv'
<1> USE ThreadsAssumption DEF ThreadsInv, ThreadsTypeOK, Sessions, Coordinator, NoOne, EndTurn, logs, bounds
<1>1. ThreadsTypeOK'
  <2>1. sess' \in [Sessions -> SessionRecord]
    BY Names DEF SessionRecord
  <2>2. call' \in [Calls -> CallRecord]
    BY Names DEF CallRecord
  <2>3. /\ send' \in [Sends -> SendRecord]
        /\ starts' \subseteq Calls /\ unclosed' \subseteq Calls /\ left' \subseteq Calls
        /\ ends' \in [Calls -> Nat] /\ notes' \in [Calls -> Nat]
        /\ closes' \in Nat /\ faults' \in Nat
    BY DEF SendRecord
  <2> QED BY <2>1, <2>2, <2>3
<1>2. Tended'
  BY DEF Tended, Awaited, Unread, Recorded, Unbegun, Away, SessionRecord, CallRecord
<1>3. Recorded'
  BY DEF Recorded, Unbegun, SessionRecord, CallRecord
<1>4. TurnsCounted'
  BY DEF TurnsCounted, SessionRecord, CallRecord
<1>5. OwnTurn'
  BY DEF OwnTurn, OfTurn, Unbegun, InEnding, Waking, TurnsCounted, SessionRecord, CallRecord
<1>6. WakesForReason'
  BY DEF WakesForReason, Due, Waking, OwnTurn, OfTurn, Recorded, InEnding, Unbegun, SessionRecord, CallRecord
<1>7. NeverClosed'
  BY DEF NeverClosed, Waking, SessionRecord, CallRecord
<1>8. AttemptsPaid'
  BY DEF AttemptsPaid, Paid, Met, Waking, NeverClosed, Due, OwnTurn, OfTurn, Unbegun, InEnding,
     TurnsCounted, WakesForReason, SessionRecord, CallRecord
<1> QED BY <1>1, <1>2, <1>3, <1>4, <1>5, <1>6, <1>7, <1>8

(* The call that started the turn learns why it ended. *)
LEMMA TurnDoneKeeps ==
  ASSUME ThreadsInv, NEW s \in Sessions, TurnDone(s)
  PROVE  ThreadsInv'
<1> USE ThreadsAssumption DEF ThreadsInv, Sessions, Coordinator, NoOne, logs, bounds
<1>a. \A u \in Sessions : /\ sess'[u].turn = sess[u].turn /\ sess'[u].at = sess[u].at /\ sess'[u].by = sess[u].by
                          /\ sess'[u].phase = (IF u = s THEN "idle" ELSE sess[u].phase)
                          /\ sess'[u].cause = (IF u = s THEN "none" ELSE sess[u].cause)
  BY DEF ThreadsTypeOK, TurnDone, SessionRecord
<1>b. \A q \in Calls : /\ call'[q].thread = call[q].thread /\ call'[q].childTurn = call[q].childTurn
                       /\ call'[q].turn = call[q].turn /\ call'[q].tries = call[q].tries
                       /\ call'[q].stale = call[q].stale /\ call'[q].met = call[q].met
  BY DEF ThreadsTypeOK, TurnDone, CallRecord
<1>c. \A q \in Calls : \/ call'[q].at = call[q].at /\ call'[q].cause = call[q].cause
                          /\ (s = Coordinator \/ ~OfTurn(q, s))
                       \/ /\ s # Coordinator /\ OfTurn(q, s) /\ call'[q].cause = sess[s].cause
                          /\ call'[q].at = (IF call[q].at = "waiting" THEN "ended" ELSE call[q].at)
  BY DEF ThreadsTypeOK, TurnDone, CallRecord
<1>d. /\ starts' = starts /\ ends' = ends /\ notes' = notes /\ closes' = closes /\ starts \subseteq Calls
      /\ unclosed' = unclosed /\ left' = left /\ left \subseteq Calls /\ sess[s].phase = "finishing"
  BY DEF TurnDone, ThreadsTypeOK
<1>e. \A q \in Calls : call[q].thread \in Sessions
  BY DEF ThreadsTypeOK, CallRecord
<1>f. \A q \in Calls : s # Coordinator /\ OfTurn(q, s) =>
        call[q].at \in {"recording", "waiting", "gone"} /\ call[q].cause = "none" /\ notes[q] = 0
  BY <1>d, <1>e DEF OwnTurn, OfTurn, WakesForReason, ThreadsTypeOK
<1>g. s # Coordinator => sess[s].cause \in {"done", "user", "shutdown"}
  BY <1>d DEF TurnsCounted
<1>1. ThreadsTypeOK'
  <2>1. sess' \in [Sessions -> SessionRecord]
    <3>1. sess \in [Sessions -> SessionRecord] /\ sess[s] \in SessionRecord /\ sess[s].turn \in Nat
      BY DEF ThreadsTypeOK, SessionRecord
    <3>2. [sess[s] EXCEPT !.phase = "idle", !.cause = "none"] \in SessionRecord
      BY <3>1, Names, SessionUpdates
    <3>3. sess' = [sess EXCEPT ![s] = [sess[s] EXCEPT !.phase = "idle", !.cause = "none"]]
      BY <3>1 DEF TurnDone
    <3> QED BY <3>1, <3>2, <3>3
  <2>2. call' \in [Calls -> CallRecord]
    <3>1. sess[s].cause \in Causes
      BY DEF ThreadsTypeOK, SessionRecord
    <3>2. ASSUME NEW q \in Calls
          PROVE  [call[q] EXCEPT !.cause = sess[s].cause, !.at = IF @ = "waiting" THEN "ended" ELSE @] \in CallRecord
      <4>1. call[q] \in CallRecord /\ (IF call[q].at = "waiting" THEN "ended" ELSE call[q].at) \in CallAts
        BY Names DEF ThreadsTypeOK, CallRecord
      <4> QED BY <3>1, <4>1, CallUpdates
    <3> QED BY <3>2 DEF TurnDone, ThreadsTypeOK
  <2> QED BY <1>d, <2>1, <2>2 DEF ThreadsTypeOK, TurnDone
<1>2. Tended'
  BY <1>a, <1>c, <1>d DEF Tended, Awaited, Unread
<1>3. Recorded'
  BY <1>c, <1>d DEF Recorded, Unbegun
<1>4. TurnsCounted'
  BY <1>a DEF TurnsCounted
<1>5. OwnTurn'
  BY <1>a, <1>b, <1>c, <1>e, <1>f, <1>g DEF OwnTurn, OfTurn, Unbegun, InEnding, Waking
<1>6. WakesForReason'
  BY <1>b, <1>c, <1>d, <1>f DEF WakesForReason, Due, Waking
<1>7. NeverClosed'
  BY <1>a, <1>b, <1>d DEF NeverClosed
<1>8. AttemptsPaid'
  BY <1>a, <1>b, <1>c, <1>d, <1>f DEF AttemptsPaid, Paid, Met, Waking
<1> QED BY <1>1, <1>2, <1>3, <1>4, <1>5, <1>6, <1>7, <1>8

(* A message of the user comes in. *)
LEMMA SendKeeps ==
  ASSUME ThreadsInv, NEW m \in Sends, NEW s \in Sessions, Send(m, s)
  PROVE  ThreadsInv'
<1> USE ThreadsAssumption DEF ThreadsInv, ThreadsTypeOK, Sessions, Coordinator, NoOne, Send, logs, bounds
<1>1. ThreadsTypeOK'
  <2>1. sess' \in [Sessions -> SessionRecord]
    BY Names DEF SessionRecord
  <2>2. call' \in [Calls -> CallRecord]
    BY Names DEF CallRecord
  <2>3. /\ send' \in [Sends -> SendRecord]
        /\ starts' \subseteq Calls /\ unclosed' \subseteq Calls /\ left' \subseteq Calls
        /\ ends' \in [Calls -> Nat] /\ notes' \in [Calls -> Nat]
        /\ closes' \in Nat /\ faults' \in Nat
    BY DEF SendRecord
  <2> QED BY <2>1, <2>2, <2>3
<1>2. Tended'
  BY DEF Tended, Awaited, Unread, Recorded, Unbegun, Away, SessionRecord, CallRecord
<1>3. Recorded'
  BY DEF Recorded, Unbegun, SessionRecord, CallRecord
<1>4. TurnsCounted'
  BY DEF TurnsCounted, SessionRecord, CallRecord
<1>5. OwnTurn'
  BY DEF OwnTurn, OfTurn, Unbegun, InEnding, Waking, TurnsCounted, SessionRecord, CallRecord
<1>6. WakesForReason'
  BY DEF WakesForReason, Due, Waking, OwnTurn, OfTurn, Recorded, InEnding, Unbegun, SessionRecord, CallRecord
<1>7. NeverClosed'
  BY DEF NeverClosed, Waking, SessionRecord, CallRecord
<1>8. AttemptsPaid'
  BY DEF AttemptsPaid, Paid, Met, Waking, NeverClosed, Due, OwnTurn, OfTurn, Unbegun, InEnding,
     TurnsCounted, WakesForReason, SessionRecord, CallRecord
<1> QED BY <1>1, <1>2, <1>3, <1>4, <1>5, <1>6, <1>7, <1>8

(* The message joins the running turn, or will start one. *)
LEMMA SendCheckKeeps ==
  ASSUME ThreadsInv, NEW m \in Sends, SendCheck(m)
  PROVE  ThreadsInv'
<1> USE ThreadsAssumption DEF ThreadsInv, ThreadsTypeOK, Sessions, Coordinator, NoOne, SendCheck, logs, bounds
<1>1. ThreadsTypeOK'
  <2>1. sess' \in [Sessions -> SessionRecord]
    BY Names DEF SessionRecord, Reach
  <2>2. call' \in [Calls -> CallRecord]
    BY Names DEF CallRecord, Reach
  <2>3. /\ send' \in [Sends -> SendRecord]
        /\ starts' \subseteq Calls /\ unclosed' \subseteq Calls /\ left' \subseteq Calls
        /\ ends' \in [Calls -> Nat] /\ notes' \in [Calls -> Nat]
        /\ closes' \in Nat /\ faults' \in Nat
    BY DEF SendRecord, Reach
  <2> QED BY <2>1, <2>2, <2>3
<1>2. Tended'
  BY DEF Tended, Awaited, Unread, Recorded, Unbegun, Away, SessionRecord, CallRecord, Reach
<1>3. Recorded'
  BY DEF Recorded, Unbegun, SessionRecord, CallRecord, Reach
<1>4. TurnsCounted'
  BY DEF TurnsCounted, SessionRecord, CallRecord, Reach
<1>5. OwnTurn'
  BY DEF OwnTurn, OfTurn, Unbegun, InEnding, Waking, TurnsCounted, SessionRecord, CallRecord, Reach
<1>6. WakesForReason'
  BY DEF WakesForReason, Due, Waking, OwnTurn, OfTurn, Recorded, InEnding, Unbegun, SessionRecord,
     CallRecord, Reach
<1>7. NeverClosed'
  BY DEF NeverClosed, Waking, SessionRecord, CallRecord, Reach
<1>8. AttemptsPaid'
  BY DEF AttemptsPaid, Paid, Met, Waking, NeverClosed, Due, OwnTurn, OfTurn, Unbegun, InEnding,
     TurnsCounted, WakesForReason, SessionRecord, CallRecord, Reach
<1> QED BY <1>1, <1>2, <1>3, <1>4, <1>5, <1>6, <1>7, <1>8

(* The message starts a turn that is no call's. *)
LEMMA SendStartKeeps ==
  ASSUME ThreadsInv, NEW m \in Sends, SendStart(m)
  PROVE  ThreadsInv'
<1> DEFINE s == send[m].to
<1>1. /\ ThreadsTypeOK /\ Tended /\ Recorded /\ TurnsCounted /\ OwnTurn /\ WakesForReason /\ NeverClosed /\ AttemptsPaid
      /\ s \in Sessions /\ sess \in [Sessions -> SessionRecord] /\ call \in [Calls -> CallRecord]
  BY DEF ThreadsInv, ThreadsTypeOK, SendRecord
<1>2. /\ UNCHANGED <<call, starts, unclosed, left, ends, notes, closes, faults>>
      /\ send' = [send EXCEPT ![m].at = "over"]
      /\ sess' = sess \/ (sess[s].phase = "idle" /\ sess' = Begun(s))
  BY DEF SendStart, logs, bounds
<1>3. /\ \A q \in Sessions : sess'[q].at = sess[q].at
      /\ \A q \in Sessions :
           \/ sess'[q] = sess[q]
           \/ /\ q = s /\ sess[q].phase = "idle" /\ sess'[q].phase = "live" /\ sess'[q].turn = sess[q].turn + 1
              /\ sess'[q].cause \in {"shutdown", "none"}
  BY <1>1, <1>2 DEF Begun, SessionRecord
<1>4. \A q \in Sessions : sess[q].turn \in Nat
  BY <1>1 DEF SessionRecord
<1>5. \A k \in Calls : call[k].thread \in Sessions /\ call[k].childTurn \in Nat
  BY <1>1 DEF CallRecord
<1>6. Coordinator \in Sessions
  BY DEF Coordinator, Sessions
<1> HIDE DEF s
<1>7. ThreadsTypeOK'
  <2>1. sess' \in [Sessions -> SessionRecord]
    BY <1>1, <1>2, BegunType
  <2>2. send' \in [Sends -> SendRecord]
    BY <1>1, <1>2 DEF ThreadsTypeOK, SendRecord
  <2> QED BY <1>1, <1>2, <2>1, <2>2 DEF ThreadsTypeOK
<1>8. Tended'
  BY <1>1, <1>2, <1>3, <1>6 DEF Tended, Awaited
<1>9. Recorded'
  BY <1>1, <1>2 DEF Recorded
<1>10. TurnsCounted'
  BY <1>1, <1>3, <1>4 DEF TurnsCounted
<1>11. OwnTurn'
  BY <1>1, <1>2, <1>3, <1>4, <1>5 DEF OwnTurn, OfTurn, Unbegun, InEnding
<1>12. WakesForReason'
  BY <1>1, <1>2 DEF WakesForReason, Due
<1>13. NeverClosed'
  BY <1>1, <1>2, <1>3, <1>6 DEF NeverClosed
<1>14. AttemptsPaid'
  <2>1. /\ sess'[Coordinator].turn \in {sess[Coordinator].turn, sess[Coordinator].turn + 1}
        /\ sess'[Coordinator].turn = sess[Coordinator].turn => sess'[Coordinator].phase = sess[Coordinator].phase
    BY <1>3, <1>4, <1>6
  <2>2. sess[Coordinator].turn \in Nat
    BY <1>4, <1>6
  <2> QED BY <1>1, <1>2, <2>1, <2>2 DEF AttemptsPaid, Paid, Met
<1> QED BY <1>7, <1>8, <1>9, <1>10, <1>11, <1>12, <1>13, <1>14 DEF ThreadsInv

(* start_thread is called. *)
LEMMA StartThreadKeeps ==
  ASSUME ThreadsInv, NEW k \in Calls, StartThread(k)
  PROVE  ThreadsInv'
<1> USE ThreadsAssumption DEF ThreadsInv, ThreadsTypeOK, Sessions, Coordinator, NoOne, StartThread, logs, bounds
<1>1. ThreadsTypeOK'
  <2>1. sess' \in [Sessions -> SessionRecord]
    BY Names DEF SessionRecord, MayCall, Called
  <2>2. call' \in [Calls -> CallRecord]
    <3>1. /\ call \in [Calls -> CallRecord] /\ {"over", "listing"} \subseteq CallAts /\ Coordinator \in Sessions
          /\ sess[Coordinator].turn \in Nat
      BY Names DEF SessionRecord
    <3>2. CASE call' = [call EXCEPT ![k].at = "over"]
      BY <3>1, <3>2, CallUpdates
    <3>3. CASE call' = Called(k, "listing", Coordinator)
      BY <3>1, <3>3, CallUpdates DEF Called
    <3> QED BY <3>2, <3>3
  <2>3. /\ send' \in [Sends -> SendRecord]
        /\ starts' \subseteq Calls /\ unclosed' \subseteq Calls /\ left' \subseteq Calls
        /\ ends' \in [Calls -> Nat] /\ notes' \in [Calls -> Nat]
        /\ closes' \in Nat /\ faults' \in Nat
    BY DEF SendRecord, MayCall, Called
  <2> QED BY <2>1, <2>2, <2>3
<1>2. Tended'
  BY DEF Tended, Awaited, Unread, Recorded, Unbegun, Away, SessionRecord, CallRecord, MayCall, Called
<1>3. Recorded'
  BY DEF Recorded, Unbegun, SessionRecord, CallRecord, MayCall, Called
<1>4. TurnsCounted'
  BY DEF TurnsCounted, SessionRecord, CallRecord, MayCall, Called
<1>5. OwnTurn'
  BY DEF OwnTurn, OfTurn, Unbegun, InEnding, Waking, TurnsCounted, SessionRecord, CallRecord, MayCall, Called
<1>6. WakesForReason'
  <2>1. \A q \in Calls : /\ q # k => call'[q] = call[q]
                         /\ call'[k].at \in {"over", "listing"} /\ call[k].at = "none" /\ k \notin starts
                         /\ call'[k].cause = call[k].cause
    BY DEF CallRecord, MayCall, Called, Recorded, Unbegun
  <2> QED BY <2>1 DEF WakesForReason, Due, Waking
<1>7. NeverClosed'
  BY DEF NeverClosed, Waking, SessionRecord, CallRecord, MayCall, Called
<1>8. AttemptsPaid'
  <2>1. \A q \in Calls : /\ q # k => call'[q] = call[q]
                         /\ call'[k].at \in {"over", "listing"} /\ call[k].at = "none"
                         /\ call'[k].cause = "none"
                         /\ call'[k].tries = call[k].tries /\ call'[k].met = call[k].met
    BY DEF CallRecord, MayCall, Called, OwnTurn, Unbegun
  <2> QED BY <2>1 DEF AttemptsPaid, Paid, Met, Due, Waking
<1> QED BY <1>1, <1>2, <1>3, <1>4, <1>5, <1>6, <1>7, <1>8

(* The session of the new thread is made. *)
LEMMA CreateThreadKeeps ==
  ASSUME ThreadsInv, NEW k \in Calls, NEW t \in Thread, CreateThread(k, t)
  PROVE  ThreadsInv'
<1> USE ThreadsAssumption DEF ThreadsInv, ThreadsTypeOK, Sessions, Coordinator, NoOne, CreateThread, logs, bounds
<1>1. ThreadsTypeOK'
  <2>1. sess' \in [Sessions -> SessionRecord]
    BY Names DEF SessionRecord, FirstAbsent
  <2>2. call' \in [Calls -> CallRecord]
    BY Names, CallUpdates
  <2>3. /\ send' \in [Sends -> SendRecord]
        /\ starts' \subseteq Calls /\ unclosed' \subseteq Calls /\ left' \subseteq Calls
        /\ ends' \in [Calls -> Nat] /\ notes' \in [Calls -> Nat]
        /\ closes' \in Nat /\ faults' \in Nat
    BY DEF SendRecord, FirstAbsent
  <2> QED BY <2>1, <2>2, <2>3
<1>2. Tended'
  BY DEF Tended, Awaited, Unread, Recorded, Unbegun, Away, SessionRecord, CallRecord, FirstAbsent
<1>3. Recorded'
  BY DEF Recorded, Unbegun, SessionRecord, CallRecord, FirstAbsent
<1>4. TurnsCounted'
  BY DEF TurnsCounted, SessionRecord, CallRecord, FirstAbsent
<1>5. OwnTurn'
  BY DEF OwnTurn, OfTurn, Unbegun, InEnding, Waking, TurnsCounted, SessionRecord, CallRecord, FirstAbsent
<1>6. WakesForReason'
  BY DEF WakesForReason, Due, Waking, OwnTurn, OfTurn, Recorded, InEnding, Unbegun, SessionRecord,
     CallRecord, FirstAbsent
<1>7. NeverClosed'
  BY DEF NeverClosed, Waking, SessionRecord, CallRecord, FirstAbsent
<1>8. AttemptsPaid'
  BY DEF AttemptsPaid, Paid, Met, Waking, NeverClosed, Due, OwnTurn, OfTurn, Unbegun, InEnding,
     TurnsCounted, WakesForReason, SessionRecord, CallRecord, FirstAbsent
<1> QED BY <1>1, <1>2, <1>3, <1>4, <1>5, <1>6, <1>7, <1>8

(* message_thread is called. *)
LEMMA MessageThreadKeeps ==
  ASSUME ThreadsInv, NEW k \in Calls, NEW t \in Thread, MessageThread(k, t)
  PROVE  ThreadsInv'
<1> USE ThreadsAssumption DEF ThreadsInv, ThreadsTypeOK, Sessions, Coordinator, NoOne, MessageThread, logs, bounds
<1>1. ThreadsTypeOK'
  <2>1. sess' \in [Sessions -> SessionRecord]
    BY Names DEF SessionRecord, MayCall, Called
  <2>2. call' \in [Calls -> CallRecord]
    <3>1. call \in [Calls -> CallRecord] /\ "steering" \in CallAts /\ t \in Sessions /\ sess[Coordinator].turn \in Nat
      BY Names DEF SessionRecord
    <3> QED BY <3>1, CallUpdates DEF Called
  <2>3. /\ send' \in [Sends -> SendRecord]
        /\ starts' \subseteq Calls /\ unclosed' \subseteq Calls /\ left' \subseteq Calls
        /\ ends' \in [Calls -> Nat] /\ notes' \in [Calls -> Nat]
        /\ closes' \in Nat /\ faults' \in Nat
    BY DEF SendRecord, MayCall, Called
  <2> QED BY <2>1, <2>2, <2>3
<1>2. Tended'
  BY DEF Tended, Awaited, Unread, Recorded, Unbegun, Away, SessionRecord, CallRecord, MayCall, Called
<1>3. Recorded'
  BY DEF Recorded, Unbegun, SessionRecord, CallRecord, MayCall, Called
<1>4. TurnsCounted'
  BY DEF TurnsCounted, SessionRecord, CallRecord, MayCall, Called
<1>5. OwnTurn'
  BY DEF OwnTurn, OfTurn, Unbegun, InEnding, Waking, TurnsCounted, SessionRecord, CallRecord, MayCall, Called
<1>6. WakesForReason'
  BY DEF WakesForReason, Due, Waking, OwnTurn, OfTurn, Recorded, InEnding, Unbegun, SessionRecord,
     CallRecord, MayCall, Called
<1>7. NeverClosed'
  BY DEF NeverClosed, Waking, SessionRecord, CallRecord, MayCall, Called
<1>8. AttemptsPaid'
  BY DEF AttemptsPaid, Paid, Met, Waking, NeverClosed, Due, OwnTurn, OfTurn, Unbegun, InEnding,
     TurnsCounted, WakesForReason, SessionRecord, CallRecord, MayCall, Called
<1> QED BY <1>1, <1>2, <1>3, <1>4, <1>5, <1>6, <1>7, <1>8

(* The message goes into the running turn of the thread, or will start one. *)
LEMMA SteerThreadKeeps ==
  ASSUME ThreadsInv, NEW k \in Calls, SteerThread(k)
  PROVE  ThreadsInv'
<1> USE ThreadsAssumption DEF ThreadsInv, ThreadsTypeOK, Sessions, Coordinator, NoOne, SteerThread, logs, bounds
<1>1. ThreadsTypeOK'
  <2>1. sess' \in [Sessions -> SessionRecord]
    BY Names DEF SessionRecord, Reach
  <2>2. call' \in [Calls -> CallRecord]
    BY Names DEF CallRecord, Reach
  <2>3. /\ send' \in [Sends -> SendRecord]
        /\ starts' \subseteq Calls /\ unclosed' \subseteq Calls /\ left' \subseteq Calls
        /\ ends' \in [Calls -> Nat] /\ notes' \in [Calls -> Nat]
        /\ closes' \in Nat /\ faults' \in Nat
    BY DEF SendRecord, Reach
  <2> QED BY <2>1, <2>2, <2>3
<1>2. Tended'
  BY DEF Tended, Awaited, Unread, Recorded, Unbegun, Away, SessionRecord, CallRecord, Reach
<1>3. Recorded'
  BY DEF Recorded, Unbegun, SessionRecord, CallRecord, Reach
<1>4. TurnsCounted'
  BY DEF TurnsCounted, SessionRecord, CallRecord, Reach
<1>5. OwnTurn'
  BY DEF OwnTurn, OfTurn, Unbegun, InEnding, Waking, TurnsCounted, SessionRecord, CallRecord, Reach
<1>6. WakesForReason'
  BY DEF WakesForReason, Due, Waking, OwnTurn, OfTurn, Recorded, InEnding, Unbegun, SessionRecord,
     CallRecord, Reach
<1>7. NeverClosed'
  BY DEF NeverClosed, Waking, SessionRecord, CallRecord, Reach
<1>8. AttemptsPaid'
  BY DEF AttemptsPaid, Paid, Met, Waking, NeverClosed, Due, OwnTurn, OfTurn, Unbegun, InEnding,
     TurnsCounted, WakesForReason, SessionRecord, CallRecord, Reach
<1> QED BY <1>1, <1>2, <1>3, <1>4, <1>5, <1>6, <1>7, <1>8

(* The turn of the thread begins, and it is this call's. *)
LEMMA BeginRunKeeps ==
  ASSUME ThreadsInv, NEW k \in Calls, BeginRun(k)
  PROVE  ThreadsInv'
<1> USE ThreadsAssumption DEF ThreadsInv, Sessions, Coordinator, NoOne, logs, bounds
<1> DEFINE t == call[k].thread
<1>b. \A q \in Calls : /\ call'[q].thread = call[q].thread /\ call'[q].stale = call[q].stale
                       /\ call'[q].tries = call[q].tries /\ call'[q].met = call[q].met
                       /\ q # k => /\ call'[q].at = call[q].at /\ call'[q].childTurn = call[q].childTurn
                                   /\ call'[q].cause = call[q].cause
  BY DEF ThreadsTypeOK, BeginRun, CallRecord
<1>c. \/ /\ call'[k].at = "over" /\ sess' = sess
         /\ call'[k].cause = call[k].cause /\ call'[k].childTurn = call[k].childTurn
      \/ /\ sess[t].phase = "idle" /\ call'[k].at = "recording" /\ sess' = sess
         /\ call'[k].cause = "error" /\ call'[k].childTurn = 0
      \/ /\ sess[t].phase = "idle" /\ call'[k].at = "recording" /\ sess' = Begun(t)
         /\ call'[k].cause = call[k].cause /\ call'[k].childTurn = sess[t].turn + 1
  BY DEF ThreadsTypeOK, BeginRun, CallRecord
<1>d. /\ call[k].at = "starting" /\ starts' = starts /\ ends' = ends /\ notes' = notes
      /\ closes' = closes /\ unclosed' = unclosed /\ left' = left /\ left \subseteq Calls
      /\ starts \subseteq Calls /\ send' = send /\ faults' = faults
  BY DEF BeginRun, ThreadsTypeOK
<1>e. /\ \A q \in Calls : call[q].thread \in Sessions /\ call[q].childTurn \in Nat
      /\ \A s \in Sessions : sess[s].turn \in Nat
      /\ notes \in [Calls -> Nat]
  BY DEF ThreadsTypeOK, CallRecord, SessionRecord
<1>f. notes[k] = 0 /\ call[k].cause = "none" /\ call[k].childTurn = 0 /\ k \notin starts
  BY <1>d, <1>e DEF WakesForReason, OwnTurn, Unbegun, Recorded
<1>g. \A s \in Sessions :
        /\ sess'[s].at = sess[s].at
        /\ \/ /\ sess'[s].turn = sess[s].turn /\ sess'[s].phase = sess[s].phase
              /\ sess'[s].cause = sess[s].cause
           \/ /\ s = t /\ sess'[s].turn = sess[s].turn + 1 /\ sess'[s].phase = "live"
              /\ sess'[s].cause \in {"shutdown", "none"}
  BY <1>c, <1>e DEF ThreadsTypeOK, SessionRecord, Begun
<1>h. sess' = Begun(t) => sess'[t].turn = sess[t].turn + 1
  BY <1>e DEF ThreadsTypeOK, SessionRecord, Begun
<1>1. ThreadsTypeOK'
  <2>1. call' \in [Calls -> CallRecord]
    <3>1. /\ call \in [Calls -> CallRecord] /\ "over" \in CallAts /\ "recording" \in CallAts
          /\ "error" \in Causes /\ sess[t].turn + 1 \in Nat /\ 0 \in Nat
      BY <1>e, Names DEF ThreadsTypeOK
    <3>2. [call EXCEPT ![k].at = "recording", ![k].childTurn = sess[t].turn + 1] \in [Calls -> CallRecord]
      BY <3>1, CallUpdates
    <3>3. [[call EXCEPT ![k].at = "recording", ![k].childTurn = sess[t].turn + 1]
             EXCEPT ![k].cause = "error", ![k].childTurn = 0] \in [Calls -> CallRecord]
      BY <3>1, <3>2, CallUpdates
    <3>4. [call EXCEPT ![k].at = "over"] \in [Calls -> CallRecord]
      BY <3>1, CallUpdates
    <3> QED BY <3>2, <3>3, <3>4 DEF BeginRun
  <2>2. sess' \in [Sessions -> SessionRecord]
    BY <1>c, <1>e, BegunType DEF ThreadsTypeOK
  <2> QED BY <1>d, <2>1, <2>2 DEF ThreadsTypeOK
<1>2. Tended'
  BY <1>b, <1>c, <1>d, <1>f, <1>g DEF Tended, Awaited, Unread
<1>3. Recorded'
  BY <1>b, <1>d, <1>f DEF Recorded, Unbegun
<1>4. TurnsCounted'
  BY <1>e, <1>g DEF TurnsCounted
<1>5. OwnTurn'
  <2>1. \A q \in Calls : call'[q].childTurn <= sess'[call'[q].thread].turn
    BY <1>b, <1>c, <1>e, <1>g, <1>h DEF OwnTurn
  <2>2. \A q \in Calls : call'[q].at \in Unbegun => call'[q].childTurn = 0 /\ call'[q].cause = "none"
    BY <1>b, <1>c DEF OwnTurn, Unbegun
  <2>3. \A q \in Calls : call'[q].at \in InEnding => call'[q].cause # "none"
    BY <1>b, <1>c DEF OwnTurn, InEnding, Waking
  <2>4. ASSUME NEW q \in Calls, call'[q].childTurn = sess'[call'[q].thread].turn, call'[q].thread # Coordinator,
               sess'[call'[q].thread].phase # "idle"
        PROVE  call'[q].at \in {"recording", "waiting", "gone"} /\ call'[q].cause = "none"
    <3>1. CASE q = k
      BY <1>b, <1>c, <1>d, <1>e, <1>f, <1>g, <2>4, <3>1 DEF OwnTurn, TurnsCounted
    <3>2. CASE q # k
      BY <1>b, <1>c, <1>d, <1>e, <1>f, <1>g, <2>4, <3>2 DEF OwnTurn, OfTurn
    <3> QED BY <3>1, <3>2
  <2> QED BY <1>b, <2>1, <2>2, <2>3, <2>4 DEF OwnTurn, OfTurn
<1>6. WakesForReason'
  BY <1>b, <1>c, <1>d, <1>f DEF WakesForReason, Due, Waking
<1>7. NeverClosed'
  BY <1>b, <1>d, <1>g DEF NeverClosed
<1>8. AttemptsPaid'
  BY <1>b, <1>c, <1>d, <1>e, <1>f, <1>g DEF AttemptsPaid, Paid, Met, Waking, NeverClosed
<1> QED BY <1>1, <1>2, <1>3, <1>4, <1>5, <1>6, <1>7, <1>8

(* The record of the run, refused unless the call's turn runs. *)
LEMMA RecordRunKeeps ==
  ASSUME ThreadsInv, NEW k \in Calls, RecordRun(k)
  PROVE  ThreadsInv'
<1> USE ThreadsAssumption DEF ThreadsInv, ThreadsTypeOK, Sessions, Coordinator, NoOne, RecordRun, logs, bounds
<1>1. ThreadsTypeOK'
  <2>1. sess' \in [Sessions -> SessionRecord]
    BY Names DEF SessionRecord, Reach
  <2>2. call' \in [Calls -> CallRecord]
    BY Names DEF CallRecord, Reach
  <2>3. /\ send' \in [Sends -> SendRecord]
        /\ starts' \subseteq Calls /\ unclosed' \subseteq Calls /\ left' \subseteq Calls
        /\ ends' \in [Calls -> Nat] /\ notes' \in [Calls -> Nat]
        /\ closes' \in Nat /\ faults' \in Nat
    BY DEF SendRecord, Reach
  <2> QED BY <2>1, <2>2, <2>3
<1>2. Tended'
  BY DEF Tended, Awaited, Unread, Recorded, Unbegun, Away, SessionRecord, CallRecord, Reach
<1>3. Recorded'
  BY DEF Recorded, Unbegun, SessionRecord, CallRecord, Reach
<1>4. TurnsCounted'
  BY DEF TurnsCounted, SessionRecord, CallRecord, Reach
<1>5. OwnTurn'
  BY DEF OwnTurn, OfTurn, Unbegun, InEnding, Waking, TurnsCounted, SessionRecord, CallRecord, Reach
<1>6. WakesForReason'
  BY DEF WakesForReason, Due, Waking, OwnTurn, OfTurn, Recorded, InEnding, Unbegun, SessionRecord,
     CallRecord, Reach
<1>7. NeverClosed'
  BY DEF NeverClosed, Waking, SessionRecord, CallRecord, Reach
<1>8. AttemptsPaid'
  BY DEF AttemptsPaid, Paid, Met, Waking, NeverClosed, Due, OwnTurn, OfTurn, Unbegun, InEnding,
     TurnsCounted, WakesForReason, SessionRecord, CallRecord, Reach
<1> QED BY <1>1, <1>2, <1>3, <1>4, <1>5, <1>6, <1>7, <1>8

(* The run has ended: its end is to be recorded if its start is. *)
LEMMA RunEndedKeeps ==
  ASSUME ThreadsInv, NEW k \in Calls, RunEnded(k)
  PROVE  ThreadsInv'
<1> USE ThreadsAssumption DEF ThreadsInv, Sessions, Coordinator, NoOne, logs, bounds
<1>b. \A q \in Calls : /\ call'[q].thread = call[q].thread /\ call'[q].childTurn = call[q].childTurn
                       /\ call'[q].cause = call[q].cause /\ call'[q].tries = call[q].tries
                       /\ call'[q].stale = call[q].stale /\ call'[q].met = call[q].met
                       /\ q # k => call'[q].at = call[q].at
  BY DEF ThreadsTypeOK, RunEnded, CallRecord
<1>c. call'[k].at = IF k \in starts THEN "reading" ELSE AfterEnd(k)
  BY DEF ThreadsTypeOK, RunEnded, CallRecord
<1>d. /\ call[k].at = "ended" /\ sess' = sess /\ starts' = starts /\ ends' = ends /\ notes' = notes
      /\ closes' = closes /\ unclosed' = unclosed /\ left' = left /\ left \subseteq Calls /\ starts \subseteq Calls
  BY DEF RunEnded, ThreadsTypeOK
<1>e. \A q \in Calls : call[q].thread \in Sessions /\ call[q].cause \in Causes
  BY DEF ThreadsTypeOK, CallRecord
<1>f. \/ AfterEnd(k) = "over" /\ call[k].cause \in {"shutdown", "user"}
      \/ AfterEnd(k) = "reaching" /\ call[k].cause \in {"done", "error"}
  BY <1>d, <1>e DEF AfterEnd, OwnTurn, InEnding, Causes
<1>1. ThreadsTypeOK'
  <2>1. call' \in [Calls -> CallRecord]
    <3> SUFFICES ASSUME NEW a \in CallAts PROVE [call EXCEPT ![k].at = a] \in [Calls -> CallRecord]
      BY <1>f, Names DEF RunEnded, ThreadsTypeOK
    <3> QED BY DEF ThreadsTypeOK, CallRecord
  <2> QED BY <1>d, <2>1 DEF ThreadsTypeOK, RunEnded
<1>2. Tended'
  BY <1>b, <1>c, <1>d, <1>f DEF Tended, Awaited, Unread, ThreadsTypeOK
<1>3. Recorded'
  BY <1>b, <1>c, <1>d, <1>f DEF Recorded, Unbegun
<1>4. TurnsCounted'
  BY <1>d DEF TurnsCounted
<1>5. OwnTurn'
  BY <1>b, <1>c, <1>d, <1>e, <1>f DEF OwnTurn, OfTurn, Unbegun, InEnding, Waking
<1>6. WakesForReason'
  BY <1>b, <1>c, <1>d, <1>f DEF WakesForReason, Due, Waking, ThreadsTypeOK
<1>7. NeverClosed'
  BY <1>b, <1>d DEF NeverClosed
<1>8. AttemptsPaid'
  BY <1>b, <1>c, <1>d, <1>f DEF AttemptsPaid, Paid, Met, Waking, NeverClosed
<1> QED BY <1>1, <1>2, <1>3, <1>4, <1>5, <1>6, <1>7, <1>8

(* An end that is there already is not written again. *)
LEMMA ReadEndKeeps ==
  ASSUME ThreadsInv, NEW k \in Calls, ReadEnd(k)
  PROVE  ThreadsInv'
<1> USE ThreadsAssumption DEF ThreadsInv, Sessions, Coordinator, NoOne, logs, bounds
<1>b. \A q \in Calls : /\ call'[q].thread = call[q].thread /\ call'[q].childTurn = call[q].childTurn
                       /\ call'[q].cause = call[q].cause /\ call'[q].tries = call[q].tries
                       /\ call'[q].stale = call[q].stale /\ call'[q].met = call[q].met
                       /\ q # k => call'[q].at = call[q].at
  BY DEF ThreadsTypeOK, ReadEnd, CallRecord
<1>c. call'[k].at = "appending" \/ (ends[k] > 0 /\ call'[k].at = AfterEnd(k))
  BY DEF ThreadsTypeOK, ReadEnd, CallRecord
<1>d. /\ call[k].at = "reading" /\ sess' = sess /\ starts' = starts /\ ends' = ends /\ notes' = notes
      /\ closes' = closes /\ unclosed' = unclosed /\ left' = left /\ left \subseteq Calls /\ starts \subseteq Calls
  BY DEF ReadEnd, ThreadsTypeOK
<1>e. \A q \in Calls : call[q].thread \in Sessions /\ call[q].cause \in Causes
  BY DEF ThreadsTypeOK, CallRecord
<1>f. \/ AfterEnd(k) = "over" /\ call[k].cause \in {"shutdown", "user"}
      \/ AfterEnd(k) = "reaching" /\ call[k].cause \in {"done", "error"}
  BY <1>d, <1>e DEF AfterEnd, OwnTurn, InEnding, Causes
<1>1. ThreadsTypeOK'
  <2>1. call' \in [Calls -> CallRecord]
    <3> SUFFICES ASSUME NEW a \in CallAts PROVE [call EXCEPT ![k].at = a] \in [Calls -> CallRecord]
      BY <1>f, Names DEF ReadEnd, ThreadsTypeOK
    <3> QED BY DEF ThreadsTypeOK, CallRecord
  <2> QED BY <1>d, <2>1 DEF ThreadsTypeOK, ReadEnd
<1>2. Tended'
  BY <1>b, <1>c, <1>d, <1>f DEF Tended, Awaited, Unread, ThreadsTypeOK
<1>3. Recorded'
  BY <1>b, <1>c, <1>d, <1>f DEF Recorded, Unbegun
<1>4. TurnsCounted'
  BY <1>d DEF TurnsCounted
<1>5. OwnTurn'
  BY <1>b, <1>c, <1>d, <1>e, <1>f DEF OwnTurn, OfTurn, Unbegun, InEnding, Waking
<1>6. WakesForReason'
  BY <1>b, <1>c, <1>d, <1>f DEF WakesForReason, Due, Waking, ThreadsTypeOK
<1>7. NeverClosed'
  BY <1>b, <1>d DEF NeverClosed
<1>8. AttemptsPaid'
  BY <1>b, <1>c, <1>d, <1>f DEF AttemptsPaid, Paid, Met, Waking, NeverClosed
<1> QED BY <1>1, <1>2, <1>3, <1>4, <1>5, <1>6, <1>7, <1>8

(* The end is written, or the append fails, as it does on a closed agent. *)
LEMMA AppendEndKeeps ==
  ASSUME ThreadsInv, NEW k \in Calls, AppendEnd(k)
  PROVE  ThreadsInv'
<1> USE ThreadsAssumption DEF ThreadsInv, Sessions, Coordinator, NoOne, logs, bounds
<1>b. \A q \in Calls : /\ call'[q].thread = call[q].thread /\ call'[q].childTurn = call[q].childTurn
                       /\ call'[q].cause = call[q].cause /\ call'[q].tries = call[q].tries
                       /\ call'[q].stale = call[q].stale /\ call'[q].met = call[q].met
                       /\ q # k => call'[q].at = call[q].at
  BY DEF ThreadsTypeOK, AppendEnd, CallRecord
<1>c. \/ call'[k].at = AfterEnd(k) /\ ends' = [ends EXCEPT ![k] = @ + 1] /\ left' = left
      \/ call'[k].at = "failed" /\ ends' = ends /\ left' = left \cup {k}
  BY DEF ThreadsTypeOK, AppendEnd, CallRecord
<1>d. /\ call[k].at = "appending" /\ sess' = sess /\ starts' = starts /\ notes' = notes
      /\ closes' = closes /\ unclosed' = unclosed /\ left \subseteq Calls /\ starts \subseteq Calls
  BY DEF AppendEnd, ThreadsTypeOK
<1>e. \A q \in Calls : call[q].thread \in Sessions /\ call[q].cause \in Causes
  BY DEF ThreadsTypeOK, CallRecord
<1>f. \/ AfterEnd(k) = "over" /\ call[k].cause \in {"shutdown", "user"}
      \/ AfterEnd(k) = "reaching" /\ call[k].cause \in {"done", "error"}
  BY <1>d, <1>e DEF AfterEnd, OwnTurn, InEnding, Causes
<1>1. ThreadsTypeOK'
  <2>1. call' \in [Calls -> CallRecord]
    <3> SUFFICES ASSUME NEW a \in CallAts PROVE [call EXCEPT ![k].at = a] \in [Calls -> CallRecord]
      BY <1>f, Names DEF AppendEnd, ThreadsTypeOK
    <3> QED BY DEF ThreadsTypeOK, CallRecord
  <2> QED BY <1>d, <2>1 DEF ThreadsTypeOK, AppendEnd
<1>2. Tended'
  BY <1>b, <1>c, <1>d, <1>f DEF Tended, Awaited, Unread, ThreadsTypeOK
<1>3. Recorded'
  BY <1>b, <1>c, <1>d, <1>f DEF Recorded, Unbegun
<1>4. TurnsCounted'
  BY <1>d DEF TurnsCounted
<1>5. OwnTurn'
  BY <1>b, <1>c, <1>d, <1>e, <1>f DEF OwnTurn, OfTurn, Unbegun, InEnding, Waking
<1>6. WakesForReason'
  BY <1>b, <1>c, <1>d, <1>f DEF WakesForReason, Due, Waking, ThreadsTypeOK
<1>7. NeverClosed'
  BY <1>b, <1>d DEF NeverClosed
<1>8. AttemptsPaid'
  BY <1>b, <1>c, <1>d, <1>f DEF AttemptsPaid, Paid, Met, Waking, NeverClosed
<1> QED BY <1>1, <1>2, <1>3, <1>4, <1>5, <1>6, <1>7, <1>8

(* wake gets hold of the coordinator. *)
LEMMA ReachWakeKeeps ==
  ASSUME ThreadsInv, NEW k \in Calls, ReachWake(k)
  PROVE  ThreadsInv'
<1> USE ThreadsAssumption DEF ThreadsInv, ThreadsTypeOK, Sessions, Coordinator, NoOne, ReachWake, logs, bounds
<1>1. ThreadsTypeOK'
  <2>1. sess' \in [Sessions -> SessionRecord]
    BY Names DEF SessionRecord, Reach
  <2>2. call' \in [Calls -> CallRecord]
    BY Names, CallUpdates
  <2>3. /\ send' \in [Sends -> SendRecord]
        /\ starts' \subseteq Calls /\ unclosed' \subseteq Calls /\ left' \subseteq Calls
        /\ ends' \in [Calls -> Nat] /\ notes' \in [Calls -> Nat]
        /\ closes' \in Nat /\ faults' \in Nat
    BY DEF SendRecord, Reach
  <2> QED BY <2>1, <2>2, <2>3
<1>2. Tended'
  BY DEF Tended, Awaited, Unread, Recorded, Unbegun, Away, SessionRecord, CallRecord, Reach
<1>3. Recorded'
  BY DEF Recorded, Unbegun, SessionRecord, CallRecord, Reach
<1>4. TurnsCounted'
  BY DEF TurnsCounted, SessionRecord, CallRecord, Reach
<1>5. OwnTurn'
  BY DEF OwnTurn, OfTurn, Unbegun, InEnding, Waking, TurnsCounted, SessionRecord, CallRecord, Reach
<1>6. WakesForReason'
  BY DEF WakesForReason, Due, Waking, OwnTurn, OfTurn, Recorded, InEnding, Unbegun, SessionRecord,
     CallRecord, Reach
<1>7. NeverClosed'
  BY DEF NeverClosed, Waking, SessionRecord, CallRecord, Reach
<1>8. AttemptsPaid'
  BY DEF AttemptsPaid, Paid, Met, Waking, NeverClosed, Due, OwnTurn, OfTurn, Unbegun, InEnding,
     TurnsCounted, WakesForReason, SessionRecord, CallRecord, Reach
<1> QED BY <1>1, <1>2, <1>3, <1>4, <1>5, <1>6, <1>7, <1>8

(* wake joins the running turn, or counts an attempt that met one that ends. *)
LEMMA WakeKeeps ==
  ASSUME ThreadsInv, NEW k \in Calls, Wake(k)
  PROVE  ThreadsInv'
<1> USE ThreadsAssumption DEF ThreadsInv, Sessions, Coordinator, NoOne, logs, bounds
<1>z. \/ /\ call[k].stale \/ sess[Coordinator].phase = "idle"
         /\ call' = [call EXCEPT ![k].at = "wakeStart"] /\ notes' = notes
      \/ call' = [call EXCEPT ![k].at = "over"] /\ notes' = [notes EXCEPT ![k] = @ + 1]
      \/ /\ sess[Coordinator].phase # "idle"
         /\ call' = [call EXCEPT ![k] = Failed(k, "wakeWait")] /\ notes' = notes
  BY DEF Wake, Delivered
<1>y. "wakeWait" \in CallAts
  BY Names
<1>b. \A q \in Calls : /\ call'[q].thread = call[q].thread /\ call'[q].childTurn = call[q].childTurn
                       /\ call'[q].cause = call[q].cause /\ call'[q].stale = call[q].stale
                       /\ q # k => /\ call'[q].at = call[q].at /\ call'[q].tries = call[q].tries
                                   /\ call'[q].met = call[q].met
  BY <1>y, <1>z, FailedAttempt DEF ThreadsTypeOK, CallRecord
<1>c. \/ /\ call[k].stale \/ sess[Coordinator].phase = "idle"
         /\ call'[k].at = "wakeStart" /\ call'[k].tries = call[k].tries /\ call'[k].met = call[k].met
         /\ notes' = notes
      \/ /\ call'[k].at = "over" /\ call'[k].tries = call[k].tries /\ call'[k].met = call[k].met
         /\ notes' = [notes EXCEPT ![k] = @ + 1]
      \/ /\ sess[Coordinator].phase # "idle"
         /\ call'[k].at = (IF call[k].tries + 1 = WakeAttempts THEN "over" ELSE "wakeWait")
         /\ call'[k].tries = call[k].tries + 1 /\ call'[k].met = call[k].met \cup {sess[Coordinator].turn}
         /\ notes' = notes
  BY <1>y, <1>z, FailedAttempt DEF ThreadsTypeOK, CallRecord
<1>d. /\ call[k].at = "waking" /\ sess' = sess /\ starts' = starts /\ ends' = ends
      /\ closes' = closes /\ unclosed' = unclosed /\ left' = left /\ left \subseteq Calls
      /\ starts \subseteq Calls /\ send' = send /\ faults' = faults
  BY DEF Wake, ThreadsTypeOK
<1>e. /\ \A q \in Calls : call[q].thread \in Sessions /\ call[q].tries \in Nat
      /\ sess[Coordinator].turn \in Nat /\ notes \in [Calls -> Nat] /\ WakeAttempts \in Nat
  BY DEF ThreadsTypeOK, CallRecord, SessionRecord
<1>f. notes[k] = 0 /\ Due(k)
  BY <1>d, <1>e DEF WakesForReason, Waking
<1>1. ThreadsTypeOK'
  <2>1. call' \in [Calls -> CallRecord]
    <3>1. call \in [Calls -> CallRecord] /\ "over" \in CallAts /\ "wakeStart" \in CallAts
      BY Names DEF ThreadsTypeOK
    <3>2. \A a \in CallAts : [call EXCEPT ![k].at = a] \in [Calls -> CallRecord]
      BY <3>1, CallUpdates
    <3>3. [call EXCEPT ![k] = Failed(k, "wakeWait")] \in [Calls -> CallRecord]
      BY <1>y, <3>1, FailedAttempt
    <3> QED BY <1>z, <3>1, <3>2, <3>3
  <2>2. notes' \in [Calls -> Nat]
    BY <1>c, <1>e
  <2> QED BY <1>d, <2>1, <2>2 DEF ThreadsTypeOK
<1>2. Tended'
  BY <1>b, <1>c, <1>d DEF Tended, Awaited, Unread
<1>3. Recorded'
  BY <1>b, <1>c, <1>d DEF Recorded, Unbegun
<1>4. TurnsCounted'
  BY <1>d DEF TurnsCounted
<1>5. OwnTurn'
  BY <1>b, <1>c, <1>d, <1>e DEF OwnTurn, OfTurn, Unbegun, InEnding, Waking
<1>6. WakesForReason'
  BY <1>b, <1>c, <1>d, <1>e, <1>f DEF WakesForReason, Due, Waking
<1>7. NeverClosed'
  BY <1>b, <1>d DEF NeverClosed
<1>8. AttemptsPaid'
  <2>1. \A q \in Calls \ {k} : Paid(q)'
    BY <1>b, <1>c, <1>d, <1>e DEF AttemptsPaid, Paid, Met, Waking, NeverClosed
  <2> DEFINE n == sess[Coordinator].turn
             met == call[k].met
             cost == Cardinality(met)
  <2>2. met \in SUBSET (1..n) /\ n \in Nat
    BY <1>e DEF AttemptsPaid, Paid
  <2>3. sess[Coordinator].phase # "idle" => n \in 1..n
    BY <2>2 DEF TurnsCounted
  <2>4. cost \in Nat /\ Cardinality(met \cup {n}) = IF n \in met THEN cost ELSE cost + 1
    BY <2>2, OneMore
  <2>5. closes = 0 => /\ call[k].tries <= 2 * cost /\ ~call[k].stale
                      /\ Met(k) => call[k].tries + 1 <= 2 * cost
    BY <1>d DEF AttemptsPaid, Paid, NeverClosed
  <2>6. call'[k].met \subseteq 1..n
    BY <1>c, <2>2, <2>3
  <2>7. /\ closes' = closes /\ sess' = sess /\ call[k].tries \in Nat
        /\ Met(k) <=> sess[Coordinator].phase # "idle" /\ n \in met
    BY <1>d, <1>e DEF Met
  <2>8. Paid(k)'
    <3>1. CASE call'[k].at = "wakeStart" /\ call'[k].tries = call[k].tries /\ call'[k].met = met /\
               (call[k].stale \/ sess[Coordinator].phase = "idle")
      BY <2>5, <2>6, <2>7, <3>1 DEF Paid, Met, Waking
    <3>2. CASE call'[k].at = "over" /\ call'[k].tries = call[k].tries /\ call'[k].met = met /\
               notes' = [notes EXCEPT ![k] = @ + 1]
      <4>1. notes'[k] # 0
        BY <1>e, <1>f, <3>2
      <4> QED BY <2>5, <2>6, <2>7, <3>2, <4>1 DEF Paid, Met, Waking
    <3>3. CASE sess[Coordinator].phase # "idle" /\ call'[k].tries = call[k].tries + 1
               /\ call'[k].met = met \cup {n} /\ call'[k].at = IF call[k].tries + 1 = WakeAttempts THEN "over" ELSE "wakeWait"
      <4>1. closes = 0 => call[k].tries + 1 <= 2 * Cardinality(met \cup {n})
        BY <2>4, <2>5, <2>7, <3>3
      <4> HIDE DEF met, n
      <4> QED BY <1>e, <2>6, <2>7, <3>3, <4>1 DEF Paid, Met, Waking, n
    <3> QED BY <1>c, <3>1, <3>2, <3>3
  <2> QED BY <2>1, <2>8 DEF AttemptsPaid
<1> QED BY <1>1, <1>2, <1>3, <1>4, <1>5, <1>6, <1>7, <1>8

(* The turn that was met is over. *)
LEMMA WakeWaitKeeps ==
  ASSUME ThreadsInv, NEW k \in Calls, WakeWait(k)
  PROVE  ThreadsInv'
<1> USE ThreadsAssumption DEF ThreadsInv, ThreadsTypeOK, Sessions, Coordinator, NoOne, WakeWait, logs, bounds
<1>1. ThreadsTypeOK'
  <2>1. sess' \in [Sessions -> SessionRecord]
    BY Names DEF SessionRecord
  <2>2. call' \in [Calls -> CallRecord]
    BY Names DEF CallRecord
  <2>3. /\ send' \in [Sends -> SendRecord]
        /\ starts' \subseteq Calls /\ unclosed' \subseteq Calls /\ left' \subseteq Calls
        /\ ends' \in [Calls -> Nat] /\ notes' \in [Calls -> Nat]
        /\ closes' \in Nat /\ faults' \in Nat
    BY DEF SendRecord
  <2> QED BY <2>1, <2>2, <2>3
<1>2. Tended'
  BY DEF Tended, Awaited, Unread, Recorded, Unbegun, Away, SessionRecord, CallRecord
<1>3. Recorded'
  BY DEF Recorded, Unbegun, SessionRecord, CallRecord
<1>4. TurnsCounted'
  BY DEF TurnsCounted, SessionRecord, CallRecord
<1>5. OwnTurn'
  BY DEF OwnTurn, OfTurn, Unbegun, InEnding, Waking, TurnsCounted, SessionRecord, CallRecord
<1>6. WakesForReason'
  BY DEF WakesForReason, Due, Waking, OwnTurn, OfTurn, Recorded, InEnding, Unbegun, SessionRecord, CallRecord
<1>7. NeverClosed'
  BY DEF NeverClosed, Waking, SessionRecord, CallRecord
<1>8. AttemptsPaid'
  BY DEF AttemptsPaid, Paid, Met, Waking, NeverClosed, Due, OwnTurn, OfTurn, Unbegun, InEnding,
     TurnsCounted, WakesForReason, SessionRecord, CallRecord
<1> QED BY <1>1, <1>2, <1>3, <1>4, <1>5, <1>6, <1>7, <1>8

(* wake starts a turn, or counts an attempt that met one just begun. *)
LEMMA WakeStartKeeps ==
  ASSUME ThreadsInv, NEW k \in Calls, WakeStart(k)
  PROVE  ThreadsInv'
<1> USE ThreadsAssumption DEF ThreadsInv, Sessions, Coordinator, NoOne, logs, bounds
<1>z. \/ /\ sess[Coordinator].at = "dead" /\ sess' = sess /\ notes' = notes
         /\ call' = [call EXCEPT ![k].at = "over"]
      \/ /\ sess[Coordinator].phase = "idle" /\ sess' = Begun(Coordinator)
         /\ call' = [call EXCEPT ![k].at = "over"] /\ notes' = [notes EXCEPT ![k] = @ + 1]
      \/ /\ sess[Coordinator].phase # "idle" /\ sess' = sess /\ notes' = notes
         /\ call' = [call EXCEPT ![k] = Failed(k, "waking")]
  BY DEF WakeStart, Delivered
<1>y. "waking" \in CallAts
  BY Names
<1>b. \A q \in Calls : /\ call'[q].thread = call[q].thread /\ call'[q].childTurn = call[q].childTurn
                       /\ call'[q].cause = call[q].cause /\ call'[q].stale = call[q].stale
                       /\ q # k => /\ call'[q].at = call[q].at /\ call'[q].tries = call[q].tries
                                   /\ call'[q].met = call[q].met
  BY <1>y, <1>z, FailedAttempt DEF ThreadsTypeOK, CallRecord
<1>c. \/ /\ sess[Coordinator].at = "dead" /\ sess' = sess /\ notes' = notes
         /\ call'[k].at = "over" /\ call'[k].tries = call[k].tries /\ call'[k].met = call[k].met
      \/ /\ sess[Coordinator].phase = "idle" /\ sess' = Begun(Coordinator)
         /\ call'[k].at = "over" /\ call'[k].tries = call[k].tries /\ call'[k].met = call[k].met
         /\ notes' = [notes EXCEPT ![k] = @ + 1]
      \/ /\ sess[Coordinator].phase # "idle" /\ sess' = sess /\ notes' = notes
         /\ call'[k].at = (IF call[k].tries + 1 = WakeAttempts THEN "over" ELSE "waking")
         /\ call'[k].tries = call[k].tries + 1 /\ call'[k].met = call[k].met \cup {sess[Coordinator].turn}
  BY <1>y, <1>z, FailedAttempt DEF ThreadsTypeOK, CallRecord
<1>d. /\ call[k].at = "wakeStart" /\ starts' = starts /\ ends' = ends
      /\ closes' = closes /\ unclosed' = unclosed /\ left' = left /\ left \subseteq Calls
      /\ starts \subseteq Calls /\ send' = send /\ faults' = faults
  BY DEF WakeStart, ThreadsTypeOK
<1>e. /\ \A q \in Calls : call[q].thread \in Sessions /\ call[q].tries \in Nat /\ call[q].childTurn \in Nat
      /\ \A s \in Sessions : sess[s].turn \in Nat
      /\ notes \in [Calls -> Nat] /\ WakeAttempts \in Nat
  BY DEF ThreadsTypeOK, CallRecord, SessionRecord
<1>f. notes[k] = 0 /\ Due(k)
  BY <1>d, <1>e DEF WakesForReason, Waking
<1>g. \A s \in Sessions :
        /\ sess'[s].at = sess[s].at
        /\ \/ /\ sess'[s].turn = sess[s].turn /\ sess'[s].phase = sess[s].phase
              /\ sess'[s].cause = sess[s].cause
           \/ /\ sess'[s].turn = sess[s].turn + 1 /\ sess'[s].phase = "live"
              /\ sess'[s].cause \in {"shutdown", "none"}
  BY <1>c DEF ThreadsTypeOK, SessionRecord, Begun
<1>1. ThreadsTypeOK'
  <2>1. call' \in [Calls -> CallRecord]
    <3>1. call \in [Calls -> CallRecord] /\ "over" \in CallAts /\ "wakeStart" \in CallAts
      BY Names DEF ThreadsTypeOK
    <3>2. \A a \in CallAts : [call EXCEPT ![k].at = a] \in [Calls -> CallRecord]
      BY <3>1, CallUpdates
    <3>3. [call EXCEPT ![k] = Failed(k, "waking")] \in [Calls -> CallRecord]
      BY <1>y, <3>1, FailedAttempt
    <3> QED BY <1>z, <3>1, <3>2, <3>3
  <2>2. notes' \in [Calls -> Nat]
    BY <1>c, <1>e
  <2>3. sess' \in [Sessions -> SessionRecord]
    BY <1>c, BegunType DEF ThreadsTypeOK
  <2> QED BY <1>d, <2>1, <2>2, <2>3 DEF ThreadsTypeOK
<1>2. Tended'
  BY <1>b, <1>c, <1>d, <1>g DEF Tended, Awaited, Unread
<1>3. Recorded'
  BY <1>b, <1>c, <1>d DEF Recorded, Unbegun
<1>4. TurnsCounted'
  BY <1>e, <1>g DEF TurnsCounted
<1>5. OwnTurn'
  BY <1>b, <1>c, <1>d, <1>e, <1>g DEF OwnTurn, OfTurn, Unbegun, InEnding, Waking
<1>6. WakesForReason'
  BY <1>b, <1>c, <1>d, <1>e, <1>f DEF WakesForReason, Due, Waking
<1>7. NeverClosed'
  BY <1>b, <1>d, <1>g DEF NeverClosed
<1>8. AttemptsPaid'
  <2>1. \A q \in Calls \ {k} : Paid(q)'
    BY <1>b, <1>c, <1>d, <1>e, <1>g DEF AttemptsPaid, Paid, Met, Waking, NeverClosed
  <2> DEFINE n == sess[Coordinator].turn
             met == call[k].met
             cost == Cardinality(met)
  <2>2. met \in SUBSET (1..n) /\ n \in Nat
    BY <1>e DEF AttemptsPaid, Paid
  <2>3. sess[Coordinator].phase # "idle" => n \in 1..n
    BY <2>2 DEF TurnsCounted
  <2>4. cost \in Nat /\ Cardinality(met \cup {n}) = IF n \in met THEN cost ELSE cost + 1
    BY <2>2, OneMore
  <2>5. closes = 0 => /\ call[k].tries <= 2 * cost /\ sess[Coordinator].at # "dead"
                      /\ ~Met(k)
    BY <1>d DEF AttemptsPaid, Paid, NeverClosed
  <2>6. call'[k].met \subseteq 1..sess'[Coordinator].turn
    BY <1>c, <1>g, <2>2, <2>3
  <2>7. /\ closes' = closes /\ call[k].tries \in Nat
        /\ Met(k) <=> sess[Coordinator].phase # "idle" /\ n \in met
    BY <1>d, <1>e DEF Met
  <2>8. Paid(k)'
    <3>1. CASE call'[k].at = "over" /\ call'[k].tries = call[k].tries /\ call'[k].met = met /\
               sess[Coordinator].at = "dead"
      BY <2>5, <2>6, <2>7, <3>1 DEF Paid, Met, Waking
    <3>2. CASE call'[k].at = "over" /\ call'[k].tries = call[k].tries /\ call'[k].met = met /\
               notes' = [notes EXCEPT ![k] = @ + 1]
      <4>1. notes'[k] # 0
        BY <1>e, <1>f, <3>2
      <4> QED BY <2>5, <2>6, <2>7, <3>2, <4>1 DEF Paid, Met, Waking
    <3>3. CASE sess[Coordinator].phase # "idle" /\ call'[k].tries = call[k].tries + 1
               /\ call'[k].met = met \cup {n} /\ call'[k].at = IF call[k].tries + 1 = WakeAttempts THEN "over" ELSE "waking"
      <4>1. closes = 0 => call[k].tries + 2 <= 2 * Cardinality(met \cup {n})
        BY <2>4, <2>5, <2>7, <3>3
      <4>2. Cardinality(met \cup {n}) \in Nat
        BY <2>4
      <4> HIDE DEF met, n
      <4> QED BY <1>e, <2>6, <2>7, <3>3, <4>1, <4>2 DEF Paid, Met, Waking
    <3> QED BY <1>c, <3>1, <3>2, <3>3
  <2> QED BY <2>1, <2>8 DEF AttemptsPaid
<1> QED BY <1>1, <1>2, <1>3, <1>4, <1>5, <1>6, <1>7, <1>8

-----------------------------------------------------------------------------
(* Every behaviour. *)

LEMMA InvInitially == Init => ThreadsInv
<1> SUFFICES ASSUME Init PROVE ThreadsInv
  OBVIOUS
<1> USE ThreadsAssumption DEF Init, Sessions, Coordinator, NoOne
<1>1. ThreadsTypeOK
  BY DEF ThreadsTypeOK, SessionRecord, CallRecord, SendRecord, SessionAts, Away, Phases, Causes,
     CallAts, Unbegun
<1>2. Tended /\ Recorded
  BY DEF Tended, Awaited, Recorded
<1>3. TurnsCounted
  BY DEF TurnsCounted
<1>4. OwnTurn
  BY DEF OwnTurn, OfTurn, Unbegun, InEnding, Waking
<1>5. WakesForReason /\ NeverClosed
  BY DEF WakesForReason, Waking, NeverClosed
<1>6. AttemptsPaid
  <2>1. Cardinality({}) = 0
    BY FS_EmptySet
  <2>2. \A k \in Calls : call[k].met = {} /\ call[k].tries = 0 /\ call[k].at = "none"
    OBVIOUS
  <2>3. \A k \in Calls : ~Met(k)
    BY <2>2 DEF Met
  <2> HIDE DEF Init
  <2>4. ASSUME NEW k \in Calls PROVE Paid(k)
    <3>1. Cardinality(call[k].met) = 0 /\ call[k].met \subseteq 1..sess[Coordinator].turn
      BY <2>1, <2>2
    <3> QED BY <2>2, <2>3, <3>1 DEF Paid, Waking
  <2> QED BY <2>4 DEF AttemptsPaid
<1> QED BY <1>1, <1>2, <1>3, <1>4, <1>5, <1>6 DEF ThreadsInv

LEMMA UnchangedKeeps ==
  ASSUME ThreadsInv, UNCHANGED vars
  PROVE  ThreadsInv'
BY DEF ThreadsInv, vars, ThreadsTypeOK, Tended, Recorded, TurnsCounted, OwnTurn, OfTurn, WakesForReason, Due,
       NeverClosed, AttemptsPaid, Paid, Met

LEMMA InvInductive == ThreadsInv /\ [Next]_vars => ThreadsInv'
<1> SUFFICES ASSUME ThreadsInv, [Next]_vars PROVE ThreadsInv'
  OBVIOUS
<1>1. CASE UNCHANGED vars
  BY <1>1, UnchangedKeeps
<1>2. ASSUME NEW s \in Sessions,
             \/ Session(s) \/ CloseSession(s) \/ Open(s, NoOne)
             \/ \E c \in {"done", "user"} : StopAccepting(s, c)
      PROVE  ThreadsInv'
  BY <1>2, OpenKeeps, OpenedKeeps, CloseAgentKeeps, SessionClosedKeeps, EndTurnKeeps, TurnDoneKeeps,
     CloseSessionKeeps, StopAcceptingKeeps DEF Session
<1>3. CASE Recovery \/ Restart
  BY <1>3, ReadRunsKeeps, CloseRunKeeps, RecoveredKeeps, RecoveryFailsKeeps, RestartKeeps DEF Recovery
<1>4. ASSUME NEW m \in Sends,
             SendCheck(m) \/ SendStart(m) \/ \E s \in Sessions : Send(m, s)
      PROVE  ThreadsInv'
  BY <1>4, SendKeeps, SendCheckKeeps, SendStartKeeps
<1>5. ASSUME NEW k \in Calls,
             StartThread(k) \/ SteerThread(k) \/ BeginRun(k) \/ RecordRun(k)
      PROVE  ThreadsInv'
  BY <1>5, StartThreadKeeps, SteerThreadKeeps, BeginRunKeeps, RecordRunKeeps
<1>6. ASSUME NEW k \in Calls, Ended(k)
      PROVE  ThreadsInv'
  BY <1>6, RunEndedKeeps, ReadEndKeeps, AppendEndKeeps, ReachWakeKeeps, WakeKeeps, WakeWaitKeeps,
     WakeStartKeeps DEF Ended
<1>7. ASSUME NEW k \in Calls, NEW t \in Thread, CreateThread(k, t) \/ MessageThread(k, t)
      PROVE  ThreadsInv'
  BY <1>7, CreateThreadKeeps, MessageThreadKeeps
<1> QED BY <1>1, <1>2, <1>3, <1>4, <1>5, <1>6, <1>7 DEF Next

(* ThreadsInv is inductive. *)
THEOREM ThreadsInvariant == Spec => []ThreadsInv
<1> QED BY InvInitially, InvInductive, PTL DEF Spec

(* While the coordinator is open, whatever its log shows as going on is    *)
(* waited for, except what a failed append or a recovery that failed left  *)
(* to the next recovery: closes, ends of the process and recoveries that   *)
(* overlap calls forget no run (closeInterruptedRuns, runFor, ended).      *)
THEOREM NoRunIsForgotten == Spec => []NoRunForgotten
<1>1. ThreadsInv => NoRunForgotten
  BY DEF ThreadsInv, Tended, Unread, NoRunForgotten
<1> QED BY <1>1, ThreadsInvariant, PTL

(* A run is noted at most once, only if nobody stopped it, and after its   *)
(* end is in the log; the note is lost only to the turns of others, two    *)
(* attempts to each, or to a coordinator that was closed (ended, wake).    *)
THEOREM NotesAreKept == Spec => []NotesKept
<1>1. ThreadsInv => NotesAreDue
  BY DEF ThreadsInv, WakesForReason, Due, NotesAreDue
<1>2. ThreadsInv => NotesSurviveRaces
  <2> SUFFICES ASSUME ThreadsInv, NEW k \in Calls, call[k].at = "over", call[k].cause \in {"done", "error"},
                      notes[k] = 0, closes = 0
               PROVE  2 * Cardinality(call[k].met) >= WakeAttempts
    BY DEF NotesSurviveRaces
  <2>1. call[k].tries <= 2 * Cardinality(call[k].met) /\ call[k].tries >= WakeAttempts
    BY DEF ThreadsInv, AttemptsPaid, Paid
  <2>2. call[k].tries \in Nat /\ WakeAttempts \in Nat /\ call[k].met \in SUBSET (1..sess[Coordinator].turn)
        /\ sess[Coordinator].turn \in Nat
    BY ThreadsAssumption DEF ThreadsInv, ThreadsTypeOK, CallRecord, SessionRecord, Sessions, AttemptsPaid, Paid
  <2>3. Cardinality(call[k].met) \in Nat
    BY <2>2, OneMore
  <2> QED BY <2>1, <2>2, <2>3
<1> QED BY <1>1, <1>2, ThreadsInvariant, PTL DEF NotesKept
=============================================================================
