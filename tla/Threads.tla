------------------------------ MODULE Threads ------------------------------
(***************************************************************************)
(* The sessions an open project runs turns in, and the threads of its      *)
(* coordinator: startTurn, send, ensureSession, resumeSession and          *)
(* closeSession of src/packages/sdk/src/sdk.ts, SdkThreadHost of           *)
(* sdk/src/threads.ts over them, and the recovery of runs                  *)
(* (subagent/src/recovery.ts) when the coordinator is opened.              *)
(*                                                                         *)
(* A call is one start_thread or message_thread with all that follows from *)
(* it: the thread's turn, its two records in the coordinator, the note     *)
(* that wakes the coordinator.  A step ends where the code awaits, and     *)
(* each may find its session closed, being opened or being closed.         *)
(***************************************************************************)
EXTENDS Naturals, FiniteSets

CONSTANTS
  Thread,                \* sessions of threads, numbered in the order of their creation
  Calls,                 \* calls of start_thread and message_thread, and
  Sends,                 \* messages of the user (turns.send), both numbered as they come
  MaxThreads,            \* THREAD_LIMITS.maxThreads
  MaxRunning,            \* THREAD_LIMITS.maxRunning
  WakeAttempts,          \* passes of the loop of wake
  MaxFaults              \* bound: sessions.close and ends of the process

ASSUME ThreadsAssumption ==
  /\ Thread \cup Calls \cup Sends \cup {MaxThreads, MaxRunning, WakeAttempts} \subseteq Nat \ {0}
  /\ Calls \cap Sends = {} /\ MaxFaults \in Nat

Coordinator == 0
NoOne == 0
Sessions == {Coordinator} \cup Thread

VARIABLES
  sess,      \* at: where ensureSession and closeSession are; phase and number of its turn
  call,      \* where each call is: at, its thread, the two turns, how the thread's turn ended
  send,      \* where each message of the user is
  starts,    \* calls whose subagent.start is in the coordinator's log
  ends,      \* how many subagent.end each has there
  unclosed,  \* runs the recovery has still to close
  left,      \* ghost: runs whose end could not be written, left to the next recovery
  notes,     \* how often the coordinator got the note of each call
  closes,    \* sessions of the coordinator closed
  faults

vars == <<sess, call, send, starts, ends, unclosed, left, notes, closes, faults>>
logs == <<starts, ends, unclosed, left>>
bounds == <<closes, faults>>

Away == {"absent", "closed", "opening"}
Init ==
  /\ sess = [s \in Sessions |-> [at |-> IF s = Coordinator THEN "open" ELSE "absent", by |-> NoOne,
                                 phase |-> "idle", turn |-> 0, cause |-> "none"]]
  /\ call = [k \in Calls |-> [at |-> "none", thread |-> Coordinator, turn |-> 0, childTurn |-> 0,
                              cause |-> "none", tries |-> 0, stale |-> FALSE, met |-> {}]]
  /\ send = [m \in Sends |-> [at |-> "none", to |-> Coordinator]]
  /\ starts = {} /\ ends = [k \in Calls |-> 0] /\ unclosed = {} /\ left = {} /\ notes = [k \in Calls |-> 0]
  /\ closes = 0 /\ faults = 0
-----------------------------------------------------------------------------
(* Sessions.                                                               *)

(* ensureSession: the tracked session at once, also while the recovery of  *)
(* a session that has just been opened still runs; only the one who opened *)
(* it waits for that.                                                      *)
Reach(s, j) == sess[s].at \notin Away /\ ~(sess[s].at \in {"tracked", "recovering"} /\ sess[s].by = j)
Open(s, j) ==
  /\ sess[s].at = "closed"
  /\ sess' = [sess EXCEPT ![s].at = "opening", ![s].by = j]
  /\ UNCHANGED <<call, send, logs, notes, bounds>>
Opened(s) ==
  /\ sess[s].at = "opening"
  /\ sess' = IF s = Coordinator THEN [sess EXCEPT ![s].at = "tracked"]
             ELSE [sess EXCEPT ![s].at = "open", ![s].by = NoOne]
  /\ UNCHANGED <<call, send, logs, notes, bounds>>

(* closeInterruptedRuns: the open runs are read once and closed in turn. *)
ReadRuns ==
  /\ sess[Coordinator].at = "tracked"
  /\ sess' = [sess EXCEPT ![Coordinator].at = "recovering"]
  /\ unclosed' = {k \in starts : ends[k] = 0} /\ left' = {}
  /\ UNCHANGED <<call, send, starts, ends, notes, bounds>>
CloseRun(k) ==
  /\ sess[Coordinator].at = "recovering" /\ k \in unclosed
  /\ unclosed' = unclosed \ {k} /\ ends' = [ends EXCEPT ![k] = @ + 1]
  /\ UNCHANGED <<sess, call, send, starts, left, notes, bounds>>
Recovered ==
  /\ sess[Coordinator].at = "recovering" /\ unclosed = {}
  /\ sess' = [sess EXCEPT ![Coordinator].at = "open", ![Coordinator].by = NoOne]
  /\ UNCHANGED <<call, send, logs, notes, bounds>>

(* A read or an append of the recovery fails: the error is reported and    *)
(* the session goes on as it is.                                           *)
Awaited == {"waiting", "ended", "reading", "appending"}
RecoveryFails ==
  /\ sess[Coordinator].at \in {"tracked", "recovering"}
  /\ sess' = [sess EXCEPT ![Coordinator].at = "open", ![Coordinator].by = NoOne]
  /\ LET due == IF sess[Coordinator].at = "tracked" THEN starts ELSE unclosed
     IN left' = left \cup {k \in due : ends[k] = 0 /\ call[k].at \notin Awaited}
  /\ unclosed' = {}
  /\ UNCHANGED <<call, send, starts, ends, notes, bounds>>

(* closeSession: a running turn is cancelled and waited for, the agent is  *)
(* closed (whoever holds its entry now holds a dead one), the entry goes.  *)
Shutting(q) ==
  [q EXCEPT !.at = IF q.phase = "idle" THEN "dead" ELSE "closing", !.by = NoOne,
            !.cause = IF q.phase = "live" THEN "shutdown" ELSE @]
Waking == {"waking", "wakeWait", "wakeStart"}
Stale(s) == [k \in Calls |-> IF s = Coordinator /\ call[k].at \in Waking THEN [call[k] EXCEPT !.stale = TRUE] ELSE call[k]]
CloseSession(s) ==
  /\ sess[s].at \in {"tracked", "recovering", "open"} /\ faults < MaxFaults
  /\ faults' = faults + 1 /\ closes' = IF s = Coordinator THEN closes + 1 ELSE closes
  /\ sess' = [sess EXCEPT ![s] = Shutting(@)]
  /\ unclosed' = IF s = Coordinator THEN {} ELSE unclosed
  /\ UNCHANGED <<call, send, starts, ends, left, notes>>
CloseAgent(s) ==
  /\ sess[s].at = "closing" /\ sess[s].phase = "idle"
  /\ sess' = [sess EXCEPT ![s].at = "dead"]
  /\ UNCHANGED <<call, send, logs, notes, bounds>>
SessionClosed(s) ==
  /\ sess[s].at = "dead"
  /\ sess' = [sess EXCEPT ![s].at = "closed"]
  /\ call' = Stale(s)
  /\ UNCHANGED <<send, logs, notes, bounds>>

(* The process ends; in the next one every session is closed. *)
Gone(at) == IF at \in {"none", "over", "failed"} THEN at ELSE "gone"
Restart ==
  /\ faults < MaxFaults /\ faults' = faults + 1
  /\ sess' = [s \in Sessions |-> IF sess[s].at = "absent" THEN sess[s]
                                 ELSE [sess[s] EXCEPT !.at = "closed", !.by = NoOne, !.phase = "idle", !.cause = "none"]]
  /\ call' = [k \in Calls |-> [call[k] EXCEPT !.at = Gone(@)]]
  /\ send' = [m \in Sends |-> [send[m] EXCEPT !.at = Gone(@)]]
  /\ unclosed' = {}
  /\ UNCHANGED <<starts, ends, left, notes, closes>>
-----------------------------------------------------------------------------
(* Turns.                                                                  *)

Begun(s) == [sess EXCEPT ![s].phase = "live", ![s].turn = @ + 1,
                         ![s].cause = IF sess[s].at = "closing" THEN "shutdown" ELSE "none"]

(* The turn takes no more messages; why it ended is settled.               *)
StopAccepting(s, cause) ==
  /\ sess[s].phase = "live"
  /\ cause = IF sess[s].cause = "shutdown" THEN "shutdown" ELSE cause
  /\ sess' = [sess EXCEPT ![s].phase = "ending", ![s].cause = IF s = Coordinator THEN "none" ELSE cause]
  /\ UNCHANGED <<call, send, logs, notes, bounds>>
(* turn.end is out (tally.ended); the outcome, the checkpoint and the      *)
(* learning signal follow.                                                 *)
EndTurn(s) ==
  /\ sess[s].phase = "ending"
  /\ sess' = [sess EXCEPT ![s].phase = "finishing"]
  /\ UNCHANGED <<call, send, logs, notes, bounds>>
(* done settles: the call that started the turn goes on. *)
OfTurn(k, s) == call[k].thread = s /\ call[k].childTurn = sess[s].turn
TurnDone(s) ==
  /\ sess[s].phase = "finishing"
  /\ sess' = [sess EXCEPT ![s].phase = "idle", ![s].cause = "none"]
  /\ call' = [k \in Calls |->
       IF s = Coordinator \/ ~OfTurn(k, s) THEN call[k]
       ELSE [call[k] EXCEPT !.cause = sess[s].cause, !.at = IF @ = "waiting" THEN "ended" ELSE @]]
  /\ UNCHANGED <<send, logs, notes, bounds>>

(* send: join the running turn, or wait for one that is over, or start one *)
(* (after another await).                                                  *)
Send(m, s) ==
  /\ send[m].at = "none" /\ \A q \in Sends : q < m => send[q].at # "none"
  /\ sess[s].at # "absent"
  /\ send' = [send EXCEPT ![m] = [at |-> "checking", to |-> s]]
  /\ UNCHANGED <<sess, call, logs, notes, bounds>>
SendCheck(m) ==
  LET s == send[m].to
  IN /\ send[m].at = "checking" /\ Reach(s, m) /\ sess[s].phase \in {"idle", "live"}
     /\ send' = [send EXCEPT ![m].at = IF sess[s].phase = "live" THEN "over" ELSE "starting"]
     /\ UNCHANGED <<sess, call, logs, notes, bounds>>
(* startTurn: waits for a turn that is finishing, refuses (session/locked) *)
(* while one runs.                                                         *)
MayStart(s, j) == Reach(s, j) /\ sess[s].phase # "finishing"
SendStart(m) ==
  LET s == send[m].to
  IN /\ send[m].at = "starting" /\ MayStart(s, m)
     /\ send' = [send EXCEPT ![m].at = "over"]
     /\ sess' = IF sess[s].phase = "idle" /\ sess[s].at # "dead" THEN Begun(s) ELSE sess
     /\ UNCHANGED <<call, logs, notes, bounds>>
-----------------------------------------------------------------------------
(* start_thread and message_thread.                                        *)

FirstAbsent(t) == sess[t].at = "absent" /\ \A u \in Thread : u < t => sess[u].at # "absent"
Existing == {t \in Thread : sess[t].at # "absent"}
Running == {t \in Thread : sess[t].phase # "idle"}
(* A tool call of the running turn; one at a time, but one that has been   *)
(* given up goes on behind the next turn.                                  *)
MayCall(k) ==
  /\ call[k].at = "none" /\ \A q \in Calls : q < k => call[q].at # "none"
  /\ sess[Coordinator].phase = "live" /\ sess[Coordinator].at # "dead"
  /\ \A q \in Calls : call[q].at \in {"listing", "steering", "starting", "recording"} =>
       call[q].turn # sess[Coordinator].turn
Called(k, at, t) == [call EXCEPT ![k].at = at, ![k].thread = t, ![k].turn = sess[Coordinator].turn]

StartThread(k) ==
  /\ MayCall(k)
  /\ IF Cardinality(Existing) >= MaxThreads \/ Cardinality(Running) >= MaxRunning THEN call' = [call EXCEPT ![k].at = "over"]
     ELSE call' = Called(k, "listing", Coordinator)
  /\ UNCHANGED <<sess, send, logs, notes, bounds>>
CreateThread(k, t) ==
  /\ call[k].at = "listing" /\ FirstAbsent(t)
  /\ sess' = [sess EXCEPT ![t].at = "open"]
  /\ call' = [call EXCEPT ![k].at = "starting", ![k].thread = t]
  /\ UNCHANGED <<send, logs, notes, bounds>>
MessageThread(k, t) ==
  /\ MayCall(k) /\ sess[t].at # "absent"
  /\ call' = Called(k, "steering", t)
  /\ UNCHANGED <<sess, send, logs, notes, bounds>>
(* Into the running turn of the thread, or else a new one. *)
SteerThread(k) ==
  LET t == call[k].thread
  IN /\ call[k].at = "steering" /\ Reach(t, k)
     /\ call' = [call EXCEPT ![k].at = IF sess[t].phase = "live" /\ sess[t].at # "dead" THEN "over" ELSE "starting"]
     /\ UNCHANGED <<sess, send, logs, notes, bounds>>

(* runFor: the turn, then its record, which is refused unless the turn of  *)
(* the call is the one that runs (until its checkpoint is taken), and may  *)
(* fail.  A turn of a closed agent fails at once.                          *)
BeginRun(k) ==
  LET t == call[k].thread
      started == [call EXCEPT ![k].at = "recording", ![k].childTurn = sess[t].turn + 1]
  IN /\ call[k].at = "starting" /\ MayStart(t, k)
     /\ IF sess[t].phase # "idle" THEN call' = [call EXCEPT ![k].at = "over"] /\ UNCHANGED sess
        ELSE IF sess[t].at = "dead"
        THEN call' = [started EXCEPT ![k].cause = "error", ![k].childTurn = 0] /\ UNCHANGED sess
        ELSE call' = started /\ sess' = Begun(t)
     /\ UNCHANGED <<send, logs, notes, bounds>>
RecordRun(k) ==
  LET c == sess[Coordinator]
  IN /\ call[k].at = "recording" /\ Reach(Coordinator, k)
     /\ \/ c.at # "dead" /\ c.phase # "idle" /\ c.turn = call[k].turn /\ starts' = starts \cup {k}
        \/ UNCHANGED starts
     /\ call' = [call EXCEPT ![k].at = IF call[k].cause = "none" THEN "waiting" ELSE "ended"]
     /\ UNCHANGED <<sess, send, ends, unclosed, left, notes, bounds>>
-----------------------------------------------------------------------------
(* ended: the record of the end, unless it is there, then the note.        *)

(* Mutant: the stop of the user wakes the coordinator as well. *)
AfterEndAlways(k) == IF call[k].cause = "shutdown" THEN "over" ELSE "reaching"

(* What comes after the record: a run the user or a shutdown stopped does  *)
(* not wake the coordinator.                                               *)
AfterEnd(k) == IF call[k].cause \in {"shutdown", "user"} THEN "over" ELSE "reaching"

(* Mutant: a run that was stopped gets no record. *)
RunEndedSilently(k) ==
  /\ call[k].at = "ended"
  /\ IF k \in starts /\ AfterEnd(k) # "over"
     THEN Reach(Coordinator, k) /\ call' = [call EXCEPT ![k].at = "reading"]
     ELSE call' = [call EXCEPT ![k].at = AfterEnd(k)]
  /\ UNCHANGED <<sess, send, logs, notes, bounds>>

RunEnded(k) ==
  /\ call[k].at = "ended"
  /\ IF k \in starts
     THEN Reach(Coordinator, k) /\ call' = [call EXCEPT ![k].at = "reading"]
     ELSE call' = [call EXCEPT ![k].at = AfterEnd(k)]
  /\ UNCHANGED <<sess, send, logs, notes, bounds>>
ReadEnd(k) ==
  /\ call[k].at = "reading"
  /\ \/ call' = [call EXCEPT ![k].at = "appending"]                  \* also when it cannot be read
     \/ ends[k] > 0 /\ call' = [call EXCEPT ![k].at = AfterEnd(k)]
  /\ UNCHANGED <<sess, send, logs, notes, bounds>>
AppendEnd(k) ==
  /\ call[k].at = "appending" /\ Reach(Coordinator, k)
  /\ \/ /\ sess[Coordinator].at # "dead"
        /\ call' = [call EXCEPT ![k].at = AfterEnd(k)] /\ ends' = [ends EXCEPT ![k] = @ + 1]
        /\ UNCHANGED left
     \/ /\ call' = [call EXCEPT ![k].at = "failed"] /\ left' = left \cup {k}
        /\ UNCHANGED ends
  /\ UNCHANGED <<sess, send, starts, unclosed, notes, bounds>>

(* wake: it looks at the entry it once got, a start looks again. *)
ReachWake(k) ==
  /\ call[k].at = "reaching" /\ Reach(Coordinator, k)
  /\ call' = [call EXCEPT ![k].at = "waking", ![k].stale = FALSE]
  /\ UNCHANGED <<sess, send, logs, notes, bounds>>
Delivered(k) == call' = [call EXCEPT ![k].at = "over"] /\ notes' = [notes EXCEPT ![k] = @ + 1]

Failed(k, at) ==
  LET q == call[k] IN [q EXCEPT !.at = IF q.tries + 1 = WakeAttempts THEN "over" ELSE at,
                                !.tries = @ + 1, !.met = @ \cup {sess[Coordinator].turn}]

(* Mutant: a running turn is waited for, not joined. *)
WakeNext(k) ==
  /\ call[k].at = "waking"
  /\ call[k].stale \/ sess[Coordinator].phase = "idle"
  /\ call' = [call EXCEPT ![k].at = "wakeStart"]
  /\ UNCHANGED <<sess, send, logs, notes, bounds>>

Wake(k) ==
  LET c == sess[Coordinator]
      idle == call[k].stale \/ c.phase = "idle"
  IN /\ call[k].at = "waking"
     /\ \/ idle /\ call' = [call EXCEPT ![k].at = "wakeStart"] /\ UNCHANGED notes
        \/ ~idle /\ c.phase = "live" /\ Delivered(k)
        \/ ~idle /\ c.phase # "live" /\ call' = [call EXCEPT ![k] = Failed(k, "wakeWait")] /\ UNCHANGED notes
     /\ UNCHANGED <<sess, send, logs, bounds>>
WakeWait(k) ==
  /\ call[k].at = "wakeWait"
  /\ call[k].stale \/ sess[Coordinator].phase = "idle" \/ sess[Coordinator].turn \notin call[k].met
  /\ call' = [call EXCEPT ![k].at = "waking"]
  /\ UNCHANGED <<sess, send, logs, notes, bounds>>
WakeStart(k) ==
  LET c == sess[Coordinator]
  IN /\ call[k].at = "wakeStart" /\ MayStart(Coordinator, k)
     /\ IF c.at = "dead" /\ c.phase = "idle"
        THEN call' = [call EXCEPT ![k].at = "over"] /\ UNCHANGED <<sess, notes>>
        ELSE IF c.phase = "idle"
        THEN Delivered(k) /\ sess' = Begun(Coordinator)
        ELSE call' = [call EXCEPT ![k] = Failed(k, "waking")] /\ UNCHANGED <<sess, notes>>
     /\ UNCHANGED <<send, logs, bounds>>
-----------------------------------------------------------------------------
Ended(k) == RunEnded(k) \/ ReadEnd(k) \/ AppendEnd(k) \/ ReachWake(k) \/ Wake(k) \/ WakeWait(k) \/ WakeStart(k)
(* Who is about to ask ensureSession for a session. *)
AtThread == {"steering", "starting"}
AtCoordinator == {"recording", "appending", "reaching", "wakeStart"}
Who(s) ==
  {m \in Sends : send[m].at \in {"checking", "starting"} /\ send[m].to = s}
  \cup {k \in Calls : call[k].at \in AtThread /\ call[k].thread = s}
  \cup {k \in Calls : s = Coordinator /\ (call[k].at \in AtCoordinator \/ (call[k].at = "ended" /\ k \in starts))}
Session(s) ==
  \/ \E j \in Who(s) : Open(s, j)
  \/ Opened(s) \/ CloseAgent(s) \/ SessionClosed(s) \/ EndTurn(s) \/ TurnDone(s)
Recovery == ReadRuns \/ Recovered \/ RecoveryFails \/ \E k \in Calls : CloseRun(k)
Next ==
  \/ \E s \in Sessions : \/ Session(s) \/ CloseSession(s) \/ Open(s, NoOne)
                         \/ \E c \in {"done", "user"} : StopAccepting(s, c)
  \/ Recovery \/ Restart
  \/ \E m \in Sends : SendCheck(m) \/ SendStart(m) \/ \E s \in Sessions : Send(m, s)
  \/ \E k \in Calls : StartThread(k) \/ SteerThread(k) \/ BeginRun(k) \/ RecordRun(k) \/ Ended(k)
  \/ \E k \in Calls, t \in Thread : CreateThread(k, t) \/ MessageThread(k, t)

Spec == Init /\ [][Next]_vars

(* What has been begun goes on: a session opens and closes, its recovery   *)
(* ends, a turn that has stopped ends, ended() takes its next step.  Turns *)
(* may run for ever.                                                       *)
FairSpec ==
  /\ Spec /\ WF_vars(Recovery)
  /\ \A s \in Sessions : WF_vars(Session(s))
  /\ \A k \in Calls : WF_vars(Ended(k))
-----------------------------------------------------------------------------
(* No run is forgotten: while the coordinator is open, a run that its log  *)
(* shows as going on is one that somebody waits for, and whose end he will *)
(* write, or one whose end could not be written since the last recovery    *)
(* read the log (runFor, ended, closeInterruptedRuns).                     *)
NoRunForgotten ==
  sess[Coordinator].at = "open" => \A k \in starts : ends[k] > 0 \/ call[k].at \in Awaited \/ k \in left

(* The coordinator gets at most one note of a run, none of a run that the  *)
(* user or a shutdown stopped, and only when its log has the end of the    *)
(* run (ended, docs/spec/data-formats.md on waking).                       *)
NotesAreDue ==
  \A k \in Calls : notes[k] > 0 =>
    /\ notes[k] = 1 /\ call[k].cause \in {"done", "error"}
    /\ k \in starts => ends[k] > 0

(* A run whose end is in the log or never had a start there loses its note *)
(* only when turns of others kept coming in between: at most two of the    *)
(* attempts are lost to one turn, unless the coordinator is closed         *)
(* meanwhile (wake).                                                       *)
NotesSurviveRaces ==
  \A k \in Calls : call[k].at = "over" /\ call[k].cause \in {"done", "error"} /\ notes[k] = 0 /\ closes = 0 =>
    2 * Cardinality(call[k].met) >= WakeAttempts

(* The coordinator hears of every end that it is due, once, and of no      *)
(* other (ended, wake).                                                    *)
NotesKept == NotesAreDue /\ NotesSurviveRaces

(* Once a run has ended its bookkeeping comes to an end or to a failed     *)
(* append, however long other turns go on (ended, wake).                   *)
InEnding == {"ended", "reading", "appending", "reaching"} \cup Waking
BookkeepingEnds == \A k \in Calls : call[k].at \in InEnding ~> call[k].at \in {"over", "failed", "gone"}

=============================================================================
