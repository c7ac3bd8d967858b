--------------------------- MODULE LearningQueue ---------------------------
(***************************************************************************)
(* The learning queue of a project: queue.json and worker.lock of          *)
(* src/packages/evolve/src/learning/queue.ts, and the LearningHost of each *)
(* app process (learning/host.ts) that fills the queue at the end of the   *)
(* turns and works it in the background, one item at a time.               *)
(*                                                                         *)
(* A change of queue.json is one step: it is made under queue.lock and     *)
(* written by a rename.  worker.lock names a process; the lock of a dead   *)
(* one is "stale" and whoever finds it takes it.  The history, of which    *)
(* the code keeps the last 500 entries, is kept whole.                     *)
(***************************************************************************)
EXTENDS Naturals, FiniteSets, Sequences, SequencesExt, FiniteSetsExt, Functions

CONSTANTS
  Tasks,          \* root tasks
  Hosts,          \* app processes with the project open
  MaxAttempts,    \* MAX_ATTEMPTS
  MaxPending,     \* MAX_PENDING
  MaxTurn,        \* bound: turns of each task
  MaxFaults       \* bound: crashes, exits, and changes of what the user or the budget allows

ASSUME LearningAssumption ==
  /\ MaxAttempts \in Nat \ {0} /\ MaxPending \in Nat \ {0} /\ MaxTurn \in [Tasks -> Nat] /\ MaxFaults \in Nat
  /\ "none" \notin Hosts /\ "stale" \notin Hosts

VARIABLES
  items,      \* queue.json: what waits or is worked on, in order
  history,    \* queue.json: what has been learned from or given up, in order
  worker,     \* worker.lock: a host, "none", or "stale" when its process is dead
  host,       \* each LearningHost: where its start and its loop are, and its fields
  allowed,    \* what mayLearn and the budget say: "yes", "budget" (used up) or "no"
  queued,     \* the turns of each task that were put into the queue
  dropped,    \* <<task, turn>> of items dropped because the queue was full
  faults

learningVars == <<items, history, worker, host, allowed, queued, dropped, faults>>
queueFile == <<items, history, dropped>>

NoItem == [task |-> "none", from |-> 0, turn |-> 0, status |-> "none", attempts |-> 0]
Down == [boot |-> "down", loop |-> "idle", again |-> FALSE, stopped |-> FALSE, kicks |-> FALSE,
         item |-> NoItem, learned |-> FALSE, aborted |-> FALSE]

LearningInit ==
  /\ items = <<>> /\ history = <<>> /\ dropped = {}
  /\ worker = "none" /\ host = [h \in Hosts |-> Down] /\ allowed = "yes"
  /\ queued = [t \in Tasks |-> {}] /\ faults = 0

Running(i) == i.status = "running"
Waiting(i) == ~Running(i)
TurnsOf(i) == {<<i.task, n>> : n \in i.from..i.turn}

(* updateLearningQueue: the last MaxPending items are kept. *)
Save(s) ==
  LET over == IF Len(s) > MaxPending THEN Len(s) - MaxPending ELSE 0
  IN /\ items' = SubSeq(s, over + 1, Len(s))
     /\ dropped' = dropped \cup UNION {TurnsOf(s[k]) : k \in 1..over}

(* The members of a sequence at some of its places. *)
Those(s, places) ==
  LET place == CHOOSE p \in Bijection(1..Cardinality(places), places) : \A j, k \in DOMAIN p : j < k => p[j] < p[k]
  IN [k \in 1..Cardinality(places) |-> s[place[k]]]

Set(h, r) == host' = [host EXCEPT ![h] = r]
-----------------------------------------------------------------------------
KickIdle(r) == IF r.stopped \/ r.loop # "idle" THEN r ELSE [r EXCEPT !.loop = "enter", !.again = FALSE]

(* kick: a loop that runs is asked for another pass. *)
Kick(r) ==
  IF r.stopped THEN r
  ELSE IF r.loop = "idle" THEN [r EXCEPT !.loop = "enter", !.again = FALSE]
  ELSE [r EXCEPT !.again = TRUE]

TakeWorker(h) == worker \in {"none", "stale"} /\ worker' = h

(* start: what a dead process left running is put back, by the one who     *)
(* gets worker.lock; then the queue is worked.                             *)
StartReset(h) ==
  /\ host[h].boot = "down" /\ \E i \in ToSet(items) : Running(i)
  /\ TakeWorker(h) /\ Set(h, [Down EXCEPT !.boot = "resetting"])
  /\ UNCHANGED <<queueFile, allowed, queued, faults>>
StartPlain(h) ==
  /\ host[h].boot = "down"
  /\ (\E i \in ToSet(items) : Running(i)) => worker \in Hosts
  /\ Set(h, Kick([Down EXCEPT !.boot = "up"]))
  /\ UNCHANGED <<queueFile, worker, allowed, queued, faults>>
Reset(h) ==
  /\ host[h].boot = "resetting"
  /\ Save([k \in DOMAIN items |-> IF Running(items[k]) THEN [items[k] EXCEPT !.status = "pending"] ELSE items[k]])
  /\ Set(h, [host[h] EXCEPT !.boot = "releasing"])
  /\ UNCHANGED <<history, worker, allowed, queued, faults>>
Started(h) ==
  /\ host[h].boot = "releasing" /\ worker' = "none"
  /\ Set(h, Kick([host[h] EXCEPT !.boot = "up"]))
  /\ UNCHANGED <<queueFile, allowed, queued, faults>>
-----------------------------------------------------------------------------
(* enqueueItem: the turn takes the place of the item of its task that      *)
(* waits, and with it the turns that item was to cover.                    *)
WaitingOf(t) == SelectInSeq(items, LAMBDA i : i.task = t /\ ~Running(i))
RunningOf(t) == SelectInSeq(items, LAMBDA i : i.task = t /\ Running(i))
Learned(t) == Max({0} \cup {e.through : e \in {x \in ToSet(history) : x.task = t}})
NextAfter(t) == IF RunningOf(t) > 0 THEN items[RunningOf(t)].turn + 1 ELSE Learned(t) + 1

FromTurn(t) ==
  IF WaitingOf(t) > 0 THEN items[WaitingOf(t)].from
  ELSE IF RunningOf(t) > 0 THEN items[RunningOf(t)].turn + 1
  ELSE Learned(t) + 1
EnqueueItem(t, n) ==
  LET rest == IF WaitingOf(t) > 0 THEN RemoveAt(items, WaitingOf(t)) ELSE items
  IN IF n <= Learned(t) \/ n < FromTurn(t) THEN Save(items)
     ELSE Save(Append(rest, [task |-> t, from |-> FromTurn(t), turn |-> n, status |-> "pending", attempts |-> 0]))

(* noteTurnEnd: a turn to learn from is put into the queue, then the loop  *)
(* is woken.  A turn takes a request to the model: it does not end before  *)
(* start has put the few bytes of its queue back.  Turns in between are    *)
(* those that learnsFrom, or the project's switch, rejects.                *)
Latest(t) == Max({0} \cup queued[t])
TurnEnds(h, t) ==
  /\ host[h].boot = "up" /\ ~host[h].kicks
  /\ \E n \in Latest(t) + 1..MaxTurn[t] : EnqueueItem(t, n) /\ queued' = [queued EXCEPT ![t] = @ \cup {n}]
  /\ Set(h, [host[h] EXCEPT !.kicks = TRUE])
  /\ UNCHANGED <<history, worker, allowed, faults>>
Kicked(h) ==
  /\ host[h].kicks /\ Set(h, [Kick(host[h]) EXCEPT !.kicks = FALSE])
  /\ UNCHANGED <<queueFile, worker, allowed, queued, faults>>
-----------------------------------------------------------------------------
(* The loop of kick around work. *)
Goto(h, l) == Set(h, [host[h] EXCEPT !.loop = l, !.item = NoItem, !.learned = FALSE, !.aborted = FALSE])
(* takeWorker: when another process works the queue the pass is over.      *)
Enter(h) ==
  /\ host[h].loop = "enter"
  /\ IF worker \in Hosts THEN Goto(h, "end") /\ UNCHANGED worker ELSE TakeWorker(h) /\ Goto(h, "look")
  /\ UNCHANGED <<queueFile, allowed, queued, faults>>
Look(h) ==
  LET free == SelectInSeq(items, Waiting)
  IN /\ host[h].loop = "look"
     /\ IF host[h].stopped \/ free = 0 THEN Goto(h, "release")
        ELSE Set(h, [host[h] EXCEPT !.loop = "ask", !.item = [NoItem EXCEPT !.task = items[free].task]])
     /\ UNCHANGED <<queueFile, worker, allowed, queued, faults>>
Forbidden(h) ==
  /\ host[h].loop = "ask" /\ allowed = "no" /\ Goto(h, "release")
  /\ UNCHANGED <<queueFile, worker, allowed, queued, faults>>
(* setStatus *)
NoBudget(h) ==
  /\ host[h].loop = "ask" /\ allowed = "budget" /\ Goto(h, "release")
  /\ Save([k \in DOMAIN items |-> IF Running(items[k]) THEN items[k] ELSE [items[k] EXCEPT !.status = "budget"]])
  /\ UNCHANGED <<history, worker, allowed, queued, faults>>
Claim(h) ==
  /\ host[h].loop = "ask" /\ allowed = "yes"
  /\ LET found == WaitingOf(host[h].item.task)
     IN IF found = 0 THEN Save(items) /\ Goto(h, "look")
        ELSE LET mine == [items[found] EXCEPT !.status = "running", !.attempts = @ + 1]
             IN /\ Save([items EXCEPT ![found] = mine])
                /\ Set(h, [host[h] EXCEPT !.loop = "learning", !.item = mine, !.aborted = FALSE])
  /\ UNCHANGED <<history, worker, allowed, queued, faults>>
(* learnFrom returns, or throws; also after an abort it may still return.  *)
LearnEnds(h) ==
  /\ host[h].loop = "learning"
  /\ \E l \in BOOLEAN : Set(h, [host[h] EXCEPT !.loop = "finish", !.learned = l])
  /\ UNCHANGED <<queueFile, worker, allowed, queued, faults>>

Entry(i) == [task |-> i.task, from |-> i.from, through |-> i.turn]
Finish(h) ==
  LET i == host[h].item
      rest == Those(items, {k \in DOMAIN items : ~(items[k].task = i.task /\ Running(items[k]))})
      again == [i EXCEPT !.status = "pending"]
      keep == host[h].learned \/ (~host[h].aborted /\ i.attempts >= MaxAttempts)
  IN /\ host[h].loop = "finish" /\ Goto(h, "look")
     /\ history' = IF keep THEN Append(history, Entry(i)) ELSE history
     /\ Save(IF keep THEN rest
             ELSE IF host[h].aborted THEN <<[again EXCEPT !.attempts = @ - 1]>> \o rest
             ELSE Append(rest, again))
     /\ UNCHANGED <<worker, allowed, queued, faults>>
Release(h) ==
  /\ host[h].loop = "release" /\ worker' = "none" /\ Goto(h, "end")
  /\ UNCHANGED <<queueFile, allowed, queued, faults>>
LoopEnds(h) ==
  /\ host[h].loop = "end"
  /\ Set(h, [host[h] EXCEPT !.loop = IF host[h].again /\ ~host[h].stopped THEN "enter" ELSE "idle", !.again = FALSE])
  /\ UNCHANGED <<queueFile, worker, allowed, queued, faults>>
-----------------------------------------------------------------------------
(* stop: a running request is aborted; the app ends when the loop has.     *)
Stop(h) ==
  /\ host[h].boot = "up" /\ ~host[h].stopped /\ faults < MaxFaults /\ faults' = faults + 1
  /\ Set(h, [host[h] EXCEPT !.stopped = TRUE, !.aborted = (host[h].loop = "learning")])
  /\ UNCHANGED <<queueFile, worker, allowed, queued>>
Exit(h) ==
  /\ host[h].stopped /\ host[h].loop = "idle" /\ Set(h, Down)
  /\ UNCHANGED <<queueFile, worker, allowed, queued, faults>>
Crash(h) ==
  /\ host[h].boot # "down" /\ faults < MaxFaults /\ faults' = faults + 1
  /\ Set(h, Down) /\ worker' = IF worker = h THEN "stale" ELSE worker
  /\ UNCHANGED <<queueFile, allowed, queued>>
Allow ==
  /\ faults < MaxFaults /\ faults' = faults + 1
  /\ allowed' \in {"yes", "budget", "no"} \ {allowed}
  /\ UNCHANGED <<queueFile, worker, host, queued>>

Start(h) == StartReset(h) \/ StartPlain(h) \/ Reset(h) \/ Started(h)
Loop(h) ==
  \/ Kicked(h) \/ Enter(h) \/ Look(h) \/ Forbidden(h) \/ NoBudget(h) \/ Claim(h)
  \/ LearnEnds(h) \/ Finish(h) \/ Release(h) \/ LoopEnds(h)
LearningNext ==
  \/ \E h \in Hosts : Start(h) \/ Loop(h) \/ Stop(h) \/ Exit(h) \/ Crash(h) \/ \E t \in Tasks : TurnEnds(h, t)
  \/ Allow
LearningSpec == LearningInit /\ [][LearningNext]_learningVars

(* A start that has begun and a loop that has been woken go on: their      *)
(* awaits return, and a reflection ends by an answer, an error or a        *)
(* timeout.                                                                *)
FairLearningSpec == LearningSpec /\ \A h \in Hosts : WF_learningVars(Reset(h) \/ Started(h)) /\ WF_learningVars(Loop(h))
-----------------------------------------------------------------------------
(* No turn is lost: one that was queued is covered by an item that waits   *)
(* or runs, or by an entry of the history, unless it was dropped from a    *)
(* full queue (enqueueItem, #finish, start; queue.ts:9 "covers every turn  *)
(* since the last one learned from").                                      *)
TurnsKept ==
  \A t \in Tasks : \A n \in queued[t] :
    \/ <<t, n>> \in dropped
    \/ \E i \in ToSet(items) : <<t, n>> \in TurnsOf(i)
    \/ \E e \in ToSet(history) : e.task = t /\ n \in e.from..e.through

(* An item does not wait for ever beside a host that is up and a queue     *)
(* that may be worked: whoever is woken while the loop is about to end     *)
(* gets his pass (kick, #again, start).                                    *)
Idling(h) ==
  host[h].boot = "up" /\ ~host[h].stopped /\ \E i \in ToSet(items) : i.status = "pending"
QueueWorked == [](allowed # "no") => \A h \in Hosts : []<>~Idling(h)

=============================================================================
