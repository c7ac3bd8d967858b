----------------------------- MODULE ToolCalls -----------------------------
(***************************************************************************)
(* The tool calls of an agent's turns and the approvals they ask for:      *)
(* runTools, runTool, executeTool, finishTool, authorize and the class     *)
(* Limit of src/packages/kernel/src/agent.ts, scheduleToolCalls of         *)
(* contracts/tools.ts, ApprovalBrokerService of approvals.ts.              *)
(*                                                                         *)
(* Where two calls meet inside one macrotask (the two limits of a batch)   *)
(* the model follows the first-in first-out queue of promise jobs, one for *)
(* each batch, as jobs of two batches have nothing in common.  A handler   *)
(* may settle between two of them, and a user may cancel; every other step *)
(* is a macrotask and waits until those queues are empty.                  *)
(* A turn whose result cannot be recorded ends at once; the calls of its   *)
(* batch run on, within the limits of that batch, while later turns run.   *)
(* A call is its kind and the subject it needs approval for.               *)
(***************************************************************************)
EXTENDS Naturals, Sequences, FiniteSets, SequencesExt

CONSTANTS
  Scripts,       \* the calls the model may make: turns, each a sequence of calls
  Subjects,      \* what a call needs approval for
  MaxCalls,      \* MAX_CONCURRENT_CALLS
  MaxMembers,    \* COLLABORATION_LIMITS.maxConcurrentMembers
  MaxFaults      \* bound: tool.result records that cannot be appended

(* "ask": asks before it runs; "code": run_code, asks while it runs and    *)
(* stops by itself at its deadline; "reader": asks while it runs;          *)
(* "plain": never asks; "delegate": starts a member.  The last three are   *)
(* concurrent tools.                                                       *)
Kinds == {"ask", "code", "reader", "plain", "delegate"}
Asking == {"ask", "code", "reader"}

ASSUME LimitsAssumption == MaxCalls \in Nat \ {0} /\ MaxMembers \in Nat \ {0} /\ MaxFaults \in Nat
ASSUME ScriptsAssumption ==
  \A s \in Scripts : s \in Seq(Seq([kind : Kinds, subject : Subjects]))

VARIABLES
  script,   \* the calls of this behaviour
  turn,     \* the turn that runs, or the last one
  phase,    \* idle, running
  failed,   \* the turns in which the append of a result failed: they end in error
  batch,    \* batch[t]: the calls of the batch of turn t that runs, in call order
  stage,    \* where runTool of each call stands
  hand,     \* where its handler stands; it may outlive the call
  output,   \* what the call gave
  slots,    \* slots[t]: Limit(MaxCalls) of that batch: active, waiting
  members,  \* members[t]: Limit(MaxMembers) of that batch
  jobs,     \* jobs[t]: its promise jobs of the current macrotask
  written,  \* the tool.result records, in order
  asks,     \* approvalQueue: the questions in order, the first is handled
  q,        \* the first question: none, requested, open, decided
  decision, \* what was decided
  grants,   \* sessionGrants
  denials,  \* turnDenials
  aborted,  \* the turns whose signal has fired
  log,      \* approval.request and approval.decision records, with the turn that ran then
  faults

handling == <<slots, members, jobs>>
asking == <<asks, q, decision, grants, denials, log>>
turns == <<script, turn, phase, failed>>
vars == <<turns, batch, stage, hand, output, slots, members, jobs, written,
          asks, q, decision, grants, denials, aborted, log, faults>>

Calls == UNION {{<<t, i>> : i \in DOMAIN script[t]} : t \in DOMAIN script}
Kind(c) == script[c[1]][c[2]].kind
Subject(c) == script[c[1]][c[2]].subject
Concurrent(c) == Kind(c) \in {"reader", "plain", "delegate"}
Cancelled(c) == c[1] \in aborted

(* The jobs are done and no call is on its way to its place in the batch. *)
Quiet == (\A t \in DOMAIN script : jobs[t] = <<>>) /\ \A c \in Calls : stage[c] # "unwind"
Begun == UNION {{<<t, i>> : i \in DOMAIN script[t]} : t \in 1..turn}
Unanswered == {c \in Calls : c[1] = turn /\ stage[c] = "new"}
Idle == [active |-> 0, waiting |-> <<>>]

Init ==
  /\ script \in Scripts
  /\ turn = 0 /\ phase = "idle" /\ failed = {} /\ batch = [t \in DOMAIN script |-> <<>>]
  /\ stage = [c \in Calls |-> "new"] /\ hand = [c \in Calls |-> "none"]
  /\ output = [c \in Calls |-> "none"]
  /\ slots = [t \in DOMAIN script |-> Idle] /\ members = [t \in DOMAIN script |-> Idle]
  /\ jobs = [t \in DOMAIN script |-> <<>>] /\ written = <<>>
  /\ asks = <<>> /\ q = "none" /\ decision = "none"
  /\ grants = {} /\ denials = {} /\ aborted = {} /\ log = <<>> /\ faults = 0
-----------------------------------------------------------------------------
(* The turn.                                                               *)

(* A turn starts with no denials; grants and open questions stay, and so   *)
(* do the calls a failed turn left running.                                *)
BeginTurn ==
  /\ phase = "idle" /\ turn < Len(script)
  /\ turn' = turn + 1 /\ phase' = "running" /\ denials' = {}
  /\ UNCHANGED <<script, failed, batch, stage, hand, output, handling, written, asks, q, decision, grants,
                 aborted, log, faults>>

(* All calls have their results; or one could not be recorded, and the     *)
(* turn ends in error.                                                     *)
EndTurn ==
  /\ phase = "running"
  /\ turn \in failed \/ (batch[turn] = <<>> /\ Unanswered = {})
  /\ phase' = "idle"
  /\ UNCHANGED <<script, turn, failed, batch, stage, hand, output, handling, written, asking, aborted, faults>>

(* The user cancels: the signal of this turn; a question that was asked    *)
(* with that signal is decided.                                            *)
Cancel ==
  /\ phase = "running" /\ turn \notin aborted
  /\ aborted' = aborted \cup {turn}
  /\ IF q = "open" /\ Head(asks)[1] = turn
     THEN q' = "decided" /\ decision' = "cancel"
     ELSE UNCHANGED <<q, decision>>
  /\ UNCHANGED <<turns, batch, stage, hand, output, handling, written, asks, grants,
                 denials, log, faults>>
-----------------------------------------------------------------------------
(* A batch.  scheduleToolCalls: consecutive concurrent calls are together, *)
(* every other call is alone.                                              *)
FirstLeft == CHOOSE c \in Unanswered : \A d \in Unanswered : c[2] <= d[2]
Together(c, n) == \A i \in c[2]..n : Concurrent(<<c[1], i>>)
NextBatch ==
  LET c == FirstLeft
      last == IF Concurrent(c)
              THEN CHOOSE n \in c[2]..Len(script[turn]) :
                     Together(c, n) /\ (n = Len(script[turn]) \/ ~Together(c, n + 1))
              ELSE c[2]
  IN [i \in 1..(last - c[2] + 1) |-> <<turn, c[2] + i - 1>>]

(* What a batch in progress is made of: its limits and the stages. *)
Batch(sl, me, st, ha) == [slots |-> sl, members |-> me, stage |-> st, hand |-> ha]
Now(t) == Batch(slots[t], members[t], stage, hand)

(* Limit.run: `active += 1`, and `waiting.push`. *)
Taken(limit) == [active |-> limit.active + 1, waiting |-> limit.waiting]
Queued(limit, c) == [active |-> limit.active, waiting |-> Append(limit.waiting, c)]

RunCall(b, c) == [b EXCEPT !.stage[c] = "run", !.hand[c] = "run"]
(* Limit.run up to the task: wait for a slot, or take it. *)
EnterSlots(b, c) ==
  IF b.slots.active >= MaxCalls
  THEN [b EXCEPT !.slots = Queued(@, c), !.stage[c] = "waiting"]
  ELSE RunCall([b EXCEPT !.slots = Taken(@)], c)
EnterMembers(b, c) ==
  IF b.members.active >= MaxMembers
  THEN [b EXCEPT !.members = Queued(@, c), !.stage[c] = "waiting"]
  ELSE EnterSlots([b EXCEPT !.members = Taken(@)], c)
Enter(b, c) == IF Kind(c) = "delegate" THEN EnterMembers(b, c) ELSE EnterSlots(b, c)

Become(t, b) ==
  /\ slots' = [slots EXCEPT ![t] = b.slots] /\ members' = [members EXCEPT ![t] = b.members]
  /\ stage' = b.stage /\ hand' = b.hand

(* The loop of runTools is at the start of a batch. *)
Between ==
  /\ phase = "running" /\ turn \notin failed /\ Quiet
  /\ batch[turn] = <<>> /\ Unanswered # {}

(* A cancelled turn answers its calls, one by one, without running them;   *)
(* the append of such a result may fail as well.                           *)
SkipCall ==
  /\ Between /\ turn \in aborted
  /\ stage' = [stage EXCEPT ![FirstLeft] = "written"]
  /\ output' = [output EXCEPT ![FirstLeft] = "aborted"]
  /\ written' = Append(written, FirstLeft)
  /\ UNCHANGED <<turns, batch, hand, handling, asking, aborted, faults>>
SkipFails ==
  /\ Between /\ turn \in aborted /\ faults < MaxFaults
  /\ faults' = faults + 1 /\ failed' = failed \cup {turn}
  /\ UNCHANGED <<script, turn, phase, batch, stage, hand, output, handling, written, asking, aborted>>

(* A single call runs without limits; one that must ask first queues its   *)
(* question before its handler is called.                                  *)
StartSingle ==
  /\ Between /\ turn \notin aborted
  /\ Len(NextBatch) = 1 /\ batch' = [batch EXCEPT ![turn] = NextBatch]
  /\ LET c == NextBatch[1] IN
       IF Kind(c) = "ask"
       THEN /\ stage' = [stage EXCEPT ![c] = "authorize"] /\ asks' = Append(asks, c)
            /\ UNCHANGED <<hand, slots, members>>
       ELSE /\ Become(turn, RunCall(Now(turn), c)) /\ UNCHANGED asks
  /\ UNCHANGED <<turns, output, jobs, written, q, decision, grants, denials, aborted,
                 log, faults>>

StartBatch ==
  /\ Between /\ turn \notin aborted
  /\ Len(NextBatch) > 1 /\ batch' = [batch EXCEPT ![turn] = NextBatch]
  /\ Become(turn, FoldLeft(Enter, Batch(Idle, Idle, stage, hand), NextBatch))
  /\ UNCHANGED <<turns, output, jobs, written, asking, aborted, faults>>

(* The race of executeTool is over: the call leaves, with its handler or   *)
(* without.                                                                *)
Leaves(c, result) ==
  /\ output' = [output EXCEPT ![c] = IF Cancelled(c) THEN "aborted" ELSE result]
  /\ stage' = [stage EXCEPT ![c] = IF Len(batch[c[1]]) > 1 THEN "unwind" ELSE "settled"]
  /\ UNCHANGED <<turns, batch, handling, written, asking, aborted, faults>>

(* The handler settles, in whatever job or macrotask. *)
Settle(c) ==
  /\ stage[c] = "run" /\ hand[c] \in {"run", "told"}
  /\ hand' = [hand EXCEPT ![c] = "gone"]
  /\ Leaves(c, "value")

(* A timer ends it: the grace after an abort, or the tool's deadline. *)
GiveUp(c) ==
  /\ Quiet /\ stage[c] = "run" /\ (Cancelled(c) \/ Kind(c) = "code")
  /\ UNCHANGED hand
  /\ Leaves(c, "timeout")

(* The promise of a settled call reaches `await task()` of its Limit after *)
(* a few jobs.                                                             *)
Unwind(c) ==
  /\ stage[c] = "unwind"
  /\ stage' = [stage EXCEPT ![c] = "leaving"]
  /\ jobs' = [jobs EXCEPT ![c[1]] = Append(@, [job |-> "leaveSlot", call |-> c])]
  /\ UNCHANGED <<turns, batch, hand, output, slots, members, written, asking, aborted, faults>>

(* Mutant: the finally does not wake the next one. *)
LeaveSilently(limit, wake) ==
  [limit |-> [active |-> limit.active - 1, waiting |-> limit.waiting], jobs |-> <<>>]

(* The finally of Limit.run: the first that waits is woken and takes its   *)
(* slot in a job of its own.                                               *)
Leave(limit, wake) ==
  IF limit.waiting = <<>>
  THEN [limit |-> [active |-> limit.active - 1, waiting |-> <<>>], jobs |-> <<>>]
  ELSE [limit |-> [active |-> limit.active - 1, waiting |-> Tail(limit.waiting)],
        jobs |-> <<[job |-> wake, call |-> Head(limit.waiting)]>>]

First(t, name) == jobs[t] # <<>> /\ Head(jobs[t]).job = name
LeaveSlot(t) ==
  /\ First(t, "leaveSlot")
  /\ LET c == Head(jobs[t]).call
         l == Leave(slots[t], "takeSlot")
     IN /\ slots' = [slots EXCEPT ![t] = l.limit]
        /\ IF Kind(c) = "delegate"
           THEN /\ jobs' = [jobs EXCEPT ![t] = Tail(@) \o l.jobs \o <<[job |-> "leaveMember", call |-> c]>>]
                /\ UNCHANGED stage
           ELSE /\ jobs' = [jobs EXCEPT ![t] = Tail(@) \o l.jobs]
                /\ stage' = [stage EXCEPT ![c] = "settled"]
  /\ UNCHANGED <<turns, batch, hand, output, members, written, asking, aborted, faults>>

LeaveMember(t) ==
  /\ First(t, "leaveMember")
  /\ LET l == Leave(members[t], "takeMember") IN
       members' = [members EXCEPT ![t] = l.limit] /\ jobs' = [jobs EXCEPT ![t] = Tail(@) \o l.jobs]
  /\ stage' = [stage EXCEPT ![Head(jobs[t]).call] = "settled"]
  /\ UNCHANGED <<turns, batch, hand, output, slots, written, asking, aborted, faults>>

(* The continuation of a woken waiter: active += 1, then the task. *)
TakeSlot(t) ==
  /\ First(t, "takeSlot")
  /\ Become(t, RunCall([Now(t) EXCEPT !.slots = Taken(@)], Head(jobs[t]).call))
  /\ jobs' = [jobs EXCEPT ![t] = Tail(@)]
  /\ UNCHANGED <<turns, batch, output, written, asking, aborted, faults>>
TakeMember(t) ==
  /\ First(t, "takeMember")
  /\ Become(t, EnterSlots([Now(t) EXCEPT !.members = Taken(@)], Head(jobs[t]).call))
  /\ jobs' = [jobs EXCEPT ![t] = Tail(@)]
  /\ UNCHANGED <<turns, batch, output, written, asking, aborted, faults>>

(* finishTool in call order: the first call of the batch without a result. *)
Written == ToSet(written)
Due == ToSet(batch[turn]) \ Written
(* Mutant: results are written as the calls end. *)
NextResultAny(c) == c \in Due
NextResult(c) == c \in Due /\ \A d \in Due : c[2] <= d[2]
Finishes(c) ==
  phase = "running" /\ turn \notin failed /\ Quiet /\ NextResult(c) /\ stage[c] = "settled"
FinishTool(c) ==
  /\ Finishes(c)
  /\ stage' = [stage EXCEPT ![c] = "written"]
  /\ written' = Append(written, c)
  /\ batch' = IF c = Last(batch[turn]) THEN [batch EXCEPT ![turn] = <<>>] ELSE batch
  /\ UNCHANGED <<turns, hand, output, handling, asking, aborted, faults>>

(* The append of a result fails: the loop is left and the turn ends in     *)
(* error, while the other calls of the batch run on.                       *)
FinishFails(c) ==
  /\ Finishes(c) /\ faults < MaxFaults
  /\ faults' = faults + 1 /\ failed' = failed \cup {turn}
  /\ UNCHANGED <<script, turn, phase, batch, stage, hand, output, handling, written, asking, aborted>>
-----------------------------------------------------------------------------
(* Handlers and the questions they ask.                                    *)

(* A handler asks once; also one whose call has settled long ago, or whose *)
(* turn has failed and ended.                                              *)
AskApproval(c) ==
  /\ Quiet /\ hand[c] = "run" /\ Kind(c) \in {"code", "reader"}
  /\ hand' = [hand EXCEPT ![c] = "asking"] /\ asks' = Append(asks, c)
  /\ UNCHANGED <<turns, batch, stage, output, handling, written, q, decision, grants,
                 denials, aborted, log, faults>>

(* A handler that was given up comes to its end. *)
HandlerEnds(c) ==
  /\ Quiet /\ hand[c] \in {"run", "told"} /\ stage[c] \in {"settled", "written"}
  /\ hand' = [hand EXCEPT ![c] = "gone"]
  /\ UNCHANGED <<turns, batch, stage, output, handling, written, asking, aborted, faults>>

(* The first question ends with an answer to the one who asked. *)
Answered(c, allowed, cancelled) ==
  /\ asks' = Tail(asks) /\ q' = "none" /\ decision' = "none"
  /\ IF stage[c] = "authorize"
     THEN IF allowed
          THEN /\ stage' = [stage EXCEPT ![c] = "run"] /\ hand' = [hand EXCEPT ![c] = "run"]
               /\ UNCHANGED output
          ELSE /\ stage' = [stage EXCEPT ![c] = "settled"]
               /\ output' = [output EXCEPT ![c] = IF cancelled THEN "aborted" ELSE "denied"]
               /\ UNCHANGED hand
     ELSE hand' = [hand EXCEPT ![c] = "told"] /\ UNCHANGED <<stage, output>>

(* authorizeNow: a grant or an earlier denial answers without a question. *)
AnswerUnasked ==
  /\ Quiet /\ asks # <<>> /\ q = "none"
  /\ LET c == Head(asks) IN
       /\ Subject(c) \in grants \cup denials
       /\ Answered(c, Subject(c) \in grants, FALSE)
  /\ UNCHANGED <<turns, batch, handling, written, grants, denials, aborted, log, faults>>

(* approval.request is appended, then the broker is called. *)
Request ==
  /\ Quiet /\ asks # <<>> /\ q = "none"
  /\ Subject(Head(asks)) \notin grants \cup denials
  /\ log' = Append(log, [turn |-> turn, call |-> Head(asks), record |-> "request"])
  /\ q' = "requested"
  /\ UNCHANGED <<turns, batch, stage, hand, output, handling, written, asks, decision,
                 grants, denials, aborted, faults>>

(* Mutant: the broker only listens for the abort, which has been before. *)
OpenQuestionListening ==
  /\ Quiet /\ q = "requested"
  /\ q' = "open"
  /\ UNCHANGED <<turns, batch, stage, hand, output, handling, written, asks, decision,
                 grants, denials, aborted, log, faults>>

(* ApprovalBroker.request: a fired signal denies at once, and so does a    *)
(* host without a responder.                                               *)
OpenQuestion ==
  /\ Quiet /\ q = "requested"
  /\ \/ /\ Cancelled(Head(asks)) /\ q' = "decided" /\ decision' = "cancel"
     \/ /\ ~Cancelled(Head(asks)) /\ q' = "open" /\ UNCHANGED decision
     \/ /\ ~Cancelled(Head(asks)) /\ q' = "decided" /\ decision' = "timeout"
  /\ UNCHANGED <<turns, batch, stage, hand, output, handling, written, asks, grants,
                 denials, aborted, log, faults>>

(* The user answers, the responder fails, or timeoutMs has passed. *)
Answer(d) ==
  /\ Quiet /\ q = "open" /\ d \in {"once", "session", "deny", "timeout"}
  /\ q' = "decided" /\ decision' = d
  /\ UNCHANGED <<turns, batch, stage, hand, output, handling, written, asks, grants,
                 denials, aborted, log, faults>>

(* Mutant: only the user's own refusal is kept. *)
DecideForgetful ==
  /\ Quiet /\ q = "decided"
  /\ LET c == Head(asks) IN
       /\ grants' = IF decision = "session" THEN grants \cup {Subject(c)} ELSE grants
       /\ denials' = IF decision # "deny" THEN denials ELSE denials \cup {Subject(c)}
       /\ log' = Append(log, [turn |-> turn, call |-> c, record |-> decision])
       /\ Answered(c, decision \in {"once", "session"}, decision = "cancel" /\ Cancelled(c))
  /\ UNCHANGED <<turns, batch, handling, written, aborted, faults>>

(* approval.decision and approval.grant are appended; a refusal is kept in *)
(* the denials of the turn that runs now.                                  *)
Decide ==
  /\ Quiet /\ q = "decided"
  /\ LET c == Head(asks) IN
       /\ grants' = IF decision = "session" THEN grants \cup {Subject(c)} ELSE grants
       /\ denials' = IF decision \in {"once", "session"} THEN denials ELSE denials \cup {Subject(c)}
       /\ log' = Append(log, [turn |-> turn, call |-> c, record |-> decision])
       /\ Answered(c, decision \in {"once", "session"}, decision = "cancel" /\ Cancelled(c))
  /\ UNCHANGED <<turns, batch, handling, written, aborted, faults>>
-----------------------------------------------------------------------------
Running == {c \in Calls : stage[c] = "run"}
RunJob == \E t \in DOMAIN script : LeaveSlot(t) \/ LeaveMember(t) \/ TakeSlot(t) \/ TakeMember(t)
Question == AnswerUnasked \/ Request \/ OpenQuestion \/ Decide
Next ==
  \/ BeginTurn \/ EndTurn \/ Cancel
  \/ SkipCall \/ SkipFails \/ StartSingle \/ StartBatch
  \/ RunJob
  \/ \E c \in Calls : \/ Settle(c) \/ GiveUp(c) \/ Unwind(c) \/ FinishTool(c) \/ FinishFails(c)
                      \/ AskApproval(c) \/ HandlerEnds(c)
  \/ Question
  \/ \E d \in {"once", "session", "deny", "timeout"} : Answer(d)

Spec == Init /\ [][Next]_vars

(* What the loop and the broker do by themselves; no handler and no user   *)
(* ever has to move.  The grace is a timer, so a cancelled call is given   *)
(* up in the end.                                                          *)
Loop ==
  \/ EndTurn \/ SkipCall \/ StartSingle \/ StartBatch \/ RunJob \/ Question
  \/ \E c \in Calls : Unwind(c) \/ FinishTool(c)
GraceEnds == \E c \in Running : Cancelled(c) /\ GiveUp(c)
FairSpec == Spec /\ WF_vars(Loop) /\ WF_vars(GraceEnds)
-----------------------------------------------------------------------------
(* The tool.result records are in the order of the calls, and none is      *)
(* skipped, whatever order the calls of a batch end in; the one exception  *)
(* are the calls at the end of a turn in which an append failed, which get *)
(* no result any more, also when they end while a later turn runs          *)
(* (runTools, finishTool).                                                 *)
Before(c, d) == c[1] < d[1] \/ (c[1] = d[1] /\ c[2] < d[2])
ResultsInCallOrder ==
  /\ \A i, j \in DOMAIN written : i < j => Before(written[i], written[j])
  /\ \A c \in Calls, d \in Written :
       Before(c, d) => c \in Written \/ (c[1] < d[1] /\ c[1] \in failed)

(* A batch runs at most MaxMembers members at a time and at most MaxCalls  *)
(* calls and then some: when calls end together, a member whose turn has   *)
(* come may take a slot that is promised to another call, so each member   *)
(* that had to wait lets one more call run, up to the end of the batch.    *)
(* And no slot is lost: a call waits only while its limit is full (class   *)
(* Limit).  A batch that a failed turn has left behind keeps to limits of  *)
(* its own, beside those of the next turn.                                 *)
RunningIn(t) == {c \in Running : c[1] = t}
Members(t) == {c \in RunningIn(t) : Kind(c) = "delegate"}
Delegates(t) == {c \in ToSet(batch[t]) : Kind(c) = "delegate"}
Latecomers(t) ==
  IF Cardinality(Delegates(t)) > MaxMembers THEN Cardinality(Delegates(t)) - MaxMembers ELSE 0
LimitsHold ==
  \A t \in DOMAIN script : Len(batch[t]) > 1 =>
    /\ Cardinality(Members(t)) <= MaxMembers
    /\ Cardinality(RunningIn(t)) <= MaxCalls + Latecomers(t)
    /\ Quiet => /\ (slots[t].waiting # <<>> => slots[t].active >= MaxCalls)
                /\ (members[t].waiting # <<>> => members[t].active >= MaxMembers)

(* While a turn runs, the user is not asked for something again that was   *)
(* refused in it (by an answer, a timeout or a cancel), and never again    *)
(* for what was allowed for the session, however the questions of          *)
(* concurrent and of left-over handlers meet (authorize, turnDenials).     *)
NotAskedTwice ==
  \A i, j \in DOMAIN log :
    (i < j /\ log[j].record = "request" /\ Subject(log[i].call) = Subject(log[j].call)) =>
      /\ log[i].record # "session"
      /\ (log[i].record \in {"deny", "timeout", "cancel"} => log[i].turn < log[j].turn)

(* A cancelled turn ends, although handlers never settle and the user      *)
(* never answers, unless a question of an earlier turn is still open       *)
(* (executeTool, ApprovalBrokerService.request).                           *)
OldQuestion == q = "open" /\ Head(asks)[1] < turn
CancelEndsTurn ==
  \A t \in 1..2 : (turn = t /\ phase = "running" /\ t \in aborted) ~> (phase # "running" \/ OldQuestion)
=============================================================================
