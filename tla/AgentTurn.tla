----------------------------- MODULE AgentTurn -----------------------------
(***************************************************************************)
(* One agent and its turns: run, steer, cancel and close of                *)
(* src/packages/kernel/src/agent.ts.                                       *)
(*                                                                         *)
(* A turn is one coroutine (runTurn, loop, requestModel, runTools); phase  *)
(* is the await it stands at, and the user's calls come between its steps. *)
(* Every append to the session may fail, MaxFaults times in all.  A reply  *)
(* is what it makes the loop do (finish) and how many tool calls it has;   *)
(* the tools of a reply run one by one here, members and files are left    *)
(* out, and the messages of a turn are tracked one by one in steer.        *)
(***************************************************************************)
EXTENDS Naturals, FiniteSets

CONSTANTS
  Messages,                \* what the user may send while a turn runs
  MaxTurns,                \* bound: turns of a behaviour
  MaxSteps,                \* settings.maxSteps
  MaxCalls,                \* bound: tool calls of one reply
  StepResends,             \* STEP_RESENDS
  MaxOutputContinuations,  \* settings.maxOutputContinuations
  MaxPauseContinuations,   \* settings.maxPauseContinuations
  CheckRetries,            \* projectConfig.checkRetries
  RequestCap,              \* costCaps.perTask.maxRequests
  MaxFaults                \* bound: appends to the session that fail

ASSUME NumbersAssumption ==
  /\ {MaxTurns, MaxSteps, MaxCalls, StepResends, MaxOutputContinuations,
      MaxPauseContinuations, CheckRetries, MaxFaults} \subseteq Nat
  /\ RequestCap \in Nat \ {0}

VARIABLES
  phase,      \* the await the turn stands at, "idle" between turns
  turn,       \* lastTurn
  step,       \* turnStep
  loop,       \* the locals of loop
  finish,     \* how the last reply finished
  todo,       \* its tool calls that have no tool.result
  resend,     \* resends of this step
  retry,      \* the next check retry
  mark,       \* stepBefore of the check retry that runs, or NoMark
  reason,     \* why the turn ended
  aborted,    \* the turn's signal
  accepting,  \* acceptingSteers
  steer,      \* what became of each message
  spent,      \* tree.requests: model requests of the task
  closing,    \* close: not called, under way (without an outcome), done
  outcomes,   \* task.outcome records written
  faults      \* appends that failed

control == <<turn, step, retry, mark>>
reply == <<finish, todo, resend>>
user == <<aborted, accepting, steer, closing>>
vars == <<phase, turn, step, loop, finish, todo, resend, retry, mark, reason, aborted,
          accepting, steer, spent, closing, outcomes, faults>>

(* Between the end of the loop and the end of runTurn. *)
Ending == {"finish", "settle", "end", "after"}
Looping == {"top", "compact", "drain", "send", "request", "backoff", "reply", "shrink", "tools",
            "cut", "check", "retryNote"}
Phases == {"idle", "open", "begin"} \union Looping \union Ending

Whole == {"stop", "tool-calls", "max-tokens", "pause", "refusal"}
Finishes == Whole \union {"none", "error", "transient", "overflow", "aborted"}
Reasons == {"none", "completed", "cancelled", "cost-cap", "step-limit", "error", "max-tokens"}
NoMark == MaxSteps + 1

(* queued: in pendingSteers; recorded: a user.message; sent: in a request; *)
(* answered: in a request that got a whole reply; lost: dropped.           *)
Fates == {"new", "queued", "recorded", "sent", "answered", "lost"}
Pending == {m \in Messages : steer[m] = "queued"}
Become(from, to) == [m \in Messages |-> IF steer[m] \in from THEN to ELSE steer[m]]

FreshLoop == [cuts |-> 0, pauses |-> 0, paused |-> FALSE, overflow |-> FALSE, noCompact |-> FALSE]
-----------------------------------------------------------------------------
AppendFails == faults < MaxFaults /\ faults' = faults + 1
AppendWorks == UNCHANGED faults

Goto(p) == phase' = p /\ UNCHANGED <<reason, accepting>>

(* The loop of runTurn is over: no steer is accepted from here on. *)
Finish(r) == phase' = "finish" /\ reason' = r /\ accepting' = FALSE

(* A caught exception of the loop. *)
LoopThrows == Finish("error")

(* The finally of runTurn: what is still pending is dropped, and the       *)
(* turn's locals go out of scope.                                          *)
LeaveTurn ==
  /\ phase' = "idle"
  /\ accepting' = FALSE /\ aborted' = FALSE
  /\ steer' = Become({"queued"}, "lost")
  /\ step' = 0 /\ retry' = 1 /\ mark' = NoMark /\ loop' = FreshLoop
  /\ todo' = 0 /\ reason' = "none"
  /\ UNCHANGED <<turn, finish, resend, closing, spent>>

EnterLoop(m) == Goto("top") /\ loop' = FreshLoop /\ mark' = m
-----------------------------------------------------------------------------
Init ==
  /\ phase = "idle" /\ turn = 0 /\ step = 0 /\ loop = FreshLoop
  /\ finish = "none" /\ todo = 0 /\ resend = 0 /\ retry = 1 /\ mark = NoMark
  /\ reason = "none" /\ aborted = FALSE /\ accepting = FALSE
  /\ steer = [m \in Messages |-> "new"]
  /\ spent = 0 /\ closing = "open" /\ outcomes = 0 /\ faults = 0

(* run, and runTurn up to its first await. *)
Run ==
  /\ phase = "idle" /\ closing = "open" /\ turn < MaxTurns
  /\ phase' = "open" /\ turn' = turn + 1 /\ accepting' = TRUE
  /\ UNCHANGED <<step, retry, mark, loop, reply, reason, aborted, steer, spent, closing,
                 outcomes, faults>>

(* steer returns true; it changes nothing when it returns false. *)
Steer(m) ==
  /\ closing = "open" /\ phase # "idle" /\ accepting
  /\ steer[m] = "new"
  /\ steer' = [steer EXCEPT ![m] = "queued"]
  /\ UNCHANGED <<phase, control, loop, reply, reason, aborted, accepting, spent, closing,
                 outcomes, faults>>

(* cancel, or the caller's signal. *)
Cancel ==
  /\ phase # "idle" /\ ~aborted
  /\ aborted' = TRUE
  /\ UNCHANGED <<phase, control, loop, reply, reason, accepting, steer, spent, closing,
                 outcomes, faults>>

(* Mutant: the running turn is waited for, not cancelled. *)
CloseWithoutAbort ==
  /\ closing = "open"
  /\ closing' \in {"closing", "skipping"}
  /\ UNCHANGED <<phase, control, loop, reply, reason, aborted, accepting, steer, spent, outcomes,
                 faults>>

(* closeAs up to its wait for the running turn (with skipOutcome or not),  *)
Close ==
  /\ closing = "open"
  /\ closing' \in {"closing", "skipping"}
  /\ aborted' = (phase # "idle")
  /\ UNCHANGED <<phase, control, loop, reply, reason, accepting, steer, spent, outcomes, faults>>

(* ... and after it: the outcome, then the lock. *)
Release ==
  /\ closing \in {"closing", "skipping"} /\ phase = "idle"
  /\ outcomes' = IF closing = "closing" /\ outcomes = 0 /\ turn > 0 THEN 1 ELSE outcomes
  /\ closing' = IF closing = "closing" THEN "closed" ELSE "skipped"
  /\ UNCHANGED <<phase, control, loop, reply, reason, aborted, accepting, steer, spent, faults>>
-----------------------------------------------------------------------------
(* turn.start and the user's message.  An exception here leaves runTurn. *)
OpenTurn ==
  /\ phase \in {"open", "begin"}
  /\ \/ /\ AppendFails
        /\ LeaveTurn
     \/ /\ AppendWorks
        /\ Goto(IF phase = "open" THEN "begin" ELSE "top")
        /\ UNCHANGED <<control, loop, reply, aborted, steer, spent, closing>>
  /\ UNCHANGED outcomes

(* readProjectUsage cannot read the ledger: no request is sent. *)
LedgerUnreadable ==
  /\ phase = "begin"
  /\ Finish("error")
  /\ UNCHANGED <<control, loop, reply, aborted, steer, spent, closing, outcomes, faults>>
-----------------------------------------------------------------------------
(* Where a step goes when it need not, or no longer can, be compacted. *)
AfterCompact == IF loop.paused THEN "send" ELSE "drain"

(* budgetExhausted for perTask.maxRequests. *)
BudgetExhausted == spent >= RequestCap

(* The checks at the top of a step; the cost cap also writes an error. *)
Top ==
  /\ phase = "top"
  /\ step' = step + 1
  /\ \/ /\ aborted
        /\ Finish("cancelled") /\ AppendWorks
     \/ /\ ~aborted /\ BudgetExhausted
        /\ \/ Finish("cost-cap") /\ AppendWorks
           \/ LoopThrows /\ AppendFails
     \/ /\ ~aborted /\ ~BudgetExhausted /\ step >= MaxSteps
        /\ Finish("step-limit") /\ AppendWorks
     \/ /\ ~aborted /\ ~BudgetExhausted /\ step < MaxSteps
        /\ Goto(IF loop.noCompact THEN AfterCompact ELSE "compact") /\ AppendWorks
  /\ UNCHANGED <<turn, retry, mark, loop, reply, aborted, steer, spent, closing, outcomes>>

(* maybeCompact: not needed; done (one request); failed, its request       *)
(* counted or not.                                                         *)
Compact ==
  /\ phase = "compact"
  /\ \/ UNCHANGED <<spent, loop>>
     \/ spent' = spent + 1 /\ UNCHANGED loop
     \/ spent' \in {spent, spent + 1} /\ loop' = [loop EXCEPT !.noCompact = TRUE]
  /\ IF aborted THEN Finish("cancelled") ELSE Goto(AfterCompact)
  /\ UNCHANGED <<control, reply, aborted, steer, closing, outcomes, faults>>

(* drainSteers, one message (pendingSteers is kept as a set). *)
Drain ==
  /\ phase = "drain"
  /\ \E m \in Pending :
       \/ /\ AppendWorks
          /\ steer' = [steer EXCEPT ![m] = "recorded"]
          /\ Goto("drain")
       \/ /\ AppendFails
          /\ steer' = [steer EXCEPT ![m] = "lost"]
          /\ LoopThrows
  /\ UNCHANGED <<control, loop, reply, aborted, spent, closing, outcomes>>

Drained ==
  /\ phase = "drain" /\ Pending = {}
  /\ Goto("send")
  /\ UNCHANGED <<control, loop, reply, aborted, steer, spent, closing, outcomes, faults>>

(* requestModel sends: charge(1). *)
Send ==
  /\ phase = "send"
  /\ Goto("request")
  /\ spent' = spent + 1
  /\ loop' = [loop EXCEPT !.paused = FALSE]
  /\ steer' = Become({"recorded"}, "sent")
  /\ UNCHANGED <<control, reply, aborted, closing, outcomes, faults>>

(* What requestModel can return: nothing but an aborted or an idle stream  *)
(* once the turn is cancelled.                                             *)
Outcomes ==
  IF aborted THEN {<<"aborted", 0>>, <<"error", 0>>}
  ELSE {<<f, 0>> : f \in {"stop", "error", "transient", "overflow", "aborted"}}
         \union {<<"tool-calls", n>> : n \in 1..MaxCalls}
         \union ({"max-tokens", "pause", "refusal"} \X (0..MaxCalls))

(* Mutant: one resend too many. *)
ModelRepliesOffByOne ==
  /\ phase = "request"
  /\ \E o \in Outcomes :
       /\ finish' = o[1] /\ todo' = o[2]
       /\ IF o[1] = "transient" /\ resend <= StepResends
            THEN Goto("backoff") /\ resend' = resend + 1
            ELSE Goto("reply") /\ UNCHANGED resend
  /\ UNCHANGED <<control, loop, aborted, steer, spent, closing, outcomes, faults>>

(* A transient failure is sent again after a wait. *)
ModelReplies ==
  /\ phase = "request"
  /\ \E o \in Outcomes :
       /\ finish' = o[1] /\ todo' = o[2]
       /\ IF o[1] = "transient" /\ resend < StepResends
            THEN Goto("backoff") /\ resend' = resend + 1
            ELSE Goto("reply") /\ UNCHANGED resend
  /\ UNCHANGED <<control, loop, aborted, steer, spent, closing, outcomes, faults>>

(* Mutant: the count of resends starts again. *)
ResendUncounted ==
  /\ phase = "backoff"
  /\ IF aborted
       THEN Goto("reply") /\ UNCHANGED <<spent, resend>>
       ELSE Goto("request") /\ spent' = spent + 1 /\ resend' = 0
  /\ UNCHANGED <<control, loop, finish, todo, aborted, steer, closing, outcomes, faults>>

(* pause, then the same step again; a cancelled turn keeps the failure. *)
Resend ==
  /\ phase = "backoff"
  /\ IF aborted
       THEN Goto("reply") /\ UNCHANGED spent
       ELSE Goto("request") /\ spent' = spent + 1
  /\ UNCHANGED <<control, loop, reply, aborted, steer, closing, outcomes, faults>>
-----------------------------------------------------------------------------
(* The rest of a step, by how its reply finished. *)
Failed ==
  /\ finish \in {"error", "transient"}
  /\ Finish("error")
  /\ UNCHANGED <<loop, mark>>

Overflowed ==
  /\ finish = "overflow"
  /\ IF loop.overflow
       THEN Finish("error") /\ UNCHANGED loop
       ELSE Goto("shrink") /\ loop' = [loop EXCEPT !.overflow = TRUE]
  /\ UNCHANGED mark

Interrupted ==
  /\ finish = "aborted"
  /\ Finish("cancelled")
  /\ UNCHANGED <<loop, mark>>

Refused ==
  /\ finish = "refusal"
  /\ Finish("error")
  /\ UNCHANGED <<loop, mark>>

Cut ==
  /\ finish = "max-tokens"
  /\ loop' = [loop EXCEPT !.cuts = @ + 1]
  /\ IF loop.cuts + 1 > MaxOutputContinuations THEN Finish("max-tokens") ELSE Goto("cut")
  /\ UNCHANGED mark

Paused ==
  /\ finish = "pause"
  /\ loop' = [loop EXCEPT !.cuts = 0, !.pauses = @ + 1, !.paused = (todo = 0)]
  /\ IF loop.pauses + 1 > MaxPauseContinuations
       THEN Finish("error")
       ELSE Goto(IF todo > 0 THEN "tools" ELSE "top")
  /\ UNCHANGED mark

CallsTools ==
  /\ finish = "tool-calls"
  /\ loop' = [loop EXCEPT !.cuts = 0, !.pauses = 0]
  /\ Goto("tools")
  /\ UNCHANGED mark

(* loop returns { kind: completed }.  The one step of a check retry is     *)
(* not checked again.                                                      *)
LoopCompleted ==
  /\ IF aborted \/ step = mark + 1 THEN Finish("completed") ELSE Goto("check")
  /\ UNCHANGED <<loop, mark>>

(* Mutant: the turn ends although a message came during the reply. *)
StoppedAnyway == finish = "stop" /\ LoopCompleted

(* A message that came during the reply: the next step of the same loop. *)
Stopped ==
  /\ finish = "stop"
  /\ IF Pending # {} /\ ~aborted
       THEN /\ loop' = [loop EXCEPT !.cuts = 0, !.pauses = 0]
            /\ Goto("top")
            /\ UNCHANGED mark
       ELSE LoopCompleted

(* assistant.message (none for an error without text), and what follows;   *)
(* the step's outcome goes out of scope.                                   *)
Reply ==
  /\ phase = "reply"
  /\ \/ /\ AppendFails /\ LoopThrows
        /\ todo' = 0
        /\ UNCHANGED <<loop, mark, steer>>
     \/ /\ AppendWorks
        /\ steer' = IF finish \in Whole THEN Become({"sent"}, "answered") ELSE steer
        /\ \/ Failed \/ Overflowed \/ Interrupted \/ Refused
           \/ Cut \/ Paused \/ CallsTools \/ Stopped
        /\ UNCHANGED todo
  /\ finish' = "none" /\ resend' = 0
  /\ UNCHANGED <<turn, step, retry, aborted, spent, closing, outcomes>>

(* The forced maybeCompact of an overflow. *)
Shrink ==
  /\ phase = "shrink"
  /\ \/ /\ spent' = spent + 1
        /\ Goto("top")
     \/ /\ spent' \in {spent, spent + 1}
        /\ Finish(IF aborted THEN "cancelled" ELSE "error")
  /\ UNCHANGED <<control, loop, reply, aborted, steer, closing, outcomes, faults>>

(* Mutant: a cancelled turn leaves the rest of its calls without a result. *)
ToolResultUnlessAborted ==
  /\ phase = "tools"
  /\ IF aborted
       THEN Finish("cancelled") /\ AppendWorks /\ UNCHANGED todo
       ELSE /\ todo' = todo - 1
            /\ AppendWorks
            /\ Goto(IF todo = 1 THEN "top" ELSE "tools")
  /\ UNCHANGED <<control, loop, finish, resend, aborted, steer, spent, closing, outcomes>>

(* runTools: the next call has its result (its own, a timeout, or the      *)
(* cancellation), and the result is recorded.                              *)
ToolResult ==
  /\ phase = "tools"
  /\ \/ /\ AppendFails /\ LoopThrows
        /\ UNCHANGED todo
     \/ /\ AppendWorks
        /\ todo' = todo - 1
        /\ Goto(IF todo = 1 THEN "top" ELSE "tools")
  /\ UNCHANGED <<control, loop, finish, resend, aborted, steer, spent, closing, outcomes>>

(* A cut reply: an error result for each of its calls, then a note. *)
CutResult ==
  /\ phase = "cut"
  /\ \/ /\ AppendFails /\ LoopThrows
        /\ UNCHANGED todo
     \/ /\ AppendWorks
        /\ IF todo = 0 THEN Goto("top") /\ UNCHANGED todo
                       ELSE Goto("cut") /\ todo' = todo - 1
  /\ UNCHANGED <<control, loop, finish, resend, aborted, steer, spent, closing, outcomes>>
-----------------------------------------------------------------------------
(* checkRetryNote: nothing to fix (or no retry left), *)
ChecksPass ==
  /\ phase = "check"
  /\ IF Pending # {} /\ ~aborted
       THEN EnterLoop(NoMark)
       ELSE Finish("completed") /\ UNCHANGED <<loop, mark>>
  /\ UNCHANGED <<turn, step, retry, reply, aborted, steer, spent, closing, outcomes, faults>>

(* ... or a note that sends the model back. *)
ChecksFail ==
  /\ phase = "check" /\ retry <= CheckRetries
  /\ retry' = retry + 1
  /\ Goto("retryNote")
  /\ UNCHANGED <<turn, step, mark, loop, reply, aborted, steer, spent, closing, outcomes, faults>>

RetryNote ==
  /\ phase = "retryNote"
  /\ \/ AppendFails /\ LoopThrows /\ UNCHANGED <<loop, mark>>
     \/ AppendWorks /\ EnterLoop(step)
  /\ UNCHANGED <<turn, step, retry, reply, aborted, steer, spent, closing, outcomes>>
-----------------------------------------------------------------------------
(* Mutant: what is still pending is not recorded. *)
NoLastDrain ==
  /\ phase = "finish"
  /\ Goto("settle")
  /\ UNCHANGED <<control, loop, reply, aborted, steer, spent, closing, outcomes, faults>>

(* The last drainSteers: a failure is swallowed and ends it. *)
LastDrain ==
  /\ phase = "finish"
  /\ \/ /\ Pending = {}
        /\ Goto("settle") /\ AppendWorks /\ UNCHANGED steer
     \/ \E m \in Pending :
          \/ /\ AppendWorks
             /\ Goto("finish")
             /\ steer' = [steer EXCEPT ![m] = "recorded"]
          \/ /\ AppendFails
             /\ Goto("settle")
             /\ steer' = [steer EXCEPT ![m] = "lost"]
  /\ UNCHANGED <<control, loop, reply, aborted, spent, closing, outcomes>>

(* settleMembers, awaitSnapshot, mergeWorkdir, endFiles, runTaskChecks. *)
Settle ==
  /\ phase = "settle"
  /\ Goto("end")
  /\ UNCHANGED <<control, loop, reply, aborted, steer, spent, closing, outcomes, faults>>

(* turn.end. *)
EndTurn ==
  /\ phase = "end"
  /\ \/ /\ AppendFails
        /\ LeaveTurn
     \/ /\ AppendWorks
        /\ Goto("after")
        /\ UNCHANGED <<control, loop, reply, aborted, steer, spent, closing>>
  /\ UNCHANGED outcomes

(* Mutant: the outcome of a cost cap is written whether or not there is    *)
(* one already.                                                            *)
AfterTurnAgain ==
  /\ phase = "after"
  /\ outcomes' = IF reason = "cost-cap" THEN outcomes + 1 ELSE outcomes
  /\ LeaveTurn
  /\ UNCHANGED faults

(* maybeCheckpoint, and the outcome of a task that met its cap. *)
AfterTurn ==
  /\ phase = "after"
  /\ outcomes' = IF reason = "cost-cap" /\ outcomes = 0 THEN 1 ELSE outcomes
  /\ LeaveTurn
  /\ UNCHANGED faults
-----------------------------------------------------------------------------
(* The steps a turn takes by itself; the model and the tools may take for  *)
(* ever, until the turn is cancelled.                                      *)
TurnStep ==
  \/ OpenTurn \/ LedgerUnreadable
  \/ Top \/ Compact \/ Drain \/ Drained \/ Send \/ Resend
  \/ Reply \/ Shrink \/ CutResult
  \/ ChecksPass \/ ChecksFail \/ RetryNote
  \/ LastDrain \/ Settle \/ EndTurn \/ AfterTurn

Next ==
  \/ Run \/ Cancel \/ Close \/ Release
  \/ \E m \in Messages : Steer(m)
  \/ TurnStep \/ ModelReplies \/ ToolResult

Spec == Init /\ [][Next]_vars

(* requestModel races its stream with the signal and a tool is given       *)
(* toolAbortGraceMs after it, so both end once the turn is cancelled.      *)
FairSpec ==
  /\ Spec
  /\ WF_vars(TurnStep) /\ WF_vars(Release)
  /\ WF_vars(aborted /\ (ModelReplies \/ ToolResult))
-----------------------------------------------------------------------------
LoopType == [cuts : Nat, pauses : Nat, paused : BOOLEAN, overflow : BOOLEAN, noCompact : BOOLEAN]

TypeOK ==
  /\ phase \in Phases
  /\ turn \in Nat /\ step \in Nat /\ retry \in Nat /\ mark \in Nat
  /\ loop \in LoopType
  /\ finish \in Finishes /\ todo \in Nat /\ resend \in 0..StepResends
  /\ reason \in Reasons
  /\ aborted \in BOOLEAN /\ accepting \in BOOLEAN
  /\ steer \in [Messages -> Fates]
  /\ spent \in Nat
  /\ closing \in {"open", "closing", "skipping", "closed", "skipped"}
  /\ outcomes \in Nat /\ faults \in Nat

(* A message that steer accepted is not lost: it is in the session when    *)
(* the turn is over, however it ended, unless an append failed.            *)
NoSteerLost ==
  /\ faults = 0 => \A m \in Messages : steer[m] # "lost"
  /\ phase = "idle" => Pending = {}

(* A turn that completes without being cancelled leaves no message, of     *)
(* this turn or an earlier one, that the model has not answered.           *)
CompletedAnswersSteers ==
  [][phase # "finish" /\ phase' = "finish" /\ reason' = "completed" /\ ~aborted =>
       \A m \in Messages : steer'[m] \in {"new", "answered", "lost"}]_vars

(* A turn that is completed or was cancelled has answered every tool call  *)
(* it recorded.                                                            *)
StoppedTurnAnsweredCalls ==
  phase \in Ending /\ todo > 0 => reason \in {"error", "max-tokens"}

(* The cost cap: it is met by at most the resends of one step and the two  *)
(* compactions around it.                                                  *)
CapOverrunBounded == spent <= RequestCap + StepResends + 2

(* One task.outcome for a task, written by the time the agent is closed. *)
OneOutcome ==
  /\ outcomes <= 1
  /\ closing = "closed" => outcomes = (IF turn > 0 THEN 1 ELSE 0)

(* A close gives the session back: it cancels the running turn, which ends *)
(* whatever the model and the tools do.                                    *)
CloseReleases == closing \in {"closing", "skipping"} ~> closing \in {"closed", "skipped"}
-----------------------------------------------------------------------------
(* What makes the invariants above inductive. *)

(* Steers are accepted until the loop is over, and pending ones are gone   *)
(* when the last drain is.                                                 *)
SteersKept ==
  /\ NoSteerLost
  /\ accepting => phase \notin {"idle"} \union Ending
  /\ faults = 0 /\ phase \in {"settle", "end", "after"} => Pending = {}

(* The request that is out carries every recorded message, and a whole     *)
(* reply answers it.                                                       *)
RepliesCoverSteers ==
  /\ phase \in {"request", "backoff", "reply"} => \A m \in Messages : steer[m] # "recorded"
  /\ phase \in {"tools", "cut", "check", "retryNote"} =>
       \A m \in Messages : steer[m] \notin {"recorded", "sent"}

(* The calls without a result are those of the step under way. *)
CallsTracked ==
  /\ phase \notin {"reply", "tools", "cut"} \union Ending => todo = 0
  /\ phase = "reply" /\ finish \notin {"tool-calls", "max-tokens", "pause", "refusal"} => todo = 0
  /\ phase = "reply" /\ finish = "tool-calls" => todo > 0
  /\ phase = "backoff" => finish = "transient"
  /\ phase = "tools" => todo > 0
  /\ StoppedTurnAnsweredCalls

(* How far past the cap each stage of a step can be. *)
CapTracked ==
  /\ phase = "compact" => spent < RequestCap
  /\ phase \in {"drain", "send"} => spent <= RequestCap
  /\ phase \in {"request", "reply"} => spent <= RequestCap + resend + 1
  /\ phase = "backoff" => spent <= RequestCap + resend
  /\ phase = "shrink" => spent <= RequestCap + StepResends + 1
  /\ phase \notin {"request", "backoff", "reply"} => resend = 0
  /\ CapOverrunBounded

OutcomeTracked ==
  /\ OneOutcome
  /\ phase # "idle" \/ outcomes > 0 => turn > 0
  /\ closing \in {"closed", "skipped"} => phase = "idle"

TurnInv ==
  TypeOK /\ SteersKept /\ RepliesCoverSteers /\ CallsTracked /\ CapTracked /\ OutcomeTracked
=============================================================================
