------------------------------ MODULE Members ------------------------------
(***************************************************************************)
(* The members an agent starts, with the delegate tool or from a workflow  *)
(* script, and the records their runs leave in its session: createChild,   *)
(* close and shutdown of src/packages/kernel/src/agents.ts and agent.ts,   *)
(* runMember of subagent/src/runner.ts, runWorkflow and its Slots of       *)
(* workflow/src/runtime.ts, and the recovery of a session whose process    *)
(* died (subagent/src/recovery.ts, workflow/src/recovery.ts).              *)
(*                                                                         *)
(* A run is one use of a member.  The turn of a member is one step from    *)
(* its start to its end; that a turn ends when it is cancelled is what     *)
(* AgentTurn and ToolCalls are about.  There is one workflow.              *)
(***************************************************************************)
EXTENDS Integers, Sequences, FiniteSets, SequencesExt

CONSTANTS
  Runs,           \* member runs, numbered in the order in which they are started
  Forms,          \* how they are started: functions from Runs to "delegated", "workflow" or "unused"
  MaxMembers,     \* COLLABORATION_LIMITS.maxMembersPerTask
  MaxConcurrent,  \* COLLABORATION_LIMITS.maxConcurrentMembers, for delegates
  MaxSlots,       \* maxConcurrent of a workflow
  MaxTurns,       \* bound: turns of the parent; it is opened again only with one left
  MaxCrashes      \* bound: deaths of the process

ASSUME MembersAssumption ==
  /\ {MaxMembers, MaxConcurrent, MaxSlots} \cup Runs \subseteq Nat \ {0}
  /\ {MaxTurns, MaxCrashes} \subseteq Nat
  /\ \A f \in Forms : f \in [Runs -> {"delegated", "workflow", "unused"}]

VARIABLES
  form,       \* how each run is started
  st,         \* where runMember of each run stands
  cancelled,  \* runs, the workflow and the turn whose signal has fired
  open,       \* calls whose records are open (recordsOpen): runs, and WorkflowCall
  members,    \* TaskTree.members
  children,   \* runs whose member is open under the parent
  shut,       \* runs whose member has been told to close by the parent
  old,        \* runs, and the workflow, of an agent that has been closed or has died
  parent,     \* idle, running, settling, closing, closed, dead
  closing,    \* the parent's close has been called
  turn,
  script,     \* the workflow: none, running, ended, recorded
  scriptTurn, \* the turn it was started in
  recovery,   \* of the session: none, runs, closing, ending, done
  found,      \* what its last look at the records found open and it has not ended yet
  overtaken,  \* runs and workflow that it found open although the agent it runs for started them
  slots,      \* its Slots: active, waiting
  log,        \* the records of the parent's session
  crashes

life == <<st, cancelled, open, members, children, shut, old>>
host == <<parent, closing, turn, crashes>>
flow == <<script, scriptTurn>>
rec == <<recovery, found, overtaken>>
vars == <<form, st, cancelled, open, members, children, shut, old, parent, closing, turn, script, scriptTurn,
          recovery, found, overtaken, slots, log, crashes>>

(* Named like the runs: what else has a signal of its own. *)
WorkflowCall == 0
ParentTurn == -1

Record(type, run) == [type |-> type, run |-> run]
Logged(type, r) == \E i \in DOMAIN log : log[i] = Record(type, r)
OpenRuns == {r \in Runs : Logged("subagent.start", r) /\ ~Logged("subagent.end", r)}
OpenWorkflow == Logged("workflow.start", WorkflowCall) /\ ~Logged("workflow.end", WorkflowCall)
CallOf(r) == IF form[r] = "workflow" THEN WorkflowCall ELSE r
InCall(c) == {r \in Runs : CallOf(r) = c}

(* The next run to be started in one of the two ways. *)
FirstUnstarted(r) == st[r] = "none" /\ \A q \in Runs : form[q] = form[r] /\ q < r => st[q] # "none"

Before == {"none", "waiting"}
Settled == {"closed", "failed", "dead"}
Underway == {r \in Runs : st[r] \notin Before \cup Settled}
(* Delegate calls that hold a slot of their batch. *)
Delegating == {r \in Underway : form[r] = "delegated" /\ r \in open}
InWorkflow == {r \in Runs : form[r] = "workflow"}

Init ==
  /\ form \in Forms
  /\ st = [r \in Runs |-> "none"] /\ cancelled = {} /\ open = {}
  /\ members = 0 /\ children = {} /\ shut = {} /\ old = {}
  /\ parent = "idle" /\ closing = FALSE /\ turn = 0
  /\ script = "none" /\ scriptTurn = 0 /\ slots = [active |-> 0, waiting |-> <<>>]
  /\ recovery = "none" /\ found = {} /\ overtaken = {}
  /\ log = <<>> /\ crashes = 0
-----------------------------------------------------------------------------
(* The parent's turn, its close, the death of its process.                 *)

BeginTurn ==
  /\ parent = "idle" /\ ~closing /\ turn < MaxTurns
  /\ parent' = "running" /\ turn' = turn + 1
  /\ cancelled' = cancelled \ {ParentTurn}
  /\ UNCHANGED <<form, st, open, members, children, shut, old, closing, flow, rec, slots, log, crashes>>

(* The signal of the turn, of its calls and of the runs in them. *)
Fired == {ParentTurn} \cup open \cup UNION {InCall(c) : c \in open}
Cancel ==
  /\ parent = "running" /\ ParentTurn \notin cancelled
  /\ cancelled' = cancelled \cup Fired
  /\ UNCHANGED <<form, st, open, members, children, shut, old, host, flow, rec, slots, log>>

(* toolAbortGraceMs after the cancel: the call is over, its records close. *)
GiveUp(c) ==
  /\ c \in open \cap cancelled
  /\ open' = open \ {c}
  /\ UNCHANGED <<form, st, cancelled, members, children, shut, old, host, flow, rec, slots, log>>

(* settleMembers: members that still run are cancelled with cause parent.  *)
LoopOver ==
  /\ parent = "running" /\ open = {}
  /\ parent' = "settling"
  /\ cancelled' = cancelled \cup {r \in children : st[r] = "turn"}
  /\ UNCHANGED <<form, st, open, members, children, shut, old, closing, turn, crashes, flow, rec, slots, log>>
(* They have ended, or the grace has. *)
EndTurn ==
  /\ parent = "settling" /\ parent' = "idle"
  /\ UNCHANGED <<form, life, closing, turn, crashes, flow, rec, slots, log>>

(* Mutant: a close that lets the running turn come to its own end. *)
CloseQuietly ==
  /\ parent \in {"idle", "running", "settling"} /\ ~closing
  /\ closing' = TRUE
  /\ UNCHANGED <<form, life, parent, turn, crashes, flow, rec, slots, log>>
(* close: no new turn, a running one is cancelled and waited for. *)
Close ==
  /\ parent \in {"idle", "running", "settling"} /\ ~closing
  /\ closing' = TRUE
  /\ cancelled' = IF parent = "idle" THEN cancelled ELSE cancelled \cup Fired
  /\ UNCHANGED <<form, st, open, members, children, shut, old, parent, turn, crashes, flow, rec, slots, log>>
CloseMembers ==
  /\ closing /\ parent = "idle" /\ parent' = "closing"
  /\ shut' = shut \cup children
  /\ cancelled' = cancelled \cup {r \in children : st[r] = "turn"}
  /\ UNCHANGED <<form, st, open, members, children, old, closing, turn, crashes, flow, rec, slots, log>>

(* Mutant: the lock is released with the members' turns still running. *)
ReleaseAtOnce ==
  /\ parent = "closing"
  /\ parent' = "closed" /\ children' = {}
  /\ UNCHANGED <<form, st, cancelled, open, members, shut, old, closing, turn, crashes, flow, rec, slots, log>>
(* The members' turns are over: the session lock is released. *)
ReleaseParent ==
  /\ parent = "closing" /\ \A r \in shut : st[r] # "turn"
  /\ parent' = "closed" /\ children' = {}
  /\ UNCHANGED <<form, st, cancelled, open, members, shut, old, closing, turn, crashes, flow, rec, slots, log>>

(* The process dies, and all that it kept in memory with it. *)
Crash ==
  /\ parent \notin {"dead", "closed"} /\ crashes < MaxCrashes /\ crashes' = crashes + 1
  /\ parent' = "dead" /\ closing' = FALSE
  /\ st' = [r \in Runs |-> IF st[r] = "none" THEN "none" ELSE "dead"]
  /\ cancelled' = {} /\ open' = {} /\ members' = 0 /\ children' = {} /\ shut' = {}
  /\ script' = (IF script = "none" THEN "none" ELSE "recorded")
  /\ slots' = [active |-> 0, waiting |-> <<>>] /\ recovery' = "none" /\ found' = {}
  /\ UNCHANGED <<form, old, turn, scriptTurn, overtaken, log>>

(* resumeSession: a new agent and tree.  It is there for turns at once,    *)
(* while the recovery of the session begins: that no turn runs is checked  *)
(* in the same macrotask, so it always holds.                              *)
Resume ==
  /\ parent \in {"dead", "closed"} /\ turn < MaxTurns
  /\ parent' = "idle" /\ closing' = FALSE /\ members' = 0 /\ shut' = {}
  /\ old' = {r \in Runs : st[r] # "none"} \cup (IF script = "none" THEN {} ELSE {WorkflowCall})
  /\ recovery' = "runs" /\ found' = {}
  /\ UNCHANGED <<form, st, cancelled, open, children, turn, crashes, flow, overtaken, slots, log>>
(* closeInterruptedRuns: the session is read once, then the runs that were *)
(* open in it are ended, one record at a time, beside the parent's turns.  *)
FindRuns ==
  /\ recovery = "runs" /\ recovery' = "closing" /\ found' = OpenRuns
  /\ overtaken' = overtaken \cup (OpenRuns \ old)
  /\ UNCHANGED <<form, life, host, flow, slots, log>>
CloseInterruptedRun(r) ==
  /\ recovery = "closing" /\ r \in found /\ ~closing
  /\ found' = found \ {r} /\ log' = Append(log, Record("subagent.end", r))
  /\ UNCHANGED <<form, life, host, flow, recovery, overtaken, slots>>
(* recoverWorkflows: it is read again; is the workflow open in it? *)
FindWorkflow ==
  /\ recovery = "closing" /\ found = {}
  /\ IF OpenWorkflow
     THEN /\ recovery' = "ending" /\ found' = {WorkflowCall}
          /\ overtaken' = overtaken \cup ({WorkflowCall} \ old)
     ELSE recovery' = "done" /\ UNCHANGED <<found, overtaken>>
  /\ UNCHANGED <<form, life, host, flow, slots, log>>
(* appendHostRecord: a workflow.end names no turn but the one that runs. *)
Takes == ~closing /\ (parent \in {"running", "settling"} => scriptTurn = turn)
RecoverWorkflow ==
  /\ recovery = "ending" /\ Takes
  /\ recovery' = "done" /\ found' = {}
  /\ log' = Append(log, Record("workflow.end", WorkflowCall))
  /\ UNCHANGED <<form, life, host, flow, overtaken, slots>>
(* A read or an append that fails or is refused ends the recovery; the     *)
(* session stays usable, with what is still open.                          *)
RecoveryFails ==
  /\ recovery \in {"runs", "closing", "ending"}
  /\ recovery' = "none" /\ found' = {}
  /\ UNCHANGED <<form, life, host, flow, overtaken, slots, log>>
-----------------------------------------------------------------------------
(* A run: createChild, runOpenMember.                                      *)

(* createChild up to its first await: the parent is open and the task has  *)
(* not had its members yet.                                                *)
ParentOpen == parent \in {"idle", "running", "settling", "closing"}
MayCreate == ParentOpen /\ members < MaxMembers
Create(r) == st' = [st EXCEPT ![r] = IF MayCreate THEN "creating" ELSE "leaving"]

(* A delegate call gets a slot of its batch and runs its handler. *)
Delegate(r) ==
  /\ parent = "running" /\ form[r] = "delegated" /\ FirstUnstarted(r) /\ WorkflowCall \notin open
  /\ Cardinality(Delegating) < MaxConcurrent
  /\ Create(r) /\ open' = open \cup {r}
  /\ cancelled' = IF ParentTurn \in cancelled THEN cancelled \cup {r} ELSE cancelled
  /\ UNCHANGED <<form, members, children, shut, old, host, flow, rec, slots, log>>

(* The session, its seed, scope, capabilities and work directory are made; *)
(* only then is the member counted and put under its parent.               *)
Build(r) ==
  /\ st[r] = "creating"
  /\ st' = [st EXCEPT ![r] = "built"]
  /\ IF r \in old THEN UNCHANGED <<members, children>>
     ELSE members' = members + 1 /\ children' = children \cup {r}
  /\ UNCHANGED <<form, cancelled, open, shut, old, host, flow, rec, slots, log>>
BuildFails(r) ==
  /\ st[r] = "creating"
  /\ st' = [st EXCEPT ![r] = "leaving"]
  /\ UNCHANGED <<form, cancelled, open, members, children, shut, old, host, flow, rec, slots, log>>

(* subagent.start, refused once the call has settled: then nothing runs.   *)
(* Then Agent.run of the member, which rejects once the member is closed.  *)
StartRun(r) ==
  /\ st[r] = "built"
  /\ IF CallOf(r) \in open
     THEN /\ st' = [st EXCEPT ![r] = IF r \in shut THEN "ended" ELSE "turn"]
          /\ log' = Append(log, Record("subagent.start", r))
     ELSE st' = [st EXCEPT ![r] = "leaving"] /\ UNCHANGED log
  /\ UNCHANGED <<form, cancelled, open, members, children, shut, old, host, flow, rec, slots>>
TurnEnds(r) ==
  /\ st[r] = "turn"
  /\ st' = [st EXCEPT ![r] = "ended"]
  /\ UNCHANGED <<form, cancelled, open, members, children, shut, old, host, flow, rec, slots, log>>
(* subagent.end, refused once the call has settled. *)
EndRun(r) ==
  /\ st[r] = "ended"
  /\ st' = [st EXCEPT ![r] = "leaving"]
  /\ log' = IF CallOf(r) \in open THEN Append(log, Record("subagent.end", r)) ELSE log
  /\ UNCHANGED <<form, cancelled, open, members, children, shut, old, host, flow, rec, slots>>

(* The member is closed; the handler of a delegate call ends, and so does  *)
(* the call.                                                               *)
Return(r) ==
  /\ form[r] = "delegated" /\ st[r] = "leaving"
  /\ st' = [st EXCEPT ![r] = "closed"] /\ open' = open \ {r} /\ children' = children \ {r}
  /\ UNCHANGED <<form, cancelled, members, shut, old, host, flow, rec, slots, log>>
-----------------------------------------------------------------------------
(* A workflow: one call that runs alone.                                   *)

StartWorkflow ==
  /\ parent = "running" /\ script = "none" /\ open = {} /\ InWorkflow # {}
  /\ ParentTurn \notin cancelled
  /\ script' = "running" /\ scriptTurn' = turn /\ open' = {WorkflowCall}
  /\ log' = Append(log, Record("workflow.start", WorkflowCall))
  /\ UNCHANGED <<form, st, cancelled, members, children, shut, old, host, rec, slots>>

(* agent(): Slots.acquire. *)
CallAgent(r) ==
  /\ script = "running" /\ form[r] = "workflow" /\ FirstUnstarted(r)
  /\ IF r \in cancelled
     THEN st' = [st EXCEPT ![r] = "failed"] /\ UNCHANGED slots
     ELSE IF slots.active < MaxSlots
     THEN Create(r) /\ slots' = [slots EXCEPT !.active = @ + 1]
     ELSE st' = [st EXCEPT ![r] = "waiting"] /\ slots' = [slots EXCEPT !.waiting = Append(@, r)]
  /\ UNCHANGED <<form, cancelled, open, members, children, shut, old, host, flow, rec, log>>

(* A waiter whose signal fires leaves the queue. *)
AbortWaiter(r) ==
  /\ st[r] = "waiting" /\ r \in cancelled
  /\ st' = [st EXCEPT ![r] = "failed"]
  /\ \E i \in DOMAIN slots.waiting :
       slots.waiting[i] = r /\ slots' = [slots EXCEPT !.waiting = RemoveAt(@, i)]
  /\ UNCHANGED <<form, cancelled, open, members, children, shut, old, host, flow, rec, log>>
(* Mutant: the slot is handed over and counted free as well. *)
ReleaseTwice(r) ==
  /\ form[r] = "workflow" /\ st[r] = "leaving"
  /\ LET left == [st EXCEPT ![r] = "closed"]
         next == Head(slots.waiting)
     IN IF slots.waiting = <<>>
        THEN slots' = [slots EXCEPT !.active = @ - 1] /\ st' = left
        ELSE /\ slots' = [active |-> slots.active - 1, waiting |-> Tail(slots.waiting)]
             /\ st' = [left EXCEPT ![next] = IF MayCreate THEN "creating" ELSE "leaving"]
  /\ children' = children \ {r}
  /\ UNCHANGED <<form, cancelled, open, members, shut, old, host, flow, rec, log>>
(* release: the first waiter takes the slot over, and creates its member   *)
(* in the same macrotask.                                                  *)
Release(r) ==
  /\ form[r] = "workflow" /\ st[r] = "leaving"
  /\ LET left == [st EXCEPT ![r] = "closed"]
         next == Head(slots.waiting)
     IN IF slots.waiting = <<>>
        THEN slots' = [slots EXCEPT !.active = @ - 1] /\ st' = left
        ELSE /\ slots' = [slots EXCEPT !.waiting = Tail(@)]
             /\ st' = [left EXCEPT ![next] = IF MayCreate THEN "creating" ELSE "leaving"]
  /\ children' = children \ {r}
  /\ UNCHANGED <<form, cancelled, open, members, shut, old, host, flow, rec, log>>

(* The program ends; its host functions are aborted. *)
ProgramEnds ==
  /\ script = "running" /\ script' = "ended"
  /\ cancelled' = cancelled \cup {r \in InWorkflow : st[r] # "none"}
  /\ UNCHANGED <<form, st, open, members, children, shut, old, host, scriptTurn, rec, slots, log>>
(* Once no call of agent() is in flight, workflow.end is written. *)
EndWorkflow ==
  /\ script = "ended" /\ \A r \in InWorkflow : st[r] \in {"none"} \cup Settled
  /\ script' = "recorded"
  /\ log' = IF WorkflowCall \in open THEN Append(log, Record("workflow.end", WorkflowCall)) ELSE log
  /\ open' = open \ {WorkflowCall}
  /\ UNCHANGED <<form, st, cancelled, members, children, shut, old, host, scriptTurn, rec, slots>>
-----------------------------------------------------------------------------
Run(r) ==
  \/ Build(r) \/ BuildFails(r) \/ StartRun(r) \/ EndRun(r) \/ Return(r)
  \/ AbortWaiter(r) \/ Release(r)
Recover ==
  \/ FindRuns \/ FindWorkflow \/ RecoverWorkflow \/ RecoveryFails
  \/ \E r \in Runs : CloseInterruptedRun(r)
Next ==
  \/ BeginTurn \/ Cancel \/ LoopOver \/ EndTurn \/ Close \/ CloseMembers \/ ReleaseParent
  \/ Crash \/ Resume \/ Recover
  \/ StartWorkflow \/ ProgramEnds \/ EndWorkflow
  \/ \E c \in Runs \cup {WorkflowCall} : GiveUp(c)
  \/ \E r \in Runs : Run(r) \/ Delegate(r) \/ TurnEnds(r) \/ CallAgent(r)

Spec == Init /\ [][Next]_vars

(* The parent's own steps and those of a run; a cancelled turn and a       *)
(* cancelled script end, and a timer gives a cancelled call up.            *)
FairSpec ==
  /\ Spec
  /\ WF_vars(LoopOver) /\ WF_vars(EndTurn) /\ WF_vars(CloseMembers) /\ WF_vars(ReleaseParent)
  /\ WF_vars(EndWorkflow) /\ WF_vars(WorkflowCall \in cancelled /\ ProgramEnds)
  /\ \A c \in Runs \cup {WorkflowCall} : WF_vars(GiveUp(c))
  /\ \A r \in Runs : WF_vars(Run(r)) /\ WF_vars(r \in cancelled /\ TurnEnds(r))
-----------------------------------------------------------------------------
(* The slots of a workflow: as many are taken as runs hold one, never more *)
(* than there are, a call waits only while all are taken, and whatever is  *)
(* aborted while it waits or runs, none is lost (class Slots, runMember).  *)
Holders == InWorkflow \cap Underway
SlotsKept ==
  /\ slots.active = Cardinality(Holders) /\ slots.active <= MaxSlots
  /\ slots.waiting # <<>> => slots.active = MaxSlots
  /\ \A r \in Runs : (r \in ToSet(slots.waiting)) <=> (st[r] = "waiting")

(* The records of the parent's session: a run starts and ends at most      *)
(* once, in this order, although its own end, that of its call and the     *)
(* recovery of the session each may write it; the end of a workflow comes  *)
(* after everything of its runs.  Only what was started while the recovery *)
(* had not read the session yet may be ended twice, or too early           *)
(* (runOpenMember, closeInterruptedRuns, runWorkflow, recoverWorkflows).   *)
Ends == {"subagent.end", "workflow.end"}
RecordsPaired ==
  \A i, j \in DOMAIN log : i < j =>
    /\ log[i].run = log[j].run =>
         log[j].type \in Ends /\ (log[i].type \in Ends => log[i].run \in overtaken)
    /\ log[i].type = "workflow.end" /\ overtaken \cap {WorkflowCall, log[j].run} = {} =>
         log[j].run \notin InWorkflow
    /\ log[j].type = "workflow.end" /\ WorkflowCall \notin overtaken => InWorkflow \cap OpenRuns = {}

(* No member works outside its parent: its turn is over when the parent's  *)
(* session lock is released.  A recovery that went through has left no run *)
(* and no workflow of an earlier agent open (close, createChild,           *)
(* recoverWorkflows).                                                      *)
MembersInsideParent ==
  /\ \A r \in Runs : st[r] = "turn" => r \notin old /\ parent \notin {"closed", "dead"}
  /\ recovery = "done" => OpenRuns \cap old = {} /\ (OpenWorkflow => WorkflowCall \notin old)

(* Runs lie inside the sessions that made them, in the log as in time.     *)
RunsNested == RecordsPaired /\ MembersInsideParent

(* A close comes to its end although members, tools and the script never   *)
(* stop by themselves, and leaves no member open (closeAs, GiveUp).        *)
Over == parent = "dead" \/ (parent = "closed" /\ Underway = {})
CloseEnds == closing ~> (Over \/ ~closing)
=============================================================================
