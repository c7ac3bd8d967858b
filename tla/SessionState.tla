---------------------------- MODULE SessionState ----------------------------
(***************************************************************************)
(* What a session means: the state folded from its records, the            *)
(* checkpoints that spare the fold, the recovery of a turn that a dead     *)
(* process left open, and the history its agent keeps in memory meanwhile  *)
(* (src/packages/session/src/projection.ts, checkpoint.ts and store.ts;    *)
(* src/packages/kernel/src/agent.ts and agents.ts).                        *)
(*                                                                         *)
(* One session and its successive holders; LockFile shows that they come   *)
(* one after the other, SessionLog that a record once acknowledged stays.  *)
(* log is the readable content of session.jsonl: a record's seq is its     *)
(* place, records the projection passes over (errors, approvals, files)    *)
(* are left out.  An append that is rejected may still leave its record at *)
(* the end of the file, where the next one is written over it.             *)
(***************************************************************************)
EXTENDS Naturals, Sequences, FiniteSets, SequencesExt

CONSTANTS
  Budgets,          \* bounds a behaviour may have: see bounds
  MaxCalls,         \* bound: tool calls of one reply
  CheckpointEvery,  \* checkpointEvery of the store
  MaxChain          \* MAX_CHECKPOINT_CHAIN

ASSUME NumbersAssumption ==
  /\ {MaxCalls, MaxChain} \subseteq Nat
  /\ CheckpointEvery \in Nat \ {0}
  /\ Budgets \subseteq [turns : Nat, steps : Nat, faults : Nat, steers : Nat, compactions : Nat,
                         deaths : Nat, opens : Nat]

VARIABLES
  log,       \* the records in session.jsonl
  holder,    \* the Writer of the store that holds the session, or NoWriter
  phase,     \* the await the holder stands at
  messages,  \* the agent's own history
  lastTurn,  \* the agent's lastTurn
  turn,      \* the turn that runs, or that a recovery closes
  step,      \* its step
  todo,      \* calls it has yet to record a result for
  bounds,    \* turns, steps of a turn, rejected appends; steers, ..., opens left
  rejected,  \* appends that were rejected
  strayed,   \* whether a rejected append ever left its record in the file
  split      \* whether a compaction kept other messages in memory than in the session

stored == <<log, holder, rejected, strayed>>
agent == <<messages, lastTurn, turn, step, todo>>
stateVars == <<stored, phase, agent, bounds, split>>
-----------------------------------------------------------------------------
(* Records, without the fields nothing depends on. *)
SessionStart == [type |-> "session.start"]
TurnStart(t) == [type |-> "turn.start", turn |-> t]
UserMessage(t) == [type |-> "user.message", turn |-> t]
(* said is FALSE for an interrupted reply without content. *)
AssistantMessage(t, n, said) ==
  [type |-> "assistant.message", turn |-> t, calls |-> n, said |-> said]
(* ok is FALSE for the result that a recovery writes. *)
ToolResult(t, c, ok) == [type |-> "tool.result", turn |-> t, call |-> c, ok |-> ok]
Compaction(t, keep) == [type |-> "compaction", turn |-> t, keep |-> keep]
TurnEnd(t, kind) == [type |-> "turn.end", turn |-> t, reason |-> kind]
Checkpoint(base, keep, state) ==
  [type |-> "checkpoint", base |-> base, keep |-> keep, state |-> state]

(* Messages. A call is named by the seq of its reply and its place there. *)
FromUser(seq) == [role |-> "user", from |-> seq]
Summary(seq) == [role |-> "user", from |-> seq, summary |-> TRUE]
FromModel(seq, n) == [role |-> "assistant", from |-> seq, calls |-> n]
ToModel(c, ok) == [role |-> "tool", call |-> c, ok |-> ok]

CallsOf(seq, n) == [k \in 1..n |-> <<seq, k>>]

(* compactionTail: what it keeps, and when it throws. *)
LastOf(s, keep) == SubSeq(s, Len(s) - keep + 1, Len(s))
CompactionFits(s, keep) == keep \in 1..Len(s) /\ s[Len(s) - keep + 1].role # "tool"
Compacted(s, seq, keep) == <<Summary(seq)>> \o LastOf(s, keep)

(* The message a record adds to the history: none or one. *)
MessageOf(rec, seq) ==
  CASE rec.type = "user.message" -> <<FromUser(seq)>>
    [] rec.type = "assistant.message" /\ rec.said -> <<FromModel(seq, rec.calls)>>
    [] rec.type = "tool.result" -> <<ToModel(rec.call, rec.ok)>>
    [] OTHER -> <<>>
-----------------------------------------------------------------------------
(* The projection. *)
InitialState == [messages |-> <<>>, lastTurn |-> 0, openTurn |-> 0]

(* applyRecord. *)
Apply(s, rec, seq) ==
  CASE rec.type = "turn.start" -> [s EXCEPT !.lastTurn = rec.turn, !.openTurn = rec.turn]
    [] rec.type = "turn.end" -> [s EXCEPT !.openTurn = 0]
    [] rec.type = "compaction" -> [s EXCEPT !.messages = Compacted(@, seq, rec.keep)]
    [] rec.type = "checkpoint" /\ rec.base = 0 -> rec.state
    [] OTHER -> [s EXCEPT !.messages = @ \o MessageOf(rec, seq)]

(* replay: fold the records after the first done of them into s. *)
Replay(s, records, done) ==
  LET state[i \in done..Len(records)] ==
        IF i = done THEN s ELSE Apply(state[i - 1], records[i], i)
  IN  state[Len(records)]

(* resolveLatestCheckpoint: the checkpoint, its whole state and the length *)
(* of its chain; one whose base is not the latest usable one is passed     *)
(* over.                                                                   *)
NoLink == [seq |-> 0, depth |-> 0, state |-> InitialState]

Usable(rec, previous) ==
  /\ previous # NoLink /\ rec.base = previous.seq
  /\ rec.keep <= Len(previous.state.messages)

LatestCheckpoint(records) ==
  LET link[i \in 0..Len(records)] ==
        IF i = 0 THEN NoLink
        ELSE IF records[i].type # "checkpoint" THEN link[i - 1]
        ELSE IF records[i].base = 0 THEN [seq |-> i, depth |-> 0, state |-> records[i].state]
        ELSE IF Usable(records[i], link[i - 1])
        THEN [seq |-> i, depth |-> link[i - 1].depth + 1,
              state |-> [records[i].state EXCEPT !.messages =
                           SubSeq(link[i - 1].state.messages, 1, records[i].keep) \o @]]
        ELSE link[i - 1]
  IN  link[Len(records)]

(* What the next checkpoint can build on. *)
NoBase == [seq |-> 0, count |-> 0, depth |-> 0]
BaseOf(link) == [seq |-> link.seq, count |-> Len(link.state.messages), depth |-> link.depth]
Rewritten(records, seq) == \E i \in seq + 1..Len(records) : records[i].type = "compaction"

(* startingPoint and the replay after it. *)
Load(records) ==
  LET link == LatestCheckpoint(records)
  IN  [state |-> IF link = NoLink THEN Replay(InitialState, records, 1)
                                  ELSE Replay(link.state, records, link.seq),
       base |-> IF link = NoLink \/ Rewritten(records, link.seq) THEN NoBase ELSE BaseOf(link)]
-----------------------------------------------------------------------------
(* The store's Writer. *)
NoWriter == [last |-> 0]

LastCheckpoint(records) ==
  LET seqs == {i \in 1..Len(records) : records[i].type = "checkpoint"}
  IN  IF seqs = {} THEN 0 ELSE CHOOSE i \in seqs : \A j \in seqs : j <= i

(* lock. *)
Opened(records) ==
  [last |-> Len(records), lastCheckpoint |-> LastCheckpoint(records),
   base |-> Load(records).base, state |-> Load(records).state]

(* writeCheckpoint and incremental: the checkpoint that is stored. *)
CheckpointOf(w) ==
  IF w.base = NoBase \/ w.base.count = 0 \/ w.base.depth >= MaxChain
  THEN Checkpoint(0, 0, w.state)
  ELSE Checkpoint(w.base.seq, w.base.count,
                  [w.state EXCEPT !.messages = SubSeq(@, w.base.count + 1, Len(@))])

(* Mutant: the next checkpoint builds on one from before a compaction. *)
WriteKeepingBase(w, rec) ==
  [last |-> w.last + 1,
   lastCheckpoint |-> IF rec.type = "checkpoint" THEN w.last + 1 ELSE w.lastCheckpoint,
   base |-> IF rec.type = "checkpoint"
            THEN [seq |-> w.last + 1, count |-> Len(w.state.messages),
                  depth |-> IF rec.base = 0 THEN 0 ELSE w.base.depth + 1]
            ELSE w.base,
   state |-> Apply(w.state, rec, w.last + 1)]

(* writeRecord, once rec is in the file. *)
Write(w, rec) ==
  [last |-> w.last + 1,
   lastCheckpoint |-> IF rec.type = "checkpoint" THEN w.last + 1 ELSE w.lastCheckpoint,
   base |-> CASE rec.type = "checkpoint" ->
                   [seq |-> w.last + 1, count |-> Len(w.state.messages),
                    depth |-> IF rec.base = 0 THEN 0 ELSE w.base.depth + 1]
              [] rec.type = "compaction" -> NoBase
              [] OTHER -> w.base,
   state |-> Apply(w.state, rec, w.last + 1)]

(* shouldCheckpoint, after rec was written. *)
CheckpointDue(w, rec) == rec.type = "turn.end" /\ w.last - w.lastCheckpoint >= CheckpointEvery

(* What the holder knows to be in the file. *)
Known == SubSeq(log, 1, holder.last)

(* append resolves. *)
Appends(rec) ==
  LET w == Write(holder, rec)
  IN  /\ IF CheckpointDue(w, rec)
         THEN /\ log' = Known \o <<rec, CheckpointOf(w)>>
              /\ holder' = Write(w, CheckpointOf(w))
         ELSE log' = Append(Known, rec) /\ holder' = w
      /\ UNCHANGED <<rejected, strayed>>

(* The line is not written, or not synced; the undo may fail as well. *)
LineFails(w, known, rec) ==
  /\ holder' = w
  /\ log' \in {known, Append(known, rec)} \union (IF w = holder THEN {log} ELSE {})
  /\ strayed' = (strayed \/ log' # known)

(* append rejects: rec fails, or the checkpoint that follows it. *)
Rejects(rec) ==
  /\ rejected < bounds.faults /\ rejected' = rejected + 1
  /\ LET w == Write(holder, rec)
     IN  \/ LineFails(holder, Known, rec)
         \/ CheckpointDue(w, rec) /\ LineFails(w, Append(Known, rec), CheckpointOf(w))
-----------------------------------------------------------------------------
(* unansweredToolCalls, in call order. *)
StartOf(records, t) ==
  LET starts == {i \in 1..Len(records) : records[i] = TurnStart(t)}
  IN  IF starts = {} THEN 0 ELSE CHOOSE i \in starts : \A j \in starts : j <= i

Answered(records, c) == \E i \in 1..Len(records) :
  records[i].type = "tool.result" /\ records[i].call = c

TurnCalls(records, t) ==
  FlattenSeq([i \in 1..Len(records) |->
    IF i > StartOf(records, t) /\ records[i].type = "assistant.message" /\ records[i].turn = t
    THEN CallsOf(i, records[i].calls) ELSE <<>>])

(* Mutant: calls from before the last checkpoint are forgotten.             *)
UnansweredSinceCheckpoint(records, t) ==
  SelectSeq(TurnCalls(records, t),
            LAMBDA c : c[1] > LatestCheckpoint(records).seq /\ ~Answered(records, c))

Unanswered(records, t) ==
  LET calls == TurnCalls(records, t)
      left[k \in 0..Len(calls)] ==
        IF k = 0 THEN <<>>
        ELSE IF Answered(records, calls[k]) THEN left[k - 1] ELSE Append(left[k - 1], calls[k])
  IN  left[Len(calls)]

(* repairHistory: each call without a result gets one where its result     *)
(* belongs; nothing else is changed.                                       *)
RepairHistory(s) ==
  LET EndsRun(i) == i = Len(s) \/ s[i + 1].role # "tool"
      RepliedTo(i) == {r \in 1..i : s[r].role = "assistant" /\ \A k \in r + 1..i : s[k].role = "tool"}
      Given(r, i) == {s[k].call : k \in r + 1..i}
      Filler(r, i) == LET missing == SelectSeq(CallsOf(s[r].from, s[r].calls),
                                               LAMBDA c : c \notin Given(r, i))
                      IN  [k \in 1..Len(missing) |-> ToModel(missing[k], FALSE)]
  IN  FlattenSeq([i \in 1..Len(s) |->
        IF EndsRun(i) /\ RepliedTo(i) # {}
        THEN <<s[i]>> \o Filler(CHOOSE r \in RepliedTo(i) : TRUE, i)
        ELSE <<s[i]>>])

(* planCompaction: where a history may be cut. The kept part starts with a *)
(* segment, or with a reply of the current turn.                           *)
SegmentStarts(s) == {i \in 1..Len(s) :
  /\ s[i].role = "user"
  /\ \/ i = 1
     \/ s[i - 1].role # "user"
     \/ i = 2 /\ "summary" \in DOMAIN s[1]}

Cuts(s) ==
  {i \in SegmentStarts(s) : i > 1 /\ ~(i = 2 /\ "summary" \in DOMAIN s[1])}
    \union {i \in 2..Len(s) : s[i].role = "assistant" /\ \A j \in SegmentStarts(s) : j < i}
-----------------------------------------------------------------------------
StateInit ==
  /\ log = <<SessionStart>> /\ holder = Opened(log) /\ phase = "idle"
  /\ messages = <<>> /\ lastTurn = 0 /\ turn = 0 /\ step = 0 /\ todo = <<>>
  /\ bounds \in Budgets
  /\ rejected = 0 /\ strayed = FALSE /\ split = FALSE

Counts(what) ==
  /\ bounds[what] > 0
  /\ bounds' = [bounds EXCEPT ![what] = @ - 1]

Goto(p) == phase' = p
Forgets ==
  /\ messages' = <<>> /\ lastTurn' = 0 /\ turn' = 0 /\ step' = 0 /\ todo' = <<>>
  /\ split' = FALSE
Leaves(p) == Goto(p) /\ turn' = 0 /\ step' = 0 /\ todo' = <<>>

(* Agents.resume: lock, then the store's resume reads the records. *)
Open ==
  /\ phase = "closed" /\ Counts("opens")
  /\ holder' = Opened(log)
  /\ LET s == Load(log).state
     IN  IF s.openTurn = 0
         THEN /\ Leaves("idle") /\ messages' = s.messages /\ lastTurn' = s.lastTurn
         ELSE /\ Goto("reopen") /\ turn' = s.openTurn /\ todo' = Unanswered(log, s.openTurn)
              /\ UNCHANGED <<messages, lastTurn, step>>
  /\ UNCHANGED <<log, rejected, strayed, split>>

(* runTurn asks for the state before the turn (readState), for the         *)
(* providers of the context plugin: the store's resume reads the file      *)
(* again, and recovers a turn it finds open.                               *)
ReadState ==
  /\ phase = "idle" /\ lastTurn < bounds.turns
  /\ LET s == Load(log).state
     IN  IF s.openTurn = 0
         THEN Goto("start") /\ UNCHANGED agent
         ELSE /\ Goto("heal") /\ turn' = s.openTurn /\ todo' = Unanswered(log, s.openTurn)
              /\ UNCHANGED <<messages, lastTurn, step>>
  /\ UNCHANGED <<stored, bounds, split>>

(* resumeDetailed: a result for each call, then the end of the turn.       *)
Recovering == phase \in {"reopen", "heal"}
RecoveryRecord ==
  IF todo # <<>> THEN ToolResult(turn, Head(todo), FALSE) ELSE TurnEnd(turn, "interrupted")

AnswerCall ==
  /\ Recovering /\ todo # <<>>
  /\ Appends(RecoveryRecord)
  /\ todo' = Tail(todo)
  /\ UNCHANGED <<phase, messages, lastTurn, turn, step, bounds, split>>

CloseTurn ==
  /\ Recovering /\ todo = <<>>
  /\ Appends(RecoveryRecord)
  /\ IF phase = "reopen"
     THEN Leaves("idle") /\ messages' = holder'.state.messages /\ lastTurn' = holder'.state.lastTurn
     ELSE Leaves("start") /\ UNCHANGED <<messages, lastTurn>>
  /\ UNCHANGED <<bounds, split>>

(* The open gives the session up; a turn that begins goes on all the same. *)
RecoveryFails ==
  /\ Recovering /\ Rejects(RecoveryRecord)
  /\ Leaves(IF phase = "reopen" THEN "leave" ELSE "start")
  /\ UNCHANGED <<messages, lastTurn, bounds, split>>

(* Agent.run until the user's message is recorded; lastTurn counts a turn *)
(* whose turn.start was rejected.                                          *)
StartTurn ==
  /\ phase = "start" /\ Appends(TurnStart(lastTurn + 1))
  /\ Goto("ask") /\ turn' = lastTurn + 1 /\ lastTurn' = lastTurn + 1
  /\ UNCHANGED <<messages, step, todo, bounds, split>>

StartFails ==
  /\ phase = "start" /\ Rejects(TurnStart(lastTurn + 1))
  /\ Leaves("idle") /\ lastTurn' = lastTurn + 1
  /\ UNCHANGED <<messages, bounds, split>>

(* Mutant: an interrupted reply without content is kept in memory. *)
SaysSilence(rec) ==
  /\ Appends(rec)
  /\ messages' = messages \o
       (IF rec.type = "assistant.message" THEN <<FromModel(holder.last + 1, rec.calls)>>
        ELSE MessageOf(rec, holder.last + 1))

(* The message a record brings is pushed once its append has resolved. *)
Says(rec) ==
  /\ Appends(rec)
  /\ messages' = messages \o MessageOf(rec, holder.last + 1)

Ask ==
  /\ phase = "ask" /\ Says(UserMessage(turn))
  /\ Goto("top") /\ step' = 1
  /\ UNCHANGED <<lastTurn, turn, todo, bounds, split>>

(* Outside the try of runTurn: no turn.end is attempted. *)
AskFails ==
  /\ phase = "ask" /\ Rejects(UserMessage(turn))
  /\ Leaves("idle")
  /\ UNCHANGED <<messages, lastTurn, bounds, split>>

(* maybeCompact, at the top of a step: cut in memory, fold in the store,   *)
(* which rejects a cut that does not fit the session's own history.        *)
Kept(cut) == Len(messages) - cut + 1

Compact ==
  /\ phase = "top" /\ Counts("compactions")
  /\ \E cut \in Cuts(messages) :
       /\ CompactionFits(holder.state.messages, Kept(cut))
       /\ Appends(Compaction(turn, Kept(cut)))
       /\ messages' = Compacted(messages, holder.last + 1, Kept(cut))
       /\ split' = (split \/ LastOf(messages, Kept(cut)) # LastOf(holder.state.messages, Kept(cut)))
  /\ Goto("send")
  /\ UNCHANGED <<lastTurn, turn, step, todo>>

(* An error record says why; the turn ends when that fails as well. *)
CompactFails ==
  /\ phase = "top" /\ Counts("compactions")
  /\ \E cut \in Cuts(messages) :
       IF CompactionFits(holder.state.messages, Kept(cut))
       THEN Rejects(Compaction(turn, Kept(cut)))
       ELSE UNCHANGED stored
  /\ phase' \in {"send", "end"}
  /\ UNCHANGED <<agent, split>>

(* drainSteers, before a request and after the loop. *)
Drains == phase \in {"top", "send", "end"}

Steer ==
  /\ Drains /\ Counts("steers")
  /\ Says(UserMessage(turn))
  /\ Goto(IF phase = "end" THEN "end" ELSE "send")
  /\ UNCHANGED <<lastTurn, turn, step, todo, split>>

SteerFails ==
  /\ Drains /\ Counts("steers")
  /\ Rejects(UserMessage(turn))
  /\ Goto("end")
  /\ UNCHANGED <<agent, split>>

(* The next step of the turn, when it may have one.                        *)
NextStep ==
  IF step < bounds.steps THEN Goto("top") /\ step' = step + 1 ELSE Goto("end") /\ UNCHANGED step

(* The reply is recorded. Its calls are run; or the turn stops with none   *)
(* of them run (refused, paused or cut too often); or it has no calls, and *)
(* the turn ends or goes on (paused, cut, a message waits).                *)
Requesting == phase \in {"top", "send"}

Reply ==
  /\ Requesting
  /\ \E n \in 0..MaxCalls, said \in BOOLEAN :
       /\ n > 0 => said
       /\ Says(AssistantMessage(turn, n, said))
       /\ \/ Goto("end") /\ UNCHANGED <<step, todo>>
          \/ n = 0 /\ NextStep /\ UNCHANGED todo
          \/ n > 0 /\ Goto("tools") /\ todo' = CallsOf(holder.last + 1, n) /\ UNCHANGED step
  /\ UNCHANGED <<lastTurn, turn, bounds, split>>

ReplyFails ==
  /\ Requesting
  /\ \E n \in 0..MaxCalls, said \in BOOLEAN :
       (n > 0 => said) /\ Rejects(AssistantMessage(turn, n, said))
  /\ Goto("end")
  /\ UNCHANGED <<agent, bounds, split>>

(* Nothing came back, or the turn was cancelled or met a limit. *)
NoReply ==
  /\ Requesting /\ Goto("end")
  /\ UNCHANGED <<stored, agent, bounds, split>>

(* writeToolResult, in call order. *)
Result ==
  /\ phase = "tools" /\ Says(ToolResult(turn, Head(todo), TRUE))
  /\ todo' = Tail(todo)
  /\ IF Len(todo) > 1 THEN Goto("tools") /\ UNCHANGED step ELSE NextStep
  /\ UNCHANGED <<lastTurn, turn, bounds, split>>

ResultFails ==
  /\ phase = "tools" /\ Rejects(ToolResult(turn, Head(todo), TRUE))
  /\ Goto("end") /\ todo' = <<>>
  /\ UNCHANGED <<messages, lastTurn, turn, step, bounds, split>>

EndTurn ==
  /\ phase = "end" /\ Appends(TurnEnd(turn, "ended"))
  /\ Leaves("idle")
  /\ UNCHANGED <<messages, lastTurn, bounds, split>>

EndFails ==
  /\ phase = "end" /\ Rejects(TurnEnd(turn, "ended"))
  /\ Leaves("idle")
  /\ UNCHANGED <<messages, lastTurn, bounds, split>>

(* release: a closing checkpoint when there is something new; that it      *)
(* fails is ignored.                                                       *)
Fresh == holder.last > holder.lastCheckpoint /\ holder.last > 1

Closes == holder' = NoWriter /\ Goto("closed") /\ Forgets

Releases ==
  /\ phase \in {"idle", "leave"}
  /\ log' = IF Fresh THEN Append(Known, CheckpointOf(holder)) ELSE log
  /\ Closes
  /\ UNCHANGED <<rejected, strayed, bounds>>

ReleaseFails ==
  /\ phase \in {"idle", "leave"} /\ Fresh /\ rejected < bounds.faults
  /\ log' \in {log, Known, Append(Known, CheckpointOf(holder))}
  /\ rejected' = rejected + 1
  /\ Closes
  /\ UNCHANGED <<strayed, bounds>>

Steers == IF bounds.steers > 0 THEN {UserMessage(turn)} ELSE {}

(* The records the holder may be in the middle of appending. *)
UnderWay ==
  CASE Recovering -> {RecoveryRecord}
    [] phase = "start" -> {TurnStart(lastTurn + 1)}
    [] phase = "ask" -> {UserMessage(turn)}
    [] phase \in {"top", "send"} ->
         {AssistantMessage(turn, n, TRUE) : n \in 0..MaxCalls} \union Steers
           \union (IF phase = "top" THEN {Compaction(turn, Kept(c)) : c \in
                     {c \in Cuts(messages) : CompactionFits(holder.state.messages, Kept(c))}}
                   ELSE {})
    [] phase = "tools" -> {ToolResult(turn, Head(todo), TRUE)}
    [] phase = "end" -> {TurnEnd(turn, "ended")} \union Steers
    [] OTHER -> {CheckpointOf(holder)}

(* The process dies; the append under way is in the file, is not, or has   *)
(* destroyed what a rejected one had left there.                           *)
Killed ==
  /\ phase # "closed" /\ Counts("deaths")
  /\ log' \in {log, Known} \union {Append(Known, rec) : rec \in UnderWay}
  /\ Closes
  /\ UNCHANGED <<rejected, strayed>>

StateNext ==
  \/ Open \/ ReadState \/ AnswerCall \/ CloseTurn \/ RecoveryFails
  \/ StartTurn \/ StartFails \/ Ask \/ AskFails
  \/ Compact \/ CompactFails \/ Steer \/ SteerFails
  \/ Reply \/ ReplyFails \/ NoReply \/ Result \/ ResultFails
  \/ EndTurn \/ EndFails
  \/ Releases \/ ReleaseFails \/ Killed

StateSpec == StateInit /\ [][StateNext]_stateVars
-----------------------------------------------------------------------------
Holding == phase # "closed"
Places == 1..Len(log)
IsA(i, type) == log[i].type = type

(* The state folded from every record, as if there were no checkpoints.    *)
Folded(records) ==
  Replay(InitialState,
         [i \in 1..Len(records) |->
            IF records[i].type = "checkpoint" THEN SessionStart ELSE records[i]], 1)

(* The state a resume starts from a checkpoint is the one folded from the  *)
(* whole file (projection.ts:6, data-formats.md, checks of the session):   *)
(* whatever compactions, failed checkpoints, recoveries and dead holders   *)
(* lie between the checkpoint, the ones it builds on and the end.          *)
CheckpointsAreExact == Load(log).state = Folded(log)

(* What the holder keeps up to date record by record is what the next one  *)
(* would compute from the file: its state, the base of its next            *)
(* checkpoint with the length of its chain, and the last checkpoint.       *)
WriterAsReopened == Holding => holder = Opened(Known)

(* One state, however it came about: folded from the whole file, from a    *)
(* checkpoint, or kept by the holder (projection.ts, checkpoint.ts).       *)
StatesAgree == CheckpointsAreExact /\ WriterAsReopened

(* A call of a reply has at most one result in the file, and every result  *)
(* is of a call recorded before it in its turn.                            *)
ResultsMatchCalls == \A i \in Places : IsA(i, "tool.result") =>
  /\ log[i].call[1] < i /\ IsA(log[i].call[1], "assistant.message")
  /\ log[log[i].call[1]].turn = log[i].turn
  /\ log[i].call[2] \in 1..log[log[i].call[1]].calls
  /\ \A j \in 1..i - 1 : IsA(j, "tool.result") => log[j].call # log[i].call

(* A turn that a recovery closed has a result for each of its calls.       *)
RecoveredTurnsAnswered == \A i \in Places : IsA(i, "turn.end") /\ log[i].reason = "interrupted" =>
  \A k \in 1..Len(TurnCalls(log, log[i].turn)) :
    Answered(SubSeq(log, 1, i), TurnCalls(log, log[i].turn)[k])

(* A turn that was started ends at most once, after its start.             *)
TurnsEndOnce == \A i \in Places : IsA(i, "turn.end") =>
  /\ \E j \in 1..i - 1 : log[j] = TurnStart(log[i].turn)
  /\ \A j \in 1..i - 1 : IsA(j, "turn.end") => log[j].turn # log[i].turn

(* A turn starts while another is open only when two appends failed: one   *)
(* of the turn, and one of its recovery.                                   *)
TurnsOverlap == \E i, j \in Places :
  /\ i < j /\ IsA(i, "turn.start") /\ IsA(j, "turn.start")
  /\ \A k \in i..j : ~(IsA(k, "turn.end") /\ log[k].turn = log[i].turn)

(* The records of the turns make sense together, whoever died in a turn or *)
(* in its recovery, and whichever append was rejected (runTurn,            *)
(* resumeDetailed).                                                        *)
TurnsAddUp ==
  ~strayed => ResultsMatchCalls /\ RecoveredTurnsAnswered /\ TurnsEndOnce /\ (TurnsOverlap => rejected > 1)

(* Each result directly follows its reply and the results before it.       *)
ResultsInPlace(s) == \A i \in 1..Len(s) : s[i].role = "tool" =>
  \E r \in 1..i - 1 :
    /\ s[r].role = "assistant" /\ s[r].from = s[i].call[1]
    /\ \A k \in r + 1..i - 1 : s[k].role = "tool"

(* The history the agent sends is the one a resume would rebuild and send  *)
(* (data-formats.md:813), whatever a recovery added to the session behind  *)
(* the agent's back: when it put the results in their place, and each      *)
(* compaction kept the same messages in both.                              *)
SentIsRebuilt ==
  /\ phase \in {"top", "send", "tools", "end"}
  /\ ~strayed /\ ~split /\ ResultsInPlace(holder.state.messages)
  => RepairHistory(messages) = RepairHistory(holder.state.messages)

=============================================================================
