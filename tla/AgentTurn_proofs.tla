-------------------------- MODULE AgentTurn_proofs --------------------------
(***************************************************************************)
(* Proofs about AgentTurn, for every value of its constants: TurnInv is an *)
(* inductive invariant, and the safety properties of a turn follow.  Each  *)
(* conjunct of TurnInv has a lemma of its own, with one step per action.   *)
(* Then about Rewind, whose turns are seen from their files: StoreInv is   *)
(* an inductive invariant of the snapshots, and a snapshot on record stays *)
(* whole; ListInv is one of the turns and the owners of files, and a turn  *)
(* lists a file with reason; UndoInv is one of the records, the lists and  *)
(* the rewinds, and a rewind takes back what its session changed.          *)
(***************************************************************************)
EXTENDS AgentTurn, Rewind, Integers, SequenceTheorems, FiniteSetTheorems, WellFoundedInduction, TLAPS

(* The locals of a new loop. *)
LEMMA FreshLoopType == FreshLoop \in LoopType
  BY DEF FreshLoop, LoopType

(* TypeOK, a kind of variable at a time: the locals of loop, *)
LEMMA LoopTyped ==
  ASSUME TypeOK, Next
  PROVE  loop' \in LoopType
<1> USE FreshLoopType DEF TypeOK, LoopType, Goto, Finish, LoopThrows, LeaveTurn
<1>1. CASE Run \/ Cancel \/ Close \/ Release
  BY <1>1 DEF Run, Cancel, Close, Release
<1>2. ASSUME NEW m \in Messages, Steer(m)
     PROVE  loop' \in LoopType
  BY <1>2 DEF Steer
<1>3. CASE OpenTurn \/ LedgerUnreadable
  BY <1>3 DEF OpenTurn, LedgerUnreadable
<1>4. CASE Top \/ Compact
  BY <1>4 DEF Top, BudgetExhausted, AfterCompact, Compact
<1>5. CASE Drain \/ Drained \/ Send
  BY <1>5 DEF Drain, Drained, Send
<1>6. CASE ModelReplies \/ Resend
  BY <1>6 DEF ModelReplies, Outcomes, Resend
<1>7. CASE Reply
  <2>1. CASE UNCHANGED loop
    BY <2>1
  <2>2. CASE Overflowed
    BY <2>2 DEF Overflowed
  <2>3. CASE Cut
    BY <2>3 DEF Cut
  <2>4. CASE Paused
    <3>1. loop.pauses + 1 \in Nat /\ (todo = 0) \in BOOLEAN
      OBVIOUS
    <3>2. loop' = [loop EXCEPT !.cuts = 0, !.pauses = loop.pauses + 1, !.paused = (todo = 0)]
      BY <2>4 DEF Paused
    <3> QED BY <3>1, <3>2, Zenon
  <2>5. CASE CallsTools
    BY <2>5 DEF CallsTools
  <2>6. CASE Stopped
    <3>1. UNCHANGED loop \/ loop' = [loop EXCEPT !.cuts = 0, !.pauses = 0]
      BY <2>6 DEF Stopped, LoopCompleted
    <3>2. CASE UNCHANGED loop
      BY <3>2
    <3>3. CASE loop' = [loop EXCEPT !.cuts = 0, !.pauses = 0]
      BY <3>3
    <3> QED BY <3>1, <3>2, <3>3
  <2> QED BY <1>7, <2>1, <2>2, <2>3, <2>4, <2>5, <2>6 DEF Reply, Failed, Interrupted, Refused
<1>8. CASE Shrink \/ ToolResult \/ CutResult
  BY <1>8 DEF Shrink, ToolResult, CutResult
<1>9. CASE ChecksPass \/ ChecksFail \/ RetryNote
  BY <1>9 DEF ChecksPass, EnterLoop, ChecksFail, RetryNote
<1>10. CASE LastDrain \/ Settle \/ EndTurn \/ AfterTurn
  BY <1>10 DEF LastDrain, Settle, EndTurn, AfterTurn
<1> QED BY <1>1, <1>2, <1>3, <1>4, <1>5, <1>6, <1>7, <1>8, <1>9, <1>10 DEF Next, TurnStep

(* the fates of the messages, *)
LEMMA SteerTyped ==
  ASSUME TypeOK, Next
  PROVE  steer' \in [Messages -> Fates]
<1> USE DEF TypeOK, Fates, Become, LeaveTurn
<1>1. CASE Run \/ Cancel \/ Close \/ Release
  BY <1>1 DEF Run, Cancel, Close, Release
<1>2. ASSUME NEW m \in Messages, Steer(m)
     PROVE  steer' \in [Messages -> Fates]
  BY <1>2 DEF Steer
<1>3. CASE OpenTurn \/ LedgerUnreadable
  BY <1>3 DEF OpenTurn, LedgerUnreadable
<1>4. CASE Top \/ Compact
  BY <1>4 DEF Top, BudgetExhausted, AfterCompact, Compact
<1>5. CASE Drain \/ Drained \/ Send
  BY <1>5 DEF Drain, Drained, Send
<1>6. CASE ModelReplies \/ Resend
  BY <1>6 DEF ModelReplies, Outcomes, Resend
<1>7. CASE Reply
  BY <1>7 DEF Reply, Failed, Overflowed, Interrupted, Refused, Cut, Paused, CallsTools, Stopped,
    LoopCompleted
<1>8. CASE Shrink \/ ToolResult \/ CutResult
  BY <1>8 DEF Shrink, ToolResult, CutResult
<1>9. CASE ChecksPass \/ ChecksFail \/ RetryNote
  BY <1>9 DEF ChecksPass, EnterLoop, ChecksFail, RetryNote
<1>10. CASE LastDrain \/ Settle \/ EndTurn \/ AfterTurn
  BY <1>10 DEF LastDrain, Settle, EndTurn, AfterTurn
<1> QED BY <1>1, <1>2, <1>3, <1>4, <1>5, <1>6, <1>7, <1>8, <1>9, <1>10 DEF Next, TurnStep

(* the flags, *)
LEMMA FlagsTyped ==
  ASSUME TypeOK, Next
  PROVE  aborted' \in BOOLEAN /\ accepting' \in BOOLEAN
<1> USE DEF TypeOK, control, reply, Goto, Finish, LoopThrows, LeaveTurn
<1>1. CASE Run \/ Cancel \/ Close \/ Release
  BY <1>1 DEF Run, Cancel, Close, Release
<1>2. ASSUME NEW m \in Messages, Steer(m)
     PROVE  aborted' \in BOOLEAN /\ accepting' \in BOOLEAN
  BY <1>2 DEF Steer
<1>3. CASE OpenTurn \/ LedgerUnreadable
  BY <1>3 DEF OpenTurn, LedgerUnreadable
<1>4. CASE Top \/ Compact
  BY <1>4 DEF Top, BudgetExhausted, AfterCompact, Compact
<1>5. CASE Drain \/ Drained \/ Send
  BY <1>5 DEF Drain, Drained, Send
<1>6. CASE ModelReplies \/ Resend
  BY <1>6 DEF ModelReplies, Outcomes, Resend
<1>7. CASE Reply
  BY <1>7 DEF Reply, Failed, Overflowed, Interrupted, Refused, Cut, Paused, CallsTools, Stopped,
    LoopCompleted
<1>8. CASE Shrink \/ ToolResult \/ CutResult
  BY <1>8 DEF Shrink, ToolResult, CutResult
<1>9. CASE ChecksPass \/ ChecksFail \/ RetryNote
  BY <1>9 DEF ChecksPass, EnterLoop, ChecksFail, RetryNote
<1>10. CASE LastDrain \/ Settle \/ EndTurn \/ AfterTurn
  BY <1>10 DEF LastDrain, Settle, EndTurn, AfterTurn
<1> QED BY <1>1, <1>2, <1>3, <1>4, <1>5, <1>6, <1>7, <1>8, <1>9, <1>10 DEF Next, TurnStep

(* the labels, *)
LEMMA LabelsTyped ==
  ASSUME TypeOK, Next
  PROVE  /\ phase' \in Phases /\ finish' \in Finishes /\ reason' \in Reasons
         /\ closing' \in {"open", "closing", "skipping", "closed", "skipped"}
<1> USE DEF TypeOK, Phases, Looping, Ending, Finishes, Whole, Reasons, reply, Goto, Finish,
  LoopThrows, LeaveTurn
<1> DEFINE Goal ==
      /\ phase' \in Phases /\ finish' \in Finishes /\ reason' \in Reasons
      /\ closing' \in {"open", "closing", "skipping", "closed", "skipped"}
<1>1. CASE Run \/ Cancel \/ Close \/ Release
  BY <1>1 DEF Run, Cancel, Close, Release
<1>2. ASSUME NEW m \in Messages, Steer(m)
     PROVE  Goal
  BY <1>2 DEF Steer
<1>3. CASE OpenTurn \/ LedgerUnreadable
  BY <1>3 DEF OpenTurn, LedgerUnreadable
<1>4. CASE Top \/ Compact
  BY <1>4 DEF Top, BudgetExhausted, AfterCompact, Compact
<1>5. CASE Drain \/ Drained \/ Send
  BY <1>5 DEF Drain, Drained, Send
<1>6. CASE ModelReplies \/ Resend
  BY <1>6 DEF ModelReplies, Outcomes, Resend
<1>7. CASE Reply
  BY <1>7 DEF Reply, Failed, Overflowed, Interrupted, Refused, Cut, Paused, CallsTools, Stopped,
    LoopCompleted
<1>8. CASE Shrink \/ ToolResult \/ CutResult
  BY <1>8 DEF Shrink, ToolResult, CutResult
<1>9. CASE ChecksPass \/ ChecksFail \/ RetryNote
  BY <1>9 DEF ChecksPass, EnterLoop, ChecksFail, RetryNote
<1>10. CASE LastDrain \/ Settle \/ EndTurn \/ AfterTurn
  BY <1>10 DEF LastDrain, Settle, EndTurn, AfterTurn
<1> QED BY <1>1, <1>2, <1>3, <1>4, <1>5, <1>6, <1>7, <1>8, <1>9, <1>10 DEF Next, TurnStep

(* and the counters (tools has a call left: CallsTracked). *)
LEMMA CountersTyped ==
  ASSUME TypeOK, CallsTracked, Next
  PROVE  /\ turn' \in Nat /\ step' \in Nat /\ retry' \in Nat /\ mark' \in Nat
         /\ todo' \in Nat /\ resend' \in 0..StepResends /\ spent' \in Nat
         /\ outcomes' \in Nat /\ faults' \in Nat
<1> USE NumbersAssumption DEF TypeOK, CallsTracked, NoMark, AppendFails, AppendWorks, control,
  reply, Goto, Finish, LoopThrows, LeaveTurn
<1> DEFINE Goal ==
      /\ turn' \in Nat /\ step' \in Nat /\ retry' \in Nat /\ mark' \in Nat
      /\ todo' \in Nat /\ resend' \in 0..StepResends /\ spent' \in Nat
      /\ outcomes' \in Nat /\ faults' \in Nat
<1>1. CASE Run \/ Cancel \/ Close \/ Release
  BY <1>1 DEF Run, Cancel, Close, Release
<1>2. ASSUME NEW m \in Messages, Steer(m)
     PROVE  Goal
  BY <1>2 DEF Steer
<1>3. CASE OpenTurn \/ LedgerUnreadable
  BY <1>3 DEF OpenTurn, LedgerUnreadable
<1>4. CASE Top \/ Compact
  BY <1>4 DEF Top, BudgetExhausted, AfterCompact, Compact
<1>5. CASE Drain \/ Drained \/ Send
  BY <1>5 DEF Drain, Drained, Send
<1>6. CASE ModelReplies \/ Resend
  BY <1>6 DEF ModelReplies, Outcomes, Resend
<1>7. CASE Reply
  BY <1>7 DEF Reply, Failed, Overflowed, Interrupted, Refused, Cut, Paused, CallsTools, Stopped,
    LoopCompleted
<1>8. CASE Shrink \/ ToolResult \/ CutResult
  BY <1>8 DEF Shrink, ToolResult, CutResult
<1>9. CASE ChecksPass \/ ChecksFail \/ RetryNote
  BY <1>9 DEF ChecksPass, EnterLoop, ChecksFail, RetryNote
<1>10. CASE LastDrain \/ Settle \/ EndTurn \/ AfterTurn
  BY <1>10 DEF LastDrain, Settle, EndTurn, AfterTurn
<1> QED BY <1>1, <1>2, <1>3, <1>4, <1>5, <1>6, <1>7, <1>8, <1>9, <1>10 DEF Next, TurnStep

(* Every variable keeps its type. *)
LEMMA TypesKept ==
  ASSUME TypeOK, CallsTracked, Next
  PROVE  TypeOK'
  BY LoopTyped, SteerTyped, FlagsTyped, LabelsTyped, CountersTyped DEF TypeOK

(* No accepted message is dropped unless an append failed. *)
LEMMA SteersStayKept ==
  ASSUME TypeOK, SteersKept, Next
  PROVE  SteersKept'
<1> USE DEF TypeOK, Fates, SteersKept, NoSteerLost, Pending, Ending, Become, AppendFails,
  AppendWorks, Goto, Finish, LoopThrows, LeaveTurn
<1>1. CASE Run
  BY <1>1 DEF Run
<1>2. ASSUME NEW m \in Messages, Steer(m)
     PROVE  SteersKept'
  BY <1>2 DEF Steer
<1>3. CASE Cancel
  BY <1>3 DEF Cancel
<1>4. CASE Close
  BY <1>4 DEF Close
<1>5. CASE Release
  BY <1>5 DEF Release
<1>6. CASE OpenTurn
  BY <1>6 DEF OpenTurn
<1>7. CASE LedgerUnreadable
  BY <1>7 DEF LedgerUnreadable
<1>8. CASE Top
  BY <1>8 DEF Top, BudgetExhausted, AfterCompact
<1>9. CASE Compact
  BY <1>9 DEF Compact, AfterCompact
<1>10. CASE Drain
  BY <1>10 DEF Drain
<1>11. CASE Drained
  BY <1>11 DEF Drained
<1>12. CASE Send
  BY <1>12 DEF Send
<1>13. CASE ModelReplies
  BY <1>13 DEF ModelReplies, Outcomes
<1>14. CASE Resend
  BY <1>14 DEF Resend
<1>15. CASE Reply
  BY <1>15 DEF Reply, Failed, Overflowed, Interrupted, Refused, Cut, Paused, CallsTools, Stopped,
    LoopCompleted
<1>16. CASE Shrink
  BY <1>16 DEF Shrink
<1>17. CASE ToolResult
  BY <1>17 DEF ToolResult
<1>18. CASE CutResult
  BY <1>18 DEF CutResult
<1>19. CASE ChecksPass
  BY <1>19 DEF ChecksPass, EnterLoop
<1>20. CASE ChecksFail
  BY <1>20 DEF ChecksFail
<1>21. CASE RetryNote
  BY <1>21 DEF RetryNote, EnterLoop
<1>22. CASE LastDrain
  BY <1>22 DEF LastDrain
<1>23. CASE Settle
  BY <1>23 DEF Settle
<1>24. CASE EndTurn
  BY <1>24 DEF EndTurn
<1>25. CASE AfterTurn
  BY <1>25 DEF AfterTurn
<1> QED BY <1>1, <1>2, <1>3, <1>4, <1>5, <1>6, <1>7, <1>8, <1>9, <1>10, <1>11, <1>12, <1>13, <1>14,
  <1>15, <1>16, <1>17, <1>18, <1>19, <1>20, <1>21, <1>22, <1>23, <1>24, <1>25 DEF Next, TurnStep

(* A whole reply answers every message recorded before its request. *)
LEMMA RepliesStillCover ==
  ASSUME TypeOK, RepliesCoverSteers, Next
  PROVE  RepliesCoverSteers'
<1> USE DEF TypeOK, Fates, RepliesCoverSteers, Whole, Become, Goto, Finish, LoopThrows, LeaveTurn
<1>1. CASE Run
  BY <1>1 DEF Run
<1>2. ASSUME NEW m \in Messages, Steer(m)
     PROVE  RepliesCoverSteers'
  BY <1>2 DEF Steer
<1>3. CASE Cancel
  BY <1>3 DEF Cancel
<1>4. CASE Close
  BY <1>4 DEF Close
<1>5. CASE Release
  BY <1>5 DEF Release
<1>6. CASE OpenTurn
  BY <1>6 DEF OpenTurn
<1>7. CASE LedgerUnreadable
  BY <1>7 DEF LedgerUnreadable
<1>8. CASE Top
  BY <1>8 DEF Top, BudgetExhausted, AfterCompact
<1>9. CASE Compact
  BY <1>9 DEF Compact, AfterCompact
<1>10. CASE Drain
  BY <1>10 DEF Drain
<1>11. CASE Drained
  BY <1>11 DEF Drained
<1>12. CASE Send
  BY <1>12 DEF Send
<1>13. CASE ModelReplies
  BY <1>13 DEF ModelReplies, Outcomes
<1>14. CASE Resend
  BY <1>14 DEF Resend
<1>15. CASE Reply
  BY <1>15 DEF Reply, Failed, Overflowed, Interrupted, Refused, Cut, Paused, CallsTools, Stopped,
    LoopCompleted
<1>16. CASE Shrink
  BY <1>16 DEF Shrink
<1>17. CASE ToolResult
  BY <1>17 DEF ToolResult
<1>18. CASE CutResult
  BY <1>18 DEF CutResult
<1>19. CASE ChecksPass
  BY <1>19 DEF ChecksPass, EnterLoop
<1>20. CASE ChecksFail
  BY <1>20 DEF ChecksFail
<1>21. CASE RetryNote
  BY <1>21 DEF RetryNote, EnterLoop
<1>22. CASE LastDrain
  BY <1>22 DEF LastDrain
<1>23. CASE Settle
  BY <1>23 DEF Settle
<1>24. CASE EndTurn
  BY <1>24 DEF EndTurn
<1>25. CASE AfterTurn
  BY <1>25 DEF AfterTurn
<1> QED BY <1>1, <1>2, <1>3, <1>4, <1>5, <1>6, <1>7, <1>8, <1>9, <1>10, <1>11, <1>12, <1>13, <1>14,
  <1>15, <1>16, <1>17, <1>18, <1>19, <1>20, <1>21, <1>22, <1>23, <1>24, <1>25 DEF Next, TurnStep

(* Calls without a result belong to the step under way. *)
LEMMA CallsStayTracked ==
  ASSUME TypeOK, CallsTracked, Next
  PROVE  CallsTracked'
<1> USE DEF TypeOK, CallsTracked, StoppedTurnAnsweredCalls, Ending, reply, Goto, Finish, LoopThrows,
  LeaveTurn
<1>1. CASE Run
  BY <1>1 DEF Run
<1>2. ASSUME NEW m \in Messages, Steer(m)
     PROVE  CallsTracked'
  BY <1>2 DEF Steer
<1>3. CASE Cancel
  BY <1>3 DEF Cancel
<1>4. CASE Close
  BY <1>4 DEF Close
<1>5. CASE Release
  BY <1>5 DEF Release
<1>6. CASE OpenTurn
  BY <1>6 DEF OpenTurn
<1>7. CASE LedgerUnreadable
  BY <1>7 DEF LedgerUnreadable
<1>8. CASE Top
  BY <1>8 DEF Top, BudgetExhausted, AfterCompact
<1>9. CASE Compact
  BY <1>9 DEF Compact, AfterCompact
<1>10. CASE Drain
  BY <1>10 DEF Drain
<1>11. CASE Drained
  BY <1>11 DEF Drained
<1>12. CASE Send
  BY <1>12 DEF Send
<1>13. CASE ModelReplies
  BY <1>13 DEF ModelReplies, Outcomes
<1>14. CASE Resend
  BY <1>14 DEF Resend
<1>15. CASE Reply
  BY <1>15 DEF Reply, Failed, Overflowed, Interrupted, Refused, Cut, Paused, CallsTools, Stopped,
    LoopCompleted
<1>16. CASE Shrink
  BY <1>16 DEF Shrink
<1>17. CASE ToolResult
  BY <1>17 DEF ToolResult
<1>18. CASE CutResult
  BY <1>18 DEF CutResult
<1>19. CASE ChecksPass
  BY <1>19 DEF ChecksPass, EnterLoop
<1>20. CASE ChecksFail
  BY <1>20 DEF ChecksFail
<1>21. CASE RetryNote
  BY <1>21 DEF RetryNote, EnterLoop
<1>22. CASE LastDrain
  BY <1>22 DEF LastDrain
<1>23. CASE Settle
  BY <1>23 DEF Settle
<1>24. CASE EndTurn
  BY <1>24 DEF EndTurn
<1>25. CASE AfterTurn
  BY <1>25 DEF AfterTurn
<1> QED BY <1>1, <1>2, <1>3, <1>4, <1>5, <1>6, <1>7, <1>8, <1>9, <1>10, <1>11, <1>12, <1>13, <1>14,
  <1>15, <1>16, <1>17, <1>18, <1>19, <1>20, <1>21, <1>22, <1>23, <1>24, <1>25 DEF Next, TurnStep

(* Each stage of a step is at most so far past the cap. *)
LEMMA CapStaysTracked ==
  ASSUME TypeOK, CapTracked, Next
  PROVE  CapTracked'
<1> USE NumbersAssumption DEF TypeOK, CapTracked, CapOverrunBounded, reply, Goto, Finish,
  LoopThrows, LeaveTurn
<1>1. CASE Run
  BY <1>1 DEF Run
<1>2. ASSUME NEW m \in Messages, Steer(m)
     PROVE  CapTracked'
  BY <1>2 DEF Steer
<1>3. CASE Cancel
  BY <1>3 DEF Cancel
<1>4. CASE Close
  BY <1>4 DEF Close
<1>5. CASE Release
  BY <1>5 DEF Release
<1>6. CASE OpenTurn
  BY <1>6 DEF OpenTurn
<1>7. CASE LedgerUnreadable
  BY <1>7 DEF LedgerUnreadable
<1>8. CASE Top
  BY <1>8 DEF Top, BudgetExhausted, AfterCompact
<1>9. CASE Compact
  BY <1>9 DEF Compact, AfterCompact
<1>10. CASE Drain
  BY <1>10 DEF Drain
<1>11. CASE Drained
  BY <1>11 DEF Drained
<1>12. CASE Send
  BY <1>12 DEF Send
<1>13. CASE ModelReplies
  BY <1>13 DEF ModelReplies, Outcomes
<1>14. CASE Resend
  BY <1>14 DEF Resend
<1>15. CASE Reply
  BY <1>15 DEF Reply, Failed, Overflowed, Interrupted, Refused, Cut, Paused, CallsTools, Stopped,
    LoopCompleted
<1>16. CASE Shrink
  BY <1>16 DEF Shrink
<1>17. CASE ToolResult
  BY <1>17 DEF ToolResult
<1>18. CASE CutResult
  BY <1>18 DEF CutResult
<1>19. CASE ChecksPass
  BY <1>19 DEF ChecksPass, EnterLoop
<1>20. CASE ChecksFail
  BY <1>20 DEF ChecksFail
<1>21. CASE RetryNote
  BY <1>21 DEF RetryNote, EnterLoop
<1>22. CASE LastDrain
  BY <1>22 DEF LastDrain
<1>23. CASE Settle
  BY <1>23 DEF Settle
<1>24. CASE EndTurn
  BY <1>24 DEF EndTurn
<1>25. CASE AfterTurn
  BY <1>25 DEF AfterTurn
<1> QED BY <1>1, <1>2, <1>3, <1>4, <1>5, <1>6, <1>7, <1>8, <1>9, <1>10, <1>11, <1>12, <1>13, <1>14,
  <1>15, <1>16, <1>17, <1>18, <1>19, <1>20, <1>21, <1>22, <1>23, <1>24, <1>25 DEF Next, TurnStep

(* One outcome. *)
LEMMA OutcomeStaysTracked ==
  ASSUME TypeOK, OutcomeTracked, Next
  PROVE  OutcomeTracked'
<1> USE DEF TypeOK, OutcomeTracked, OneOutcome, control, Goto, Finish, LoopThrows, LeaveTurn
<1>1. CASE Run
  BY <1>1 DEF Run
<1>2. ASSUME NEW m \in Messages, Steer(m)
     PROVE  OutcomeTracked'
  BY <1>2 DEF Steer
<1>3. CASE Cancel
  BY <1>3 DEF Cancel
<1>4. CASE Close
  BY <1>4 DEF Close
<1>5. CASE Release
  BY <1>5 DEF Release
<1>6. CASE OpenTurn
  BY <1>6 DEF OpenTurn
<1>7. CASE LedgerUnreadable
  BY <1>7 DEF LedgerUnreadable
<1>8. CASE Top
  BY <1>8 DEF Top, BudgetExhausted, AfterCompact
<1>9. CASE Compact
  BY <1>9 DEF Compact, AfterCompact
<1>10. CASE Drain
  BY <1>10 DEF Drain
<1>11. CASE Drained
  BY <1>11 DEF Drained
<1>12. CASE Send
  BY <1>12 DEF Send
<1>13. CASE ModelReplies
  BY <1>13 DEF ModelReplies, Outcomes
<1>14. CASE Resend
  BY <1>14 DEF Resend
<1>15. CASE Reply
  BY <1>15 DEF Reply, Failed, Overflowed, Interrupted, Refused, Cut, Paused, CallsTools, Stopped,
    LoopCompleted
<1>16. CASE Shrink
  BY <1>16 DEF Shrink
<1>17. CASE ToolResult
  BY <1>17 DEF ToolResult
<1>18. CASE CutResult
  BY <1>18 DEF CutResult
<1>19. CASE ChecksPass
  BY <1>19 DEF ChecksPass, EnterLoop
<1>20. CASE ChecksFail
  BY <1>20 DEF ChecksFail
<1>21. CASE RetryNote
  BY <1>21 DEF RetryNote, EnterLoop
<1>22. CASE LastDrain
  BY <1>22 DEF LastDrain
<1>23. CASE Settle
  BY <1>23 DEF Settle
<1>24. CASE EndTurn
  BY <1>24 DEF EndTurn
<1>25. CASE AfterTurn
  BY <1>25 DEF AfterTurn
<1> QED BY <1>1, <1>2, <1>3, <1>4, <1>5, <1>6, <1>7, <1>8, <1>9, <1>10, <1>11, <1>12, <1>13, <1>14,
  <1>15, <1>16, <1>17, <1>18, <1>19, <1>20, <1>21, <1>22, <1>23, <1>24, <1>25 DEF Next, TurnStep

-----------------------------------------------------------------------------
(* The initial state satisfies the invariant, *)
LEMMA TurnInitially ==
  ASSUME Init
  PROVE  TurnInv
<1> USE NumbersAssumption, FreshLoopType DEF Init
<1>1. TypeOK
  <2>1. phase \in Phases /\ finish \in Finishes /\ reason \in Reasons
    BY DEF Phases, Looping, Ending, Finishes, Reasons
  <2>2. /\ turn \in Nat /\ step \in Nat /\ retry \in Nat /\ mark \in Nat /\ todo \in Nat
        /\ resend \in 0..StepResends /\ spent \in Nat /\ outcomes \in Nat /\ faults \in Nat
    BY DEF NoMark
  <2>3. loop \in LoopType /\ steer \in [Messages -> Fates]
    BY DEF Fates
  <2>4. aborted \in BOOLEAN /\ accepting \in BOOLEAN
    OBVIOUS
  <2>5. closing \in {"open", "closing", "skipping", "closed", "skipped"}
    OBVIOUS
  <2> QED BY <2>1, <2>2, <2>3, <2>4, <2>5 DEF TypeOK
<1>2. SteersKept /\ RepliesCoverSteers
  BY DEF SteersKept, NoSteerLost, Pending, RepliesCoverSteers, Ending
<1>3. CallsTracked /\ CapTracked /\ OutcomeTracked
  BY DEF CallsTracked, StoppedTurnAnsweredCalls, Ending, CapTracked, CapOverrunBounded,
    OutcomeTracked, OneOutcome
<1> QED BY <1>1, <1>2, <1>3 DEF TurnInv

(* and every step keeps it. *)
LEMMA TurnInvStep ==
  ASSUME TurnInv, [Next]_vars
  PROVE  TurnInv'
<1>1. CASE Next
  BY <1>1, TypesKept, SteersStayKept, RepliesStillCover, CallsStayTracked, CapStaysTracked,
    OutcomeStaysTracked DEF TurnInv
<1>2. CASE UNCHANGED vars
  BY <1>2 DEF vars, TurnInv, TypeOK, SteersKept, NoSteerLost, Pending, RepliesCoverSteers,
    CallsTracked, StoppedTurnAnsweredCalls, CapTracked, CapOverrunBounded, OutcomeTracked,
    OneOutcome
<1> QED BY <1>1, <1>2

(* TurnInv holds of an agent with any number of turns, steps, resends and  *)
(* failing appends.                                                        *)
THEOREM TurnInvariant == Spec => []TurnInv
  BY TurnInitially, TurnInvStep, PTL DEF Spec

(* No message that steer accepted is lost while the session can be written. *)
THEOREM SteersAreKept == Spec => []NoSteerLost
<1>1. TurnInv => NoSteerLost
  BY DEF TurnInv, SteersKept
<1> QED BY <1>1, TurnInvariant, PTL

(* A turn that completed or was cancelled answered all its tool calls. *)
THEOREM StoppedTurnsAnsweredCalls == Spec => []StoppedTurnAnsweredCalls
<1>1. TurnInv => StoppedTurnAnsweredCalls
  BY DEF TurnInv, CallsTracked
<1> QED BY <1>1, TurnInvariant, PTL

(* The task never sends more than StepResends + 2 requests over its cap. *)
THEOREM CapOverrunIsBounded == Spec => []CapOverrunBounded
<1>1. TurnInv => CapOverrunBounded
  BY DEF TurnInv, CapTracked
<1> QED BY <1>1, TurnInvariant, PTL

(* A closed task has exactly one outcome if it had a turn. *)
THEOREM OutcomeIsWrittenOnce == Spec => []OneOutcome
<1>1. TurnInv => OneOutcome
  BY DEF TurnInv, OutcomeTracked
<1> QED BY <1>1, TurnInvariant, PTL

(* A step that completes an uncancelled turn leaves no message without an  *)
(* answer: only Reply and ChecksPass complete one, and neither does while  *)
(* a message is pending.                                                   *)
LEMMA CompletingStep ==
  ASSUME TurnInv, Next, phase # "finish", phase' = "finish", reason' = "completed", ~aborted
  PROVE  \A m \in Messages : steer'[m] \in {"new", "answered", "lost"}
<1> USE DEF Goto, Finish, LoopThrows
<1>1. TypeOK /\ RepliesCoverSteers
  BY DEF TurnInv
<1>2. CASE Reply
  <2>1. finish = "stop" /\ Pending = {} /\ steer' = Become({"sent"}, "answered")
    BY <1>2 DEF Reply, Failed, Overflowed, Interrupted, Refused, Cut, Paused, CallsTools, Stopped,
      LoopCompleted, Whole
  <2>2. \A m \in Messages : steer[m] \in Fates \ {"queued", "recorded"}
    BY <1>1, <1>2, <2>1 DEF TypeOK, RepliesCoverSteers, Pending, Reply
  <2> QED BY <2>1, <2>2 DEF Become, Fates
<1>3. CASE ChecksPass
  <2>1. \A m \in Messages : steer[m] \in Fates \ {"queued", "recorded", "sent"}
    BY <1>1, <1>3 DEF TypeOK, RepliesCoverSteers, ChecksPass, EnterLoop, Pending
  <2> QED BY <1>3, <2>1 DEF ChecksPass, Fates
<1>4. ~(Run \/ Cancel \/ Close \/ Release \/ \E m \in Messages : Steer(m))
  BY DEF Run, Cancel, Close, Release, Steer
<1>5. ~(OpenTurn \/ LedgerUnreadable \/ Top \/ Compact \/ Drain \/ Drained \/ Send)
  BY DEF OpenTurn, LeaveTurn, LedgerUnreadable, Top, AfterCompact, Compact, Drain, Drained, Send
<1>6. ~(ModelReplies \/ Resend \/ Shrink \/ ToolResult \/ CutResult \/ ChecksFail \/ RetryNote)
  BY DEF ModelReplies, Resend, Shrink, ToolResult, CutResult, ChecksFail, RetryNote, EnterLoop
<1>7. ~(LastDrain \/ Settle \/ EndTurn \/ AfterTurn)
  BY DEF LastDrain, Settle, EndTurn, AfterTurn, LeaveTurn
<1> QED BY <1>2, <1>3, <1>4, <1>5, <1>6, <1>7 DEF Next, TurnStep

(* The user's messages are answered by the turn that completes after them. *)
THEOREM CompletedTurnsAnswerSteers == Spec => CompletedAnswersSteers
<1> DEFINE Answers ==
      phase # "finish" /\ phase' = "finish" /\ reason' = "completed" /\ ~aborted =>
        \A m \in Messages : steer'[m] \in {"new", "answered", "lost"}
<1>1. TurnInv /\ [Next]_vars => [Answers]_vars
  BY CompletingStep
<1> QED BY <1>1, TurnInvariant, PTL DEF Spec, CompletedAnswersSteers
-----------------------------------------------------------------------------
(* The snapshots of turns.                                                 *)

(* What a tree of the store needs: its objects, those included that a      *)
(* sweep took from under a snapshot.                                       *)
Held == store.objects \cup lost.objects
Entries(tree) == {tree[f] : f \in DOMAIN tree}
WholeTree(tree) ==
  \/ tree \in {NoTree} \cup lost.trees
  \/ tree \in store.trees /\ Bodies(tree) \subseteq Held

StoreShape ==
  /\ {"objects", "trees", "fresh", "records", "index"} \subseteq DOMAIN store
  /\ {"objects", "trees"} \subseteq DOMAIN lost
SnapShape ==
  /\ DOMAIN snap = Sessions
  /\ \A s \in Reading : {"at", "objects", "tree"} \subseteq DOMAIN snap[s]

(* A snapshot under way still has all it counts on: the objects it listed, *)
(* what it has picked, and the tree it is about to write a record for.     *)
Holds(s) ==
  /\ snap[s].objects \subseteq Held
  /\ snap[s].at = "storing" => "large" \notin DOMAIN snap[s].tree /\ Entries(snap[s].tree) \subseteq Held
  /\ snap[s].at = "stored" => WholeTree(snap[s].tree)
SnapHolds == \A s \in Reading : Holds(s)

(* The inductive invariant. *)
StoreInv == StoreShape /\ SnapShape /\ SnapHolds /\ SnapshotsWhole

LEMMA BodiesAre ==
  /\ \A tree : "large" \notin DOMAIN tree => Bodies(tree) = Entries(tree)
  /\ \A tree : Bodies(tree) \subseteq Entries(tree)
  /\ Bodies(NoTree) = {}
<1>1. DOMAIN NoTree = {"large"}
  BY DEF NoTree
<1> QED BY <1>1 DEF Bodies, Entries

(* The store only gets more: nothing that was whole breaks. *)
LEMMA Grows ==
  ASSUME Held \subseteq Held', store.trees \subseteq store'.trees,
         \A tree \in lost.trees \ lost'.trees : tree \in store'.trees /\ Bodies(tree) \subseteq Held',
         NEW tree, WholeTree(tree)
  PROVE  WholeTree(tree)'
BY DEF WholeTree, Bodies

LEMMA StoreInitially ==
  ASSUME RewindInit
  PROVE  StoreInv
<1>1. Reading = {} /\ DOMAIN snap = Sessions
  BY DEF RewindInit, Reading, NoSnap
<1>2. DOMAIN lost = {"objects", "trees"}
  BY DEF RewindInit, Nothing
<1>3. CASE store = NoStore
  <2>1. DOMAIN store = {"objects", "trees", "fresh", "records", "index"} /\ store.records = {}
    BY <1>3 DEF NoStore
  <2> QED BY <1>1, <1>2, <2>1 DEF StoreInv, StoreShape, SnapShape, SnapHolds, SnapshotsWhole
<1>4. ASSUME NEW n, store = PastStore(n) PROVE StoreInv
  <2>1. /\ DOMAIN store = {"objects", "trees", "fresh", "records", "index"}
        /\ \A r \in store.records : r.tree = PastTree
        /\ store.objects = {Original} /\ store.trees = {PastTree}
    BY <1>4 DEF PastStore
  <2>2. Bodies(PastTree) \subseteq {Original}
    BY BodiesAre DEF PastTree, Entries
  <2> QED BY <1>1, <1>2, <2>1, <2>2 DEF StoreInv, StoreShape, SnapShape, SnapHolds, SnapshotsWhole
<1> QED BY <1>3, <1>4 DEF RewindInit

(* A snapshot that did not move keeps what it holds. *)
LEMMA HoldsKept ==
  ASSUME NEW s, Holds(s), snap'[s] = snap[s], Held \subseteq Held',
         \A tree : WholeTree(tree) /\ tree = snap[s].tree /\ snap[s].at = "stored" => WholeTree(tree)'
  PROVE  Holds(s)'
<1>1. /\ snap'[s].objects \subseteq Held'
      /\ snap'[s].at = "storing" => "large" \notin DOMAIN snap'[s].tree /\ Entries(snap'[s].tree) \subseteq Held'
  BY DEF Holds, Entries
<1>2. PICK tree : tree = snap[s].tree
  OBVIOUS
<1>3. snap[s].at = "stored" => WholeTree(tree)'
  BY <1>2 DEF Holds
<1>4. tree = snap'[s].tree
  BY <1>2
<1> QED BY <1>1, <1>3, <1>4 DEF Holds, Entries, WholeTree

(* A step that leaves the store alone and begins or ends snapshots. *)
LEMMA SnapsMove ==
  ASSUME StoreInv, store'.objects = store.objects, store'.trees = store.trees, store'.records = store.records,
         DOMAIN store' = DOMAIN store, UNCHANGED lost, DOMAIN snap' = Sessions,
         \A s \in Sessions : snap'[s] = snap[s] \/ snap'[s].at \notin {"storing", "stored"}
  PROVE  StoreInv'
<1>1. StoreShape'
  BY DEF StoreInv, StoreShape
<1>2. \A s \in Sessions : s \in Reading' => s \in Reading /\ snap'[s] = snap[s]
  BY DEF Reading
<1>3. SnapShape'
  BY <1>2 DEF StoreInv, SnapShape, Reading
<1>4. Held' = Held /\ \A tree : WholeTree(tree) => WholeTree(tree)'
  BY DEF Held, WholeTree, Bodies
<1>5. SnapHolds'
  BY <1>2, <1>4, HoldsKept DEF StoreInv, SnapHolds, Reading
<1>6. SnapshotsWhole'
  BY <1>4 DEF StoreInv, SnapshotsWhole, Held, Bodies
<1> QED BY <1>1, <1>3, <1>5, <1>6 DEF StoreInv

(* begin lists what there is. *)
LEMMA ListFilesKeeps ==
  ASSUME StoreInv, NEW s \in Sessions, ListFiles(s)
  PROVE  StoreInv'
<1> DEFINE new == [at |-> "storing", seen |-> Here, objects |-> store.objects, index |-> store.index, tree |-> << >>]
<1>1. /\ UNCHANGED <<store, lost>> /\ snap' = [snap EXCEPT ![s] = new] /\ DOMAIN snap = Sessions
  BY DEF ListFiles, StoreInv, SnapShape
<1>2. /\ snap'[s].at = "storing" /\ snap'[s].objects = store.objects /\ snap'[s].tree = << >>
      /\ {"at", "objects", "tree"} \subseteq DOMAIN snap'[s]
  BY <1>1
<1>3. \A o \in Sessions \ {s} : snap'[o] = snap[o]
  BY <1>1
<1>4. StoreShape' /\ SnapShape'
  BY <1>1, <1>2, <1>3 DEF StoreInv, StoreShape, SnapShape, Reading
<1>5. Held' = Held /\ \A tree : WholeTree(tree) => WholeTree(tree)'
  BY <1>1 DEF Held, WholeTree, Bodies
<1>6. DOMAIN << >> = {} /\ Entries(<< >>) = {}
  BY DEF Entries
<1>7. SnapHolds'
  <2>1. Holds(s)'
    BY <1>1, <1>2, <1>5, <1>6 DEF Holds, Held, Entries
  <2>2. ASSUME NEW o \in Reading', o # s PROVE Holds(o)'
    <3>1. o \in Reading /\ snap'[o] = snap[o]
      BY <1>3, <2>2 DEF Reading
    <3> QED BY <3>1, <1>5, HoldsKept DEF StoreInv, SnapHolds
  <2> QED BY <2>1, <2>2 DEF SnapHolds
<1>8. SnapshotsWhole'
  BY <1>1 DEF StoreInv, SnapshotsWhole, Bodies
<1> QED BY <1>4, <1>7, <1>8 DEF StoreInv

(* A project that is too large has no tree. *)
LEMMA TooLargeKeeps ==
  ASSUME StoreInv, NEW s \in Sessions, TooLarge(s)
  PROVE  StoreInv'
<1> DEFINE new == [at |-> "stored", seen |-> Here, objects |-> {}, tree |-> NoTree]
<1>1. /\ UNCHANGED <<store, lost>> /\ snap' = [snap EXCEPT ![s] = new] /\ DOMAIN snap = Sessions
  BY DEF TooLarge, StoreInv, SnapShape
<1>2. /\ snap'[s].at = "stored" /\ snap'[s].objects = {} /\ snap'[s].tree = NoTree
      /\ {"at", "objects", "tree"} \subseteq DOMAIN snap'[s]
  BY <1>1
<1>3. \A o \in Sessions \ {s} : snap'[o] = snap[o]
  BY <1>1
<1>4. StoreShape' /\ SnapShape'
  BY <1>1, <1>2, <1>3 DEF StoreInv, StoreShape, SnapShape, Reading
<1>5. Held' = Held /\ (\A tree : WholeTree(tree) => WholeTree(tree)') /\ WholeTree(NoTree)'
  BY <1>1 DEF Held, WholeTree, Bodies
<1>6. SnapHolds'
  <2>1. Holds(s)'
    BY <1>2, <1>5 DEF Holds, WholeTree
  <2>2. ASSUME NEW o \in Reading', o # s PROVE Holds(o)'
    <3>1. o \in Reading /\ snap'[o] = snap[o]
      BY <1>3, <2>2 DEF Reading
    <3> QED BY <3>1, <1>5, HoldsKept DEF StoreInv, SnapHolds
  <2> QED BY <2>1, <2>2 DEF SnapHolds
<1>7. SnapshotsWhole'
  BY <1>1 DEF StoreInv, SnapshotsWhole, Bodies
<1> QED BY <1>4, <1>6, <1>7 DEF StoreInv

(* An object is there before it is picked: the index's is one that was     *)
(* listed, and any other is stored.                                        *)
LEMMA StoreFileKeeps ==
  ASSUME StoreInv, RewindAssumption, NEW s \in Sessions, NEW f \in Files, StoreFile(s, f)
  PROVE  StoreInv'
<1> DEFINE body == IF Known(s, f) THEN snap[s].index.files[f].body ELSE Body(f, Here)
           kept == snap[s].objects \cup store.objects
<1>0. s \in Reading /\ snap[s].at = "storing" /\ "tree" \in DOMAIN snap[s] /\ f # "large" /\ DOMAIN snap = Sessions
  BY DEF StoreFile, Reading, StoreInv, SnapShape, RewindAssumption
<1>1. /\ snap' = [snap EXCEPT ![s].tree = [g \in {f} \cup DOMAIN @ |-> IF g = f THEN body ELSE @[g]]]
      /\ \/ body \in kept /\ UNCHANGED <<store, lost>>
         \/ /\ body \notin kept
            /\ store' = [store EXCEPT !.objects = @ \cup {body}, !.fresh.objects = @ \cup {body}]
            /\ lost' = [lost EXCEPT !.objects = @ \ {body}]
  BY DEF StoreFile, Picked
<1> HIDE DEF body
<1>2. /\ snap'[s].tree = [g \in {f} \cup DOMAIN snap[s].tree |-> IF g = f THEN body ELSE snap[s].tree[g]]
      /\ snap'[s].at = snap[s].at /\ snap'[s].objects = snap[s].objects /\ DOMAIN snap'[s] = DOMAIN snap[s]
      /\ \A o \in Sessions \ {s} : snap'[o] = snap[o]
      /\ DOMAIN snap' = Sessions
  BY <1>0, <1>1
<1>3. Reading' = Reading
  BY <1>2 DEF Reading
<1>4. /\ store'.trees = store.trees /\ store'.records = store.records /\ lost'.trees = lost.trees
      /\ DOMAIN store' = DOMAIN store /\ DOMAIN lost' = DOMAIN lost
      /\ body \in snap[s].objects \/ body \in store'.objects
      /\ Held \subseteq Held'
  <2>1. CASE UNCHANGED <<store, lost>> /\ body \in kept
    BY <2>1 DEF Held
  <2>2. CASE /\ store' = [store EXCEPT !.objects = @ \cup {body}, !.fresh.objects = @ \cup {body}]
             /\ lost' = [lost EXCEPT !.objects = @ \ {body}]
    <3>1. /\ store'.objects = store.objects \cup {body} /\ DOMAIN store' = DOMAIN store
          /\ store'.trees = store.trees /\ store'.records = store.records
      BY <2>2 DEF StoreInv, StoreShape
    <3>2. lost'.objects = lost.objects \ {body} /\ lost'.trees = lost.trees /\ DOMAIN lost' = DOMAIN lost
      BY <2>2 DEF StoreInv, StoreShape
    <3> QED BY <3>1, <3>2 DEF Held
  <2> QED BY <1>1, <2>1, <2>2
<1>5. StoreShape' /\ SnapShape'
  <2>1. StoreShape'
    BY <1>4 DEF StoreInv, StoreShape
  <2>2. \A o \in Sessions : DOMAIN snap'[o] = DOMAIN snap[o]
    BY <1>2
  <2>3. SnapShape'
    BY <1>2, <1>3, <2>2 DEF StoreInv, SnapShape, Reading
  <2> QED BY <2>1, <2>3
<1>6. body \in Held' /\ \A tree : WholeTree(tree) => WholeTree(tree)'
  BY <1>0, <1>4 DEF WholeTree, Bodies, StoreInv, SnapHolds, Holds, Held
<1>7. /\ DOMAIN snap'[s].tree = {f} \cup DOMAIN snap[s].tree
      /\ Entries(snap'[s].tree) \subseteq {body} \cup Entries(snap[s].tree)
  BY <1>2 DEF Entries
<1>8. SnapHolds'
  <2>1. Holds(s)'
    BY <1>0, <1>2, <1>4, <1>6, <1>7 DEF StoreInv, SnapHolds, Holds, Entries
  <2>2. ASSUME NEW o \in Reading', o # s PROVE Holds(o)'
    <3>1. o \in Reading /\ snap'[o] = snap[o]
      BY <1>2, <1>3, <2>2 DEF Reading
    <3> QED BY <3>1, <1>4, <1>6, HoldsKept DEF StoreInv, SnapHolds
  <2> QED BY <2>1, <2>2 DEF SnapHolds
<1>9. SnapshotsWhole'
  BY <1>4 DEF StoreInv, SnapshotsWhole, Held, Bodies
<1> QED BY <1>5, <1>8, <1>9 DEF StoreInv

(* The tree of what was picked is whole, also where it takes the place of  *)
(* one that was swept.                                                     *)
LEMMA StoreTreeKeeps ==
  ASSUME StoreInv, RewindAssumption, NEW s \in Sessions, StoreTree(s)
  PROVE  StoreInv'
<1> DEFINE tree == snap[s].tree
           new == {tree} \ store.trees
<1>0. s \in Reading /\ snap[s].at = "storing" /\ {"at", "tree"} \subseteq DOMAIN snap[s] /\ DOMAIN snap = Sessions
  BY DEF StoreTree, Reading, StoreInv, SnapShape
<1>1. /\ store'.trees = store.trees \cup new /\ store'.objects = store.objects /\ store'.records = store.records
      /\ DOMAIN store' = DOMAIN store
      /\ lost' = [lost EXCEPT !.trees = @ \ new]
      /\ snap' = [snap EXCEPT ![s].at = "stored"]
  BY DEF StoreTree, StoreInv, StoreShape
<1>2. /\ snap'[s].tree = tree /\ snap'[s].at = "stored" /\ snap'[s].objects = snap[s].objects
      /\ DOMAIN snap'[s] = DOMAIN snap[s]
      /\ \A o \in Sessions \ {s} : snap'[o] = snap[o]
      /\ DOMAIN snap' = Sessions
  BY <1>0, <1>1
<1>3. Reading' = Reading
  BY <1>0, <1>2 DEF Reading
<1>4. StoreShape' /\ SnapShape'
  BY <1>1, <1>2, <1>3 DEF StoreInv, StoreShape, SnapShape
<1>5. Held' = Held /\ lost'.trees = lost.trees \ new
  BY <1>1 DEF StoreInv, StoreShape, Held
<1>6. Bodies(tree) \subseteq Held
  BY <1>0, BodiesAre DEF StoreInv, SnapHolds, Holds
<1>7. ASSUME NEW t, t = tree PROVE WholeTree(t)'
  BY <1>1, <1>5, <1>6, <1>7 DEF WholeTree, Bodies
<1>8. ASSUME NEW t, WholeTree(t) PROVE WholeTree(t)'
  <2>1. CASE t = tree
    BY <2>1, <1>7
  <2>2. CASE t # tree
    BY <2>2, <1>8, <1>1, <1>5 DEF WholeTree, Bodies
  <2> QED BY <2>1, <2>2
<1>9. SnapHolds'
  <2>1. Holds(s)'
    <3>1. PICK t : t = tree
      OBVIOUS
    <3>2. WholeTree(t)' /\ t = snap'[s].tree
      BY <3>1, <1>2, <1>7
    <3> QED BY <3>2, <1>0, <1>2, <1>5 DEF StoreInv, SnapHolds, Holds, WholeTree
  <2>2. ASSUME NEW o \in Reading', o # s PROVE Holds(o)'
    <3>1. o \in Reading /\ snap'[o] = snap[o]
      BY <1>2, <1>3, <2>2 DEF Reading
    <3> QED BY <3>1, <1>5, <1>8, HoldsKept DEF StoreInv, SnapHolds
  <2> QED BY <2>1, <2>2 DEF SnapHolds
<1>10. SnapshotsWhole'
  <2>1. \A r \in store.records : WholeTree(r.tree)
    BY DEF StoreInv, SnapshotsWhole, WholeTree, Held
  <2> QED BY <1>1, <1>8, <2>1 DEF SnapshotsWhole, WholeTree, Held
<1> QED BY <1>4, <1>9, <1>10 DEF StoreInv

(* The record of a whole tree. *)
LEMMA WriteRecordKeeps ==
  ASSUME StoreInv, NEW s \in Sessions, WriteRecord(s)
  PROVE  StoreInv'
<1>0. s \in Reading /\ snap[s].at = "stored" /\ DOMAIN snap = Sessions
  BY DEF WriteRecord, Reading, StoreInv, SnapShape
<1> DEFINE newest == CHOOSE n \in {0} \cup Taken(store.records) : \A m \in Taken(store.records) : m <= n
           record == [by |-> s, turn |-> session[s].turn, taken |-> newest + 1,
                      tree |-> snap[s].tree, seen |-> snap[s].seen, started |-> session[s].started]
<1> HIDE DEF newest
<1>a. record.tree = snap[s].tree
  OBVIOUS
<1>b. /\ store' = [store EXCEPT !.records = @ \cup {record}] /\ UNCHANGED lost
      /\ snap' = [snap EXCEPT ![s] = [at |-> "pruning", records |-> store.records \cup {record},
                                       index |-> store.index]]
  BY DEF WriteRecord, newest
<1>1. PICK new : /\ new.tree = snap[s].tree
                 /\ store' = [store EXCEPT !.records = @ \cup {new}]
                 /\ snap' = [snap EXCEPT ![s] = [at |-> "pruning", records |-> store.records \cup {new},
                                              index |-> store.index]]
                 /\ UNCHANGED lost
  <2> HIDE DEF record
  <2> QED BY <1>a, <1>b
<1>2. /\ store'.objects = store.objects /\ store'.trees = store.trees /\ store'.records = store.records \cup {new}
      /\ DOMAIN store' = DOMAIN store
  BY <1>1 DEF StoreInv, StoreShape
<1>3. /\ snap'[s].at = "pruning" /\ \A o \in Sessions \ {s} : snap'[o] = snap[o]
      /\ DOMAIN snap' = Sessions
  BY <1>0, <1>1
<1>4. Reading' = Reading \ {s}
  BY <1>3 DEF Reading
<1>5. Held' = Held /\ \A tree : WholeTree(tree) => WholeTree(tree)'
  BY <1>1, <1>2 DEF Held, WholeTree, Bodies
<1>6. StoreShape' /\ SnapShape'
  BY <1>1, <1>2, <1>3, <1>4 DEF StoreInv, StoreShape, SnapShape, Reading
<1>7. SnapHolds'
  <2> SUFFICES ASSUME NEW o \in Reading' PROVE Holds(o)'
    BY DEF SnapHolds
  <2>1. o \in Reading /\ snap'[o] = snap[o]
    BY <1>3, <1>4 DEF Reading
  <2> QED BY <2>1, <1>5, HoldsKept DEF StoreInv, SnapHolds
<1>8. SnapshotsWhole'
  <2>1. \A r \in store'.records : WholeTree(r.tree)
    BY <1>0, <1>1, <1>2 DEF StoreInv, SnapshotsWhole, SnapHolds, Holds, WholeTree, Held
  <2> QED BY <1>5, <2>1 DEF SnapshotsWhole, WholeTree, Held
<1> QED BY <1>6, <1>7, <1>8 DEF StoreInv

(* A sweep leaves what the remaining of the listed records need, and what  *)
(* it takes from under the others is in lost.                              *)
LEMMA PruneKeeps ==
  ASSUME StoreInv, NEW s \in Sessions, Prune(s)
  PROVE  StoreInv'
<1>0. /\ snap[s].at = "pruning" /\ DOMAIN snap = Sessions /\ s \notin Reading
      /\ snap' = [snap EXCEPT ![s] = [at |-> "done"]]
  BY DEF Prune, Reading, StoreInv, SnapShape
<1>1. /\ snap'[s].at = "done" /\ (\A o \in Sessions \ {s} : snap'[o] = snap[o]) /\ DOMAIN snap' = Sessions
  BY <1>0
<1>2. ASSUME NEW index, store' = [store EXCEPT !.index = index], UNCHANGED lost
      PROVE  StoreInv'
  <2>1. /\ store'.objects = store.objects /\ store'.trees = store.trees /\ store'.records = store.records
        /\ DOMAIN store' = DOMAIN store
    BY <1>2 DEF StoreInv, StoreShape
  <2> QED BY <1>1, <1>2, <2>1, SnapsMove
<1>3. ASSUME NEW doomed, NEW index, Without(Swept(snap[s].records \ doomed), doomed, index),
             Sweep(s, Swept(snap[s].records \ doomed))
      PROVE  StoreInv'
  <2> DEFINE left == snap[s].records \ doomed
             swept == Swept(left)
  <2>1. /\ swept.trees = store.trees \ (store.fresh.trees \cup Trees(left))
        /\ swept.objects = store.objects \ (store.fresh.objects \cup Objects(left))
    BY DEF Swept
  <2>2. /\ store'.records = store.records \ doomed /\ store'.trees = store.trees \ swept.trees
        /\ store'.objects = store.objects \ swept.objects /\ DOMAIN store' = DOMAIN store
    BY <1>3 DEF Without, StoreInv, StoreShape
  <2>3. /\ lost'.trees = lost.trees \cup ((swept.trees \cap TreesInUse(s)) \ store.fresh.trees)
        /\ lost'.objects = lost.objects \cup ((swept.objects \cap ObjectsInUse(s)) \ store.fresh.objects)
        /\ DOMAIN lost' = {"trees", "objects"}
    BY <1>3 DEF Sweep
  <2> HIDE DEF swept
  <2>4. /\ \A t \in store.trees : t \in Trees(left) \cup TreesInUse(s) => t \in store'.trees \cup lost'.trees
        /\ \A b \in Held : b \in Objects(left) \cup ObjectsInUse(s) => b \in Held'
    BY <2>1, <2>2, <2>3 DEF Held
  <2>5. lost.trees \subseteq lost'.trees
    BY <2>3
  <2>6. ASSUME NEW t, WholeTree(t), t \in TreesInUse(s), Bodies(t) \subseteq ObjectsInUse(s)
        PROVE  WholeTree(t)'
    BY <2>4, <2>5, <2>6 DEF WholeTree, Bodies
  <2>7. StoreShape' /\ SnapShape'
    BY <1>0, <1>1, <2>2, <2>3 DEF StoreInv, StoreShape, SnapShape, Reading
  <2>8. SnapHolds'
    <3> SUFFICES ASSUME NEW o \in Reading' PROVE Holds(o)'
      BY DEF SnapHolds
    <3>1. o \in Reading \ {s} /\ o \in Sessions \ {s} /\ snap'[o] = snap[o] /\ Holds(o)
      BY <1>1 DEF Reading, StoreInv, SnapHolds
    <3>2. snap[o].objects \cup Bodies(snap[o].tree) \subseteq ObjectsInUse(s)
      <4> DEFINE late == {Bodies(t) : t \in Trees(Late(s))}
                 beside == {snap[x].objects \cup Bodies(snap[x].tree) : x \in Reading \ {s}}
      <4>1. snap[o].objects \cup Bodies(snap[o].tree) \in beside
        BY <3>1
      <4>2. ObjectsInUse(s) = (UNION late) \cup (UNION beside)
        BY DEF ObjectsInUse
      <4> HIDE DEF late, beside
      <4> QED BY <4>1, <4>2
    <3>3. snap'[o].objects \subseteq Held'
      BY <3>1, <3>2, <2>4 DEF Holds
    <3>4. ASSUME snap[o].at = "storing"
          PROVE  "large" \notin DOMAIN snap'[o].tree /\ Entries(snap'[o].tree) \subseteq Held'
      <4>1. Bodies(snap[o].tree) = Entries(snap[o].tree) /\ Entries(snap[o].tree) \subseteq Held
        BY <3>1, <3>4, BodiesAre DEF Holds
      <4> QED BY <3>1, <3>2, <3>4, <4>1, <2>4 DEF Holds
    <3>5. CASE snap[o].at = "storing"
      BY <3>1, <3>3, <3>4, <3>5 DEF Holds, Entries
    <3>6. CASE snap[o].at = "stored"
      <4>1. PICK t : t = snap[o].tree
        OBVIOUS
      <4>2. t \in TreesInUse(s) /\ WholeTree(t) /\ Bodies(t) \subseteq ObjectsInUse(s)
        BY <3>1, <3>2, <3>6, <4>1 DEF TreesInUse, Holds
      <4>3. WholeTree(t)' /\ t = snap'[o].tree
        BY <3>1, <4>1, <4>2, <2>6
      <4> QED BY <3>1, <3>3, <3>6, <4>3 DEF Holds, WholeTree
    <3> QED BY <3>1, <3>5, <3>6 DEF Reading
  <2>9. SnapshotsWhole'
    <3> SUFFICES ASSUME NEW r \in store.records, r \notin doomed
                 PROVE  WholeTree(r.tree)'
      BY <2>2 DEF SnapshotsWhole, WholeTree, Held
    <3>1. WholeTree(r.tree)
      BY DEF StoreInv, SnapshotsWhole, WholeTree, Held
    <3>2. CASE r.tree \in {NoTree} \cup lost.trees
      BY <3>2, <2>5 DEF WholeTree
    <3>3. CASE r.tree \notin {NoTree} \cup lost.trees /\ r \in snap[s].records
      <4>1. r.tree \in Trees(left) \cap store.trees /\ Bodies(r.tree) \subseteq Held
        BY <3>1, <3>3 DEF Trees, WholeTree
      <4>2. Bodies(r.tree) \subseteq Objects(left)
        BY <4>1 DEF Objects
      <4>3. r.tree \in store'.trees
        BY <4>1, <2>1, <2>2
      <4> QED BY <4>1, <4>2, <4>3, <2>4 DEF WholeTree, Bodies
    <3>4. CASE r.tree \notin {NoTree} \cup lost.trees /\ r \notin snap[s].records
      <4>1. r.tree \in Trees(Late(s))
        BY <3>4 DEF Trees, Late
      <4>2. r.tree \in TreesInUse(s) /\ Bodies(r.tree) \subseteq ObjectsInUse(s)
        BY <4>1 DEF TreesInUse, ObjectsInUse
      <4> QED BY <3>1, <4>2, <2>6
    <3> QED BY <3>2, <3>3, <3>4
  <2> QED BY <2>7, <2>8, <2>9 DEF StoreInv
<1> QED BY <1>2, <1>3 DEF Prune

LEMMA StoreStep ==
  ASSUME StoreInv, RewindAssumption, [RewindNext]_rewindVars
  PROVE  StoreInv'
<1>0. DOMAIN snap = Sessions
  BY DEF StoreInv, SnapShape
<1>1. CASE UNCHANGED <<store, lost, snap>>
  BY <1>0, <1>1, SnapsMove
<1>2. ASSUME NEW s \in Sessions, BeginTurn(s) \/ EndFiles(s) \/ SnapshotFails(s)
      PROVE  StoreInv'
  <2>1. UNCHANGED <<store, lost>>
    BY <1>2 DEF BeginTurn, EndFiles, SnapshotFails
  <2>2. PICK new : new.at \notin {"storing", "stored"} /\ snap' = [snap EXCEPT ![s] = new]
    BY <1>2 DEF BeginTurn, EndFiles, SnapshotFails, NoSnap
  <2>3. DOMAIN snap' = Sessions /\ \A o \in Sessions : snap'[o] = snap[o] \/ snap'[o].at \notin {"storing", "stored"}
    BY <1>0, <2>2
  <2> QED BY <2>1, <2>3, SnapsMove
<1>3. CASE Crash
  BY <1>3, SnapsMove DEF Crash, NoSnap
<1>4. CASE Ages
  BY <1>0, <1>4, SnapsMove DEF Ages, StoreInv, StoreShape
<1>5. ASSUME NEW s \in Sessions, Snapshots(s)
      PROVE  StoreInv'
  BY <1>2, <1>5, ListFilesKeeps, TooLargeKeeps, StoreFileKeeps, StoreTreeKeeps, WriteRecordKeeps, PruneKeeps
  DEF Snapshots
<1>6. ASSUME NEW s \in Sessions, Turn(s)
      PROVE  StoreInv'
  BY <1>1, <1>2, <1>6 DEF Turn, ToolReports, ToolFails, ToolWrites, LeaveFiles
<1>7. ASSUME NEW q \in Requests, Rewinds(q)
      PROVE  StoreInv'
  BY <1>1, <1>7 DEF Rewinds, RewindStarts, RewindPlans, RewindFails, RewindEnds, RewindFile
<1> QED BY <1>1, <1>3, <1>4, <1>5, <1>6, <1>7 DEF RewindNext, rewindVars, UserEdits, Tick

(* StoreInv holds always: what a snapshot under way counts on, and what    *)
(* the records name, is in the store or was swept from under it.           *)
THEOREM StoreInvariant == RewindSpec => []StoreInv
BY StoreInitially, StoreStep, RewindAssumption, PTL DEF RewindSpec

(* What a snapshot record names is there, whatever sessions store and      *)
(* prune at the same time, but for what a sweep took while another         *)
(* snapshot counted on it: WriteRecord, Prune.                             *)
THEOREM SnapshotsStayWhole == RewindSpec => []SnapshotsWhole
<1>1. StoreInv => SnapshotsWhole
  BY DEF StoreInv
<1> QED BY <1>1, StoreInvariant, PTL
-----------------------------------------------------------------------------
(* The files that a turn lists.                                            *)

IsSeq(q) == \E S : q \in Seq(S)
Fields == {"file", "by", "kind", "body", "at", "turn", "told", "blurs", "unknown"}
WritesShape ==
  /\ IsSeq(writes)
  /\ \A i \in DOMAIN writes : Fields \subseteq DOMAIN writes[i] /\ writes[i].at \in Nat /\ writes[i].told \in Nat
ListShape ==
  /\ WritesShape /\ now \in Nat \ {0}
  /\ DOMAIN session = Sessions /\ DOMAIN call = Sessions /\ DOMAIN changes = Sessions /\ DOMAIN owners = Files
  /\ \A f \in Files : owners[f].at \in Nat
  /\ DOMAIN dropped = Sessions

(* A session and its clock. *)
Opened(s) == session[s].at # "idle"
TurnFields == {"at", "turn", "opened", "started", "begun", "baseline", "touched", "shell"}
TurnShape(s) ==
  /\ TurnFields \subseteq DOMAIN session[s]
  /\ session[s].turn \in Nat /\ session[s].started \in Nat /\ session[s].begun \in Nat
  /\ Opened(s) =>
       session[s].at \in {"open", "ending"} /\ session[s].started \in 1..now /\ session[s].begun <= Here
(* Every turn but the open one has its record. *)
TurnsListed(s) == IsSeq(changes[s]) /\ Len(changes[s]) + (IF Opened(s) THEN 1 ELSE 0) = session[s].turn
(* The call that runs has written its file, in this turn. *)
CallWrote(s) ==
  call[s] # NoCall =>
    /\ session[s].at = "open" /\ call[s].file \in Files /\ call[s].write \in Of(call[s].file)
    /\ writes[call[s].write].by = s /\ writes[call[s].write].kind = call[s].kind
    /\ writes[call[s].write].at >= session[s].started
(* And so did those that were reported. *)
TouchedWrote(s) ==
  Opened(s) => \A f \in session[s].touched : \E i \in Of(f) : writes[i].by = s /\ writes[i].at >= session[s].started
(* A file that others' write tools changed since has an owner among them,  *)
(* unless the turn itself reported it, or the owner was dropped.           *)
ByOthers(s, i) ==
  i > session[s].begun /\ writes[i].kind = "write" /\ writes[i].by \notin {s, "user"} /\ writes[i].told # 0
ReportKept(s, f) == (\E i \in Of(f) : ByOthers(s, i)) => f \in session[s].touched \cup dropped[s] \/ ReportedByOthers(s, f)
ReportsKept(s) == Opened(s) => \A f \in Files : ReportKept(s, f)
Tracked(s) == TurnShape(s) /\ TurnsListed(s) /\ CallWrote(s) /\ TouchedWrote(s) /\ ReportsKept(s)

(* The inductive invariant. *)
ListInv == ListShape /\ \A s \in Sessions : Tracked(s)

(* The least of a set of numbers. *)
LEMMA LeastOf ==
  ASSUME NEW T, T \subseteq Nat, T # {}
  PROVE  \E n \in T : \A m \in T : n <= m
<1>1. IsWellFoundedOn(OpToRel(<, Nat), Nat)
  BY NatLessThanWellFounded
<1>2. PICK x \in T : \A y \in T : ~ (<<y, x>> \in OpToRel(<, Nat))
  BY <1>1, WFMin
<1>3. \A y \in T : y \in Nat /\ x \in Nat
  OBVIOUS
<1>4. \A y \in T : ~(y < x)
  BY <1>2, <1>3 DEF OpToRel
<1> QED BY <1>4, <1>3

(* A sequence with one more. *)
LEMMA Appended ==
  ASSUME NEW q, IsSeq(q), NEW e
  PROVE  /\ IsSeq(Append(q, e)) /\ Len(q) \in Nat
         /\ Len(Append(q, e)) = Len(q) + 1 /\ Append(q, e)[Len(q) + 1] = e
         /\ DOMAIN q = 1..Len(q) /\ DOMAIN Append(q, e) = 1..(Len(q) + 1)
         /\ \A i \in 1..Len(q) : Append(q, e)[i] = q[i]
<1>1. PICK S : q \in Seq(S) /\ e \in S
  <2>1. PICK R : q \in Seq(R)
    BY DEF IsSeq
  <2>2. q \in Seq(R \cup {e})
    BY <2>1, SeqMonotonic
  <2> QED BY <2>2
<1>2. Len(q) \in Nat /\ DOMAIN q = 1..Len(q)
  BY <1>1, LenProperties
<1>3. /\ Append(q, e) \in Seq(S) /\ Len(Append(q, e)) = Len(q) + 1
      /\ Append(q, e)[Len(q) + 1] = e /\ \A i \in 1..Len(q) : Append(q, e)[i] = q[i]
  BY <1>1, AppendProperties
<1>4. DOMAIN Append(q, e) = 1..Len(Append(q, e))
  BY <1>3, LenProperties
<1> QED BY <1>2, <1>3, <1>4 DEF IsSeq

(* The last of the writes to a file. *)
LEMMA LastIsLast ==
  ASSUME WritesShape, NEW f, Of(f) # {}
  PROVE  Last(f, Here) \in Of(f)
<1>1. DOMAIN writes = 1..Here /\ Here \in Nat
  BY LenProperties DEF WritesShape, Here, IsSeq
<1>2. Of(f) \subseteq 1..Here /\ \A i \in Of(f) : i <= Here
  BY <1>1 DEF Of
<1> DEFINE T == {k \in Nat : \A i \in Of(f) : i <= k}
<1>3. Here \in T
  BY <1>1, <1>2
<1>4. PICK n \in T : \A m \in T : n <= m
  BY <1>3, LeastOf
<1>5. n \in Of(f)
  <2>1. PICK i \in Of(f) : i \in 1..Here
    BY <1>2
  <2>2. n - 1 \in Nat
    BY <1>4, <2>1, <1>1
  <2>3. n - 1 \notin T
    BY <1>4, <2>2
  <2>4. PICK j \in Of(f) : ~(j <= n - 1)
    BY <2>2, <2>3
  <2> QED BY <1>1, <1>2, <1>4, <2>2, <2>4
<1>6. n <= Here /\ \A j \in Of(f) : j <= Here => j <= n
  BY <1>2, <1>4, <1>5
<1> QED BY <1>5, <1>6 DEF Last

(* A write is one more, and what was written stays. *)
LEMMA WrittenAppends ==
  ASSUME WritesShape, now \in Nat, NEW f, NEW by, NEW kind, NEW body, Written(f, by, kind, body)
  PROVE  /\ WritesShape'
         /\ Here \in Nat /\ Here' = Here + 1 /\ DOMAIN writes = 1..Here /\ DOMAIN writes' = 1..(Here + 1)
         /\ \A i \in DOMAIN writes : writes'[i] = writes[i]
         /\ writes'[Here + 1].file = f /\ writes'[Here + 1].by = by /\ writes'[Here + 1].kind = kind
         /\ writes'[Here + 1].at = now /\ writes'[Here + 1].told = 0 /\ writes'[Here + 1].body = body
         /\ writes'[Here + 1].turn = (IF by \in Sessions THEN session[by].turn ELSE 0)
         /\ writes'[Here + 1].blurs = Blurs(f, by, kind)
         /\ writes'[Here + 1].unknown = (by \in Sessions /\ body = Gone /\ f \notin session[by].baseline)
<1> DEFINE number == IF by \in Sessions THEN session[by].turn ELSE 0
           blurs == Blurs(f, by, kind)
           unknown == by \in Sessions /\ body = Gone /\ f \notin session[by].baseline
           new == [file |-> f, by |-> by, kind |-> kind, body |-> body, at |-> now, turn |-> number, told |-> 0,
                   blurs |-> blurs, unknown |-> unknown]
<1>1. writes' = Append(writes, new)
  BY DEF Written
<1> HIDE DEF number, blurs, unknown
<1>2. /\ new.file = f /\ new.by = by /\ new.kind = kind /\ new.at = now /\ new.told = 0
      /\ new.body = body /\ new.turn = number /\ new.blurs = blurs /\ new.unknown = unknown
      /\ Fields \subseteq DOMAIN new
  BY DEF Fields
<1> HIDE DEF new
<1>3. /\ IsSeq(writes)' /\ Here \in Nat /\ Here' = Here + 1 /\ writes'[Here + 1] = new
      /\ DOMAIN writes = 1..Here /\ DOMAIN writes' = 1..(Here + 1)
      /\ \A i \in DOMAIN writes : writes'[i] = writes[i]
  <2>1. IsSeq(writes)
    BY DEF WritesShape
  <2>2. /\ IsSeq(Append(writes, new)) /\ Len(writes) \in Nat
        /\ Len(Append(writes, new)) = Len(writes) + 1 /\ Append(writes, new)[Len(writes) + 1] = new
        /\ DOMAIN writes = 1..Len(writes) /\ DOMAIN Append(writes, new) = 1..(Len(writes) + 1)
        /\ \A i \in 1..Len(writes) : Append(writes, new)[i] = writes[i]
    BY <2>1, Appended
  <2>3. IsSeq(writes)'
    BY <1>1, <2>2 DEF IsSeq
  <2> QED BY <1>1, <2>2, <2>3 DEF Here
<1>4. \A i \in DOMAIN writes' : i \in DOMAIN writes \/ i = Here + 1
  BY <1>3
<1>5. WritesShape'
  <2>1. ASSUME NEW i \in DOMAIN writes'
        PROVE  /\ Fields \subseteq DOMAIN writes'[i]
               /\ writes'[i].at \in Nat /\ writes'[i].told \in Nat
    BY <1>2, <1>3, <1>4, <2>1 DEF WritesShape
  <2> QED BY <1>3, <2>1 DEF WritesShape
<1> QED BY <1>2, <1>3, <1>5 DEF number, blurs, unknown

(* What was written stays, but for when it was told. *)
WritesStay ==
  \A i \in DOMAIN writes :
    /\ i \in DOMAIN writes' /\ writes'[i].file = writes[i].file /\ writes'[i].by = writes[i].by
    /\ writes'[i].kind = writes[i].kind /\ writes'[i].at = writes[i].at

(* What others do leaves a turn as it is, when it leaves the owners the    *)
(* turn needs and every report of another names one.                       *)
LEMMA Unmoved ==
  ASSUME ListInv, now' \in Nat, now' >= now, Here \in Nat, Here' \in Nat, Here' >= Here, WritesStay,
         NEW s \in Sessions, session'[s] = session[s], changes'[s] = changes[s],
         call'[s] = call[s] \/ CallWrote(s)', dropped[s] \subseteq dropped'[s],
         \A f \in Files : Opened(s) /\ ReportedByOthers(s, f) => ReportedByOthers(s, f)' \/ f \in dropped'[s],
         \A f \in Files : \A i \in Of(f)' : Opened(s) /\ ByOthers(s, i)' =>
           ReportedByOthers(s, f)' \/ (i \in Of(f) /\ ByOthers(s, i))
  PROVE  Tracked(s)'
<1>1. Tracked(s)
  BY DEF ListInv
<1>2. TurnShape(s)' /\ TurnsListed(s)' /\ Opened(s)' = Opened(s)
  BY <1>1 DEF Tracked, TurnShape, TurnsListed, Opened, ListInv, ListShape
<1>3. \A f, i : i \in Of(f) => i \in Of(f)'
  BY DEF Of, WritesStay
<1>4. CallWrote(s)'
  BY <1>1, <1>2, <1>3 DEF Tracked, CallWrote, WritesStay, Opened, Of
<1>5. TouchedWrote(s)'
  <2> SUFFICES ASSUME Opened(s), NEW f \in session[s].touched
               PROVE  \E i \in Of(f)' : writes'[i].by = s /\ writes'[i].at >= session[s].started
    BY <1>2 DEF TouchedWrote
  <2>1. PICK i \in Of(f) : writes[i].by = s /\ writes[i].at >= session[s].started
    BY <1>1 DEF Tracked, TouchedWrote
  <2> QED BY <2>1, <1>3 DEF Of, WritesStay
<1>6. ReportsKept(s)'
  <2> SUFFICES ASSUME Opened(s), NEW f \in Files, NEW i \in Of(f)', ByOthers(s, i)'
               PROVE  f \in session[s].touched \cup dropped'[s] \/ ReportedByOthers(s, f)'
    BY <1>2 DEF ReportsKept, ReportKept
  <2> QED BY <1>1 DEF Tracked, ReportsKept, ReportKept
<1> QED BY <1>2, <1>4, <1>5, <1>6 DEF Tracked

LEMMA ListInitially ==
  ASSUME RewindInit, RewindAssumption
  PROVE  ListInv
<1>1. writes = <<>> \/ \E f \in AtFirst : writes = <<PastEdit(f)>>
  BY DEF RewindInit
<1>2. WritesShape
  <2>1. CASE writes = <<>>
    <3>1. <<>> \in Seq({}) /\ DOMAIN <<>> = {}
      OBVIOUS
    <3> QED BY <2>1, <3>1 DEF WritesShape, IsSeq
  <2>2. ASSUME NEW f, writes = <<PastEdit(f)>> PROVE WritesShape
    <3>1. <<PastEdit(f)>> \in Seq({PastEdit(f)}) /\ DOMAIN <<PastEdit(f)>> = {1} /\ <<PastEdit(f)>>[1] = PastEdit(f)
      OBVIOUS
    <3>2. /\ Fields \subseteq DOMAIN PastEdit(f)
          /\ PastEdit(f).at \in Nat /\ PastEdit(f).told \in Nat
      BY DEF PastEdit, Fields
    <3> QED BY <2>2, <3>1, <3>2 DEF WritesShape, IsSeq
  <2> QED BY <1>1, <2>1, <2>2
<1>3. ListShape
  BY <1>2 DEF RewindInit, ListShape, NoOwner
<1>4. ASSUME NEW s \in Sessions PROVE Tracked(s)
  <2>1. session[s] = Closed(0, 0) /\ call[s] = NoCall /\ changes[s] = <<>>
    BY DEF RewindInit
  <2>2. <<>> \in Seq({}) /\ Len(<<>>) = 0
    OBVIOUS
  <2> QED BY <2>1, <2>2 DEF Tracked, TurnShape, TurnsListed, CallWrote, TouchedWrote, ReportsKept, Opened, Closed, IsSeq, TurnFields
<1> QED BY <1>3, <1>4 DEF ListInv

LEMMA HereIs ==
  ASSUME ListInv
  PROVE  Here \in Nat /\ DOMAIN writes = 1..Here /\ now \in Nat /\ now > 0
BY LenProperties DEF ListInv, ListShape, WritesShape, Here, IsSeq

(* Steps that touch none of it. *)
LEMMA QuietLists ==
  ASSUME ListInv, UNCHANGED <<writes, now, session, call, changes, owners, dropped>>
  PROVE  ListInv'
<1>1. ListShape'
  BY DEF ListInv, ListShape, WritesShape, IsSeq
<1>2. /\ now' \in Nat /\ now' >= now /\ Here \in Nat /\ Here' = Here /\ WritesStay
  BY HereIs DEF Here, WritesStay
<1>3. ASSUME NEW s \in Sessions PROVE Tracked(s)'
  <2>1. \A f \in Files : ReportedByOthers(s, f) => ReportedByOthers(s, f)'
    BY DEF ReportedByOthers
  <2>2. \A f \in Files : \A i \in Of(f)' : ByOthers(s, i)' => i \in Of(f) /\ ByOthers(s, i)
    BY DEF Of, ByOthers
  <2> QED BY <1>2, <2>1, <2>2, Unmoved
<1> QED BY <1>1, <1>3 DEF ListInv

(* The clock. *)
LEMMA TickLists ==
  ASSUME ListInv, Tick
  PROVE  ListInv'
<1>1. now' = now + 1 /\ UNCHANGED <<writes, session, call, changes, owners, dropped>>
  BY DEF Tick, tracker
<1>2. ListShape'
  BY <1>1 DEF ListInv, ListShape, WritesShape, IsSeq
<1>3. ASSUME NEW s \in Sessions PROVE Tracked(s)'
  <2>1. /\ now' \in Nat /\ now' >= now /\ Here \in Nat /\ Here' = Here /\ WritesStay
    BY <1>1, HereIs DEF Here, WritesStay
  <2>2. \A f \in Files : ReportedByOthers(s, f) => ReportedByOthers(s, f)'
    BY <1>1 DEF ReportedByOthers
  <2>3. \A f \in Files : \A i \in Of(f)' : ByOthers(s, i)' => i \in Of(f) /\ ByOthers(s, i)
    BY <1>1 DEF Of, ByOthers
  <2> QED BY <1>1, <2>1, <2>2, <2>3, Unmoved
<1> QED BY <1>2, <1>3 DEF ListInv

(* A write that is not told yet. *)
LEMMA WriteLists ==
  ASSUME ListInv, NEW g, NEW by, NEW kind, NEW body, Written(g, by, kind, body),
         UNCHANGED <<now, session, changes, owners, dropped>>, DOMAIN call' = Sessions,
         \A s \in Sessions : call'[s] = call[s] \/ CallWrote(s)'
  PROVE  ListInv'
<1>1. /\ WritesShape' /\ Here \in Nat /\ Here' = Here + 1 /\ DOMAIN writes = 1..Here /\ DOMAIN writes' = 1..(Here + 1)
      /\ \A i \in DOMAIN writes : writes'[i] = writes[i]
      /\ writes'[Here + 1].told = 0
  <2>1. WritesShape /\ now \in Nat
    BY DEF ListInv, ListShape
  <2> QED BY <2>1, WrittenAppends
<1>2. ListShape'
  BY <1>1 DEF ListInv, ListShape
<1>3. ASSUME NEW s \in Sessions PROVE Tracked(s)'
  <2>1. now' \in Nat /\ now' >= now /\ WritesStay
    BY <1>1, HereIs DEF WritesStay
  <2>2. \A f \in Files : ReportedByOthers(s, f) => ReportedByOthers(s, f)'
    BY DEF ReportedByOthers
  <2>3. \A f \in Files : \A i \in Of(f)' : ByOthers(s, i)' => i \in Of(f) /\ ByOthers(s, i)
    BY <1>1 DEF Of, ByOthers
  <2> QED BY <1>1, <2>1, <2>2, <2>3, Unmoved
<1> QED BY <1>2, <1>3 DEF ListInv

LEMMA ToolWritesLists ==
  ASSUME ListInv, NEW s \in Sessions, NEW f \in Files, ToolWrites(s, f)
  PROVE  ListInv'
<1>1. PICK kind, body : /\ Written(f, s, kind, body)
                        /\ call' = [call EXCEPT ![s] = [kind |-> kind, file |-> f, write |-> Here + 1]]
  BY DEF ToolWrites
<1>2. UNCHANGED <<now, session, changes, owners, dropped>> /\ session[s].at = "open" /\ Opened(s)
  BY DEF ToolWrites, tracker, Settled, Opened
<1>3. /\ DOMAIN call' = Sessions /\ \A o \in Sessions \ {s} : call'[o] = call[o]
      /\ call'[s].kind = kind /\ call'[s].file = f /\ call'[s].write = Here + 1
  BY <1>1 DEF ListInv, ListShape
<1>4. /\ Here + 1 \in DOMAIN writes' /\ writes'[Here + 1].file = f /\ writes'[Here + 1].by = s
      /\ writes'[Here + 1].kind = kind /\ writes'[Here + 1].at = now
  <2>1. WritesShape /\ now \in Nat
    BY DEF ListInv, ListShape
  <2> QED BY <1>1, <2>1, WrittenAppends
<1>5. CallWrote(s)'
  <2>1. session[s].started \in 1..now /\ now \in Nat
    BY <1>2, HereIs DEF ListInv, Tracked, TurnShape
  <2> QED BY <1>2, <1>3, <1>4, <2>1 DEF CallWrote, Opened, Of
<1> QED BY <1>1, <1>2, <1>3, <1>5, WriteLists

LEMMA OtherWritesList ==
  ASSUME ListInv, NEW f \in Files, UserEdits(f) \/ \E q \in Requests : RewindFile(q, f)
  PROVE  ListInv'
<1>1. PICK by, kind, body : Written(f, by, kind, body)
  BY DEF UserEdits, RewindFile
<1>2. UNCHANGED <<now, session, changes, owners, dropped, call>>
  BY DEF UserEdits, RewindFile, tracker
<1> QED BY <1>1, <1>2, WriteLists DEF ListInv, ListShape

(* A call without an answer is forgotten. *)
LEMMA ToolFailsLists ==
  ASSUME ListInv, NEW s \in Sessions, ToolFails(s)
  PROVE  ListInv'
<1>1. UNCHANGED <<writes, now, session, changes, owners, dropped>> /\ call' = [call EXCEPT ![s] = NoCall]
  BY DEF ToolFails, tracker
<1>2. ListShape'
  BY <1>1 DEF ListInv, ListShape, WritesShape, IsSeq
<1>3. /\ now' \in Nat /\ now' >= now /\ Here \in Nat /\ Here' = Here /\ WritesStay
  BY <1>1, HereIs DEF Here, WritesStay
<1>4. ASSUME NEW o \in Sessions PROVE Tracked(o)'
  <2>1. \A f \in Files : ReportedByOthers(o, f) => ReportedByOthers(o, f)'
    BY <1>1 DEF ReportedByOthers
  <2>2. \A f \in Files : \A i \in Of(f)' : ByOthers(o, i)' => i \in Of(f) /\ ByOthers(o, i)
    BY <1>1 DEF Of, ByOthers
  <2>3. call'[o] = call[o] \/ call'[o] = NoCall
    BY <1>1 DEF ListInv, ListShape
  <2>4. call'[o] = call[o] \/ CallWrote(o)'
    BY <2>3 DEF CallWrote
  <2> QED BY <1>1, <1>3, <2>1, <2>2, <2>4, Unmoved
<1> QED BY <1>2, <1>4 DEF ListInv

(* The answer makes the session an owner of what a write tool wrote; for   *)
(* the other turns it is somebody else, and later than their start.        *)
LEMMA ToolReportsLists ==
  ASSUME ListInv, RewindAssumption, NEW s \in Sessions, ToolReports(s)
  PROVE  ListInv'
<1>0. PICK w, g : w = call[s].write /\ g = call[s].file
  OBVIOUS
<1>1. /\ Opened(s) /\ g \in Files /\ w \in DOMAIN writes /\ writes[w].file = g
      /\ writes[w].by = s /\ writes[w].kind = call[s].kind /\ writes[w].at >= session[s].started
  BY <1>0 DEF ToolReports, ListInv, Tracked, CallWrote, Of, Opened
<1>2. /\ writes' = [writes EXCEPT ![w].told = now] /\ call' = [call EXCEPT ![s] = NoCall]
      /\ UNCHANGED <<now, changes, dropped>>
  BY <1>0 DEF ToolReports
<1>3. /\ \A i \in DOMAIN writes : /\ writes'[i].file = writes[i].file /\ writes'[i].by = writes[i].by
                                  /\ writes'[i].kind = writes[i].kind /\ writes'[i].at = writes[i].at
                                  /\ DOMAIN writes'[i] = DOMAIN writes[i]
                                  /\ i # w => writes'[i] = writes[i]
      /\ writes'[w].told = now /\ DOMAIN writes' = DOMAIN writes
  BY <1>1, <1>2 DEF ListInv, ListShape, WritesShape, Fields
<1>4. /\ DOMAIN call' = Sessions /\ call'[s] = NoCall /\ \A o \in Sessions \ {s} : call'[o] = call[o]
  BY <1>2 DEF ListInv, ListShape
<1>5. IsSeq(writes)' /\ Here' = Here
  <2>1. PICK S : writes \in Seq(S)
    BY DEF ListInv, ListShape, WritesShape, IsSeq
  <2> DEFINE new == [writes[w] EXCEPT !.told = now]
  <2>2. writes \in Seq(S \cup {new})
    BY <2>1, SeqMonotonic
  <2>3. writes' = [writes EXCEPT ![w] = new]
    BY <1>2
  <2> HIDE DEF new
  <2>4. writes' \in Seq(S \cup {new}) /\ Len(writes') = Len(writes)
    BY <1>1, <2>2, <2>3
  <2> QED BY <2>4 DEF IsSeq, Here
<1>6. \/ /\ call[s].kind = "shell" /\ session' = [session EXCEPT ![s].shell = TRUE] /\ UNCHANGED owners
      \/ /\ call[s].kind # "shell" /\ session' = [session EXCEPT ![s].touched = @ \cup {g}]
         /\ owners' = [owners EXCEPT ![g] = [by |-> s, at |-> now]]
  BY <1>0 DEF ToolReports, Report
<1>7. /\ DOMAIN session' = Sessions /\ \A o \in Sessions \ {s} : session'[o] = session[o]
      /\ DOMAIN session'[s] = DOMAIN session[s]
      /\ session'[s].at = session[s].at /\ session'[s].turn = session[s].turn
      /\ session'[s].started = session[s].started /\ session'[s].begun = session[s].begun
      /\ call[s].kind = "shell" => session'[s].touched = session[s].touched
      /\ call[s].kind # "shell" => session'[s].touched = session[s].touched \cup {g}
  BY <1>6 DEF ListInv, ListShape, Tracked, TurnShape, TurnFields
<1>8. /\ DOMAIN owners' = Files /\ \A f \in Files : owners'[f].at \in Nat
      /\ \A f \in Files \ {g} : owners'[f] = owners[f]
      /\ call[s].kind = "shell" => owners' = owners
      /\ call[s].kind # "shell" => owners'[g].by = s /\ owners'[g].at = now
  <2>1. DOMAIN owners = Files /\ now \in Nat /\ g \in Files /\ \A f \in Files : owners[f].at \in Nat
    BY <1>1, HereIs DEF ListInv, ListShape
  <2>2. CASE call[s].kind = "shell"
    BY <1>6, <2>1, <2>2
  <2>3. CASE call[s].kind # "shell"
    <3>1. owners' = [owners EXCEPT ![g] = [by |-> s, at |-> now]]
      BY <1>6, <2>3
    <3>2. owners'[g].by = s /\ owners'[g].at = now
      BY <2>1, <3>1
    <3> QED BY <2>1, <2>3, <3>1, <3>2
  <2> QED BY <2>2, <2>3
<1>9. ListShape'
  <2>1. WritesShape'
    BY <1>1, <1>2, <1>3, <1>5, HereIs DEF WritesShape, ListInv, ListShape
  <2> QED BY <2>1, <1>2, <1>4, <1>7, <1>8 DEF ListInv, ListShape
<1>10. WritesStay /\ now' \in Nat /\ now' >= now /\ Here \in Nat
  BY <1>2, <1>3, HereIs DEF WritesStay
<1>11. s # None
  BY DEF RewindAssumption
<1>12. ASSUME NEW o \in Sessions, o # s PROVE Tracked(o)'
  <2>1. session'[o] = session[o] /\ call'[o] = call[o] /\ changes'[o] = changes[o]
    BY <1>2, <1>4, <1>7, <1>12
  <2>2. Opened(o) => session[o].started \in Nat /\ now \in Nat /\ session[o].started <= now
    BY HereIs DEF ListInv, Tracked, TurnShape
  <2>3. Opened(o) /\ call[s].kind # "shell" => ReportedByOthers(o, g)'
    BY <1>8, <1>11, <1>12, <2>1, <2>2 DEF ReportedByOthers
  <2>4. \A f \in Files : \A i \in Of(f)' : Opened(o) /\ ByOthers(o, i)' =>
          ReportedByOthers(o, f)' \/ (i \in Of(f) /\ ByOthers(o, i))
    <3> SUFFICES ASSUME NEW f \in Files, NEW i \in Of(f)', Opened(o), ByOthers(o, i)', ~ReportedByOthers(o, f)'
                 PROVE  i \in Of(f) /\ ByOthers(o, i)
      OBVIOUS
    <3>1. i \in Of(f)
      BY <1>3 DEF Of
    <3>2. ASSUME i = w PROVE FALSE
      <4>1. f = g /\ call[s].kind = "write"
        BY <1>1, <1>3, <3>1, <3>2 DEF ByOthers, Of
      <4> QED BY <4>1, <2>3
    <3> QED BY <1>3, <2>1, <3>1, <3>2 DEF ByOthers, Of
  <2>5. \A f \in Files : Opened(o) /\ ReportedByOthers(o, f) => ReportedByOthers(o, f)'
    <3> SUFFICES ASSUME NEW f \in Files, ReportedByOthers(o, f), Opened(o) PROVE ReportedByOthers(o, f)'
      OBVIOUS
    <3>1. CASE f = g /\ call[s].kind # "shell"
      BY <3>1, <2>3
    <3>2. CASE f # g \/ call[s].kind = "shell"
      BY <3>2, <1>8, <2>1 DEF ReportedByOthers
    <3> QED BY <3>1, <3>2
  <2>6. dropped[o] \subseteq dropped'[o]
    BY <1>2
  <2> QED BY <1>5, <1>10, <2>1, <2>4, <2>5, <2>6, Unmoved
<1>13. Tracked(s)'
  <2>1. Tracked(s) /\ Opened(s)'
    BY <1>1, <1>7 DEF ListInv, Opened
  <2>2. TurnShape(s)' /\ TurnsListed(s)' /\ CallWrote(s)'
    BY <2>1, <1>1, <1>2, <1>4, <1>5, <1>7 DEF Tracked, TurnShape, TurnsListed, CallWrote, Opened, IsSeq
  <2>3. TouchedWrote(s)'
    <3> SUFFICES ASSUME NEW f \in session'[s].touched
                 PROVE  \E i \in Of(f)' : writes'[i].by = s /\ writes'[i].at >= session[s].started
      BY <1>7 DEF TouchedWrote
    <3>1. CASE f \in session[s].touched
      <4>1. PICK i \in Of(f) : writes[i].by = s /\ writes[i].at >= session[s].started
        BY <3>1, <1>1, <2>1 DEF Tracked, TouchedWrote
      <4> QED BY <4>1, <1>3 DEF Of
    <3>2. CASE f = g
      BY <3>2, <1>1, <1>3 DEF Of
    <3> QED BY <3>1, <3>2, <1>7
  <2>4. ReportsKept(s)'
    <3> SUFFICES ASSUME NEW f \in Files, NEW i \in Of(f)', ByOthers(s, i)'
                 PROVE  f \in session'[s].touched \cup dropped'[s] \/ ReportedByOthers(s, f)'
      BY DEF ReportsKept, ReportKept
    <3>1. i \in Of(f) /\ ByOthers(s, i)
      BY <1>1, <1>3, <1>7 DEF Of, ByOthers
    <3>2. f \in session[s].touched \cup dropped[s] \/ ReportedByOthers(s, f)
      BY <1>1, <2>1, <3>1 DEF Tracked, ReportsKept, ReportKept
    <3> QED BY <3>2, <1>2, <1>7, <1>8 DEF ReportedByOthers
  <2> QED BY <2>2, <2>3, <2>4 DEF Tracked
<1> QED BY <1>9, <1>12, <1>13 DEF ListInv

(* A turn begins with nothing to explain: all there is was written before. *)
LEMMA BeginTurnLists ==
  ASSUME ListInv, NEW s \in Sessions, BeginTurn(s)
  PROVE  ListInv'
<1>1. /\ ~Opened(s) /\ UNCHANGED <<writes, now, call, changes, owners, dropped>>
      /\ session' = [session EXCEPT ![s] = [Closed(session[s].turn + 1, session[s].opened) EXCEPT
                       !.at = "open", !.started = now, !.begun = Here, !.baseline = Indexed]]
  BY DEF BeginTurn, Opened
<1>2. /\ DOMAIN session' = Sessions /\ \A o \in Sessions \ {s} : session'[o] = session[o]
      /\ session'[s].at = "open" /\ session'[s].turn = session[s].turn + 1 /\ session'[s].started = now
      /\ session'[s].begun = Here /\ session'[s].touched = {}
      /\ TurnFields \subseteq DOMAIN session'[s]
  BY <1>1 DEF ListInv, ListShape, Closed, TurnFields
<1>3. ListShape'
  BY <1>1, <1>2 DEF ListInv, ListShape, WritesShape, IsSeq
<1>4. /\ now' \in Nat /\ now' >= now /\ Here \in Nat /\ Here' = Here /\ WritesStay
  BY <1>1, HereIs DEF Here, WritesStay
<1>5. ASSUME NEW o \in Sessions, o # s PROVE Tracked(o)'
  <2>1. session'[o] = session[o]
    BY <1>2, <1>5
  <2>2. \A f \in Files : ReportedByOthers(o, f) => ReportedByOthers(o, f)'
    BY <1>1, <2>1 DEF ReportedByOthers
  <2>3. \A f \in Files : \A i \in Of(f)' : ByOthers(o, i)' => i \in Of(f) /\ ByOthers(o, i)
    BY <1>1, <2>1 DEF Of, ByOthers
  <2> QED BY <1>1, <1>4, <2>1, <2>2, <2>3, Unmoved
<1>6. Tracked(s)'
  <2>1. Tracked(s) /\ Opened(s)'
    BY <1>2 DEF ListInv, Opened
  <2>2. TurnShape(s)'
    BY <2>1, <1>1, <1>2, <1>4, HereIs DEF Tracked, TurnShape, Opened
  <2>3. TurnsListed(s)'
    BY <2>1, <1>1, <1>2 DEF Tracked, TurnShape, TurnsListed, IsSeq
  <2>4. CallWrote(s)'
    BY <2>1, <1>1 DEF Tracked, CallWrote, Opened
  <2>5. TouchedWrote(s)'
    BY <1>2 DEF TouchedWrote
  <2>6. ReportsKept(s)'
    <3>1. ASSUME NEW f \in Files, NEW i \in Of(f)' PROVE ~ByOthers(s, i)'
      <4>1. i \in 1..Here
        BY <1>1, HereIs DEF Of
      <4> QED BY <4>1, <1>2, HereIs DEF ByOthers
    <3> QED BY <3>1 DEF ReportsKept, ReportKept
  <2> QED BY <2>2, <2>3, <2>4, <2>5, <2>6 DEF Tracked
<1> QED BY <1>3, <1>5, <1>6 DEF ListInv

(* A session between two turns has nothing to explain either. *)
LEMMA ClosedLists ==
  ASSUME NEW s \in Sessions, ~Opened(s)', TurnsListed(s)', call'[s] = NoCall,
         TurnFields \subseteq DOMAIN session'[s],
         session'[s].turn \in Nat, session'[s].started \in Nat, session'[s].begun \in Nat
  PROVE  Tracked(s)'
BY DEF Tracked, TurnShape, CallWrote, TouchedWrote, ReportsKept

(* A turn that leaves the tracker's map is still to look at its files. *)
LEMMA LeaveFilesLists ==
  ASSUME ListInv, NEW s \in Sessions, LeaveFiles(s)
  PROVE  ListInv'
<1>1. /\ Opened(s) /\ call[s] = NoCall /\ UNCHANGED <<writes, now, call, changes, owners, dropped>>
      /\ session' = [session EXCEPT ![s].at = "ending"]
  BY DEF LeaveFiles, Settled, Opened
<1>2. /\ DOMAIN session' = Sessions /\ \A o \in Sessions \ {s} : session'[o] = session[o]
      /\ DOMAIN session'[s] = DOMAIN session[s] /\ session'[s].at = "ending"
      /\ session'[s].turn = session[s].turn /\ session'[s].started = session[s].started
      /\ session'[s].begun = session[s].begun /\ session'[s].touched = session[s].touched
  BY <1>1 DEF ListInv, ListShape, Tracked, TurnShape, TurnFields
<1>3. ListShape'
  BY <1>1, <1>2 DEF ListInv, ListShape, WritesShape, IsSeq
<1>4. /\ now' \in Nat /\ now' >= now /\ Here \in Nat /\ Here' = Here /\ WritesStay
  BY <1>1, HereIs DEF Here, WritesStay
<1>5. ASSUME NEW o \in Sessions, o # s PROVE Tracked(o)'
  <2>1. session'[o] = session[o]
    BY <1>2, <1>5
  <2>2. \A f \in Files : ReportedByOthers(o, f) => ReportedByOthers(o, f)'
    BY <1>1, <2>1 DEF ReportedByOthers
  <2>3. \A f \in Files : \A i \in Of(f)' : ByOthers(o, i)' => i \in Of(f) /\ ByOthers(o, i)
    BY <1>1, <2>1 DEF Of, ByOthers
  <2> QED BY <1>1, <1>4, <2>1, <2>2, <2>3, Unmoved
<1>6. Tracked(s)'
  <2>1. Tracked(s) /\ Opened(s)'
    BY <1>2 DEF ListInv, Opened
  <2>2. TurnShape(s)' /\ TurnsListed(s)' /\ CallWrote(s)' /\ TouchedWrote(s)'
    BY <2>1, <1>1, <1>2, <1>4
    DEF Tracked, TurnShape, TurnsListed, CallWrote, TouchedWrote, Opened, IsSeq, Of
  <2>3. ReportsKept(s)'
    BY <2>1, <1>1, <1>2 DEF Tracked, ReportsKept, ReportKept, ReportedByOthers, ByOthers, Of
  <2> QED BY <2>2, <2>3 DEF Tracked
<1> QED BY <1>3, <1>5, <1>6 DEF ListInv

(* The end of a turn keeps the owners that a turn of the map can need, and *)
(* notes those it takes from under a turn that is about to look.           *)
LEMMA EndFilesLists ==
  ASSUME ListInv, NEW s \in Sessions, EndFiles(s)
  PROVE  ListInv'
<1>1. /\ Opened(s) /\ UNCHANGED <<writes, now, call>>
      /\ owners' = PruneOwners(s) /\ session' = [session EXCEPT ![s] = Closed(session[s].turn, session[s].opened)]
      /\ dropped' = [o \in Sessions |-> IF o = s THEN {} ELSE dropped[o] \cup Forgotten(o)]
  BY DEF EndFiles, Opened
<1>2. PICK entry : changes' = [changes EXCEPT ![s] = Append(@, entry)]
  BY DEF EndFiles, Listed
<1>3. /\ DOMAIN session' = Sessions /\ \A o \in Sessions \ {s} : session'[o] = session[o]
      /\ session'[s] = Closed(session[s].turn, session[s].opened)
      /\ DOMAIN changes' = Sessions /\ \A o \in Sessions \ {s} : changes'[o] = changes[o]
      /\ changes'[s] = Append(changes[s], entry)
  BY <1>1, <1>2 DEF ListInv, ListShape
<1>4. /\ DOMAIN owners' = Files
      /\ \A f \in Files : owners'[f] = owners[f] \/ owners'[f] = NoOwner
      /\ \A f \in Files : (\E o \in Open(s) : owners[f].at >= session[o].started) => owners'[f] = owners[f]
  BY <1>1 DEF PruneOwners
<1>5. ListShape'
  <2>1. \A f \in Files : owners'[f].at \in Nat
    BY <1>4 DEF ListInv, ListShape, NoOwner
  <2> QED BY <2>1, <1>1, <1>3, <1>4 DEF ListInv, ListShape, WritesShape, IsSeq
<1>6. /\ now' \in Nat /\ now' >= now /\ Here \in Nat /\ Here' = Here /\ WritesStay
  BY <1>1, HereIs DEF Here, WritesStay
<1>7. ASSUME NEW o \in Sessions, o # s PROVE Tracked(o)'
  <2>1. /\ session'[o] = session[o] /\ changes'[o] = changes[o] /\ call'[o] = call[o]
        /\ dropped'[o] = dropped[o] \cup Forgotten(o)
    BY <1>1, <1>3, <1>7
  <2>2. \A f \in Files : Opened(o) /\ ReportedByOthers(o, f) => ReportedByOthers(o, f)' \/ f \in dropped'[o]
    <3> SUFFICES ASSUME NEW f \in Files, Opened(o), ReportedByOthers(o, f), f \notin dropped'[o]
                 PROVE  ReportedByOthers(o, f)'
      OBVIOUS
    <3>1. owners'[f] = owners[f]
      <4>1. CASE session[o].at = "open"
        BY <1>4, <1>7, <4>1 DEF Open, ReportedByOthers
      <4>2. CASE session[o].at = "ending"
        BY <1>4, <2>1, <4>2 DEF Forgotten
      <4> QED BY <4>1, <4>2 DEF ListInv, Tracked, TurnShape, Opened
    <3> QED BY <3>1, <2>1 DEF ReportedByOthers
  <2>3. \A f \in Files : \A i \in Of(f)' : ByOthers(o, i)' => i \in Of(f) /\ ByOthers(o, i)
    BY <1>1, <2>1 DEF Of, ByOthers
  <2>4. dropped[o] \subseteq dropped'[o]
    BY <2>1
  <2> QED BY <1>6, <2>1, <2>2, <2>3, <2>4, Unmoved
<1>8. Tracked(s)'
  <2>1. Tracked(s) /\ session[s].turn \in Nat
    BY DEF ListInv, Tracked, TurnShape
  <2>2. /\ session'[s].at = "idle" /\ session'[s].turn = session[s].turn
        /\ session'[s].started = 0 /\ session'[s].begun = 0
        /\ TurnFields \subseteq DOMAIN session'[s]
    BY <1>3 DEF Closed, TurnFields
  <2>3. IsSeq(changes[s]) /\ Len(changes[s]) + 1 = session[s].turn
    BY <1>1, <2>1 DEF Tracked, TurnsListed
  <2>4. IsSeq(Append(changes[s], entry)) /\ Len(Append(changes[s], entry)) = Len(changes[s]) + 1
        /\ Len(changes[s]) \in Nat
    BY <2>3, Appended
  <2>5. TurnsListed(s)'
    BY <1>3, <2>2, <2>3, <2>4 DEF TurnsListed, Opened, IsSeq
  <2>6. call'[s] = NoCall
    BY <1>1, <2>1 DEF EndFiles, Tracked, CallWrote
  <2> QED BY <1>1, <2>1, <2>2, <2>5, <2>6, ClosedLists DEF Opened
<1> QED BY <1>5, <1>7, <1>8 DEF ListInv

(* A death closes every turn. *)
LEMMA CrashLists ==
  ASSUME ListInv, Crash
  PROVE  ListInv'
<1>1. /\ session' = [s \in Sessions |-> Closed(session[s].turn, session[s].turn)]
      /\ changes' = [s \in Sessions |->
           IF session[s].at # "idle" THEN Append(changes[s], [paths |-> {}, whole |-> FALSE]) ELSE changes[s]]
      /\ call' = [s \in Sessions |-> NoCall] /\ owners' = [f \in Files |-> NoOwner] /\ UNCHANGED <<writes, now>>
      /\ dropped' = [s \in Sessions |-> {}]
  BY DEF Crash
<1>2. ListShape'
  BY <1>1 DEF ListInv, ListShape, WritesShape, NoOwner, IsSeq
<1>3. ASSUME NEW s \in Sessions PROVE Tracked(s)'
  <2> DEFINE entry == [paths |-> {}, whole |-> FALSE]
  <2>1. Tracked(s) /\ session[s].turn \in Nat
    BY DEF ListInv, Tracked, TurnShape
  <2>2. /\ session'[s].at = "idle" /\ session'[s].turn = session[s].turn
        /\ session'[s].started = 0 /\ session'[s].begun = 0 /\ call'[s] = NoCall
        /\ TurnFields \subseteq DOMAIN session'[s]
    BY <1>1 DEF Closed, TurnFields
  <2> HIDE DEF entry
  <2>3. IsSeq(changes[s]) /\ Len(changes[s]) + (IF Opened(s) THEN 1 ELSE 0) = session[s].turn
    BY <2>1 DEF Tracked, TurnsListed
  <2>4. IsSeq(Append(changes[s], entry)) /\ Len(Append(changes[s], entry)) = Len(changes[s]) + 1
        /\ Len(changes[s]) \in Nat
    BY <2>3, Appended
  <2>5. changes'[s] = IF Opened(s) THEN Append(changes[s], entry) ELSE changes[s]
    BY <1>1 DEF entry, Opened
  <2>6. IsSeq(changes[s])' /\ Len(changes'[s]) = session[s].turn
    <3>1. CASE Opened(s)
      BY <3>1, <2>3, <2>4, <2>5 DEF IsSeq
    <3>2. CASE ~Opened(s)
      BY <3>2, <2>3, <2>4, <2>5 DEF IsSeq
    <3> QED BY <3>1, <3>2
  <2>7. TurnsListed(s)'
    BY <2>1, <2>2, <2>6 DEF TurnsListed, Opened, IsSeq
  <2> QED BY <2>1, <2>2, <2>7, ClosedLists DEF Opened
<1> QED BY <1>2, <1>3 DEF ListInv

LEMMA ListStep ==
  ASSUME ListInv, RewindAssumption, [RewindNext]_rewindVars
  PROVE  ListInv'
<1>1. CASE UNCHANGED <<writes, now, session, call, changes, owners, dropped>>
  BY <1>1, QuietLists
<1>2. ASSUME NEW s \in Sessions, Snapshots(s) PROVE ListInv'
  BY <1>1, <1>2 DEF Snapshots, ListFiles, TooLarge, SnapshotFails, StoreFile, StoreTree, WriteRecord, Prune, tracker
<1>3. ASSUME NEW s \in Sessions, Turn(s) PROVE ListInv'
  BY <1>3, BeginTurnLists, ToolReportsLists, ToolFailsLists, LeaveFilesLists, EndFilesLists, ToolWritesLists DEF Turn
<1>4. ASSUME NEW q \in Requests, Rewinds(q) PROVE ListInv'
  <2>1. CASE (\E s \in Sessions : RewindStarts(q, s)) \/ RewindPlans(q) \/ RewindFails(q) \/ RewindEnds(q)
    BY <1>1, <2>1 DEF RewindStarts, RewindPlans, RewindFails, RewindEnds, tracker
  <2>2. CASE \E f \in Files : RewindFile(q, f)
    BY <2>2, OtherWritesList
  <2> QED BY <1>4, <2>1, <2>2 DEF Rewinds
<1>5. ASSUME NEW f \in Files, UserEdits(f) PROVE ListInv'
  BY <1>5, OtherWritesList
<1>6. CASE Ages
  BY <1>1, <1>6 DEF Ages, tracker
<1> QED BY <1>1, <1>2, <1>3, <1>4, <1>5, <1>6, TickLists, CrashLists DEF RewindNext, rewindVars

(* ListInv holds always. *)
THEOREM ListInvariant == RewindSpec => []ListInv
BY ListInitially, ListStep, RewindAssumption, PTL DEF RewindSpec

(* The step that lists files is the end of the turn: a file it reported is *)
(* its own, and one it found is as young as the turn, so that its last     *)
(* write was not another's, or an owner would stand for it, were it not    *)
(* dropped.                                                                *)
LEMMA EndListsWithReason ==
  ASSUME ListInv, NEW s \in Sessions, Opened(s), EndFiles(s),
         NEW f \in changes'[s][session[s].turn].paths \ dropped[s], Exists(f)
  PROVE  \E i \in Of(f) : Suspect(s, i)
<1>0. /\ Tracked(s) /\ IsSeq(changes[s]) /\ Len(changes[s]) + 1 = session[s].turn /\ DOMAIN changes = Sessions
      /\ session[s].started \in 1..now /\ session[s].started \in Nat
  BY DEF ListInv, ListShape, Tracked, TurnsListed, TurnShape
<1> DEFINE Adds(e) == changes' = [changes EXCEPT ![s] = Append(@, e)]
<1>1. PICK e : Adds(e) /\ e.paths \subseteq Reported(s) \cup Scanned(s)
  <2>1. ASSUME NEW paths, paths \subseteq Reported(s) \cup Scanned(s), Listed(s, paths, TRUE) \/ Listed(s, paths, FALSE)
        PROVE  \E e : Adds(e) /\ e.paths \subseteq Reported(s) \cup Scanned(s)
    <3>1. CASE Listed(s, paths, TRUE)
      <4> DEFINE e == [paths |-> paths, whole |-> TRUE]
      <4>1. Adds(e) /\ e.paths = paths
        BY <3>1 DEF Listed
      <4> HIDE DEF e, Adds
      <4> QED BY <4>1, <2>1
    <3>2. CASE Listed(s, paths, FALSE)
      <4> DEFINE e == [paths |-> paths, whole |-> FALSE]
      <4>1. Adds(e) /\ e.paths = paths
        BY <3>2 DEF Listed
      <4> HIDE DEF e, Adds
      <4> QED BY <4>1, <2>1
    <3> QED BY <2>1, <3>1, <3>2
  <2>2. \/ Listed(s, Reported(s) \cup Scanned(s), TRUE)
        \/ Listed(s, {}, FALSE)
        \/ \E part \in SUBSET {g \in Scanned(s) : Exists(g)} : Listed(s, Reported(s) \cup part, FALSE)
    BY DEF EndFiles
  <2>3. {} \subseteq Reported(s) \cup Scanned(s)
    OBVIOUS
  <2>4. PICK paths : /\ paths \subseteq Reported(s) \cup Scanned(s)
                     /\ Listed(s, paths, TRUE) \/ Listed(s, paths, FALSE)
    <3>1. CASE Listed(s, Reported(s) \cup Scanned(s), TRUE)
      BY <3>1
    <3>2. CASE Listed(s, {}, FALSE)
      BY <3>2, <2>3
    <3>3. CASE \E part \in SUBSET {g \in Scanned(s) : Exists(g)} : Listed(s, Reported(s) \cup part, FALSE)
      <4>1. PICK part \in SUBSET Scanned(s) : Listed(s, Reported(s) \cup part, FALSE)
        BY <3>3
      <4>2. Reported(s) \cup part \subseteq Reported(s) \cup Scanned(s)
        BY <4>1
      <4> QED BY <4>1, <4>2
    <3> QED BY <2>2, <3>1, <3>2, <3>3
  <2> HIDE DEF Adds
  <2> QED BY <2>1, <2>4
<1>2. changes'[s] = Append(changes[s], e)
  BY <1>0, <1>1
<1>3. changes'[s][session[s].turn].paths = e.paths
  <2>1. Append(changes[s], e)[Len(changes[s]) + 1] = e
    BY <1>0, Appended
  <2> QED BY <1>0, <1>2, <2>1
<1>4. CASE f \in Reported(s)
  <2>1. PICK i \in Of(f) : writes[i].by = s /\ writes[i].at >= session[s].started
    BY <1>0, <1>4 DEF Reported, Tracked, TouchedWrote
  <2> QED BY <2>1 DEF Suspect
<1>5. CASE f \in Scanned(s) \ Reported(s)
  <2>1. /\ f \in Files /\ ~ReportedByOthers(s, f) /\ Stamp(f, Here) >= session[s].started
        /\ f \notin session[s].touched
    BY <1>5 DEF Scanned, Reported
  <2>2. Last(f, Here) > 0
    BY <1>0, <2>1, HereIs DEF Stamp
  <2>3. PICK i \in Of(f) : i = Last(f, Here)
    <3>1. Of(f) # {}
      BY <2>2 DEF Last
    <3> QED BY <3>1, LastIsLast DEF ListInv, ListShape
  <2>4. writes[i].at >= session[s].started
    BY <2>1, <2>2, <2>3 DEF Stamp
  <2>5. ~ByOthers(s, i)
    BY <1>0, <2>1 DEF Tracked, ReportsKept, ReportKept
  <2>6. i \in Nat /\ session[s].begun \in Nat
    BY <1>0, HereIs DEF Of, Tracked, TurnShape
  <2> QED BY <2>4, <2>5, <2>6 DEF Suspect, ByOthers
<1> QED BY <1>1, <1>3, <1>4, <1>5

LEMMA ListedStep ==
  ASSUME ListInv, RewindNext, NEW s \in Sessions, session[s].at # "idle", Len(changes'[s]) > Len(changes[s]),
         NEW f \in changes'[s][session[s].turn].paths \ dropped[s], Exists(f)
  PROVE  \E i \in Of(f) : Suspect(s, i)
<1>0. /\ IsSeq(changes[s]) /\ Len(changes[s]) + 1 = session[s].turn /\ DOMAIN changes = Sessions
      /\ Len(changes[s]) \in Nat
  BY LenProperties DEF ListInv, ListShape, Tracked, TurnsListed, Opened, IsSeq
<1>1. changes'[s] # changes[s]
  BY <1>0
<1>2. CASE EndFiles(s)
  BY <1>2, EndListsWithReason DEF Opened
<1>3. CASE Crash
  <2> DEFINE entry == [paths |-> {}, whole |-> FALSE]
  <2>1. changes'[s] = Append(changes[s], entry) /\ entry.paths = {}
    BY <1>3 DEF Crash
  <2> HIDE DEF entry
  <2>2. Append(changes[s], entry)[Len(changes[s]) + 1] = entry
    BY <1>0, Appended
  <2> QED BY <1>0, <2>1, <2>2
<1>4. ASSUME NEW o \in Sessions, o # s, EndFiles(o) PROVE changes'[s] = changes[s]
  BY <1>0, <1>4 DEF EndFiles, Listed
<1>5. ASSUME NEW o \in Sessions, Snapshots(o) PROVE changes' = changes
  BY <1>5 DEF Snapshots, ListFiles, TooLarge, SnapshotFails, StoreFile, StoreTree, WriteRecord, Prune, tracker
<1>6. ASSUME NEW q \in Requests, Rewinds(q) PROVE changes' = changes
  BY <1>6 DEF Rewinds, RewindStarts, RewindPlans, RewindFails, RewindEnds, RewindFile, tracker
<1>7. ASSUME NEW o \in Sessions, Turn(o), ~EndFiles(o) PROVE changes' = changes
  BY <1>7 DEF Turn, BeginTurn, ToolReports, ToolFails, LeaveFiles, ToolWrites, tracker
<1>8. ASSUME Tick \/ Ages \/ \E g \in Files : UserEdits(g) PROVE changes' = changes
  BY <1>8 DEF Tick, Ages, UserEdits, tracker
<1> QED BY <1>1, <1>2, <1>3, <1>4, <1>5, <1>6, <1>7, <1>8 DEF RewindNext

(* No turn is charged with a file that only write tools of other sessions  *)
(* changed since it began, and reported, but for the files whose owners    *)
(* pruneOwners of another session dropped between the turn's leaving of    *)
(* the tracker's map and its look at the owners (endTurn awaits in         *)
(* between): the scan after a shell, however the turns of sessions         *)
(* overlap.                                                                *)
THEOREM TurnsListWithReason == RewindSpec => ListedWithReason
<1>1. ListInv /\ [RewindNext]_rewindVars =>
        [\A s \in Sessions : session[s].at # "idle" /\ Len(changes'[s]) > Len(changes[s]) =>
           \A f \in changes'[s][session[s].turn].paths \ dropped[s] :
             Exists(f) => \E i \in Of(f) : Suspect(s, i)]_rewindVars
  BY ListedStep DEF rewindVars
<1> QED BY <1>1, ListInvariant, PTL DEF RewindSpec, ListedWithReason
-----------------------------------------------------------------------------
(* What a rewind takes back.                                               *)

(* A file whose writes a snapshot can tell apart, and one that somebody    *)
(* else has been at since some time.                                       *)
Calm(f) == \A i \in Of(f) : ~writes[i].blurs
Foreign(s, f, since) ==
  \E i \in Of(f) : writes[i].by # s /\ (writes[i].at >= since \/ writes[i].told >= since)

(* The writes are in the order of the clock. *)
InTime ==
  \A i \in DOMAIN writes :
    /\ writes[i].at <= now /\ writes[i].told <= now /\ writes[i].turn \in Nat
    /\ \A j \in DOMAIN writes : i <= j => writes[i].at <= writes[j].at

(* An index that says, of a file with a stamp older than itself, what was  *)
(* in it after the first n writes.                                         *)
RightIndex(index, n) ==
  \A f \in Files \cap DOMAIN index.files :
    Calm(f) /\ index.files[f].stamp < index.at /\ index.files[f].stamp = Stamp(f, n) =>
      index.files[f].body = Body(f, n)
IndexRight ==
  /\ store.index.at \in 0..now
  /\ RightIndex(store.index, Here)

(* A snapshot has what was in a file when the project was listed, unless   *)
(* the file was written to since.                                          *)
PickedRight(s) ==
  \A f \in Files \cap DOMAIN snap[s].tree :
    Calm(f) => snap[s].tree[f] = Body(f, snap[s].seen) \/ \E i \in Of(f) : i > snap[s].seen
SeenRight(s) ==
  /\ snap[s].seen \in session[s].begun..Here
  /\ \A f \in Files : \A i \in Of(f) : i > snap[s].seen /\ writes[i].at = Stamp(f, snap[s].seen) => writes[i].blurs
SnapRight(s) ==
  /\ snap[s].at \in {"waiting", "storing", "stored"} =>
       Opened(s) /\ \A i \in DOMAIN writes : i > session[s].begun /\ writes[i].by = s => writes[i].blurs
  /\ s \in Reading => SeenRight(s) /\ {"at", "seen", "objects", "tree"} \subseteq DOMAIN snap[s]
  /\ snap[s].at = "storing" =>
       /\ "index" \in DOMAIN snap[s] /\ DOMAIN snap[s].tree \subseteq Walked(s)
       /\ PickedRight(s) /\ RightIndex(snap[s].index, snap[s].seen)
  /\ snap[s].at = "stored" /\ snap[s].tree # NoTree => DOMAIN snap[s].tree = Walked(s) /\ PickedRight(s)
  /\ snap[s].at = "pruning" => snap[s].index.at \in 0..now /\ RightIndex(snap[s].index, Here)

(* A tree is the project as its turn found it, but for what others did.    *)
TreeRight(s, tree, seen, started) ==
  /\ seen \in 0..Here /\ started \in 0..now
  /\ tree # NoTree => \A f \in Files : Calm(f) => Before(tree, f) = Body(f, seen) \/ Foreign(s, f, started)
RecordRight(r) ==
  /\ r.turn \in Nat /\ TreeRight(r.by, r.tree, r.seen, r.started)
  /\ r.by \in Sessions => r.turn <= session[r.by].turn
  /\ r.by \in Sessions /\ Opened(r.by) => r.started <= session[r.by].started
RecordsRight == NoTree \notin store.trees /\ \A r \in store.records : RecordRight(r)

(* A rewind has put back what it need not put back any more, but where     *)
(* another rewind of the session crossed it.                               *)
Applying(q) == rewind[q].at = "applying"
PutBack(q) ==
  \A f \in ListedSince(rewind[q].by, rewind[q].to) \cap Files :
    \/ f \in rewind[q].todo \cup rewind[q].crossed \/ Foreign(rewind[q].by, f, rewind[q].started)
    \/ Body(f, Here) = Before(rewind[q].tree, f)
RewindFields == {"at", "by", "to", "asked", "tree", "seen", "started", "todo", "crossed"}
RewindRight(q) ==
  /\ rewind[q] = NoRewind \/ rewind[q].at \in {"asked", "applying"}
  /\ rewind[q] # NoRewind =>
       /\ rewind[q].by \in Sessions
       /\ rewind[q].asked \in Nat /\ rewind[q].to \in 1..rewind[q].asked
       /\ rewind[q].asked <= session[rewind[q].by].turn
       /\ session[rewind[q].by].turn = rewind[q].asked => ~Opened(rewind[q].by)
  /\ Applying(q) =>
       /\ RewindFields \subseteq DOMAIN rewind[q]
       /\ rewind[q].tree # NoTree
       /\ TreeRight(rewind[q].by, rewind[q].tree, rewind[q].seen, rewind[q].started)
       /\ Opened(rewind[q].by) => rewind[q].started <= session[rewind[q].by].started
       /\ session[rewind[q].by].turn = rewind[q].asked => PutBack(q)

(* Whoever owns a file was told it. *)
OwnersTold ==
  \A f \in Files : owners[f].by # None =>
    \E i \in Of(f) : writes[i].by = owners[f].by /\ writes[i].told >= owners[f].at

(* What a turn has written, and what it knows of it. *)
Noted(s, i) ==
  /\ writes[i].turn = session[s].turn /\ writes[i].kind \in {"write", "shell", "rewind"}
  /\ writes[i].kind = "rewind" => writes[i].blurs
  /\ writes[i].kind = "write" => writes[i].body # Gone
  /\ writes[i].body = Gone => (writes[i].unknown <=> writes[i].file \notin session[s].baseline)
  /\ writes[i].kind = "write" /\ writes[i].told > 0 => writes[i].file \in session[s].touched
  /\ writes[i].kind = "shell" /\ writes[i].told > 0 => session[s].shell
TurnNoted(s) ==
  /\ \A i \in DOMAIN writes : writes[i].by = s => writes[i].turn <= session[s].turn
  /\ Opened(s) => \A i \in DOMAIN writes :
       /\ i > session[s].begun => writes[i].at >= session[s].started /\ (writes[i].by = s => Noted(s, i))
       /\ i <= session[s].begun /\ writes[i].by = s => writes[i].turn < session[s].turn
  /\ call[s] # NoCall => call[s].write > session[s].begun

(* A turn with a whole record has listed every file it changed and could   *)
(* know of, unless others had been at it, or a shell had removed it        *)
(* unseen.                                                                 *)
Unseen(s, f, t) ==
  \E i \in Of(f) : writes[i].by = s /\ writes[i].turn = t /\ writes[i].kind = "shell" /\ writes[i].unknown
Excused(s, f, t) ==
  \/ ~Calm(f) \/ Unseen(s, f, t)
  \/ /\ \A r \in store.records : r.by = s /\ r.turn <= t => Foreign(s, f, r.started)
     /\ \A q \in Requests : Applying(q) /\ rewind[q].by = s /\ rewind[q].to <= t =>
          Foreign(s, f, rewind[q].started)
WholeRight(s) ==
  \A i \in DOMAIN writes :
    LET t == writes[i].turn
    IN  writes[i].by = s /\ writes[i].file \in Files /\ writes[i].kind \in Tools /\ writes[i].told > 0
          /\ t \in DOMAIN changes[s] /\ changes[s][t].whole =>
          writes[i].file \in changes[s][t].paths \/ Excused(s, writes[i].file, t)

(* The inductive invariant. *)
SessionRight(s) == SnapRight(s) /\ TurnNoted(s) /\ WholeRight(s)
UndoInv ==
  /\ DOMAIN rewind = Requests /\ DOMAIN snap = Sessions
  /\ InTime /\ IndexRight /\ RecordsRight /\ OwnersTold
  /\ \A s \in Sessions : SessionRight(s)
  /\ \A q \in Requests : RewindRight(q)

LEMMA WritesAre ==
  ASSUME WritesShape
  PROVE  /\ Here \in Nat /\ DOMAIN writes = 1..Here
         /\ \A f : Of(f) \subseteq DOMAIN writes
         /\ \A f : \A i \in Of(f) : /\ i \in 1..Here /\ i \in Nat /\ writes[i].file = f
                                    /\ writes[i].at \in Nat /\ writes[i].told \in Nat
         /\ \A i \in DOMAIN writes : i \in Of(writes[i].file)
<1>1. Here \in Nat /\ DOMAIN writes = 1..Here
  BY LenProperties DEF WritesShape, Here, IsSeq
<1> QED BY <1>1 DEF WritesShape, Of

(* The last of the first n writes to a file. *)
LEMMA LastOf ==
  ASSUME WritesShape, NEW f, NEW n \in Nat
  PROVE  /\ Last(f, n) \in Nat
         /\ Last(f, n) = 0 => \A i \in Of(f) : i > n
         /\ Last(f, n) # 0 => Last(f, n) \in Of(f) /\ Last(f, n) <= n /\ \A j \in Of(f) : j <= n => j <= Last(f, n)
<1>1. Here \in Nat /\ \A i \in Of(f) : i \in 1..Here /\ i \in Nat
  BY WritesAre
<1>2. CASE \A i \in Of(f) : ~(i <= n)
  BY <1>1, <1>2 DEF Last
<1>3. CASE \E i \in Of(f) : i <= n
  <2> DEFINE T == {k \in Nat : \A i \in Of(f) : i <= n => i <= k}
             P(k) == k \in Of(f) /\ k <= n /\ \A j \in Of(f) : j <= n => j <= k
  <2>1. n \in T
    BY <1>1
  <2>2. PICK k \in T : \A m \in T : k <= m
    <3>1. T \subseteq Nat /\ T # {}
      BY <2>1
    <3> QED BY <3>1, LeastOf
  <2>3. PICK i \in Of(f) : i <= n
    BY <1>3
  <2>4. P(k)
    <3>1. k - 1 \in Nat /\ k \in Nat
      BY <1>1, <2>2, <2>3
    <3>2. k - 1 \notin T
      BY <2>2, <3>1
    <3>3. PICK j \in Of(f) : j <= n /\ ~(j <= k - 1)
      BY <3>1, <3>2
    <3>4. j = k
      BY <1>1, <2>2, <3>1, <3>3
    <3> QED BY <2>2, <3>3, <3>4
  <2>5. Last(f, n) = CHOOSE m \in Of(f) : m <= n /\ \A j \in Of(f) : j <= n => j <= m
    BY <1>3 DEF Last
  <2>6. P(Last(f, n))
    BY <2>4, <2>5
  <2>7. Last(f, n) \in Nat /\ Last(f, n) # 0
    BY <1>1, <2>6
  <2> QED BY <2>6, <2>7
<1> QED BY <1>2, <1>3

LEMMA LastIs ==
  ASSUME WritesShape, NEW f, NEW n \in Nat, NEW k \in Of(f), k <= n, \A j \in Of(f) : j <= n => j <= k
  PROVE  Last(f, n) = k
<1>1. \A i \in Of(f) : i \in Nat /\ i > 0
  BY WritesAre
<1>2. Last(f, n) # 0
  BY <1>1, LastOf
<1>3. Last(f, n) \in Of(f) /\ Last(f, n) <= n /\ k <= Last(f, n)
  BY <1>2, LastOf
<1> QED BY <1>1, <1>3

(* Nothing written to a file between two places. *)
LEMMA SameBetween ==
  ASSUME WritesShape, NEW f, NEW m \in Nat, NEW n \in Nat, m <= n, \A i \in Of(f) : ~(i > m /\ i <= n)
  PROVE  Last(f, n) = Last(f, m) /\ Body(f, n) = Body(f, m) /\ Stamp(f, n) = Stamp(f, m)
<1>1. \A i \in Of(f) : i \in Nat /\ i > 0
  BY WritesAre
<1>2. Last(f, n) = Last(f, m)
  <2>1. CASE Last(f, m) = 0
    <3>1. \A i \in Of(f) : i > n
      BY <1>1, <2>1, LastOf
    <3>2. Last(f, n) \in Nat /\ (Last(f, n) # 0 => Last(f, n) \in Of(f) /\ Last(f, n) <= n)
      BY LastOf
    <3> QED BY <1>1, <2>1, <3>1, <3>2
  <2>2. CASE Last(f, m) # 0
    <3>1. /\ Last(f, m) \in Of(f) /\ Last(f, m) <= m /\ \A j \in Of(f) : j <= m => j <= Last(f, m)
      BY <2>2, LastOf
    <3>2. Last(f, m) <= n /\ \A j \in Of(f) : j <= n => j <= Last(f, m)
      BY <1>1, <3>1
    <3> QED BY <3>1, <3>2, LastIs
  <2> QED BY <2>1, <2>2
<1> QED BY <1>2 DEF Body, Stamp

(* Writes have the stamps of their time. *)
LEMMA StampsRise ==
  ASSUME WritesShape, InTime, NEW f, NEW n \in Nat, NEW i \in Of(f)
  PROVE  /\ Stamp(f, n) \in Nat
         /\ i > n => Stamp(f, n) <= writes[i].at
         /\ i <= n => writes[i].at <= Stamp(f, n)
<1>1. \A j \in Of(f) : j \in Nat /\ j > 0 /\ j \in DOMAIN writes /\ writes[j].at \in Nat
  BY WritesAre
<1>2. /\ Last(f, n) \in Nat
      /\ Last(f, n) = 0 => \A j \in Of(f) : j > n
      /\ Last(f, n) # 0 => Last(f, n) \in Of(f) /\ Last(f, n) <= n /\ \A j \in Of(f) : j <= n => j <= Last(f, n)
  BY LastOf
<1>3. CASE Last(f, n) = 0
  BY <1>1, <1>2, <1>3 DEF Stamp
<1>4. CASE Last(f, n) # 0
  <2> DEFINE k == Last(f, n)
  <2>1. /\ k \in Of(f) /\ k <= n /\ k > 0 /\ k \in Nat /\ Stamp(f, n) = writes[k].at
        /\ \A j \in Of(f) : j <= n => j <= k
    BY <1>1, <1>2, <1>4 DEF Stamp
  <2> HIDE DEF k
  <2>2. i \in Nat /\ k \in Nat /\ k <= n /\ (i <= n => i <= k)
    BY <1>1, <2>1
  <2>3. i > n => k <= i
    BY <2>2
  <2> QED BY <1>1, <2>1, <2>2, <2>3 DEF InTime
<1> QED BY <1>3, <1>4

(* All that, and the same of the writes there are next. *)
AreFacts ==
  /\ Here \in Nat /\ DOMAIN writes = 1..Here
  /\ \A f : \A i \in Of(f) : /\ i \in 1..Here /\ i \in Nat /\ writes[i].file = f
                             /\ writes[i].at \in Nat /\ writes[i].told \in Nat
LastFacts ==
  \A f : \A n \in Nat :
    /\ Last(f, n) \in Nat
    /\ Last(f, n) = 0 => \A i \in Of(f) : i > n
    /\ Last(f, n) # 0 => Last(f, n) \in Of(f) /\ Last(f, n) <= n /\ \A j \in Of(f) : j <= n => j <= Last(f, n)
    /\ \A k \in Of(f) : k <= n /\ (\A j \in Of(f) : j <= n => j <= k) => Last(f, n) = k
BetweenFacts ==
  \A f : \A m, n \in Nat : m <= n /\ (\A i \in Of(f) : ~(i > m /\ i <= n)) =>
    Last(f, n) = Last(f, m) /\ Body(f, n) = Body(f, m) /\ Stamp(f, n) = Stamp(f, m)
RiseFacts ==
  \A f : \A n \in Nat : \A i \in Of(f) :
    /\ Stamp(f, n) \in Nat
    /\ i > n => Stamp(f, n) <= writes[i].at
    /\ i <= n => writes[i].at <= Stamp(f, n)
WritesFacts == (WritesShape => AreFacts /\ LastFacts /\ BetweenFacts) /\ (WritesShape /\ InTime => RiseFacts)

LEMMA FactsNow == WritesFacts
<1>1. WritesShape => AreFacts
  BY WritesAre DEF AreFacts
<1>2. WritesShape => LastFacts
  <2> SUFFICES ASSUME WritesShape, NEW f, NEW n \in Nat
               PROVE  /\ Last(f, n) \in Nat
                      /\ Last(f, n) = 0 => \A i \in Of(f) : i > n
                      /\ Last(f, n) # 0 =>
                           Last(f, n) \in Of(f) /\ Last(f, n) <= n /\ \A j \in Of(f) : j <= n => j <= Last(f, n)
                      /\ \A k \in Of(f) : k <= n /\ (\A j \in Of(f) : j <= n => j <= k) => Last(f, n) = k
    BY DEF LastFacts
  <2> QED BY LastOf, LastIs
<1>3. WritesShape => BetweenFacts
  BY SameBetween DEF BetweenFacts
<1>4. WritesShape /\ InTime => RiseFacts
  BY StampsRise DEF RiseFacts
<1> QED BY <1>1, <1>2, <1>3, <1>4 DEF WritesFacts

LEMMA FactsNext == WritesFacts'
BY FactsNow, PTL

(* What a step may do to the writes: write more, at its time, and tell of  *)
(* some.                                                                   *)
Same(i) ==
  /\ writes'[i].file = writes[i].file /\ writes'[i].by = writes[i].by /\ writes'[i].kind = writes[i].kind
  /\ writes'[i].body = writes[i].body /\ writes'[i].at = writes[i].at /\ writes'[i].turn = writes[i].turn
  /\ writes'[i].blurs = writes[i].blurs /\ writes'[i].unknown = writes[i].unknown
  /\ writes'[i].told >= writes[i].told /\ writes'[i].told \in {writes[i].told, now}
WritesGrow ==
  /\ WritesShape /\ WritesShape' /\ Here' >= Here /\ now \in Nat /\ now' \in Nat /\ now' >= now
  /\ \A i \in DOMAIN writes : Same(i)
  /\ \A i \in DOMAIN writes' : i > Here => writes'[i].at = now /\ writes'[i].told = 0 /\ writes'[i].turn \in Nat

LEMMA Kept ==
  ASSUME WritesGrow, NEW f
  PROVE  /\ \A i : i \in Of(f) => i \in Of(f)'
         /\ \A i \in Of(f)' : i \in Of(f) \/ i > Here
         /\ \A i \in Of(f)' : i <= Here => i \in Of(f)
         /\ Calm(f)' => Calm(f)
         /\ \A s, since : since \in Nat /\ Foreign(s, f, since) => Foreign(s, f, since)'
         /\ \A n \in 0..Here : Last(f, n)' = Last(f, n) /\ Body(f, n)' = Body(f, n) /\ Stamp(f, n)' = Stamp(f, n)
<1>1. /\ Here \in Nat /\ Here' \in Nat /\ DOMAIN writes = 1..Here /\ DOMAIN writes' = 1..Here'
      /\ \A i \in Of(f) : i \in 1..Here /\ i \in Nat /\ writes[i].at \in Nat /\ writes[i].told \in Nat
      /\ \A i \in Of(f)' : i \in 1..Here' /\ i \in Nat /\ writes'[i].told \in Nat
  <2>1. Here \in Nat /\ DOMAIN writes = 1..Here
        /\ \A i \in Of(f) : i \in 1..Here /\ i \in Nat /\ writes[i].at \in Nat /\ writes[i].told \in Nat
    BY WritesAre DEF WritesGrow
  <2>2. WritesShape' => /\ Here' \in Nat /\ DOMAIN writes' = 1..Here'
                        /\ \A i \in Of(f)' : i \in 1..Here' /\ i \in Nat /\ writes'[i].told \in Nat
    BY FactsNext DEF WritesFacts, AreFacts
  <2> QED BY <2>1, <2>2 DEF WritesGrow
<1>2. \A i : i \in Of(f) => i \in Of(f)'
  BY <1>1 DEF WritesGrow, Same, Of
<1>3. \A i \in Of(f)' : i <= Here => i \in Of(f)
  BY <1>1 DEF WritesGrow, Same, Of
<1>4. \A i \in Of(f)' : i \in Of(f) \/ i > Here
  BY <1>1, <1>3
<1>5. Calm(f)' => Calm(f)
  BY <1>1, <1>2 DEF Calm, WritesGrow, Same
<1>6. \A s, since : since \in Nat /\ Foreign(s, f, since) => Foreign(s, f, since)'
  BY <1>1, <1>2 DEF Foreign, WritesGrow, Same
<1>7. ASSUME NEW n \in 0..Here PROVE Last(f, n)' = Last(f, n)
  <2>1. n \in Nat
    BY <1>1
  <2>2. /\ Last(f, n) \in Nat
        /\ Last(f, n) = 0 => \A i \in Of(f) : i > n
        /\ Last(f, n) # 0 => Last(f, n) \in Of(f) /\ Last(f, n) <= n /\ \A j \in Of(f) : j <= n => j <= Last(f, n)
    BY <2>1, LastOf DEF WritesGrow
  <2>3. /\ Last(f, n)' \in Nat
        /\ Last(f, n)' = 0 => \A i \in Of(f)' : i > n
        /\ Last(f, n)' # 0 =>
             Last(f, n)' \in Of(f)' /\ Last(f, n)' <= n /\ \A j \in Of(f)' : j <= n => j <= Last(f, n)'
    BY <2>1, FactsNext DEF WritesGrow, WritesFacts, LastFacts
  <2>4. \A i \in Of(f) : i \in Nat /\ i > 0 /\ i <= Here
    BY <1>1
  <2>5. n <= Here /\ \A i \in Of(f)' : i \in Nat /\ i > 0
    BY <1>1
  <2>6. \A i \in Nat : i <= n => (i \in Of(f) <=> i \in Of(f)')
    BY <1>1, <1>2, <1>3, <2>1, <2>5
  <2> QED BY <1>2, <2>1, <2>2, <2>3, <2>4, <2>5, <2>6
<1>8. ASSUME NEW n \in 0..Here PROVE Body(f, n)' = Body(f, n) /\ Stamp(f, n)' = Stamp(f, n)
  <2>1. Last(f, n) > 0 => Last(f, n) \in DOMAIN writes
    BY <1>1, LastOf, WritesAre DEF WritesGrow
  <2>2. Last(f, n)' = Last(f, n)
    BY <1>7
  <2>3. Last(f, n) > 0 => writes'[Last(f, n)].body = writes[Last(f, n)].body /\ writes'[Last(f, n)].at = writes[Last(f, n)].at
    BY <2>1 DEF WritesGrow, Same
  <2> QED BY <2>2, <2>3 DEF Body, Stamp
<1> QED BY <1>2, <1>3, <1>4, <1>5, <1>6, <1>7, <1>8

(* The same, of the writes there are then. *)
LEMMA GrownAre ==
  ASSUME WritesGrow
  PROVE  /\ Here \in Nat /\ Here' \in Nat /\ DOMAIN writes = 1..Here /\ DOMAIN writes' = 1..Here'
         /\ DOMAIN writes \subseteq DOMAIN writes'
         /\ \A f : \A i \in Of(f) : /\ i \in DOMAIN writes /\ i \in Nat /\ i <= Here /\ writes[i].file = f
                                    /\ writes[i].at \in Nat /\ writes[i].told \in Nat
         /\ \A f : \A i \in Of(f)' : /\ i \in DOMAIN writes' /\ i \in Nat /\ i <= Here' /\ writes'[i].file = f
                                     /\ writes'[i].at \in Nat /\ writes'[i].told \in Nat
         /\ \A i \in DOMAIN writes' : i \in Nat /\ (i \in DOMAIN writes \/ i > Here)
<1>1. WritesShape /\ WritesShape' /\ Here' >= Here
  BY DEF WritesGrow
<1>2. /\ Here \in Nat /\ DOMAIN writes = 1..Here
      /\ \A f : \A i \in Of(f) : /\ i \in 1..Here /\ i \in Nat /\ writes[i].file = f
                                 /\ writes[i].at \in Nat /\ writes[i].told \in Nat
  BY <1>1, WritesAre
<1>3. /\ Here' \in Nat /\ DOMAIN writes' = 1..Here'
      /\ \A f : \A i \in Of(f)' : /\ i \in 1..Here' /\ i \in Nat /\ writes'[i].file = f
                                  /\ writes'[i].at \in Nat /\ writes'[i].told \in Nat
  BY <1>1, FactsNext DEF WritesFacts, AreFacts
<1> QED BY <1>1, <1>2, <1>3

LEMMA GrownRise ==
  ASSUME WritesGrow, InTime', NEW f, NEW n \in Nat, NEW i \in Of(f)'
  PROVE  /\ Stamp(f, n)' \in Nat
         /\ i > n => Stamp(f, n)' <= writes'[i].at
         /\ i <= n => writes'[i].at <= Stamp(f, n)'
BY FactsNext DEF WritesGrow, WritesFacts, RiseFacts

(* A file that is not written to stays what it is. *)
LEMMA FileStays ==
  ASSUME WritesGrow, NEW f, \A i \in Of(f)' : i <= Here
  PROVE  Body(f, Here)' = Body(f, Here) /\ Stamp(f, Here)' = Stamp(f, Here)
<1>1. /\ Here \in Nat /\ Here' \in Nat /\ Here' >= Here
      /\ \A i \in Of(f)' : i \in Nat
  BY GrownAre DEF WritesGrow
<1>2. PICK m \in Nat, n \in Nat : m = Here /\ n = Here'
  BY <1>1
<1>3. Body(f, n)' = Body(f, m)' /\ Stamp(f, n)' = Stamp(f, m)'
  <2>1. \A i \in Of(f)' : ~(i > m /\ i <= n)
    BY <1>1, <1>2
  <2> QED BY <1>1, <1>2, <2>1, FactsNext DEF WritesGrow, WritesFacts, BetweenFacts
<1>4. Body(f, m)' = Body(f, m) /\ Stamp(f, m)' = Stamp(f, m)
  BY <1>1, <1>2, Kept
<1> QED BY <1>2, <1>3, <1>4

LEMMA TimeKept ==
  ASSUME WritesGrow, InTime
  PROVE  InTime'
<1> SUFFICES ASSUME NEW i \in DOMAIN writes'
             PROVE  /\ writes'[i].at <= now' /\ writes'[i].told <= now' /\ writes'[i].turn \in Nat
                    /\ \A j \in DOMAIN writes' : i <= j => writes'[i].at <= writes'[j].at
  BY DEF InTime
<1>1. /\ Here \in Nat /\ DOMAIN writes = 1..Here /\ DOMAIN writes' = 1..Here'
      /\ \A j \in DOMAIN writes' : j \in Nat /\ (j \in DOMAIN writes \/ j > Here)
  BY GrownAre
<1>2. \A j \in DOMAIN writes : /\ writes'[j].at = writes[j].at /\ writes'[j].at <= now /\ writes'[j].told <= now
                               /\ writes'[j].turn = writes[j].turn
  BY DEF WritesGrow, Same, InTime
<1>3. \A j \in DOMAIN writes' : j > Here => /\ writes'[j].at = now /\ writes'[j].told = 0 /\ writes'[j].turn \in Nat
  BY DEF WritesGrow
<1>4. now \in Nat /\ now' \in Nat /\ now <= now'
  BY DEF WritesGrow
<1>5. \A j \in DOMAIN writes : writes[j].at \in Nat /\ writes'[j].told \in Nat
  BY GrownAre DEF WritesGrow, WritesShape
<1>6. writes'[i].at <= now' /\ writes'[i].told <= now' /\ writes'[i].turn \in Nat
  <2>1. CASE i \in DOMAIN writes
    BY <2>1, <1>2, <1>4, <1>5 DEF InTime
  <2>2. CASE i > Here
    BY <2>2, <1>3, <1>4
  <2> QED BY <1>1, <2>1, <2>2
<1>7. ASSUME NEW j \in DOMAIN writes', i <= j PROVE writes'[i].at <= writes'[j].at
  <2>1. CASE j \in DOMAIN writes
    <3>1. i \in DOMAIN writes
      BY <1>1, <1>7, <2>1
    <3> QED BY <1>2, <1>7, <2>1, <3>1 DEF InTime
  <2>2. CASE j > Here
    <3>1. CASE i \in DOMAIN writes
      BY <1>2, <1>3, <2>2, <3>1
    <3>2. CASE i > Here
      BY <1>3, <1>4, <2>2, <3>2
    <3> QED BY <1>1, <3>1, <3>2
  <2> QED BY <1>1, <2>1, <2>2
<1> QED BY <1>6, <1>7

LEMMA IndexOfPastKept ==
  ASSUME WritesGrow, NEW index, NEW n \in 0..Here, RightIndex(index, n)
  PROVE  RightIndex(index, n)'
BY Kept DEF RightIndex

LEMMA IndexKept ==
  ASSUME WritesGrow, InTime, NEW index, index.at \in 0..now, RightIndex(index, Here)
  PROVE  index.at \in 0..now' /\ RightIndex(index, Here)'
<1>1. index.at \in 0..now'
  BY DEF WritesGrow
<1>2. ASSUME NEW f \in Files \cap DOMAIN index.files, Calm(f)', index.files[f].stamp < index.at,
             index.files[f].stamp = Stamp(f, Here)'
      PROVE  index.files[f].body = Body(f, Here)'
  <2>1. CASE \A i \in Of(f)' : i <= Here
    <3>1. Calm(f) /\ Body(f, Here)' = Body(f, Here) /\ Stamp(f, Here)' = Stamp(f, Here)
      BY <1>2, <2>1, Kept, FileStays
    <3> QED BY <1>2, <3>1 DEF RightIndex
  <2>2. ASSUME NEW i \in Of(f)', ~(i <= Here) PROVE FALSE
    <3>1. /\ i \in DOMAIN writes' /\ i \in Nat /\ i <= Here' /\ Here \in Nat /\ Here' \in Nat
      BY <2>2, GrownAre
    <3>2. writes'[i].at = now
      BY <2>2, <3>1 DEF WritesGrow
    <3>3. PICK n \in Nat : n = Here'
      BY <3>1
    <3>4. now <= Stamp(f, n)' /\ Stamp(f, n)' \in Nat
      BY <2>2, <3>1, <3>2, <3>3, TimeKept, GrownRise
    <3>5. Stamp(f, Here)' = Stamp(f, n)'
      BY <3>3
    <3>6. index.at <= now /\ index.at \in Nat /\ now \in Nat
      BY DEF WritesGrow
    <3> QED BY <1>2, <3>4, <3>5, <3>6
  <2> QED BY <2>1, <2>2
<1> QED BY <1>1, <1>2 DEF RightIndex

LEMMA StoreIndexKept ==
  ASSUME WritesGrow, InTime, NEW index, index.at \in 0..now, RightIndex(index, Here), store'.index = index
  PROVE  IndexRight'
BY IndexKept DEF IndexRight

LEMMA TreeKept ==
  ASSUME WritesGrow, NEW s, NEW tree, NEW seen, NEW started, TreeRight(s, tree, seen, started)
  PROVE  TreeRight(s, tree, seen, started)'
<1>1. seen \in 0..Here /\ started \in 0..now
  BY DEF TreeRight
<1>2. seen \in 0..Here' /\ started \in 0..now' /\ started \in Nat
  BY <1>1, GrownAre DEF WritesGrow
<1>3. ASSUME tree # NoTree, NEW f \in Files, Calm(f)'
      PROVE  Before(tree, f) = Body(f, seen)' \/ Foreign(s, f, started)'
  <2>1. Calm(f) /\ Body(f, seen)' = Body(f, seen) /\ (Foreign(s, f, started) => Foreign(s, f, started)')
    BY <1>1, <1>2, <1>3, Kept
  <2> QED BY <1>3, <2>1 DEF TreeRight
<1> QED BY <1>2, <1>3 DEF TreeRight, Before

LEMMA OwnersKept ==
  ASSUME WritesGrow, OwnersTold, \A f \in Files : owners'[f] = owners[f] \/ owners'[f] = NoOwner,
         \A f \in Files : owners[f].at \in Nat
  PROVE  OwnersTold'
<1> SUFFICES ASSUME NEW f \in Files, owners'[f].by # None
             PROVE  \E i \in Of(f)' : writes'[i].by = owners'[f].by /\ writes'[i].told >= owners'[f].at
  BY DEF OwnersTold
<1>1. owners'[f] = owners[f]
  BY DEF NoOwner
<1>2. PICK i \in Of(f) : writes[i].by = owners[f].by /\ writes[i].told >= owners[f].at
  BY <1>1 DEF OwnersTold
<1>3. i \in Of(f)' /\ writes'[i].by = writes[i].by /\ writes'[i].told >= writes[i].told
  BY Kept, GrownAre DEF WritesGrow, Same
<1>4. writes[i].told \in Nat /\ writes'[i].told \in Nat /\ owners[f].at \in Nat
  BY <1>3, GrownAre
<1> QED BY <1>1, <1>2, <1>3, <1>4

LEMMA WalkedKept ==
  ASSUME WritesGrow, NEW n \in 0..Here
  PROVE  (DOMAIN TreeOf(n))' = DOMAIN TreeOf(n)
<1>1. (DOMAIN TreeOf(n))' = {g \in Files : Body(g, n)' # Gone} /\ DOMAIN TreeOf(n) = {g \in Files : Body(g, n) # Gone}
  BY DEF TreeOf
<1> QED BY <1>1, Kept

(* Whoever is not told in which turn a snapshot is. *)
Snapping(s) == snap[s].at \in {"waiting", "storing", "stored"}
NewBlur(s) ==
  \A i \in DOMAIN writes' : i > Here /\ Snapping(s) =>
    /\ writes'[i].by = s => writes'[i].blurs
    /\ s \in Reading /\ writes'[i].at = Stamp(writes'[i].file, snap[s].seen) => writes'[i].blurs

LEMMA SnapKept ==
  ASSUME WritesGrow, InTime, NEW s \in Sessions, SnapRight(s), TurnShape(s), snap'[s] = snap[s], NewBlur(s),
         Opened(s)' = Opened(s), session'[s].begun = session[s].begun
  PROVE  SnapRight(s)'
<1>1. PICK n, tree, index : n = snap[s].seen /\ tree = snap[s].tree /\ index = snap[s].index
  OBVIOUS
<1>2. s \in Reading <=> snap[s].at \in {"storing", "stored"}
  BY DEF Reading
<1>3. (s \in Reading)' <=> s \in Reading
  BY DEF Reading
<1>4. s \in Reading => n \in session[s].begun..Here /\ n \in 0..Here /\ n \in session'[s].begun..Here'
  <2>1. session[s].begun \in Nat /\ Here \in Nat /\ Here' \in Nat /\ Here' >= Here
    BY GrownAre DEF TurnShape, WritesGrow
  <2> QED BY <1>1, <2>1 DEF SnapRight, SeenRight
<1>5. \A i \in DOMAIN writes' : i \in Nat /\ (i \in DOMAIN writes \/ i > Here)
  BY GrownAre
<1>6. Snapping(s) => Opened(s)' /\ \A i \in DOMAIN writes' : i > session'[s].begun /\ writes'[i].by = s => writes'[i].blurs
  BY <1>5 DEF SnapRight, Snapping, WritesGrow, Same, NewBlur
<1>7. s \in Reading => SeenRight(s)'
  <2> SUFFICES ASSUME s \in Reading, NEW f \in Files, NEW i \in Of(f)', i > n, writes'[i].at = Stamp(f, n)'
               PROVE  writes'[i].blurs
    BY <1>1, <1>4 DEF SeenRight
  <2>1. Stamp(f, n)' = Stamp(f, n) /\ i \in DOMAIN writes' /\ writes'[i].file = f
    BY <1>4, Kept, GrownAre
  <2>2. CASE i > Here
    BY <1>1, <1>2, <2>1, <2>2 DEF NewBlur, Snapping
  <2>3. CASE i \in DOMAIN writes
    <3>1. i \in Of(f) /\ writes'[i].at = writes[i].at /\ writes'[i].blurs = writes[i].blurs
      BY <2>1, <2>3 DEF WritesGrow, Same, Of
    <3> QED BY <1>1, <2>1, <3>1 DEF SnapRight, SeenRight
  <2> QED BY <1>5, <2>1, <2>2, <2>3
<1>8. s \in Reading /\ PickedRight(s) => PickedRight(s)'
  <2> SUFFICES ASSUME s \in Reading, PickedRight(s), NEW f \in Files \cap DOMAIN tree, Calm(f)',
                      ~(\E i \in Of(f)' : i > n)
               PROVE  tree[f] = Body(f, n)'
    BY <1>1 DEF PickedRight
  <2>1. Calm(f) /\ Body(f, n)' = Body(f, n) /\ ~(\E i \in Of(f) : i > n)
    BY <1>4, Kept
  <2> QED BY <1>1, <2>1 DEF PickedRight
<1>9. s \in Reading => Walked(s)' = Walked(s)
  <2>1. s \in Reading => (DOMAIN TreeOf(n))' = DOMAIN TreeOf(n)
    BY <1>4, WalkedKept
  <2>2. DOMAIN TreeOf(n) = Walked(s) /\ (DOMAIN TreeOf(n))' = Walked(s)'
    BY <1>1 DEF Walked
  <2> QED BY <2>1, <2>2
<1>10. s \in Reading /\ RightIndex(index, n) => RightIndex(index, n)'
  BY <1>4, IndexOfPastKept
<1>11. snap[s].at = "storing" =>
         /\ "index" \in DOMAIN snap'[s] /\ DOMAIN snap'[s].tree \subseteq Walked(s)'
         /\ PickedRight(s)' /\ RightIndex(index, n)'
  BY <1>1, <1>2, <1>8, <1>9, <1>10 DEF SnapRight
<1>12. snap[s].at = "stored" /\ snap[s].tree # NoTree => DOMAIN snap'[s].tree = Walked(s)' /\ PickedRight(s)'
  BY <1>2, <1>8, <1>9 DEF SnapRight
<1>13. snap'[s].index = index /\ snap'[s].seen = n
  BY <1>1
<1>14. s \in Reading => {"at", "seen", "objects", "tree"} \subseteq DOMAIN snap'[s]
  BY DEF SnapRight
<1>15. snap[s].at = "pruning" => index.at \in 0..now' /\ RightIndex(index, Here)'
  BY <1>1, IndexKept DEF SnapRight
<1> HIDE DEF NewBlur
<1> QED BY <1>3, <1>6, <1>7, <1>11, <1>12, <1>13, <1>14, <1>15 DEF SnapRight, Snapping

(* How a turn goes on, and a rewind that another step leaves what it was   *)
(* and does no harm.                                                       *)
TurnGoesOn(s) ==
  /\ session[s].turn \in Nat /\ session'[s].turn \in Nat /\ session'[s].turn >= session[s].turn
  /\ Opened(s)' =>
       \/ Opened(s) /\ session'[s].turn = session[s].turn /\ session'[s].started = session[s].started
       \/ session'[s].turn > session[s].turn /\ session'[s].started = now
Alike(q) ==
  /\ rewind'[q].at = rewind[q].at /\ rewind'[q].by = rewind[q].by /\ rewind'[q].to = rewind[q].to
  /\ rewind'[q].asked = rewind[q].asked /\ rewind'[q].tree = rewind[q].tree /\ rewind'[q].seen = rewind[q].seen
  /\ rewind'[q].started = rewind[q].started
  /\ DOMAIN rewind'[q] = DOMAIN rewind[q] /\ (rewind[q] = NoRewind <=> rewind'[q] = NoRewind)
Unharmed(q) ==
  \A f \in Files :
    \/ f \in rewind'[q].todo \cup rewind'[q].crossed
    \/ /\ f \notin rewind[q].todo \cup rewind[q].crossed
       /\ \A i \in Of(f)' : i > Here => writes'[i].by # rewind[q].by
    \/ Body(f, Here)' = Before(rewind[q].tree, f)

LEMMA RewindKept ==
  ASSUME WritesGrow, NEW q \in Requests, RewindRight(q), Alike(q), \A s \in Sessions : TurnGoesOn(s),
         Applying(q) /\ ~Opened(rewind[q].by) => changes'[rewind[q].by] = changes[rewind[q].by] /\ Unharmed(q)
  PROVE  RewindRight(q)'
<1>0. CASE rewind[q] = NoRewind
  BY <1>0 DEF RewindRight, Alike, Applying, NoRewind
<1>1. ASSUME rewind[q] # NoRewind PROVE RewindRight(q)'
  <2>1. PICK s, tree, seen, started, to :
          /\ s = rewind[q].by /\ tree = rewind[q].tree /\ seen = rewind[q].seen
          /\ started = rewind[q].started /\ to = rewind[q].to
    OBVIOUS
  <2>2. /\ (Applying(q)' <=> Applying(q)) /\ s \in Sessions /\ rewind'[q].by = s /\ rewind'[q].tree = tree
        /\ rewind'[q].seen = seen /\ rewind'[q].started = started /\ rewind'[q].to = to
        /\ rewind'[q].at \in {"asked", "applying"}
    BY <1>1, <2>1 DEF Applying, Alike, RewindRight
  <2>3. Applying(q) => TreeRight(s, tree, seen, started) /\ TreeRight(s, tree, seen, started)' /\ started \in 0..now
    BY <2>1, TreeKept DEF RewindRight, TreeRight
  <2>4. /\ rewind[q].asked \in Nat /\ to \in 1..rewind[q].asked /\ rewind[q].asked <= session[s].turn
        /\ session[s].turn = rewind[q].asked => ~Opened(s)
        /\ TurnGoesOn(s)
    BY <1>1, <2>1, <2>2 DEF RewindRight
  <2>5. /\ rewind'[q].asked = rewind[q].asked /\ rewind[q].asked <= session'[s].turn
        /\ session'[s].turn = rewind[q].asked => session[s].turn = rewind[q].asked /\ ~Opened(s) /\ ~Opened(s)'
    BY <2>4 DEF Alike, TurnGoesOn
  <2>6. Applying(q) /\ Opened(s)' => started <= session'[s].started
    <3>1. CASE Opened(s) /\ session'[s].started = session[s].started
      BY <2>1, <3>1 DEF RewindRight
    <3>2. CASE session'[s].started = now
      BY <2>3, <3>2
    <3> QED BY <2>4, <3>1, <3>2 DEF TurnGoesOn
  <2>7. ASSUME Applying(q), session'[s].turn = rewind[q].asked PROVE PutBack(q)'
    <3> SUFFICES ASSUME NEW f \in Files, f \in ListedSince(s, to)', f \notin rewind'[q].todo \cup rewind'[q].crossed
                 PROVE  Foreign(s, f, started)' \/ Body(f, Here)' = Before(tree, f)
      BY <2>2 DEF PutBack, Before
    <3>1. /\ f \in ListedSince(s, to) /\ Unharmed(q) /\ PutBack(q)
      BY <2>1, <2>5, <2>7 DEF ListedSince, RewindRight
    <3>2. started \in Nat /\ started <= now /\ now \in Nat
      BY <2>3, <2>7 DEF WritesGrow
    <3>3. CASE Body(f, Here)' = Before(tree, f)
      BY <3>3
    <3>4. CASE /\ f \notin rewind[q].todo \cup rewind[q].crossed
               /\ \A i \in Of(f)' : i > Here => writes'[i].by # s
      <4>1. Foreign(s, f, started) \/ Body(f, Here) = Before(tree, f)
        BY <2>1, <3>1, <3>4 DEF PutBack
      <4>2. Foreign(s, f, started) => Foreign(s, f, started)'
        BY <3>2, Kept
      <4>3. CASE \A i \in Of(f)' : i <= Here
        BY <4>1, <4>2, <4>3, FileStays
      <4>4. ASSUME NEW i \in Of(f)', ~(i <= Here) PROVE Foreign(s, f, started)'
        <5>1. i \in DOMAIN writes' /\ i > Here
          BY <4>4, GrownAre
        <5>2. writes'[i].at = now /\ writes'[i].by # s
          BY <3>4, <5>1 DEF WritesGrow
        <5>3. writes'[i].at >= started
          BY <3>2, <5>2
        <5> QED BY <4>4, <5>2, <5>3 DEF Foreign
      <4> QED BY <4>3, <4>4
    <3> QED BY <2>1, <3>1, <3>3, <3>4 DEF Unharmed
  <2>8. TreeRight(s, tree, seen, started)' =>
          TreeRight(rewind[q].by, rewind[q].tree, rewind[q].seen, rewind[q].started)'
    BY <2>2
  <2>9. Applying(q) => RewindFields \subseteq DOMAIN rewind'[q] /\ tree # NoTree
    BY <2>1 DEF RewindRight, Alike
  <2>10. session'[rewind'[q].by] = session'[s] /\ (Opened(rewind[q].by)' <=> Opened(s)')
    BY <2>2 DEF Opened
  <2> QED BY <2>2, <2>3, <2>4, <2>5, <2>6, <2>7, <2>8, <2>9, <2>10 DEF RewindRight
<1> QED BY <1>0, <1>1

(* Requests that a step has no part in.                                    *)
LEMMA RewindsStay ==
  ASSUME WritesGrow, UndoInv, NEW Q \in SUBSET Requests, \A q \in Q : rewind'[q] = rewind[q],
         \A s \in Sessions : TurnGoesOn(s),
         \A s \in Sessions : ~Opened(s) =>
           changes'[s] = changes[s] /\ \A i \in DOMAIN writes' : i > Here => writes'[i].by # s
  PROVE  \A q \in Q : RewindRight(q)'
<1> SUFFICES ASSUME NEW q \in Q PROVE RewindRight(q)'
  OBVIOUS
<1>1. q \in Requests /\ RewindRight(q) /\ Alike(q)
  BY DEF UndoInv, Alike
<1>2. ASSUME Applying(q), ~Opened(rewind[q].by)
      PROVE  changes'[rewind[q].by] = changes[rewind[q].by] /\ Unharmed(q)
  <2>1. rewind[q].by \in Sessions
    BY <1>1, <1>2 DEF RewindRight, Applying, NoRewind
  <2>2. \A f : \A i \in Of(f)' : i > Here => writes'[i].by # rewind[q].by
    BY <1>2, <2>1, GrownAre
  <2> QED BY <1>2, <2>1, <2>2 DEF Unharmed
<1> QED BY <1>1, <1>2, RewindKept

(* What a rewind takes back it has from a record.                          *)
FromRecords ==
  \A q \in Requests : Applying(q)' =>
    /\ rewind'[q].to \in Nat
    /\ \/ /\ Applying(q) /\ rewind[q].started \in Nat /\ rewind'[q].by = rewind[q].by
          /\ rewind'[q].to = rewind[q].to /\ rewind'[q].started = rewind[q].started
       \/ \E r \in store.records :
            r.by = rewind'[q].by /\ r.turn <= rewind'[q].to /\ r.started = rewind'[q].started

(* What a turn knows of its writes is not less later. *)
LEMMA NotedKept ==
  ASSUME WritesGrow, ListInv, NEW s \in Sessions, TurnNoted(s),
         session'[s].turn = session[s].turn, Opened(s)' => Opened(s) /\ session'[s].begun = session[s].begun,
         Opened(s)' => /\ session'[s].started = session[s].started /\ session'[s].baseline = session[s].baseline
                       /\ session[s].touched \subseteq session'[s].touched /\ (session[s].shell => session'[s].shell),
         call'[s] # NoCall => call'[s].write > session'[s].begun,
         \A i \in DOMAIN writes : Opened(s)' /\ writes[i].by = s /\ writes'[i].told # writes[i].told =>
           /\ writes[i].kind = "write" => writes[i].file \in session'[s].touched
           /\ writes[i].kind = "shell" => session'[s].shell,
         \A i \in DOMAIN writes' : i > Here /\ writes'[i].by = s =>
           writes'[i].turn = session[s].turn /\ (Opened(s)' => Noted(s, i)')
  PROVE  TurnNoted(s)'
<1>1. \A i \in DOMAIN writes' : i \in Nat /\ (i \in DOMAIN writes \/ i > Here)
  BY GrownAre
<1>2. \A i \in DOMAIN writes : Same(i)
  BY DEF WritesGrow
<1>3. session[s].turn \in Nat /\ session[s].begun \in Nat /\ now \in Nat
      /\ (Opened(s) => session[s].started <= now /\ session[s].started \in Nat /\ session[s].begun <= Here)
  BY DEF ListInv, Tracked, TurnShape, WritesGrow
<1>4. ASSUME NEW i \in DOMAIN writes', writes'[i].by = s PROVE writes'[i].turn <= session'[s].turn
  BY <1>1, <1>2, <1>3, <1>4 DEF TurnNoted, Same
<1>5. ASSUME Opened(s)', NEW i \in DOMAIN writes', i > session'[s].begun
      PROVE  writes'[i].at >= session'[s].started /\ (writes'[i].by = s => Noted(s, i)')
  <2>1. CASE i > Here
    BY <1>3, <1>5, <2>1 DEF WritesGrow
  <2>2. CASE i \in DOMAIN writes
    <3>1. Same(i) /\ writes[i].at >= session[s].started /\ (writes[i].by = s => Noted(s, i))
      BY <1>2, <1>5, <2>2 DEF TurnNoted
    <3> QED BY <1>5, <2>2, <3>1 DEF Same, Noted
  <2> QED BY <1>1, <2>1, <2>2
<1>6. ASSUME Opened(s)', NEW i \in DOMAIN writes', i <= session'[s].begun, writes'[i].by = s
      PROVE  writes'[i].turn < session'[s].turn
  <2>1. i \in DOMAIN writes /\ i <= session[s].begun
    <3>1. session'[s].begun = session[s].begun /\ session[s].begun <= Here /\ session[s].begun \in Nat /\ Here \in Nat
      BY <1>3, <1>6, GrownAre
    <3>2. ~(i > Here)
      BY <1>1, <1>6, <3>1
    <3> QED BY <1>1, <1>6, <3>1, <3>2
  <2> QED BY <1>2, <1>6, <2>1 DEF TurnNoted, Same
<1> QED BY <1>4, <1>5, <1>6 DEF TurnNoted

(* The lists of the turns that have ended. *)
LEMMA WholeKept ==
  ASSUME WritesGrow, NEW s \in Sessions, WholeRight(s), changes'[s] = changes[s],
         FromRecords, \A r \in store.records : r.started \in Nat,
         \A r \in store'.records : r \in store.records \/ r.by # s \/ \A t \in DOMAIN changes[s] : ~(r.turn <= t),
         \A r \in store.records : r.turn \in Nat, DOMAIN changes[s] \subseteq Nat,
         \A i \in DOMAIN writes : writes[i].by = s /\ writes'[i].told # writes[i].told =>
           writes[i].turn \notin DOMAIN changes[s]
  PROVE  WholeRight(s)'
<1>1. \A i \in DOMAIN writes' : i \in Nat /\ (i \in DOMAIN writes \/ i > Here)
  BY GrownAre
<1> SUFFICES ASSUME NEW i \in DOMAIN writes', NEW t, t = writes'[i].turn, writes'[i].by = s, writes'[i].kind \in Tools,
                    writes'[i].told > 0, t \in DOMAIN changes[s], changes[s][t].whole, NEW f, f = writes'[i].file,
                    f \in Files, f \notin changes[s][t].paths
             PROVE  Excused(s, f, t)'
  BY DEF WholeRight
<1>2. i \in DOMAIN writes
  BY <1>1 DEF WritesGrow
<1>3. Same(i) /\ writes[i].told > 0
  BY <1>2 DEF WritesGrow, Same
<1>4. Excused(s, f, t)
  BY <1>2, <1>3 DEF WholeRight, Same
<1>5. CASE ~Calm(f) \/ Unseen(s, f, t)
  <2>1. CASE ~Calm(f)
    BY <2>1, Kept DEF Excused
  <2>2. CASE Unseen(s, f, t)
    <3>1. PICK j \in Of(f) : writes[j].by = s /\ writes[j].turn = t /\ writes[j].kind = "shell" /\ writes[j].unknown
      BY <2>2 DEF Unseen
    <3>2. j \in Of(f)' /\ Same(j)
      BY Kept, GrownAre DEF WritesGrow
    <3> QED BY <3>1, <3>2 DEF Excused, Unseen, Same
  <2> QED BY <1>5, <2>1, <2>2
<1>6. CASE /\ \A r \in store.records : r.by = s /\ r.turn <= t => Foreign(s, f, r.started)
           /\ \A q \in Requests : Applying(q) /\ rewind[q].by = s /\ rewind[q].to <= t =>
                Foreign(s, f, rewind[q].started)
  <2>1. \A since \in Nat : Foreign(s, f, since) => Foreign(s, f, since)'
    BY Kept
  <2>2. ASSUME NEW r \in store'.records, r.by = s, r.turn <= t PROVE Foreign(s, f, r.started)'
    BY <1>6, <2>1, <2>2
  <2>3. ASSUME NEW q \in Requests, Applying(q)', rewind'[q].by = s, rewind'[q].to <= t
        PROVE  Foreign(s, f, rewind[q].started)'
    <3>0. rewind'[q].to \in Nat
      BY <2>3 DEF FromRecords
    <3>1. CASE /\ Applying(q) /\ rewind[q].started \in Nat /\ rewind'[q].by = rewind[q].by
               /\ rewind'[q].to = rewind[q].to /\ rewind'[q].started = rewind[q].started
      <4>1. PICK since \in Nat : since = rewind[q].started /\ Foreign(s, f, since)
        BY <1>6, <2>3, <3>1
      <4>2. Foreign(s, f, since)' /\ rewind'[q].started = since
        BY <2>1, <3>1, <4>1
      <4> QED BY <4>2
    <3>2. ASSUME NEW r \in store.records, r.by = s, r.turn <= rewind'[q].to, r.started = rewind'[q].started
          PROVE  Foreign(s, f, rewind[q].started)'
      <4>1. r.turn <= t
        <5>1. r.turn \in Nat /\ rewind'[q].to \in Nat /\ t \in Nat
          BY <3>0
        <5> QED BY <2>3, <3>2, <5>1
      <4>2. PICK since \in Nat : since = r.started /\ Foreign(s, f, since)
        BY <1>6, <3>2, <4>1
      <4> QED BY <2>1, <3>2, <4>2
    <3> QED BY <2>3, <3>1, <3>2 DEF FromRecords
  <2> QED BY <2>2, <2>3 DEF Excused
<1> QED BY <1>4, <1>5, <1>6 DEF Excused

LEMMA RecordsKept ==
  ASSUME WritesGrow, ListInv, RecordsRight, NoTree \notin store'.trees, store'.records \subseteq store.records,
         \A s \in Sessions : /\ session'[s].turn \in Nat /\ session'[s].turn >= session[s].turn
                             /\ Opened(s)' => session'[s].started = now
                                              \/ (Opened(s) /\ session'[s].started = session[s].started)
  PROVE  RecordsRight'
<1> SUFFICES ASSUME NEW r \in store'.records PROVE RecordRight(r)'
  BY DEF RecordsRight
<1>1. RecordRight(r)
  BY DEF RecordsRight
<1>2. PICK tree, seen, started, by : tree = r.tree /\ seen = r.seen /\ started = r.started /\ by = r.by
  OBVIOUS
<1>3. TreeRight(by, tree, seen, started)' /\ started \in 0..now /\ now \in Nat
  BY <1>1, <1>2, TreeKept DEF RecordRight, TreeRight, WritesGrow
<1>4. ASSUME by \in Sessions PROVE r.turn <= session'[by].turn
  BY <1>1, <1>2, <1>4 DEF RecordRight, ListInv, Tracked, TurnShape
<1>5. ASSUME by \in Sessions, Opened(by)' PROVE started <= session'[by].started
  BY <1>1, <1>2, <1>3, <1>5 DEF RecordRight
<1> QED BY <1>1, <1>2, <1>3, <1>4, <1>5 DEF RecordRight

LEMMA RecordsAre ==
  ASSUME UndoInv, NEW r \in store.records
  PROVE  r.turn \in Nat /\ r.started \in Nat /\ r.started <= now
<1>1. RecordRight(r) /\ store.index.at \in 0..now
  BY DEF UndoInv, RecordsRight, IndexRight
<1> QED BY <1>1 DEF RecordRight, TreeRight

LEMMA RewindsAre ==
  ASSUME UndoInv, NEW q \in Requests, Applying(q)
  PROVE  /\ rewind[q].started \in Nat /\ rewind[q].started <= now /\ rewind[q].to \in Nat
         /\ rewind[q].to \in 1..rewind[q].asked /\ rewind[q].asked \in Nat /\ rewind[q].by \in Sessions
BY DEF UndoInv, RewindRight, TreeRight, NoRewind, Applying

LEMMA FromRecordsStay ==
  ASSUME UndoInv, \A q \in Requests : rewind'[q] = rewind[q] \/ ~Applying(q)' \/ Alike(q)
  PROVE  FromRecords
BY RewindsAre DEF FromRecords, Alike, Applying

LEMMA ChangesAre ==
  ASSUME ListInv, NEW s \in Sessions
  PROVE  /\ IsSeq(changes[s]) /\ Len(changes[s]) \in Nat /\ DOMAIN changes[s] = 1..Len(changes[s])
         /\ session[s].turn \in Nat /\ session[s].begun \in Nat
         /\ Len(changes[s]) + (IF Opened(s) THEN 1 ELSE 0) = session[s].turn
         /\ DOMAIN changes[s] \subseteq Nat
         /\ Opened(s) => session[s].turn \notin DOMAIN changes[s] /\ \A t \in DOMAIN changes[s] : ~(session[s].turn <= t)
<1>1. /\ IsSeq(changes[s]) /\ session[s].turn \in Nat /\ session[s].begun \in Nat
      /\ Len(changes[s]) + (IF Opened(s) THEN 1 ELSE 0) = session[s].turn
  BY DEF ListInv, Tracked, TurnShape, TurnsListed
<1>2. Len(changes[s]) \in Nat /\ DOMAIN changes[s] = 1..Len(changes[s])
  BY <1>1, LenProperties DEF IsSeq
<1>3. Opened(s) => session[s].turn = Len(changes[s]) + 1
  BY <1>1, <1>2
<1> DEFINE n == Len(changes[s])
<1>4. n \in Nat /\ DOMAIN changes[s] = 1..n /\ (Opened(s) => session[s].turn = n + 1)
  BY <1>2, <1>3
<1> HIDE DEF n
<1>5. DOMAIN changes[s] \subseteq Nat
  BY <1>4
<1>6. Opened(s) => \A t \in DOMAIN changes[s] : ~(session[s].turn <= t)
  BY <1>4
<1>7. Opened(s) => session[s].turn \notin DOMAIN changes[s]
  BY <1>4
<1> QED BY <1>1, <1>2, <1>5, <1>6, <1>7

(* The three ways a step has with the writes. *)
LEMMA QuietGrows ==
  ASSUME ListInv, writes' = writes, now' \in {now, now + 1}
  PROVE  WritesGrow /\ Here' = Here
<1>1. /\ Here \in Nat /\ DOMAIN writes = 1..Here /\ now \in Nat /\ Here' = Here
  BY HereIs DEF Here
<1>2. WritesShape /\ WritesShape'
  BY DEF ListInv, ListShape, WritesShape, IsSeq
<1>3. \A i \in DOMAIN writes : Same(i)
  BY <1>2 DEF Same, WritesShape
<1> QED BY <1>1, <1>2, <1>3 DEF WritesGrow

LEMMA WrittenGrows ==
  ASSUME ListInv, now' = now, NEW f, NEW by, NEW kind, NEW body, Written(f, by, kind, body)
  PROVE  /\ WritesGrow /\ Here' = Here + 1 /\ Here \in Nat
         /\ \A i \in DOMAIN writes : writes'[i] = writes[i]
         /\ \A i \in DOMAIN writes' : i > Here =>
              /\ i = Here + 1 /\ writes'[i].file = f /\ writes'[i].by = by /\ writes'[i].kind = kind
              /\ writes'[i].at = now /\ writes'[i].told = 0 /\ writes'[i].body = body
              /\ by \in Sessions => writes'[i].turn = session[by].turn
              /\ writes'[i].blurs = Blurs(f, by, kind)
              /\ writes'[i].unknown = (by \in Sessions /\ body = Gone /\ f \notin session[by].baseline)
<1>1. WritesShape /\ now \in Nat /\ \A s \in Sessions : session[s].turn \in Nat
  BY HereIs DEF ListInv, ListShape, Tracked, TurnShape
<1>2. /\ WritesShape'
      /\ Here \in Nat /\ Here' = Here + 1 /\ DOMAIN writes = 1..Here /\ DOMAIN writes' = 1..(Here + 1)
      /\ \A i \in DOMAIN writes : writes'[i] = writes[i]
      /\ writes'[Here + 1].file = f /\ writes'[Here + 1].by = by /\ writes'[Here + 1].kind = kind
      /\ writes'[Here + 1].at = now /\ writes'[Here + 1].told = 0 /\ writes'[Here + 1].body = body
      /\ writes'[Here + 1].turn = (IF by \in Sessions THEN session[by].turn ELSE 0)
      /\ writes'[Here + 1].blurs = Blurs(f, by, kind)
      /\ writes'[Here + 1].unknown = (by \in Sessions /\ body = Gone /\ f \notin session[by].baseline)
  BY <1>1, WrittenAppends
<1>3. \A i \in DOMAIN writes' : i > Here => i = Here + 1
  BY <1>2
<1>4. writes'[Here + 1].turn \in Nat
  BY <1>1, <1>2
<1>5. \A i \in DOMAIN writes : Same(i)
  BY <1>1, <1>2 DEF Same, WritesShape
<1>6. WritesGrow
  BY <1>1, <1>2, <1>3, <1>4, <1>5 DEF WritesGrow
<1> QED BY <1>2, <1>3, <1>6

(* A session that had no part in a step. *)
LEMMA Bystander ==
  ASSUME WritesGrow, ListInv, UndoInv, NEW s \in Sessions,
         session'[s] = session[s], changes'[s] = changes[s], call'[s] = call[s], snap'[s] = snap[s], FromRecords,
         \A i \in DOMAIN writes : writes[i].by = s => writes'[i].told = writes[i].told,
         \A i \in DOMAIN writes' : i > Here => writes'[i].by # s, NewBlur(s),
         \A r \in store'.records : r \in store.records \/ r.by # s
  PROVE  SessionRight(s)'
<1>1. SessionRight(s) /\ TurnShape(s) /\ Opened(s)' = Opened(s)
  BY DEF UndoInv, ListInv, Tracked, Opened
<1>2. SnapRight(s)'
  BY <1>1, SnapKept DEF SessionRight, UndoInv
<1>4. TurnNoted(s)'
  <2>1. call'[s] # NoCall => call'[s].write > session'[s].begun
    BY <1>1 DEF SessionRight, TurnNoted
  <2> QED BY <1>1, <2>1, NotedKept DEF SessionRight
<1>5. WholeRight(s)'
  <2>1. \A r \in store.records : r.turn \in Nat /\ r.started \in Nat
    BY RecordsAre
  <2>2. DOMAIN changes[s] \subseteq Nat
    BY ChangesAre
  <2> QED BY <1>1, <2>1, <2>2, WholeKept DEF SessionRight
<1> QED BY <1>2, <1>4, <1>5 DEF SessionRight

(* And the requests, when no turn begins or ends.                          *)
LEMMA IdleRewinds ==
  ASSUME WritesGrow, ListInv, UndoInv, NEW Q \in SUBSET Requests, \A q \in Q : rewind'[q] = rewind[q],
         UNCHANGED <<session, changes>>,
         \A s \in Sessions : ~Opened(s) => \A i \in DOMAIN writes' : i > Here => writes'[i].by # s
  PROVE  \A q \in Q : RewindRight(q)'
<1>1. ASSUME NEW s \in Sessions PROVE TurnGoesOn(s)
  <2>1. session[s].turn \in Nat /\ session'[s] = session[s]
    BY ChangesAre
  <2> QED BY <2>1 DEF TurnGoesOn, Opened
<1> QED BY <1>1, RewindsStay

(* The steps of a snapshot. *)
LEMMA OfSnapshots ==
  ASSUME ListInv, UndoInv, NEW s \in Sessions, UNCHANGED <<writes, now, session, call, changes, owners, rewind>>,
         DOMAIN snap' = Sessions, \A o \in Sessions \ {s} : snap'[o] = snap[o],
         SnapRight(s)', IndexRight', RecordsRight',
         \A r \in store'.records : r \in store.records \/ (r.by = s /\ r.turn = session[s].turn /\ Opened(s))
  PROVE  UndoInv'
<1>1. WritesGrow /\ Here' = Here
  BY QuietGrows
<1>2. \A i \in DOMAIN writes' : ~(i > Here) /\ i \in DOMAIN writes
  BY <1>1, GrownAre
<1>0. FromRecords
  BY FromRecordsStay
<1>3. ASSUME NEW o \in Sessions \ {s} PROVE SessionRight(o)'
  <2>1. NewBlur(o)
    BY <1>2 DEF NewBlur
  <2> QED BY <1>0, <1>1, <1>2, <2>1, Bystander
<1>4. SessionRight(s)'
  <2>1. SessionRight(s) /\ Opened(s)' = Opened(s)
    BY DEF UndoInv, Opened
  <2>2. TurnNoted(s)'
    <3>1. call'[s] # NoCall => call'[s].write > session'[s].begun
      BY <2>1 DEF SessionRight, TurnNoted
    <3> QED BY <1>1, <1>2, <2>1, <3>1, NotedKept DEF SessionRight
  <2>3. WholeRight(s)'
    <3>1. \A r \in store.records : r.turn \in Nat /\ r.started \in Nat
      BY RecordsAre
    <3>2. DOMAIN changes[s] \subseteq Nat
      BY ChangesAre
    <3>3. \A r \in store'.records : r \in store.records \/ r.by # s \/ \A t \in DOMAIN changes[s] : ~(r.turn <= t)
      <4>1. Opened(s) => \A t \in DOMAIN changes[s] : ~(session[s].turn <= t)
        BY ChangesAre
      <4> QED BY <4>1
    <3> QED BY <1>0, <1>1, <1>2, <2>1, <3>1, <3>2, <3>3, WholeKept DEF SessionRight
  <2> QED BY <2>2, <2>3 DEF SessionRight
<1>5. InTime' /\ OwnersTold'
  BY <1>1, TimeKept, OwnersKept DEF UndoInv, ListInv, ListShape
<1>6. \A q \in Requests : RewindRight(q)'
  BY <1>1, <1>2, IdleRewinds
<1> QED BY <1>3, <1>4, <1>5, <1>6 DEF UndoInv

LEMMA QuietStore ==
  ASSUME ListInv, UndoInv, UNCHANGED <<writes, now, session>>
  PROVE  /\ store'.index = store.index => IndexRight'
         /\ store'.records \subseteq store.records /\ NoTree \notin store'.trees => RecordsRight'
<1>1. WritesGrow
  BY QuietGrows
<1>2. store'.index = store.index => IndexRight'
  BY <1>1, StoreIndexKept DEF UndoInv, IndexRight
<1>3. \A s \in Sessions : session[s].turn \in Nat
  BY ChangesAre
<1>4. ASSUME store'.records \subseteq store.records, NoTree \notin store'.trees PROVE RecordsRight'
  BY <1>1, <1>3, <1>4, RecordsKept DEF UndoInv, Opened
<1> QED BY <1>2, <1>4

LEMMA ListFilesUndo ==
  ASSUME ListInv, UndoInv, NEW s \in Sessions, ListFiles(s) \/ TooLarge(s)
  PROVE  UndoInv'
<1>1. /\ UNCHANGED <<writes, now, session, call, changes, owners, rewind, store>> /\ snap[s].at = "waiting"
      /\ DOMAIN snap' = Sessions /\ \A o \in Sessions \ {s} : snap'[o] = snap[o]
      /\ \/ snap'[s] = [at |-> "storing", seen |-> Here, objects |-> store.objects, index |-> store.index, tree |-> <<>>]
         \/ snap'[s] = [at |-> "stored", seen |-> Here, objects |-> {}, tree |-> NoTree]
  BY DEF ListFiles, TooLarge, tracker, UndoInv
<1>2. WritesGrow /\ Here' = Here
  BY <1>1, QuietGrows
<1>3. IndexRight' /\ RecordsRight'
  BY <1>1, QuietStore DEF UndoInv, RecordsRight
<1>4. SnapRight(s)'
  <2>1. Opened(s)' /\ \A i \in DOMAIN writes' : i > session'[s].begun /\ writes'[i].by = s => writes'[i].blurs
    BY <1>1 DEF UndoInv, SessionRight, SnapRight, Opened
  <2>2. /\ snap'[s].seen = Here /\ {"at", "seen", "objects", "tree"} \subseteq DOMAIN snap'[s]
        /\ snap'[s].at \in {"storing", "stored"}
        /\ snap'[s].at = "storing" => "index" \in DOMAIN snap'[s] /\ snap'[s].index = store.index /\ DOMAIN snap'[s].tree = {}
        /\ snap'[s].at = "stored" => snap'[s].tree = NoTree
    BY <1>1
  <2>3. SeenRight(s)'
    <3>1. Here \in session[s].begun..Here
      <4>1. Opened(s)
        BY <1>1, <2>1 DEF Opened
      <4>2. session[s].begun \in Nat /\ session[s].begun <= Here /\ Here \in Nat
        BY <4>1, HereIs DEF ListInv, Tracked, TurnShape
      <4> QED BY <4>2
    <3>2. \A f \in Files : \A i \in Of(f)' : ~(i > Here)
      BY <1>2, GrownAre
    <3> QED BY <1>1, <1>2, <2>2, <3>1, <3>2 DEF SeenRight
  <2>4. snap'[s].at = "storing" => PickedRight(s)' /\ DOMAIN snap'[s].tree \subseteq Walked(s)'
    BY <2>2 DEF PickedRight
  <2>5. snap'[s].at = "storing" => RightIndex(snap[s].index, snap[s].seen)'
    <3>1. RightIndex(store.index, Here)'
      BY <1>3 DEF IndexRight
    <3> QED BY <1>1, <1>2, <2>2, <3>1
  <2> QED BY <2>1, <2>2, <2>3, <2>4, <2>5 DEF SnapRight, Reading
<1> QED BY <1>1, <1>3, <1>4, OfSnapshots

(* A snapshot that is over, one way or the other. *)
LEMMA OverUndo ==
  ASSUME ListInv, UndoInv, StoreInv, NEW s \in Sessions, SnapshotFails(s) \/ Prune(s)
  PROVE  UndoInv'
<1>1. /\ UNCHANGED <<writes, now, session, call, changes, owners, rewind>>
      /\ DOMAIN snap' = Sessions /\ \A o \in Sessions \ {s} : snap'[o] = snap[o]
      /\ snap'[s].at \in {"failed", "done"}
  BY DEF SnapshotFails, Prune, tracker, UndoInv
<1>2. /\ store'.index = store.index \/ (snap[s].at = "pruning" /\ store'.index = snap[s].index)
      /\ store'.records \subseteq store.records /\ store'.trees \subseteq store.trees
  BY DEF SnapshotFails, Prune, Indexes, Without, StoreInv, StoreShape
<1>3. IndexRight' /\ RecordsRight'
  <2>1. PICK index : store'.index = index /\ index.at \in 0..now /\ RightIndex(index, Here)
    BY <1>2 DEF UndoInv, IndexRight, SessionRight, SnapRight
  <2>2. WritesGrow
    BY <1>1, QuietGrows
  <2>3. IndexRight'
    BY <2>1, <2>2, StoreIndexKept DEF UndoInv
  <2> QED BY <1>1, <1>2, <2>3, QuietStore DEF UndoInv, RecordsRight
<1>4. SnapRight(s)'
  BY <1>1 DEF SnapRight, Reading
<1> QED BY <1>1, <1>2, <1>3, <1>4, OfSnapshots

LEMMA StoreFileUndo ==
  ASSUME ListInv, UndoInv, StoreInv, NEW s \in Sessions, NEW f \in Files, StoreFile(s, f)
  PROVE  UndoInv'
<1>1. /\ UNCHANGED <<writes, now, session, call, changes, owners, rewind>> /\ snap[s].at = "storing"
      /\ s \in Reading /\ f \in Walked(s)
  BY DEF StoreFile, tracker, Reading
<1>2. SnapRight(s) /\ SeenRight(s) /\ PickedRight(s) /\ RightIndex(snap[s].index, snap[s].seen)
      /\ {"at", "seen", "objects", "index", "tree"} \subseteq DOMAIN snap[s] /\ DOMAIN snap[s].tree \subseteq Walked(s)
  BY <1>1 DEF UndoInv, SessionRight, SnapRight
<1>3. PICK body : /\ body = IF Known(s, f) THEN snap[s].index.files[f].body ELSE Body(f, Here)
                  /\ Picked(s, f, body)
  BY DEF StoreFile
<1> DEFINE tree == [g \in {f} \cup DOMAIN snap[s].tree |-> IF g = f THEN body ELSE snap[s].tree[g]]
<1>4. /\ snap' = [snap EXCEPT ![s].tree = tree] /\ DOMAIN tree = {f} \cup DOMAIN snap[s].tree
      /\ tree[f] = body /\ \A g \in DOMAIN tree : g # f => tree[g] = snap[s].tree[g] /\ g \in DOMAIN snap[s].tree
  BY <1>3 DEF Picked
<1> HIDE DEF tree
<1>5. /\ DOMAIN snap' = Sessions /\ \A o \in Sessions \ {s} : snap'[o] = snap[o]
      /\ snap'[s].at = "storing" /\ snap'[s].seen = snap[s].seen /\ snap'[s].index = snap[s].index
      /\ snap'[s].tree = tree /\ DOMAIN snap'[s] = DOMAIN snap[s]
  BY <1>1, <1>2, <1>4 DEF UndoInv
<1>6. store'.index = store.index /\ store'.records = store.records /\ store'.trees = store.trees
  BY DEF StoreFile, StoreInv, StoreShape
<1>7. WritesGrow /\ Here' = Here
  BY <1>1, QuietGrows
<1>8. IndexRight' /\ RecordsRight'
  BY <1>1, <1>6, QuietStore DEF UndoInv, RecordsRight
<1>9. PICK n : n = snap[s].seen /\ n \in 0..Here /\ n \in Nat
  <2>1. session[s].begun \in Nat /\ Here \in Nat /\ snap[s].seen \in session[s].begun..Here
    BY <1>2, HereIs, ChangesAre DEF SeenRight
  <2> QED BY <2>1
<1>10. /\ \A g : Body(g, n)' = Body(g, n) /\ Stamp(g, n)' = Stamp(g, n)
       /\ \A g : Calm(g)' => Calm(g)
       /\ \A g : \A i \in Of(g) : i \in Of(g)'
       /\ \A g : \A i \in Of(g)' : i \in Of(g)
  BY <1>7, <1>9, Kept, GrownAre
<1>11. Calm(f) => body = Body(f, n) \/ \E i \in Of(f) : i > n
  <2>1. CASE Known(s, f)
    BY <1>2, <1>3, <1>9, <2>1 DEF Known, RightIndex
  <2>2. CASE ~Known(s, f) /\ \A i \in Of(f) : ~(i > n)
    <3>1. Body(f, Here) = Body(f, n)
      <4>1. n <= Here /\ Here \in Nat /\ WritesShape
        BY <1>9, HereIs DEF ListInv, ListShape
      <4> QED BY <1>9, <2>2, <4>1, SameBetween
    <3> QED BY <1>3, <2>2, <3>1
  <2> QED BY <2>1, <2>2
<1>12. PickedRight(s)'
  <2> SUFFICES ASSUME NEW g \in Files, g \in DOMAIN tree, Calm(g)', ~(\E i \in Of(g)' : i > n)
               PROVE  tree[g] = Body(g, n)'
    BY <1>5, <1>9 DEF PickedRight
  <2>1. Calm(g) /\ ~(\E i \in Of(g) : i > n) /\ Body(g, n)' = Body(g, n)
    BY <1>10
  <2> QED BY <1>2, <1>4, <1>9, <1>11, <2>1 DEF PickedRight
<1>13. SnapRight(s)'
  <2>1. Opened(s)' /\ \A i \in DOMAIN writes' : i > session'[s].begun /\ writes'[i].by = s => writes'[i].blurs
    BY <1>1, <1>2 DEF SnapRight, Opened
  <2>2. SeenRight(s)'
    <3>1. n \in session'[s].begun..Here'
      BY <1>1, <1>2, <1>7, <1>9 DEF SeenRight
    <3>2. \A g \in Files : \A i \in Of(g)' : i > n /\ writes'[i].at = Stamp(g, n)' => writes'[i].blurs
      BY <1>1, <1>2, <1>9, <1>10 DEF SeenRight
    <3> QED BY <1>5, <1>9, <3>1, <3>2 DEF SeenRight
  <2>3. Walked(s)' = Walked(s)
    <3>1. (DOMAIN TreeOf(n))' = DOMAIN TreeOf(n)
      BY <1>7, <1>9, WalkedKept
    <3> QED BY <1>5, <1>9, <3>1 DEF Walked
  <2>4. RightIndex(snap[s].index, snap[s].seen)'
    <3>1. PICK index : index = snap[s].index
      OBVIOUS
    <3>2. RightIndex(index, n)'
      BY <1>2, <1>7, <1>9, <3>1, IndexOfPastKept
    <3> QED BY <1>5, <1>9, <3>1, <3>2
  <2> QED BY <1>1, <1>2, <1>4, <1>5, <1>12, <2>1, <2>2, <2>3, <2>4 DEF SnapRight
<1> QED BY <1>1, <1>5, <1>6, <1>8, <1>13, OfSnapshots

(* The tree is stored: the index is right by the stamps the project had    *)
(* when it was listed, since what was written later has later ones or      *)
(* blurs.                                                                  *)
LEMMA StoreTreeUndo ==
  ASSUME ListInv, UndoInv, StoreInv, RewindAssumption, NEW s \in Sessions, StoreTree(s)
  PROVE  UndoInv'
<1> DEFINE tree == snap[s].tree
           n == snap[s].seen
           files == [f \in Walked(s) |-> [stamp |-> Stamp(f, n), body |-> tree[f]]]
<1>1. /\ UNCHANGED <<writes, now, session, call, changes, owners, rewind>> /\ snap[s].at = "storing"
      /\ DOMAIN tree = Walked(s) /\ s \in Reading /\ snap' = [snap EXCEPT ![s].at = "stored"]
  BY DEF StoreTree, tracker, Reading
<1>2. SnapRight(s) /\ SeenRight(s) /\ PickedRight(s) /\ {"at", "seen", "objects", "index", "tree"} \subseteq DOMAIN snap[s]
  BY <1>1 DEF UndoInv, SessionRight, SnapRight
<1>3. /\ store'.index = [at |-> now, files |-> files] /\ store'.records = store.records
      /\ store'.trees = store.trees \cup {tree}
  BY DEF StoreTree, StoreInv, StoreShape
<1>4. /\ DOMAIN snap' = Sessions /\ \A o \in Sessions \ {s} : snap'[o] = snap[o]
      /\ snap'[s].at = "stored" /\ snap'[s].seen = n /\ snap'[s].tree = tree /\ DOMAIN snap'[s] = DOMAIN snap[s]
  BY <1>1, <1>2 DEF UndoInv
<1>5. WritesGrow /\ Here' = Here
  BY <1>1, QuietGrows
<1>6. n \in 0..Here /\ n \in Nat /\ n <= Here /\ Here \in Nat /\ WritesShape /\ InTime
  <2>1. session[s].begun \in Nat /\ Here \in Nat /\ snap[s].seen \in session[s].begun..Here
    BY <1>2, HereIs, ChangesAre DEF SeenRight
  <2>2. WritesShape /\ InTime
    BY DEF ListInv, ListShape, UndoInv
  <2> QED BY <2>1, <2>2
<1>7. ASSUME NEW f \in Files, f \in DOMAIN tree, Calm(f), Stamp(f, n) = Stamp(f, Here)
      PROVE  tree[f] = Body(f, Here)
  <2>1. ASSUME NEW i \in Of(f), i > n PROVE FALSE
    <3>1. i <= Here /\ writes[i].at \in Nat
      BY <1>6, WritesAre
    <3>2. Stamp(f, n) <= writes[i].at /\ writes[i].at <= Stamp(f, Here) /\ Stamp(f, n) \in Nat /\ Stamp(f, Here) \in Nat
      BY <1>6, <2>1, <3>1, StampsRise
    <3>3. writes[i].at = Stamp(f, n)
      BY <1>7, <3>1, <3>2
    <3> QED BY <1>2, <1>7, <2>1, <3>3 DEF SeenRight, Calm
  <2>2. Body(f, Here) = Body(f, n)
    BY <1>6, <2>1, SameBetween
  <2> QED BY <1>2, <1>7, <2>1, <2>2 DEF PickedRight
<1>8. IndexRight'
  <2>1. RightIndex([at |-> now, files |-> files], Here)
    BY <1>1, <1>7 DEF RightIndex
  <2> HIDE DEF files, n, tree
  <2>2. RightIndex(store.index, Here)'
    <3>1. PICK index : index = [at |-> now, files |-> files]
      OBVIOUS
    <3>2. PICK m : m = Here /\ m \in 0..Here
      BY <1>6
    <3>3. RightIndex(index, m)'
      BY <1>5, <2>1, <3>1, <3>2, IndexOfPastKept
    <3> QED BY <1>3, <1>5, <3>1, <3>2, <3>3
  <2>3. store'.index.at \in 0..now'
    <3>1. store'.index.at = now /\ now' = now /\ now \in Nat
      BY <1>1, <1>3, HereIs
    <3> QED BY <3>1
  <2> QED BY <2>2, <2>3 DEF IndexRight
<1>9. RecordsRight'
  <2>1. DOMAIN tree \subseteq Files /\ DOMAIN NoTree = {"large"}
    BY <1>1 DEF Walked, TreeOf, NoTree
  <2>2. tree # NoTree
    BY <2>1 DEF RewindAssumption
  <2> QED BY <1>1, <1>3, <2>2, QuietStore DEF UndoInv, RecordsRight
<1>10. SnapRight(s)'
  <2> HIDE DEF tree, n
  <2>1. Opened(s)' /\ \A i \in DOMAIN writes' : i > session'[s].begun /\ writes'[i].by = s => writes'[i].blurs
    BY <1>1, <1>2 DEF SnapRight, Opened
  <2>2. PICK m \in 0..Here : m = n
    BY <1>6
  <2>3. /\ \A g : Body(g, m)' = Body(g, m) /\ Stamp(g, m)' = Stamp(g, m)
        /\ \A g : Calm(g)' => Calm(g)
        /\ \A g : \A i \in Of(g) : i \in Of(g)'
        /\ \A g : \A i \in Of(g)' : i \in Of(g)
    BY <1>5, Kept, GrownAre
  <2>4. SeenRight(s)'
    <3>1. m \in session'[s].begun..Here'
      BY <1>1, <1>2, <1>5, <2>2 DEF SeenRight, n
    <3>2. \A g \in Files : \A i \in Of(g)' : i > m /\ writes'[i].at = Stamp(g, m)' => writes'[i].blurs
      BY <1>1, <1>2, <2>2, <2>3 DEF SeenRight, n
    <3> QED BY <1>4, <2>2, <3>1, <3>2 DEF SeenRight
  <2>5. Walked(s)' = Walked(s)
    <3>1. (DOMAIN TreeOf(m))' = DOMAIN TreeOf(m)
      BY <1>5, WalkedKept
    <3> QED BY <1>4, <2>2, <3>1 DEF Walked, n
  <2>6. PickedRight(s)'
    <3> SUFFICES ASSUME NEW g \in Files, g \in DOMAIN tree, Calm(g)', ~(\E i \in Of(g)' : i > m)
                 PROVE  tree[g] = Body(g, m)'
      BY <1>4, <2>2 DEF PickedRight
    <3>1. Calm(g) /\ ~(\E i \in Of(g) : i > m) /\ Body(g, m)' = Body(g, m)
      BY <2>3
    <3> QED BY <1>2, <2>2, <3>1 DEF PickedRight, tree, n
  <2> QED BY <1>1, <1>2, <1>4, <2>1, <2>4, <2>5, <2>6 DEF SnapRight
<1> HIDE DEF tree, n, files
<1> QED BY <1>1, <1>3, <1>4, <1>8, <1>9, <1>10, OfSnapshots

(* A record has the tree of the project as its turn found it: its own      *)
(* tools waited for it.                                                    *)
LEMMA WriteRecordUndo ==
  ASSUME ListInv, UndoInv, StoreInv, NEW s \in Sessions, WriteRecord(s)
  PROVE  UndoInv'
<1> DEFINE tree == snap[s].tree
           n == snap[s].seen
           started == session[s].started
<1>1. PICK taken : store' = [store EXCEPT !.records = @ \cup
                     {[by |-> s, turn |-> session[s].turn, taken |-> taken, tree |-> tree, seen |-> n, started |-> started]}]
  BY DEF WriteRecord
<1> DEFINE new == [by |-> s, turn |-> session[s].turn, taken |-> taken, tree |-> tree, seen |-> n, started |-> started]
<1>2. /\ UNCHANGED <<writes, now, session, call, changes, owners, rewind>> /\ snap[s].at = "stored" /\ s \in Reading
      /\ DOMAIN snap' = Sessions /\ \A o \in Sessions \ {s} : snap'[o] = snap[o]
      /\ snap'[s].at = "pruning" /\ snap'[s].index = store.index
  BY DEF WriteRecord, tracker, Reading, UndoInv
<1>3. /\ store'.records = store.records \cup {new} /\ store'.trees = store.trees /\ store'.index = store.index
  BY <1>1 DEF StoreInv, StoreShape
<1>4. /\ SnapRight(s) /\ SeenRight(s) /\ Opened(s) /\ TurnNoted(s)
      /\ \A i \in DOMAIN writes : i > session[s].begun /\ writes[i].by = s => writes[i].blurs
      /\ tree # NoTree => DOMAIN tree = Walked(s) /\ PickedRight(s)
  BY <1>2 DEF UndoInv, SessionRight, SnapRight
<1>5. /\ session[s].begun \in Nat /\ Here \in Nat /\ n \in session[s].begun..Here /\ started \in 1..now /\ started \in Nat
      /\ session[s].turn \in Nat /\ now \in Nat
  BY <1>4, HereIs DEF SeenRight, ListInv, Tracked, TurnShape
<1>6. n \in 0..Here /\ n \in Nat /\ n >= session[s].begun
  BY <1>5
<1>7. ASSUME tree # NoTree, NEW f \in Files, Calm(f) PROVE Before(tree, f) = Body(f, n) \/ Foreign(s, f, started)
  <2>1. CASE f \in DOMAIN tree /\ \A i \in Of(f) : ~(i > n)
    BY <1>4, <1>7, <2>1 DEF PickedRight, Before
  <2>2. CASE f \notin DOMAIN tree
    BY <1>4, <1>7, <2>2 DEF Walked, TreeOf, Before
  <2>3. ASSUME NEW i \in Of(f), i > n PROVE Foreign(s, f, started)
    <3>1. i \in DOMAIN writes /\ i \in Nat /\ i > session[s].begun
      BY <1>6, <2>3, <1>5, WritesAre DEF ListInv, ListShape
    <3>2. writes[i].by # s /\ writes[i].at >= started
      BY <1>4, <1>7, <2>3, <3>1 DEF Calm, TurnNoted
    <3> QED BY <3>2, <2>3 DEF Foreign
  <2> QED BY <2>1, <2>2, <2>3
<1>8. TreeRight(s, tree, n, started)
  <2>1. started \in 0..now
    BY <1>5
  <2> QED BY <1>6, <1>7, <2>1 DEF TreeRight
<1>9. WritesGrow
  BY <1>2, QuietGrows
<1>10. RecordsRight'
  <2>1. ASSUME NEW r \in store.records PROVE RecordRight(r)'
    <3>1. RecordRight(r)
      BY DEF UndoInv, RecordsRight
    <3>2. PICK by, t, m, since : by = r.by /\ t = r.tree /\ m = r.seen /\ since = r.started
      OBVIOUS
    <3>3. TreeRight(by, t, m, since)'
      BY <1>9, <3>1, <3>2, TreeKept DEF RecordRight
    <3> QED BY <1>2, <3>1, <3>2, <3>3 DEF RecordRight, Opened
  <2>2. ASSUME NEW r, r = new PROVE RecordRight(r)'
    <3> HIDE DEF tree, n, started
    <3>1. r.by = s /\ r.turn = session[s].turn /\ r.tree = tree /\ r.seen = n /\ r.started = started
      BY <2>2
    <3>2. PICK t, m, since : t = tree /\ m = n /\ since = started
      OBVIOUS
    <3>3. TreeRight(s, t, m, since)'
      BY <1>8, <1>9, <3>2, TreeKept
    <3> QED BY <1>2, <1>5, <3>1, <3>2, <3>3 DEF RecordRight, Opened, started
  <2> HIDE DEF new
  <2> QED BY <1>3, <2>1, <2>2 DEF RecordsRight, UndoInv
<1>11. IndexRight' /\ SnapRight(s)'
  <2>1. IndexRight'
    BY <1>2, <1>3, QuietStore
  <2>2. snap'[s].index.at \in 0..now' /\ RightIndex(snap[s].index, Here)'
    BY <1>2, <1>3, <2>1 DEF IndexRight
  <2> QED BY <1>2, <2>1, <2>2 DEF SnapRight, Reading
<1>12. new.by = s /\ new.turn = session[s].turn
  OBVIOUS
<1> HIDE DEF new, tree, n, started
<1> QED BY <1>2, <1>3, <1>4, <1>10, <1>11, <1>12, OfSnapshots

(* The steps of a tool, a user and a rewind that write.                    *)
LEMMA OfWrites ==
  ASSUME ListInv, UndoInv, NEW f \in Files, NEW by, NEW kind, NEW body, Written(f, by, kind, body),
         UNCHANGED <<now, session, changes, owners, snap, store>>,
         \A o \in Sessions \ {by} : call'[o] = call[o], FromRecords,
         DOMAIN rewind' = Requests, by \in Sessions => SessionRight(by)', \A q \in Requests : RewindRight(q)'
  PROVE  UndoInv'
<1>1. /\ WritesGrow /\ \A i \in DOMAIN writes : writes'[i] = writes[i]
      /\ \A i \in DOMAIN writes' : i > Here =>
           writes'[i].file = f /\ writes'[i].by = by /\ writes'[i].at = now /\ writes'[i].blurs = Blurs(f, by, kind)
  BY WrittenGrows
<1>2. ASSUME NEW o \in Sessions \ {by} PROVE SessionRight(o)'
  <2>1. NewBlur(o)
    BY <1>1 DEF NewBlur, Blurs
  <2>2. \A i \in DOMAIN writes' : i > Here => writes'[i].by # o
    BY <1>1
  <2> QED BY <1>1, <2>1, <2>2, Bystander
<1>3. InTime' /\ OwnersTold'
  BY <1>1, TimeKept, OwnersKept DEF UndoInv, ListInv, ListShape
<1>4. IndexRight'
  BY <1>1, StoreIndexKept DEF UndoInv, IndexRight
<1>5. RecordsRight'
  <2>1. \A s \in Sessions : session[s].turn \in Nat
    BY ChangesAre
  <2> QED BY <1>1, <2>1, RecordsKept DEF UndoInv, RecordsRight, Opened
<1> QED BY <1>2, <1>3, <1>4, <1>5 DEF UndoInv

LEMMA UserEditsUndo ==
  ASSUME ListInv, UndoInv, RewindAssumption, NEW f \in Files, UserEdits(f)
  PROVE  UndoInv'
<1>1. PICK body : Written(f, "user", "user", body)
  BY DEF UserEdits
<1>2. UNCHANGED <<now, session, changes, owners, snap, store, call, rewind>> /\ "user" \notin Sessions
  BY DEF UserEdits, tracker, RewindAssumption
<1>3. WritesGrow /\ \A i \in DOMAIN writes' : i > Here => writes'[i].by = "user"
  BY <1>1, <1>2, WrittenGrows
<1>4. PICK Q \in SUBSET Requests : Q = Requests
  OBVIOUS
<1>5. \A q \in Requests : RewindRight(q)'
  BY <1>2, <1>3, <1>4, IdleRewinds
<1>6. FromRecords
  BY <1>2, FromRecordsStay
<1> QED BY <1>1, <1>2, <1>5, <1>6, OfWrites DEF UndoInv

(* A tool writes after its snapshot, in a turn that will know of it.       *)
LEMMA ToolWritesUndo ==
  ASSUME ListInv, UndoInv, NEW s \in Sessions, NEW f \in Files, ToolWrites(s, f)
  PROVE  UndoInv'
<1> DEFINE Calls(kind) == call' = [call EXCEPT ![s] = [kind |-> kind, file |-> f, write |-> Here + 1]]
<1>0. PICK kind \in {"write", "shell"} : \E body \in {NewBody, Gone} :
        (body = Gone => kind = "shell" /\ Exists(f)) /\ Written(f, s, kind, body) /\ Calls(kind)
  BY DEF ToolWrites
<1>1. PICK body : (body = Gone => kind = "shell" /\ Exists(f)) /\ Written(f, s, kind, body) /\ Calls(kind)
  BY <1>0
<1>2. /\ UNCHANGED <<now, session, changes, owners, snap, store, rewind>> /\ Opened(s) /\ ~Snapping(s)
      /\ \A o \in Sessions \ {s} : call'[o] = call[o]
      /\ call'[s].write = Here + 1
  BY <1>1 DEF ToolWrites, tracker, Settled, Opened, Snapping, ListInv, ListShape
<1>3. /\ WritesGrow /\ Here' = Here + 1 /\ Here \in Nat
      /\ \A i \in DOMAIN writes : writes'[i] = writes[i]
      /\ \A i \in DOMAIN writes' : i > Here =>
           /\ writes'[i].file = f /\ writes'[i].by = s /\ writes'[i].kind = kind
           /\ writes'[i].at = now /\ writes'[i].told = 0 /\ writes'[i].body = body
           /\ writes'[i].turn = session[s].turn
           /\ writes'[i].unknown = (s \in Sessions /\ body = Gone /\ f \notin session[s].baseline)
  BY <1>1, <1>2, WrittenGrows
<1>4. SessionRight(s) /\ TurnShape(s) /\ Opened(s)' = Opened(s)
  BY <1>2 DEF UndoInv, ListInv, Tracked, Opened
<1>5. SnapRight(s)'
  BY <1>2, <1>3, <1>4, SnapKept DEF SessionRight, NewBlur, UndoInv
<1>6. FromRecords /\ \A q \in Requests : RewindRight(q)'
  <2>1. FromRecords
    BY <1>2, FromRecordsStay
  <2>2. PICK Q \in SUBSET Requests : Q = Requests
    OBVIOUS
  <2>3. \A o \in Sessions : ~Opened(o) => \A i \in DOMAIN writes' : i > Here => writes'[i].by # o
    BY <1>2, <1>3
  <2> QED BY <1>2, <1>3, <2>1, <2>2, <2>3, IdleRewinds
<1>7. TurnNoted(s)'
  <2>1. call'[s].write > session'[s].begun
    BY <1>2, <1>3, <1>4 DEF TurnShape
  <2>2. ASSUME NEW i \in DOMAIN writes', i > Here PROVE writes'[i].turn = session[s].turn /\ Noted(s, i)'
    <3>1. /\ writes'[i].file = f /\ writes'[i].kind = kind /\ writes'[i].told = 0 /\ writes'[i].body = body
          /\ writes'[i].turn = session[s].turn
          /\ body = Gone => (writes'[i].unknown <=> f \notin session[s].baseline)
      BY <1>3, <2>2
    <3>2. kind = "write" => body # Gone
      BY <1>1
    <3> QED BY <1>1, <1>2, <3>1, <3>2 DEF Noted
  <2> QED BY <1>2, <1>3, <1>4, <2>1, <2>2, NotedKept DEF SessionRight
<1>8. WholeRight(s)'
  <2>1. \A r \in store.records : r.turn \in Nat /\ r.started \in Nat
    BY RecordsAre
  <2>2. DOMAIN changes[s] \subseteq Nat
    BY ChangesAre
  <2> QED BY <1>2, <1>3, <1>4, <1>6, <2>1, <2>2, WholeKept DEF SessionRight
<1>9. SessionRight(s)'
  BY <1>5, <1>7, <1>8 DEF SessionRight
<1> QED BY <1>1, <1>2, <1>6, <1>9, OfWrites DEF UndoInv

(* A rewind puts back one more file; in the middle of a turn it blurs, and *)
(* what another rewind of the session had put back it may cross.           *)
LEMMA RewindFileUndo ==
  ASSUME ListInv, UndoInv, NEW q \in Requests, NEW f \in Files, RewindFile(q, f)
  PROVE  UndoInv'
<1>0. PICK s, tree : s = rewind[q].by /\ tree = rewind[q].tree
  OBVIOUS
<1> DEFINE body == Before(tree, f)
<1>1. /\ Written(f, s, "rewind", body) /\ Applying(q) /\ f \in rewind[q].todo
      /\ rewind' = [o \in Requests |->
           IF o = q THEN [rewind[o] EXCEPT !.todo = @ \ {f}]
           ELSE IF Crosses(q, o, f) THEN [rewind[o] EXCEPT !.crossed = @ \cup {f}] ELSE rewind[o]]
      /\ UNCHANGED <<now, session, changes, owners, snap, store, call>>
  BY <1>0 DEF RewindFile, tracker, Applying
<1>2. /\ RewindRight(q) /\ s \in Sessions /\ SessionRight(s) /\ TurnShape(s) /\ Opened(s)' = Opened(s)
  BY <1>0, <1>1, RewindsAre DEF UndoInv, ListInv, Tracked, Opened
<1>3. \A o \in Requests : Applying(o) => RewindFields \subseteq DOMAIN rewind[o] /\ rewind[o] # NoRewind
  BY DEF UndoInv, RewindRight, Applying, NoRewind
<1>4. ASSUME NEW o \in Requests
      PROVE  /\ Alike(o)
             /\ o = q => rewind'[o].todo = rewind[o].todo \ {f} /\ rewind'[o].crossed = rewind[o].crossed
             /\ Crosses(q, o, f) /\ o # q => rewind'[o].crossed = rewind[o].crossed \cup {f}
             /\ o # q /\ Applying(o) => rewind'[o].todo = rewind[o].todo /\ rewind[o].crossed \subseteq rewind'[o].crossed
  <2>1. CASE o = q
    <3>1. rewind'[o] = [rewind[o] EXCEPT !.todo = @ \ {f}] /\ rewind[o].at = "applying"
      BY <1>1, <2>1 DEF Applying
    <3>2. RewindFields \subseteq DOMAIN rewind[o] /\ rewind[o] # NoRewind
      BY <1>1, <1>3, <2>1
    <3>3. rewind'[o].at = "applying"
      BY <3>1, <3>2 DEF RewindFields
    <3>4. rewind'[o] # NoRewind
      BY <3>3 DEF NoRewind
    <3> QED BY <2>1, <3>1, <3>2, <3>4 DEF Alike, RewindFields
  <2>2. CASE o # q /\ Crosses(q, o, f)
    <3>1. rewind'[o] = [rewind[o] EXCEPT !.crossed = @ \cup {f}] /\ rewind[o].at = "applying"
      BY <1>1, <2>2 DEF Crosses
    <3>2. RewindFields \subseteq DOMAIN rewind[o] /\ rewind[o] # NoRewind
      BY <1>3, <3>1 DEF Applying
    <3>3. rewind'[o].at = "applying"
      BY <3>1, <3>2 DEF RewindFields
    <3>4. rewind'[o] # NoRewind
      BY <3>3 DEF NoRewind
    <3> QED BY <2>2, <3>1, <3>2, <3>4 DEF Alike, RewindFields
  <2>3. CASE o # q /\ ~Crosses(q, o, f)
    <3>1. rewind'[o] = rewind[o]
      BY <1>1, <2>3
    <3> QED BY <2>3, <3>1 DEF Alike
  <2> QED BY <2>1, <2>2, <2>3
<1>5. /\ WritesGrow /\ Here' = Here + 1 /\ Here \in Nat
      /\ \A i \in DOMAIN writes : writes'[i] = writes[i]
      /\ \A i \in DOMAIN writes' : i > Here =>
           /\ writes'[i].file = f /\ writes'[i].by = s /\ writes'[i].kind = "rewind"
           /\ writes'[i].at = now /\ writes'[i].told = 0 /\ writes'[i].body = body
           /\ writes'[i].turn = session[s].turn /\ writes'[i].blurs = Blurs(f, s, "rewind")
           /\ writes'[i].unknown = (s \in Sessions /\ body = Gone /\ f \notin session[s].baseline)
  <2> HIDE DEF body
  <2> QED BY <1>1, <1>2, WrittenGrows
<1>6. SnapRight(s)'
  <2>1. Snapping(s) => Opened(s)
    BY <1>2 DEF SessionRight, SnapRight, Snapping
  <2>2. NewBlur(s)
    BY <1>5, <2>1 DEF NewBlur, Blurs, Opened
  <2> QED BY <1>1, <1>2, <1>5, <2>2, SnapKept DEF SessionRight, UndoInv
<1>7. Body(f, Here)' = body
  <2>1. PICK n \in Nat : n = Here'
    BY <1>5
  <2>2. n \in DOMAIN writes' /\ n > Here
    BY <1>5, <2>1, GrownAre
  <2>3. n \in Of(f)' /\ \A j \in Of(f)' : j <= n
    BY <1>5, <2>1, <2>2, GrownAre DEF Of
  <2>4. Last(f, n)' = n
    BY <1>5, <2>1, <2>3, FactsNext DEF WritesGrow, WritesFacts, LastFacts
  <2>5. Body(f, n)' = writes'[n].body
    BY <1>5, <2>2, <2>4 DEF Body
  <2>6. writes'[n].body = body
    BY <1>5, <2>2
  <2> QED BY <2>1, <2>5, <2>6
<1>8. ASSUME NEW o \in Requests PROVE RewindRight(o)'
  <2>1. ASSUME NEW x \in Sessions PROVE TurnGoesOn(x)
    <3>1. session[x].turn \in Nat /\ session'[x] = session[x]
      BY <1>1, ChangesAre
    <3> QED BY <3>1 DEF TurnGoesOn, Opened
  <2>2. ASSUME Applying(o) PROVE Unharmed(o)
    <3> SUFFICES ASSUME NEW g \in Files, g \notin rewind'[o].todo \cup rewind'[o].crossed
                 PROVE  \/ /\ g \notin rewind[o].todo \cup rewind[o].crossed
                           /\ \A i \in Of(g)' : i > Here => writes'[i].by # rewind[o].by
                        \/ Body(g, Here)' = Before(rewind[o].tree, g)
      BY DEF Unharmed
    <3>1. CASE g # f
      <4>1. \A i \in Of(g)' : ~(i > Here)
        BY <1>5, <3>1, GrownAre
      <4> QED BY <1>4, <2>2, <3>1, <4>1
    <3>2. CASE g = f /\ rewind[o].by # s
      <4>1. \A i \in Of(g)' : i > Here => writes'[i].by # rewind[o].by
        BY <1>5, <3>2, GrownAre
      <4>2. o # q
        BY <1>0, <3>2
      <4> QED BY <1>4, <2>2, <4>1, <4>2
    <3>3. CASE g = f /\ rewind[o].by = s
      <4>1. ~Crosses(q, o, f) \/ o = q
        BY <1>4, <3>3
      <4>2. o # q => f \notin rewind[o].todo
        BY <1>4, <2>2, <3>3
      <4>3. Before(rewind[o].tree, f) = body
        BY <1>0, <2>2, <3>3, <4>1, <4>2 DEF Crosses, Applying
      <4> QED BY <1>7, <3>3, <4>3
    <3> QED BY <3>1, <3>2, <3>3
  <2>3. Applying(o) /\ ~Opened(rewind[o].by) => changes'[rewind[o].by] = changes[rewind[o].by] /\ Unharmed(o)
    BY <1>1, <2>2
  <2>4. RewindRight(o) /\ Alike(o)
    BY <1>4 DEF UndoInv
  <2> QED BY <1>5, <2>1, <2>3, <2>4, RewindKept
<1>9. TurnNoted(s)'
  <2>1. call'[s] # NoCall => call'[s].write > session'[s].begun
    BY <1>1, <1>2 DEF SessionRight, TurnNoted
  <2>2. ASSUME NEW i \in DOMAIN writes', i > Here PROVE writes'[i].turn = session[s].turn /\ (Opened(s)' => Noted(s, i)')
    <3>1. Opened(s)' => writes'[i].blurs
      BY <1>2, <1>5, <2>2 DEF Blurs, Opened
    <3> HIDE DEF body
    <3> QED BY <1>1, <1>2, <1>5, <2>2, <3>1 DEF Noted
  <2> QED BY <1>1, <1>2, <1>5, <2>1, <2>2, NotedKept DEF SessionRight
<1>10. FromRecords
  BY <1>4, FromRecordsStay
<1>11. WholeRight(s)'
  <2>1. \A r \in store.records : r.turn \in Nat /\ r.started \in Nat
    BY RecordsAre
  <2>2. DOMAIN changes[s] \subseteq Nat
    BY <1>2, ChangesAre
  <2> QED BY <1>1, <1>2, <1>5, <1>10, <2>1, <2>2, WholeKept DEF SessionRight
<1>12. SessionRight(s)' /\ DOMAIN rewind' = Requests
  BY <1>1, <1>6, <1>9, <1>11 DEF SessionRight
<1> HIDE DEF body
<1> QED BY <1>1, <1>8, <1>10, <1>12, OfWrites

(* The steps that write nothing.                                           *)
LEMMA OfQuiet ==
  ASSUME ListInv, UndoInv, NEW A \in SUBSET Sessions, writes' = writes, now' \in {now, now + 1},
         store'.index = store.index, store'.records = store.records, store'.trees = store.trees,
         DOMAIN rewind' = Requests, DOMAIN snap' = Sessions, FromRecords, \A q \in Requests : RewindRight(q)',
         \A f \in Files : owners'[f] = owners[f] \/ owners'[f] = NoOwner,
         \A o \in Sessions \ A : /\ session'[o] = session[o] /\ changes'[o] = changes[o] /\ call'[o] = call[o]
                                 /\ snap'[o] = snap[o],
         \A o \in A : /\ SessionRight(o)'
                      /\ session'[o].turn \in Nat /\ session'[o].turn >= session[o].turn
                      /\ Opened(o)' => session'[o].started = now
                                       \/ (Opened(o) /\ session'[o].started = session[o].started)
  PROVE  UndoInv'
<1>1. WritesGrow /\ Here' = Here
  BY QuietGrows
<1>2. \A i \in DOMAIN writes' : ~(i > Here) /\ i \in DOMAIN writes
  BY <1>1, GrownAre
<1>3. ASSUME NEW o \in Sessions \ A PROVE SessionRight(o)'
  <2>1. NewBlur(o)
    BY <1>2 DEF NewBlur
  <2> QED BY <1>1, <1>2, <2>1, Bystander
<1>4. InTime' /\ OwnersTold' /\ IndexRight'
  BY <1>1, TimeKept, OwnersKept, StoreIndexKept DEF UndoInv, ListInv, ListShape, IndexRight
<1>5. RecordsRight'
  <2>1. \A o \in Sessions : session[o].turn \in Nat
    BY ChangesAre
  <2>2. ASSUME NEW o \in Sessions
        PROVE  /\ session'[o].turn \in Nat /\ session'[o].turn >= session[o].turn
               /\ Opened(o)' => session'[o].started = now
                                \/ (Opened(o) /\ session'[o].started = session[o].started)
    BY <2>1 DEF Opened
  <2> QED BY <1>1, <2>2, RecordsKept DEF UndoInv, RecordsRight
<1> QED BY <1>3, <1>4, <1>5 DEF UndoInv

LEMMA IdleUndo ==
  ASSUME ListInv, UndoInv, StoreInv, Tick \/ Ages
  PROVE  UndoInv'
<1>1. /\ writes' = writes /\ now' \in {now, now + 1} /\ UNCHANGED <<session, changes, owners, call, snap, rewind>>
      /\ store'.index = store.index /\ store'.records = store.records /\ store'.trees = store.trees
  BY DEF Tick, Ages, tracker, StoreInv, StoreShape
<1>2. DOMAIN rewind' = Requests /\ DOMAIN snap' = Sessions
  BY <1>1 DEF UndoInv
<1>3. PICK A \in SUBSET Sessions, Q \in SUBSET Requests : A = {} /\ Q = Requests
  OBVIOUS
<1>4. WritesGrow /\ \A i \in DOMAIN writes' : ~(i > Here)
  BY <1>1, QuietGrows, GrownAre
<1>5. FromRecords /\ \A q \in Requests : RewindRight(q)'
  BY <1>1, <1>3, <1>4, FromRecordsStay, IdleRewinds
<1> QED BY <1>1, <1>2, <1>3, <1>5, OfQuiet

(* A turn that begins knows nothing yet, and a rewind that was asked for   *)
(* before it is not for this turn.                                         *)
LEMMA BeginTurnUndo ==
  ASSUME ListInv, UndoInv, NEW s \in Sessions, BeginTurn(s)
  PROVE  UndoInv'
<1>1. /\ ~Opened(s) /\ UNCHANGED <<writes, now, call, changes, owners, store, rewind>>
      /\ session' = [session EXCEPT ![s] = [Closed(session[s].turn + 1, session[s].opened) EXCEPT
                       !.at = "open", !.started = now, !.begun = Here, !.baseline = Indexed]]
      /\ snap' = [snap EXCEPT ![s] = [at |-> "waiting"]]
  BY DEF BeginTurn, Opened
<1>2. /\ DOMAIN session' = Sessions /\ \A o \in Sessions \ {s} : session'[o] = session[o]
      /\ session'[s].at = "open" /\ session'[s].turn = session[s].turn + 1 /\ session'[s].started = now
      /\ session'[s].begun = Here
  BY <1>1 DEF ListInv, ListShape, Closed
<1>3. /\ DOMAIN snap' = Sessions /\ \A o \in Sessions \ {s} : snap'[o] = snap[o] /\ snap'[s].at = "waiting"
      /\ DOMAIN rewind' = Requests /\ snap'[s].at = "waiting"
  BY <1>1 DEF UndoInv
<1>4. /\ WritesGrow /\ Here' = Here /\ Here \in Nat /\ now \in Nat /\ session[s].turn \in Nat
      /\ \A i \in DOMAIN writes : i \in Nat /\ ~(i > Here)
  <2>1. WritesGrow /\ Here' = Here /\ Here \in Nat /\ now \in Nat /\ session[s].turn \in Nat
    BY <1>1, QuietGrows, HereIs, ChangesAre
  <2> QED BY <2>1, GrownAre
<1>5. SessionRight(s) /\ Opened(s)'
  BY <1>2 DEF UndoInv, Opened
<1>6. SnapRight(s)'
  BY <1>1, <1>2, <1>3, <1>4, <1>5 DEF SnapRight, Reading
<1>7. FromRecords /\ \A q \in Requests : RewindRight(q)'
  <2>1. FromRecords
    BY <1>1, FromRecordsStay
  <2>2. ASSUME NEW o \in Sessions PROVE TurnGoesOn(o)
    <3>1. session[o].turn \in Nat
      BY ChangesAre
    <3>2. CASE o # s
      BY <1>2, <3>1, <3>2 DEF TurnGoesOn, Opened
    <3>3. CASE o = s
      BY <1>2, <3>1, <3>3 DEF TurnGoesOn
    <3> QED BY <3>2, <3>3
  <2>3. PICK Q \in SUBSET Requests : Q = Requests
    OBVIOUS
  <2>4. \A o \in Sessions : ~Opened(o) =>
          changes'[o] = changes[o] /\ \A i \in DOMAIN writes' : i > Here => writes'[i].by # o
    BY <1>1, <1>4
  <2> QED BY <1>1, <1>4, <2>1, <2>2, <2>3, <2>4, RewindsStay
<1>8. TurnNoted(s)'
  <2>1. call[s] = NoCall
    BY <1>1 DEF ListInv, Tracked, CallWrote, Opened
  <2>2. ASSUME NEW i \in DOMAIN writes, writes[i].by = s
        PROVE  writes[i].turn <= session'[s].turn /\ writes[i].turn < session'[s].turn
    <3>1. writes[i].turn <= session[s].turn /\ writes[i].turn \in Nat
      BY <1>5, <2>2 DEF SessionRight, TurnNoted, UndoInv, InTime
    <3> QED BY <1>2, <1>4, <3>1
  <2> QED BY <1>1, <1>2, <1>4, <2>1, <2>2 DEF TurnNoted
<1>9. WholeRight(s)'
  <2>1. \A r \in store.records : r.turn \in Nat /\ r.started \in Nat
    BY RecordsAre
  <2>2. DOMAIN changes[s] \subseteq Nat
    BY ChangesAre
  <2> QED BY <1>1, <1>4, <1>5, <1>7, <2>1, <2>2, WholeKept DEF SessionRight
<1>10. PICK A \in SUBSET Sessions : A = {s}
  OBVIOUS
<1>11. SessionRight(s)' /\ session'[s].turn \in Nat /\ session'[s].turn >= session[s].turn
  BY <1>2, <1>4, <1>6, <1>8, <1>9 DEF SessionRight
<1> QED BY <1>1, <1>2, <1>3, <1>7, <1>10, <1>11, OfQuiet

(* A turn that leaves the tracker's map goes on as before otherwise.       *)
LEMMA LeaveFilesUndo ==
  ASSUME ListInv, UndoInv, NEW s \in Sessions, LeaveFiles(s)
  PROVE  UndoInv'
<1>1. /\ Opened(s) /\ UNCHANGED <<writes, now, call, changes, owners, snap, store, rewind>>
      /\ session' = [session EXCEPT ![s].at = "ending"]
  BY DEF LeaveFiles, Settled, Opened
<1>2. /\ \A o \in Sessions \ {s} : session'[o] = session[o]
      /\ session'[s].at = "ending" /\ session'[s].turn = session[s].turn /\ session'[s].started = session[s].started
      /\ session'[s].begun = session[s].begun /\ session'[s].touched = session[s].touched
      /\ session'[s].baseline = session[s].baseline /\ session'[s].shell = session[s].shell
  BY <1>1 DEF ListInv, ListShape, Tracked, TurnShape, TurnFields
<1>3. /\ WritesGrow /\ \A i \in DOMAIN writes' : ~(i > Here)
  BY <1>1, QuietGrows, GrownAre
<1>4. SessionRight(s) /\ TurnShape(s) /\ Opened(s)' = Opened(s) /\ DOMAIN rewind' = Requests /\ DOMAIN snap' = Sessions
  BY <1>1, <1>2 DEF UndoInv, ListInv, Tracked, Opened
<1>5. FromRecords
  BY <1>1, FromRecordsStay
<1>6. \A q \in Requests : RewindRight(q)'
  <2>1. ASSUME NEW o \in Sessions PROVE TurnGoesOn(o)
    <3>1. session[o].turn \in Nat
      BY ChangesAre
    <3>2. CASE o # s
      BY <1>2, <3>1, <3>2 DEF TurnGoesOn, Opened
    <3>3. CASE o = s
      BY <1>2, <1>4, <3>1, <3>3 DEF TurnGoesOn
    <3> QED BY <3>2, <3>3
  <2>2. PICK Q \in SUBSET Requests : Q = Requests
    OBVIOUS
  <2> QED BY <1>1, <1>3, <2>1, <2>2, RewindsStay
<1>7. SnapRight(s)'
  <2>1. NewBlur(s)
    BY <1>3 DEF NewBlur
  <2> QED BY <1>1, <1>2, <1>3, <1>4, <2>1, SnapKept DEF SessionRight, UndoInv
<1>8. TurnNoted(s)'
  <2>1. call'[s] # NoCall => call'[s].write > session'[s].begun
    BY <1>1, <1>2, <1>4 DEF SessionRight, TurnNoted
  <2> QED BY <1>1, <1>2, <1>3, <1>4, <2>1, NotedKept DEF SessionRight
<1>9. WholeRight(s)'
  <2>1. \A r \in store.records : r.turn \in Nat /\ r.started \in Nat
    BY RecordsAre
  <2>2. DOMAIN changes[s] \subseteq Nat
    BY ChangesAre
  <2> QED BY <1>1, <1>3, <1>4, <1>5, <2>1, <2>2, WholeKept DEF SessionRight
<1>10. PICK A \in SUBSET Sessions : A = {s}
  OBVIOUS
<1>11. SessionRight(s)' /\ session'[s].turn \in Nat /\ session'[s].turn >= session[s].turn
  BY <1>2, <1>4, <1>7, <1>8, <1>9 DEF SessionRight, TurnShape
<1> QED BY <1>1, <1>2, <1>4, <1>5, <1>6, <1>10, <1>11, OfQuiet

(* The steps that keep turns, snapshots and lists.                         *)
LEMMA OfRewinds ==
  ASSUME ListInv, UndoInv, UNCHANGED <<writes, now, session, changes, owners, snap, store>>,
         \A o \in Sessions : call'[o] \in {call[o], NoCall},
         DOMAIN rewind' = Requests, FromRecords, \A q \in Requests : RewindRight(q)'
  PROVE  UndoInv'
<1>1. WritesGrow /\ Here' = Here /\ \A i \in DOMAIN writes : ~(i > Here)
  BY QuietGrows, GrownAre
<1>2. ASSUME NEW s \in Sessions
      PROVE  SessionRight(s)' /\ session'[s] = session[s] /\ session[s].turn \in Nat /\ Opened(s)' = Opened(s)
  <2>1. SessionRight(s) /\ Opened(s)' = Opened(s) /\ TurnShape(s)
    BY DEF UndoInv, Opened, ListInv, Tracked
  <2>2. SnapRight(s)'
    <3>1. NewBlur(s)
      BY <1>1 DEF NewBlur
    <3> QED BY <1>1, <2>1, <3>1, SnapKept DEF SessionRight, UndoInv
  <2>3. TurnNoted(s)'
    <3>1. call'[s] # NoCall => call'[s].write > session'[s].begun
      BY <2>1 DEF SessionRight, TurnNoted
    <3> QED BY <1>1, <2>1, <3>1, NotedKept DEF SessionRight
  <2>4. WholeRight(s)'
    <3>1. \A r \in store.records : r.turn \in Nat /\ r.started \in Nat
      BY RecordsAre
    <3>2. DOMAIN changes[s] \subseteq Nat
      BY ChangesAre
    <3> QED BY <1>1, <2>1, <3>1, <3>2, WholeKept DEF SessionRight
  <2> QED BY <2>1, <2>2, <2>3, <2>4 DEF SessionRight, TurnShape
<1>3. PICK A \in SUBSET Sessions : A = Sessions
  OBVIOUS
<1>4. \A o \in A :
        /\ SessionRight(o)'
        /\ session'[o].turn \in Nat /\ session'[o].turn >= session[o].turn
        /\ Opened(o)' => session'[o].started = now
                         \/ (Opened(o) /\ session'[o].started = session[o].started)
  BY <1>2, <1>3
<1>5. DOMAIN snap' = Sessions
  BY DEF UndoInv
<1>6. \A o \in Sessions \ A :
        /\ session'[o] = session[o] /\ changes'[o] = changes[o] /\ call'[o] = call[o]
        /\ snap'[o] = snap[o]
  BY <1>3
<1>7. /\ \A f \in Files : owners'[f] = owners[f] \/ owners'[f] = NoOwner
      /\ store'.index = store.index /\ store'.records = store.records /\ store'.trees = store.trees
  OBVIOUS
<1> QED BY <1>4, <1>5, <1>6, <1>7, OfQuiet

LEMMA ToolFailsUndo ==
  ASSUME ListInv, UndoInv, NEW s \in Sessions, ToolFails(s)
  PROVE  UndoInv'
<1>1. /\ UNCHANGED <<writes, now, session, changes, owners, snap, store, rewind>>
      /\ \A o \in Sessions : call'[o] \in {call[o], NoCall}
  BY DEF ToolFails, tracker, ListInv, ListShape
<1>2. WritesGrow /\ \A i \in DOMAIN writes' : ~(i > Here)
  BY <1>1, QuietGrows, GrownAre
<1>3. PICK Q \in SUBSET Requests : Q = Requests
  OBVIOUS
<1>4. \A q \in Requests : RewindRight(q)'
  BY <1>1, <1>2, <1>3, IdleRewinds
<1>5. FromRecords /\ DOMAIN rewind' = Requests
  BY <1>1, FromRecordsStay DEF UndoInv
<1> QED BY <1>1, <1>4, <1>5, OfRewinds

(* The steps of one request.                                               *)
LEMMA OfRewind ==
  ASSUME ListInv, UndoInv, UNCHANGED <<writes, now, session, changes, owners, snap, store, call>>,
         NEW q \in Requests, NEW new, rewind' = [rewind EXCEPT ![q] = new], RewindRight(q)',
         Applying(q)' => /\ rewind'[q].to \in Nat
                         /\ \E r \in store.records :
                              r.by = rewind'[q].by /\ r.turn <= rewind'[q].to /\ r.started = rewind'[q].started
  PROVE  UndoInv'
<1>1. DOMAIN rewind' = Requests /\ \A o \in Requests \ {q} : rewind'[o] = rewind[o]
  BY DEF UndoInv
<1>2. WritesGrow /\ \A i \in DOMAIN writes' : ~(i > Here)
  BY QuietGrows, GrownAre
<1>3. PICK Q \in SUBSET Requests : Q = Requests \ {q}
  OBVIOUS
<1>4. \A o \in Requests : RewindRight(o)'
  <2>1. \A o \in Q : RewindRight(o)'
    BY <1>1, <1>2, <1>3, IdleRewinds
  <2> QED BY <1>3, <2>1
<1>5. FromRecords
  <2> SUFFICES ASSUME NEW o \in Requests, Applying(o)'
               PROVE  /\ rewind'[o].to \in Nat
                      /\ \/ /\ Applying(o) /\ rewind[o].started \in Nat /\ rewind'[o].by = rewind[o].by
                            /\ rewind'[o].to = rewind[o].to /\ rewind'[o].started = rewind[o].started
                         \/ \E r \in store.records :
                              r.by = rewind'[o].by /\ r.turn <= rewind'[o].to /\ r.started = rewind'[o].started
    BY DEF FromRecords
  <2>1. CASE o = q
    BY <2>1
  <2>2. CASE o # q
    <3>1. rewind'[o] = rewind[o] /\ Applying(o)
      BY <1>1, <2>2 DEF Applying
    <3> QED BY <3>1, RewindsAre
  <2> QED BY <2>1, <2>2
<1> QED BY <1>1, <1>4, <1>5, OfRewinds

LEMMA RewindEndsUndo ==
  ASSUME ListInv, UndoInv, NEW q \in Requests, RewindEnds(q) \/ RewindFails(q)
  PROVE  UndoInv'
<1>1. /\ UNCHANGED <<writes, now, session, changes, owners, snap, store, call>>
      /\ rewind' = [rewind EXCEPT ![q] = NoRewind]
  BY DEF RewindEnds, RewindFails, tracker
<1>2. rewind'[q] = NoRewind
  BY <1>1 DEF UndoInv
<1>3. RewindRight(q)' /\ ~Applying(q)'
  BY <1>2 DEF RewindRight, Applying, NoRewind
<1> QED BY <1>1, <1>3, OfRewind

LEMMA RewindStartsUndo ==
  ASSUME ListInv, UndoInv, NEW q \in Requests, NEW s \in Sessions, RewindStarts(q, s)
  PROVE  UndoInv'
<1>1. UNCHANGED <<writes, now, session, changes, owners, snap, store, call>> /\ session[s].at = "idle"
  BY DEF RewindStarts, tracker
<1>2. PICK t \in 1..session[s].turn :
        rewind' = [rewind EXCEPT ![q] = [at |-> "asked", by |-> s, to |-> t, asked |-> session[s].turn]]
  BY DEF RewindStarts
<1> DEFINE new == [at |-> "asked", by |-> s, to |-> t, asked |-> session[s].turn]
<1>3. /\ rewind' = [rewind EXCEPT ![q] = new]
      /\ rewind'[q].at = "asked" /\ rewind'[q].by = s /\ rewind'[q].to = t /\ rewind'[q].asked = session[s].turn
  BY <1>2 DEF UndoInv
<1>4. session[s].turn \in Nat
  BY ChangesAre
<1>5. RewindRight(q)' /\ ~Applying(q)'
  BY <1>1, <1>2, <1>3, <1>4 DEF RewindRight, Applying, Opened
<1> HIDE DEF new
<1> QED BY <1>1, <1>3, <1>5, OfRewind

(* A rewind plans with a record of the turn; what needs no change already  *)
(* is what the record has.                                                 *)
LEMMA RewindPlansUndo ==
  ASSUME ListInv, UndoInv, NEW q \in Requests, RewindPlans(q)
  PROVE  UndoInv'
<1> DEFINE s == rewind[q].by
           to == rewind[q].to
           plan(r) == [at |-> "applying", by |-> s, to |-> to, asked |-> rewind[q].asked, tree |-> r.tree,
                       seen |-> r.seen, started |-> r.started, todo |-> Plan(s, r), crossed |-> {}]
<1>1. UNCHANGED <<writes, now, session, changes, owners, snap, store, call>> /\ rewind[q].at = "asked"
  BY DEF RewindPlans, tracker
<1>2. CASE rewind' = [rewind EXCEPT ![q] = NoRewind]
  <2>1. rewind'[q] = NoRewind
    BY <1>2 DEF UndoInv
  <2>2. RewindRight(q)' /\ ~Applying(q)'
    BY <2>1 DEF RewindRight, Applying, NoRewind
  <2> QED BY <1>1, <1>2, <2>2, OfRewind
<1>3. ASSUME NEW r \in Snapshot(s, to), rewind' = [rewind EXCEPT ![q] = plan(r)] PROVE UndoInv'
  <2>1. r \in store.records /\ r.by = s /\ r.turn = to /\ r.tree \in store.trees
    BY DEF Snapshot
  <2>2. rewind'[q] = plan(r)
    BY <1>3 DEF UndoInv
  <2>3. RecordRight(r) /\ NoTree \notin store.trees
    BY <1>1, <2>1 DEF UndoInv, RecordsRight
  <2>4. /\ s \in Sessions /\ rewind[q].asked \in Nat /\ to \in 1..rewind[q].asked
        /\ rewind[q].asked <= session[s].turn
        /\ session[s].turn = rewind[q].asked => ~Opened(s)
    BY <1>1 DEF UndoInv, RewindRight, NoRewind
  <2>5. /\ rewind'[q].at = "applying" /\ rewind'[q].by = s /\ rewind'[q].to = to
        /\ rewind'[q].asked = rewind[q].asked /\ rewind'[q].tree = r.tree /\ rewind'[q].seen = r.seen
        /\ rewind'[q].started = r.started /\ rewind'[q].todo = Plan(s, r)
        /\ RewindFields \subseteq DOMAIN rewind'[q]
    BY <2>2 DEF RewindFields
  <2>6. PICK x : x = s
    OBVIOUS
  <2>7. TreeRight(x, r.tree, r.seen, r.started)'
    <3>1. PICK tree, seen, started : tree = r.tree /\ seen = r.seen /\ started = r.started
      OBVIOUS
    <3>2. TreeRight(x, tree, seen, started)'
      BY <1>1, <2>1, <2>3, <2>6, <3>1, TreeKept, QuietGrows DEF RecordRight
    <3> QED BY <3>1, <3>2
  <2>8. PutBack(q)'
    <3>1. PICK t, tree : t = to /\ tree = r.tree
      OBVIOUS
    <3>2. \A f \in ListedSince(x, t) \cap Files : f \in Plan(x, r) \/ Body(f, Here) = Before(tree, f)
      BY <2>1, <3>1 DEF Plan
    <3>3. ListedSince(x, t)' = ListedSince(x, t)
      BY <1>1 DEF ListedSince
    <3>4. \A f : Body(f, Here)' = Body(f, Here)
      <4>1. WritesGrow /\ Here' = Here
        BY <1>1, QuietGrows
      <4> QED BY <4>1, GrownAre, FileStays
    <3> HIDE DEF plan, to, s
    <3>5. /\ ListedSince(rewind[q].by, rewind[q].to)' = ListedSince(x, t)' /\ rewind'[q].todo = Plan(x, r)
          /\ rewind'[q].tree = tree
      BY <2>5, <2>6, <3>1
    <3> QED BY <3>2, <3>3, <3>4, <3>5 DEF PutBack, Before
  <2>9. Opened(x)' => r.started <= session'[x].started
    BY <1>1, <2>1, <2>3, <2>4, <2>6 DEF RecordRight, Opened
  <2> HIDE DEF plan, to, s
  <2>10. TreeRight(rewind[q].by, rewind[q].tree, rewind[q].seen, rewind[q].started)'
    BY <2>5, <2>6, <2>7
  <2>11. /\ session'[rewind'[q].by] = session[s] /\ (Opened(rewind[q].by)' <=> Opened(s))
         /\ (Opened(x)' <=> Opened(s)) /\ x = s
    BY <1>1, <2>5, <2>6 DEF Opened
  <2>12. RewindRight(q)'
    BY <1>1, <2>1, <2>3, <2>4, <2>5, <2>8, <2>9, <2>10, <2>11 DEF RewindRight, Applying, NoRewind
  <2>13. to \in Nat /\ r.turn <= to
    BY <2>1, <2>4
  <2> QED BY <1>1, <1>3, <2>1, <2>5, <2>12, <2>13, OfRewind
<1>4. CASE Snapshot(s, to) = {}
  BY <1>2, <1>4 DEF RewindPlans
<1>5. CASE Snapshot(s, to) # {}
  <2>1. PICK r \in Snapshot(s, to) : r = CHOOSE x \in Snapshot(s, to) : TRUE
    BY <1>5
  <2>2. rewind' = [rewind EXCEPT ![q] = plan(r)]
    BY <1>5, <2>1 DEF RewindPlans
  <2> QED BY <1>3, <2>2
<1> QED BY <1>4, <1>5

(* The answer of a tool: what it wrote is told, and its session knows.     *)
LEMMA ToolReportsUndo ==
  ASSUME ListInv, ListInv', UndoInv, NEW s \in Sessions, ToolReports(s)
  PROVE  UndoInv'
<1>0. PICK w, g : w = call[s].write /\ g = call[s].file
  OBVIOUS
<1>1. /\ call[s] # NoCall /\ Opened(s) /\ g \in Files /\ w \in DOMAIN writes /\ writes[w].file = g
      /\ writes[w].by = s /\ writes[w].kind = call[s].kind
  BY <1>0 DEF ToolReports, ListInv, Tracked, CallWrote, Of, Opened
<1>2. /\ writes' = [writes EXCEPT ![w].told = now] /\ call' = [call EXCEPT ![s] = NoCall]
      /\ UNCHANGED <<now, changes, snap, store, rewind>>
  BY <1>0 DEF ToolReports
<1>3. /\ \A i \in DOMAIN writes : i # w => writes'[i] = writes[i]
      /\ writes'[w] = [writes[w] EXCEPT !.told = now] /\ DOMAIN writes' = DOMAIN writes
  BY <1>1, <1>2
<1>4. SessionRight(s) /\ session[s].begun \in Nat /\ session[s].turn \in Nat /\ now \in Nat /\ now > 0 /\ TurnShape(s)
      /\ WritesShape /\ WritesShape'
  BY HereIs DEF UndoInv, ListInv, Tracked, TurnShape, ListShape
<1>5. w > session[s].begun /\ Noted(s, w)
  BY <1>0, <1>1, <1>4 DEF SessionRight, TurnNoted
<1>6. \A i \in DOMAIN writes : Same(i) /\ (writes[i].by # s => writes'[i].told = writes[i].told)
  <2>1. Same(w)
    <3>1. Fields \subseteq DOMAIN writes[w] /\ writes[w].told \in Nat /\ writes[w].told <= now
      BY <1>1, <1>4 DEF WritesShape, UndoInv, InTime
    <3> QED BY <1>3, <1>4, <3>1 DEF Same, Fields
  <2>2. ASSUME NEW i \in DOMAIN writes, i # w PROVE Same(i) /\ writes'[i].told = writes[i].told
    BY <1>3, <1>4, <2>2 DEF Same, WritesShape
  <2> QED BY <1>1, <2>1, <2>2
<1>7. WritesGrow /\ Here' = Here /\ \A i \in DOMAIN writes' : i \in DOMAIN writes /\ ~(i > Here)
  <2>1. /\ Here \in Nat /\ DOMAIN writes = 1..Here
    BY <1>4, WritesAre
  <2>2. WritesShape' => Here' \in Nat /\ DOMAIN writes' = 1..Here'
    BY FactsNext DEF WritesFacts, AreFacts
  <2>3. Here' = Here
    BY <1>2 DEF Here
  <2>4. \A i \in DOMAIN writes' : i \in DOMAIN writes /\ ~(i > Here)
    BY <1>3, <2>1
  <2> QED BY <1>2, <1>4, <1>6, <2>1, <2>3, <2>4 DEF WritesGrow
<1>8. \/ /\ call[s].kind = "shell" /\ session' = [session EXCEPT ![s].shell = TRUE] /\ UNCHANGED owners
      \/ /\ call[s].kind # "shell" /\ session' = [session EXCEPT ![s].touched = @ \cup {g}]
         /\ owners' = [owners EXCEPT ![g] = [by |-> s, at |-> now]]
  BY <1>0 DEF ToolReports, Report
<1>9. /\ DOMAIN session' = Sessions /\ \A o \in Sessions \ {s} : session'[o] = session[o]
      /\ session'[s].at = session[s].at /\ session'[s].turn = session[s].turn
      /\ session'[s].started = session[s].started /\ session'[s].begun = session[s].begun
      /\ session'[s].baseline = session[s].baseline
      /\ session[s].touched \subseteq session'[s].touched /\ (session[s].shell => session'[s].shell)
      /\ call[s].kind = "shell" => session'[s].shell
      /\ call[s].kind # "shell" => g \in session'[s].touched
  BY <1>8 DEF ListInv, ListShape, Tracked, TurnShape, TurnFields
<1>10. call'[s] = NoCall /\ \A o \in Sessions \ {s} : call'[o] = call[o]
  BY <1>2 DEF ListInv, ListShape
<1>11. FromRecords
  BY <1>2, FromRecordsStay
<1>12. ASSUME NEW o \in Sessions \ {s} PROVE SessionRight(o)'
  <2>1. NewBlur(o)
    BY <1>7 DEF NewBlur
  <2> QED BY <1>2, <1>6, <1>7, <1>9, <1>10, <1>11, <2>1, Bystander
<1>13. SnapRight(s)' /\ \A q \in Requests : RewindRight(q)'
  <2>1. NewBlur(s) /\ Opened(s)' = Opened(s)
    BY <1>7, <1>9 DEF NewBlur, Opened
  <2>2. ASSUME NEW o \in Sessions PROVE TurnGoesOn(o)
    <3>1. session[o].turn \in Nat
      BY ChangesAre
    <3>2. CASE o # s
      BY <1>9, <3>1, <3>2 DEF TurnGoesOn, Opened
    <3>3. CASE o = s
      BY <1>1, <1>9, <3>1, <3>3 DEF TurnGoesOn
    <3> QED BY <3>2, <3>3
  <2>3. PICK Q \in SUBSET Requests : Q = Requests
    OBVIOUS
  <2>4. \A q \in Requests : RewindRight(q)'
    BY <1>2, <1>7, <2>2, <2>3, RewindsStay
  <2> QED BY <1>2, <1>4, <1>7, <1>9, <2>1, <2>4, SnapKept DEF SessionRight, UndoInv
<1>14. TurnNoted(s)'
  <2>1. \A i \in DOMAIN writes : Opened(s)' /\ writes[i].by = s /\ writes'[i].told # writes[i].told =>
           /\ writes[i].kind = "write" => writes[i].file \in session'[s].touched
           /\ writes[i].kind = "shell" => session'[s].shell
    BY <1>1, <1>3, <1>9
  <2> QED BY <1>1, <1>4, <1>7, <1>9, <1>10, <2>1, NotedKept DEF SessionRight
<1>15. WholeRight(s)'
  <2>1. \A r \in store.records : r.turn \in Nat /\ r.started \in Nat
    BY RecordsAre
  <2>2. DOMAIN changes[s] \subseteq Nat /\ session[s].turn \notin DOMAIN changes[s]
    BY <1>1, ChangesAre
  <2>3. \A i \in DOMAIN writes : writes[i].by = s /\ writes'[i].told # writes[i].told => writes[i].turn \notin DOMAIN changes[s]
    BY <1>3, <1>5, <2>2 DEF Noted
  <2> QED BY <1>2, <1>4, <1>7, <1>11, <2>1, <2>2, <2>3, WholeKept DEF SessionRight
<1>16. OwnersTold'
  <2> SUFFICES ASSUME NEW f \in Files, owners'[f].by # None
               PROVE  \E i \in Of(f)' : writes'[i].by = owners'[f].by /\ writes'[i].told >= owners'[f].at
    BY DEF OwnersTold
  <2>1. DOMAIN owners = Files /\ owners[f].at \in Nat
    BY DEF ListInv, ListShape
  <2>2. CASE owners'[f] = owners[f]
    <3>1. PICK i \in Of(f) : writes[i].by = owners[f].by /\ writes[i].told >= owners[f].at
      BY <2>2 DEF OwnersTold, UndoInv
    <3>2. i \in Of(f)' /\ writes'[i].by = writes[i].by /\ writes'[i].told >= writes[i].told
      BY <1>7, Kept, GrownAre DEF WritesGrow, Same
    <3>3. writes[i].told \in Nat /\ writes'[i].told \in Nat
      BY <1>7, <3>2, GrownAre
    <3> QED BY <2>1, <2>2, <3>1, <3>2, <3>3
  <2>3. CASE owners'[f] # owners[f]
    <3>1. f = g /\ owners'[f].by = s /\ owners'[f].at = now
      BY <1>1, <1>8, <2>1, <2>3
    <3>2. w \in Of(f)' /\ writes'[w].by = s /\ writes'[w].told = now
      <4>1. Fields \subseteq DOMAIN writes[w]
        BY <1>1, <1>4 DEF WritesShape
      <4> QED BY <1>1, <1>3, <3>1, <4>1 DEF Of, Fields
    <3> QED BY <1>4, <3>1, <3>2
  <2> QED BY <2>2, <2>3
<1>17. InTime' /\ IndexRight'
  BY <1>2, <1>7, TimeKept, StoreIndexKept DEF UndoInv, IndexRight
<1>18. RecordsRight'
  <2>1. ASSUME NEW o \in Sessions
        PROVE  /\ session'[o].turn \in Nat /\ session'[o].turn >= session[o].turn
               /\ Opened(o)' => (Opened(o) /\ session'[o].started = session[o].started)
    <3>1. session[o].turn \in Nat
      BY ChangesAre
    <3> QED BY <1>9, <3>1 DEF Opened
  <2> QED BY <1>2, <1>7, <2>1, RecordsKept DEF UndoInv, RecordsRight
<1>19. SessionRight(s)'
  BY <1>13, <1>14, <1>15 DEF SessionRight
<1> QED BY <1>2, <1>12, <1>13, <1>16, <1>17, <1>18, <1>19 DEF UndoInv

(* One more turn has its list.                                             *)
LEMMA QuietExcused ==
  ASSUME NEW s, NEW f, NEW t, writes' = writes, store'.records = store.records,
         \A q \in Requests : rewind'[q] = rewind[q] \/ ~Applying(q)', Excused(s, f, t)
  PROVE  Excused(s, f, t)'
BY DEF Excused, Calm, Unseen, Foreign, Of, Applying

LEMMA WholeAppended ==
  ASSUME ListInv, NEW s \in Sessions, WholeRight(s), writes' = writes, store'.records = store.records,
         \A q \in Requests : rewind'[q] = rewind[q] \/ ~Applying(q)', NEW entry, changes'[s] = Append(changes[s], entry),
         entry.whole => \A i \in DOMAIN writes :
           writes[i].by = s /\ writes[i].file \in Files /\ writes[i].kind \in Tools /\ writes[i].told > 0
             /\ writes[i].turn = Len(changes[s]) + 1 =>
             writes[i].file \in entry.paths \/ Excused(s, writes[i].file, writes[i].turn)
  PROVE  WholeRight(s)'
<1>1. IsSeq(changes[s])
  BY DEF ListInv, Tracked, TurnsListed
<1>2. /\ Len(changes[s]) \in Nat /\ DOMAIN changes[s] = 1..Len(changes[s])
      /\ DOMAIN changes'[s] = 1..(Len(changes[s]) + 1) /\ changes'[s][Len(changes[s]) + 1] = entry
      /\ \A t \in 1..Len(changes[s]) : changes'[s][t] = changes[s][t]
  BY <1>1, Appended
<1> SUFFICES ASSUME NEW i \in DOMAIN writes, NEW t, t = writes[i].turn, writes[i].by = s, writes[i].kind \in Tools,
                    writes[i].told > 0, t \in DOMAIN changes'[s], changes'[s][t].whole, NEW f, f = writes[i].file,
                    f \in Files, f \notin changes'[s][t].paths
             PROVE  Excused(s, f, t)'
  BY DEF WholeRight
<1>3. Excused(s, f, t)
  <2>1. CASE t = Len(changes[s]) + 1
    BY <1>2, <2>1
  <2>2. CASE t # Len(changes[s]) + 1
    <3>1. t \in 1..Len(changes[s])
      BY <1>2, <2>2
    <3> QED BY <1>2, <3>1 DEF WholeRight
  <2> QED BY <2>1, <2>2
<1> QED BY <1>3, QuietExcused

(* A session between two turns. *)
LEMMA ClosedUndo ==
  ASSUME ListInv, UndoInv, NEW s \in Sessions, writes' = writes, ~Opened(s)', session'[s].turn = session[s].turn,
         call'[s] = NoCall, snap'[s] = NoSnap, WholeRight(s)'
  PROVE  SessionRight(s)'
<1>1. SnapRight(s)'
  BY DEF SnapRight, NoSnap, Reading
<1>2. TurnNoted(s)'
  BY DEF TurnNoted, UndoInv, SessionRight
<1> QED BY <1>1, <1>2 DEF SessionRight

(* A death: no turn it cuts off has a list.                                *)
LEMMA CrashUndo ==
  ASSUME ListInv, UndoInv, Crash
  PROVE  UndoInv'
<1>1. /\ session' = [s \in Sessions |-> Closed(session[s].turn, session[s].turn)]
      /\ changes' = [s \in Sessions |->
           IF session[s].at # "idle" THEN Append(changes[s], [paths |-> {}, whole |-> FALSE]) ELSE changes[s]]
      /\ call' = [s \in Sessions |-> NoCall] /\ owners' = [f \in Files |-> NoOwner]
      /\ snap' = [s \in Sessions |-> NoSnap] /\ rewind' = [q \in Requests |-> NoRewind]
      /\ UNCHANGED <<writes, now, store>>
  BY DEF Crash
<1>0. \A q \in Requests : rewind'[q] = NoRewind /\ ~Applying(q)' /\ RewindRight(q)'
  BY <1>1 DEF RewindRight, Applying, NoRewind
<1>2. ASSUME NEW s \in Sessions
      PROVE  SessionRight(s)' /\ session'[s].turn = session[s].turn /\ ~Opened(s)' /\ session[s].turn \in Nat
  <2> DEFINE entry == [paths |-> {}, whole |-> FALSE]
  <2>1. /\ session'[s].turn = session[s].turn /\ ~Opened(s)' /\ call'[s] = NoCall /\ snap'[s] = NoSnap
        /\ session[s].turn \in Nat
    BY <1>1, ChangesAre DEF Closed, Opened
  <2>3. entry.whole = FALSE /\ (changes'[s] = Append(changes[s], entry) \/ changes'[s] = changes[s])
    BY <1>1
  <2> HIDE DEF entry
  <2>4. WholeRight(s)
    BY DEF UndoInv, SessionRight
  <2>5. WholeRight(s)'
    <3>1. CASE changes'[s] = Append(changes[s], entry)
      BY <1>0, <1>1, <2>3, <2>4, <3>1, WholeAppended
    <3>2. CASE changes'[s] = changes[s]
      <4>1. \A f, t : Excused(s, f, t) => Excused(s, f, t)'
        BY <1>0, <1>1, QuietExcused
      <4> QED BY <1>1, <2>4, <3>2, <4>1 DEF WholeRight
    <3> QED BY <2>3, <3>1, <3>2
  <2> QED BY <1>1, <2>1, <2>5, ClosedUndo
<1>3. FromRecords /\ DOMAIN rewind' = Requests /\ DOMAIN snap' = Sessions /\ \A f \in Files : owners'[f] = NoOwner
  BY <1>0, <1>1 DEF FromRecords
<1>4. PICK A \in SUBSET Sessions : A = Sessions
  OBVIOUS
<1>5. \A o \in A : /\ SessionRight(o)' /\ ~Opened(o)'
                  /\ session'[o].turn \in Nat /\ session'[o].turn >= session[o].turn
  BY <1>2, <1>4
<1>6. \A o \in Sessions \ A : FALSE
  BY <1>4
<1>7. /\ writes' = writes /\ now' \in {now, now + 1}
      /\ store'.index = store.index /\ store'.records = store.records /\ store'.trees = store.trees
  BY <1>1
<1> QED BY <1>0, <1>3, <1>5, <1>6, <1>7, OfQuiet

(* A whole list has every file that the turn wrote and was told of: only   *)
(* one that others wrote too can be left out, or one that a shell removed  *)
(* unseen.                                                                 *)
LEMMA ForeignSince ==
  ASSUME WritesShape, NEW s, NEW f, NEW m \in Nat, NEW n \in Nat, m <= n, Foreign(s, f, n)
  PROVE  Foreign(s, f, m)
<1>1. \A i \in Of(f) : writes[i].at \in Nat /\ writes[i].told \in Nat
  BY WritesAre
<1> QED BY <1>1 DEF Foreign

LEMMA EndLists ==
  ASSUME ListInv, UndoInv, NEW s \in Sessions, Opened(s), NEW i \in DOMAIN writes, writes[i].by = s,
         NEW f \in Files, writes[i].file = f, writes[i].kind \in Tools, writes[i].told > 0,
         writes[i].turn = session[s].turn, f \notin Reported(s) \cup Scanned(s)
  PROVE  Excused(s, f, session[s].turn)
<1> DEFINE started == session[s].started
<1>1. /\ started \in Nat /\ session[s].begun \in Nat /\ session[s].turn \in Nat
      /\ WritesShape /\ InTime /\ TurnNoted(s) /\ Here \in Nat
  BY HereIs DEF ListInv, ListShape, Tracked, TurnShape, UndoInv, SessionRight
<1>2. \A j \in DOMAIN writes : /\ j \in Nat /\ j > 0 /\ j <= Here /\ j \in Of(writes[j].file) /\ writes[j].at \in Nat
  BY <1>1, WritesAre
<1>3. \A j \in Of(f) : j \in DOMAIN writes /\ writes[j].file = f
  BY <1>1, WritesAre
<1>4. i \in Of(f) /\ i > session[s].begun
  <2>1. i <= session[s].begun => writes[i].turn < session[s].turn
    BY <1>1 DEF TurnNoted
  <2> QED BY <1>1, <1>2, <2>1
<1>5. Noted(s, i) /\ \A j \in DOMAIN writes : j > session[s].begun => writes[j].at >= started
  BY <1>1, <1>4 DEF TurnNoted
<1>6. /\ writes[i].kind = "write" => f \in session[s].touched
      /\ writes[i].kind = "shell" => session[s].shell
      /\ writes[i].kind \in {"write", "shell"}
  BY <1>5 DEF Noted, Tools
<1> SUFFICES ASSUME Calm(f), ~Unseen(s, f, session[s].turn) PROVE Foreign(s, f, started)
  <2>1. ASSUME Foreign(s, f, started), NEW r \in store.records, r.by = s PROVE Foreign(s, f, r.started)
    <3>1. RecordRight(r) /\ r.started \in Nat
      BY RecordsAre DEF UndoInv, RecordsRight
    <3>2. r.started <= started
      BY <2>1, <3>1 DEF RecordRight
    <3>3. PICK since \in Nat : since = r.started
      BY <3>1
    <3> QED BY <1>1, <2>1, <3>2, <3>3, ForeignSince
  <2>2. ASSUME Foreign(s, f, started), NEW q \in Requests, Applying(q), rewind[q].by = s
        PROVE  Foreign(s, f, rewind[q].started)
    <3>1. rewind[q].started \in Nat /\ rewind[q].started <= started
      BY <2>2, RewindsAre DEF UndoInv, RewindRight
    <3>2. PICK since \in Nat : since = rewind[q].started
      BY <3>1
    <3> QED BY <1>1, <2>2, <3>1, <3>2, ForeignSince
  <2> QED BY <2>1, <2>2 DEF Excused
<1>7. CASE ReportedByOthers(s, f)
  <2>1. owners[f].by \notin {None, s} /\ owners[f].at >= started /\ owners[f].at \in Nat
    BY <1>7 DEF ReportedByOthers, ListInv, ListShape
  <2>2. PICK j \in Of(f) : writes[j].by = owners[f].by /\ writes[j].told >= owners[f].at
    BY <2>1 DEF UndoInv, OwnersTold
  <2>3. writes[j].told \in Nat
    BY <1>1, WritesAre
  <2> QED BY <1>1, <2>1, <2>2, <2>3 DEF Foreign
<1>8. CASE ~ReportedByOthers(s, f) /\ Exists(f)
  <2>1. f \notin session[s].touched
    BY <1>8 DEF Reported
  <2>2. ~(Stamp(f, Here) >= started)
    BY <1>6, <1>8, <2>1 DEF Scanned
  <2>3. writes[i].at <= Stamp(f, Here) /\ Stamp(f, Here) \in Nat
    BY <1>1, <1>2, <1>4, StampsRise
  <2>4. writes[i].at >= started /\ writes[i].at \in Nat
    BY <1>2, <1>4, <1>5
  <2> QED BY <1>1, <2>2, <2>3, <2>4
<1>9. CASE ~ReportedByOthers(s, f) /\ ~Exists(f)
  <2>1. f \notin session[s].baseline
    <3>1. f \in session[s].touched => f \notin session[s].baseline
      BY DEF Reported
    <3>2. session[s].shell => f \notin session[s].baseline
      BY <1>9 DEF Scanned
    <3> QED BY <1>6, <3>1, <3>2
  <2>2. PICK j \in Of(f) : j = Last(f, Here) /\ j >= i
    <3>1. /\ Last(f, Here) = 0 => \A k \in Of(f) : k > Here
          /\ Last(f, Here) # 0 => Last(f, Here) \in Of(f) /\ \A k \in Of(f) : k <= Here => k <= Last(f, Here)
          /\ Last(f, Here) \in Nat
      BY <1>1, LastOf
    <3>2. Last(f, Here) # 0
      BY <1>1, <1>2, <1>4, <3>1
    <3> QED BY <1>2, <1>4, <3>1, <3>2
  <2>3. j \in DOMAIN writes /\ j \in Nat /\ j > 0 /\ writes[j].file = f
    BY <1>2, <1>3
  <2>4. j > session[s].begun
    BY <1>1, <1>2, <1>4, <2>2, <2>3
  <2>5. writes[j].body = Gone
    BY <1>9, <2>2, <2>3 DEF Exists, Body
  <2>6. CASE writes[j].by # s
    BY <1>5, <2>3, <2>4, <2>6 DEF Foreign
  <2>7. CASE writes[j].by = s
    <3>1. Noted(s, j)
      BY <1>1, <2>3, <2>4, <2>7 DEF TurnNoted
    <3>2. writes[j].kind = "shell" /\ writes[j].unknown /\ writes[j].turn = session[s].turn
      BY <2>1, <2>3, <2>5, <3>1 DEF Noted, Calm
    <3> QED BY <2>7, <3>2 DEF Unseen
  <2> QED BY <2>6, <2>7
<1> QED BY <1>7, <1>8, <1>9

LEMMA EndFilesUndo ==
  ASSUME ListInv, UndoInv, NEW s \in Sessions, EndFiles(s)
  PROVE  UndoInv'
<1>1. /\ Opened(s) /\ call[s] = NoCall /\ UNCHANGED <<writes, now, call, store, rewind>>
      /\ owners' = PruneOwners(s) /\ session' = [session EXCEPT ![s] = Closed(session[s].turn, session[s].opened)]
      /\ snap' = [snap EXCEPT ![s] = NoSnap]
  BY DEF EndFiles, Opened, ListInv, Tracked, CallWrote
<1>2. PICK entry : /\ changes' = [changes EXCEPT ![s] = Append(@, entry)]
                   /\ entry.whole => entry.paths = Reported(s) \cup Scanned(s)
  <2> DEFINE as(paths, whole) == [paths |-> paths, whole |-> whole]
             Goal == \E entry : /\ changes' = [changes EXCEPT ![s] = Append(@, entry)]
                                /\ entry.whole => entry.paths = Reported(s) \cup Scanned(s)
  <2>1. CASE Listed(s, Reported(s) \cup Scanned(s), TRUE)
    <3>1. PICK entry : entry = as(Reported(s) \cup Scanned(s), TRUE)
      OBVIOUS
    <3>2. changes' = [changes EXCEPT ![s] = Append(@, entry)] /\ entry.paths = Reported(s) \cup Scanned(s)
      BY <2>1, <3>1 DEF Listed
    <3> QED BY <3>2
  <2>2. ASSUME NEW paths, Listed(s, paths, FALSE) PROVE Goal
    <3>1. PICK entry : entry = as(paths, FALSE)
      OBVIOUS
    <3>2. changes' = [changes EXCEPT ![s] = Append(@, entry)] /\ ~entry.whole
      BY <2>2, <3>1 DEF Listed
    <3> QED BY <3>2
  <2>3. Listed(s, Reported(s) \cup Scanned(s), TRUE) \/ \E paths : Listed(s, paths, FALSE)
    BY DEF EndFiles
  <2> HIDE DEF as
  <2> QED BY <2>1, <2>2, <2>3
<1>3. /\ \A o \in Sessions \ {s} : session'[o] = session[o] /\ changes'[o] = changes[o] /\ call'[o] = call[o]
                                   /\ snap'[o] = snap[o]
      /\ session'[s] = Closed(session[s].turn, session[s].opened)
      /\ changes'[s] = Append(changes[s], entry)
      /\ call'[s] = NoCall /\ snap'[s] = NoSnap /\ DOMAIN snap' = Sessions /\ DOMAIN rewind' = Requests
  BY <1>1, <1>2 DEF ListInv, ListShape, UndoInv
<1>4. session'[s].turn = session[s].turn /\ ~Opened(s)' /\ SessionRight(s)
  BY <1>3 DEF Closed, Opened, UndoInv
<1>5. session[s].turn = Len(changes[s]) + 1 /\ session[s].turn \in Nat
  <2>1. /\ session[s].turn \in Nat /\ Len(changes[s]) \in Nat
        /\ Len(changes[s]) + (IF Opened(s) THEN 1 ELSE 0) = session[s].turn
    BY ChangesAre
  <2> QED BY <1>1, <2>1
<1>6. FromRecords /\ \A q \in Requests : RewindRight(q)'
  <2>1. WritesGrow /\ \A i \in DOMAIN writes' : ~(i > Here)
    BY <1>1, QuietGrows, GrownAre
  <2>2. ASSUME NEW o \in Sessions PROVE TurnGoesOn(o)
    <3>1. session[o].turn \in Nat
      BY ChangesAre
    <3>2. CASE o # s
      BY <1>3, <3>1, <3>2 DEF TurnGoesOn, Opened
    <3>3. CASE o = s
      BY <1>4, <3>1, <3>3 DEF TurnGoesOn
    <3> QED BY <3>2, <3>3
  <2>3. PICK Q \in SUBSET Requests : Q = Requests
    OBVIOUS
  <2>4. \A o \in Sessions : ~Opened(o) => changes'[o] = changes[o]
    BY <1>1, <1>3
  <2>5. \A q \in Requests : RewindRight(q)'
    BY <1>1, <2>1, <2>2, <2>3, <2>4, RewindsStay
  <2> QED BY <1>1, <2>5, FromRecordsStay
<1>7. WholeRight(s)'
  <2>1. entry.whole => \A i \in DOMAIN writes :
          writes[i].by = s /\ writes[i].file \in Files /\ writes[i].kind \in Tools /\ writes[i].told > 0
            /\ writes[i].turn = Len(changes[s]) + 1 =>
            writes[i].file \in entry.paths \/ Excused(s, writes[i].file, writes[i].turn)
    BY <1>1, <1>2, <1>5, EndLists
  <2> QED BY <1>1, <1>3, <1>4, <2>1, WholeAppended DEF SessionRight
<1>8. SessionRight(s)'
  BY <1>1, <1>3, <1>4, <1>7, ClosedUndo
<1>9. \A f \in Files : owners'[f] = owners[f] \/ owners'[f] = NoOwner
  BY <1>1 DEF PruneOwners
<1>10. PICK A \in SUBSET Sessions : A = {s}
  OBVIOUS
<1>11. \A o \in A : /\ SessionRight(o)' /\ ~Opened(o)'
                   /\ session'[o].turn \in Nat /\ session'[o].turn >= session[o].turn
  BY <1>4, <1>5, <1>8, <1>10
<1>12. /\ writes' = writes /\ now' \in {now, now + 1}
       /\ store'.index = store.index /\ store'.records = store.records /\ store'.trees = store.trees
  BY <1>1
<1> QED BY <1>3, <1>6, <1>9, <1>10, <1>11, <1>12, OfQuiet

LEMMA UndoInitially ==
  ASSUME RewindInit, RewindAssumption
  PROVE  UndoInv
<1>1. /\ now = 2 /\ session = [s \in Sessions |-> Closed(0, 0)] /\ call = [s \in Sessions |-> NoCall]
      /\ changes = [s \in Sessions |-> <<>>] /\ owners = [f \in Files |-> NoOwner]
      /\ snap = [s \in Sessions |-> NoSnap] /\ rewind = [q \in Requests |-> NoRewind]
  BY DEF RewindInit
<1>2. /\ \A i \in DOMAIN writes : /\ i = 1 /\ writes[i].at = 1 /\ writes[i].told = 0 /\ writes[i].turn = 0
                                  /\ writes[i].by = "user"
      /\ writes = <<>> \/ \E f \in AtFirst : writes = <<PastEdit(f)>> /\ store = PastStore(1)
      /\ store \in {NoStore, PastStore(0), PastStore(1)}
      /\ Here \in Nat
  BY DEF RewindInit, PastEdit, Here
<1>3. \A f, n : writes = <<>> => Last(f, n) = 0
  BY DEF Last, Of
<1>4. \A f : Last(f, 0) = 0
  BY <1>2 DEF Last, Of
<1>5. InTime
  BY <1>1, <1>2 DEF InTime
<1>6. IndexRight
  <2>1. store.index.at \in 0..now
    BY <1>1, <1>2 DEF NoStore, PastStore, NoIndex
  <2>2. CASE store = NoStore
    BY <1>1, <2>1, <2>2 DEF IndexRight, RightIndex, NoStore, NoIndex
  <2>3. CASE store = PastStore(0) /\ writes = <<>>
    BY <1>1, <1>3, <2>1, <2>3, RewindAssumption DEF IndexRight, RightIndex, PastStore, Body, Stamp, RewindAssumption
  <2>4. CASE store = PastStore(1)
    BY <2>1, <2>4 DEF IndexRight, RightIndex, PastStore
  <2> QED BY <2>2, <2>3, <2>4 DEF RewindInit
<1>7. RecordsRight
  <2>1. PastTree # NoTree
    <3>1. DOMAIN PastTree = AtFirst /\ DOMAIN NoTree = {"large"}
      BY DEF PastTree, NoTree
    <3> QED BY <3>1 DEF RewindAssumption
  <2>2. NoTree \notin store.trees
    BY <1>2, <2>1 DEF NoStore, PastStore
  <2>3. ASSUME NEW r \in store.records PROVE RecordRight(r)
    <3>1. r.by = None /\ r.turn = 1 /\ r.tree = PastTree /\ r.seen = 0 /\ r.started = 0
      BY <1>2, <2>3 DEF NoStore, PastStore
    <3>2. \A f \in Files : Before(PastTree, f) = Body(f, 0)
      BY <1>4 DEF Before, PastTree, Body
    <3>3. TreeRight(r.by, r.tree, r.seen, r.started)
      BY <1>1, <1>2, <3>1, <3>2 DEF TreeRight
    <3> QED BY <3>1, <3>3 DEF RecordRight, RewindAssumption
  <2> QED BY <2>2, <2>3 DEF RecordsRight
<1>8. OwnersTold
  BY <1>1 DEF OwnersTold, NoOwner
<1>9. ASSUME NEW s \in Sessions PROVE SessionRight(s)
  <2>1. session[s].at = "idle" /\ session[s].turn = 0 /\ call[s] = NoCall /\ snap[s].at = "none" /\ changes[s] = <<>>
    BY <1>1 DEF Closed, NoSnap
  <2>2. SnapRight(s)
    BY <2>1 DEF SnapRight, Reading
  <2>3. TurnNoted(s)
    BY <1>2, <2>1 DEF TurnNoted, Opened
  <2>4. WholeRight(s)
    BY <2>1 DEF WholeRight
  <2> QED BY <2>2, <2>3, <2>4 DEF SessionRight
<1>10. ASSUME NEW q \in Requests PROVE RewindRight(q)
  BY <1>1 DEF RewindRight, Applying, NoRewind
<1> QED BY <1>1, <1>5, <1>6, <1>7, <1>8, <1>9, <1>10 DEF UndoInv

LEMMA UndoStep ==
  ASSUME ListInv, ListInv', StoreInv, UndoInv, RewindAssumption, [RewindNext]_rewindVars
  PROVE  UndoInv'
<1>1. ASSUME NEW s \in Sessions, Snapshots(s) PROVE UndoInv'
  BY <1>1, ListFilesUndo, OverUndo, StoreFileUndo, StoreTreeUndo, WriteRecordUndo DEF Snapshots
<1>2. ASSUME NEW s \in Sessions, Turn(s) PROVE UndoInv'
  BY <1>2, BeginTurnUndo, ToolReportsUndo, ToolFailsUndo, LeaveFilesUndo, EndFilesUndo, ToolWritesUndo DEF Turn
<1>3. ASSUME NEW q \in Requests, Rewinds(q) PROVE UndoInv'
  BY <1>3, RewindStartsUndo, RewindPlansUndo, RewindEndsUndo, RewindFileUndo DEF Rewinds
<1>4. CASE UNCHANGED rewindVars
  <2>1. /\ UNCHANGED <<writes, now, session, changes, owners, snap, store, call, rewind>>
        /\ DOMAIN rewind' = Requests
    BY <1>4 DEF rewindVars, UndoInv
  <2>2. WritesGrow /\ \A i \in DOMAIN writes' : ~(i > Here)
    BY <2>1, QuietGrows, GrownAre
  <2>3. PICK Q \in SUBSET Requests : Q = Requests
    OBVIOUS
  <2>4. FromRecords /\ \A q \in Requests : RewindRight(q)'
    BY <2>1, <2>2, <2>3, FromRecordsStay, IdleRewinds
  <2> QED BY <2>1, <2>4, OfRewinds
<1> QED BY <1>1, <1>2, <1>3, <1>4, UserEditsUndo, IdleUndo, CrashUndo DEF RewindNext

(* UndoInv holds always: the records have the project as their turns       *)
(* found it, a turn's whole list has what it changed and could know of,    *)
(* and a rewind has put back what it has dealt with.                       *)
THEOREM UndoInvariant == RewindSpec => []UndoInv
<1>1. RewindInit => UndoInv
  BY UndoInitially, RewindAssumption
<1>2. ListInv /\ ListInv' /\ StoreInv /\ UndoInv /\ [RewindNext]_rewindVars => UndoInv'
  BY UndoStep, RewindAssumption
<1> QED BY <1>1, <1>2, ListInvariant, StoreInvariant, PTL DEF RewindSpec

(* What is on the lists of the turns is dealt with when the rewind ends:   *)
(* nobody else was at the file, so it has what the record has, unless      *)
(* another rewind of the session crossed it.                               *)
LEMMA FinishedUndoes ==
  ASSUME ListInv, UndoInv
  PROVE  RewindUndoes
<1> SUFFICES ASSUME NEW q \in Requests, NEW f \in Files, Finished(q), Mine(q, f) # {}, Alone(q, f),
                    \A i \in Mine(q, f) : Knowable(rewind[q].by, i), Calm(f), f \notin rewind[q].crossed
             PROVE  TakenBack(q, f)
  BY DEF RewindUndoes, Calm
<1> DEFINE to == rewind[q].to
           s == rewind[q].by
<1>1. /\ Applying(q) /\ rewind[q].todo = {} /\ session[s].turn = rewind[q].asked /\ RewindRight(q)
      /\ s \in Sessions /\ SessionRight(s)
  BY RewindsAre DEF Finished, Applying, UndoInv
<1>2. /\ rewind[q].tree # NoTree /\ TreeRight(s, rewind[q].tree, rewind[q].seen, rewind[q].started)
      /\ ~Opened(s) /\ PutBack(q) /\ rewind[q].started \in Nat /\ to \in Nat /\ to > 0
  BY <1>1, RewindsAre DEF RewindRight, Applying, NoRewind
<1>3. /\ WritesShape /\ \A i \in Of(f) : /\ i \in DOMAIN writes /\ writes[i].file = f /\ writes[i].turn \in Nat
                                         /\ writes[i].at \in Nat /\ writes[i].told \in Nat
  <2>1. WritesShape
    BY DEF ListInv, ListShape
  <2>2. \A i \in Of(f) : i \in DOMAIN writes /\ writes[i].file = f /\ writes[i].at \in Nat /\ writes[i].told \in Nat
    BY <2>1, WritesAre
  <2> QED BY <2>1, <2>2 DEF UndoInv, InTime
<1>4. ~Foreign(s, f, rewind[q].started)
  BY <1>2, <1>3 DEF Foreign, Alone
<1>5. PICK i \in Mine(q, f) : Knowable(s, i)
  OBVIOUS
<1>6. /\ i \in Of(f) /\ writes[i].by = s /\ writes[i].kind \in Tools /\ writes[i].turn >= to /\ writes[i].told > 0
      /\ changes[s][writes[i].turn].whole
  BY <1>5 DEF Mine, Knowable
<1>7. PICK t : t = writes[i].turn /\ t \in Nat /\ t >= to /\ t \in DOMAIN changes[s] /\ t \in to..Len(changes[s])
  <2>1. writes[i].turn <= session[s].turn
    BY <1>1, <1>3, <1>6 DEF SessionRight, TurnNoted
  <2>2. /\ Len(changes[s]) \in Nat /\ DOMAIN changes[s] = 1..Len(changes[s]) /\ Len(changes[s]) = session[s].turn
    <3>1. /\ Len(changes[s]) \in Nat /\ DOMAIN changes[s] = 1..Len(changes[s])
          /\ Len(changes[s]) + (IF Opened(s) THEN 1 ELSE 0) = session[s].turn
      BY <1>1, ChangesAre
    <3> QED BY <1>2, <3>1
  <2> QED BY <1>2, <1>3, <1>6, <2>1, <2>2
<1>8. f \in changes[s][t].paths
  <2>1. ASSUME Excused(s, f, t) PROVE FALSE
    <3>1. Unseen(s, f, t)
      BY <1>1, <1>4, <1>7, <2>1 DEF Excused
    <3>2. PICK j \in Of(f) : writes[j].by = s /\ writes[j].turn = t /\ writes[j].kind = "shell" /\ writes[j].unknown
      BY <3>1 DEF Unseen
    <3>3. j \in Mine(q, f)
      BY <1>7, <3>2 DEF Mine, Tools
    <3> QED BY <3>2, <3>3 DEF Knowable
  <2> QED BY <1>1, <1>3, <1>6, <1>7, <2>1 DEF SessionRight, WholeRight
<1>9. f \in ListedSince(s, to)
  BY <1>7, <1>8 DEF ListedSince
<1>10. Body(f, Here) = Before(rewind[q].tree, f)
  BY <1>1, <1>2, <1>4, <1>9 DEF PutBack
<1>11. Before(rewind[q].tree, f) = Body(f, rewind[q].seen)
  BY <1>2, <1>4 DEF TreeRight
<1> QED BY <1>10, <1>11 DEF TakenBack

(* A rewind that ends with nobody else at the file since the turn began    *)
(* has taken back what the session's tools changed in the turn or later,   *)
(* as far as the session could know of it, however many rewinds of the     *)
(* session are under way, but for the files where another of them put back *)
(* something else after this one had dealt with them: planRewind,          *)
(* applyRewind.                                                            *)
THEOREM RewindsUndo == RewindSpec => []RewindUndoes
<1>1. ListInv /\ UndoInv => RewindUndoes
  BY FinishedUndoes
<1> QED BY <1>1, ListInvariant, UndoInvariant, PTL
=============================================================================
