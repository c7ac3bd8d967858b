-------------------------- MODULE ToolCalls_proofs --------------------------
(***************************************************************************)
(* What the approvals of a session remember, the order of the results of   *)
(* its calls and the limits of a batch, for any scripts, limits and        *)
(* faults.                                                                 *)
(***************************************************************************)
EXTENDS ToolCalls, Integers, SequenceTheorems, FiniteSetTheorems, WellFoundedInduction, TLAPS

Decisions == {"once", "session", "deny", "timeout", "cancel"}
Refusals == {"deny", "timeout", "cancel"}
Entries(s) == {s[i] : i \in DOMAIN s}

(* The log is a sequence; no entry is of a turn that is still to come.     *)
LogOrdered ==
  /\ log \in Seq(Entries(log)) /\ turn \in Nat
  /\ \A i \in DOMAIN log : log[i].turn \in Nat /\ log[i].turn <= turn

(* The log and what authorize looks at agree: what was allowed for the     *)
(* session is granted, what was refused in the turn that runs is denied,   *)
(* whichever turn the one who asked belongs to.                            *)
AnswersRemembered ==
  \A i \in DOMAIN log :
    /\ log[i].record = "session" => Subject(log[i].call) \in grants
    /\ log[i].record \in Refusals /\ log[i].turn = turn => Subject(log[i].call) \in denials

DecisionKnown == q = "decided" => decision \in Decisions

(* The inductive invariant. *)
ApprovalInv == LogOrdered /\ AnswersRemembered /\ DecisionKnown /\ NotAskedTwice

-----------------------------------------------------------------------------
(* An entry more. *)
LEMMA Appended ==
  ASSUME NEW s, s \in Seq(Entries(s)), NEW e
  PROVE  /\ Append(s, e) \in Seq(Entries(Append(s, e)))
         /\ Len(s) \in Nat /\ DOMAIN s = 1..Len(s)
         /\ DOMAIN Append(s, e) = 1..(Len(s) + 1)
         /\ Append(s, e)[Len(s) + 1] = e
         /\ \A i \in 1..Len(s) : Append(s, e)[i] = s[i]
<1> DEFINE S == Entries(s) \cup {e}
           t == Append(s, e)
<1>1. Len(s) \in Nat /\ DOMAIN s = 1..Len(s) /\ \A i \in 1..Len(s) : s[i] \in Entries(s)
  BY DEF Entries
<1>2. s \in Seq(S) /\ e \in S
  BY <1>1
<1>3. /\ t \in Seq(S) /\ Len(t) = Len(s) + 1 /\ t[Len(s) + 1] = e
      /\ \A i \in 1..Len(s) : t[i] = s[i]
  BY <1>2, AppendProperties
<1>4. DOMAIN t = 1..(Len(s) + 1)
  BY <1>3
<1>5. t \in Seq(Entries(t))
  <2> HIDE DEF t
  <2>1. Len(t) \in Nat /\ DOMAIN t = 1..Len(t) /\ t = [i \in 1..Len(t) |-> t[i]]
    <3>1. Len(t) \in Nat /\ t \in [1..Len(t) -> S]
      BY <1>3, LenProperties
    <3> QED BY <3>1
  <2>2. \A i \in 1..Len(t) : t[i] \in Entries(t)
    BY <2>1 DEF Entries
  <2> QED BY <2>1, <2>2, IsASeq
<1> QED BY <1>1, <1>3, <1>4, <1>5

(* What a step does to the approvals: three actions change what is         *)
(* remembered, the others leave it alone.                                  *)
LEMMA Steps ==
  ASSUME [Next]_vars
  PROVE  /\ script' = script
         /\ \/ BeginTurn \/ Request \/ Decide
            \/ /\ UNCHANGED <<turn, grants, denials, log>>
               /\ UNCHANGED <<q, decision>> \/ q' # "decided" \/ decision' \in Decisions
<1> DEFINE Other == /\ script' = script /\ UNCHANGED <<turn, grants, denials, log>>
                    /\ UNCHANGED <<q, decision>> \/ q' # "decided" \/ decision' \in Decisions
<1>1. CASE UNCHANGED vars
  BY <1>1 DEF vars, turns
<1>2. CASE BeginTurn \/ Request \/ Decide
  BY <1>2 DEF BeginTurn, Request, Decide, turns
<1>3. CASE EndTurn \/ Cancel
  BY <1>3 DEF EndTurn, Cancel, asking, turns, Decisions
<1>4. CASE SkipCall \/ SkipFails \/ StartSingle \/ StartBatch
  BY <1>4 DEF SkipCall, SkipFails, StartSingle, StartBatch, asking, turns
<1>6. CASE RunJob
  BY <1>6 DEF RunJob, LeaveSlot, LeaveMember, TakeSlot, TakeMember, asking, turns
<1>5. ASSUME NEW c, Settle(c) \/ GiveUp(c) \/ Unwind(c) PROVE Other
  BY <1>5 DEF Settle, GiveUp, Leaves, Unwind, asking, turns
<1>7. ASSUME NEW c, FinishTool(c) \/ FinishFails(c) \/ AskApproval(c) \/ HandlerEnds(c)
      PROVE  Other
  BY <1>7 DEF FinishTool, FinishFails, AskApproval, HandlerEnds, asking, turns
<1>8. CASE AnswerUnasked \/ OpenQuestion
  BY <1>8 DEF AnswerUnasked, Answered, OpenQuestion, Decisions, turns
<1>9. ASSUME NEW d, Answer(d) PROVE Other
  BY <1>9 DEF Answer, Decisions, turns
<1> QED BY <1>1, <1>2, <1>3, <1>4, <1>5, <1>6, <1>7, <1>8, <1>9 DEF Next, Question

-----------------------------------------------------------------------------
LEMMA ApprovalInitially == Init => ApprovalInv
BY DEF Init, ApprovalInv, LogOrdered, AnswersRemembered, DecisionKnown, NotAskedTwice, Entries

(* A new turn forgets the refusals; there is none in it yet. *)
LEMMA BeginTurnKeeps ==
  ASSUME ApprovalInv, script' = script, BeginTurn
  PROVE  ApprovalInv'
<1>1. /\ turn \in Nat /\ turn' = turn + 1 /\ grants' = grants /\ log' = log /\ q' = q /\ decision' = decision
      /\ \A c : Subject(c)' = Subject(c)
  BY DEF BeginTurn, ApprovalInv, LogOrdered, Subject
<1>2. LogOrdered'
  BY <1>1 DEF ApprovalInv, LogOrdered
<1>3. AnswersRemembered'
  BY <1>1 DEF ApprovalInv, LogOrdered, AnswersRemembered
<1>4. NotAskedTwice' /\ DecisionKnown'
  BY <1>1 DEF ApprovalInv, NotAskedTwice, DecisionKnown
<1> QED BY <1>2, <1>3, <1>4 DEF ApprovalInv

(* A question is only asked about what is neither granted nor denied. *)
LEMMA RequestKeeps ==
  ASSUME ApprovalInv, script' = script, Request
  PROVE  ApprovalInv'
<1> DEFINE e == [turn |-> turn, call |-> Head(asks), record |-> "request"]
           n == Len(log) + 1
<1>1. /\ log' = Append(log, e) /\ turn' = turn /\ grants' = grants /\ denials' = denials /\ q' = "requested"
      /\ Subject(e.call) \notin grants \cup denials
      /\ \A c : Subject(c)' = Subject(c)
  BY DEF Request, Subject, turns
<1>2. /\ log' \in Seq(Entries(log')) /\ Len(log) \in Nat /\ DOMAIN log = 1..Len(log) /\ DOMAIN log' = 1..n
      /\ log'[n] = e /\ \A i \in DOMAIN log : log'[i] = log[i]
  BY <1>1, Appended DEF ApprovalInv, LogOrdered
<1>3. e.turn = turn /\ e.record = "request" /\ turn \in Nat
  BY DEF ApprovalInv, LogOrdered
<1>4. \A i \in DOMAIN log' : i \in DOMAIN log \/ i = n
  BY <1>2
<1> HIDE DEF e
<1>5. LogOrdered'
  BY <1>1, <1>2, <1>3, <1>4 DEF ApprovalInv, LogOrdered, Entries
<1>6. AnswersRemembered'
  BY <1>1, <1>2, <1>3, <1>4 DEF ApprovalInv, AnswersRemembered, Refusals
<1>7. NotAskedTwice'
  <2> SUFFICES ASSUME NEW i \in DOMAIN log', NEW j \in DOMAIN log', i < j, log'[j].record = "request",
                      Subject(log'[i].call) = Subject(log'[j].call)
               PROVE  /\ log'[i].record # "session"
                      /\ log'[i].record \in Refusals => log'[i].turn < log'[j].turn
    BY <1>1 DEF NotAskedTwice, Refusals
  <2>1. i \in DOMAIN log /\ log'[i] = log[i]
    BY <1>2
  <2>2. CASE j \in DOMAIN log
    BY <1>2, <2>1, <2>2 DEF ApprovalInv, NotAskedTwice, Refusals
  <2>3. CASE j = n
    BY <1>1, <1>2, <1>3, <2>1, <2>3 DEF ApprovalInv, LogOrdered, AnswersRemembered
  <2> QED BY <1>4, <2>2, <2>3
<1> QED BY <1>1, <1>5, <1>6, <1>7 DEF ApprovalInv, DecisionKnown

(* A decision is kept as it is logged: a grant for good, a refusal in the  *)
(* turn that runs now.                                                     *)
LEMMA DecideKeeps ==
  ASSUME ApprovalInv, script' = script, Decide
  PROVE  ApprovalInv'
<1> DEFINE e == [turn |-> turn, call |-> Head(asks), record |-> decision]
           n == Len(log) + 1
<1>1. /\ log' = Append(log, e) /\ turn' = turn /\ q' = "none" /\ decision \in Decisions
      /\ grants \subseteq grants' /\ denials \subseteq denials'
      /\ decision = "session" => Subject(e.call) \in grants'
      /\ decision \in Refusals => Subject(e.call) \in denials'
      /\ \A c : Subject(c)' = Subject(c)
  BY DEF Decide, Answered, Subject, Refusals, ApprovalInv, DecisionKnown, turns
<1>2. /\ log' \in Seq(Entries(log')) /\ Len(log) \in Nat /\ DOMAIN log = 1..Len(log) /\ DOMAIN log' = 1..n
      /\ log'[n] = e /\ \A i \in DOMAIN log : log'[i] = log[i]
  BY <1>1, Appended DEF ApprovalInv, LogOrdered
<1>3. e.turn = turn /\ e.record = decision /\ turn \in Nat /\ decision # "request"
  BY <1>1 DEF ApprovalInv, LogOrdered, Decisions
<1>4. \A i \in DOMAIN log' : i \in DOMAIN log \/ i = n
  BY <1>2
<1> HIDE DEF e
<1>5. LogOrdered'
  BY <1>1, <1>2, <1>3, <1>4 DEF ApprovalInv, LogOrdered, Entries
<1>6. AnswersRemembered'
  BY <1>1, <1>2, <1>3, <1>4 DEF ApprovalInv, AnswersRemembered, Refusals
<1>7. NotAskedTwice'
  <2> SUFFICES ASSUME NEW i \in DOMAIN log', NEW j \in DOMAIN log', i < j, log'[j].record = "request",
                      Subject(log'[i].call) = Subject(log'[j].call)
               PROVE  /\ log'[i].record # "session"
                      /\ log'[i].record \in Refusals => log'[i].turn < log'[j].turn
    BY <1>1 DEF NotAskedTwice, Refusals
  <2>1. j \in DOMAIN log /\ i \in DOMAIN log
    BY <1>2, <1>3, <1>4
  <2> QED BY <1>2, <2>1 DEF ApprovalInv, NotAskedTwice, Refusals
<1> QED BY <1>1, <1>5, <1>6, <1>7 DEF ApprovalInv, DecisionKnown

LEMMA OthersKeep ==
  ASSUME ApprovalInv, script' = script, UNCHANGED <<turn, grants, denials, log>>,
         UNCHANGED <<q, decision>> \/ q' # "decided" \/ decision' \in Decisions
  PROVE  ApprovalInv'
BY DEF ApprovalInv, LogOrdered, AnswersRemembered, DecisionKnown, NotAskedTwice, Subject

(* ApprovalInv is inductive. *)
THEOREM ApprovalInvariant == Spec => []ApprovalInv
<1>1. ApprovalInv /\ [Next]_vars => ApprovalInv'
  BY Steps, BeginTurnKeeps, RequestKeeps, DecideKeeps, OthersKeep
<1> QED BY <1>1, ApprovalInitially, PTL DEF Spec

(* Whatever calls a turn makes and however their questions, those of       *)
(* handlers that outlive their calls and the ends of turns meet, nobody is *)
(* asked again for what was allowed for the session, nor in one turn for   *)
(* what was refused in it (authorize, turnDenials, sessionGrants).         *)
THEOREM NobodyIsAskedTwice == Spec => []NotAskedTwice
<1>1. ApprovalInv => NotAskedTwice
  BY DEF ApprovalInv
<1> QED BY <1>1, ApprovalInvariant, PTL
-----------------------------------------------------------------------------
(* A fold over a batch is the last of a row of batches, each of them the   *)
(* one before with a call more.                                            *)
LEMMA LeastOf ==
  ASSUME NEW T, T \subseteq Nat, T # {}
  PROVE  \E n \in T : \A m \in T : n <= m
<1>1. IsWellFoundedOn(OpToRel(<, Nat), Nat)
  BY NatLessThanWellFounded
<1>2. PICK x \in T : \A y \in T : ~ (<<y, x>> \in OpToRel(<, Nat))
  BY <1>1, WFMin
<1>3. \A y \in T : y \in Nat /\ x \in Nat
  OBVIOUS
<1>4. \A y \in T : ~(y < x)
  BY <1>2, <1>3 DEF OpToRel
<1> QED BY <1>4, <1>3

Filled(b, s) == FoldLeft(Enter, b, s)
Row(F, b, s, n) == F[0] = b /\ Filled(b, s) = F[n] /\ \A k \in 1..n : F[k] = Enter(F[k - 1], s[k])

LEMMA FoldOfABatch ==
  ASSUME NEW s, NEW n \in Nat, DOMAIN s = 1..n, NEW b
  PROVE  \E F : Row(F, b, s, n)
<1> DEFINE D == 1..n
           Body(f, S) == IF S = {} THEN b ELSE Enter(f[S \ {Max(S)}], s[Max(S)])
           R(f) == f = [S \in SUBSET D |-> Body(f, S)]
           UpTo(S, k) == \A i \in S : i <= k
           Part(k) == \E f : \A S \in SUBSET D : UpTo(S, k) => f[S] = Body(f, S)
<1>1. Filled(b, s) = (CHOOSE f : R(f))[D]
  BY DEF Filled, FoldLeft, MapThenFoldSet
<1>2. \A k \in D : \A S \in SUBSET D : UpTo(S, k) /\ k \in S => Max(S) = k
  <2> SUFFICES ASSUME NEW k \in D, NEW S \in SUBSET D, UpTo(S, k), k \in S PROVE Max(S) = k
    OBVIOUS
  <2>1. \A x \in S : x \in Nat /\ x <= k
    OBVIOUS
  <2>2. \A x \in S : (\A y \in S : x >= y) => x = k
    BY <2>1
  <2>3. \A y \in S : k >= y
    BY <2>1
  <2> HIDE DEF D, UpTo
  <2> QED BY <2>2, <2>3 DEF Max
<1>3. \A k \in Nat : Part(k)
  <2>1. Part(0)
    <3>1. \A S \in SUBSET D : UpTo(S, 0) => S = {}
      OBVIOUS
    <3>2. \A S \in SUBSET D : UpTo(S, 0) => [T \in SUBSET D |-> b][S] = Body([T \in SUBSET D |-> b], S)
      BY <3>1
    <3> QED BY <3>2
  <2>2. ASSUME NEW k \in Nat, Part(k) PROVE Part(k + 1)
    <3>1. PICK f : \A S \in SUBSET D : UpTo(S, k) => f[S] = Body(f, S)
      BY <2>2
    <3> DEFINE g == [S \in SUBSET D |-> IF UpTo(S, k) THEN f[S] ELSE Body(f, S)]
    <3>2. SUFFICES ASSUME NEW S \in SUBSET D, UpTo(S, k + 1) PROVE g[S] = Body(g, S)
      OBVIOUS
    <3>3. CASE S = {}
      BY <3>1, <3>3
    <3>4. CASE S # {} /\ UpTo(S, k)
      <4>1. Max(S) \in S
        <5>1. S \subseteq Nat /\ \A i \in S : i <= k
          BY <3>4
        <5> DEFINE Bounds == {m \in 0..k : \A i \in S : i <= m}
        <5>2. PICK m \in Bounds : \A l \in Bounds : m <= l
          <6>1. k \in Bounds /\ Bounds \subseteq Nat
            BY <5>1
          <6> HIDE DEF Bounds
          <6> QED BY <6>1, LeastOf
        <5>3. m \in S
          <6>1. CASE m = 0
            <7>1. \A i \in S : i \in Nat /\ i >= 1
              BY <3>4
            <7>2. PICK i \in S : TRUE
              BY <3>4
            <7>3. i <= 0
              BY <5>2, <6>1
            <7> QED BY <7>1, <7>3
          <6>2. CASE m # 0
            <7>1. m - 1 \notin Bounds /\ m - 1 \in 0..k
              BY <5>2, <6>2
            <7>2. PICK i \in S : ~(i <= m - 1)
              BY <7>1
            <7> QED BY <7>2, <5>1, <5>2
          <6> QED BY <6>1, <6>2
        <5> QED BY <5>1, <5>2, <5>3 DEF Max
      <4>2. S \ {Max(S)} \in SUBSET D /\ UpTo(S \ {Max(S)}, k)
        BY <3>4
      <4> QED BY <3>1, <3>4, <4>2
    <3>5. CASE S # {} /\ ~UpTo(S, k)
      <4>1. k + 1 \in S /\ k + 1 \in D
        BY <3>2, <3>5
      <4>2. Max(S) = k + 1
        BY <1>2, <3>2, <4>1
      <4>3. S \ {k + 1} \in SUBSET D /\ UpTo(S \ {k + 1}, k)
        BY <3>2
      <4>4. g[S \ {Max(S)}] = f[S \ {Max(S)}]
        BY <4>2, <4>3
      <4> QED BY <3>5, <4>4
    <3> QED BY <3>3, <3>4, <3>5
  <2> DEFINE T == {k \in Nat : ~Part(k)}
  <2>3. CASE T # {}
    <3>1. PICK k \in T : \A m \in T : k <= m
      <4>1. T \subseteq Nat
        OBVIOUS
      <4> HIDE DEF T
      <4> QED BY <2>3, <4>1, LeastOf
    <3> HIDE DEF Part
    <3>2. k # 0 /\ k - 1 \in Nat /\ k - 1 \notin T
      BY <2>1, <3>1
    <3>3. Part(k - 1) /\ k - 1 + 1 = k
      BY <3>1, <3>2
    <3> QED BY <2>2, <3>1, <3>2, <3>3
  <2> QED BY <2>3
<1>4. \E f : R(f)
  <2>1. PICK f : \A S \in SUBSET D : UpTo(S, n) => f[S] = Body(f, S)
    BY <1>3
  <2>2. \A S \in SUBSET D : UpTo(S, n) /\ S \ {Max(S)} \in SUBSET D
    <3> SUFFICES ASSUME NEW S \in SUBSET D PROVE UpTo(S, n) /\ S \ {Max(S)} \in SUBSET D
      OBVIOUS
    <3>1. \A i \in S : i \in 1..n
      OBVIOUS
    <3>2. S \ {Max(S)} \in SUBSET D
      <4> HIDE DEF D
      <4> QED OBVIOUS
    <3> QED BY <3>1, <3>2
  <2> DEFINE g == [S \in SUBSET D |-> f[S]]
  <2>3. \A S \in SUBSET D : g[S] = Body(g, S)
    BY <2>1, <2>2
  <2>4. g = [S \in SUBSET D |-> g[S]]
    OBVIOUS
  <2>5. R(g)
    <3> HIDE DEF g
    <3> QED BY <2>3, <2>4
  <2> QED BY <2>5
<1> DEFINE f == CHOOSE f : R(f)
<1>5. R(f)
  BY <1>4
<1> DEFINE F == [k \in 0..n |-> f[1..k]]
<1>6. F[0] = b
  <2>1. 1..0 = {} /\ 1..0 \in SUBSET D /\ F[0] = f[1..0]
    OBVIOUS
  <2>2. f[1..0] = Body(f, 1..0)
    <3> HIDE DEF f, Body
    <3> QED BY <1>5, <2>1
  <2> QED BY <2>1, <2>2
<1>7. ASSUME NEW k \in 1..n PROVE F[k] = Enter(F[k - 1], s[k])
  <2>1. 1..k \in SUBSET D /\ UpTo(1..k, k) /\ k \in 1..k /\ k \in D /\ 1..k # {}
    OBVIOUS
  <2>2. Max(1..k) = k
    BY <1>2, <2>1
  <2>3. (1..k) \ {k} = 1..(k - 1) /\ k - 1 \in 0..n
    OBVIOUS
  <2>4. f[1..k] = Body(f, 1..k)
    <3> HIDE DEF f, Body
    <3> QED BY <1>5, <2>1
  <2>5. F[k] = f[1..k] /\ F[k - 1] = f[1..(k - 1)]
    BY <2>3
  <2> HIDE DEF f, F
  <2> QED BY <2>1, <2>2, <2>3, <2>4, <2>5
<1>8. F[n] = Filled(b, s)
  BY <1>1
<1> HIDE DEF F
<1> QED BY <1>6, <1>7, <1>8 DEF Row
-----------------------------------------------------------------------------
(* The calls of a turn, the results that are written, and the limits.      *)

Stages == {"new", "authorize", "waiting", "run", "unwind", "leaving", "settled", "written"}
Takes == {"takeSlot", "takeMember"}
JobNames == Takes \cup {"leaveSlot", "leaveMember"}
Places == Nat \X Nat
LimitStates == [active : Int, waiting : Seq(Places)]
JobRecords == [job : JobNames, call : Places]
Turns == DOMAIN script

CallsTypeOK ==
  /\ script \in Scripts /\ turn \in 0..Len(script) /\ phase \in {"idle", "running"}
  /\ phase = "running" => turn # 0
  /\ stage \in [Calls -> Stages] /\ batch \in [Turns -> Seq(Places)] /\ written \in Seq(Places)
  /\ slots \in [Turns -> LimitStates] /\ members \in [Turns -> LimitStates]
  /\ jobs \in [Turns -> Seq(JobRecords)]

(* What is before a call of S in the same turn is in S. *)
Closed(S) == \A c \in Calls, d \in S : c[1] = d[1] /\ c[2] < d[2] => c \in S
InBatch(c) == c \in ToSet(batch[c[1]])
Started == Written \cup {c \in Calls : InBatch(c)}

(* The inductive invariant of the results: each batch is a stretch of its  *)
(* turn; what is written of a turn, with its batch and without it, is all  *)
(* that comes before some call; and only a failed turn is left incomplete. *)
Stretch ==
  \A t \in Turns : \A i \in DOMAIN batch[t] :
    batch[t][i] \in Calls /\ batch[t][i] = <<t, batch[t][1][2] + (i - 1)>>
InOrder ==
  /\ \A i \in DOMAIN written : written[i] \in Calls
  /\ \A i, j \in DOMAIN written : i < j => Before(written[i], written[j])
StagesTell ==
  \A c \in Calls : (stage[c] = "new" <=> c \notin Started) /\ (stage[c] = "written" <=> c \in Written)
TurnsWhole ==
  /\ \A c \in Calls : (c[1] < turn => c \in Written \/ c[1] \in failed) /\ (c \in Written => c[1] <= turn)
  /\ phase = "idle" => \A c \in Calls : c[1] = turn => c \in Written \/ turn \in failed
OrderInv == Stretch /\ InOrder /\ Closed(Written) /\ Closed(Started) /\ StagesTell /\ TurnsWhole

(* Who waits in the limits of a turn, or is named by a job, is a call of   *)
(* that turn and is there once, and its stage says so.                     *)
Distinct(s) == \A i, j \in DOMAIN s : i # j => s[i] # s[j]
Own(at, c) == c \in Calls /\ c[1] = at
InLine(at, s) == \A c \in ToSet(s) : Own(at, c) /\ stage[c] = "waiting"
Apart(at) ==
  /\ Distinct(slots[at].waiting) /\ Distinct(members[at].waiting) /\ Distinct(jobs[at])
  /\ ToSet(slots[at].waiting) \cap ToSet(members[at].waiting) = {}
  /\ \A a \in ToSet(jobs[at]) : a.call \notin ToSet(slots[at].waiting) \cup ToSet(members[at].waiting)
  /\ \A a, b \in ToSet(jobs[at]) : a.call = b.call => a = b
Known(at) ==
  /\ InLine(at, slots[at].waiting) /\ InLine(at, members[at].waiting)
  /\ \A a \in ToSet(jobs[at]) :
       Own(at, a.call) /\ stage[a.call] = IF a.job \in Takes THEN "waiting" ELSE "leaving"
  /\ \A c \in ToSet(members[at].waiting) : Kind(c) = "delegate"
  /\ \A a \in ToSet(jobs[at]) : a.job \in {"takeMember", "leaveMember"} => Kind(a.call) = "delegate"
  /\ \A c \in Calls : c[1] = at /\ stage[c] = "authorize" => Len(batch[at]) = 1
TokenInv(at) == Apart(at) /\ Known(at)

(* What the limits of a turn count. *)
Awaited(at, name) == {a \in ToSet(jobs[at]) : a.job = name}
Named(at, name, c) == [job |-> name, call |-> c] \in ToSet(jobs[at])
InSlot(at) == {c \in ToSet(batch[at]) : stage[c] \in {"run", "unwind"} \/ Named(at, "leaveSlot", c)}
InMember(at) ==
  {c \in Delegates(at) :
     \/ stage[c] \in {"run", "unwind", "leaving"}
     \/ stage[c] = "waiting" /\ c \notin ToSet(members[at].waiting) /\ ~Named(at, "takeMember", c)}
Counts(at) ==
  /\ slots[at].active = Cardinality(InSlot(at)) /\ members[at].active = Cardinality(InMember(at))
  /\ members[at].active + Cardinality(Awaited(at, "takeMember")) <= MaxMembers
  /\ slots[at].active + Cardinality(Awaited(at, "takeSlot")) + Len(members[at].waiting)
       + Cardinality(Awaited(at, "takeMember")) <= MaxCalls + Latecomers(at)
  /\ slots[at].waiting # <<>> => slots[at].active + Cardinality(Awaited(at, "takeSlot")) >= MaxCalls
  /\ members[at].waiting # <<>> => members[at].active + Cardinality(Awaited(at, "takeMember")) >= MaxMembers
CountInv(at) == Len(batch[at]) > 1 => Counts(at)

(* The invariant, for one turn and for all. *)
TurnInv(at) == CallsTypeOK /\ OrderInv /\ TokenInv(at) /\ CountInv(at)
CallsInv == CallsTypeOK /\ OrderInv /\ \A at \in Turns : TokenInv(at) /\ CountInv(at)

-----------------------------------------------------------------------------
(* Sequences without repetition, and their sets.                           *)
LEMMA SetOf ==
  ASSUME NEW S, NEW s \in Seq(S)
  PROVE  /\ Len(s) \in Nat /\ DOMAIN s = 1..Len(s) /\ ToSet(s) \subseteq S
         /\ \A i \in 1..Len(s) : s[i] \in S /\ s[i] \in ToSet(s)
         /\ s # <<>> => Len(s) > 0 /\ Head(s) = s[1]
         /\ s = <<>> => ToSet(s) = {}
         /\ IsFiniteSet(ToSet(s))
<1>1. Len(s) \in Nat /\ DOMAIN s = 1..Len(s) /\ \A i \in 1..Len(s) : s[i] \in S /\ s[i] \in ToSet(s)
  BY LenProperties, ElementOfSeq DEF ToSet
<1>2. s # <<>> => Len(s) > 0 /\ Head(s) = s[1]
  BY <1>1, EmptySeq
<1>3. IsFiniteSet(ToSet(s))
  <2>1. [i \in 1..Len(s) |-> s[i]] \in Surjection(1..Len(s), ToSet(s))
    BY <1>1 DEF ToSet, Surjection
  <2>2. IsFiniteSet(1..Len(s))
    BY <1>1, FS_Interval
  <2> QED BY <2>1, <2>2, FS_Surjection
<1>4. ToSet(s) \subseteq S
  BY <1>1 DEF ToSet
<1>5. s = <<>> => ToSet(s) = {}
  BY <1>1 DEF ToSet
<1> QED BY <1>1, <1>2, <1>3, <1>4, <1>5

Longer(s, t, e) == Len(t) = Len(s) + 1 /\ t[Len(s) + 1] = e /\ \A i \in 1..Len(s) : t[i] = s[i]

LEMMA LongerSet ==
  ASSUME NEW S, NEW s \in Seq(S), NEW e \in S, NEW t \in Seq(S), Longer(s, t, e)
  PROVE  /\ Len(t) = Len(s) + 1 /\ ToSet(t) = ToSet(s) \cup {e} /\ t # <<>>
         /\ Distinct(s) /\ e \notin ToSet(s) => Distinct(t)
<1>1. /\ Len(t) = Len(s) + 1 /\ t # <<>>
      /\ \A i \in 1..Len(s) : t[i] = s[i]
      /\ t[Len(s) + 1] = e
  BY LenProperties, EmptySeq DEF Longer
<1>2. /\ Len(s) \in Nat /\ DOMAIN s = 1..Len(s) /\ DOMAIN t = 1..(Len(s) + 1)
      /\ \A i \in 1..Len(s) : s[i] \in ToSet(s)
  BY <1>1, SetOf
<1>3. ToSet(t) = ToSet(s) \cup {e}
  <2>1. \A x \in ToSet(t) : x \in ToSet(s) \cup {e}
    <3> SUFFICES ASSUME NEW i \in DOMAIN t PROVE t[i] \in ToSet(s) \cup {e}
      BY DEF ToSet
    <3> QED BY <1>1, <1>2
  <2>2. \A x \in ToSet(s) : x \in ToSet(t)
    <3> SUFFICES ASSUME NEW i \in DOMAIN s PROVE s[i] \in ToSet(t)
      BY DEF ToSet
    <3>1. t[i] = s[i] /\ i \in DOMAIN t
      BY <1>1, <1>2
    <3> QED BY <3>1 DEF ToSet
  <2>3. e \in ToSet(t)
    <3>1. Len(s) + 1 \in DOMAIN t
      BY <1>2
    <3> QED BY <1>1, <3>1 DEF ToSet
  <2> QED BY <2>1, <2>2, <2>3
<1>4. Distinct(s) /\ e \notin ToSet(s) => Distinct(t)
  <2> SUFFICES ASSUME Distinct(s), e \notin ToSet(s), NEW i \in DOMAIN t, NEW j \in DOMAIN t, i # j
               PROVE t[i] # t[j]
    BY DEF Distinct
  <2>1. CASE i \in 1..Len(s) /\ j \in 1..Len(s)
    BY <1>1, <1>2, <2>1 DEF Distinct
  <2>2. CASE i = Len(s) + 1 \/ j = Len(s) + 1
    BY <1>1, <1>2, <2>2
  <2> QED BY <1>2, <2>1, <2>2
<1> QED BY <1>1, <1>3, <1>4

LEMMA ShorterSet ==
  ASSUME NEW S, NEW s \in Seq(S), s # <<>>, Distinct(s)
  PROVE  /\ Tail(s) \in Seq(S) /\ Len(Tail(s)) = Len(s) - 1 /\ Distinct(Tail(s))
         /\ Head(s) \in ToSet(s) /\ Head(s) \in S /\ ToSet(Tail(s)) = ToSet(s) \ {Head(s)}
<1> DEFINE t == Tail(s)
<1>1. t \in Seq(S) /\ Len(t) = Len(s) - 1 /\ \A i \in 1..Len(t) : t[i] = s[i + 1]
  BY HeadTailProperties
<1>2. /\ Len(s) \in Nat /\ Len(s) > 0 /\ DOMAIN s = 1..Len(s) /\ DOMAIN t = 1..(Len(s) - 1) /\ Head(s) = s[1]
      /\ \A i \in 1..Len(s) : s[i] \in ToSet(s) /\ s[i] \in S
  BY <1>1, SetOf
<1> HIDE DEF t
<1>3. Distinct(t)
  <2> SUFFICES ASSUME NEW i \in DOMAIN t, NEW j \in DOMAIN t, i # j PROVE t[i] # t[j]
    BY DEF Distinct
  <2>1. t[i] = s[i + 1] /\ t[j] = s[j + 1] /\ i + 1 \in DOMAIN s /\ j + 1 \in DOMAIN s /\ i + 1 # j + 1
    BY <1>1, <1>2
  <2> QED BY <2>1 DEF Distinct
<1>4. ToSet(t) = ToSet(s) \ {Head(s)}
  <2>1. \A x \in ToSet(t) : x \in ToSet(s) /\ x # Head(s)
    <3> SUFFICES ASSUME NEW i \in DOMAIN t PROVE t[i] \in ToSet(s) /\ t[i] # Head(s)
      BY DEF ToSet
    <3> QED BY <1>1, <1>2 DEF Distinct
  <2>2. \A x \in ToSet(s) : x = Head(s) \/ x \in ToSet(t)
    <3> SUFFICES ASSUME NEW i \in DOMAIN s, i # 1 PROVE s[i] \in ToSet(t)
      BY <1>2 DEF ToSet
    <3>1. t[i - 1] = s[i] /\ i - 1 \in DOMAIN t
      BY <1>1, <1>2
    <3> QED BY <3>1 DEF ToSet
  <2> QED BY <2>1, <2>2
<1>5. Head(s) \in ToSet(s) /\ Head(s) \in S
  BY <1>2
<1> QED BY <1>1, <1>3, <1>4, <1>5 DEF t

(* The calls of a script. *)
LEMMA CallsAre ==
  ASSUME script \in Scripts
  PROVE  /\ Len(script) \in Nat
         /\ \A t \in 1..Len(script) : Len(script[t]) \in Nat
         /\ \A t \in 1..Len(script) : \A i \in 1..Len(script[t]) : <<t, i>> \in Calls
         /\ \A c \in Calls : /\ c[1] \in 1..Len(script) /\ c[2] \in 1..Len(script[c[1]])
                             /\ c = <<c[1], c[2]>> /\ c \in Places
<1> DEFINE C == [kind : Kinds, subject : Subjects]
<1>1. script \in Seq(Seq(C))
  BY ScriptsAssumption
<1>2. Len(script) \in Nat /\ DOMAIN script = 1..Len(script) /\ \A t \in 1..Len(script) : script[t] \in Seq(C)
  BY <1>1, LenProperties, ElementOfSeq
<1>3. \A t \in 1..Len(script) : Len(script[t]) \in Nat /\ DOMAIN script[t] = 1..Len(script[t])
  BY <1>2, LenProperties
<1>4. \A t \in 1..Len(script) : \A i \in 1..Len(script[t]) : <<t, i>> \in Calls
  BY <1>2, <1>3 DEF Calls
<1>5. ASSUME NEW c \in Calls
      PROVE  c[1] \in 1..Len(script) /\ c[2] \in 1..Len(script[c[1]]) /\ c = <<c[1], c[2]>> /\ c \in Places
  <2>1. PICK t \in DOMAIN script : c \in {<<t, i>> : i \in DOMAIN script[t]}
    BY DEF Calls
  <2>2. PICK i \in DOMAIN script[t] : c = <<t, i>>
    BY <2>1
  <2> QED BY <2>1, <2>2, <1>2, <1>3 DEF Places
<1> QED BY <1>2, <1>3, <1>4, <1>5

LEMMA SameScript ==
  ASSUME script' = script
  PROVE  Calls' = Calls /\ \A c : Kind(c)' = Kind(c) /\ Subject(c)' = Subject(c)
BY DEF Calls, Kind, Subject
-----------------------------------------------------------------------------
(* The order of the calls. *)
LEMMA BeforeIsOrder ==
  ASSUME script \in Scripts
  PROVE  /\ \A c, d \in Calls : Before(c, d) \/ Before(d, c) \/ c = d
         /\ \A c, d \in Calls : ~(Before(c, d) /\ Before(d, c)) /\ ~Before(c, c)
         /\ \A c, d, e \in Calls : Before(c, d) /\ Before(d, e) => Before(c, e)
<1>1. \A c \in Calls : c[1] \in Nat /\ c[2] \in Nat /\ c = <<c[1], c[2]>>
  BY CallsAre
<1>2. \A c, d \in Calls : Before(c, d) \/ Before(d, c) \/ c = d
  BY <1>1 DEF Before
<1>3. \A c, d \in Calls : ~(Before(c, d) /\ Before(d, c)) /\ ~Before(c, c)
  BY <1>1 DEF Before
<1>4. \A c, d, e \in Calls : Before(c, d) /\ Before(d, e) => Before(c, e)
  <2> SUFFICES ASSUME NEW c \in Calls, NEW d \in Calls, NEW e \in Calls, Before(c, d), Before(d, e)
               PROVE Before(c, e)
    OBVIOUS
  <2> QED BY <1>1 DEF Before
<1> QED BY <1>2, <1>3, <1>4

(* A batch begins with the first call without a result and takes the next  *)
(* ones of the turn, which have none either.                               *)
LEMMA NextBatchIs ==
  ASSUME CallsTypeOK, OrderInv, batch[turn] = <<>>, Unanswered # {}
  PROVE  /\ NextBatch \in Seq(Places) /\ Len(NextBatch) \in Nat \ {0}
         /\ \A i \in 1..Len(NextBatch) :
              /\ NextBatch[i] \in Calls /\ NextBatch[i] = <<turn, NextBatch[1][2] + (i - 1)>>
              /\ stage[NextBatch[i]] = "new"
         /\ \A c \in ToSet(NextBatch) : \A d \in Written : Before(d, c)
         /\ Closed(Written \cup ToSet(NextBatch))
<1> DEFINE B == NextBatch
           c == FirstLeft
           L == Len(script[turn])
           Fits(n) == Together(c, n) /\ (n = L \/ ~Together(c, n + 1))
           last == IF Concurrent(c) THEN CHOOSE n \in c[2]..L : Fits(n) ELSE c[2]
<1>1. /\ Written \subseteq Calls /\ \A d \in Written : d[1] <= turn
      /\ \A d \in Calls : d[1] = turn => (stage[d] = "new" <=> d \notin Written)
    <2>1. ToSet(batch[turn]) = {}
      BY DEF ToSet
    <2>2. \A d \in Calls : d[1] = turn => (d \in Started <=> d \in Written)
      BY <2>1 DEF Started, InBatch
    <2>3. Written \subseteq Calls
      BY DEF OrderInv, InOrder, Written, ToSet
    <2> QED BY <2>2, <2>3 DEF OrderInv, StagesTell, TurnsWhole
<1>2. \A d \in Calls : /\ d[1] \in 1..Len(script) /\ d[2] \in 1..Len(script[d[1]]) /\ d = <<d[1], d[2]>>
                       /\ d[1] \in Nat /\ d[2] \in Nat
  BY CallsAre DEF CallsTypeOK
<1>3. c \in Unanswered /\ \A d \in Unanswered : c[2] <= d[2]
  <2> DEFINE T == {d[2] : d \in Unanswered}
  <2>1. T # {} /\ T \subseteq Nat
    BY <1>2 DEF Unanswered
  <2> HIDE DEF T
  <2>2. PICK n \in T : \A m \in T : n <= m
    BY <2>1, LeastOf
  <2> USE DEF T
  <2>3. PICK d \in Unanswered : d[2] = n
    BY <2>2
  <2>4. \A e \in Unanswered : d[2] <= e[2]
    BY <2>2, <2>3
  <2> QED BY <2>4 DEF FirstLeft
<1>4. /\ c \in Calls /\ c[1] = turn /\ stage[c] = "new" /\ c = <<turn, c[2]>>
      /\ turn \in 1..Len(script) /\ L \in Nat /\ c[2] \in 1..L
  BY <1>2, <1>3, CallsAre DEF Unanswered, CallsTypeOK
<1> HIDE DEF c
<1>5. last \in c[2]..L
  <2>1. CASE Concurrent(c)
    <3> DEFINE T == {n \in c[2]..L : ~Together(c, n)}
    <3>1. \E n \in c[2]..L : Fits(n)
      <4>1. CASE T = {}
        BY <1>4, <4>1
      <4>2. CASE T # {}
        <5>1. PICK m \in T : \A n \in T : m <= n
          <6>1. T \subseteq Nat
            BY <1>4
          <6> HIDE DEF T
          <6> QED BY <4>2, <6>1, LeastOf
        <5>2. Together(c, c[2])
          <6>1. \A i \in c[2]..c[2] : <<c[1], i>> = c
            BY <1>4
          <6> QED BY <2>1, <6>1 DEF Together
        <5>3. m # c[2] /\ m - 1 \in c[2]..L /\ m - 1 \notin T /\ m - 1 + 1 = m
          BY <1>4, <5>1, <5>2
        <5> QED BY <5>1, <5>3
      <4> QED BY <4>1, <4>2
    <3> HIDE DEF Fits
    <3> QED BY <2>1, <3>1
  <2>2. CASE ~Concurrent(c)
    BY <1>4, <2>2
  <2> QED BY <2>1, <2>2
<1>6. B = [i \in 1..(last - c[2] + 1) |-> <<turn, c[2] + i - 1>>]
  BY DEF NextBatch, c
<1> HIDE DEF last, L, B
<1>7. /\ B \in Seq(Places) /\ Len(B) = last - c[2] + 1 /\ Len(B) \in Nat \ {0} /\ DOMAIN B = 1..Len(B)
      /\ \A i \in 1..Len(B) : B[i] = <<turn, c[2] + i - 1>>
  <2>1. last - c[2] + 1 \in Nat \ {0} /\ turn \in Nat /\ c[2] \in Nat
    BY <1>2, <1>4, <1>5
  <2>2. \A i \in 1..(last - c[2] + 1) : <<turn, c[2] + i - 1>> \in Places
    BY <2>1 DEF Places
  <2>3. ASSUME NEW n \in Nat, B \in [1..n -> Places] PROVE B \in Seq(Places) /\ Len(B) = n /\ DOMAIN B = 1..n
    BY <2>3
  <2>4. B \in [1..(last - c[2] + 1) -> Places] /\ \A i \in 1..(last - c[2] + 1) : B[i] = <<turn, c[2] + i - 1>>
    BY <1>6, <2>2
  <2>5. B \in Seq(Places) /\ Len(B) = last - c[2] + 1 /\ DOMAIN B = 1..(last - c[2] + 1)
    BY <2>1, <2>3, <2>4
  <2> QED BY <2>1, <2>4, <2>5
<1>8. \A i \in 1..Len(B) : B[i] \in Calls
  <2> SUFFICES ASSUME NEW i \in 1..Len(B) PROVE B[i] \in Calls
    OBVIOUS
  <2>1. c[2] + i - 1 \in 1..L
    BY <1>4, <1>5, <1>7
  <2>2. PICK j : j = c[2] + i - 1
    OBVIOUS
  <2>3. <<turn, j>> \in Calls
    BY <1>4, <2>1, <2>2, CallsAre DEF CallsTypeOK, L
  <2>4. B[i] = <<turn, j>>
    BY <1>7, <2>2
  <2> QED BY <2>3, <2>4
<1>9. B[1][2] = c[2] /\ \A i \in 1..Len(B) : B[i] = <<turn, B[1][2] + (i - 1)>>
  <2>1. B[1] = <<turn, c[2] + 1 - 1>> /\ c[2] \in Nat
    BY <1>7, <1>4, <1>2
  <2>2. B[1][2] = c[2]
    BY <2>1
  <2>3. \A i \in 1..Len(B) : c[2] + i - 1 = c[2] + (i - 1)
    BY <1>7, <2>1
  <2> QED BY <1>7, <2>2, <2>3
<1>10. \A i \in 1..Len(B) : B[i] \notin Written /\ stage[B[i]] = "new"
  <2> SUFFICES ASSUME NEW i \in 1..Len(B), B[i] \in Written PROVE FALSE
    BY <1>1, <1>7, <1>8
  <2>1. c = B[i] \/ (c[1] = B[i][1] /\ c[2] < B[i][2])
    <3>1. B[i] = <<turn, c[2] + i - 1>> /\ c = <<turn, c[2]>> /\ c[2] \in Nat
      BY <1>2, <1>4, <1>7
    <3>2. i = 1 \/ c[2] < c[2] + i - 1
      BY <3>1
    <3> QED BY <3>1, <3>2
  <2>2. c \in Written
    BY <1>4, <2>1 DEF OrderInv, Closed
  <2> QED BY <1>1, <1>4, <2>2
<1>11. \A e \in ToSet(B) : e \in Calls /\ e \notin Written /\ e[1] = turn /\ c[2] <= e[2]
  <2> SUFFICES ASSUME NEW i \in 1..Len(B) PROVE B[i] \in Calls /\ B[i] \notin Written /\ B[i][1] = turn /\ c[2] <= B[i][2]
    BY <1>7 DEF ToSet
  <2>1. c[2] + i - 1 >= c[2]
    BY <1>4, <1>2
  <2> QED BY <1>7, <1>8, <1>10, <2>1
<1>12. \A e \in ToSet(B) : \A d \in Written : Before(d, e)
  <2> SUFFICES ASSUME NEW e \in ToSet(B), NEW d \in Written, ~Before(d, e) PROVE FALSE
    OBVIOUS
  <2>1. e[1] = d[1] /\ e[2] < d[2]
    <3>1. Before(e, d) /\ e[1] = turn /\ d[1] <= turn /\ d \in Calls
      BY <1>1, <1>11, BeforeIsOrder DEF CallsTypeOK
    <3>2. turn \in Nat /\ d[1] \in Nat
      BY <1>2, <1>4, <3>1
    <3> QED BY <3>1, <3>2 DEF Before
  <2>2. e \in Written
    BY <2>1, <1>11 DEF OrderInv, Closed
  <2> QED BY <2>2, <1>11
<1>13. Closed(Written \cup ToSet(B))
  <2> SUFFICES ASSUME NEW e \in Calls, NEW d \in Written \cup ToSet(B), e[1] = d[1], e[2] < d[2], e \notin Written
               PROVE e \in ToSet(B)
    BY DEF Closed
  <2>1. d \in ToSet(B)
    BY DEF OrderInv, Closed
  <2>2. PICK i \in 1..Len(B) : d = B[i]
    BY <1>7, <2>1 DEF ToSet
  <2>4. d[1] = turn /\ d[2] = c[2] + i - 1
    BY <1>7, <2>2
  <2>5. e[1] = turn /\ e[2] < c[2] + i - 1
    BY <2>4
  <2>6. e \in Unanswered
    BY <1>1, <2>5 DEF Unanswered
  <2>7. c[2] <= e[2]
    BY <1>3, <2>6 DEF c
  <2> DEFINE j == e[2] - c[2] + 1
  <2>8. j \in 1..Len(B) /\ c[2] + j - 1 = e[2]
    BY <1>2, <1>4, <1>7, <2>2, <2>5, <2>7
  <2>9. B[j] = e
    BY <1>2, <1>7, <2>5, <2>8
  <2> QED BY <1>7, <2>8, <2>9 DEF ToSet
<1> QED BY <1>7, <1>8, <1>9, <1>10, <1>12, <1>13 DEF B
-----------------------------------------------------------------------------
(* The calls of a batch enter its limits one after another.                *)
Cast(b) ==
  /\ b.slots \in LimitStates /\ b.members \in LimitStates /\ b.stage \in [Calls -> Stages]
  /\ b = Batch(b.slots, b.members, b.stage, b.hand)
Runners(b, P) == {c \in P : b.stage[c] = "run"}
Hired(b, P) == {c \in P : Kind(c) = "delegate" /\ c \notin ToSet(b.members.waiting)}
Hands(P) == {c \in P : Kind(c) = "delegate"}
Entered(b, P) ==
  /\ \A c \in Calls : IF c \in P THEN b.stage[c] \in {"run", "waiting"} ELSE b.stage[c] = stage[c]
  /\ \A c \in ToSet(b.slots.waiting) : c \in P /\ b.stage[c] = "waiting"
  /\ \A c \in ToSet(b.members.waiting) : c \in P /\ b.stage[c] = "waiting" /\ Kind(c) = "delegate"
  /\ Distinct(b.slots.waiting) /\ Distinct(b.members.waiting)
  /\ ToSet(b.slots.waiting) \cap ToSet(b.members.waiting) = {}
SlotsCounted(b, P) ==
  /\ b.slots.active = Cardinality(Runners(b, P)) /\ b.slots.active <= MaxCalls
  /\ b.slots.waiting # <<>> => b.slots.active >= MaxCalls
MembersCounted(b, P) ==
  /\ b.members.active = Cardinality(Hired(b, P)) /\ b.members.active <= MaxMembers
  /\ b.members.waiting # <<>> => b.members.active >= MaxMembers
  /\ b.members.active + Len(b.members.waiting) = Cardinality(Hands(P))
Entering(b, P) == P \subseteq Calls /\ IsFiniteSet(P) /\ Cast(b) /\ Entered(b, P) /\ SlotsCounted(b, P) /\ MembersCounted(b, P)

LEMMA PartsAre ==
  ASSUME NEW sl, NEW me, NEW st, NEW ha
  PROVE  /\ Batch(sl, me, st, ha).slots = sl /\ Batch(sl, me, st, ha).members = me
         /\ Batch(sl, me, st, ha).stage = st /\ Batch(sl, me, st, ha).hand = ha
BY DEF Batch

Moved(st, to, c, v) == to \in [Calls -> Stages] /\ to[c] = v /\ \A d \in Calls \ {c} : to[d] = st[d]

LEMMA RunCallIs ==
  ASSUME NEW sl, NEW me, NEW st \in [Calls -> Stages], NEW ha, NEW c \in Calls
  PROVE  LET e == RunCall(Batch(sl, me, st, ha), c)
         IN /\ e = Batch(e.slots, e.members, e.stage, e.hand) /\ e.slots = sl /\ e.members = me
            /\ Moved(st, e.stage, c, "run")
<1>1. PICK z, y, e : z = [st EXCEPT ![c] = "run"] /\ y = [ha EXCEPT ![c] = "run"] /\ e = RunCall(Batch(sl, me, st, ha), c)
  OBVIOUS
<1> DEFINE d == Batch(sl, me, st, ha)
           f == Batch(sl, me, z, ha)
<1>2. [d EXCEPT !.stage[c] = "run"] = f
  BY <1>1 DEF Batch
<1>3. [f EXCEPT !.hand[c] = "run"] = Batch(sl, me, z, y)
  BY <1>1 DEF Batch
<1>4. RunCall(d, c) = [[d EXCEPT !.stage[c] = "run"] EXCEPT !.hand[c] = "run"]
  BY DEF RunCall
<1>5. e = RunCall(d, c)
  BY <1>1
<1> HIDE DEF d, f
<1>6. e = Batch(sl, me, z, y)
  BY <1>2, <1>3, <1>4, <1>5
<1>7. e = Batch(e.slots, e.members, e.stage, e.hand) /\ e.slots = sl /\ e.members = me /\ e.stage = z
  BY <1>6, PartsAre
<1>8. Moved(st, z, c, "run")
  BY <1>1 DEF Moved, Stages
<1> QED BY <1>1, <1>7, <1>8

(* What entering the slots, and entering, does to a batch in progress. *)
LEMMA EnterSlotsIs ==
  ASSUME NEW sl, NEW me, NEW st \in [Calls -> Stages], NEW ha, NEW c \in Calls
  PROVE  LET e == EnterSlots(Batch(sl, me, st, ha), c)
         IN /\ e = Batch(e.slots, e.members, e.stage, e.hand) /\ e.members = me
            /\ sl.active >= MaxCalls =>
                 e.slots = Queued(sl, c) /\ Moved(st, e.stage, c, "waiting")
            /\ ~(sl.active >= MaxCalls) =>
                 e.slots = Taken(sl) /\ Moved(st, e.stage, c, "run")
<1> DEFINE b == Batch(sl, me, st, ha)
           e == EnterSlots(b, c)
<1>1. b.slots = sl
  BY PartsAre
<1>2. CASE sl.active >= MaxCalls
  <2>1. PICK w : w = Queued(sl, c)
    OBVIOUS
  <2>2. PICK z : z = [st EXCEPT ![c] = "waiting"]
    OBVIOUS
  <2>3. e = [b EXCEPT !.slots = w, !.stage[c] = "waiting"]
    BY <1>1, <1>2, <2>1 DEF EnterSlots
  <2>4. e = Batch(w, me, z, ha)
    <3> DEFINE d == Batch(w, me, st, ha)
    <3>1. [b EXCEPT !.slots = w] = d
      BY DEF Batch
    <3>2. [d EXCEPT !.stage[c] = "waiting"] = Batch(w, me, z, ha)
      BY <2>2 DEF Batch
    <3>3. [b EXCEPT !.slots = w, !.stage[c] = "waiting"] = [[b EXCEPT !.slots = w] EXCEPT !.stage[c] = "waiting"]
      OBVIOUS
    <3> HIDE DEF b, d, e
    <3> QED BY <2>3, <3>1, <3>2, <3>3
  <2> HIDE DEF e
  <2>5. e = Batch(e.slots, e.members, e.stage, e.hand) /\ e.members = me /\ e.slots = w /\ e.stage = z
    BY <2>4, PartsAre
  <2>6. Moved(st, z, c, "waiting")
    BY <2>2 DEF Moved, Stages
  <2> QED BY <1>2, <2>1, <2>5, <2>6 DEF e
<1>3. CASE ~(sl.active >= MaxCalls)
  <2>1. PICK w : w = Taken(sl)
    OBVIOUS
  <2>2. e = RunCall([b EXCEPT !.slots = w], c)
    BY <1>1, <1>3, <2>1 DEF EnterSlots
  <2>3. [b EXCEPT !.slots = w] = Batch(w, me, st, ha)
    BY DEF Batch
  <2> HIDE DEF e, b
  <2>4. e = RunCall(Batch(w, me, st, ha), c)
    BY <2>2, <2>3
  <2>5. /\ e = Batch(e.slots, e.members, e.stage, e.hand) /\ e.slots = w /\ e.members = me
        /\ Moved(st, e.stage, c, "run")
    BY <2>4, RunCallIs
  <2> QED BY <1>3, <2>1, <2>5 DEF e, b
<1> QED BY <1>2, <1>3

LEMMA EnterIs ==
  ASSUME NEW b, b = Batch(b.slots, b.members, b.stage, b.hand), b.stage \in [Calls -> Stages], NEW c \in Calls
  PROVE  LET e == Enter(b, c)
             Full == Kind(c) = "delegate" /\ b.members.active >= MaxMembers
         IN /\ e = Batch(e.slots, e.members, e.stage, e.hand)
            /\ Full => /\ e.slots = b.slots /\ e.members = Queued(b.members, c)
                       /\ Moved(b.stage, e.stage, c, "waiting")
            /\ ~Full => /\ e.members = IF Kind(c) = "delegate" THEN Taken(b.members) ELSE b.members
                        /\ b.slots.active >= MaxCalls =>
                             e.slots = Queued(b.slots, c) /\ Moved(b.stage, e.stage, c, "waiting")
                        /\ ~(b.slots.active >= MaxCalls) =>
                             e.slots = Taken(b.slots) /\ Moved(b.stage, e.stage, c, "run")
<1> DEFINE e == Enter(b, c)
           Full == Kind(c) = "delegate" /\ b.members.active >= MaxMembers
<1>1. PICK sl, me, st, ha : sl = b.slots /\ me = b.members /\ st = b.stage /\ ha = b.hand
  OBVIOUS
<1>2. b = Batch(sl, me, st, ha)
  BY <1>1
<1>3. CASE Full
  <2>1. PICK w : w = Queued(me, c)
    OBVIOUS
  <2>2. PICK z : z = [st EXCEPT ![c] = "waiting"]
    OBVIOUS
  <2>3. e = [b EXCEPT !.members = w, !.stage[c] = "waiting"]
    BY <1>1, <1>3, <2>1 DEF Enter, EnterMembers
  <2>4. e = Batch(sl, w, z, ha)
    <3> DEFINE a == Batch(sl, me, st, ha)
               d == Batch(sl, w, st, ha)
    <3>1. [a EXCEPT !.members = w] = d
      BY DEF Batch
    <3>2. [d EXCEPT !.stage[c] = "waiting"] = Batch(sl, w, z, ha)
      BY <2>2 DEF Batch
    <3>3. [a EXCEPT !.members = w, !.stage[c] = "waiting"] = [[a EXCEPT !.members = w] EXCEPT !.stage[c] = "waiting"]
      OBVIOUS
    <3>4. b = a
      BY <1>2
    <3> HIDE DEF a, d, e
    <3> QED BY <2>3, <3>1, <3>2, <3>3, <3>4
  <2> HIDE DEF e
  <2>5. e = Batch(e.slots, e.members, e.stage, e.hand) /\ e.slots = sl /\ e.members = w /\ e.stage = z
    BY <2>4, PartsAre
  <2>6. Moved(st, z, c, "waiting")
    BY <1>1, <2>2 DEF Moved, Stages
  <2> QED BY <1>1, <1>3, <2>1, <2>5, <2>6 DEF e
<1>4. CASE ~Full
  <2>1. PICK k : k = IF Kind(c) = "delegate" THEN Taken(me) ELSE me
    OBVIOUS
  <2>2. e = EnterSlots(Batch(sl, k, st, ha), c)
    <3>1. CASE Kind(c) = "delegate"
      <4>1. e = EnterSlots([b EXCEPT !.members = k], c)
        BY <1>1, <1>4, <2>1, <3>1 DEF Enter, EnterMembers
      <4>2. [b EXCEPT !.members = k] = Batch(sl, k, st, ha)
        <5> DEFINE a == Batch(sl, me, st, ha)
        <5>1. [a EXCEPT !.members = k] = Batch(sl, k, st, ha)
          BY DEF Batch
        <5>2. b = a
          BY <1>2
        <5> HIDE DEF a
        <5> QED BY <5>1, <5>2
      <4> QED BY <4>1, <4>2
    <3>2. CASE Kind(c) # "delegate"
      BY <1>2, <2>1, <3>2 DEF Enter
    <3> QED BY <3>1, <3>2
  <2> HIDE DEF e
  <2>3. /\ e = Batch(e.slots, e.members, e.stage, e.hand) /\ e.members = k
        /\ sl.active >= MaxCalls => e.slots = Queued(sl, c) /\ Moved(st, e.stage, c, "waiting")
        /\ ~(sl.active >= MaxCalls) => e.slots = Taken(sl) /\ Moved(st, e.stage, c, "run")
    BY <1>1, <2>2, EnterSlotsIs
  <2> QED BY <1>1, <1>4, <2>1, <2>3 DEF e
<1> QED BY <1>3, <1>4

LEMMA QueuedIs ==
  ASSUME NEW l \in LimitStates, NEW c \in Places
  PROVE  /\ Queued(l, c) \in LimitStates /\ Queued(l, c).active = l.active
         /\ Len(Queued(l, c).waiting) = Len(l.waiting) + 1 /\ Queued(l, c).waiting # <<>>
         /\ ToSet(Queued(l, c).waiting) = ToSet(l.waiting) \cup {c}
         /\ Distinct(l.waiting) /\ c \notin ToSet(l.waiting) => Distinct(Queued(l, c).waiting)
<1>1. PICK w, n : w = l.waiting /\ n = l.active
  OBVIOUS
<1>2. w \in Seq(Places) /\ n \in Int
  BY <1>1 DEF LimitStates
<1>3. PICK v : v = Append(w, c)
  OBVIOUS
<1>4. /\ v \in Seq(Places) /\ Len(v) = Len(w) + 1 /\ v # <<>> /\ ToSet(v) = ToSet(w) \cup {c}
      /\ Distinct(w) /\ c \notin ToSet(w) => Distinct(v)
  <2>1. v \in Seq(Places) /\ Longer(w, v, c)
    BY <1>2, <1>3, AppendProperties DEF Longer
  <2> QED BY <1>2, <2>1, LongerSet
<1>5. Queued(l, c) = [active |-> n, waiting |-> v]
  BY <1>1, <1>3 DEF Queued
<1>6. Queued(l, c) \in LimitStates /\ Queued(l, c).active = n /\ Queued(l, c).waiting = v
  BY <1>2, <1>4, <1>5 DEF LimitStates
<1> QED BY <1>1, <1>4, <1>6

LEMMA TakenIs ==
  ASSUME NEW l \in LimitStates
  PROVE  Taken(l) \in LimitStates /\ Taken(l).active = l.active + 1 /\ Taken(l).waiting = l.waiting
BY DEF Taken, LimitStates

LEMMA OneMoreEnters ==
  ASSUME script \in Scripts, NEW b, NEW P, Entering(b, P), NEW c \in Calls, c \notin P
  PROVE  Entering(Enter(b, c), P \cup {c})
<1>1. PICK e : e = Enter(b, c)
  OBVIOUS
<1> DEFINE Full == Kind(c) = "delegate" /\ b.members.active >= MaxMembers
           R == P \cup {c}
<1>2. /\ e = Batch(e.slots, e.members, e.stage, e.hand)
      /\ Full => /\ e.slots = b.slots /\ e.members = Queued(b.members, c)
                 /\ Moved(b.stage, e.stage, c, "waiting")
      /\ ~Full => /\ e.members = IF Kind(c) = "delegate" THEN Taken(b.members) ELSE b.members
                  /\ b.slots.active >= MaxCalls =>
                       e.slots = Queued(b.slots, c) /\ Moved(b.stage, e.stage, c, "waiting")
                  /\ ~(b.slots.active >= MaxCalls) =>
                       e.slots = Taken(b.slots) /\ Moved(b.stage, e.stage, c, "run")
  BY <1>1, EnterIs DEF Entering, Cast
<1>3. PICK v \in {"waiting", "run"} : Moved(b.stage, e.stage, c, v)
  BY <1>2
<1>4. /\ b.slots \in LimitStates /\ b.members \in LimitStates /\ c \in Places
      /\ b.stage \in [Calls -> Stages] /\ P \subseteq Calls
  BY CallsAre DEF Entering, Cast
<1>5. /\ Queued(b.slots, c) \in LimitStates /\ Queued(b.slots, c).active = b.slots.active
      /\ Queued(b.slots, c).waiting # <<>> /\ ToSet(Queued(b.slots, c).waiting) = ToSet(b.slots.waiting) \cup {c}
      /\ Distinct(b.slots.waiting) /\ c \notin ToSet(b.slots.waiting) => Distinct(Queued(b.slots, c).waiting)
  BY <1>4, QueuedIs
<1>6. /\ Queued(b.members, c) \in LimitStates /\ Queued(b.members, c).active = b.members.active
      /\ Queued(b.members, c).waiting # <<>> /\ ToSet(Queued(b.members, c).waiting) = ToSet(b.members.waiting) \cup {c}
      /\ Len(Queued(b.members, c).waiting) = Len(b.members.waiting) + 1
      /\ Distinct(b.members.waiting) /\ c \notin ToSet(b.members.waiting) => Distinct(Queued(b.members, c).waiting)
  BY <1>4, QueuedIs
<1>7. /\ Taken(b.slots) \in LimitStates /\ Taken(b.slots).active = b.slots.active + 1
      /\ Taken(b.slots).waiting = b.slots.waiting
      /\ Taken(b.members) \in LimitStates /\ Taken(b.members).active = b.members.active + 1
      /\ Taken(b.members).waiting = b.members.waiting
  BY <1>4, TakenIs
<1>8. c \notin ToSet(b.slots.waiting) /\ c \notin ToSet(b.members.waiting)
  BY DEF Entering, Entered
<1>9. R \subseteq Calls /\ IsFiniteSet(R) /\ IsFiniteSet(P)
  BY FS_AddElement DEF Entering
<1>10. Cast(e)
  BY <1>2, <1>3, <1>4, <1>5, <1>6, <1>7 DEF Cast, Moved
<1>11. /\ e.stage[c] = v
       /\ \A d \in Calls \ {c} : e.stage[d] = b.stage[d]
  BY <1>3 DEF Moved
<1>12. Entered(e, R)
  <2>1. \A d \in Calls : IF d \in R THEN e.stage[d] \in {"run", "waiting"} ELSE e.stage[d] = stage[d]
    BY <1>11 DEF Entering, Entered
  <2>2. /\ \A d \in ToSet(b.slots.waiting) : d \in P /\ d # c /\ e.stage[d] = "waiting"
        /\ \A d \in ToSet(b.members.waiting) : d \in P /\ d # c /\ e.stage[d] = "waiting" /\ Kind(d) = "delegate"
        /\ Distinct(b.slots.waiting) /\ Distinct(b.members.waiting)
        /\ ToSet(b.slots.waiting) \cap ToSet(b.members.waiting) = {}
    BY <1>8, <1>11 DEF Entering, Entered
  <2>3. CASE Full
    <3>1. /\ e.slots = b.slots /\ e.stage[c] = "waiting" /\ Kind(c) = "delegate"
          /\ ToSet(e.members.waiting) = ToSet(b.members.waiting) \cup {c} /\ Distinct(e.members.waiting)
      BY <1>2, <1>6, <1>8, <2>2, <2>3 DEF Moved
    <3> HIDE DEF Full
    <3> QED BY <1>8, <2>1, <2>2, <3>1 DEF Entered
  <2>4. CASE ~Full
    <3>1. e.members.waiting = b.members.waiting
      BY <1>2, <1>7, <2>4
    <3>2. \/ ToSet(e.slots.waiting) = ToSet(b.slots.waiting) \cup {c} /\ Distinct(e.slots.waiting) /\ e.stage[c] = "waiting"
          \/ e.slots.waiting = b.slots.waiting
      BY <1>2, <1>5, <1>7, <1>8, <2>2, <2>4 DEF Moved
    <3> HIDE DEF Full
    <3> QED BY <1>8, <2>1, <2>2, <3>1, <3>2 DEF Entered
  <2> QED BY <2>3, <2>4
<1>13. SlotsCounted(e, R)
  <2>1. /\ b.slots.active = Cardinality(Runners(b, P)) /\ b.slots.active <= MaxCalls /\ b.slots.active \in Int
        /\ b.slots.waiting # <<>> => b.slots.active >= MaxCalls
    BY <1>4 DEF Entering, SlotsCounted, LimitStates
  <2>2. IsFiniteSet(Runners(b, P)) /\ c \notin Runners(b, P)
    BY <1>9, FS_Subset DEF Runners
  <2>3. Runners(e, R) = IF v = "run" THEN Runners(b, P) \cup {c} ELSE Runners(b, P)
    BY <1>4, <1>11 DEF Runners
  <2>4. Cardinality(Runners(e, R)) = IF v = "run" THEN b.slots.active + 1 ELSE b.slots.active
    BY <2>1, <2>2, <2>3, FS_AddElement
  <2>5. CASE Full
    BY <1>2, <1>11, <2>1, <2>4, <2>5 DEF SlotsCounted, Moved
  <2>6. CASE ~Full /\ b.slots.active >= MaxCalls
    BY <1>2, <1>5, <1>11, <2>1, <2>4, <2>6 DEF SlotsCounted, Moved
  <2>7. CASE ~Full /\ ~(b.slots.active >= MaxCalls)
    BY <1>2, <1>7, <1>11, <2>1, <2>4, <2>7, LimitsAssumption DEF SlotsCounted, Moved
  <2> QED BY <2>5, <2>6, <2>7
<1>14. MembersCounted(e, R)
  <2>1. /\ b.members.active = Cardinality(Hired(b, P)) /\ b.members.active <= MaxMembers /\ b.members.active \in Int
        /\ b.members.waiting # <<>> => b.members.active >= MaxMembers
        /\ b.members.active + Len(b.members.waiting) = Cardinality(Hands(P))
    BY <1>4 DEF Entering, MembersCounted, LimitStates
  <2>2. /\ IsFiniteSet(Hired(b, P)) /\ c \notin Hired(b, P) /\ IsFiniteSet(Hands(P)) /\ c \notin Hands(P)
        /\ Len(b.members.waiting) \in Nat
    BY <1>4, <1>9, FS_Subset, LenProperties DEF Hired, Hands, LimitStates
  <2>3. Hands(R) = IF Kind(c) = "delegate" THEN Hands(P) \cup {c} ELSE Hands(P)
    BY DEF Hands
  <2>4. Cardinality(Hands(R)) = IF Kind(c) = "delegate" THEN Cardinality(Hands(P)) + 1 ELSE Cardinality(Hands(P))
    BY <2>2, <2>3, FS_AddElement
  <2>5. CASE Full
    <3>1. Hired(e, R) = Hired(b, P)
      BY <1>2, <1>6, <2>5 DEF Hired
    <3> QED BY <1>2, <1>6, <2>1, <2>2, <2>4, <2>5, <3>1 DEF MembersCounted
  <2>6. CASE ~Full /\ Kind(c) = "delegate"
    <3>1. Hired(e, R) = Hired(b, P) \cup {c}
      BY <1>2, <1>7, <1>8, <2>6 DEF Hired
    <3>2. Cardinality(Hired(e, R)) = b.members.active + 1
      BY <2>1, <2>2, <3>1, FS_AddElement
    <3> QED BY <1>2, <1>7, <2>1, <2>2, <2>4, <2>6, <3>2, LimitsAssumption DEF MembersCounted
  <2>7. CASE Kind(c) # "delegate"
    <3>1. Hired(e, R) = Hired(b, P)
      BY <1>2, <2>7 DEF Hired
    <3> QED BY <1>2, <2>1, <2>4, <2>7, <3>1 DEF MembersCounted
  <2> QED BY <2>5, <2>6, <2>7
<1> QED BY <1>1, <1>9, <1>10, <1>12, <1>13, <1>14 DEF Entering

LEMMA NobodyEntered ==
  ASSUME stage \in [Calls -> Stages]
  PROVE  Entering(Batch(Idle, Idle, stage, hand), {})
<1>1. PICK b : b = Batch(Idle, Idle, stage, hand)
  OBVIOUS
<1>2. /\ b = Batch(b.slots, b.members, b.stage, b.hand) /\ b.slots = Idle /\ b.members = Idle /\ b.stage = stage
  BY <1>1, PartsAre
<1>3. Idle \in LimitStates /\ Idle.active = 0 /\ Idle.waiting = <<>>
  BY DEF Idle, LimitStates
<1>4. \A x \in ToSet(Idle.waiting) : FALSE
  BY <1>3 DEF ToSet
<1>5. Distinct(Idle.waiting) /\ Len(Idle.waiting) = 0
  BY <1>3 DEF Distinct
<1>6. Entered(b, {})
  BY <1>2, <1>4, <1>5 DEF Entered
<1>7. SlotsCounted(b, {})
  <2>1. Runners(b, {}) = {}
    BY DEF Runners
  <2>2. Cardinality(Runners(b, {})) = 0
    BY <2>1, FS_EmptySet
  <2>3. b.slots.active = 0 /\ b.slots.waiting = <<>> /\ 0 <= MaxCalls
    BY <1>2, <1>3, LimitsAssumption
  <2> QED BY <2>2, <2>3 DEF SlotsCounted
<1>8. MembersCounted(b, {})
  <2>1. Hired(b, {}) = {} /\ Hands({}) = {}
    BY DEF Hired, Hands
  <2>2. Cardinality(Hired(b, {})) = 0 /\ Cardinality(Hands({})) = 0
    BY <2>1, FS_EmptySet
  <2>3. b.members.active = 0 /\ b.members.waiting = <<>> /\ Len(b.members.waiting) = 0 /\ 0 <= MaxMembers
    BY <1>2, <1>3, <1>5, LimitsAssumption
  <2> QED BY <2>2, <2>3 DEF MembersCounted
<1>9. Cast(b)
  BY <1>2, <1>3 DEF Cast
<1> QED BY <1>1, <1>6, <1>7, <1>8, <1>9, FS_EmptySet DEF Entering

LEMMA AllEnter ==
  ASSUME CallsTypeOK, OrderInv, batch[turn] = <<>>, Unanswered # {}
  PROVE  Entering(Filled(Batch(Idle, Idle, stage, hand), NextBatch), ToSet(NextBatch))
<1>1. PICK s, b : s = NextBatch /\ b = Batch(Idle, Idle, stage, hand)
  OBVIOUS
<1>2. PICK n \in Nat : n = Len(s) /\ DOMAIN s = 1..n
  BY <1>1, NextBatchIs, LenProperties
<1>3. \A i \in 1..n : s[i] \in Calls /\ s[i] = <<turn, s[1][2] + (i - 1)>>
  BY <1>1, <1>2, NextBatchIs
<1>4. \A i, j \in 1..n : i # j => s[i] # s[j]
  <2>1. n > 0 => s[1][2] \in Int
    <3> SUFFICES ASSUME n > 0 PROVE s[1][2] \in Int
      OBVIOUS
    <3>1. s[1] \in Calls
      BY <1>2, <1>3
    <3>2. s[1][1] \in 1..Len(script) /\ s[1][2] \in 1..Len(script[s[1][1]])
      BY <3>1, CallsAre DEF CallsTypeOK
    <3> QED BY <3>2
  <2> SUFFICES ASSUME NEW i \in 1..n, NEW j \in 1..n, s[i] = s[j] PROVE i = j
    OBVIOUS
  <2>2. s[1][2] + (i - 1) = s[1][2] + (j - 1)
    BY <1>3
  <2> QED BY <2>1, <2>2
<1>5. PICK F : F[0] = b /\ Filled(b, s) = F[n] /\ \A k \in 1..n : F[k] = Enter(F[k - 1], s[k])
  <2>1. DOMAIN s = 1..n
    BY <1>2
  <2>2. PICK F : Row(F, b, s, n)
    BY <2>1, FoldOfABatch
  <2> QED BY <2>2 DEF Row
<1> DEFINE Upto(k) == {s[i] : i \in 1..k}
           Bad == {k \in 0..n : ~Entering(F[k], Upto(k))}
<1>6. 0 \notin Bad
  <2>1. Upto(0) = {}
    OBVIOUS
  <2> QED BY <1>1, <1>5, <2>1, NobodyEntered DEF CallsTypeOK
<1>7. ASSUME NEW k \in 1..n, k - 1 \notin Bad PROVE k \notin Bad
  <2>1. Entering(F[k - 1], Upto(k - 1)) /\ k - 1 \in 0..n
    BY <1>7
  <2>2. s[k] \in Calls /\ s[k] \notin Upto(k - 1)
    BY <1>3, <1>4
  <2>3. Upto(k - 1) \cup {s[k]} = Upto(k)
    OBVIOUS
  <2> HIDE DEF Upto
  <2>4. Entering(Enter(F[k - 1], s[k]), Upto(k - 1) \cup {s[k]})
    BY <2>1, <2>2, OneMoreEnters DEF CallsTypeOK
  <2> QED BY <1>5, <2>3, <2>4
<1>8. Bad = {}
  <2> SUFFICES ASSUME Bad # {} PROVE FALSE
    OBVIOUS
  <2>1. Bad \subseteq Nat
    OBVIOUS
  <2> HIDE DEF Bad
  <2>2. PICK k \in Bad : \A m \in Bad : k <= m
    BY <2>1, LeastOf
  <2>3. k \in 0..n /\ k # 0
    BY <1>6, <2>2 DEF Bad
  <2>4. k \in 1..n /\ k - 1 \notin Bad
    BY <2>1, <2>2, <2>3
  <2> QED BY <1>7, <2>2, <2>4
<1>9. Upto(n) = ToSet(s)
  BY <1>2 DEF ToSet
<1>10. Entering(F[n], Upto(n))
  <2>1. n \in 0..n
    BY <1>2
  <2> HIDE DEF Upto
  <2> QED BY <1>8, <2>1
<1> QED BY <1>1, <1>5, <1>9, <1>10
-----------------------------------------------------------------------------
(* The results stay in order. *)
(* The results stay in order. *)
LEMMA OrderInitially == Init => CallsTypeOK /\ OrderInv
<1> SUFFICES ASSUME Init PROVE CallsTypeOK /\ OrderInv
  OBVIOUS
<1>1. /\ script \in Scripts /\ turn = 0 /\ phase = "idle" /\ batch = [t \in Turns |-> <<>>] /\ written = <<>>
      /\ jobs = [t \in Turns |-> <<>>] /\ stage = [c \in Calls |-> "new"]
      /\ slots = [t \in Turns |-> Idle] /\ members = [t \in Turns |-> Idle]
  BY DEF Init, Turns
<1>2. /\ Len(script) \in Nat /\ \A c \in Calls : c[1] \in 1..Len(script) /\ c[1] \in Turns
  BY <1>1, CallsAre DEF Calls, Turns
<1>3. Idle \in LimitStates /\ <<>> \in Seq(Places) /\ <<>> \in Seq(JobRecords)
  BY DEF Idle, LimitStates
<1>4. CallsTypeOK
  BY <1>1, <1>2, <1>3 DEF CallsTypeOK, Stages
<1>5. Written = {} /\ Started = {} /\ \A c \in Calls : stage[c] = "new"
  BY <1>1, <1>2 DEF Written, Started, InBatch, ToSet
<1>6. OrderInv
  BY <1>1, <1>2, <1>5 DEF OrderInv, Stretch, InOrder, Closed, StagesTell, TurnsWhole
<1> QED BY <1>4, <1>6

LEMMA OrderKept ==
  ASSUME OrderInv, UNCHANGED <<script, turn, batch, written>>, phase' = "idle" => phase = "idle",
         failed \subseteq failed',
         \A c \in Calls : (stage'[c] = "new" <=> stage[c] = "new") /\ (stage'[c] = "written" <=> stage[c] = "written")
  PROVE  OrderInv'
<1>1. Calls' = Calls /\ Written' = Written /\ Started' = Started /\ Turns' = Turns
  BY SameScript DEF Written, Started, InBatch, Turns
<1>2. Stretch' /\ InOrder' /\ Closed(Written)' /\ Closed(Started)'
  BY <1>1 DEF OrderInv, Stretch, InOrder, Closed, Before
<1>3. StagesTell'
  BY <1>1 DEF OrderInv, StagesTell
<1>4. TurnsWhole'
  BY <1>1 DEF OrderInv, TurnsWhole
<1> QED BY <1>2, <1>3, <1>4 DEF OrderInv

LEMMA TurnsKeepOrder ==
  ASSUME CallsTypeOK, OrderInv, BeginTurn \/ EndTurn
  PROVE  OrderInv'
<1>1. UNCHANGED <<script, failed, batch, written, stage>> /\ Calls' = Calls /\ Turns' = Turns
  BY SameScript DEF BeginTurn, EndTurn, handling, asking, Turns
<1>2. Written' = Written /\ Started' = Started
  BY <1>1 DEF Written, Started, InBatch
<1>3. InOrder' /\ Closed(Written)' /\ Closed(Started)' /\ StagesTell'
  BY <1>1, <1>2 DEF OrderInv, InOrder, Closed, StagesTell, Before
<1>5. Stretch'
  BY <1>1 DEF OrderInv, Stretch
<1>6. \A c \in Calls : c[1] \in Nat /\ turn \in Nat
  BY CallsAre DEF CallsTypeOK
<1>7. TurnsWhole'
  <2>1. CASE BeginTurn
    <3>1. turn' = turn + 1 /\ phase' = "running" /\ phase = "idle"
      BY <2>1 DEF BeginTurn
    <3>2. \A c \in Calls : (c[1] < turn + 1 => c \in Written \/ c[1] \in failed) /\ (c \in Written => c[1] <= turn + 1)
      BY <1>6, <3>1 DEF OrderInv, TurnsWhole
    <3> QED BY <1>1, <1>2, <3>1, <3>2 DEF TurnsWhole
  <2>2. CASE EndTurn
    <3>1. turn' = turn /\ phase' = "idle" /\ (turn \in failed \/ (batch[turn] = <<>> /\ Unanswered = {}))
      BY <2>2 DEF EndTurn
    <3>2. turn \notin failed => \A c \in Calls : c[1] = turn => c \in Written
      BY <3>1 DEF Unanswered, OrderInv, StagesTell, Started, InBatch, ToSet
    <3> QED BY <1>1, <1>2, <3>1, <3>2 DEF OrderInv, TurnsWhole
  <2> QED BY <2>1, <2>2
<1> QED BY <1>3, <1>5, <1>7 DEF OrderInv

LEMMA BatchStartsInOrder ==
  ASSUME CallsTypeOK, OrderInv, phase = "running", batch[turn] = <<>>, Unanswered # {},
         batch' = [batch EXCEPT ![turn] = NextBatch], UNCHANGED <<script, turn, phase, failed, written>>,
         \A c \in Calls : IF c \in ToSet(NextBatch) THEN stage'[c] \notin {"new", "written"} ELSE stage'[c] = stage[c]
  PROVE  OrderInv'
<1>1. PICK B : B = NextBatch
  OBVIOUS
<1>2. /\ \A i \in DOMAIN B : B[i] \in Calls /\ B[i] = <<turn, B[1][2] + (i - 1)>> /\ stage[B[i]] = "new"
      /\ Closed(Written \cup ToSet(B)) /\ \A c \in ToSet(B) : stage[c] = "new" /\ c \in Calls
  <2>1. DOMAIN B = 1..Len(B)
    BY <1>1, NextBatchIs, LenProperties
  <2>2. \A i \in DOMAIN B : B[i] \in Calls /\ B[i] = <<turn, B[1][2] + (i - 1)>> /\ stage[B[i]] = "new"
    BY <1>1, <2>1, NextBatchIs
  <2>3. \A c \in ToSet(B) : stage[c] = "new" /\ c \in Calls
    BY <2>2 DEF ToSet
  <2> QED BY <1>1, <2>2, <2>3, NextBatchIs
<1>3. Calls' = Calls /\ Turns' = Turns /\ Written' = Written /\ Started' = Started \cup ToSet(B)
  <2>1. turn \in Turns /\ batch'[turn] = B /\ \A t \in Turns \ {turn} : batch'[t] = batch[t]
    <3>1. PICK c \in Calls : c[1] = turn
      BY DEF Unanswered
    <3>2. turn \in Turns
      BY <3>1 DEF Calls, Turns
    <3> QED BY <1>1, <3>2 DEF CallsTypeOK
  <2>2. \A c \in ToSet(B) : c \in Calls /\ c[1] = turn
    BY <1>2 DEF ToSet
  <2>3. \A c \in Calls : c[1] \in Turns
    BY DEF Calls, Turns
  <2>4. \A c \in Calls : InBatch(c)' <=> InBatch(c) \/ c \in ToSet(B)
    <3> SUFFICES ASSUME NEW c \in Calls PROVE InBatch(c)' <=> InBatch(c) \/ c \in ToSet(B)
      OBVIOUS
    <3>1. CASE c[1] = turn
      BY <2>1, <3>1 DEF InBatch, ToSet
    <3>2. CASE c[1] # turn
      BY <2>1, <2>2, <2>3, <3>2 DEF InBatch
    <3> QED BY <3>1, <3>2
  <2> QED BY <2>2, <2>4, SameScript DEF Written, Started, Turns
<1>4. Stretch'
  <2>1. turn \in Turns /\ batch'[turn] = B /\ \A t \in Turns \ {turn} : batch'[t] = batch[t]
    <3>1. PICK c \in Calls : c[1] = turn
      BY DEF Unanswered
    <3>2. turn \in Turns
      BY <3>1 DEF Calls, Turns
    <3> QED BY <1>1, <3>2 DEF CallsTypeOK
  <2> SUFFICES ASSUME NEW t \in Turns, NEW i \in DOMAIN batch'[t]
               PROVE  batch'[t][i] \in Calls /\ batch'[t][i] = <<t, batch'[t][1][2] + (i - 1)>>
    BY <1>3 DEF Stretch
  <2>2. CASE t = turn
    BY <1>2, <2>1, <2>2
  <2>3. CASE t # turn
    BY <2>1, <2>3 DEF OrderInv, Stretch
  <2> QED BY <2>2, <2>3
<1>5. InOrder' /\ Closed(Written)'
  BY <1>3 DEF OrderInv, InOrder, Closed, Before
<1>6. Closed(Started)'
  <2> SUFFICES ASSUME NEW c \in Calls, NEW d \in Started \cup ToSet(B), c[1] = d[1], c[2] < d[2]
               PROVE  c \in Started \cup ToSet(B)
    BY <1>3 DEF Closed
  <2>1. CASE d \in Started
    BY <2>1 DEF OrderInv, Closed
  <2>2. CASE d \in ToSet(B)
    BY <1>2, <2>2 DEF Closed, Started
  <2> QED BY <2>1, <2>2
<1>7. StagesTell'
  BY <1>1, <1>2, <1>3 DEF OrderInv, StagesTell
<1>8. TurnsWhole'
  BY <1>3 DEF OrderInv, TurnsWhole
<1> QED BY <1>4, <1>5, <1>6, <1>7, <1>8 DEF OrderInv

(* The first call without a result is the next one of all.                 *)
LEMMA FirstLeftIs ==
  ASSUME CallsTypeOK, OrderInv, batch[turn] = <<>>, Unanswered # {}
  PROVE  /\ FirstLeft \in Calls /\ FirstLeft[1] = turn /\ stage[FirstLeft] = "new" /\ FirstLeft = <<turn, FirstLeft[2]>>
         /\ \A d \in Written : Before(d, FirstLeft)
         /\ Closed(Written \cup {FirstLeft})
<1>1. /\ Written \subseteq Calls /\ \A d \in Written : d[1] <= turn
      /\ \A d \in Calls : d[1] = turn => (stage[d] = "new" <=> d \notin Written)
  <2>1. ToSet(batch[turn]) = {}
    BY DEF ToSet
  <2>2. \A d \in Calls : d[1] = turn => (d \in Started <=> d \in Written)
    BY <2>1 DEF Started, InBatch
  <2>3. Written \subseteq Calls
    BY DEF OrderInv, InOrder, Written, ToSet
  <2> QED BY <2>2, <2>3 DEF OrderInv, StagesTell, TurnsWhole
<1>2. \A d \in Calls : d = <<d[1], d[2]>> /\ d[1] \in Nat /\ d[2] \in Nat
  BY CallsAre DEF CallsTypeOK
<1>3. FirstLeft \in Unanswered /\ \A d \in Unanswered : FirstLeft[2] <= d[2]
  <2> DEFINE T == {d[2] : d \in Unanswered}
  <2>1. T # {} /\ T \subseteq Nat
    BY <1>2 DEF Unanswered
  <2> HIDE DEF T
  <2>2. PICK n \in T : \A m \in T : n <= m
    BY <2>1, LeastOf
  <2> USE DEF T
  <2>3. PICK d \in Unanswered : d[2] = n
    BY <2>2
  <2>4. \A e \in Unanswered : d[2] <= e[2]
    BY <2>2, <2>3
  <2> QED BY <2>4 DEF FirstLeft
<1>4. PICK c : c = FirstLeft
  OBVIOUS
<1>5. c \in Calls /\ c[1] = turn /\ stage[c] = "new" /\ c = <<turn, c[2]>> /\ c \notin Written
  BY <1>1, <1>2, <1>3, <1>4 DEF Unanswered
<1>6. ASSUME NEW d \in Calls, d[1] = turn, d[2] < c[2] PROVE d \in Written
  BY <1>1, <1>2, <1>3, <1>4, <1>5, <1>6 DEF Unanswered
<1>7. ASSUME NEW d \in Written PROVE Before(d, c)
  <2>1. d \in Calls /\ d[1] <= turn /\ d # c
    BY <1>1, <1>5
  <2>2. CASE Before(c, d)
    <3>1. d[1] = c[1] /\ c[2] < d[2]
      BY <1>2, <1>5, <2>1, <2>2 DEF Before
    <3> QED BY <1>5, <3>1 DEF OrderInv, Closed
  <2> QED BY <1>5, <2>1, <2>2, BeforeIsOrder DEF CallsTypeOK
<1>8. Closed(Written \cup {c})
  BY <1>5, <1>6 DEF OrderInv, Closed
<1> QED BY <1>4, <1>5, <1>7, <1>8

LEMMA SkipCallKeepsOrder ==
  ASSUME CallsTypeOK, OrderInv, SkipCall
  PROVE  OrderInv' /\ written' \in Seq(Places)
<1>1. PICK c, B, n, m : c = FirstLeft /\ B = <<c>> /\ n = Len(written) /\ m = 1
  OBVIOUS
<1>0. /\ c \in Calls /\ c[1] = turn /\ stage[c] = "new" /\ c = <<turn, c[2]>>
      /\ (\A d \in Written : Before(d, c)) /\ Closed(Written \cup {c})
  BY <1>1, FirstLeftIs DEF SkipCall, Between
<1>2. /\ phase = "running" /\ batch[turn] = <<>> /\ Unanswered # {} /\ UNCHANGED <<script, turn, phase, failed, batch>>
      /\ written' = written \o B
      /\ \A d \in Calls : stage'[d] = IF d \in ToSet(B) THEN "written" ELSE stage[d]
  <2>1. /\ phase = "running" /\ batch[turn] = <<>> /\ Unanswered # {} /\ UNCHANGED <<script, turn, phase, failed, batch>>
        /\ written' = Append(written, c) /\ stage' = [stage EXCEPT ![c] = "written"]
    BY <1>1 DEF SkipCall, Between, turns
  <2>2. written \in Seq(Places) /\ c \in Places /\ stage \in [Calls -> Stages]
    BY <1>0, CallsAre DEF CallsTypeOK
  <2>3. ToSet(B) = {c}
    BY <1>1 DEF ToSet
  <2> QED BY <1>1, <2>1, <2>2, <2>3, AppendIsConcat
<1>3. /\ B \in Seq(Places) /\ m \in Nat /\ DOMAIN B = 1..m
      /\ \A i \in 1..m : B[i] \in Calls /\ B[i] = <<turn, B[1][2] + (i - 1)>> /\ stage[B[i]] = "new" /\ B[i] \in ToSet(B)
      /\ \A e \in ToSet(B) : \A d \in Written : Before(d, e)
      /\ Closed(Written \cup ToSet(B))
  <2>1. B \in Seq(Places) /\ m \in Nat /\ DOMAIN B = 1..m /\ c[2] \in Nat
    BY <1>0, <1>1, CallsAre DEF CallsTypeOK
  <2>2. \A i \in 1..m : B[i] \in Calls /\ B[i] = <<turn, B[1][2] + (i - 1)>> /\ stage[B[i]] = "new"
    <3>1. B[1] = c /\ c[2] + (1 - 1) = c[2]
      BY <1>1, <2>1
    <3> QED BY <1>0, <1>1, <3>1
  <2>3. \A i \in 1..m : B[i] \in ToSet(B)
    BY <2>1 DEF ToSet
  <2>4. (\A e \in ToSet(B) : \A d \in Written : Before(d, e)) /\ Closed(Written \cup ToSet(B))
    <3>1. ToSet(B) = {c}
      BY <1>1 DEF ToSet
    <3> QED BY <1>0, <3>1
  <2> QED BY <2>1, <2>2, <2>3, <2>4
<1>4. written \in Seq(Places) /\ n \in Nat /\ DOMAIN written = 1..n /\ \A i \in 1..n : written[i] \in Written
  BY <1>1, LenProperties DEF CallsTypeOK, Written, ToSet
<1>5. /\ written' \in Seq(Places) /\ DOMAIN written' = 1..(n + m)
      /\ \A i \in 1..(n + m) : written'[i] = IF i <= n THEN written[i] ELSE B[i - n]
  BY <1>1, <1>2, <1>3, <1>4, ConcatProperties, LenProperties
<1>6. /\ Calls' = Calls /\ Turns' = Turns /\ Written' = Written \cup ToSet(B) /\ Started' = Started \cup ToSet(B)
      /\ ToSet(B) \subseteq Calls
  <2>1. \A x \in Written' : x \in Written \cup ToSet(B)
    <3> SUFFICES ASSUME NEW i \in DOMAIN written' PROVE written'[i] \in Written \cup ToSet(B)
      BY DEF Written, ToSet
    <3>1. CASE i <= n
      BY <1>4, <1>5, <3>1
    <3>2. CASE ~(i <= n)
      <4>1. i - n \in 1..m
        BY <1>3, <1>4, <1>5, <3>2
      <4> QED BY <1>3, <1>5, <3>2, <4>1
    <3> QED BY <3>1, <3>2
  <2>2. \A x \in Written : x \in Written'
    <3> SUFFICES ASSUME NEW i \in DOMAIN written PROVE written[i] \in Written'
      BY DEF Written, ToSet
    <3>1. i \in DOMAIN written' /\ written'[i] = written[i]
      BY <1>3, <1>4, <1>5
    <3> QED BY <3>1 DEF Written, ToSet
  <2>3. \A x \in ToSet(B) : x \in Written'
    <3> SUFFICES ASSUME NEW i \in DOMAIN B PROVE B[i] \in Written'
      BY DEF ToSet
    <3>1. n + i \in DOMAIN written' /\ written'[n + i] = B[i]
      BY <1>3, <1>4, <1>5
    <3> QED BY <3>1 DEF Written, ToSet
  <2>4. ToSet(B) \subseteq Calls
    BY <1>3 DEF ToSet
  <2> QED BY <1>2, <2>1, <2>2, <2>3, <2>4, SameScript DEF Started, InBatch, Turns
<1>7. Stretch'
  BY <1>2, <1>6 DEF OrderInv, Stretch
<1>8. InOrder'
  <2>1. \A i \in DOMAIN written' : written'[i] \in Calls
    <3> SUFFICES ASSUME NEW i \in DOMAIN written' PROVE written'[i] \in Calls
      OBVIOUS
    <3>1. CASE i <= n
      BY <1>4, <1>5, <3>1 DEF OrderInv, InOrder
    <3>2. CASE ~(i <= n)
      BY <1>3, <1>4, <1>5, <3>2
    <3> QED BY <3>1, <3>2
  <2>2. ASSUME NEW i \in DOMAIN written', NEW j \in DOMAIN written', i < j
        PROVE  Before(written'[i], written'[j])
    <3>1. CASE j <= n
      BY <1>4, <1>5, <2>2, <3>1 DEF OrderInv, InOrder
    <3>2. CASE i <= n /\ ~(j <= n)
      <4>1. PICK l : l = j - n
        OBVIOUS
      <4>2. i \in 1..n /\ l \in 1..m /\ written'[i] = written[i] /\ written'[j] = B[l]
        BY <1>3, <1>4, <1>5, <3>2, <4>1
      <4>3. written[i] \in Written /\ B[l] \in ToSet(B)
        BY <1>3, <1>4, <4>2
      <4> QED BY <1>3, <4>2, <4>3
    <3>3. CASE ~(i <= n)
      <4>1. PICK k, l : k = i - n /\ l = j - n
        OBVIOUS
      <4>2. k \in 1..m /\ l \in 1..m /\ k < l /\ written'[i] = B[k] /\ written'[j] = B[l]
        <5>1. i \in 1..(n + m) /\ j \in 1..(n + m) /\ ~(j <= n)
          BY <1>4, <1>5, <2>2, <3>3
        <5>2. k \in 1..m /\ l \in 1..m /\ k < l
          BY <1>3, <1>4, <2>2, <3>3, <4>1, <5>1
        <5>3. written'[i] = B[k] /\ written'[j] = B[l]
          BY <1>5, <3>3, <4>1, <5>1
        <5> QED BY <5>2, <5>3
      <4>3. B[k] = <<turn, B[1][2] + (k - 1)>> /\ B[l] = <<turn, B[1][2] + (l - 1)>> /\ B[1][2] \in Int
        <5>1. B[1] \in Calls
          BY <1>3, <4>2
        <5>2. B[1] \in Places
          BY <5>1, CallsAre DEF CallsTypeOK
        <5>3. B[1][2] \in Int
          BY <5>2 DEF Places
        <5> QED BY <1>3, <4>2, <5>3
      <4>4. B[k][1] = B[l][1] /\ B[k][2] < B[l][2]
        BY <4>2, <4>3
      <4> QED BY <4>2, <4>4 DEF Before
    <3> QED BY <1>4, <1>5, <2>2, <3>1, <3>2, <3>3
  <2> QED BY <1>6, <2>1, <2>2 DEF InOrder, Before
<1>9. Closed(Written)' /\ Closed(Started)'
  BY <1>3, <1>6 DEF OrderInv, Closed, Started
<1>10. StagesTell'
  BY <1>2, <1>6 DEF OrderInv, StagesTell, Started
<1>11. TurnsWhole'
  <2>1. \A e \in ToSet(B) : e[1] = turn /\ turn \in Nat
    BY <1>3 DEF ToSet, CallsTypeOK
  <2> QED BY <1>2, <1>6, <2>1 DEF OrderInv, TurnsWhole
<1> QED BY <1>5, <1>7, <1>8, <1>9, <1>10, <1>11 DEF OrderInv

LEMMA FinishToolKeepsOrder ==
  ASSUME CallsTypeOK, OrderInv, NEW c \in Calls, FinishTool(c)
  PROVE  OrderInv' /\ written' \in Seq(Places)
<1>1. PICK n, m, B : n = Len(written) /\ m = Len(batch[turn]) /\ B = batch[turn]
  OBVIOUS
<1>2. /\ phase = "running" /\ c \in ToSet(B) /\ c \notin Written /\ stage[c] = "settled"
      /\ \A d \in ToSet(B) \ Written : c[2] <= d[2]
      /\ UNCHANGED <<script, turn, phase, failed>>
      /\ batch' = IF c = Last(B) THEN [batch EXCEPT ![turn] = <<>>] ELSE batch
      /\ \A d \in Calls : stage'[d] = IF d = c THEN "written" ELSE stage[d]
      /\ written' = Append(written, c)
  BY <1>1 DEF FinishTool, Finishes, NextResult, Due, CallsTypeOK, turns
<1>3. /\ written \in Seq(Places) /\ c \in Places /\ n \in Nat /\ DOMAIN written = 1..n
      /\ \A i \in 1..n : written[i] \in Written
      /\ turn \in Turns /\ B \in Seq(Places) /\ m \in Nat /\ DOMAIN B = 1..m
  <2>1. turn \in Turns
    BY <1>2, ScriptsAssumption DEF CallsTypeOK, Turns
  <2> QED BY <1>1, <2>1, CallsAre, LenProperties DEF CallsTypeOK, Written, ToSet
<1>4. /\ written' \in Seq(Places) /\ Longer(written, written', c) /\ DOMAIN written' = 1..(n + 1)
      /\ written'[n + 1] = c /\ \A i \in 1..n : written'[i] = written[i]
  BY <1>1, <1>2, <1>3, AppendProperties, LenProperties DEF Longer
<1>5. Written' = Written \cup {c} /\ Calls' = Calls
  <2>1. PICK w : w = written'
    OBVIOUS
  <2>2. ToSet(w) = ToSet(written) \cup {c}
    BY <1>3, <1>4, <2>1, LongerSet
  <2>3. Written = ToSet(written) /\ Written' = ToSet(written')
    BY DEF Written
  <2> QED BY <1>2, <2>1, <2>2, <2>3, SameScript
<1>6. \A d \in Calls : d[1] \in Nat /\ d[2] \in Nat /\ d = <<d[1], d[2]>>
  BY CallsAre DEF CallsTypeOK
<1>7. \A d \in ToSet(B) : d \in Calls /\ d[1] = turn
  BY <1>1, <1>3 DEF OrderInv, Stretch, ToSet
<1>8. Written \subseteq Calls
  BY DEF OrderInv, InOrder, Written, ToSet
<1>9. \A d \in Written : Before(d, c)
  <2> SUFFICES ASSUME NEW d \in Written, ~Before(d, c) PROVE FALSE
    OBVIOUS
  <2>1. Before(c, d) /\ d[1] <= turn /\ c[1] = turn
    BY <1>2, <1>7, <1>8, BeforeIsOrder DEF CallsTypeOK, OrderInv, TurnsWhole
  <2>2. c[1] = d[1] /\ c[2] < d[2]
    BY <1>6, <1>8, <2>1 DEF Before
  <2> QED BY <1>2, <2>2 DEF OrderInv, Closed
<1>10. InOrder'
  <2>1. \A i \in DOMAIN written' : written'[i] \in Calls
    BY <1>3, <1>4, <1>8
  <2>2. \A i, j \in DOMAIN written' : i < j => Before(written'[i], written'[j])
    <3> SUFFICES ASSUME NEW i \in DOMAIN written', NEW j \in DOMAIN written', i < j
                 PROVE  Before(written'[i], written'[j])
      OBVIOUS
    <3>1. CASE j = n + 1
      BY <1>3, <1>4, <1>9, <3>1
    <3>2. CASE j # n + 1
      BY <1>3, <1>4, <3>2 DEF OrderInv, InOrder
    <3> QED BY <3>1, <3>2
  <2> QED BY <1>5, <2>1, <2>2 DEF InOrder, Before
<1>11. Closed(Written \cup {c})
  <2> SUFFICES ASSUME NEW d \in Calls, d \notin Written, d[1] = c[1], d[2] < c[2] PROVE FALSE
    BY DEF OrderInv, Closed
  <2>1. c \in Started /\ c[1] = turn
    BY <1>1, <1>2, <1>7 DEF Started, InBatch
  <2>2. d \in ToSet(B) \ Written
    BY <1>1, <2>1 DEF OrderInv, Closed, Started, InBatch
  <2> QED BY <1>2, <1>6, <1>7, <2>2
<1>12. Started' = Started /\ Stretch' /\ Turns' = Turns
  <2>1. CASE batch' = batch
    BY <1>1, <1>2, <1>5, <1>7, <2>1 DEF Started, InBatch, OrderInv, Stretch, Turns
  <2>2. CASE batch' # batch
    <3>1. c = B[m] /\ batch' = [batch EXCEPT ![turn] = <<>>]
      BY <1>1, <1>2, <2>2 DEF Last
    <3>2. \A d \in ToSet(B) : d \in Written \cup {c}
      <4> SUFFICES ASSUME NEW i \in 1..m, B[i] \notin Written PROVE B[i] = c
        BY <1>3 DEF ToSet
      <4>1. B[i] \in ToSet(B) /\ B[i] \in Calls /\ B[1] \in Calls /\ m \in 1..m /\ B[m] \in Calls
        BY <1>1, <1>3 DEF OrderInv, Stretch, ToSet
      <4>2. c[2] <= B[i][2]
        BY <1>2, <4>1
      <4>3. /\ B[i] = <<turn, B[1][2] + (i - 1)>> /\ c = <<turn, B[1][2] + (m - 1)>>
            /\ B[1][2] \in Nat
        BY <1>1, <1>3, <1>6, <3>1, <4>1 DEF OrderInv, Stretch
      <4>4. B[1][2] + (m - 1) <= B[1][2] + (i - 1)
        BY <4>2, <4>3
      <4>5. i = m
        BY <1>3, <4>3, <4>4
      <4> QED BY <3>1, <4>5
    <3>3. batch'[turn] = <<>> /\ \A t \in Turns \ {turn} : batch'[t] = batch[t]
      BY <1>3, <3>1 DEF CallsTypeOK
    <3>4. \A d \in Calls : (InBatch(d)' => InBatch(d)) /\ (InBatch(d) => d \in Written \cup {c} \/ InBatch(d)')
      <4> SUFFICES ASSUME NEW d \in Calls
                   PROVE  (InBatch(d)' => InBatch(d)) /\ (InBatch(d) => d \in Written \cup {c} \/ InBatch(d)')
        OBVIOUS
      <4>1. CASE d[1] = turn
        BY <1>1, <3>2, <3>3, <4>1 DEF InBatch, ToSet
      <4>2. CASE d[1] # turn
        <5>1. d[1] \in Turns
          BY DEF Calls, Turns
        <5> QED BY <3>3, <4>2, <5>1 DEF InBatch
      <4> QED BY <4>1, <4>2
    <3>5. c \in Started
      BY <1>1, <1>2, <1>7 DEF Started, InBatch
    <3>6. Started' = Started
      BY <1>5, <1>8, <3>4, <3>5 DEF Started
    <3>7. Turns' = Turns
      BY <1>2 DEF Turns
    <3>8. Stretch'
      <4> SUFFICES ASSUME NEW t \in Turns, NEW i \in DOMAIN batch'[t]
                   PROVE  batch'[t][i] \in Calls /\ batch'[t][i] = <<t, batch'[t][1][2] + (i - 1)>>
        BY <1>5, <3>7 DEF Stretch
      <4>1. t # turn
        BY <3>3
      <4> QED BY <3>3, <4>1 DEF OrderInv, Stretch
    <3> QED BY <3>6, <3>7, <3>8
  <2> QED BY <2>1, <2>2
<1>13. Closed(Written)' /\ Closed(Started)'
  BY <1>5, <1>11, <1>12 DEF OrderInv, Closed, Before
<1>14. StagesTell'
  <2>1. c \in Started
    BY <1>1, <1>2, <1>7 DEF Started, InBatch
  <2> QED BY <1>2, <1>5, <1>12, <2>1 DEF OrderInv, StagesTell
<1>15. TurnsWhole'
  BY <1>2, <1>5, <1>6, <1>7 DEF OrderInv, TurnsWhole, CallsTypeOK
<1> QED BY <1>4, <1>10, <1>12, <1>13, <1>14, <1>15 DEF OrderInv
-----------------------------------------------------------------------------
(* The limits and who waits for them, in the steps that are none of their  *)
(* own.                                                                    *)
LEMMA TokensKept ==
  ASSUME NEW at \in Turns, TokenInv(at), script' = script,
         slots'[at] = slots[at], members'[at] = members[at], jobs'[at] = jobs[at],
         \A c \in Calls : c[1] = at /\ stage[c] \in {"waiting", "leaving"} => stage'[c] = stage[c],
         \A c \in Calls : c[1] = at /\ stage'[c] = "authorize" => Len(batch'[at]) = 1
  PROVE  TokenInv(at)'
<1>1. Calls' = Calls /\ \A c : Kind(c)' = Kind(c)
  BY SameScript
<1>2. Apart(at)'
  BY DEF TokenInv, Apart, Distinct
<1>3. /\ \A c \in ToSet(slots[at].waiting) \cup ToSet(members[at].waiting) : Own(at, c) /\ stage'[c] = "waiting"
      /\ \A a \in ToSet(jobs[at]) :
           Own(at, a.call) /\ stage'[a.call] = IF a.job \in Takes THEN "waiting" ELSE "leaving"
  BY DEF TokenInv, Known, InLine, Own
<1>4. Known(at)'
  BY <1>1, <1>3 DEF TokenInv, Known, InLine, Own
<1> QED BY <1>2, <1>4 DEF TokenInv

LEMMA CountsKept ==
  ASSUME NEW at \in Turns, CountInv(at), script' = script,
         slots'[at] = slots[at], members'[at] = members[at], jobs'[at] = jobs[at],
         Len(batch'[at]) > 1 =>
           /\ batch'[at] = batch[at]
           /\ \A c \in ToSet(batch[at]) : /\ stage'[c] \in {"run", "unwind"} <=> stage[c] \in {"run", "unwind"}
                                          /\ stage'[c] = "leaving" <=> stage[c] = "leaving"
                                          /\ stage'[c] = "waiting" <=> stage[c] = "waiting"
  PROVE  CountInv(at)'
<1> SUFFICES ASSUME Len(batch'[at]) > 1 PROVE Counts(at)'
  BY DEF CountInv
<1>1. batch'[at] = batch[at] /\ Counts(at)
  BY DEF CountInv
<1>2. Delegates(at)' = Delegates(at) /\ Latecomers(at)' = Latecomers(at) /\ Delegates(at) \subseteq ToSet(batch[at])
  BY <1>1 DEF Delegates, Latecomers, Kind
<1>3. /\ \A n : Awaited(at, n)' = Awaited(at, n)
      /\ \A n, c : Named(at, n, c)' = Named(at, n, c)
  BY DEF Awaited, Named
<1>4. InSlot(at)' = InSlot(at)
  BY <1>1, <1>3 DEF InSlot
<1>5. InMember(at)' = InMember(at)
  BY <1>1, <1>2, <1>3 DEF InMember
<1> QED BY <1>1, <1>2, <1>3, <1>4, <1>5 DEF Counts

(* A step within one turn leaves what belongs to the others alone.         *)
Elsewhere(f, g, at) == g = [f EXCEPT ![at] = g[at]]
OnlyAt(at) ==
  /\ Elsewhere(slots, slots', at) /\ Elsewhere(members, members', at)
  /\ Elsewhere(jobs, jobs', at) /\ Elsewhere(batch, batch', at)
  /\ \A c \in Calls : c[1] # at => stage'[c] = stage[c]

LEMMA ElsewhereIs ==
  ASSUME NEW T, NEW S, NEW f \in [T -> S], NEW at \in T
  PROVE  /\ Elsewhere(f, f, at)
         /\ \A v : Elsewhere(f, [f EXCEPT ![at] = v], at) /\ [f EXCEPT ![at] = v][at] = v
         /\ \A g : Elsewhere(f, g, at) => /\ \A u \in T \ {at} : g[u] = f[u]
                                          /\ g[at] \in S => g \in [T -> S]
BY DEF Elsewhere

LEMMA OwnCalls ==
  ASSUME CallsTypeOK, OrderInv
  PROVE  /\ \A c \in Calls : c[1] \in Turns
         /\ \A c \in Calls : stage[c] \notin {"new", "written"} => c \in ToSet(batch[c[1]])
         /\ \A at \in Turns : \A c \in ToSet(batch[at]) : c \in Calls /\ c[1] = at
BY DEF CallsTypeOK, OrderInv, Stretch, StagesTell, Started, InBatch, ToSet, Calls, Turns

LEMMA Assembled ==
  ASSUME NEW at \in Turns, CallsInv, script' = script, OnlyAt(at), TurnInv(at)'
  PROVE  CallsInv'
<1>1. Turns' = Turns
  BY DEF Turns
<1>2. ASSUME NEW u \in Turns, u # at PROVE TokenInv(u)' /\ CountInv(u)'
  <2>1. /\ slots'[u] = slots[u] /\ members'[u] = members[u] /\ jobs'[u] = jobs[u] /\ batch'[u] = batch[u]
        /\ \A c \in Calls : c[1] = u => stage'[c] = stage[c]
    BY <1>2 DEF CallsInv, CallsTypeOK, OnlyAt, Elsewhere
  <2>2. TokenInv(u) /\ CountInv(u) /\ \A c \in ToSet(batch[u]) : c \in Calls /\ c[1] = u
    BY OwnCalls DEF CallsInv
  <2>3. TokenInv(u)'
    <3>1. \A c \in Calls : c[1] = u /\ stage'[c] = "authorize" => Len(batch'[u]) = 1
      BY <2>1, <2>2 DEF TokenInv, Known
    <3> QED BY <2>1, <2>2, <3>1, TokensKept
  <2>4. CountInv(u)'
    BY <2>1, <2>2, CountsKept
  <2> QED BY <2>3, <2>4
<1> QED BY <1>1, <1>2 DEF CallsInv, TurnInv

LEMMA BetweenBatches ==
  ASSUME CallsTypeOK, OrderInv, batch[turn] = <<>>
  PROVE  \A c \in Calls : c[1] = turn => stage[c] \in {"new", "written"}
BY OwnCalls DEF ToSet

LEMMA OnwardKeeps ==
  ASSUME CallsInv, NEW c \in Calls, NEW v \in {"run", "unwind", "settled"}, stage[c] \in {"run", "authorize"},
         Len(batch[c[1]]) > 1 => stage[c] = "run" /\ v = "unwind", stage' = [stage EXCEPT ![c] = v],
         UNCHANGED <<turns, batch, written, slots, members, jobs>>
  PROVE  CallsInv'
<1>1. stage \in [Calls -> Stages] /\ Calls' = Calls /\ Turns' = Turns /\ UNCHANGED <<script, turn, phase, failed>>
  BY SameScript DEF CallsInv, CallsTypeOK, Turns, turns
<1>2. stage' \in [Calls -> Stages] /\ \A d \in Calls : stage'[d] = IF d = c THEN v ELSE stage[d]
  BY <1>1 DEF Stages
<1>3. CallsTypeOK'
  BY <1>1, <1>2 DEF CallsInv, CallsTypeOK
<1>4. OrderInv'
  <2>1. \A d \in Calls : (stage'[d] = "new" <=> stage[d] = "new") /\ (stage'[d] = "written" <=> stage[d] = "written")
    BY <1>2
  <2> QED BY <1>1, <2>1, OrderKept DEF CallsInv
<1>5. ASSUME NEW at \in Turns PROVE TokenInv(at)'
  <2>1. \A d \in Calls : stage[d] \in {"waiting", "leaving"} => stage'[d] = stage[d]
    BY <1>2
  <2>2. \A d \in Calls : d[1] = at /\ stage'[d] = "authorize" => Len(batch'[at]) = 1
    BY <1>2 DEF CallsInv, TokenInv, Known
  <2>3. TokenInv(at)
    BY DEF CallsInv
  <2> QED BY <1>1, <2>1, <2>2, <2>3, TokensKept
<1>6. ASSUME NEW at \in Turns PROVE CountInv(at)'
  <2>1. ASSUME Len(batch[at]) > 1, NEW d \in ToSet(batch[at])
        PROVE  /\ stage'[d] \in {"run", "unwind"} <=> stage[d] \in {"run", "unwind"}
               /\ stage'[d] = "leaving" <=> stage[d] = "leaving"
               /\ stage'[d] = "waiting" <=> stage[d] = "waiting"
    <3>1. d \in Calls /\ d[1] = at
      BY OwnCalls DEF CallsInv
    <3> QED BY <1>2, <2>1, <3>1
  <2>2. CountInv(at)
    BY DEF CallsInv
  <2> QED BY <1>1, <2>1, <2>2, CountsKept
<1> QED BY <1>1, <1>3, <1>4, <1>5, <1>6 DEF CallsInv

LEMMA FinishToolKeeps ==
  ASSUME CallsInv, NEW c \in Calls, FinishTool(c)
  PROVE  CallsInv'
<1>1. /\ UNCHANGED <<script, turn, phase, failed, slots, members, jobs>> /\ stage[c] = "settled" /\ phase = "running"
      /\ stage' = [stage EXCEPT ![c] = "written"] /\ (batch' = batch \/ batch' = [batch EXCEPT ![turn] = <<>>])
      /\ c \in ToSet(batch[turn])
  BY DEF FinishTool, Finishes, NextResult, Due, handling, turns
<1>2. stage \in [Calls -> Stages] /\ Calls' = Calls /\ Turns' = Turns
  BY <1>1, SameScript DEF CallsInv, CallsTypeOK, Turns
<1>3. stage' \in [Calls -> Stages] /\ \A d \in Calls : stage'[d] = IF d = c THEN "written" ELSE stage[d]
  BY <1>1, <1>2 DEF Stages
<1>4. OrderInv' /\ written' \in Seq(Places)
  BY FinishToolKeepsOrder DEF CallsInv
<1>5. PICK at \in Turns : at = turn
  BY <1>1, ScriptsAssumption DEF CallsInv, CallsTypeOK, Turns
<1>6. TurnInv(at) /\ c[1] = at
  BY <1>1, <1>5, OwnCalls DEF CallsInv, TurnInv
<1>7. OnlyAt(at) /\ (batch'[at] = batch[at] \/ batch'[at] = <<>>)
  <2>1. Elsewhere(slots, slots', at) /\ Elsewhere(members, members', at) /\ Elsewhere(jobs, jobs', at)
    BY <1>1, ElsewhereIs DEF CallsInv, CallsTypeOK
  <2>2. Elsewhere(batch, batch', at) /\ (batch'[at] = batch[at] \/ batch'[at] = <<>>)
    <3>1. batch' = batch \/ batch' = [batch EXCEPT ![at] = <<>>]
      BY <1>1, <1>5
    <3>2. batch \in [Turns -> Seq(Places)]
      BY DEF CallsInv, CallsTypeOK
    <3> QED BY <3>1, <3>2 DEF Elsewhere
  <2>3. \A d \in Calls : d[1] # at => stage'[d] = stage[d]
    BY <1>3, <1>6
  <2> QED BY <2>1, <2>2, <2>3 DEF OnlyAt
<1>8. CallsTypeOK'
  <2>1. batch' \in [Turns -> Seq(Places)]
    <3>1. <<>> \in Seq(Places)
      OBVIOUS
    <3>2. batch \in [Turns -> Seq(Places)]
      BY DEF CallsInv, CallsTypeOK
    <3> QED BY <1>1, <3>1, <3>2
  <2> QED BY <1>1, <1>2, <1>3, <1>4, <2>1 DEF CallsInv, CallsTypeOK
<1>9. batch'[at] # batch[at] => Len(batch'[at]) = 0 /\ \A d \in Calls : d[1] = at => stage'[d] # "authorize"
  <2> SUFFICES ASSUME batch'[at] # batch[at]
               PROVE  Len(batch'[at]) = 0 /\ \A d \in Calls : d[1] = at => stage'[d] # "authorize"
    OBVIOUS
  <2>1. batch'[at] = <<>> /\ turn' = at
    BY <1>1, <1>5, <1>7
  <2>2. \A d \in Calls : d[1] = at => (d \in Started' => d \in Written')
    BY <1>2, <2>1 DEF Started, InBatch, ToSet
  <2>3. \A d \in Calls : d[1] = at => stage'[d] \in {"new", "written"}
    BY <1>2, <1>4, <2>2 DEF OrderInv, StagesTell
  <2> QED BY <2>1, <2>3
<1>10. TokenInv(at)'
  <2>1. \A d \in Calls : stage[d] \in {"waiting", "leaving"} => stage'[d] = stage[d]
    BY <1>1, <1>3
  <2>2. \A d \in Calls : d[1] = at /\ stage'[d] = "authorize" => Len(batch'[at]) = 1
    BY <1>3, <1>6, <1>9 DEF TurnInv, TokenInv, Known
  <2> QED BY <1>1, <1>6, <2>1, <2>2, TokensKept DEF TurnInv
<1>11. CountInv(at)'
  <2>1. \A d \in ToSet(batch[at]) : /\ stage'[d] \in {"run", "unwind"} <=> stage[d] \in {"run", "unwind"}
                                    /\ stage'[d] = "leaving" <=> stage[d] = "leaving"
                                    /\ stage'[d] = "waiting" <=> stage[d] = "waiting"
    <3>1. ToSet(batch[at]) \subseteq Calls
      BY OwnCalls DEF CallsInv
    <3> QED BY <1>1, <1>3, <3>1
  <2>2. Len(batch'[at]) > 1 => batch'[at] = batch[at]
    BY <1>9
  <2> QED BY <1>1, <1>6, <2>1, <2>2, CountsKept DEF TurnInv
<1>12. TurnInv(at)'
  BY <1>4, <1>8, <1>10, <1>11 DEF TurnInv
<1> QED BY <1>1, <1>7, <1>12, Assembled

LEMMA SkipCallKeeps ==
  ASSUME CallsInv, SkipCall
  PROVE  CallsInv'
<1>1. /\ batch[turn] = <<>> /\ Unanswered # {}
      /\ UNCHANGED <<script, turn, phase, failed, batch, slots, members, jobs>>
      /\ stage' = [stage EXCEPT ![FirstLeft] = "written"]
  BY DEF SkipCall, Between, handling, turns
<1>0. FirstLeft \in Calls /\ FirstLeft[1] = turn /\ stage[FirstLeft] = "new"
  BY <1>1, FirstLeftIs DEF CallsInv
<1>2. stage \in [Calls -> Stages] /\ Calls' = Calls /\ Turns' = Turns
  BY <1>1, SameScript DEF CallsInv, CallsTypeOK, Turns
<1>3. /\ stage' \in [Calls -> Stages] /\ \A d \in Calls : stage'[d] \in {"written", stage[d]}
      /\ \A d \in Calls : d # FirstLeft => stage'[d] = stage[d]
  BY <1>0, <1>1, <1>2 DEF Stages
<1>4. OrderInv' /\ written' \in Seq(Places)
  BY SkipCallKeepsOrder DEF CallsInv
<1>5. CallsTypeOK'
  BY <1>1, <1>2, <1>3, <1>4 DEF CallsInv, CallsTypeOK
<1>6. \A d \in Calls : stage[d] \in {"new", "written"} \/ stage'[d] = stage[d]
  BY <1>0, <1>3
<1>7. ASSUME NEW at \in Turns PROVE TokenInv(at)' /\ CountInv(at)'
  <2>1. TokenInv(at) /\ CountInv(at)
    BY DEF CallsInv
  <2>2. \A d \in Calls : stage[d] \in {"waiting", "leaving"} => stage'[d] = stage[d]
    BY <1>6
  <2>3. \A d \in Calls : d[1] = at /\ stage'[d] = "authorize" => Len(batch'[at]) = 1
    BY <1>1, <1>3, <2>1 DEF TokenInv, Known
  <2>4. TokenInv(at)'
    BY <1>1, <2>1, <2>2, <2>3, TokensKept
  <2>5. \A d \in ToSet(batch[at]) : stage'[d] = stage[d]
    <3> SUFFICES ASSUME NEW d \in ToSet(batch[at]) PROVE stage'[d] = stage[d]
      OBVIOUS
    <3>1. d \in Calls /\ d[1] = at /\ at # turn
      BY <1>1, OwnCalls DEF CallsInv, ToSet
    <3> QED BY <1>0, <1>3, <3>1
  <2>6. CountInv(at)'
    BY <1>1, <2>1, <2>5, CountsKept
  <2> QED BY <2>4, <2>6
<1> QED BY <1>2, <1>4, <1>5, <1>7 DEF CallsInv

LEMMA StartSingleKeeps ==
  ASSUME CallsInv, StartSingle
  PROVE  CallsInv'
<1>1. /\ phase = "running" /\ batch[turn] = <<>> /\ Unanswered # {} /\ Len(NextBatch) = 1
      /\ batch' = [batch EXCEPT ![turn] = NextBatch]
      /\ UNCHANGED <<script, turn, phase, failed, jobs, written>>
  BY DEF StartSingle, Between, turns
<1>2. PICK c : c = NextBatch[1]
  OBVIOUS
<1>3. /\ c \in Calls /\ stage[c] = "new" /\ NextBatch \in Seq(Places) /\ ToSet(NextBatch) = {c} /\ c[1] = turn
  <2>1. /\ 1 \in 1..Len(NextBatch) /\ NextBatch \in Seq(Places) /\ NextBatch[1] \in Calls
        /\ stage[NextBatch[1]] = "new" /\ NextBatch[1] \in Unanswered
    BY <1>1, NextBatchIs DEF CallsInv, Unanswered
  <2>2. DOMAIN NextBatch = 1..1
    BY <1>1, <2>1, LenProperties
  <2>3. ToSet(NextBatch) = {NextBatch[1]}
    BY <2>2 DEF ToSet
  <2> QED BY <1>2, <2>1, <2>3 DEF Unanswered
<1>4. stage \in [Calls -> Stages] /\ Calls' = Calls /\ Turns' = Turns
  BY <1>1, SameScript DEF CallsInv, CallsTypeOK, Turns
<1>5. PICK at \in Turns : at = turn
  BY <1>3, OwnCalls DEF CallsInv
<1>6. slots' = slots /\ members' = members /\ \E v \in {"authorize", "run"} : Moved(stage, stage', c, v)
  <2>1. CASE Kind(c) = "ask"
    <3>1. stage' = [stage EXCEPT ![c] = "authorize"] /\ UNCHANGED <<slots, members>>
      BY <1>2, <2>1 DEF StartSingle
    <3> QED BY <1>3, <1>4, <3>1 DEF Moved, Stages
  <2>2. CASE Kind(c) # "ask"
    <3>1. PICK e, x, y : e = RunCall(Batch(x, y, stage, hand), c) /\ x = slots[at] /\ y = members[at]
      OBVIOUS
    <3>2. Become(at, e)
      BY <1>2, <1>5, <2>2, <3>1 DEF StartSingle, Now
    <3>3. e.slots = x /\ e.members = y /\ Moved(stage, e.stage, c, "run")
      BY <1>3, <1>4, <3>1, RunCallIs
    <3>4. slots \in [Turns -> LimitStates] /\ members \in [Turns -> LimitStates]
      BY DEF CallsInv, CallsTypeOK
    <3>5. slots' = [slots EXCEPT ![at] = slots[at]] /\ members' = [members EXCEPT ![at] = members[at]]
      BY <3>1, <3>2, <3>3 DEF Become
    <3> QED BY <3>2, <3>3, <3>4, <3>5 DEF Become
  <2> QED BY <2>1, <2>2
<1>7. stage' \in [Calls -> Stages] /\ stage'[c] \in {"authorize", "run"} /\ \A d \in Calls \ {c} : stage'[d] = stage[d]
  BY <1>6 DEF Moved
<1>8. OnlyAt(at) /\ batch'[at] = NextBatch /\ TurnInv(at)
  <2>1. Elsewhere(slots, slots', at) /\ Elsewhere(members, members', at) /\ Elsewhere(jobs, jobs', at)
    BY <1>1, <1>6, ElsewhereIs DEF CallsInv, CallsTypeOK
  <2>2. Elsewhere(batch, batch', at) /\ batch'[at] = NextBatch
    <3>1. batch' = [batch EXCEPT ![at] = NextBatch]
      BY <1>1, <1>5
    <3>2. batch \in [Turns -> Seq(Places)]
      BY DEF CallsInv, CallsTypeOK
    <3> QED BY <3>1, <3>2 DEF Elsewhere
  <2>3. \A d \in Calls : d[1] # at => stage'[d] = stage[d]
    BY <1>3, <1>5, <1>7
  <2> QED BY <2>1, <2>2, <2>3 DEF OnlyAt, CallsInv, TurnInv
<1>9. CallsTypeOK'
  BY <1>1, <1>3, <1>4, <1>6, <1>7 DEF CallsInv, CallsTypeOK
<1>10. OrderInv'
  <2>1. \A d \in Calls : IF d \in ToSet(NextBatch) THEN stage'[d] \notin {"new", "written"} ELSE stage'[d] = stage[d]
    BY <1>3, <1>7
  <2> QED BY <1>1, <2>1, BatchStartsInOrder DEF CallsInv
<1>11. TokenInv(at)'
  <2>1. \A d \in Calls : stage[d] \in {"waiting", "leaving"} => stage'[d] = stage[d]
    BY <1>3, <1>7
  <2> QED BY <1>1, <1>6, <1>8, <2>1, TokensKept DEF TurnInv
<1>12. CountInv(at)'
  <2>1. Len(batch'[at]) = 1
    BY <1>1, <1>8
  <2> QED BY <2>1 DEF CountInv
<1>13. TurnInv(at)'
  BY <1>9, <1>10, <1>11, <1>12 DEF TurnInv
<1> QED BY <1>1, <1>8, <1>13, Assembled

LEMMA StartBatchKeeps ==
  ASSUME CallsInv, StartBatch
  PROVE  CallsInv'
<1>1. /\ phase = "running" /\ batch[turn] = <<>> /\ Unanswered # {} /\ Len(NextBatch) > 1
      /\ batch' = [batch EXCEPT ![turn] = NextBatch]
      /\ UNCHANGED <<script, turn, phase, failed, jobs, written>> /\ \A t \in Turns : jobs[t] = <<>>
  BY DEF StartBatch, Between, Quiet, turns, Turns
<1>2. PICK e, P : e = Filled(Batch(Idle, Idle, stage, hand), NextBatch) /\ P = ToSet(NextBatch)
  OBVIOUS
<1>3. Entering(e, P)
  BY <1>1, <1>2, AllEnter DEF CallsInv
<1>4. PICK at \in Turns : at = turn
  <2>1. PICK c \in Unanswered : TRUE
    BY <1>1
  <2> QED BY <2>1, OwnCalls DEF CallsInv, Unanswered
<1>5. Become(at, e)
  BY <1>2, <1>4 DEF StartBatch, Filled
<1>6. /\ slots'[at] = e.slots /\ members'[at] = e.members /\ stage' = e.stage /\ batch'[at] = NextBatch
      /\ Elsewhere(slots, slots', at) /\ Elsewhere(members, members', at)
      /\ Elsewhere(batch, batch', at) /\ Elsewhere(jobs, jobs', at)
  <2>1. slots'[at] = e.slots /\ Elsewhere(slots, slots', at)
    BY <1>5, ElsewhereIs DEF CallsInv, CallsTypeOK, Become
  <2>2. members'[at] = e.members /\ Elsewhere(members, members', at)
    BY <1>5, ElsewhereIs DEF CallsInv, CallsTypeOK, Become
  <2>3. batch'[at] = NextBatch /\ Elsewhere(batch, batch', at) /\ Elsewhere(jobs, jobs', at)
    <3>1. batch' = [batch EXCEPT ![at] = NextBatch] /\ jobs' = jobs
      BY <1>1, <1>4
    <3>2. batch \in [Turns -> Seq(Places)] /\ jobs \in [Turns -> Seq(JobRecords)]
      BY DEF CallsInv, CallsTypeOK
    <3> QED BY <3>1, <3>2 DEF Elsewhere
  <2> QED BY <1>5, <2>1, <2>2, <2>3 DEF Become
<1>7. /\ Calls' = Calls /\ Turns' = Turns /\ NextBatch \in Seq(Places) /\ P \subseteq Calls /\ (\A c : Kind(c)' = Kind(c))
      /\ \A c \in P : c[1] = at
  <2>1. \A c \in P : c[1] = at
    BY <1>1, <1>2, <1>4, NextBatchIs, LenProperties DEF CallsInv, ToSet
  <2> QED BY <1>1, <1>3, <2>1, SameScript, NextBatchIs DEF CallsInv, Entering, Turns
<1>8. /\ \A c \in Calls : c[1] = at => stage[c] \in {"new", "written"}
      /\ \A c \in Calls : IF c \in P THEN stage'[c] \in {"run", "waiting"} ELSE stage'[c] = stage[c]
      /\ \A c \in ToSet(slots'[at].waiting) : c \in P /\ stage'[c] = "waiting"
      /\ \A c \in ToSet(members'[at].waiting) : c \in P /\ stage'[c] = "waiting" /\ Kind(c) = "delegate"
      /\ Distinct(slots'[at].waiting) /\ Distinct(members'[at].waiting)
      /\ ToSet(slots'[at].waiting) \cap ToSet(members'[at].waiting) = {}
  BY <1>1, <1>3, <1>4, <1>6, BetweenBatches DEF CallsInv, Entering, Entered
<1>9. CallsTypeOK'
  <2>1. slots' \in [Turns -> LimitStates]
    BY <1>3, <1>5 DEF CallsInv, CallsTypeOK, Entering, Cast, Become
  <2>2. members' \in [Turns -> LimitStates]
    BY <1>3, <1>5 DEF CallsInv, CallsTypeOK, Entering, Cast, Become
  <2>3. batch' \in [Turns -> Seq(Places)]
    BY <1>1, <1>7 DEF CallsInv, CallsTypeOK
  <2>4. stage' \in [Calls -> Stages]
    BY <1>3, <1>6 DEF Entering, Cast
  <2> QED BY <1>1, <1>7, <2>1, <2>2, <2>3, <2>4 DEF CallsInv, CallsTypeOK
<1>10. OrderInv'
  <2>1. \A d \in Calls : IF d \in ToSet(NextBatch) THEN stage'[d] \notin {"new", "written"} ELSE stage'[d] = stage[d]
    BY <1>2, <1>8
  <2> QED BY <1>1, <2>1, BatchStartsInOrder DEF CallsInv
<1>11. OnlyAt(at)
  BY <1>6, <1>7, <1>8 DEF OnlyAt
<1>12. ToSet(jobs'[at]) = {} /\ Distinct(jobs'[at])
  BY <1>1 DEF ToSet, Distinct
<1>13. TokenInv(at)'
  <2>1. Apart(at)'
    BY <1>8, <1>12 DEF Apart, Distinct
  <2>2. InLine(at, slots[at].waiting)' /\ InLine(at, members[at].waiting)'
    BY <1>7, <1>8 DEF InLine, Own
  <2>3. \A c \in Calls : c[1] = at => stage'[c] # "authorize"
    BY <1>8
  <2>4. Known(at)'
    BY <1>7, <1>8, <1>12, <2>2, <2>3 DEF Known, InLine
  <2> QED BY <2>1, <2>4 DEF TokenInv
<1>14. Counts(at)'
  <2>1. \A n : Awaited(at, n)' = {} /\ \A c : ~Named(at, n, c)'
    BY <1>12 DEF Awaited, Named
  <2>2. InSlot(at)' = Runners(e, P) /\ InMember(at)' = Hired(e, P) /\ Delegates(at)' = Hands(P)
    <3>1. ToSet(batch'[at]) = P
      BY <1>2, <1>6
    <3>2. Delegates(at)' = Hands(P)
      BY <1>7, <3>1 DEF Delegates, Hands
    <3>3. InSlot(at)' = Runners(e, P)
      BY <1>6, <1>7, <1>8, <2>1, <3>1 DEF InSlot, Runners
    <3>4. InMember(at)' = Hired(e, P)
      BY <1>6, <1>7, <1>8, <2>1, <3>2 DEF InMember, Hired, Hands
    <3> QED BY <3>2, <3>3, <3>4
  <2>3. /\ e.slots.active = Cardinality(InSlot(at)') /\ e.slots.active <= MaxCalls /\ e.slots.active \in Int
        /\ e.slots.waiting # <<>> => e.slots.active >= MaxCalls
    BY <1>3, <2>2 DEF Entering, SlotsCounted, Cast, LimitStates
  <2>4. /\ e.members.active = Cardinality(InMember(at)') /\ e.members.active <= MaxMembers /\ e.members.active \in Int
        /\ e.members.waiting # <<>> => e.members.active >= MaxMembers
        /\ e.members.active + Len(e.members.waiting) = Cardinality(Delegates(at)')
    BY <1>3, <2>2 DEF Entering, MembersCounted, Cast, LimitStates
  <2>5. Cardinality({}) = 0
    BY FS_EmptySet
  <2>6. Len(e.members.waiting) <= Latecomers(at)' /\ Len(e.members.waiting) \in Nat
    <3>1. Len(e.members.waiting) \in Nat /\ (e.members.waiting = <<>> => Len(e.members.waiting) = 0)
      BY <1>3, LenProperties DEF Entering, Cast, LimitStates
    <3>2. PICK n : n = Cardinality(Delegates(at)')
      OBVIOUS
    <3>3. Latecomers(at)' = IF n > MaxMembers THEN n - MaxMembers ELSE 0
      BY <3>2 DEF Latecomers
    <3> QED BY <2>4, <3>1, <3>2, <3>3, LimitsAssumption
  <2>7. Latecomers(at)' \in Int
    <3>1. PICK n : n = Cardinality(Delegates(at)')
      OBVIOUS
    <3>2. n \in Int
      <4>1. Len(e.members.waiting) \in Int
        BY <2>6
      <4> QED BY <2>4, <3>1, <4>1
    <3>3. Latecomers(at)' = IF n > MaxMembers THEN n - MaxMembers ELSE 0
      BY <3>1 DEF Latecomers
    <3> QED BY <3>2, <3>3, LimitsAssumption
  <2>8. \A n : Cardinality(Awaited(at, n)') = 0
    BY <2>1, <2>5
  <2> QED BY <1>6, <2>3, <2>4, <2>6, <2>7, <2>8, LimitsAssumption DEF Counts
<1>15. TurnInv(at)'
  BY <1>9, <1>10, <1>13, <1>14 DEF TurnInv, CountInv
<1> QED BY <1>1, <1>11, <1>15, Assembled
-----------------------------------------------------------------------------
(* The steps of the limits themselves. *)
Job(name, c) == [job |-> name, call |-> c]
LEMMA JobIs ==
  ASSUME NEW name \in JobNames, NEW c \in Places
  PROVE  Job(name, c) \in JobRecords /\ Job(name, c).job = name /\ Job(name, c).call = c
BY DEF Job, JobRecords

LEMMA QueueMore ==
  ASSUME NEW s \in Seq(JobRecords), NEW a \in JobRecords, Distinct(s), a \notin ToSet(s)
  PROVE  s \o <<a>> \in Seq(JobRecords) /\ Distinct(s \o <<a>>) /\ ToSet(s \o <<a>>) = ToSet(s) \cup {a}
<1>1. PICK t : t = s \o <<a>>
  OBVIOUS
<1>2. t \in Seq(JobRecords) /\ Longer(s, t, a)
  <2>1. t = Append(s, a)
    BY <1>1, AppendIsConcat
  <2> QED BY <2>1, AppendProperties DEF Longer
<1>3. ToSet(t) = ToSet(s) \cup {a} /\ Distinct(t)
  BY <1>2, LongerSet
<1> QED BY <1>1, <1>2, <1>3

(* What leaving a limit does to it, and who is woken. *)
Woken(limit) == IF limit.waiting = <<>> THEN {} ELSE {Head(limit.waiting)}
LEMMA LeaveIs ==
  ASSUME NEW l \in LimitStates, NEW wake, Distinct(l.waiting), NEW r, r = Leave(l, wake)
  PROVE  /\ r.limit \in LimitStates /\ r.limit.active = l.active - 1
         /\ Distinct(r.limit.waiting) /\ ToSet(r.limit.waiting) = ToSet(l.waiting) \ Woken(l)
         /\ Woken(l) \subseteq ToSet(l.waiting) /\ Len(r.limit.waiting) = Len(l.waiting) - Cardinality(Woken(l))
         /\ Cardinality(Woken(l)) = IF l.waiting = <<>> THEN 0 ELSE 1
         /\ r.limit.waiting # <<>> => l.waiting # <<>>
         /\ r.jobs = IF l.waiting = <<>> THEN <<>> ELSE <<Job(wake, Head(l.waiting))>>
<1>1. PICK n, w : n = l.active /\ w = l.waiting
  OBVIOUS
<1>2. n \in Int /\ w \in Seq(Places) /\ Distinct(w) /\ Len(w) \in Nat
  BY <1>1, LenProperties DEF LimitStates
<1>3. CASE w = <<>>
  <2>1. r.limit = [active |-> n - 1, waiting |-> <<>>] /\ r.jobs = <<>>
    BY <1>1, <1>3 DEF Leave
  <2>2. r.limit \in LimitStates /\ r.limit.active = n - 1 /\ r.limit.waiting = w
    BY <1>2, <1>3, <2>1 DEF LimitStates
  <2>3. Woken(l) = {} /\ Cardinality(Woken(l)) = 0
    BY <1>1, <1>3, FS_EmptySet DEF Woken
  <2> QED BY <1>1, <1>2, <1>3, <2>1, <2>2, <2>3
<1>4. CASE w # <<>>
  <2>1. PICK t : t = Tail(w)
    OBVIOUS
  <2>2. r.limit = [active |-> n - 1, waiting |-> t] /\ r.jobs = <<Job(wake, Head(w))>>
    BY <1>1, <1>4, <2>1 DEF Leave, Job
  <2>3. /\ t \in Seq(Places) /\ Len(t) = Len(w) - 1 /\ Distinct(t) /\ Head(w) \in ToSet(w)
        /\ ToSet(t) = ToSet(w) \ {Head(w)}
    BY <1>2, <1>4, <2>1, ShorterSet
  <2>4. r.limit \in LimitStates /\ r.limit.active = n - 1 /\ r.limit.waiting = t
    BY <1>2, <2>2, <2>3 DEF LimitStates
  <2>5. Woken(l) = {Head(w)} /\ Cardinality(Woken(l)) = 1
    BY <1>1, <1>4, FS_Singleton DEF Woken
  <2> QED BY <1>1, <1>2, <1>4, <2>2, <2>3, <2>4, <2>5
<1> QED BY <1>3, <1>4

(* What is known of the job that runs. *)
LEMMA FirstJobIs ==
  ASSUME NEW at \in Turns, TurnInv(at), jobs[at] # <<>>
  PROVE  LET a == Head(jobs[at])
             c == a.call
         IN /\ a \in ToSet(jobs[at]) /\ a \in JobRecords /\ c \in Calls /\ c \in ToSet(batch[at])
            /\ c[1] = at /\ a = Job(a.job, c) /\ stage[c] = IF a.job \in Takes THEN "waiting" ELSE "leaving"
            /\ Tail(jobs[at]) \in Seq(JobRecords) /\ Distinct(Tail(jobs[at])) /\ ToSet(Tail(jobs[at])) = ToSet(jobs[at]) \ {a}
            /\ \A b \in ToSet(jobs[at]) : b # a => b.call # c
<1>1. PICK a, c : a = Head(jobs[at]) /\ c = a.call
  OBVIOUS
<1>2. jobs[at] \in Seq(JobRecords) /\ Distinct(jobs[at])
  BY DEF TurnInv, CallsTypeOK, TokenInv, Apart
<1>3. /\ a \in ToSet(jobs[at]) /\ a \in JobRecords /\ Tail(jobs[at]) \in Seq(JobRecords) /\ Distinct(Tail(jobs[at]))
      /\ ToSet(Tail(jobs[at])) = ToSet(jobs[at]) \ {a}
  BY <1>1, <1>2, ShorterSet
<1>4. c \in Calls /\ c[1] = at /\ stage[c] = IF a.job \in Takes THEN "waiting" ELSE "leaving"
  BY <1>1, <1>3 DEF TurnInv, TokenInv, Known, Own
<1>5. c \in ToSet(batch[at])
  BY <1>4, OwnCalls DEF TurnInv
<1>6. \A b \in ToSet(jobs[at]) : b # a => b.call # c
  BY <1>1, <1>3 DEF TurnInv, TokenInv, Apart
<1>7. a = Job(a.job, c)
  BY <1>1, <1>3 DEF Job, JobRecords
<1> QED BY <1>1, <1>3, <1>4, <1>5, <1>6, <1>7

LEMMA CountsAreNumbers ==
  ASSUME NEW at \in Turns, CallsTypeOK
  PROVE  /\ slots[at].active \in Int /\ members[at].active \in Int /\ Len(members[at].waiting) \in Nat /\ Latecomers(at) \in Nat
         /\ IsFiniteSet(InSlot(at)) /\ Cardinality(InSlot(at)) \in Nat /\ IsFiniteSet(InMember(at)) /\ Cardinality(InMember(at)) \in Nat
         /\ \A n : IsFiniteSet(Awaited(at, n)) /\ Cardinality(Awaited(at, n)) \in Nat
<1>1. IsFiniteSet(ToSet(batch[at])) /\ IsFiniteSet(ToSet(jobs[at]))
  BY SetOf DEF CallsTypeOK
<1>2. IsFiniteSet(InSlot(at)) /\ IsFiniteSet(Delegates(at))
  BY <1>1, FS_Subset DEF InSlot, Delegates
<1>3. IsFiniteSet(InMember(at))
  BY <1>2, FS_Subset DEF InMember
<1>4. \A n : IsFiniteSet(Awaited(at, n))
  BY <1>1, FS_Subset DEF Awaited
<1>5. Cardinality(InSlot(at)) \in Nat /\ Cardinality(InMember(at)) \in Nat /\ \A n : Cardinality(Awaited(at, n)) \in Nat
  BY <1>2, <1>3, <1>4, FS_CardinalityType
<1>6. Latecomers(at) \in Nat
  <2>1. PICK n : n = Cardinality(Delegates(at))
    OBVIOUS
  <2>2. n \in Nat
    BY <1>2, <2>1, FS_CardinalityType
  <2>3. Latecomers(at) = IF n > MaxMembers THEN n - MaxMembers ELSE 0
    BY <2>1 DEF Latecomers
  <2> QED BY <2>2, <2>3, LimitsAssumption
<1>7. slots[at].active \in Int /\ members[at].active \in Int /\ Len(members[at].waiting) \in Nat
  BY LenProperties DEF CallsTypeOK, LimitStates
<1> QED BY <1>2, <1>3, <1>4, <1>5, <1>6, <1>7

(* The part of the invariant that a job leaves alone. *)
LEMMA JobsKeepOrder ==
  ASSUME NEW at \in Turns, CallsTypeOK, OrderInv, UNCHANGED <<script, turn, phase, failed, batch, written>>, OnlyAt(at),
         stage' \in [Calls -> Stages],
         slots'[at] \in LimitStates, members'[at] \in LimitStates, jobs'[at] \in Seq(JobRecords),
         \A c \in Calls : stage'[c] = stage[c] \/ (stage[c] \in {"unwind", "leaving", "waiting"}
                                                  /\ stage'[c] \in {"leaving", "waiting", "run", "settled"})
  PROVE  CallsTypeOK' /\ OrderInv' /\ Calls' = Calls /\ (\A c : Kind(c)' = Kind(c)) /\ Delegates(at)' = Delegates(at)
         /\ Latecomers(at)' = Latecomers(at)
<1>1. Calls' = Calls /\ Turns' = Turns /\ \A c : Kind(c)' = Kind(c)
  BY SameScript DEF Turns
<1>2. CallsTypeOK'
  <2>1. slots' \in [Turns -> LimitStates] /\ members' \in [Turns -> LimitStates]
    BY DEF CallsTypeOK, OnlyAt, Elsewhere
  <2>2. jobs' \in [Turns -> Seq(JobRecords)]
    BY DEF CallsTypeOK, OnlyAt, Elsewhere
  <2> QED BY <1>1, <2>1, <2>2 DEF CallsTypeOK
<1>3. OrderInv'
  BY OrderKept
<1>4. Delegates(at)' = Delegates(at)
  BY <1>1 DEF Delegates
<1>5. Latecomers(at)' = Latecomers(at)
  BY <1>4 DEF Latecomers
<1> QED BY <1>1, <1>2, <1>3, <1>4, <1>5

LEMMA NamedIs ==
  ASSUME NEW at
  PROVE  /\ \A n, d : Named(at, n, d) <=> Job(n, d) \in ToSet(jobs[at])
         /\ \A n, d : Named(at, n, d)' <=> Job(n, d) \in ToSet(jobs'[at])
         /\ \A n, d, m, e : Job(n, d) = Job(m, e) <=> n = m /\ d = e
BY DEF Named, Job

LEMMA UnwindKeeps ==
  ASSUME NEW at \in Turns, TurnInv(at), NEW c \in Calls, c[1] = at, Unwind(c)
  PROVE  TurnInv(at)' /\ OnlyAt(at)
<1>1. PICK a : a = Job("leaveSlot", c)
  OBVIOUS
<1>2. /\ stage[c] = "unwind" /\ UNCHANGED <<script, turn, phase, failed, batch, written, slots, members>>
      /\ stage' = [stage EXCEPT ![c] = "leaving"] /\ jobs'[at] = Append(jobs[at], a) /\ Elsewhere(jobs, jobs', at)
  <2>1. stage[c] = "unwind" /\ UNCHANGED <<script, turn, phase, failed, batch, written, slots, members>>
    BY DEF Unwind, turns
  <2>2. stage' = [stage EXCEPT ![c] = "leaving"] /\ jobs' = [jobs EXCEPT ![at] = Append(jobs[at], a)]
    BY <1>1 DEF Unwind, Job
  <2>3. jobs \in [Turns -> Seq(JobRecords)]
    BY DEF TurnInv, CallsTypeOK
  <2> QED BY <2>1, <2>2, <2>3 DEF Elsewhere
<1>3. a \in JobRecords /\ a.job = "leaveSlot" /\ a.call = c
  BY <1>1, JobIs, CallsAre DEF TurnInv, CallsTypeOK, JobNames
<1>4. stage \in [Calls -> Stages] /\ jobs[at] \in Seq(JobRecords) /\ Distinct(jobs[at])
  BY DEF TurnInv, CallsTypeOK, TokenInv, Apart
<1>5. stage' \in [Calls -> Stages] /\ \A d \in Calls : stage'[d] = IF d = c THEN "leaving" ELSE stage[d]
  BY <1>2, <1>4 DEF Stages
<1>0. OnlyAt(at)
  <2>0. batch \in [Turns -> Seq(Places)] /\ slots \in [Turns -> LimitStates] /\ members \in [Turns -> LimitStates]
    BY DEF TurnInv, CallsTypeOK
  <2>1. Elsewhere(slots, slots', at) /\ Elsewhere(members, members', at) /\ Elsewhere(batch, batch', at)
    BY <1>2, <2>0 DEF Elsewhere
  <2> QED BY <1>2, <1>5, <2>1 DEF OnlyAt
<1>6. \A b \in ToSet(jobs[at]) : b.call # c /\ b.call \in Calls
  BY <1>2 DEF TurnInv, TokenInv, Known, Own
<1>7. jobs'[at] \in Seq(JobRecords) /\ Distinct(jobs'[at]) /\ ToSet(jobs'[at]) = ToSet(jobs[at]) \cup {a}
  <2>1. jobs'[at] = jobs[at] \o <<a>> /\ a \notin ToSet(jobs[at])
    BY <1>2, <1>3, <1>4, <1>6, AppendIsConcat
  <2> QED BY <1>3, <1>4, <2>1, QueueMore
<1>8. /\ CallsTypeOK' /\ OrderInv' /\ Calls' = Calls /\ (\A d : Kind(d)' = Kind(d)) /\ Delegates(at)' = Delegates(at)
      /\ Latecomers(at)' = Latecomers(at)
  BY <1>0, <1>2, <1>5, <1>7, JobsKeepOrder DEF TurnInv, CallsTypeOK
<1>9. TokenInv(at)'
  <2>1. Apart(at)'
    <3>1. c \notin ToSet(slots[at].waiting) \cup ToSet(members[at].waiting)
      BY <1>2 DEF TurnInv, TokenInv, Known, Own, InLine
    <3> QED BY <1>2, <1>3, <1>6, <1>7, <3>1 DEF TurnInv, TokenInv, Apart, Distinct
  <2>2. Known(at)'
    BY <1>2, <1>3, <1>5, <1>6, <1>7, <1>8 DEF TurnInv, TokenInv, Known, Own, InLine, Takes
  <2> QED BY <2>1, <2>2 DEF TokenInv
<1>10. CountInv(at)'
  <2> SUFFICES ASSUME Len(batch[at]) > 1 PROVE Counts(at)'
    BY <1>2 DEF CountInv
  <2>1. Counts(at)
    BY DEF TurnInv, CountInv
  <2>2. Awaited(at, "takeSlot")' = Awaited(at, "takeSlot") /\ Awaited(at, "takeMember")' = Awaited(at, "takeMember")
    BY <1>3, <1>7 DEF Awaited
  <2>3. /\ \A d : Named(at, "takeMember", d)' <=> Named(at, "takeMember", d)
        /\ \A d \in Calls : Named(at, "leaveSlot", d)' <=> d = c \/ Named(at, "leaveSlot", d)
    <3>1. ASSUME NEW n, NEW d PROVE Named(at, n, d)' <=> (n = "leaveSlot" /\ d = c) \/ Named(at, n, d)
      <4>1. /\ Named(at, n, d) <=> Job(n, d) \in ToSet(jobs[at])
            /\ Named(at, n, d)' <=> Job(n, d) \in ToSet(jobs'[at])
            /\ Job(n, d) = a <=> n = "leaveSlot" /\ d = c
        BY <1>1, NamedIs
      <4> QED BY <1>7, <4>1
    <3> QED BY <3>1
  <2>4. ToSet(batch[at]) \subseteq Calls
    BY DEF TurnInv, OrderInv, Stretch, ToSet
  <2>5. InSlot(at)' = InSlot(at)
    BY <1>2, <1>5, <2>3, <2>4 DEF InSlot
  <2>6. InMember(at)' = InMember(at)
    BY <1>2, <1>5, <1>8, <2>3, <2>4 DEF InMember, Delegates
  <2> QED BY <1>2, <1>8, <2>1, <2>2, <2>5, <2>6 DEF Counts
<1> QED BY <1>0, <1>8, <1>9, <1>10 DEF TurnInv

LEMMA TakeSlotKeeps ==
  ASSUME NEW at \in Turns, TurnInv(at), TakeSlot(at)
  PROVE  TurnInv(at)' /\ OnlyAt(at)
<1>1. PICK a, c : a = Head(jobs[at]) /\ c = a.call
  OBVIOUS
<1>2. /\ jobs[at] # <<>> /\ a.job = "takeSlot" /\ jobs'[at] = Tail(jobs[at]) /\ UNCHANGED <<script, turn, phase, failed, batch, written>>
      /\ Elsewhere(jobs, jobs', at)
  <2>1. /\ jobs[at] # <<>> /\ a.job = "takeSlot" /\ jobs' = [jobs EXCEPT ![at] = Tail(jobs[at])]
        /\ UNCHANGED <<script, turn, phase, failed, batch, written>>
    BY <1>1 DEF TakeSlot, First, turns
  <2>2. jobs \in [Turns -> Seq(JobRecords)]
    BY DEF TurnInv, CallsTypeOK
  <2> QED BY <2>1, <2>2 DEF Elsewhere
<1>3. /\ a \in ToSet(jobs[at]) /\ c \in Calls /\ c[1] = at /\ c \in ToSet(batch[at]) /\ a = Job("takeSlot", c) /\ stage[c] = "waiting"
      /\ jobs'[at] \in Seq(JobRecords) /\ Distinct(jobs'[at]) /\ ToSet(jobs'[at]) = ToSet(jobs[at]) \ {a}
      /\ \A b \in ToSet(jobs[at]) : b # a => b.call # c
  BY <1>1, <1>2, FirstJobIs DEF Takes
<1>4. stage \in [Calls -> Stages] /\ slots[at] \in LimitStates /\ members[at] \in LimitStates
  BY DEF TurnInv, CallsTypeOK
<1>5. /\ slots'[at] = Taken(slots[at]) /\ members'[at] = members[at] /\ Moved(stage, stage', c, "run")
      /\ Elsewhere(slots, slots', at) /\ Elsewhere(members, members', at)
  <2>1. PICK w, e : w = Taken(slots[at]) /\ e = RunCall([Now(at) EXCEPT !.slots = w], c)
    OBVIOUS
  <2>2. Become(at, e)
    <3>1. Now(at).slots = slots[at]
      BY DEF Now, Batch
    <3> QED BY <1>1, <2>1, <3>1 DEF TakeSlot
  <2>3. [Now(at) EXCEPT !.slots = w] = Batch(w, members[at], stage, hand)
    BY DEF Now, Batch
  <2>4. e = RunCall(Batch(w, members[at], stage, hand), c)
    BY <2>1, <2>3
  <2>5. e.slots = w /\ e.members = members[at] /\ Moved(stage, e.stage, c, "run")
    BY <1>3, <1>4, <2>4, RunCallIs
  <2>6. slots \in [Turns -> LimitStates] /\ members \in [Turns -> LimitStates]
    BY DEF TurnInv, CallsTypeOK
  <2>7. slots'[at] = e.slots /\ members'[at] = e.members /\ Elsewhere(slots, slots', at) /\ Elsewhere(members, members', at)
    BY <2>2, <2>6 DEF Become, Elsewhere
  <2> QED BY <2>1, <2>2, <2>5, <2>7 DEF Become
<1>6. /\ stage' \in [Calls -> Stages] /\ stage'[c] = "run" /\ \A d \in Calls \ {c} : stage'[d] = stage[d]
      /\ slots'[at] \in LimitStates /\ slots'[at].active = slots[at].active + 1 /\ slots'[at].waiting = slots[at].waiting
  BY <1>4, <1>5, TakenIs DEF Moved
<1>0. OnlyAt(at)
  <2>1. batch \in [Turns -> Seq(Places)] /\ slots \in [Turns -> LimitStates] /\ members \in [Turns -> LimitStates]
    BY DEF TurnInv, CallsTypeOK
  <2>2. Elsewhere(batch, batch', at) /\ Elsewhere(slots, slots', at) /\ Elsewhere(members, members', at)
    BY <1>2, <1>5, <2>1 DEF Elsewhere
  <2>3. \A d \in Calls : d[1] # at => stage'[d] = stage[d]
    BY <1>3, <1>6
  <2> QED BY <1>2, <2>2, <2>3 DEF OnlyAt
<1>7. /\ CallsTypeOK' /\ OrderInv' /\ Calls' = Calls /\ (\A d : Kind(d)' = Kind(d)) /\ Delegates(at)' = Delegates(at)
      /\ Latecomers(at)' = Latecomers(at)
  BY <1>0, <1>2, <1>3, <1>4, <1>5, <1>6, JobsKeepOrder DEF TurnInv
<1>8. a.call = c /\ c \notin ToSet(slots[at].waiting) \cup ToSet(members[at].waiting)
  BY <1>1, <1>3 DEF TurnInv, TokenInv, Apart
<1>9. TokenInv(at)'
  <2>1. Apart(at)'
    BY <1>3, <1>5, <1>6 DEF TurnInv, TokenInv, Apart
  <2>2. Known(at)'
    BY <1>2, <1>3, <1>5, <1>6, <1>7, <1>8 DEF TurnInv, TokenInv, Known, Own, InLine
  <2> QED BY <2>1, <2>2 DEF TokenInv
<1>10. CountInv(at)'
  <2> SUFFICES ASSUME Len(batch[at]) > 1 PROVE Counts(at)'
    BY <1>2 DEF CountInv
  <2>1. Counts(at)
    BY DEF TurnInv, CountInv
  <2>2. /\ Awaited(at, "takeSlot")' = Awaited(at, "takeSlot") \ {a} /\ a \in Awaited(at, "takeSlot")
        /\ Awaited(at, "takeMember")' = Awaited(at, "takeMember")
    BY <1>2, <1>3 DEF Awaited
  <2>3. ASSUME NEW n, NEW d
        PROVE  /\ Named(at, n, d)' <=> Named(at, n, d) /\ ~(n = "takeSlot" /\ d = c)
               /\ Named(at, n, c) => n = "takeSlot"
    <3>1. /\ Named(at, n, d) <=> Job(n, d) \in ToSet(jobs[at])
          /\ Named(at, n, d)' <=> Job(n, d) \in ToSet(jobs'[at])
          /\ Job(n, d) = a <=> n = "takeSlot" /\ d = c
          /\ Named(at, n, c) <=> Job(n, c) \in ToSet(jobs[at])
          /\ Job(n, c) = a <=> n = "takeSlot"
      BY <1>3, NamedIs
    <3>2. Job(n, c).call = c
      BY DEF Job
    <3> QED BY <1>3, <3>1, <3>2
  <2>4. ToSet(batch[at]) \subseteq Calls
    BY DEF TurnInv, OrderInv, Stretch, ToSet
  <2>5. InSlot(at)' = InSlot(at) \cup {c} /\ c \notin InSlot(at)
    <3>1. \A d \in ToSet(batch[at]) : d \in InSlot(at)' <=> d \in InSlot(at) \/ d = c
      BY <1>2, <1>3, <1>6, <2>3, <2>4 DEF InSlot
    <3>2. c \notin InSlot(at)
      BY <1>3, <2>3 DEF InSlot
    <3> QED BY <1>2, <1>3, <3>1, <3>2 DEF InSlot
  <2>6. InMember(at)' = InMember(at)
    <3>1. \A d \in Delegates(at) : d \in InMember(at)' <=> d \in InMember(at)
      BY <1>3, <1>5, <1>6, <1>7, <1>8, <2>3, <2>4 DEF InMember, Delegates
    <3> QED BY <1>7, <3>1 DEF InMember
  <2>7. /\ slots[at].active \in Int /\ members[at].active \in Int /\ Len(members[at].waiting) \in Nat /\ Latecomers(at) \in Nat
        /\ IsFiniteSet(InSlot(at)) /\ Cardinality(InSlot(at)) \in Nat
        /\ IsFiniteSet(Awaited(at, "takeSlot")) /\ Cardinality(Awaited(at, "takeSlot")) \in Nat
        /\ Cardinality(Awaited(at, "takeMember")) \in Nat
    BY CountsAreNumbers DEF TurnInv
  <2>8. Cardinality(InSlot(at)') = Cardinality(InSlot(at)) + 1
    BY <2>5, <2>7, FS_AddElement
  <2>9. Cardinality(Awaited(at, "takeSlot")') = Cardinality(Awaited(at, "takeSlot")) - 1
    BY <2>2, <2>7, FS_RemoveElement
  <2>10. PICK x, y, t, u, w, z : /\ x = slots[at].active /\ y = members[at].active /\ t = Cardinality(Awaited(at, "takeSlot"))
                                /\ u = Cardinality(Awaited(at, "takeMember")) /\ w = Len(members[at].waiting) /\ z = Latecomers(at)
    OBVIOUS
  <2>11. /\ x = Cardinality(InSlot(at)) /\ y = Cardinality(InMember(at)) /\ y + u <= MaxMembers
         /\ x + t + w + u <= MaxCalls + z /\ (slots[at].waiting # <<>> => x + t >= MaxCalls)
         /\ (members[at].waiting # <<>> => y + u >= MaxMembers)
    BY <2>1, <2>10 DEF Counts
  <2>12. /\ slots'[at].active = x + 1 /\ members'[at].active = y /\ Cardinality(Awaited(at, "takeSlot")') = t - 1
         /\ Cardinality(Awaited(at, "takeMember")') = u /\ Len(members'[at].waiting) = w /\ Latecomers(at)' = z
         /\ Cardinality(InSlot(at)') = x + 1 /\ Cardinality(InMember(at)') = y
         /\ slots'[at].waiting = slots[at].waiting /\ members'[at].waiting = members[at].waiting
    BY <1>5, <1>6, <1>7, <2>2, <2>6, <2>8, <2>9, <2>10, <2>11
  <2>13. /\ x \in Int /\ y \in Int /\ t \in Nat /\ u \in Nat /\ w \in Nat /\ z \in Nat /\ MaxCalls \in Nat
         /\ MaxMembers \in Nat
    BY <2>7, <2>10, LimitsAssumption
  <2>14. x + 1 + (t - 1) = x + t /\ x + 1 + (t - 1) + w + u <= MaxCalls + z
    BY <2>11, <2>13
  <2> QED BY <2>11, <2>12, <2>14 DEF Counts
<1> QED BY <1>0, <1>7, <1>9, <1>10 DEF TurnInv

LEMMA TakeMemberKeeps ==
  ASSUME NEW at \in Turns, TurnInv(at), TakeMember(at)
  PROVE  TurnInv(at)' /\ OnlyAt(at)
<1>1. PICK a, c : a = Head(jobs[at]) /\ c = a.call
  OBVIOUS
<1>2. /\ jobs[at] # <<>> /\ a.job = "takeMember" /\ jobs'[at] = Tail(jobs[at]) /\ UNCHANGED <<script, turn, phase, failed, batch, written>>
      /\ Elsewhere(jobs, jobs', at)
  <2>1. /\ jobs[at] # <<>> /\ a.job = "takeMember" /\ jobs' = [jobs EXCEPT ![at] = Tail(jobs[at])]
        /\ UNCHANGED <<script, turn, phase, failed, batch, written>>
    BY <1>1 DEF TakeMember, First, turns
  <2>2. jobs \in [Turns -> Seq(JobRecords)]
    BY DEF TurnInv, CallsTypeOK
  <2> QED BY <2>1, <2>2 DEF Elsewhere
<1>3. /\ a \in ToSet(jobs[at]) /\ c \in Calls /\ c[1] = at /\ c \in ToSet(batch[at]) /\ a = Job("takeMember", c) /\ stage[c] = "waiting"
      /\ jobs'[at] \in Seq(JobRecords) /\ Distinct(jobs'[at]) /\ ToSet(jobs'[at]) = ToSet(jobs[at]) \ {a}
      /\ \A b \in ToSet(jobs[at]) : b # a => b.call # c
  BY <1>1, <1>2, FirstJobIs DEF Takes
<1>4. /\ stage \in [Calls -> Stages] /\ slots[at] \in LimitStates /\ members[at] \in LimitStates /\ c \in Places
  BY <1>3, CallsAre DEF TurnInv, CallsTypeOK
<1>5. /\ members'[at] = Taken(members[at]) /\ Elsewhere(slots, slots', at) /\ Elsewhere(members, members', at)
      /\ \/ slots[at].active >= MaxCalls /\ slots'[at] = Queued(slots[at], c) /\ Moved(stage, stage', c, "waiting")
         \/ ~(slots[at].active >= MaxCalls) /\ slots'[at] = Taken(slots[at]) /\ Moved(stage, stage', c, "run")
  <2>1. PICK w, e : w = Taken(members[at]) /\ e = EnterSlots([Now(at) EXCEPT !.members = w], c)
    OBVIOUS
  <2>2. Become(at, e)
    <3>1. Now(at).members = members[at]
      BY DEF Now, Batch
    <3> QED BY <1>1, <2>1, <3>1 DEF TakeMember
  <2>3. [Now(at) EXCEPT !.members = w] = Batch(slots[at], w, stage, hand)
    BY DEF Now, Batch
  <2>4. e = EnterSlots(Batch(slots[at], w, stage, hand), c)
    BY <2>1, <2>3
  <2>5. /\ e.members = w
        /\ slots[at].active >= MaxCalls => e.slots = Queued(slots[at], c) /\ Moved(stage, e.stage, c, "waiting")
        /\ ~(slots[at].active >= MaxCalls) => e.slots = Taken(slots[at]) /\ Moved(stage, e.stage, c, "run")
    BY <1>3, <1>4, <2>4, EnterSlotsIs
  <2>6. slots \in [Turns -> LimitStates] /\ members \in [Turns -> LimitStates]
    BY DEF TurnInv, CallsTypeOK
  <2>7. slots'[at] = e.slots /\ members'[at] = e.members /\ Elsewhere(slots, slots', at) /\ Elsewhere(members, members', at)
    BY <2>2, <2>6 DEF Become, Elsewhere
  <2> QED BY <2>1, <2>2, <2>5, <2>7 DEF Become
<1>6. a.call = c /\ c \notin ToSet(slots[at].waiting) \cup ToSet(members[at].waiting)
  BY <1>1, <1>3 DEF TurnInv, TokenInv, Apart
<1>7. /\ stage' \in [Calls -> Stages] /\ stage'[c] \in {"run", "waiting"} /\ \A d \in Calls \ {c} : stage'[d] = stage[d]
      /\ members'[at] \in LimitStates /\ members'[at].active = members[at].active + 1 /\ members'[at].waiting = members[at].waiting
      /\ slots'[at] \in LimitStates /\ Distinct(slots'[at].waiting)
  <2>1. Distinct(slots[at].waiting)
    BY DEF TurnInv, TokenInv, Apart
  <2>2. Queued(slots[at], c) \in LimitStates /\ Distinct(Queued(slots[at], c).waiting)
    BY <1>4, <1>6, <2>1, QueuedIs
  <2> QED BY <1>4, <1>5, <2>1, <2>2, TakenIs DEF Moved
<1>8. \/ /\ slots[at].active >= MaxCalls /\ stage'[c] = "waiting" /\ slots'[at].active = slots[at].active
         /\ ToSet(slots'[at].waiting) = ToSet(slots[at].waiting) \cup {c}
      \/ /\ ~(slots[at].active >= MaxCalls) /\ stage'[c] = "run" /\ slots'[at].active = slots[at].active + 1
         /\ slots'[at].waiting = slots[at].waiting
  <2>1. CASE slots[at].active >= MaxCalls
    BY <1>4, <1>5, <2>1, QueuedIs DEF Moved
  <2>2. CASE ~(slots[at].active >= MaxCalls)
    BY <1>4, <1>5, <2>2, TakenIs DEF Moved
  <2> QED BY <2>1, <2>2
<1>0. OnlyAt(at)
  <2>1. batch \in [Turns -> Seq(Places)] /\ slots \in [Turns -> LimitStates] /\ members \in [Turns -> LimitStates]
    BY DEF TurnInv, CallsTypeOK
  <2>2. Elsewhere(batch, batch', at) /\ Elsewhere(slots, slots', at) /\ Elsewhere(members, members', at)
    BY <1>2, <1>5, <2>1 DEF Elsewhere
  <2>3. \A d \in Calls : d[1] # at => stage'[d] = stage[d]
    BY <1>3, <1>7
  <2> QED BY <1>2, <2>2, <2>3 DEF OnlyAt
<1>9. /\ CallsTypeOK' /\ OrderInv' /\ Calls' = Calls /\ (\A d : Kind(d)' = Kind(d)) /\ Delegates(at)' = Delegates(at)
      /\ Latecomers(at)' = Latecomers(at)
  <2>1. \A d \in Calls : stage'[d] = stage[d] \/ (stage[d] \in {"unwind", "leaving", "waiting"}
                                                 /\ stage'[d] \in {"leaving", "waiting", "run", "settled"})
    BY <1>3, <1>7
  <2> QED BY <1>0, <1>2, <1>3, <1>7, <2>1, JobsKeepOrder DEF TurnInv
<1>10. c \in Delegates(at)
  BY <1>2, <1>3, <1>6 DEF TurnInv, TokenInv, Known, Own, Delegates
<1>11. TokenInv(at)'
  <2>1. ToSet(slots'[at].waiting) \subseteq ToSet(slots[at].waiting) \cup {c} /\ (c \in ToSet(slots'[at].waiting) => stage'[c] = "waiting")
    BY <1>6, <1>8
  <2>2. Apart(at)'
    BY <1>3, <1>6, <1>7, <2>1 DEF TurnInv, TokenInv, Apart
  <2>3. Known(at)'
    BY <1>2, <1>3, <1>6, <1>7, <1>9, <2>1 DEF TurnInv, TokenInv, Known, Own, InLine
  <2> QED BY <2>2, <2>3 DEF TokenInv
<1>12. CountInv(at)'
  <2> SUFFICES ASSUME Len(batch[at]) > 1 PROVE Counts(at)'
    BY <1>2 DEF CountInv
  <2>1. Counts(at)
    BY DEF TurnInv, CountInv
  <2>2. /\ Awaited(at, "takeMember")' = Awaited(at, "takeMember") \ {a} /\ a \in Awaited(at, "takeMember")
        /\ Awaited(at, "takeSlot")' = Awaited(at, "takeSlot")
    BY <1>2, <1>3 DEF Awaited
  <2>3. ASSUME NEW n, NEW d
        PROVE  /\ Named(at, n, d)' <=> Named(at, n, d) /\ ~(n = "takeMember" /\ d = c)
               /\ Named(at, n, c) <=> n = "takeMember"
    <3>1. /\ Named(at, n, d) <=> Job(n, d) \in ToSet(jobs[at])
          /\ Named(at, n, d)' <=> Job(n, d) \in ToSet(jobs'[at])
          /\ Job(n, d) = a <=> n = "takeMember" /\ d = c
          /\ Named(at, n, c) <=> Job(n, c) \in ToSet(jobs[at])
          /\ Job(n, c) = a <=> n = "takeMember"
      BY <1>3, NamedIs
    <3>2. Job(n, c).call = c
      BY DEF Job
    <3> QED BY <1>3, <3>1, <3>2
  <2>4. ToSet(batch[at]) \subseteq Calls
    BY DEF TurnInv, OrderInv, Stretch, ToSet
  <2>5. InSlot(at)' = (IF stage'[c] = "run" THEN InSlot(at) \cup {c} ELSE InSlot(at)) /\ c \notin InSlot(at)
    <3>1. \A d \in ToSet(batch[at]) : d \in InSlot(at)' <=> d \in InSlot(at) \/ (d = c /\ stage'[c] = "run")
      BY <1>2, <1>3, <1>7, <2>3, <2>4 DEF InSlot
    <3>2. c \notin InSlot(at)
      BY <1>3, <2>3 DEF InSlot
    <3> QED BY <1>2, <1>3, <3>1, <3>2 DEF InSlot
  <2>6. InMember(at)' = InMember(at) \cup {c} /\ c \notin InMember(at)
    <3>1. \A d \in Delegates(at) : d \in InMember(at)' <=> d \in InMember(at) \/ d = c
      BY <1>3, <1>6, <1>7, <1>9, <2>3, <2>4 DEF InMember, Delegates
    <3>2. c \notin InMember(at)
      BY <1>3, <2>3 DEF InMember
    <3> QED BY <1>9, <1>10, <3>1, <3>2 DEF InMember
  <2>7. /\ slots[at].active \in Int /\ members[at].active \in Int /\ Len(members[at].waiting) \in Nat /\ Latecomers(at) \in Nat
        /\ IsFiniteSet(InSlot(at)) /\ Cardinality(InSlot(at)) \in Nat
        /\ IsFiniteSet(InMember(at)) /\ Cardinality(InMember(at)) \in Nat
        /\ IsFiniteSet(Awaited(at, "takeMember")) /\ Cardinality(Awaited(at, "takeMember")) \in Nat
        /\ Cardinality(Awaited(at, "takeSlot")) \in Nat
    BY CountsAreNumbers DEF TurnInv
  <2>8. Cardinality(InMember(at)') = Cardinality(InMember(at)) + 1
    BY <2>6, <2>7, FS_AddElement
  <2>9. Cardinality(Awaited(at, "takeMember")') = Cardinality(Awaited(at, "takeMember")) - 1
    BY <2>2, <2>7, FS_RemoveElement
  <2>10. Cardinality(InSlot(at)') = IF stage'[c] = "run" THEN Cardinality(InSlot(at)) + 1 ELSE Cardinality(InSlot(at))
    BY <2>5, <2>7, FS_AddElement
  <2>11. PICK x, y, t, u, w, z : /\ x = slots[at].active /\ y = members[at].active /\ t = Cardinality(Awaited(at, "takeSlot"))
                                /\ u = Cardinality(Awaited(at, "takeMember")) /\ w = Len(members[at].waiting) /\ z = Latecomers(at)
    OBVIOUS
  <2>12. /\ x = Cardinality(InSlot(at)) /\ y = Cardinality(InMember(at)) /\ y + u <= MaxMembers
         /\ x + t + w + u <= MaxCalls + z /\ (slots[at].waiting # <<>> => x + t >= MaxCalls)
         /\ (members[at].waiting # <<>> => y + u >= MaxMembers)
    BY <2>1, <2>11 DEF Counts
  <2>13. /\ members'[at].active = y + 1 /\ Cardinality(Awaited(at, "takeSlot")') = t
         /\ Cardinality(Awaited(at, "takeMember")') = u - 1 /\ Len(members'[at].waiting) = w /\ Latecomers(at)' = z
         /\ Cardinality(InMember(at)') = y + 1 /\ members'[at].waiting = members[at].waiting
    BY <1>7, <1>9, <2>2, <2>8, <2>9, <2>11, <2>12
  <2>14. /\ x \in Int /\ y \in Int /\ t \in Nat /\ u \in Nat /\ w \in Nat /\ z \in Nat /\ MaxCalls \in Nat
         /\ MaxMembers \in Nat
    BY <2>7, <2>11, LimitsAssumption
  <2>15. y + 1 + (u - 1) = y + u
    BY <2>14
  <2>16. CASE slots[at].active >= MaxCalls
    <3>1. slots'[at].active = x /\ Cardinality(InSlot(at)') = x
      BY <1>8, <2>10, <2>11, <2>12, <2>16
    <3>2. x + t >= MaxCalls
      BY <2>11, <2>14, <2>16
    <3>3. x + t + w + (u - 1) <= x + t + w + u
      BY <2>14
    <3>4. PICK p, s : p = x + t + w + u /\ s = x + t + w + (u - 1)
      OBVIOUS
    <3>5. p \in Int /\ s \in Int
      BY <2>14, <3>4
    <3>6. s <= p /\ p <= MaxCalls + z
      BY <2>12, <3>3, <3>4
    <3>7. s <= MaxCalls + z
      BY <2>14, <3>5, <3>6
    <3> QED BY <2>12, <2>13, <2>15, <3>1, <3>2, <3>4, <3>7 DEF Counts
  <2>17. CASE ~(slots[at].active >= MaxCalls)
    <3>1. slots'[at].active = x + 1 /\ Cardinality(InSlot(at)') = x + 1 /\ slots'[at].waiting = slots[at].waiting
      BY <1>8, <2>10, <2>11, <2>12, <2>17
    <3>2. x + t >= MaxCalls => x + 1 + t >= MaxCalls
      BY <2>14
    <3>3. x + 1 + t + w + (u - 1) = x + t + w + u
      BY <2>14
    <3>4. x + 1 + t + w + (u - 1) <= MaxCalls + z
      BY <2>12, <3>3
    <3> QED BY <2>12, <2>13, <2>15, <3>1, <3>2, <3>4 DEF Counts
  <2> QED BY <2>16, <2>17
<1> QED BY <1>0, <1>9, <1>11, <1>12 DEF TurnInv

(* The jobs[at] after a limit was left: the first one is done, and the woken   *)
(* one is last.                                                            *)
WokenJobs(wake, l) == {Job(wake, w) : w \in Woken(l)}
(* The jobs that are left, and what is known of them. *)
Rest(at, r) == Tail(jobs[at]) \o r.jobs
Handed(at, u, W, N) ==
  /\ u \in Seq(JobRecords) /\ Distinct(u) /\ ToSet(u) = (ToSet(jobs[at]) \ {Head(jobs[at])}) \cup N
  /\ \A w \in W : w \in Calls /\ w[1] = at /\ stage[w] = "waiting" /\ \A n : Job(n, w) \notin ToSet(jobs[at])
  /\ Cardinality(N) = Cardinality(W) /\ IsFiniteSet(N)
LEMMA JobsAfterLeave ==
  ASSUME NEW at \in Turns, TurnInv(at), jobs[at] # <<>>, NEW l \in {slots[at], members[at]}, NEW wake \in Takes, NEW r, r = Leave(l, wake),
         NEW u, u = Rest(at, r), NEW W, W = Woken(l), NEW N, N = WokenJobs(wake, l)
  PROVE  Handed(at, u, W, N)
<1>1. l \in LimitStates /\ Distinct(l.waiting) /\ \A c \in ToSet(l.waiting) : c \in Calls /\ c[1] = at /\ stage[c] = "waiting"
  BY DEF TurnInv, CallsTypeOK, TokenInv, Apart, Known, Own, InLine
<1>2. PICK t, h : t = Tail(jobs[at]) /\ h = Head(jobs[at])
  OBVIOUS
<1>3. t \in Seq(JobRecords) /\ Distinct(t) /\ ToSet(t) = ToSet(jobs[at]) \ {h}
  BY <1>2, FirstJobIs
<1>4. /\ r.jobs = IF l.waiting = <<>> THEN <<>> ELSE <<Job(wake, Head(l.waiting))>>
      /\ Woken(l) \subseteq ToSet(l.waiting)
  BY <1>1, LeaveIs
<1>5. \A w \in Woken(l) : w \in Calls /\ w[1] = at /\ stage[w] = "waiting" /\ \A n : Job(n, w) \notin ToSet(jobs[at])
  <2> SUFFICES ASSUME NEW w \in Woken(l) PROVE w \in Calls /\ w[1] = at /\ stage[w] = "waiting" /\ \A n : Job(n, w) \notin ToSet(jobs[at])
    OBVIOUS
  <2>1. w \in ToSet(l.waiting)
    BY <1>4
  <2>2. \A a \in ToSet(jobs[at]) : a.call # w
    BY <2>1 DEF TurnInv, TokenInv, Apart
  <2>3. \A n : Job(n, w).call = w
    BY DEF Job
  <2> QED BY <1>1, <2>1, <2>2, <2>3
<1>6. CASE l.waiting = <<>>
  <2>1. WokenJobs(wake, l) = {} /\ Woken(l) = {}
    BY <1>6 DEF WokenJobs, Woken
  <2>2. u = t
    BY <1>2, <1>3, <1>4, <1>6, ConcatEmptySeq DEF Rest
  <2> QED BY <1>1, <1>2, <1>3, <1>5, <2>1, <2>2, FS_EmptySet DEF Handed
<1>7. CASE l.waiting # <<>>
  <2>1. PICK w, a : w = Head(l.waiting) /\ a = Job(wake, w)
    OBVIOUS
  <2>2. Woken(l) = {w} /\ WokenJobs(wake, l) = {a}
    BY <1>7, <2>1 DEF WokenJobs, Woken
  <2>3. a \in JobRecords /\ a \notin ToSet(t)
    <3>1. w \in Calls /\ a \notin ToSet(jobs[at])
      BY <1>5, <2>1, <2>2
    <3>2. w \in Places
      BY <3>1, CallsAre DEF TurnInv, CallsTypeOK
    <3> QED BY <1>3, <2>1, <3>1, <3>2, JobIs DEF JobNames
  <2>4. u = t \o <<a>>
    BY <1>2, <1>4, <1>7, <2>1 DEF Rest
  <2>5. u \in Seq(JobRecords) /\ Distinct(u) /\ ToSet(u) = ToSet(t) \cup {a}
    BY <1>3, <2>3, <2>4, QueueMore
  <2>6. Cardinality({a}) = 1 /\ Cardinality({w}) = 1 /\ IsFiniteSet({a})
    BY FS_Singleton
  <2> QED BY <1>1, <1>2, <1>3, <1>5, <2>2, <2>5, <2>6 DEF Handed
<1> QED BY <1>6, <1>7

LEMMA LeaveMemberKeeps ==
  ASSUME NEW at \in Turns, TurnInv(at), LeaveMember(at)
  PROVE  TurnInv(at)' /\ OnlyAt(at)
<1>1. PICK a, c, r, W, N : /\ a = Head(jobs[at]) /\ c = a.call /\ r = Leave(members[at], "takeMember") /\ W = Woken(members[at])
                          /\ N = WokenJobs("takeMember", members[at])
  OBVIOUS
<1>2. /\ jobs[at] # <<>> /\ a.job = "leaveMember" /\ UNCHANGED <<script, turn, phase, failed, batch, written, slots>>
      /\ jobs'[at] = Tail(jobs[at]) \o r.jobs /\ members'[at] = r.limit /\ stage' = [stage EXCEPT ![c] = "settled"]
      /\ Elsewhere(jobs, jobs', at) /\ Elsewhere(members, members', at)
  <2>1. jobs \in [Turns -> Seq(JobRecords)] /\ members \in [Turns -> LimitStates]
    BY DEF TurnInv, CallsTypeOK
  <2>2. /\ jobs[at] # <<>> /\ a.job = "leaveMember" /\ UNCHANGED <<script, turn, phase, failed, batch, written, slots>>
        /\ jobs' = [jobs EXCEPT ![at] = Tail(jobs[at]) \o r.jobs] /\ members' = [members EXCEPT ![at] = r.limit]
        /\ stage' = [stage EXCEPT ![c] = "settled"]
    BY <1>1 DEF LeaveMember, First, turns
  <2> QED BY <2>1, <2>2 DEF Elsewhere
<1>3. /\ a \in ToSet(jobs[at]) /\ c \in Calls /\ c[1] = at /\ c \in ToSet(batch[at]) /\ a = Job("leaveMember", c) /\ stage[c] = "leaving"
      /\ \A b \in ToSet(jobs[at]) : b # a => b.call # c
  BY <1>1, <1>2, FirstJobIs DEF Takes
<1>4. stage \in [Calls -> Stages] /\ slots[at] \in LimitStates /\ members[at] \in LimitStates
  BY DEF TurnInv, CallsTypeOK
<1>5. /\ jobs'[at] \in Seq(JobRecords) /\ Distinct(jobs'[at]) /\ ToSet(jobs'[at]) = (ToSet(jobs[at]) \ {a}) \cup N
      /\ \A w \in W : w \in Calls /\ w[1] = at /\ stage[w] = "waiting" /\ \A n : Job(n, w) \notin ToSet(jobs[at])
      /\ Cardinality(N) = Cardinality(W) /\ IsFiniteSet(N)
  <2>0. jobs[at] # <<>>
    BY <1>2
  <2>1. PICK l, u, w : l = members[at] /\ u = jobs'[at] /\ w = "takeMember"
    OBVIOUS
  <2>2. l \in {slots[at], members[at]} /\ w \in Takes /\ r = Leave(l, w) /\ u = Rest(at, r)
    BY <1>1, <1>2, <2>1 DEF Takes, Rest
  <2>3. W = Woken(l) /\ N = WokenJobs(w, l) /\ a = Head(jobs[at])
    BY <1>1, <2>1
  <2>4. Handed(at, u, W, N)
    BY <2>0, <2>2, <2>3, JobsAfterLeave
  <2> QED BY <2>1, <2>3, <2>4 DEF Handed
<1>6. /\ members'[at] \in LimitStates /\ members'[at].active = members[at].active - 1 /\ Distinct(members'[at].waiting)
      /\ ToSet(members'[at].waiting) = ToSet(members[at].waiting) \ W /\ W \subseteq ToSet(members[at].waiting)
      /\ Len(members'[at].waiting) = Len(members[at].waiting) - Cardinality(W)
      /\ Cardinality(W) = (IF members[at].waiting = <<>> THEN 0 ELSE 1)
      /\ members'[at].waiting # <<>> => members[at].waiting # <<>>
  <2>1. Distinct(members[at].waiting)
    BY DEF TurnInv, TokenInv, Apart
  <2>2. PICK l : l = members[at]
    OBVIOUS
  <2>3. /\ r.limit \in LimitStates /\ r.limit.active = l.active - 1 /\ Distinct(r.limit.waiting)
        /\ ToSet(r.limit.waiting) = ToSet(l.waiting) \ Woken(l) /\ Woken(l) \subseteq ToSet(l.waiting)
        /\ Len(r.limit.waiting) = Len(l.waiting) - Cardinality(Woken(l))
        /\ Cardinality(Woken(l)) = (IF l.waiting = <<>> THEN 0 ELSE 1)
        /\ r.limit.waiting # <<>> => l.waiting # <<>>
    BY <1>1, <1>4, <2>1, <2>2, LeaveIs
  <2> QED BY <1>1, <1>2, <2>2, <2>3
<1>7. stage' \in [Calls -> Stages] /\ stage'[c] = "settled" /\ \A d \in Calls \ {c} : stage'[d] = stage[d]
  BY <1>2, <1>3, <1>4 DEF Stages
<1>0. OnlyAt(at)
  <2>1. batch \in [Turns -> Seq(Places)] /\ slots \in [Turns -> LimitStates] /\ members \in [Turns -> LimitStates]
    BY DEF TurnInv, CallsTypeOK
  <2>2. Elsewhere(batch, batch', at) /\ Elsewhere(slots, slots', at) /\ Elsewhere(members, members', at)
    BY <1>2, <2>1 DEF Elsewhere
  <2>3. \A d \in Calls : d[1] # at => stage'[d] = stage[d]
    BY <1>3, <1>7
  <2> QED BY <1>2, <2>2, <2>3 DEF OnlyAt
<1>8. /\ CallsTypeOK' /\ OrderInv' /\ Calls' = Calls /\ (\A d : Kind(d)' = Kind(d)) /\ Delegates(at)' = Delegates(at)
      /\ Latecomers(at)' = Latecomers(at)
  <2>1. \A d \in Calls : stage'[d] = stage[d] \/ (stage[d] \in {"unwind", "leaving", "waiting"}
                                                 /\ stage'[d] \in {"leaving", "waiting", "run", "settled"})
    BY <1>3, <1>7
  <2> QED BY <1>0, <1>2, <1>4, <1>5, <1>6, <1>7, <2>1, JobsKeepOrder DEF TurnInv
<1>9. c \in Delegates(at) /\ c \notin ToSet(slots[at].waiting) \cup ToSet(members[at].waiting) \cup W
  BY <1>1, <1>2, <1>3, <1>5 DEF TurnInv, TokenInv, Known, Own, Apart, Delegates
<1>10. \A b \in N : b.job = "takeMember" /\ b.call \in W /\ b = Job("takeMember", b.call)
  BY <1>1 DEF WokenJobs, Job
<1>11. TokenInv(at)'
  <2>1. Apart(at)'
    <3>1. \A x \in ToSet(jobs'[at]) : x.call \notin ToSet(slots[at].waiting) \cup ToSet(members'[at].waiting)
      BY <1>5, <1>6, <1>10 DEF TurnInv, TokenInv, Apart
    <3>2. ASSUME NEW x \in ToSet(jobs'[at]), NEW y \in ToSet(jobs'[at]), x.call = y.call PROVE x = y
      <4>1. CASE x \in N /\ y \in N
        BY <1>10, <3>2, <4>1
      <4>2. CASE x \notin N /\ y \notin N
        BY <1>5, <3>2, <4>2 DEF TurnInv, TokenInv, Apart
      <4>3. \A p \in ToSet(jobs[at]), s \in N : p.call # s.call
        BY <1>6, <1>10 DEF TurnInv, TokenInv, Apart
      <4> QED BY <1>5, <3>2, <4>1, <4>2, <4>3
    <3> QED BY <1>2, <1>5, <1>6, <3>1, <3>2 DEF TurnInv, TokenInv, Apart
  <2>2. Known(at)'
    <3>1. \A w \in W : Kind(w) = "delegate"
      BY <1>6 DEF TurnInv, TokenInv, Known, Own
    <3>2. \A d \in ToSet(slots[at].waiting) \cup ToSet(members[at].waiting) : d \in Calls /\ d[1] = at /\ stage'[d] = "waiting"
      BY <1>7, <1>9 DEF TurnInv, TokenInv, Known, Own, InLine
    <3>3. \A b \in ToSet(jobs'[at]) : b.call \in Calls /\ b.call[1] = at /\ stage'[b.call] = IF b.job \in Takes THEN "waiting" ELSE "leaving"
      <4> SUFFICES ASSUME NEW b \in ToSet(jobs'[at])
                   PROVE  b.call \in Calls /\ b.call[1] = at /\ stage'[b.call] = IF b.job \in Takes THEN "waiting" ELSE "leaving"
        OBVIOUS
      <4>1. CASE b \in N
        BY <1>5, <1>6, <1>10, <3>2, <4>1 DEF Takes
      <4>2. CASE b \notin N
        BY <1>3, <1>5, <1>7, <4>2 DEF TurnInv, TokenInv, Known, Own
      <4> QED BY <4>1, <4>2
    <3>4. \A b \in ToSet(jobs'[at]) : b.job \in {"takeMember", "leaveMember"} => Kind(b.call) = "delegate"
      BY <1>5, <1>10, <3>1 DEF TurnInv, TokenInv, Known, Own
    <3>5. \A d \in Calls : d[1] = at /\ stage'[d] = "authorize" => Len(batch[at]) = 1
      BY <1>7 DEF TurnInv, TokenInv, Known, Own
    <3>6. \A d \in ToSet(members'[at].waiting) : d \in ToSet(members[at].waiting) /\ Kind(d) = "delegate"
      BY <1>6 DEF TurnInv, TokenInv, Known, Own
    <3> QED BY <1>2, <1>8, <3>2, <3>3, <3>4, <3>5, <3>6 DEF Known, Own, InLine
  <2> QED BY <2>1, <2>2 DEF TokenInv
<1>12. CountInv(at)'
  <2> SUFFICES ASSUME Len(batch[at]) > 1 PROVE Counts(at)'
    BY <1>2 DEF CountInv
  <2>1. Counts(at)
    BY DEF TurnInv, CountInv
  <2>2. /\ Awaited(at, "takeMember")' = Awaited(at, "takeMember") \cup N /\ Awaited(at, "takeMember") \cap N = {}
        /\ Awaited(at, "takeSlot")' = Awaited(at, "takeSlot")
    <3>1. N \cap ToSet(jobs[at]) = {}
      BY <1>5, <1>10
    <3> QED BY <1>2, <1>3, <1>5, <1>10, <3>1 DEF Awaited
  <2>3. ASSUME NEW n, NEW d
        PROVE  /\ Named(at, n, d)' <=> (Named(at, n, d) /\ ~(n = "leaveMember" /\ d = c)) \/ (n = "takeMember" /\ d \in W)
               /\ Named(at, n, c) => n = "leaveMember"
    <3>1. /\ Named(at, n, d) <=> Job(n, d) \in ToSet(jobs[at])
          /\ Named(at, n, d)' <=> Job(n, d) \in ToSet(jobs'[at])
          /\ Job(n, d) = a <=> n = "leaveMember" /\ d = c
          /\ Named(at, n, c) <=> Job(n, c) \in ToSet(jobs[at])
          /\ Job(n, c) = a <=> n = "leaveMember"
      BY <1>3, NamedIs
    <3>2. Job(n, c).call = c
      BY DEF Job
    <3>3. Job(n, d) \in N <=> n = "takeMember" /\ d \in W
      BY <1>1 DEF WokenJobs, Job
    <3> QED BY <1>3, <1>5, <3>1, <3>2, <3>3
  <2>4. ToSet(batch[at]) \subseteq Calls
    BY DEF TurnInv, OrderInv, Stretch, ToSet
  <2>5. InSlot(at)' = InSlot(at)
    <3>1. \A d \in ToSet(batch[at]) : d \in InSlot(at)' <=> d \in InSlot(at)
      BY <1>2, <1>3, <1>7, <2>3, <2>4 DEF InSlot
    <3> QED BY <1>2, <3>1 DEF InSlot
  <2>6. InMember(at)' = InMember(at) \ {c} /\ c \in InMember(at)
    <3>1. \A d \in Delegates(at) : d \in InMember(at)' <=> d \in InMember(at) /\ d # c
      <4> SUFFICES ASSUME NEW d \in Delegates(at) PROVE d \in InMember(at)' <=> d \in InMember(at) /\ d # c
        OBVIOUS
      <4>1. CASE d = c
        BY <1>7, <4>1 DEF InMember
      <4>2. CASE d # c
        <5>1. d \in Calls /\ stage'[d] = stage[d]
          BY <1>7, <2>4, <4>2 DEF Delegates
        <5>2. /\ Named(at, "takeMember", d)' <=> Named(at, "takeMember", d) \/ d \in W
              /\ d \in ToSet(members[at].waiting) <=> d \in ToSet(members'[at].waiting) \/ d \in W
          BY <1>6, <2>3, <4>2
        <5> QED BY <1>8, <4>2, <5>1, <5>2 DEF InMember
      <4> QED BY <4>1, <4>2
    <3>2. c \in InMember(at)
      BY <1>3, <1>9 DEF InMember
    <3> QED BY <1>8, <3>1, <3>2 DEF InMember
  <2>7. /\ slots[at].active \in Int /\ members[at].active \in Int /\ Len(members[at].waiting) \in Nat /\ Latecomers(at) \in Nat
        /\ IsFiniteSet(InMember(at)) /\ Cardinality(InMember(at)) \in Nat
        /\ IsFiniteSet(Awaited(at, "takeMember")) /\ Cardinality(Awaited(at, "takeMember")) \in Nat
        /\ Cardinality(Awaited(at, "takeSlot")) \in Nat
    BY CountsAreNumbers DEF TurnInv
  <2>8. Cardinality(InMember(at)') = Cardinality(InMember(at)) - 1
    BY <2>6, <2>7, FS_RemoveElement
  <2>9. Cardinality(Awaited(at, "takeMember")') = Cardinality(Awaited(at, "takeMember")) + Cardinality(W)
    <3>1. PICK A : A = Awaited(at, "takeMember")
      OBVIOUS
    <3>2. Cardinality(A \cup N) = Cardinality(A) + Cardinality(N) - Cardinality(A \cap N)
      BY <1>5, <2>7, <3>1, FS_Union
    <3>3. Cardinality(A \cap N) = 0
      BY <2>2, <3>1, FS_EmptySet
    <3>4. Cardinality(A) \in Nat /\ Cardinality(N) \in Nat
      BY <1>5, <2>7, <3>1, FS_CardinalityType
    <3>5. Cardinality(A \cup N) = Cardinality(A) + Cardinality(N)
      BY <3>2, <3>3, <3>4
    <3> QED BY <1>5, <2>2, <3>1, <3>5
  <2>10. PICK x, y, t, u, w, z, k : /\ x = slots[at].active /\ y = members[at].active /\ t = Cardinality(Awaited(at, "takeSlot"))
                                   /\ u = Cardinality(Awaited(at, "takeMember")) /\ w = Len(members[at].waiting)
                                   /\ z = Latecomers(at) /\ k = Cardinality(W)
    OBVIOUS
  <2>11. /\ x = Cardinality(InSlot(at)) /\ y = Cardinality(InMember(at)) /\ y + u <= MaxMembers
         /\ x + t + w + u <= MaxCalls + z /\ (slots[at].waiting # <<>> => x + t >= MaxCalls)
         /\ (members[at].waiting # <<>> => y + u >= MaxMembers)
    BY <2>1, <2>10 DEF Counts
  <2>12. /\ slots'[at].active = x /\ members'[at].active = y - 1 /\ Cardinality(Awaited(at, "takeSlot")') = t
         /\ Cardinality(Awaited(at, "takeMember")') = u + k /\ Len(members'[at].waiting) = w - k /\ Latecomers(at)' = z
         /\ Cardinality(InSlot(at)') = x /\ Cardinality(InMember(at)') = y - 1 /\ slots'[at].waiting = slots[at].waiting
    BY <1>2, <1>6, <1>8, <2>2, <2>5, <2>8, <2>9, <2>10, <2>11
  <2>13. /\ x \in Int /\ y \in Int /\ t \in Nat /\ u \in Nat /\ w \in Nat /\ z \in Nat /\ k \in {0, 1}
         /\ MaxCalls \in Nat /\ MaxMembers \in Nat
    BY <1>6, <2>7, <2>10, LimitsAssumption
  <2>14. /\ y - 1 + (u + k) <= MaxMembers /\ x + t + (w - k) + (u + k) <= MaxCalls + z
         /\ k = 1 => y - 1 + (u + k) = y + u
    <3>1. x + t + (w - k) + (u + k) = x + t + w + u /\ (k = 1 => y - 1 + (u + k) = y + u)
      BY <2>13
    <3>2. y - 1 + (u + k) <= y + u
      BY <2>13
    <3>3. y - 1 + (u + k) <= MaxMembers
      BY <2>11, <2>13, <3>2
    <3> QED BY <2>11, <3>1, <3>3
  <2>15. members'[at].waiting # <<>> => y - 1 + (u + k) >= MaxMembers
    BY <1>6, <2>10, <2>11, <2>14
  <2> QED BY <2>11, <2>12, <2>14, <2>15 DEF Counts
<1> QED BY <1>0, <1>8, <1>11, <1>12 DEF TurnInv

LEMMA LeaveSlotKeeps ==
  ASSUME NEW at \in Turns, TurnInv(at), LeaveSlot(at)
  PROVE  TurnInv(at)' /\ OnlyAt(at)
<1>1. PICK a, c, r, W, N, M : /\ a = Head(jobs[at]) /\ c = a.call /\ r = Leave(slots[at], "takeSlot") /\ W = Woken(slots[at])
                             /\ N = WokenJobs("takeSlot", slots[at])
                             /\ M = IF Kind(c) = "delegate" THEN {Job("leaveMember", c)} ELSE {}
  OBVIOUS
<1>2. /\ jobs[at] # <<>> /\ a.job = "leaveSlot" /\ UNCHANGED <<script, turn, phase, failed, batch, written, members>>
      /\ slots'[at] = r.limit
      /\ IF Kind(c) = "delegate" THEN jobs'[at] = (Tail(jobs[at]) \o r.jobs) \o <<Job("leaveMember", c)>> /\ stage' = stage
         ELSE jobs'[at] = Tail(jobs[at]) \o r.jobs /\ stage' = [stage EXCEPT ![c] = "settled"]
      /\ Elsewhere(jobs, jobs', at) /\ Elsewhere(slots, slots', at)
  <2>1. jobs \in [Turns -> Seq(JobRecords)] /\ slots \in [Turns -> LimitStates]
    BY DEF TurnInv, CallsTypeOK
  <2>2. /\ jobs[at] # <<>> /\ a.job = "leaveSlot" /\ UNCHANGED <<script, turn, phase, failed, batch, written, members>>
        /\ slots' = [slots EXCEPT ![at] = r.limit]
        /\ IF Kind(c) = "delegate"
           THEN jobs' = [jobs EXCEPT ![at] = (Tail(jobs[at]) \o r.jobs) \o <<Job("leaveMember", c)>>] /\ stage' = stage
           ELSE jobs' = [jobs EXCEPT ![at] = Tail(jobs[at]) \o r.jobs] /\ stage' = [stage EXCEPT ![c] = "settled"]
    BY <1>1 DEF LeaveSlot, First, Job, turns
  <2> QED BY <2>1, <2>2 DEF Elsewhere
<1>3. /\ a \in ToSet(jobs[at]) /\ c \in Calls /\ c[1] = at /\ c \in ToSet(batch[at]) /\ a = Job("leaveSlot", c) /\ stage[c] = "leaving"
      /\ \A b \in ToSet(jobs[at]) : b # a => b.call # c
  BY <1>1, <1>2, FirstJobIs DEF Takes
<1>4. stage \in [Calls -> Stages] /\ slots[at] \in LimitStates /\ members[at] \in LimitStates /\ c \in Places
  BY <1>3, CallsAre DEF TurnInv, CallsTypeOK
<1>5. PICK u : /\ u = Tail(jobs[at]) \o r.jobs
               /\ u \in Seq(JobRecords) /\ Distinct(u) /\ ToSet(u) = (ToSet(jobs[at]) \ {a}) \cup N
               /\ \A w \in W : w \in Calls /\ w[1] = at /\ stage[w] = "waiting" /\ \A n : Job(n, w) \notin ToSet(jobs[at])
               /\ Cardinality(N) = Cardinality(W) /\ IsFiniteSet(N)
  <2>0. jobs[at] # <<>>
    BY <1>2
  <2>1. PICK l, u, w : l = slots[at] /\ u = Tail(jobs[at]) \o r.jobs /\ w = "takeSlot"
    OBVIOUS
  <2>2. l \in {slots[at], members[at]} /\ w \in Takes /\ r = Leave(l, w) /\ u = Rest(at, r)
    BY <1>1, <2>1 DEF Takes, Rest
  <2>3. W = Woken(l) /\ N = WokenJobs(w, l) /\ a = Head(jobs[at])
    BY <1>1, <2>1
  <2>4. Handed(at, u, W, N)
    BY <2>0, <2>1, <2>2, <2>3, JobsAfterLeave
  <2> QED BY <2>1, <2>3, <2>4 DEF Handed
<1>6. /\ slots'[at] \in LimitStates /\ slots'[at].active = slots[at].active - 1 /\ Distinct(slots'[at].waiting)
      /\ ToSet(slots'[at].waiting) = ToSet(slots[at].waiting) \ W /\ W \subseteq ToSet(slots[at].waiting)
      /\ Cardinality(W) = (IF slots[at].waiting = <<>> THEN 0 ELSE 1)
      /\ slots'[at].waiting # <<>> => slots[at].waiting # <<>>
  <2>1. Distinct(slots[at].waiting)
    BY DEF TurnInv, TokenInv, Apart
  <2>2. PICK l : l = slots[at]
    OBVIOUS
  <2>3. /\ r.limit \in LimitStates /\ r.limit.active = l.active - 1 /\ Distinct(r.limit.waiting)
        /\ ToSet(r.limit.waiting) = ToSet(l.waiting) \ Woken(l) /\ Woken(l) \subseteq ToSet(l.waiting)
        /\ Cardinality(Woken(l)) = (IF l.waiting = <<>> THEN 0 ELSE 1)
        /\ r.limit.waiting # <<>> => l.waiting # <<>>
    BY <1>1, <1>4, <2>1, <2>2, LeaveIs
  <2> QED BY <1>1, <1>2, <2>2, <2>3
<1>7. stage' \in [Calls -> Stages] /\ stage'[c] = (IF Kind(c) = "delegate" THEN "leaving" ELSE "settled")
      /\ \A d \in Calls \ {c} : stage'[d] = stage[d]
  BY <1>2, <1>3, <1>4 DEF Stages
<1>8. \A b \in N : b.job = "takeSlot" /\ b.call \in W /\ b = Job("takeSlot", b.call)
  BY <1>1 DEF WokenJobs, Job
<1>9. c \notin ToSet(slots[at].waiting) \cup ToSet(members[at].waiting) \cup W
  BY <1>1, <1>3, <1>5 DEF TurnInv, TokenInv, Apart
<1>10. \A b \in M : b.job = "leaveMember" /\ b.call = c /\ Kind(c) = "delegate" /\ b = Job("leaveMember", c)
  BY <1>1 DEF Job
<1>11. jobs'[at] \in Seq(JobRecords) /\ Distinct(jobs'[at]) /\ ToSet(jobs'[at]) = (ToSet(jobs[at]) \ {a}) \cup N \cup M
  <2>1. CASE Kind(c) = "delegate"
    <3>1. PICK b : b = Job("leaveMember", c)
      OBVIOUS
    <3>2. b \in JobRecords /\ b.call = c /\ M = {b} /\ jobs'[at] = u \o <<b>>
      <4>1. M = {b} /\ jobs'[at] = u \o <<b>>
        BY <1>1, <1>2, <1>5, <2>1, <3>1
      <4>2. b.call = c /\ b \in JobRecords
        BY <1>4, <3>1, JobIs DEF JobNames
      <4> QED BY <4>1, <4>2
    <3>3. b \notin ToSet(u)
      BY <1>3, <1>5, <1>8, <1>9, <3>2
    <3> QED BY <1>5, <3>2, <3>3, QueueMore
  <2>2. CASE Kind(c) # "delegate"
    BY <1>1, <1>2, <1>5, <2>2
  <2> QED BY <2>1, <2>2
<1>0. OnlyAt(at)
  <2>1. batch \in [Turns -> Seq(Places)] /\ slots \in [Turns -> LimitStates] /\ members \in [Turns -> LimitStates]
    BY DEF TurnInv, CallsTypeOK
  <2>2. Elsewhere(batch, batch', at) /\ Elsewhere(slots, slots', at) /\ Elsewhere(members, members', at)
    BY <1>2, <2>1 DEF Elsewhere
  <2>3. \A d \in Calls : d[1] # at => stage'[d] = stage[d]
    BY <1>3, <1>7
  <2> QED BY <1>2, <2>2, <2>3 DEF OnlyAt
<1>12. /\ CallsTypeOK' /\ OrderInv' /\ Calls' = Calls /\ (\A d : Kind(d)' = Kind(d)) /\ Delegates(at)' = Delegates(at)
       /\ Latecomers(at)' = Latecomers(at)
  <2>1. \A d \in Calls : stage'[d] = stage[d] \/ (stage[d] \in {"unwind", "leaving", "waiting"}
                                                 /\ stage'[d] \in {"leaving", "waiting", "run", "settled"})
    BY <1>3, <1>7
  <2> QED BY <1>0, <1>2, <1>4, <1>6, <1>7, <1>11, <2>1, JobsKeepOrder DEF TurnInv
<1>13. TokenInv(at)'
  <2>1. Apart(at)'
    <3>1. \A x \in ToSet(jobs'[at]) : x.call \notin ToSet(slots'[at].waiting) \cup ToSet(members[at].waiting)
      <4> SUFFICES ASSUME NEW x \in ToSet(jobs'[at]) PROVE x.call \notin ToSet(slots'[at].waiting) \cup ToSet(members[at].waiting)
        OBVIOUS
      <4>1. CASE x \in M
        BY <1>6, <1>9, <1>10, <4>1
      <4>2. CASE x \in N
        BY <1>6, <1>8, <4>2 DEF TurnInv, TokenInv, Apart
      <4>3. CASE x \in ToSet(jobs[at])
        BY <1>6, <4>3 DEF TurnInv, TokenInv, Apart
      <4> QED BY <1>11, <4>1, <4>2, <4>3
    <3>2. ASSUME NEW x \in ToSet(jobs'[at]), NEW y \in ToSet(jobs'[at]), x.call = y.call PROVE x = y
      <4>1. CASE x \in N /\ y \in N
        BY <1>8, <3>2, <4>1
      <4>2. CASE x \in ToSet(jobs[at]) /\ y \in ToSet(jobs[at])
        BY <3>2, <4>2 DEF TurnInv, TokenInv, Apart
      <4>3. \A p \in ToSet(jobs[at]), s \in N : p.call # s.call
        BY <1>6, <1>8 DEF TurnInv, TokenInv, Apart
      <4>4. \A p \in ToSet(jobs[at]) \ {a}, s \in M : p.call # s.call
        BY <1>3, <1>10
      <4>5. \A p \in N, s \in M : p.call # s.call
        BY <1>8, <1>9, <1>10
      <4>6. CASE x \in M /\ y \in M
        BY <1>10, <4>6
      <4>7. \A p \in ToSet(jobs'[at]) : p \in M \/ p \in N \/ p \in ToSet(jobs[at]) \ {a}
        BY <1>11
      <4> QED BY <3>2, <4>1, <4>2, <4>3, <4>4, <4>5, <4>6, <4>7
    <3> QED BY <1>2, <1>6, <1>11, <3>1, <3>2 DEF TurnInv, TokenInv, Apart
  <2>2. Known(at)'
    <3>1. \A d \in ToSet(slots[at].waiting) \cup ToSet(members[at].waiting) : d \in Calls /\ d[1] = at /\ stage'[d] = "waiting"
      BY <1>7, <1>9 DEF TurnInv, TokenInv, Known, Own, InLine
    <3>2. \A b \in ToSet(jobs'[at]) : b.call \in Calls /\ b.call[1] = at /\ stage'[b.call] = IF b.job \in Takes THEN "waiting" ELSE "leaving"
      <4> SUFFICES ASSUME NEW b \in ToSet(jobs'[at])
                   PROVE  b.call \in Calls /\ b.call[1] = at /\ stage'[b.call] = IF b.job \in Takes THEN "waiting" ELSE "leaving"
        OBVIOUS
      <4>1. CASE b \in N
        BY <1>5, <1>6, <1>8, <3>1, <4>1 DEF Takes
      <4>2. CASE b \in M
        BY <1>3, <1>7, <1>10, <4>2 DEF Takes
      <4>3. CASE b \in ToSet(jobs[at]) \ {a}
        BY <1>3, <1>7, <4>3 DEF TurnInv, TokenInv, Known, Own
      <4> QED BY <1>11, <4>1, <4>2, <4>3
    <3>3. \A b \in ToSet(jobs'[at]) : b.job \in {"takeMember", "leaveMember"} => Kind(b.call) = "delegate"
      BY <1>8, <1>10, <1>11 DEF TurnInv, TokenInv, Known, Own
    <3>4. \A d \in Calls : d[1] = at /\ stage'[d] = "authorize" => Len(batch[at]) = 1
      BY <1>7 DEF TurnInv, TokenInv, Known, Own
    <3>5. \A d \in ToSet(members[at].waiting) : Kind(d) = "delegate"
      BY DEF TurnInv, TokenInv, Known, Own
    <3>6. ToSet(slots'[at].waiting) \subseteq ToSet(slots[at].waiting)
      BY <1>6
    <3> QED BY <1>2, <1>12, <3>1, <3>2, <3>3, <3>4, <3>5, <3>6 DEF Known, Own, InLine
  <2> QED BY <2>1, <2>2 DEF TokenInv
<1>14. CountInv(at)'
  <2> SUFFICES ASSUME Len(batch[at]) > 1 PROVE Counts(at)'
    BY <1>2 DEF CountInv
  <2>1. Counts(at)
    BY DEF TurnInv, CountInv
  <2>2. /\ Awaited(at, "takeSlot")' = Awaited(at, "takeSlot") \cup N /\ Awaited(at, "takeSlot") \cap N = {}
        /\ Awaited(at, "takeMember")' = Awaited(at, "takeMember")
    <3>1. N \cap ToSet(jobs[at]) = {}
      BY <1>5, <1>8
    <3> QED BY <1>2, <1>3, <1>8, <1>10, <1>11, <3>1 DEF Awaited
  <2>3. ASSUME NEW n \in {"leaveSlot", "takeMember"}, NEW d
        PROVE  /\ Named(at, n, d)' <=> Named(at, n, d) /\ ~(n = "leaveSlot" /\ d = c)
               /\ Named(at, n, c) <=> n = "leaveSlot"
    <3>1. /\ Named(at, n, d) <=> Job(n, d) \in ToSet(jobs[at])
          /\ Named(at, n, d)' <=> Job(n, d) \in ToSet(jobs'[at])
          /\ Job(n, d) = a <=> n = "leaveSlot" /\ d = c
          /\ Named(at, n, c) <=> Job(n, c) \in ToSet(jobs[at])
          /\ Job(n, c) = a <=> n = "leaveSlot"
      BY <1>3, NamedIs
    <3>2. Job(n, c).call = c /\ Job(n, d).job = n
      BY DEF Job
    <3>3. Job(n, d) \notin N /\ Job(n, d) \notin M
      BY <1>8, <1>10, <3>2
    <3> QED BY <1>3, <1>11, <3>1, <3>2, <3>3
  <2>4. ToSet(batch[at]) \subseteq Calls
    BY DEF TurnInv, OrderInv, Stretch, ToSet
  <2>5. InSlot(at)' = InSlot(at) \ {c} /\ c \in InSlot(at)
    <3>1. \A d \in ToSet(batch[at]) : d \in InSlot(at)' <=> d \in InSlot(at) /\ d # c
      <4> SUFFICES ASSUME NEW d \in ToSet(batch[at]) PROVE d \in InSlot(at)' <=> d \in InSlot(at) /\ d # c
        OBVIOUS
      <4>1. CASE d = c
        <5>1. ~Named(at, "leaveSlot", c)' /\ stage'[c] \notin {"run", "unwind"}
          BY <1>7, <2>3
        <5> QED BY <4>1, <5>1 DEF InSlot
      <4>2. CASE d # c
        <5>1. stage'[d] = stage[d] /\ (Named(at, "leaveSlot", d)' <=> Named(at, "leaveSlot", d))
          BY <1>7, <2>3, <2>4, <4>2
        <5> QED BY <1>2, <4>2, <5>1 DEF InSlot
      <4> QED BY <4>1, <4>2
    <3>2. c \in InSlot(at)
      BY <1>3, <2>3 DEF InSlot
    <3> QED BY <1>2, <3>1, <3>2 DEF InSlot
  <2>6. InMember(at)' = InMember(at)
    <3>1. \A d \in Delegates(at) : d \in InMember(at)' <=> d \in InMember(at)
      <4> SUFFICES ASSUME NEW d \in Delegates(at) PROVE d \in InMember(at)' <=> d \in InMember(at)
        OBVIOUS
      <4>1. stage'[d] = stage[d]
        BY <1>3, <1>7, <2>4 DEF Delegates
      <4>2. Named(at, "takeMember", d)' <=> Named(at, "takeMember", d)
        BY <2>3
      <4> QED BY <1>2, <1>12, <4>1, <4>2 DEF InMember
    <3> QED BY <1>12, <3>1 DEF InMember
  <2>7. /\ slots[at].active \in Int /\ members[at].active \in Int /\ Len(members[at].waiting) \in Nat /\ Latecomers(at) \in Nat
        /\ IsFiniteSet(InSlot(at)) /\ Cardinality(InSlot(at)) \in Nat
        /\ IsFiniteSet(Awaited(at, "takeSlot")) /\ Cardinality(Awaited(at, "takeSlot")) \in Nat
        /\ Cardinality(Awaited(at, "takeMember")) \in Nat
    BY CountsAreNumbers DEF TurnInv
  <2>8. Cardinality(InSlot(at)') = Cardinality(InSlot(at)) - 1
    BY <2>5, <2>7, FS_RemoveElement
  <2>9. Cardinality(Awaited(at, "takeSlot")') = Cardinality(Awaited(at, "takeSlot")) + Cardinality(W)
    <3>1. PICK A : A = Awaited(at, "takeSlot")
      OBVIOUS
    <3>2. Cardinality(A \cup N) = Cardinality(A) + Cardinality(N) - Cardinality(A \cap N)
      BY <1>5, <2>7, <3>1, FS_Union
    <3>3. Cardinality(A \cap N) = 0
      BY <2>2, <3>1, FS_EmptySet
    <3>4. Cardinality(A) \in Nat /\ Cardinality(N) \in Nat
      BY <1>5, <2>7, <3>1, FS_CardinalityType
    <3>5. Cardinality(A \cup N) = Cardinality(A) + Cardinality(N)
      BY <3>2, <3>3, <3>4
    <3> QED BY <1>5, <2>2, <3>1, <3>5
  <2>10. PICK x, y, t, v, w, z, k : /\ x = slots[at].active /\ y = members[at].active /\ t = Cardinality(Awaited(at, "takeSlot"))
                                   /\ v = Cardinality(Awaited(at, "takeMember")) /\ w = Len(members[at].waiting)
                                   /\ z = Latecomers(at) /\ k = Cardinality(W)
    OBVIOUS
  <2>11. /\ x = Cardinality(InSlot(at)) /\ y = Cardinality(InMember(at)) /\ y + v <= MaxMembers
         /\ x + t + w + v <= MaxCalls + z /\ (slots[at].waiting # <<>> => x + t >= MaxCalls)
         /\ (members[at].waiting # <<>> => y + v >= MaxMembers)
    BY <2>1, <2>10 DEF Counts
  <2>12. /\ slots'[at].active = x - 1 /\ members'[at].active = y /\ Cardinality(Awaited(at, "takeSlot")') = t + k
         /\ Cardinality(Awaited(at, "takeMember")') = v /\ Len(members'[at].waiting) = w /\ Latecomers(at)' = z
         /\ Cardinality(InSlot(at)') = x - 1 /\ Cardinality(InMember(at)') = y /\ members'[at].waiting = members[at].waiting
    BY <1>2, <1>6, <1>12, <2>2, <2>6, <2>8, <2>9, <2>10, <2>11
  <2>13. /\ x \in Int /\ y \in Int /\ t \in Nat /\ v \in Nat /\ w \in Nat /\ z \in Nat /\ k \in {0, 1}
         /\ MaxCalls \in Nat /\ MaxMembers \in Nat
    BY <1>6, <2>7, <2>10, LimitsAssumption
  <2>14. /\ x - 1 + (t + k) + w + v <= MaxCalls + z
         /\ k = 1 => x - 1 + (t + k) = x + t
    <3>1. x - 1 + (t + k) + w + v <= x + t + w + v /\ (k = 1 => x - 1 + (t + k) = x + t)
      BY <2>13
    <3>2. PICK p, s : p = x + t + w + v /\ s = x - 1 + (t + k) + w + v
      OBVIOUS
    <3>3. p \in Int /\ s \in Int
      BY <2>13, <3>2
    <3>4. s <= p /\ p <= MaxCalls + z
      BY <2>11, <3>1, <3>2
    <3>5. s <= MaxCalls + z
      BY <2>13, <3>3, <3>4
    <3> QED BY <3>1, <3>2, <3>5
  <2>15. slots'[at].waiting # <<>> => x - 1 + (t + k) >= MaxCalls
    BY <1>6, <2>10, <2>11, <2>14
  <2> QED BY <2>11, <2>12, <2>14, <2>15 DEF Counts
<1> QED BY <1>0, <1>12, <1>13, <1>14 DEF TurnInv
-----------------------------------------------------------------------------
(* The invariant of the calls, and what follows from it. *)-----------------------------------------------------------------------------
(* The invariant of the calls, and what follows from it. *)
LEMMA SameKeeps ==
  ASSUME CallsInv, UNCHANGED <<script, turn, phase, batch, stage, slots, members, jobs, written>>,
         failed \subseteq failed'
  PROVE  CallsInv'
<1>1. CallsTypeOK' /\ Turns' = Turns
  BY SameScript DEF CallsInv, CallsTypeOK, Turns
<1>2. OrderInv'
  BY OrderKept DEF CallsInv
<1>3. ASSUME NEW at \in Turns PROVE TokenInv(at)' /\ CountInv(at)'
  <2>1. TokenInv(at) /\ CountInv(at)
    BY DEF CallsInv
  <2>2. TokenInv(at)'
    BY <2>1, TokensKept DEF TokenInv, Known
  <2>3. CountInv(at)'
    BY <2>1, CountsKept
  <2> QED BY <2>2, <2>3
<1> QED BY <1>1, <1>2, <1>3 DEF CallsInv

LEMMA TurnKeeps ==
  ASSUME CallsInv, BeginTurn \/ EndTurn
  PROVE  CallsInv'
<1>1. UNCHANGED <<script, failed, batch, written, stage, slots, members, jobs>> /\ Calls' = Calls /\ Turns' = Turns
  BY SameScript DEF BeginTurn, EndTurn, handling, asking, Turns
<1>2. CallsTypeOK'
  <2>1. turn' \in 0..Len(script) /\ phase' \in {"idle", "running"} /\ (phase' = "running" => turn' # 0)
    <3>1. Len(script) \in Nat /\ turn \in 0..Len(script)
      BY CallsAre DEF CallsInv, CallsTypeOK
    <3>2. CASE BeginTurn
      BY <3>1, <3>2 DEF BeginTurn
    <3>3. CASE EndTurn
      BY <3>1, <3>3 DEF EndTurn
    <3> QED BY <3>2, <3>3
  <2> QED BY <1>1, <2>1 DEF CallsInv, CallsTypeOK
<1>3. OrderInv'
  BY TurnsKeepOrder DEF CallsInv
<1>4. ASSUME NEW at \in Turns PROVE TokenInv(at)' /\ CountInv(at)'
  <2>1. TokenInv(at) /\ CountInv(at)
    BY DEF CallsInv
  <2>2. TokenInv(at)'
    BY <1>1, <2>1, TokensKept DEF TokenInv, Known
  <2>3. CountInv(at)'
    BY <1>1, <2>1, CountsKept
  <2> QED BY <2>2, <2>3
<1> QED BY <1>1, <1>2, <1>3, <1>4 DEF CallsInv

LEMMA LeavesKeeps ==
  ASSUME CallsInv, NEW c \in Calls, Settle(c) \/ GiveUp(c)
  PROVE  CallsInv'
<1>1. PICK v : v = IF Len(batch[c[1]]) > 1 THEN "unwind" ELSE "settled"
  OBVIOUS
<1>2. /\ stage[c] = "run" /\ stage' = [stage EXCEPT ![c] = v]
      /\ UNCHANGED <<turns, batch, written, slots, members, jobs>>
  BY <1>1 DEF Settle, GiveUp, Leaves, handling
<1> QED BY <1>1, <1>2, OnwardKeeps

LEMMA AnsweredKeeps ==
  ASSUME CallsInv, NEW c, NEW allowed, NEW cancelled, Answered(c, allowed, cancelled),
         UNCHANGED <<turns, batch, handling, written>>
  PROVE  CallsInv'
<1>1. UNCHANGED <<slots, members, jobs, script, turn, phase, failed>>
  BY DEF handling, turns
<1>2. stage \in [Calls -> Stages]
  BY DEF CallsInv, CallsTypeOK
<1>3. CASE stage[c] = "authorize"
  <2>1. PICK v \in {"run", "settled"} : stage' = [stage EXCEPT ![c] = v]
    BY <1>3 DEF Answered
  <2>2. CASE c \in Calls
    <3>1. ~(Len(batch[c[1]]) > 1)
      <4>1. Len(batch[c[1]]) = 1
        BY <1>3, <2>2, OwnCalls DEF CallsInv, TokenInv, Known
      <4> QED BY <4>1
    <3> QED BY <1>1, <1>3, <2>1, <2>2, <3>1, OnwardKeeps
  <2>3. CASE c \notin Calls
    <3>1. stage' = stage
      BY <1>2, <2>1, <2>3
    <3> QED BY <1>1, <3>1, SameKeeps
  <2> QED BY <2>2, <2>3
<1>4. CASE stage[c] # "authorize"
  <2>1. stage' = stage
    BY <1>4 DEF Answered
  <2> QED BY <1>1, <2>1, SameKeeps
<1> QED BY <1>3, <1>4

LEMMA RunJobKeeps ==
  ASSUME CallsInv, NEW at \in Turns, LeaveSlot(at) \/ LeaveMember(at) \/ TakeSlot(at) \/ TakeMember(at)
  PROVE  CallsInv'
<1>1. TurnInv(at)
  BY DEF CallsInv, TurnInv
<1>2. script' = script
  BY DEF LeaveSlot, LeaveMember, TakeSlot, TakeMember, turns
<1>3. TurnInv(at)' /\ OnlyAt(at)
  BY <1>1, LeaveSlotKeeps, LeaveMemberKeeps, TakeSlotKeeps, TakeMemberKeeps
<1> QED BY <1>2, <1>3, Assembled

LEMMA CallsInitially == Init => CallsInv
<1> SUFFICES ASSUME Init PROVE CallsInv
  OBVIOUS
<1>1. ASSUME NEW at \in Turns PROVE TokenInv(at) /\ CountInv(at)
  <2>1. /\ batch[at] = <<>> /\ stage = [c \in Calls |-> "new"] /\ jobs[at] = <<>>
        /\ slots[at].waiting = <<>> /\ members[at].waiting = <<>>
    BY DEF Init, Idle, Turns
  <2>2. /\ ToSet(jobs[at]) = {} /\ ToSet(slots[at].waiting) = {} /\ ToSet(members[at].waiting) = {}
        /\ Distinct(jobs[at]) /\ Distinct(slots[at].waiting) /\ Distinct(members[at].waiting)
    BY <2>1 DEF ToSet, Distinct
  <2>3. TokenInv(at)
    BY <2>1, <2>2 DEF TokenInv, Apart, Known, InLine
  <2>4. CountInv(at)
    BY <2>1 DEF CountInv
  <2> QED BY <2>3, <2>4
<1> QED BY <1>1, OrderInitially DEF CallsInv

LEMMA CallsStep == CallsInv /\ [Next]_vars => CallsInv'
<1> SUFFICES ASSUME CallsInv, [Next]_vars PROVE CallsInv'
  OBVIOUS
<1>1. CASE BeginTurn \/ EndTurn
  BY <1>1, TurnKeeps
<1>2. CASE Cancel \/ Request \/ OpenQuestion \/ (\E d \in {"once", "session", "deny", "timeout"} : Answer(d))
           \/ UNCHANGED vars
  <2>1. UNCHANGED <<script, turn, phase, failed, batch, stage, slots, members, jobs, written>>
    BY <1>2 DEF Cancel, Request, OpenQuestion, Answer, vars, handling, turns
  <2> QED BY <2>1, SameKeeps
<1>3. CASE SkipCall \/ SkipFails
  <2>1. CASE SkipCall
    BY <2>1, SkipCallKeeps
  <2>2. CASE SkipFails
    <3>1. /\ UNCHANGED <<script, turn, phase, batch, stage, slots, members, jobs, written>>
          /\ failed \subseteq failed'
      BY <2>2 DEF SkipFails, handling
    <3> QED BY <3>1, SameKeeps
  <2> QED BY <1>3, <2>1, <2>2
<1>4. CASE StartSingle
  BY <1>4, StartSingleKeeps
<1>5. CASE StartBatch
  BY <1>5, StartBatchKeeps
<1>6. CASE RunJob
  BY <1>6, RunJobKeeps DEF RunJob, Turns
<1>7. CASE AnswerUnasked
  <2>1. UNCHANGED <<turns, batch, handling, written>>
    BY <1>7 DEF AnswerUnasked
  <2>2. Answered(Head(asks), Subject(Head(asks)) \in grants, FALSE)
    BY <1>7 DEF AnswerUnasked
  <2> QED BY <2>1, <2>2, AnsweredKeeps
<1>8. CASE Decide
  <2>1. UNCHANGED <<turns, batch, handling, written>>
    BY <1>8 DEF Decide
  <2>2. Answered(Head(asks), decision \in {"once", "session"}, decision = "cancel" /\ Cancelled(Head(asks)))
    BY <1>8 DEF Decide
  <2> QED BY <2>1, <2>2, AnsweredKeeps
<1>9. ASSUME NEW c \in Calls, \/ Settle(c) \/ GiveUp(c) \/ Unwind(c) \/ FinishTool(c) \/ FinishFails(c)
                             \/ AskApproval(c) \/ HandlerEnds(c)
      PROVE  CallsInv'
  <2>1. CASE Settle(c) \/ GiveUp(c)
    BY <2>1, LeavesKeeps
  <2>2. CASE Unwind(c)
    <3>1. PICK at \in Turns : at = c[1]
      BY OwnCalls DEF CallsInv
    <3>2. TurnInv(at) /\ script' = script
      BY <2>2 DEF CallsInv, TurnInv, Unwind, turns
    <3>3. TurnInv(at)' /\ OnlyAt(at)
      BY <2>2, <3>1, <3>2, UnwindKeeps
    <3> QED BY <3>2, <3>3, Assembled
  <2>3. CASE FinishTool(c)
    BY <2>3, FinishToolKeeps
  <2>4. CASE FinishFails(c) \/ AskApproval(c) \/ HandlerEnds(c)
    <3>1. /\ UNCHANGED <<script, turn, phase, batch, stage, slots, members, jobs, written>>
          /\ failed \subseteq failed'
      BY <2>4 DEF FinishFails, AskApproval, HandlerEnds, handling, turns
    <3> QED BY <3>1, SameKeeps
  <2> QED BY <1>9, <2>1, <2>2, <2>3, <2>4
<1> QED BY <1>1, <1>2, <1>3, <1>4, <1>5, <1>6, <1>7, <1>8, <1>9 DEF Next, Question

(* CallsInv is inductive: for any scripts, limits and faults the results   *)
(* of each turn are a stretch of its calls, only a turn that failed leaves *)
(* calls without a result, each waiter and each woken one is there once,   *)
(* and the two counters of each batch, also one that a failed turn has     *)
(* left behind, count the calls that hold a place (runTools, class Limit). *)
THEOREM CallsInvariant == Spec => []CallsInv
BY CallsInitially, CallsStep, PTL DEF Spec

(* Whatever order the calls of a batch end in, tool.result records are     *)
(* written in call order and none is skipped; when the append of a result  *)
(* fails, the calls left in that turn get none, whatever they do while     *)
(* later turns run (runTools, finishTool).                                 *)
THEOREM ResultsStayInOrder == Spec => []ResultsInCallOrder
<1>1. CallsInv => ResultsInCallOrder
  <2> SUFFICES ASSUME CallsInv PROVE ResultsInCallOrder
    OBVIOUS
  <2>1. \A i, j \in DOMAIN written : i < j => Before(written[i], written[j])
    BY DEF CallsInv, OrderInv, InOrder
  <2>2. ASSUME NEW c \in Calls, NEW d \in Written, Before(c, d)
        PROVE  c \in Written \/ (c[1] < d[1] /\ c[1] \in failed)
    <3>1. d \in Calls /\ c[1] \in Nat /\ d[1] \in Nat /\ turn \in Nat /\ d[1] <= turn
      <4>1. d \in Calls /\ d[1] <= turn
        BY DEF CallsInv, OrderInv, InOrder, TurnsWhole, Written, ToSet
      <4>2. \A e \in Calls : e[1] \in Nat
        BY CallsAre DEF CallsInv, CallsTypeOK
      <4>3. turn \in Nat
        BY CallsAre DEF CallsInv, CallsTypeOK
      <4> QED BY <4>1, <4>2, <4>3
    <3>2. CASE c[1] = d[1] /\ c[2] < d[2]
      BY <3>2 DEF CallsInv, OrderInv, Closed
    <3>3. CASE c[1] < d[1]
      <4>1. c[1] < turn
        BY <3>1, <3>3
      <4> QED BY <3>3, <4>1 DEF CallsInv, OrderInv, TurnsWhole
    <3> QED BY <2>2, <3>2, <3>3 DEF Before
  <2> QED BY <2>1, <2>2 DEF ResultsInCallOrder
<1> QED BY <1>1, CallsInvariant, PTL

(* However calls end and waiters are woken, a concurrent batch runs no     *)
(* more than MaxMembers members, no more than MaxCalls calls and one for   *)
(* each member that had to wait, and nobody waits for a free place (class  *)
(* Limit).                                                                 *)
THEOREM LimitsAreKept == Spec => []LimitsHold
<1>1. CallsInv => LimitsHold
  <2> SUFFICES ASSUME CallsInv, NEW at \in Turns, Len(batch[at]) > 1
               PROVE  /\ Cardinality(Members(at)) <= MaxMembers
                      /\ Cardinality(RunningIn(at)) <= MaxCalls + Latecomers(at)
                      /\ Quiet => /\ (slots[at].waiting # <<>> => slots[at].active >= MaxCalls)
                                  /\ (members[at].waiting # <<>> => members[at].active >= MaxMembers)
    BY DEF LimitsHold, Turns
  <2>1. Counts(at)
    BY DEF CallsInv, CountInv
  <2>2. /\ IsFiniteSet(InSlot(at)) /\ IsFiniteSet(InMember(at)) /\ slots[at].active \in Int /\ members[at].active \in Int
        /\ Len(members[at].waiting) \in Nat /\ Latecomers(at) \in Nat
        /\ Cardinality(Awaited(at, "takeSlot")) \in Nat /\ Cardinality(Awaited(at, "takeMember")) \in Nat
    BY CountsAreNumbers DEF CallsInv
  <2>3. \A c \in RunningIn(at) : c \in ToSet(batch[at])
    BY OwnCalls DEF Running, RunningIn, CallsInv
  <2>4. RunningIn(at) \subseteq InSlot(at)
    BY <2>3 DEF InSlot, RunningIn, Running
  <2>5. Members(at) \subseteq InMember(at)
    BY <2>3 DEF InMember, Members, RunningIn, Running, Delegates
  <2>6. /\ Cardinality(RunningIn(at)) <= slots[at].active /\ Cardinality(Members(at)) <= members[at].active
        /\ Cardinality(RunningIn(at)) \in Nat /\ Cardinality(Members(at)) \in Nat
    <3>1. IsFiniteSet(RunningIn(at)) /\ IsFiniteSet(Members(at))
      BY <2>2, <2>4, <2>5, FS_Subset
    <3>2. Cardinality(RunningIn(at)) <= Cardinality(InSlot(at)) /\ Cardinality(Members(at)) <= Cardinality(InMember(at))
      BY <2>2, <2>4, <2>5, FS_Subset
    <3> QED BY <2>1, <3>1, <3>2, FS_CardinalityType DEF Counts
  <2>7. Cardinality(Members(at)) <= MaxMembers
    BY <2>1, <2>2, <2>6, LimitsAssumption DEF Counts
  <2>8. Cardinality(RunningIn(at)) <= MaxCalls + Latecomers(at)
    BY <2>1, <2>2, <2>6, LimitsAssumption DEF Counts
  <2>9. ASSUME Quiet
        PROVE  /\ slots[at].waiting # <<>> => slots[at].active >= MaxCalls
               /\ members[at].waiting # <<>> => members[at].active >= MaxMembers
    <3>1. \A n : Awaited(at, n) = {}
      BY <2>9 DEF Quiet, Awaited, ToSet, Turns
    <3>2. Cardinality(Awaited(at, "takeSlot")) = 0 /\ Cardinality(Awaited(at, "takeMember")) = 0
      BY <3>1, FS_EmptySet
    <3> QED BY <2>1, <2>2, <3>2, LimitsAssumption DEF Counts
  <2> QED BY <2>7, <2>8, <2>9
<1> QED BY <1>1, CallsInvariant, PTL
=============================================================================
