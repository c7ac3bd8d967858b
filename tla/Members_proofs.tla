--------------------------- MODULE Members_proofs ---------------------------
(***************************************************************************)
(* Members and their parent, for any number of runs, turns and deaths of   *)
(* the process: the lives of runs, the records of the session, the slots   *)
(* of the workflow.                                                        *)
(***************************************************************************)
EXTENDS Members, FiniteSetTheorems, SequenceTheorems, TLAPS

RunStates == {"none", "waiting", "creating", "built", "turn", "ended", "leaving", "closed", "failed", "dead"}

-----------------------------------------------------------------------------
(* The lives of the runs and of the parent.                                *)

LifeTypeOK ==
  /\ form \in [Runs -> {"delegated", "workflow", "unused"}]
  /\ st \in [Runs -> RunStates]
  /\ open \subseteq Runs \cup {WorkflowCall}
  /\ children \subseteq Runs /\ shut \subseteq Runs
  /\ old \subseteq Runs \cup {WorkflowCall}

(* Calls are open only while a turn runs, and those of an earlier agent    *)
(* never are: whoever still works for one can leave no record.             *)
CallsAreNew ==
  /\ parent # "running" => open = {}
  /\ \A r \in old \cap Runs : st[r] # "none" /\ CallOf(r) \notin open
  /\ WorkflowCall \in old => script # "none" /\ WorkflowCall \notin open
  /\ script = "none" => \A r \in InWorkflow : st[r] = "none"

(* A member that is about to run or runs is known to its parent; the close *)
(* of the parent has told it, and waits for it.                            *)
RunsAreKnown ==
  /\ \A r \in Runs \ old : st[r] \in {"built", "turn"} /\ parent \notin {"closed", "dead"} => r \in children
  /\ \A r \in Runs : st[r] = "turn" =>
       /\ r \notin old /\ parent \notin {"closed", "dead"}
       /\ parent = "closing" => r \in shut

LifeInv == LifeTypeOK /\ CallsAreNew /\ RunsAreKnown

(* LifeInv is inductive. *)
LEMMA LifeInductive == LifeInv /\ [Next]_vars => LifeInv'
<1> SUFFICES ASSUME LifeInv, [Next]_vars PROVE LifeInv'
  OBVIOUS
<1> USE MembersAssumption DEF flow, LifeInv, LifeTypeOK, CallsAreNew, RunsAreKnown, CallOf, InWorkflow, WorkflowCall, RunStates
<1>1. CASE UNCHANGED vars
  BY <1>1 DEF vars
<1>2. CASE BeginTurn
  BY <1>2 DEF BeginTurn
<1>3. CASE Cancel
  BY <1>3 DEF Cancel, host
<1>4. CASE LoopOver
  BY <1>4 DEF LoopOver
<1>5. CASE EndTurn
  BY <1>5 DEF EndTurn, life
<1>6. CASE Close
  BY <1>6 DEF Close
<1>7. CASE CloseMembers
  BY <1>7 DEF CloseMembers
<1>8. CASE ReleaseParent
  BY <1>8 DEF ReleaseParent
<1>9. CASE Crash
  BY <1>9 DEF Crash
<1>10. CASE Resume
  BY <1>10 DEF Resume
<1>11. CASE FindRuns \/ FindWorkflow \/ RecoveryFails
  BY <1>11 DEF FindRuns, FindWorkflow, RecoveryFails, life, host, flow
<1>12. CASE RecoverWorkflow
  BY <1>12 DEF RecoverWorkflow, life, host, flow
<1>13. ASSUME NEW r \in Runs, CloseInterruptedRun(r) PROVE LifeInv'
  BY <1>13 DEF CloseInterruptedRun, life, host, flow
<1>14. CASE StartWorkflow
  BY <1>14 DEF StartWorkflow, host
<1>15. CASE ProgramEnds
  BY <1>15 DEF ProgramEnds, host
<1>16. CASE EndWorkflow
  BY <1>16 DEF EndWorkflow, host
<1>17. ASSUME NEW c \in Runs \cup {WorkflowCall}, GiveUp(c) PROVE LifeInv'
  BY <1>17 DEF GiveUp, host
<1>18. ASSUME NEW r \in Runs, Delegate(r) PROVE LifeInv'
  BY <1>18 DEF Delegate, Create, FirstUnstarted, host
<1>19. ASSUME NEW r \in Runs, Build(r) \/ BuildFails(r) PROVE LifeInv'
  BY <1>19 DEF Build, BuildFails, host
<1>20. ASSUME NEW r \in Runs, StartRun(r) PROVE LifeInv'
  BY <1>20 DEF StartRun, host
<1>21. ASSUME NEW r \in Runs, TurnEnds(r) \/ EndRun(r) PROVE LifeInv'
  BY <1>21 DEF TurnEnds, EndRun, host
<1>22. ASSUME NEW r \in Runs, Return(r) PROVE LifeInv'
  BY <1>22 DEF Return, host
<1>23. ASSUME NEW r \in Runs, CallAgent(r) PROVE LifeInv'
  BY SMTT(20), <1>23 DEF CallAgent, Create, FirstUnstarted, host
<1>24. ASSUME NEW r \in Runs, AbortWaiter(r) PROVE LifeInv'
  BY <1>24 DEF AbortWaiter, host
<1>25. ASSUME NEW r \in Runs, Release(r) PROVE LifeInv'
  <2>1. /\ st' \in [Runs -> RunStates]
        /\ \A q \in Runs : st'[q] = st[q] \/ st'[q] \in {"closed", "creating", "leaving"}
    <3>1. CASE slots.waiting = <<>>
      BY <1>25, <3>1 DEF Release
    <3>2. CASE slots.waiting # <<>>
      <4> DEFINE left == [st EXCEPT ![r] = "closed"]
                 a == IF MayCreate THEN "creating" ELSE "leaving"
      <4>1. st' = [left EXCEPT ![Head(slots.waiting)] = a]
        BY <1>25, <3>2 DEF Release
      <4> HIDE DEF a
      <4>2. a \in {"creating", "leaving"}
        BY DEF a
      <4> QED BY <4>1, <4>2
    <3> QED BY <3>1, <3>2
  <2>2. script # "none"
    BY <1>25 DEF Release
  <2> QED BY <1>25, <2>1, <2>2 DEF Release, host
<1> QED BY <1>1, <1>2, <1>3, <1>4, <1>5, <1>6, <1>7, <1>8, <1>9, <1>10, <1>11, <1>12, <1>13, <1>14, <1>15,
           <1>16, <1>17, <1>18, <1>19, <1>20, <1>21, <1>22, <1>23, <1>24, <1>25 DEF Next, Run, Recover

LEMMA LifeInitially == Init => LifeInv
BY MembersAssumption DEF Init, LifeInv, LifeTypeOK, CallsAreNew, RunsAreKnown, RunStates,
   InWorkflow, CallOf

-----------------------------------------------------------------------------
(* The slots of the workflow.                                              *)

Once(q) == \A i, j \in DOMAIN q : q[i] = q[j] => i = j

QueueInv ==
  /\ slots \in [active : Nat, waiting : Seq(Runs)]
  /\ Once(slots.waiting)
  /\ \A r \in Runs : r \in ToSet(slots.waiting) <=> st[r] = "waiting"
  /\ \A r \in Runs : st[r] = "waiting" => r \in InWorkflow
  /\ slots.waiting # <<>> => slots.active = MaxSlots
  /\ slots.active <= MaxSlots
CountInv == IsFiniteSet(Holders) /\ slots.active = Cardinality(Holders)
SlotsInv == QueueInv /\ CountInv

(* A queue in which nobody waits twice. *)
LEMMA JoinsQueue ==
  ASSUME NEW q \in Seq(Runs), Once(q), NEW r \in Runs, r \notin ToSet(q)
  PROVE  /\ Append(q, r) \in Seq(Runs) /\ Append(q, r) # <<>> /\ Once(Append(q, r))
         /\ ToSet(Append(q, r)) = ToSet(q) \cup {r}
<1> DEFINE a == Append(q, r)
           n == Len(q) + 1
<1>1. /\ a \in Seq(Runs) /\ a # <<>> /\ Len(q) \in Nat /\ DOMAIN q = 1..Len(q) /\ DOMAIN a = 1..n
      /\ a[n] = r /\ \A i \in DOMAIN q : a[i] = q[i]
  BY AppendProperties, LenProperties
<1>2. \A i \in DOMAIN a : i \in DOMAIN q \/ i = n
  BY <1>1
<1>3. \A i \in DOMAIN q : i \in DOMAIN a /\ q[i] # r
  BY <1>1 DEF ToSet
<1> HIDE DEF a
<1>4. Once(a)
  BY <1>1, <1>2, <1>3 DEF Once
<1>5. n \in DOMAIN a
  BY <1>1
<1>6. ToSet(a) = ToSet(q) \cup {r}
  BY <1>1, <1>2, <1>3, <1>5 DEF ToSet
<1> QED BY <1>1, <1>4, <1>6 DEF a

LEMMA LeavesQueue ==
  ASSUME NEW q \in Seq(Runs), Once(q), NEW i \in DOMAIN q
  PROVE  /\ RemoveAt(q, i) \in Seq(Runs) /\ Once(RemoveAt(q, i))
         /\ ToSet(RemoveAt(q, i)) = ToSet(q) \ {q[i]}
<1> DEFINE a == RemoveAt(q, i)
           n == Len(q) - 1
<1>1. Len(q) \in Nat /\ DOMAIN q = 1..Len(q) /\ i \in 1..Len(q) /\ \A k \in DOMAIN q : q[k] \in Runs
  BY LenProperties, ElementOfSeq
<1> DEFINE front == SubSeq(q, 1, i - 1)
           back == SubSeq(q, i + 1, Len(q))
<1>2. front \in Seq(Runs) /\ Len(front) = i - 1 /\ \A k \in 1..(i - 1) : front[k] = q[k]
  BY <1>1, SubSeqProperties
<1>3. back \in Seq(Runs) /\ Len(back) = Len(q) - i /\ \A k \in 1..(Len(q) - i) : back[k] = q[i + k]
  BY <1>1, SubSeqProperties
<1>4. /\ a \in Seq(Runs) /\ Len(a) = n
      /\ \A k \in 1..n : a[k] = IF k < i THEN q[k] ELSE q[k + 1]
  <2>1. a = front \o back
    BY DEF RemoveAt
  <2> HIDE DEF a, front, back
  <2>2. /\ a \in Seq(Runs) /\ Len(a) = Len(front) + Len(back)
        /\ \A k \in 1..(Len(front) + Len(back)) : a[k] = IF k <= Len(front) THEN front[k] ELSE back[k - Len(front)]
    BY <1>2, <1>3, <2>1, ConcatProperties
  <2>3. Len(front) + Len(back) = n
    BY <1>1, <1>2, <1>3
  <2>4. ASSUME NEW k \in 1..n PROVE a[k] = IF k < i THEN q[k] ELSE q[k + 1]
    <3>1. CASE k < i
      BY <1>1, <1>2, <2>2, <2>3, <3>1
    <3>2. CASE k >= i
      <4>1. k - (i - 1) \in 1..(Len(q) - i) /\ i + (k - (i - 1)) = k + 1
        BY <1>1, <3>2
      <4>2. back[k - (i - 1)] = q[k + 1]
        BY <1>3, <4>1
      <4> QED BY <1>1, <1>2, <2>2, <2>3, <3>2, <4>2
    <3> QED BY <1>1, <3>1, <3>2
  <2> QED BY <2>2, <2>3, <2>4
<1> HIDE DEF a
<1>5. DOMAIN a = 1..n
  BY <1>4, LenProperties
<1>6. Once(a)
  <2> SUFFICES ASSUME NEW k \in 1..n, NEW l \in 1..n, a[k] = a[l], k < l PROVE FALSE
    BY <1>1, <1>5 DEF Once
  <2>1. k \in DOMAIN q /\ k + 1 \in DOMAIN q /\ l \in DOMAIN q /\ l + 1 \in DOMAIN q
    BY <1>1
  <2>2. CASE l < i
    BY <1>1, <1>4, <2>1, <2>2 DEF Once
  <2>3. CASE k < i /\ i <= l
    BY <1>1, <1>4, <2>1, <2>3 DEF Once
  <2>4. CASE i <= k
    BY <1>1, <1>4, <2>1, <2>4 DEF Once
  <2> QED BY <1>1, <2>2, <2>3, <2>4
<1>7. \A k \in DOMAIN a : a[k] \in ToSet(q) \ {q[i]}
  BY SMTT(20), <1>1, <1>4, <1>5 DEF Once, ToSet
<1>8. \A k \in DOMAIN q \ {i} : q[k] \in ToSet(a)
  <2> TAKE k \in DOMAIN q \ {i}
  <2>1. CASE k < i
    BY <1>1, <1>4, <1>5, <2>1 DEF ToSet
  <2>2. CASE k > i
    <3>1. k - 1 \in DOMAIN a /\ a[k - 1] = q[k]
      BY <1>1, <1>4, <1>5, <2>2
    <3> QED BY <3>1 DEF ToSet
  <2> QED BY <1>1, <2>1, <2>2
<1>9. ToSet(a) = ToSet(q) \ {q[i]}
  BY <1>7, <1>8 DEF ToSet
<1> QED BY <1>4, <1>6, <1>9 DEF a

LEMMA HeadLeaves ==
  ASSUME NEW q \in Seq(Runs), Once(q), q # <<>>
  PROVE  /\ Head(q) \in ToSet(q) /\ Tail(q) \in Seq(Runs) /\ Once(Tail(q))
         /\ ToSet(Tail(q)) = ToSet(q) \ {Head(q)}
<1>1. /\ Len(q) \in Nat \ {0} /\ DOMAIN q = 1..Len(q) /\ Head(q) = q[1]
      /\ Tail(q) \in Seq(Runs) /\ DOMAIN Tail(q) = 1..(Len(q) - 1)
      /\ \A k \in 1..(Len(q) - 1) : Tail(q)[k] = q[k + 1]
  BY LenProperties, HeadTailProperties, EmptySeq
<1>2. Once(Tail(q))
  BY <1>1 DEF Once
<1>3. \A k \in DOMAIN Tail(q) : Tail(q)[k] \in ToSet(q) \ {Head(q)}
  BY <1>1 DEF Once, ToSet
<1>4. \A k \in DOMAIN q \ {1} : q[k] \in ToSet(Tail(q))
  <2> TAKE k \in DOMAIN q \ {1}
  <2>1. k - 1 \in DOMAIN Tail(q) /\ Tail(q)[k - 1] = q[k]
    BY <1>1
  <2> QED BY <2>1 DEF ToSet
<1>5. Head(q) \in ToSet(q)
  BY <1>1 DEF ToSet
<1> QED BY <1>1, <1>2, <1>3, <1>4, <1>5 DEF ToSet

(* Steps that neither take a slot nor wait for one, nor give one up. *)
LEMMA SlotsUntouched ==
  ASSUME SlotsInv, UNCHANGED <<form, slots>>,
         \A r \in Runs : (st'[r] = "waiting") = (st[r] = "waiting"),
         \A r \in InWorkflow : (st'[r] \in Before \cup Settled) = (st[r] \in Before \cup Settled)
  PROVE  SlotsInv'
<1>1. Holders' = Holders
  BY DEF Holders, Underway, InWorkflow
<1> QED BY <1>1 DEF SlotsInv, QueueInv, CountInv, InWorkflow

LEMMA CallAgentSlots ==
  ASSUME LifeInv, SlotsInv, NEW r \in Runs, CallAgent(r)
  PROVE  SlotsInv'
<1> USE MembersAssumption
<1>1. /\ st[r] = "none" /\ r \in InWorkflow /\ form' = form /\ InWorkflow' = InWorkflow
      /\ r \notin ToSet(slots.waiting) /\ \A q \in Runs \ {r} : st'[q] = st[q]
  BY DEF CallAgent, Create, FirstUnstarted, InWorkflow, LifeInv, LifeTypeOK, SlotsInv, QueueInv
<1>2. CASE r \in cancelled
  <2>1. UNCHANGED slots /\ st'[r] = "failed"
    BY <1>2 DEF CallAgent, LifeInv, LifeTypeOK
  <2> QED BY <1>1, <2>1, SlotsUntouched DEF Before, Settled, InWorkflow
<1>3. CASE r \notin cancelled /\ slots.active < MaxSlots
  <2>1. /\ st'[r] \in {"creating", "leaving"}
        /\ slots' = [slots EXCEPT !.active = @ + 1]
    BY <1>3 DEF CallAgent, Create, LifeInv, LifeTypeOK
  <2>2. Holders' = Holders \cup {r} /\ r \notin Holders
    BY <1>1, <2>1 DEF Holders, Underway, Before, Settled, InWorkflow
  <2>3. /\ slots' \in [active : Nat, waiting : Seq(Runs)]
        /\ slots'.active = slots.active + 1 /\ slots'.waiting = slots.waiting /\ slots.waiting = <<>>
    BY <1>3, <2>1 DEF SlotsInv, QueueInv
  <2>4. IsFiniteSet(Holders') /\ Cardinality(Holders') = Cardinality(Holders) + 1
    BY <2>2, FS_AddElement DEF SlotsInv, CountInv
  <2>5. CountInv'
    BY <2>3, <2>4 DEF SlotsInv, CountInv
  <2>6. slots'.active <= MaxSlots /\ slots.active \in Nat
    <3>1. MaxSlots \in Nat
      OBVIOUS
    <3> QED BY <1>3, <2>3, <3>1 DEF SlotsInv, QueueInv
  <2>7. QueueInv'
    BY <1>1, <2>1, <2>3, <2>6 DEF SlotsInv, QueueInv
  <2> QED BY <2>5, <2>7 DEF SlotsInv
<1>4. CASE r \notin cancelled /\ ~(slots.active < MaxSlots)
  <2>1. st'[r] = "waiting" /\ slots' = [slots EXCEPT !.waiting = Append(@, r)]
    BY <1>4 DEF CallAgent, LifeInv, LifeTypeOK
  <2>2. Holders' = Holders
    BY <1>1, <2>1 DEF Holders, Underway, Before, Settled, InWorkflow
  <2>3. CountInv'
    BY <2>1, <2>2 DEF SlotsInv, QueueInv, CountInv
  <2>4. /\ slots'.waiting \in Seq(Runs) /\ Once(slots'.waiting)
        /\ ToSet(slots'.waiting) = ToSet(slots.waiting) \cup {r}
    BY <1>1, <2>1, JoinsQueue DEF SlotsInv, QueueInv
  <2>5. /\ slots' \in [active : Nat, waiting : Seq(Runs)]
        /\ slots'.active = slots.active /\ slots.active = MaxSlots
    <3>1. slots.active \in Nat /\ slots.active <= MaxSlots /\ ~(slots.active < MaxSlots)
      BY <1>4 DEF SlotsInv, QueueInv
    <3>2. slots.active = MaxSlots
      BY <3>1
    <3> QED BY <2>1, <2>4, <3>2 DEF SlotsInv, QueueInv
  <2>6. QueueInv'
    BY <1>1, <2>1, <2>4, <2>5 DEF SlotsInv, QueueInv
  <2> QED BY <2>3, <2>6 DEF SlotsInv
<1> QED BY <1>2, <1>3, <1>4

LEMMA AbortWaiterSlots ==
  ASSUME LifeInv, SlotsInv, NEW r \in Runs, AbortWaiter(r)
  PROVE  SlotsInv'
<1> USE MembersAssumption
<1>1. /\ st[r] = "waiting" /\ st'[r] = "failed" /\ form' = form /\ InWorkflow' = InWorkflow
      /\ \A q \in Runs \ {r} : st'[q] = st[q]
  BY DEF AbortWaiter, InWorkflow, LifeInv, LifeTypeOK
<1>2. PICK i \in DOMAIN slots.waiting :
        slots.waiting[i] = r /\ slots' = [slots EXCEPT !.waiting = RemoveAt(@, i)]
  BY DEF AbortWaiter
<1>3. Holders' = Holders
  BY <1>1 DEF Holders, Underway, Before, Settled, InWorkflow
<1>4. CountInv'
  BY <1>2, <1>3 DEF SlotsInv, QueueInv, CountInv
<1>5. /\ slots'.waiting \in Seq(Runs) /\ Once(slots'.waiting)
      /\ ToSet(slots'.waiting) = ToSet(slots.waiting) \ {r}
  BY <1>2, LeavesQueue DEF SlotsInv, QueueInv
<1>6. slots.waiting # <<>>
  BY <1>2
<1>7. QueueInv'
  BY <1>1, <1>2, <1>5, <1>6 DEF SlotsInv, QueueInv
<1> QED BY <1>4, <1>7 DEF SlotsInv

(* A slot that is given up goes to the first waiter or is free. *)
LEMMA ReleaseSlots ==
  ASSUME LifeInv, SlotsInv, NEW r \in Runs, Release(r)
  PROVE  SlotsInv'
<1> USE MembersAssumption
<1> DEFINE next == Head(slots.waiting)
<1>1. st[r] = "leaving" /\ r \in InWorkflow /\ form' = form /\ InWorkflow' = InWorkflow /\ r \in Holders
  BY DEF Release, InWorkflow, Holders, Underway, Before, Settled
<1>2. CASE slots.waiting = <<>>
  <2>1. slots' = [slots EXCEPT !.active = @ - 1] /\ st' = [st EXCEPT ![r] = "closed"]
    BY <1>2 DEF Release
  <2>2. Holders' = Holders \ {r}
    BY <1>1, <2>1 DEF Holders, Underway, Before, Settled, InWorkflow, LifeInv, LifeTypeOK
  <2>3. IsFiniteSet(Holders') /\ Cardinality(Holders') = slots.active - 1 /\ Cardinality(Holders') \in Nat
    BY <1>1, <2>2, FS_RemoveElement, FS_CardinalityType DEF SlotsInv, CountInv
  <2>4. CountInv'
    BY <2>1, <2>3 DEF SlotsInv, QueueInv, CountInv
  <2>5. /\ slots' \in [active : Nat, waiting : Seq(Runs)]
        /\ slots'.active <= MaxSlots /\ slots'.waiting = <<>>
    <3>1. slots.active \in Nat /\ slots.active - 1 \in Nat /\ slots.active - 1 <= MaxSlots
      <4>1. MaxSlots \in Nat /\ slots.active \in Nat /\ slots.active <= MaxSlots
        BY DEF SlotsInv, QueueInv
      <4> QED BY <2>3, <4>1
    <3> QED BY <1>2, <2>1, <3>1 DEF SlotsInv, QueueInv
  <2>6. /\ st'[r] = "closed" /\ \A q \in Runs \ {r} : st'[q] = st[q]
    BY <2>1 DEF LifeInv, LifeTypeOK
  <2>7. QueueInv'
    BY <1>1, <1>2, <2>5, <2>6 DEF SlotsInv, QueueInv
  <2> QED BY <2>4, <2>7 DEF SlotsInv
<1>3. CASE slots.waiting # <<>>
  <2>1. /\ next \in ToSet(slots.waiting) /\ Tail(slots.waiting) \in Seq(Runs) /\ Once(Tail(slots.waiting))
        /\ ToSet(Tail(slots.waiting)) = ToSet(slots.waiting) \ {next}
    BY <1>3, HeadLeaves DEF SlotsInv, QueueInv
  <2>2. next \in Runs
    BY <2>1, ElementOfSeq DEF ToSet, SlotsInv, QueueInv
  <2>3. st[next] = "waiting" /\ next \in InWorkflow /\ next # r
    BY <1>1, <2>1, <2>2 DEF SlotsInv, QueueInv
  <2> HIDE DEF next
  <2>4. /\ slots' = [slots EXCEPT !.waiting = Tail(@)]
        /\ st'[r] = "closed" /\ st'[next] \in {"creating", "leaving"} /\ \A q \in Runs \ {r, next} : st'[q] = st[q]
    BY <1>3, <2>2, <2>3 DEF Release, LifeInv, LifeTypeOK, next
  <2>5. Holders' = (Holders \ {r}) \cup {next} /\ next \notin Holders \ {r}
    BY <1>1, <2>2, <2>3, <2>4 DEF Holders, Underway, Before, Settled, InWorkflow
  <2>6. IsFiniteSet(Holders \ {r}) /\ Cardinality(Holders \ {r}) = Cardinality(Holders) - 1
    BY <1>1, FS_RemoveElement DEF SlotsInv, CountInv
  <2>7. CountInv'
    <3>1. slots'.active = Cardinality(Holders)
      BY <2>4 DEF SlotsInv, QueueInv, CountInv
    <3>2. IsFiniteSet(Holders') /\ Cardinality(Holders') = Cardinality(Holders \ {r}) + 1
      BY <2>5, <2>6, FS_AddElement
    <3> QED BY <2>6, <3>1, <3>2, FS_CardinalityType DEF SlotsInv, CountInv
  <2>8. QueueInv'
    BY <1>1, <1>3, <2>1, <2>2, <2>3, <2>4 DEF SlotsInv, QueueInv
  <2> QED BY <2>7, <2>8 DEF SlotsInv
<1> QED BY <1>2, <1>3

LEMMA CrashSlots ==
  ASSUME LifeInv, SlotsInv, Crash
  PROVE  SlotsInv'
<1>1. /\ form' = form /\ slots' = [active |-> 0, waiting |-> <<>>]
      /\ \A q \in Runs : st'[q] \in {"none", "closed", "failed", "dead"}
  BY DEF Crash, LifeInv, LifeTypeOK
<1>2. Holders' = {}
  BY <1>1 DEF Holders, Underway, Before, Settled, InWorkflow
<1>3. CountInv'
  BY <1>1, <1>2, FS_EmptySet DEF CountInv
<1>4. QueueInv'
  BY <1>1, MembersAssumption DEF QueueInv, Once, ToSet
<1> QED BY <1>3, <1>4 DEF SlotsInv

(* SlotsInv is inductive. *)
LEMMA SlotsInductive == LifeInv /\ SlotsInv /\ [Next]_vars => SlotsInv'
<1> SUFFICES ASSUME LifeInv, SlotsInv, [Next]_vars PROVE SlotsInv'
  OBVIOUS
<1>1. CASE UNCHANGED <<form, st, slots>>
  BY <1>1, SlotsUntouched
<1>2. ASSUME NEW r \in Runs,
             Delegate(r) \/ Build(r) \/ BuildFails(r) \/ StartRun(r) \/ TurnEnds(r) \/ EndRun(r) \/ Return(r)
      PROVE  SlotsInv'
  <2>1. /\ UNCHANGED <<form, slots>> /\ \A q \in Runs \ {r} : st'[q] = st[q]
        /\ st[r] # "waiting" /\ st'[r] # "waiting"
        /\ \/ form[r] = "delegated"
           \/ /\ st[r] \in {"creating", "built", "turn", "ended"}
              /\ st'[r] \in {"built", "leaving", "turn", "ended"}
    BY <1>2 DEF Delegate, FirstUnstarted, Create, Build, BuildFails, StartRun, TurnEnds, EndRun, Return,
       LifeInv,
       LifeTypeOK, RunStates
  <2> QED BY <2>1, SlotsUntouched DEF InWorkflow, Before, Settled
<1>3. \/ UNCHANGED <<form, st, slots>> \/ Crash
      \/ \E r \in Runs :
           \/ Delegate(r) \/ Build(r) \/ BuildFails(r) \/ StartRun(r) \/ TurnEnds(r) \/ EndRun(r) \/ Return(r)
           \/ CallAgent(r) \/ AbortWaiter(r) \/ Release(r)
  BY DEF Next, Run, Recover, vars, life, host, BeginTurn, Cancel, LoopOver, EndTurn, Close, CloseMembers,
     ReleaseParent, Resume, FindRuns, FindWorkflow, RecoveryFails, RecoverWorkflow, CloseInterruptedRun,
     StartWorkflow, ProgramEnds, EndWorkflow, GiveUp
<1> QED BY <1>1, <1>2, <1>3, CrashSlots, CallAgentSlots, AbortWaiterSlots, ReleaseSlots

LEMMA SlotsInitially == Init => SlotsInv
<1> SUFFICES ASSUME Init PROVE SlotsInv
  OBVIOUS
<1>1. slots = [active |-> 0, waiting |-> <<>>] /\ \A r \in Runs : st[r] = "none"
  BY DEF Init
<1>2. Holders = {}
  BY <1>1 DEF Holders, Underway, Before
<1>3. CountInv
  BY <1>1, <1>2, FS_EmptySet DEF CountInv
<1>4. QueueInv
  BY <1>1, MembersAssumption DEF QueueInv, Once, ToSet
<1> QED BY <1>3, <1>4 DEF SlotsInv

-----------------------------------------------------------------------------
(* The records.                                                            *)

RunRecords == {Record(t, r) : t \in {"subagent.start", "subagent.end"}, r \in Runs}
WorkflowRecords == {Record(t, WorkflowCall) : t \in {"workflow.start", "workflow.end"}}
Records == RunRecords \cup WorkflowRecords

Started(r) == Logged("subagent.start", r)
Ended(r) == Logged("subagent.end", r)
WorkflowStarted == Logged("workflow.start", WorkflowCall)
WorkflowEnded == Logged("workflow.end", WorkflowCall)

(* Whoever has a start is past it; whoever has an end is past that, or is  *)
(* of an earlier agent, or the recovery has overtaken it.                  *)
RunsLogged ==
  \A r \in Runs :
    /\ Started(r) => st[r] \notin Before \cup {"creating", "built"}
    /\ Ended(r) => Started(r) /\ (r \in old \/ st[r] \notin {"turn", "ended"} \/ r \in overtaken)
    /\ st[r] \in {"turn", "ended"} => Started(r)
(* While the call of the workflow is open its end is to come, and its runs *)
(* write their ends themselves; once the end is there they have.           *)
WorkflowLogged ==
  /\ WorkflowStarted => script # "none"
  /\ WorkflowEnded => WorkflowStarted /\ (WorkflowCall \in overtaken \/ InWorkflow \cap OpenRuns = {})
  /\ WorkflowCall \in open => /\ WorkflowStarted /\ (WorkflowEnded => WorkflowCall \in overtaken)
                              /\ \A r \in InWorkflow : Started(r) => Ended(r) \/ st[r] \in {"turn", "ended"}
  /\ WorkflowCall \in old => \A r \in InWorkflow : Started(r) => r \in old
(* What a recovery still has to end is open, or was overtaken; what is     *)
(* open of an earlier agent it still has to end.                           *)
RecoveryLogged ==
  /\ recovery = "closing" =>
       /\ OpenRuns \cap old \subseteq found
       /\ \A r \in found : r \in Runs /\ Started(r) /\ (r \in overtaken \/ (r \in old /\ ~Ended(r)))
  /\ recovery \in {"ending", "done"} => OpenRuns \cap old = {}
  /\ recovery = "ending" => WorkflowStarted /\ (WorkflowCall \in overtaken \/ (WorkflowCall \in old /\ ~WorkflowEnded))
  /\ recovery = "done" => (OpenWorkflow => WorkflowCall \notin old)
Agreed == RunsLogged /\ WorkflowLogged /\ RecoveryLogged
RecordsInv == log \in Seq(Records) /\ Agreed /\ RecordsPaired

(* What may follow the records there are. *)
MayFollow(e) ==
  \A i \in DOMAIN log :
    /\ log[i].run = e.run => e.type \in Ends /\ (log[i].type \in Ends => e.run \in overtaken)
    /\ log[i].type = "workflow.end" /\ overtaken \cap {WorkflowCall, e.run} = {} => e.run \notin InWorkflow

(* A record more: what is logged, and how the pairs of records stay in     *)
(* order.                                                                  *)
LEMMA RecordAdded ==
  ASSUME log \in Seq(Records), NEW e \in Records, log' = Append(log, e)
  PROVE  /\ log' \in Seq(Records)
         /\ \A t, r : Logged(t, r)' <=> Logged(t, r) \/ e = Record(t, r)
         /\ (/\ RecordsPaired /\ MayFollow(e) /\ form' = form /\ overtaken' = overtaken
             /\ (WorkflowEnded' => WorkflowCall \in overtaken \/ InWorkflow \cap OpenRuns' = {}))
              => RecordsPaired'
<1> DEFINE n == Len(log) + 1
<1>1. /\ log' \in Seq(Records) /\ Len(log) \in Nat /\ DOMAIN log = 1..Len(log) /\ DOMAIN log' = 1..n
      /\ log'[n] = e /\ \A i \in DOMAIN log : log'[i] = log[i]
  BY AppendProperties, LenProperties
<1>2. \A i \in DOMAIN log' : i \in DOMAIN log \/ i = n
  BY <1>1
<1>3. \A t, r : Logged(t, r)' <=> Logged(t, r) \/ e = Record(t, r)
  BY <1>1, <1>2 DEF Logged, Record
<1>4. ASSUME RecordsPaired, MayFollow(e), form' = form, overtaken' = overtaken,
             WorkflowEnded' => WorkflowCall \in overtaken \/ InWorkflow \cap OpenRuns' = {}
      PROVE  RecordsPaired'
  <2> SUFFICES ASSUME NEW i \in DOMAIN log', NEW j \in DOMAIN log', i < j
               PROVE  /\ log'[i].run = log'[j].run =>
                           log'[j].type \in Ends /\ (log'[i].type \in Ends => log'[i].run \in overtaken)
                      /\ log'[i].type = "workflow.end" /\ overtaken \cap {WorkflowCall, log'[j].run} = {} =>
                           log'[j].run \notin InWorkflow
                      /\ log'[j].type = "workflow.end" /\ WorkflowCall \notin overtaken =>
                           InWorkflow \cap OpenRuns' = {}
    BY <1>4 DEF RecordsPaired, InWorkflow
  <2>1. i \in DOMAIN log /\ log'[i] = log[i]
    BY <1>1
  <2>2. log'[j].type = "workflow.end" => WorkflowEnded'
    <3>1. log'[j] \in Records
      BY <1>1
    <3>2. log'[j].type = "workflow.end" => log'[j] = Record("workflow.end", WorkflowCall)
      BY <3>1 DEF Records, RunRecords, WorkflowRecords, Record
    <3> QED BY <3>2 DEF WorkflowEnded, Logged
  <2>3. CASE j = n
    BY <1>1, <1>4, <2>1, <2>2, <2>3 DEF MayFollow
  <2>4. CASE j \in DOMAIN log
    BY <1>1, <1>4, <2>1, <2>2, <2>4 DEF RecordsPaired
  <2> QED BY <1>2, <2>3, <2>4
<1> QED BY <1>1, <1>3, <1>4

(* The start of a run follows where nothing of it is logged; its end       *)
(* follows once, or where the recovery overtook it.                        *)
LEMMA RunMayFollow ==
  ASSUME log \in Seq(Records), NEW r \in Runs, NEW t \in {"subagent.start", "subagent.end"},
         t = "subagent.start" => ~Started(r) /\ ~Ended(r),
         Ended(r) => r \in overtaken,
         r \in InWorkflow /\ WorkflowEnded => overtaken \cap {WorkflowCall, r} # {}
  PROVE  MayFollow(Record(t, r)) /\ Record(t, r) \in Records
<1> SUFFICES ASSUME NEW i \in DOMAIN log
             PROVE  /\ log[i].run = r => t \in Ends /\ (log[i].type \in Ends => r \in overtaken)
                    /\ log[i].type = "workflow.end" /\ overtaken \cap {WorkflowCall, r} = {} => r \notin InWorkflow
  BY DEF MayFollow, Records, RunRecords, Record
<1>1. log[i] \in Records
  OBVIOUS
<1>2. log[i].type = "workflow.end" => WorkflowEnded
  <2>1. log[i].type = "workflow.end" => log[i] = Record("workflow.end", WorkflowCall)
    BY <1>1 DEF Records, RunRecords, WorkflowRecords, Record
  <2> QED BY <2>1 DEF WorkflowEnded, Logged
<1>3. log[i].run = r => t \in Ends /\ (log[i].type \in Ends => r \in overtaken)
  <2>1. r # WorkflowCall
    BY MembersAssumption DEF WorkflowCall
  <2>2. log[i].run = r => log[i] = Record("subagent.start", r) \/ log[i] = Record("subagent.end", r)
    BY <1>1, <2>1 DEF Records, RunRecords, WorkflowRecords, Record
  <2>3. /\ log[i] = Record("subagent.start", r) => Started(r)
        /\ log[i] = Record("subagent.end", r) => Ended(r)
    BY DEF Started, Ended, Logged
  <2> QED BY <2>2, <2>3 DEF Record, Ends
<1> QED BY <1>2, <1>3

LEMMA WorkflowMayFollow ==
  ASSUME log \in Seq(Records), NEW t \in {"workflow.start", "workflow.end"},
         t = "workflow.start" => ~WorkflowStarted /\ ~WorkflowEnded,
         WorkflowEnded => WorkflowCall \in overtaken
  PROVE  MayFollow(Record(t, WorkflowCall)) /\ Record(t, WorkflowCall) \in Records
<1> SUFFICES ASSUME NEW i \in DOMAIN log
             PROVE  log[i].run = WorkflowCall => t \in Ends /\ (log[i].type \in Ends => WorkflowCall \in overtaken)
  BY MembersAssumption DEF MayFollow, Records, WorkflowRecords, Record, InWorkflow, WorkflowCall
<1>1. log[i] \in Records
  OBVIOUS
<1>2. WorkflowCall \notin Runs
  BY MembersAssumption DEF WorkflowCall
<1>3. log[i].run = WorkflowCall =>
        log[i] = Record("workflow.start", WorkflowCall) \/ log[i] = Record("workflow.end", WorkflowCall)
  BY <1>1, <1>2 DEF Records, RunRecords, WorkflowRecords, Record
<1>4. /\ log[i] = Record("workflow.start", WorkflowCall) => WorkflowStarted
      /\ log[i] = Record("workflow.end", WorkflowCall) => WorkflowEnded
  BY DEF WorkflowStarted, WorkflowEnded, Logged
<1> QED BY <1>3, <1>4 DEF Record, Ends

(* Steps that write no record. *)
LEMMA SameLog ==
  ASSUME UNCHANGED <<log, form>>
  PROVE  /\ \A t, r : Logged(t, r)' <=> Logged(t, r)
         /\ \A r : (Started(r)' <=> Started(r)) /\ (Ended(r)' <=> Ended(r))
         /\ (WorkflowStarted' <=> WorkflowStarted) /\ (WorkflowEnded' <=> WorkflowEnded)
         /\ OpenRuns' = OpenRuns /\ (OpenWorkflow' <=> OpenWorkflow) /\ InWorkflow' = InWorkflow
         /\ overtaken \subseteq overtaken' /\ RecordsPaired => RecordsPaired'
<1>1. \A t, r : Logged(t, r)' <=> Logged(t, r)
  BY DEF Logged
<1>2. OpenRuns' = OpenRuns /\ InWorkflow' = InWorkflow
  BY <1>1 DEF OpenRuns, InWorkflow
<1>3. overtaken \subseteq overtaken' /\ RecordsPaired => RecordsPaired'
  BY <1>2 DEF RecordsPaired
<1> QED BY <1>1, <1>2, <1>3 DEF Started, Ended, WorkflowStarted, WorkflowEnded, OpenWorkflow

(* What is open, in these words. *)
LEMMA OpenIs ==
  /\ OpenRuns = {r \in Runs : Started(r) /\ ~Ended(r)}
  /\ OpenWorkflow <=> WorkflowStarted /\ ~WorkflowEnded
BY DEF OpenRuns, OpenWorkflow, Started, Ended, WorkflowStarted, WorkflowEnded

Silent ==
  \/ UNCHANGED vars
  \/ BeginTurn \/ Cancel \/ LoopOver \/ EndTurn \/ Close \/ CloseMembers \/ ReleaseParent
  \/ Crash \/ Resume \/ RecoveryFails \/ ProgramEnds
  \/ \E c \in Runs \cup {WorkflowCall} : GiveUp(c)
  \/ \E r \in Runs : \/ Delegate(r) \/ Build(r) \/ BuildFails(r) \/ TurnEnds(r) \/ Return(r)
                     \/ CallAgent(r) \/ AbortWaiter(r) \/ Release(r)

LEMMA SilentKeeps ==
  ASSUME LifeInv, SlotsInv, RecordsInv, Silent
  PROVE  RecordsInv'
<1> USE MembersAssumption DEF LifeInv, LifeTypeOK, CallsAreNew, InWorkflow, Before, RunStates, flow, rec
<1>0. UNCHANGED <<log, form, overtaken>>
  BY DEF Silent, vars, life, host, BeginTurn, Cancel, LoopOver, EndTurn, Close, CloseMembers,
     ReleaseParent, Crash, Resume, RecoveryFails, ProgramEnds, GiveUp, Delegate, Build, BuildFails,
     TurnEnds, Return, CallAgent, AbortWaiter, Release
<1>s. /\ \A r \in Runs : (Started(r)' <=> Started(r)) /\ (Ended(r)' <=> Ended(r))
      /\ (WorkflowStarted' <=> WorkflowStarted) /\ (WorkflowEnded' <=> WorkflowEnded)
      /\ OpenRuns' = OpenRuns /\ (OpenWorkflow' <=> OpenWorkflow) /\ RecordsPaired'
      /\ log' \in Seq(Records) /\ Agreed
  BY <1>0, SameLog DEF RecordsInv
<1>o. OpenRuns = {r \in Runs : Started(r) /\ ~Ended(r)} /\ (OpenWorkflow <=> WorkflowStarted /\ ~WorkflowEnded)
  BY OpenIs
<1> USE <1>0, <1>s, <1>o DEF Agreed, RunsLogged, WorkflowLogged, RecoveryLogged
<1>1. ASSUME UNCHANGED vars PROVE Agreed'
  BY <1>1 DEF vars
<1>2. ASSUME BeginTurn PROVE Agreed'
  BY <1>2 DEF BeginTurn, life, host, CallOf
<1>3. ASSUME Cancel PROVE Agreed'
  BY <1>3 DEF Cancel, life, host, CallOf
<1>4. ASSUME LoopOver PROVE Agreed'
  BY <1>4 DEF LoopOver, life, host, CallOf
<1>5. ASSUME EndTurn PROVE Agreed'
  BY <1>5 DEF EndTurn, life, host, CallOf
<1>6. ASSUME Close PROVE Agreed'
  BY <1>6 DEF Close, life, host, CallOf
<1>7. ASSUME CloseMembers PROVE Agreed'
  BY <1>7 DEF CloseMembers, life, host, CallOf
<1>8. ASSUME ReleaseParent PROVE Agreed'
  BY <1>8 DEF ReleaseParent, life, host, CallOf
<1>9. ASSUME Crash PROVE Agreed'
  BY <1>9 DEF Crash, life, host, CallOf
<1>10. ASSUME Resume PROVE Agreed'
  BY <1>10 DEF Resume, life, host, CallOf
<1>11. ASSUME RecoveryFails PROVE Agreed'
  BY <1>11 DEF RecoveryFails, life, host, CallOf
<1>12. ASSUME ProgramEnds PROVE Agreed'
  BY <1>12 DEF ProgramEnds, life, host, CallOf
<1>13. ASSUME NEW c \in Runs \cup {WorkflowCall}, GiveUp(c) PROVE Agreed'
  BY <1>13 DEF GiveUp, life, host, CallOf
<1>14. ASSUME NEW r \in Runs, Delegate(r) PROVE Agreed'
  <2>1. /\ UNCHANGED <<parent, old, script, recovery, found>>
        /\ st[r] = "none" /\ r \notin InWorkflow /\ open' = open \cup {r}
        /\ \A q \in Runs : st'[q] = st[q] \/ (q = r /\ st'[q] \in {"creating", "leaving"})
    BY <1>14 DEF Delegate, Create, FirstUnstarted, host
  <2>2. ~Started(r) /\ WorkflowCall \notin Runs
    BY <2>1 DEF WorkflowCall
  <2> QED BY <2>1, <2>2
<1>15. ASSUME NEW r \in Runs, Build(r) PROVE Agreed'
  BY <1>15 DEF Build, life, host, CallOf
<1>16. ASSUME NEW r \in Runs, BuildFails(r) PROVE Agreed'
  BY <1>16 DEF BuildFails, life, host, CallOf
<1>17. ASSUME NEW r \in Runs, TurnEnds(r) PROVE Agreed'
  BY <1>17 DEF TurnEnds, life, host, CallOf
<1>18. ASSUME NEW r \in Runs, Return(r) PROVE Agreed'
  BY <1>18 DEF Return, life, host, CallOf
<1>19. ASSUME NEW r \in Runs, CallAgent(r) PROVE Agreed'
  <2>1. /\ UNCHANGED <<parent, old, script, recovery, found, open>> /\ st[r] = "none"
        /\ \A q \in Runs : st'[q] = st[q] \/ (q = r /\ st'[q] \in {"creating", "leaving", "failed", "waiting"})
    BY <1>19 DEF CallAgent, Create, FirstUnstarted, host
  <2>2. ~Started(r)
    BY <2>1
  <2> QED BY <2>1, <2>2
<1>20. ASSUME NEW r \in Runs, AbortWaiter(r) PROVE Agreed'
  BY <1>20 DEF AbortWaiter, life, host, CallOf
<1>21. ASSUME NEW r \in Runs, Release(r) PROVE Agreed'
  <2>1. /\ UNCHANGED <<parent, old, script, open, recovery, found>> /\ st[r] = "leaving"
        /\ \A q \in Runs : st'[q] = st[q] \/ (q = r /\ st'[q] = "closed")
                            \/ (st[q] = "waiting" /\ st'[q] \in {"creating", "leaving"})
    <3>1. CASE slots.waiting = <<>>
      BY <1>21, <3>1 DEF Release, host
    <3>2. CASE slots.waiting # <<>>
      <4> DEFINE next == Head(slots.waiting)
      <4>1. next \in ToSet(slots.waiting) /\ next \in Runs
        BY <3>2, HeadLeaves, ElementOfSeq DEF SlotsInv, QueueInv, ToSet
      <4>2. st[next] = "waiting"
        BY <4>1 DEF SlotsInv, QueueInv
      <4> HIDE DEF next
      <4> QED BY <1>21, <3>2, <4>1, <4>2 DEF Release, host, next
    <3> QED BY <3>1, <3>2
  <2> QED BY <2>1
<1>22. Agreed'
  BY <1>1, <1>2, <1>3, <1>4, <1>5, <1>6, <1>7, <1>8, <1>9, <1>10, <1>11, <1>12, <1>13, <1>14, <1>15,
     <1>16, <1>17, <1>18, <1>19, <1>20, <1>21 DEF Silent
<1> QED BY <1>22 DEF RecordsInv

(* The two looks of a recovery at the session. *)
LEMMA FindKeeps ==
  ASSUME LifeInv, RecordsInv, FindRuns \/ FindWorkflow
  PROVE  RecordsInv'
<1> USE DEF LifeInv, LifeTypeOK, CallsAreNew, flow
<1>1. /\ UNCHANGED <<log, form, st, parent, open, old, script>> /\ overtaken \subseteq overtaken'
      /\ \A r \in Runs : (r \in overtaken) => (r \in overtaken')
  BY DEF FindRuns, FindWorkflow, life, host
<1>2. /\ \A r \in Runs : (Started(r)' <=> Started(r)) /\ (Ended(r)' <=> Ended(r))
      /\ (WorkflowStarted' <=> WorkflowStarted) /\ (WorkflowEnded' <=> WorkflowEnded)
      /\ OpenRuns' = OpenRuns /\ (OpenWorkflow' <=> OpenWorkflow) /\ InWorkflow' = InWorkflow
      /\ RecordsPaired' /\ log' \in Seq(Records) /\ InWorkflow \subseteq Runs
  BY <1>1, SameLog DEF RecordsInv, InWorkflow
<1>3. OpenRuns = {r \in Runs : Started(r) /\ ~Ended(r)} /\ (OpenWorkflow <=> WorkflowStarted /\ ~WorkflowEnded)
  BY OpenIs
<1>4. RunsLogged' /\ WorkflowLogged'
  BY <1>1, <1>2 DEF RecordsInv, Agreed, RunsLogged, WorkflowLogged
<1>5. CASE FindRuns
  <2>1. recovery' = "closing" /\ found' = OpenRuns /\ overtaken' = overtaken \cup (OpenRuns \ old)
    BY <1>5 DEF FindRuns
  <2> QED BY <1>1, <1>2, <1>3, <1>4, <2>1 DEF RecordsInv, Agreed, RecoveryLogged
<1>6. CASE FindWorkflow
  <2>1. OpenRuns \cap old = {}
    BY <1>6 DEF FindWorkflow, RecordsInv, Agreed, RecoveryLogged
  <2>2. CASE OpenWorkflow
    <3>1. recovery' = "ending" /\ overtaken' = overtaken \cup ({WorkflowCall} \ old)
      BY <1>6, <2>2 DEF FindWorkflow
    <3> QED BY <1>1, <1>2, <1>3, <1>4, <2>1, <2>2, <3>1 DEF RecordsInv, Agreed, RecoveryLogged
  <2>3. CASE ~OpenWorkflow
    <3>1. recovery' = "done"
      BY <1>6, <2>3 DEF FindWorkflow
    <3> QED BY <1>1, <1>2, <1>3, <1>4, <2>1, <2>3, <3>1 DEF RecordsInv, Agreed, RecoveryLogged
  <2> QED BY <2>2, <2>3
<1> QED BY <1>5, <1>6

(* Steps that write one. *)
LEMMA StartRunKeeps ==
  ASSUME LifeInv, RecordsInv, NEW r \in Runs, StartRun(r)
  PROVE  RecordsInv'
<1> USE MembersAssumption DEF RunStates, Agreed, flow, rec
<1> DEFINE Same == UNCHANGED <<form, parent, open, old, script, recovery, found, overtaken>>
<1>1. Same /\ st[r] = "built" /\ \A q \in Runs \ {r} : st'[q] = st[q]
  BY DEF StartRun, host, LifeInv, LifeTypeOK
<1>o. /\ OpenRuns = {q \in Runs : Started(q) /\ ~Ended(q)} /\ (OpenWorkflow <=> WorkflowStarted /\ ~WorkflowEnded)
      /\ OpenRuns' = {q \in Runs : Started(q)' /\ ~Ended(q)'} /\ (OpenWorkflow' <=> WorkflowStarted' /\ ~WorkflowEnded')
      /\ InWorkflow' = InWorkflow /\ InWorkflow \subseteq Runs
  BY <1>1, OpenIs DEF OpenRuns, OpenWorkflow, Started, Ended, WorkflowStarted, WorkflowEnded, InWorkflow
<1>2. CASE CallOf(r) \in open
  <2>1. log' = Append(log, Record("subagent.start", r)) /\ st'[r] \in {"turn", "ended"}
    BY <1>2 DEF StartRun, LifeInv, LifeTypeOK
  <2>2. r \notin old
    BY <1>2 DEF LifeInv, CallsAreNew
  <2>3. ~Started(r) /\ ~Ended(r)
    BY <1>1 DEF RecordsInv, RunsLogged
  <2>4. r \in InWorkflow => /\ WorkflowCall \in open /\ WorkflowCall \notin old
                            /\ WorkflowEnded => WorkflowCall \in overtaken
    BY <1>2 DEF InWorkflow, CallOf, RecordsInv, WorkflowLogged, LifeInv, CallsAreNew
  <2>5. MayFollow(Record("subagent.start", r)) /\ Record("subagent.start", r) \in Records
    BY <2>3, <2>4, RunMayFollow DEF RecordsInv
  <2>6. \A t, q : Logged(t, q)' <=> Logged(t, q) \/ (t = "subagent.start" /\ q = r)
    BY <2>1, <2>5, RecordAdded DEF RecordsInv, Record
  <2>7. /\ \A q \in Runs : (Started(q)' <=> Started(q) \/ q = r) /\ (Ended(q)' <=> Ended(q))
        /\ (WorkflowStarted' <=> WorkflowStarted) /\ (WorkflowEnded' <=> WorkflowEnded)
    BY <2>6 DEF Started, Ended, WorkflowStarted, WorkflowEnded
  <2>8. OpenRuns' = OpenRuns \cup {r}
    BY <1>o, <2>3, <2>7
  <2>9. RunsLogged'
    BY <1>1, <2>1, <2>2, <2>3, <2>7 DEF RecordsInv, RunsLogged, Before
  <2>10. WorkflowLogged'
    BY <1>1, <1>o, <2>1, <2>4, <2>7, <2>8 DEF RecordsInv, WorkflowLogged
  <2>11. RecoveryLogged'
    BY <1>1, <1>o, <2>2, <2>3, <2>7, <2>8 DEF RecordsInv, RecoveryLogged
  <2>12. log' \in Seq(Records) /\ RecordsPaired'
    BY <1>1, <1>o, <2>1, <2>5, <2>10, RecordAdded DEF RecordsInv, WorkflowLogged
  <2> QED BY <2>9, <2>10, <2>11, <2>12 DEF RecordsInv
<1>3. CASE CallOf(r) \notin open
  <2>1. UNCHANGED log /\ st'[r] = "leaving"
    BY <1>3 DEF StartRun, LifeInv, LifeTypeOK
  <2>2. ~Started(r) /\ (r \in InWorkflow => WorkflowCall \notin open)
    BY <1>1, <1>3 DEF RecordsInv, RunsLogged, InWorkflow, CallOf
  <2>3. /\ \A q \in Runs : (Started(q)' <=> Started(q)) /\ (Ended(q)' <=> Ended(q))
        /\ (WorkflowStarted' <=> WorkflowStarted) /\ (WorkflowEnded' <=> WorkflowEnded)
        /\ OpenRuns' = OpenRuns /\ RecordsPaired'
    BY <1>1, <2>1, SameLog DEF RecordsInv
  <2>4. RunsLogged' /\ WorkflowLogged' /\ RecoveryLogged'
    BY <1>1, <1>o, <2>1, <2>2, <2>3 DEF RecordsInv, RunsLogged, WorkflowLogged, RecoveryLogged
  <2> QED BY <2>1, <2>3, <2>4 DEF RecordsInv
<1> QED BY <1>2, <1>3

(* An end of a run that has started, and that the rules above allow. *)
EndAllowed(r) ==
  /\ Started(r) /\ (Ended(r) => r \in overtaken)
  /\ r \in InWorkflow /\ WorkflowEnded => overtaken \cap {WorkflowCall, r} # {}
LEMMA EndIsPaired ==
  ASSUME LifeInv, RecordsInv, NEW r \in Runs, log' = Append(log, Record("subagent.end", r)), EndAllowed(r),
         UNCHANGED <<form, open, old, script, overtaken>>
  PROVE  /\ log' \in Seq(Records) /\ RecordsPaired'
         /\ \A q \in Runs : (Started(q)' <=> Started(q)) /\ (Ended(q)' <=> Ended(q) \/ q = r)
         /\ (WorkflowStarted' <=> WorkflowStarted) /\ (WorkflowEnded' <=> WorkflowEnded)
         /\ OpenRuns' = OpenRuns \ {r} /\ (OpenWorkflow' <=> OpenWorkflow) /\ InWorkflow' = InWorkflow
<1> USE MembersAssumption DEF Agreed
<1>1. MayFollow(Record("subagent.end", r)) /\ Record("subagent.end", r) \in Records
  BY RunMayFollow DEF EndAllowed, RecordsInv
<1>2. \A t, q : Logged(t, q)' <=> Logged(t, q) \/ (t = "subagent.end" /\ q = r)
  BY <1>1, RecordAdded DEF RecordsInv, Record
<1>3. /\ \A q \in Runs : (Started(q)' <=> Started(q)) /\ (Ended(q)' <=> Ended(q) \/ q = r)
      /\ (WorkflowStarted' <=> WorkflowStarted) /\ (WorkflowEnded' <=> WorkflowEnded)
  BY <1>2 DEF Started, Ended, WorkflowStarted, WorkflowEnded
<1>4. OpenRuns' = OpenRuns \ {r} /\ (OpenWorkflow' <=> OpenWorkflow) /\ InWorkflow' = InWorkflow
  BY <1>2 DEF OpenRuns, OpenWorkflow, InWorkflow
<1>5. WorkflowEnded' => WorkflowCall \in overtaken \/ InWorkflow \cap OpenRuns' = {}
  BY <1>3, <1>4 DEF RecordsInv, WorkflowLogged
<1>6. log' \in Seq(Records) /\ RecordsPaired'
  BY <1>1, <1>5, RecordAdded DEF RecordsInv
<1> QED BY <1>3, <1>4, <1>6

LEMMA EndRunKeeps ==
  ASSUME LifeInv, RecordsInv, NEW r \in Runs, EndRun(r)
  PROVE  RecordsInv'
<1> USE MembersAssumption DEF RunStates, Agreed, flow, rec
<1>1. /\ UNCHANGED <<form, parent, open, old, script, recovery, found, overtaken>>
      /\ st[r] = "ended" /\ st'[r] = "leaving" /\ \A q \in Runs \ {r} : st'[q] = st[q]
  BY DEF EndRun, host, LifeInv, LifeTypeOK
<1>2. Started(r)
  BY <1>1 DEF RecordsInv, RunsLogged
<1>o. InWorkflow \subseteq Runs /\ (OpenWorkflow <=> WorkflowStarted /\ ~WorkflowEnded)
  BY OpenIs DEF InWorkflow
<1>3. CASE CallOf(r) \in open
  <2>1. log' = Append(log, Record("subagent.end", r))
    BY <1>3 DEF EndRun
  <2>2. r \notin old /\ (Ended(r) => r \in overtaken)
    BY <1>1, <1>3 DEF LifeInv, CallsAreNew, RecordsInv, RunsLogged
  <2>3. r \in InWorkflow /\ WorkflowEnded => WorkflowCall \in overtaken
    BY <1>3 DEF InWorkflow, CallOf, RecordsInv, WorkflowLogged
  <2>4. EndAllowed(r)
    BY <1>2, <2>2, <2>3 DEF EndAllowed
  <2>5. /\ log' \in Seq(Records) /\ RecordsPaired'
        /\ \A q \in Runs : (Started(q)' <=> Started(q)) /\ (Ended(q)' <=> Ended(q) \/ q = r)
        /\ (WorkflowStarted' <=> WorkflowStarted) /\ (WorkflowEnded' <=> WorkflowEnded)
        /\ OpenRuns' = OpenRuns \ {r} /\ (OpenWorkflow' <=> OpenWorkflow) /\ InWorkflow' = InWorkflow
    BY <1>1, <2>1, <2>4, EndIsPaired
  <2>6. RunsLogged'
    BY <1>1, <1>2, <2>5 DEF RecordsInv, RunsLogged, Before
  <2>7. WorkflowLogged'
    BY <1>1, <1>o, <2>5 DEF RecordsInv, WorkflowLogged
  <2>8. RecoveryLogged'
    BY <1>1, <1>o, <2>2, <2>5 DEF RecordsInv, RecoveryLogged
  <2> QED BY <2>5, <2>6, <2>7, <2>8 DEF RecordsInv
<1>4. CASE CallOf(r) \notin open
  <2>1. UNCHANGED log
    BY <1>4 DEF EndRun
  <2>2. r \in InWorkflow => WorkflowCall \notin open
    BY <1>4 DEF InWorkflow, CallOf
  <2>3. /\ \A q \in Runs : (Started(q)' <=> Started(q)) /\ (Ended(q)' <=> Ended(q))
        /\ (WorkflowStarted' <=> WorkflowStarted) /\ (WorkflowEnded' <=> WorkflowEnded)
        /\ OpenRuns' = OpenRuns /\ (OpenWorkflow' <=> OpenWorkflow) /\ InWorkflow' = InWorkflow /\ RecordsPaired'
    BY <1>1, <2>1, SameLog DEF RecordsInv
  <2>4. RunsLogged' /\ WorkflowLogged' /\ RecoveryLogged'
    BY <1>1, <1>o, <2>1, <2>2, <2>3 DEF RecordsInv, RunsLogged, WorkflowLogged, RecoveryLogged, Before
  <2> QED BY <2>1, <2>3, <2>4 DEF RecordsInv
<1> QED BY <1>3, <1>4

(* A run that an earlier agent left open is ended once; one that the       *)
(* recovery has overtaken may be ended twice.                              *)
LEMMA CloseInterruptedKeeps ==
  ASSUME LifeInv, RecordsInv, NEW r \in Runs, CloseInterruptedRun(r)
  PROVE  RecordsInv'
<1> USE MembersAssumption DEF Agreed, flow
<1>1. /\ UNCHANGED <<form, st, parent, open, old, script, recovery, overtaken>>
      /\ recovery = "closing" /\ r \in found /\ found' = found \ {r}
      /\ log' = Append(log, Record("subagent.end", r))
  BY DEF CloseInterruptedRun, life, host
<1>2. Started(r) /\ (r \in overtaken \/ (r \in old /\ ~Ended(r)))
  BY <1>1 DEF RecordsInv, RecoveryLogged
<1>o. /\ InWorkflow \subseteq Runs /\ (OpenWorkflow <=> WorkflowStarted /\ ~WorkflowEnded)
      /\ OpenRuns = {q \in Runs : Started(q) /\ ~Ended(q)}
  BY OpenIs DEF InWorkflow
<1>3. EndAllowed(r)
  BY <1>2, <1>o DEF EndAllowed, RecordsInv, WorkflowLogged
<1>4. /\ log' \in Seq(Records) /\ RecordsPaired'
      /\ \A q \in Runs : (Started(q)' <=> Started(q)) /\ (Ended(q)' <=> Ended(q) \/ q = r)
      /\ (WorkflowStarted' <=> WorkflowStarted) /\ (WorkflowEnded' <=> WorkflowEnded)
      /\ OpenRuns' = OpenRuns \ {r} /\ (OpenWorkflow' <=> OpenWorkflow) /\ InWorkflow' = InWorkflow
  BY <1>1, <1>3, EndIsPaired
<1>5. RunsLogged' /\ WorkflowLogged'
  BY <1>1, <1>2, <1>o, <1>4 DEF RecordsInv, RunsLogged, WorkflowLogged
<1>6. RecoveryLogged'
  BY <1>1, <1>2, <1>o, <1>4 DEF RecordsInv, RecoveryLogged
<1> QED BY <1>4, <1>5, <1>6 DEF RecordsInv

LEMMA StartWorkflowKeeps ==
  ASSUME LifeInv, RecordsInv, StartWorkflow
  PROVE  RecordsInv'
<1> USE MembersAssumption DEF Agreed, rec
<1>1. /\ UNCHANGED <<form, st, parent, old, recovery, found, overtaken>>
      /\ parent = "running" /\ script = "none" /\ script' = "running"
      /\ log' = Append(log, Record("workflow.start", WorkflowCall))
  BY DEF StartWorkflow, host
<1>2. ~WorkflowStarted /\ ~WorkflowEnded /\ WorkflowCall \notin old
  BY <1>1 DEF RecordsInv, WorkflowLogged, LifeInv, CallsAreNew
<1>3. \A q \in InWorkflow : ~Started(q)
  BY <1>1 DEF LifeInv, CallsAreNew, RecordsInv, RunsLogged, InWorkflow, Before
<1>4. MayFollow(Record("workflow.start", WorkflowCall)) /\ Record("workflow.start", WorkflowCall) \in Records
  BY <1>2, WorkflowMayFollow DEF RecordsInv
<1>5. \A t, q : Logged(t, q)' <=> Logged(t, q) \/ (t = "workflow.start" /\ q = WorkflowCall)
  BY <1>1, <1>4, RecordAdded DEF RecordsInv, Record
<1>6. /\ \A q \in Runs : (Started(q)' <=> Started(q)) /\ (Ended(q)' <=> Ended(q))
      /\ WorkflowStarted' /\ (WorkflowEnded' <=> WorkflowEnded)
  BY <1>5 DEF Started, Ended, WorkflowStarted, WorkflowEnded
<1>7. OpenRuns' = OpenRuns /\ InWorkflow' = InWorkflow /\ InWorkflow \subseteq Runs
  BY <1>1, <1>5 DEF OpenRuns, InWorkflow
<1>8. RunsLogged'
  BY <1>1, <1>6, <1>7 DEF RecordsInv, RunsLogged
<1>9. WorkflowLogged'
  BY <1>1, <1>2, <1>3, <1>6, <1>7 DEF WorkflowLogged, InWorkflow
<1>10. RecoveryLogged'
  BY <1>1, <1>2, <1>6, <1>7 DEF RecordsInv, RecoveryLogged
<1>11. log' \in Seq(Records) /\ RecordsPaired'
  BY <1>1, <1>2, <1>4, <1>6, RecordAdded DEF RecordsInv
<1> QED BY <1>8, <1>9, <1>10, <1>11 DEF RecordsInv

(* The end of the workflow. *)
LEMMA WorkflowEndIsPaired ==
  ASSUME LifeInv, RecordsInv, log' = Append(log, Record("workflow.end", WorkflowCall)),
         WorkflowStarted, WorkflowCall \in overtaken \/ (~WorkflowEnded /\ InWorkflow \cap OpenRuns = {}),
         UNCHANGED <<form, old, overtaken>>
  PROVE  /\ log' \in Seq(Records) /\ RecordsPaired'
         /\ \A q \in Runs : (Started(q)' <=> Started(q)) /\ (Ended(q)' <=> Ended(q))
         /\ WorkflowStarted' /\ WorkflowEnded' /\ ~OpenWorkflow'
         /\ OpenRuns' = OpenRuns /\ InWorkflow' = InWorkflow
<1> USE MembersAssumption
<1>1. MayFollow(Record("workflow.end", WorkflowCall)) /\ Record("workflow.end", WorkflowCall) \in Records
  BY WorkflowMayFollow DEF RecordsInv
<1>2. \A t, q : Logged(t, q)' <=> Logged(t, q) \/ (t = "workflow.end" /\ q = WorkflowCall)
  BY <1>1, RecordAdded DEF RecordsInv, Record
<1>3. /\ \A q \in Runs : (Started(q)' <=> Started(q)) /\ (Ended(q)' <=> Ended(q))
      /\ WorkflowStarted' /\ WorkflowEnded' /\ ~OpenWorkflow'
  BY <1>2 DEF Started, Ended, WorkflowStarted, WorkflowEnded, OpenWorkflow
<1>4. OpenRuns' = OpenRuns /\ InWorkflow' = InWorkflow
  BY <1>2 DEF OpenRuns, InWorkflow
<1>5. log' \in Seq(Records) /\ RecordsPaired'
  BY <1>1, <1>4, RecordAdded DEF RecordsInv
<1> QED BY <1>3, <1>4, <1>5

LEMMA EndWorkflowKeeps ==
  ASSUME LifeInv, RecordsInv, EndWorkflow
  PROVE  RecordsInv'
<1> USE MembersAssumption DEF Agreed, rec
<1>1. /\ UNCHANGED <<form, st, parent, old, recovery, found, overtaken>>
      /\ script' = "recorded" /\ WorkflowCall \notin open'
      /\ \A q \in InWorkflow : st[q] \in {"none"} \cup Settled
  BY DEF EndWorkflow, host
<1>o. InWorkflow \subseteq Runs /\ (OpenWorkflow <=> WorkflowStarted /\ ~WorkflowEnded)
  BY OpenIs DEF InWorkflow
<1>2. CASE WorkflowCall \in open
  <2>1. log' = Append(log, Record("workflow.end", WorkflowCall))
    BY <1>2 DEF EndWorkflow
  <2>2. /\ WorkflowStarted /\ InWorkflow \cap OpenRuns = {} /\ WorkflowCall \notin old
        /\ WorkflowEnded => WorkflowCall \in overtaken
    BY <1>1, <1>2, OpenIs DEF RecordsInv, WorkflowLogged, Settled, LifeInv, CallsAreNew
  <2>3. /\ log' \in Seq(Records) /\ RecordsPaired'
        /\ \A q \in Runs : (Started(q)' <=> Started(q)) /\ (Ended(q)' <=> Ended(q))
        /\ WorkflowStarted' /\ WorkflowEnded' /\ ~OpenWorkflow'
        /\ OpenRuns' = OpenRuns /\ InWorkflow' = InWorkflow
    BY <1>1, <2>1, <2>2, WorkflowEndIsPaired
  <2>4. RunsLogged' /\ WorkflowLogged' /\ RecoveryLogged'
    BY <1>1, <1>o, <2>2, <2>3 DEF RecordsInv, RunsLogged, WorkflowLogged, RecoveryLogged
  <2> QED BY <2>3, <2>4 DEF RecordsInv
<1>3. CASE WorkflowCall \notin open
  <2>1. UNCHANGED log
    BY <1>3 DEF EndWorkflow
  <2>2. /\ \A q \in Runs : (Started(q)' <=> Started(q)) /\ (Ended(q)' <=> Ended(q))
        /\ (WorkflowStarted' <=> WorkflowStarted) /\ (WorkflowEnded' <=> WorkflowEnded)
        /\ OpenRuns' = OpenRuns /\ (OpenWorkflow' <=> OpenWorkflow) /\ InWorkflow' = InWorkflow /\ RecordsPaired'
    BY <1>1, <2>1, SameLog DEF RecordsInv
  <2>3. RunsLogged' /\ WorkflowLogged' /\ RecoveryLogged'
    BY <1>1, <1>o, <2>2 DEF RecordsInv, RunsLogged, WorkflowLogged, RecoveryLogged
  <2> QED BY <2>1, <2>2, <2>3 DEF RecordsInv
<1> QED BY <1>2, <1>3

LEMMA RecoverWorkflowKeeps ==
  ASSUME LifeInv, RecordsInv, RecoverWorkflow
  PROVE  RecordsInv'
<1> USE MembersAssumption DEF Agreed, flow
<1>1. /\ UNCHANGED <<form, st, parent, open, old, script, overtaken>> /\ recovery = "ending" /\ recovery' = "done"
      /\ log' = Append(log, Record("workflow.end", WorkflowCall))
  BY DEF RecoverWorkflow, life, host
<1>2. /\ WorkflowStarted /\ OpenRuns \cap old = {}
      /\ WorkflowCall \in overtaken \/ (WorkflowCall \in old /\ ~WorkflowEnded)
  BY <1>1 DEF RecordsInv, RecoveryLogged
<1>o. InWorkflow \subseteq Runs /\ OpenRuns = {q \in Runs : Started(q) /\ ~Ended(q)}
  BY OpenIs DEF InWorkflow
<1>3. WorkflowCall \in old => InWorkflow \cap OpenRuns = {} /\ WorkflowCall \notin open
  BY <1>2, <1>o DEF RecordsInv, WorkflowLogged, LifeInv, CallsAreNew
<1>4. /\ log' \in Seq(Records) /\ RecordsPaired'
      /\ \A q \in Runs : (Started(q)' <=> Started(q)) /\ (Ended(q)' <=> Ended(q))
      /\ WorkflowStarted' /\ WorkflowEnded' /\ ~OpenWorkflow'
      /\ OpenRuns' = OpenRuns /\ InWorkflow' = InWorkflow
  BY <1>1, <1>2, <1>3, WorkflowEndIsPaired
<1>5. RunsLogged' /\ WorkflowLogged'
  BY <1>1, <1>2, <1>3, <1>o, <1>4 DEF RecordsInv, RunsLogged, WorkflowLogged
<1>6. RecoveryLogged'
  BY <1>1, <1>2, <1>4 DEF RecoveryLogged
<1> QED BY <1>4, <1>5, <1>6 DEF RecordsInv

LEMMA RecordsInitially == Init => RecordsInv
<1> SUFFICES ASSUME Init PROVE RecordsInv
  OBVIOUS
<1>1. log \in Seq(Records) /\ DOMAIN log = {} /\ recovery = "none" /\ old = {} /\ open = {}
  BY DEF Init
<1>2. \A t, r : ~Logged(t, r)
  BY <1>1 DEF Logged
<1>3. RecordsPaired
  BY <1>1 DEF RecordsPaired
<1> QED BY <1>1, <1>2, <1>3, MembersAssumption DEF Init, RecordsInv, Agreed, RunsLogged, WorkflowLogged,
   RecoveryLogged, Started, Ended, WorkflowStarted, WorkflowEnded, WorkflowCall

-----------------------------------------------------------------------------
(* The lives of the runs, the slots of the workflow and the records of the *)
(* session fit together in every state, for every task, number of turns    *)
(* and number of crashes, also while a recovery works beside a turn and    *)
(* after one that failed.                                                  *)
MembersInv == LifeInv /\ SlotsInv /\ RecordsInv

THEOREM MembersInvariant == Spec => []MembersInv
<1>1. Init => MembersInv
  BY LifeInitially, SlotsInitially, RecordsInitially DEF MembersInv
<1>2. MembersInv /\ [Next]_vars => MembersInv'
  <2> SUFFICES ASSUME LifeInv, SlotsInv, RecordsInv, [Next]_vars PROVE RecordsInv'
    BY LifeInductive, SlotsInductive DEF MembersInv
  <2>1. \/ Silent \/ StartWorkflow \/ EndWorkflow \/ RecoverWorkflow \/ FindRuns \/ FindWorkflow
        \/ \E r \in Runs : StartRun(r) \/ EndRun(r) \/ CloseInterruptedRun(r)
    BY DEF Next, Run, Recover, Silent
  <2> QED BY <2>1, SilentKeeps, FindKeeps, StartRunKeeps, EndRunKeeps, CloseInterruptedKeeps,
          StartWorkflowKeeps, EndWorkflowKeeps, RecoverWorkflowKeeps
<1> QED BY <1>1, <1>2, PTL DEF Spec

(* As many slots are taken as runs of the workflow hold one, never more    *)
(* than there are, and a call waits in the queue only while all are taken. *)
THEOREM SlotsAreKept == Spec => []SlotsKept
<1>1. MembersInv => SlotsKept
  BY DEF MembersInv, SlotsInv, QueueInv, CountInv, SlotsKept
<1> QED BY <1>1, MembersInvariant, PTL

(* Runs lie inside the sessions that made them: each has one start and     *)
(* then, unless the recovery overtook it, one end, whoever writes it;      *)
(* those of a workflow lie between the start and the end of it, no turn of *)
(* a member is outside its parent, and a recovery that went through left   *)
(* nothing of an earlier agent open.                                       *)
THEOREM RunsAreNested == Spec => []RunsNested
<1>1. MembersInv => RunsNested
  BY DEF MembersInv, LifeInv, RunsAreKnown, RecordsInv, Agreed, RecoveryLogged, RunsNested, MembersInsideParent
<1> QED BY <1>1, MembersInvariant, PTL
=============================================================================
