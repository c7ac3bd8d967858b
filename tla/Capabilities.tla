---------------------------- MODULE Capabilities ----------------------------
(***************************************************************************)
(* The capability versions of a project and the processes that open        *)
(* sessions on them: the activation chain and its compare-and-publish      *)
(* (src/packages/capabilities/src/activation.ts), CapabilityStore with its *)
(* decisions (capability-store.ts, decisions.ts), resolveVersion and       *)
(* attachAgent (service.ts), the kernel's use of them when a root session  *)
(* is created or resumed (kernel/src/agents.ts), the user's rollback       *)
(* (sdk/src/capabilities.ts), and the ledger's record of every decision.   *)
(*                                                                         *)
(* A revision file appears whole under its name, so reading the chain is   *)
(* one step; an entry of the chain carries the activation that a reader    *)
(* has after it.  The identity of a decision stands for the digest of the  *)
(* revision that names it.  New revisions are rollbacks; adoptions are     *)
(* those that earlier versions of the program left.                        *)
(***************************************************************************)
EXTENDS Ledger, SequencesExt

CONSTANTS
  Hosts,        \* processes, each with one session
  Versions,     \* capability versions; their bundles
  Adopted,      \* what the project may have adopted: sequences over Versions
  Bundles,      \* what may be the matter with them: functions from Versions to "good", "invalid", "damaged"
  MaxAttempts,  \* MAX_ATTEMPTS of capability-store.ts
  MaxJobs       \* bound: openings, views and rollbacks

Baseline == "baseline"
None == "none"

ASSUME CapabilitiesAssumption ==
  /\ Writers = Hosts /\ IsFiniteSet(Hosts)
  /\ {Baseline, None} \cap Versions = {}
  /\ \A s \in Adopted : s \in Seq(Versions) /\ \A i \in 1..Len(s) - 1 : s[i] # s[i + 1]
  /\ Bundles \subseteq [Versions -> {"good", "invalid", "damaged"}]
  /\ MaxAttempts \in Nat \ {0} /\ MaxJobs \in Nat

VARIABLES
  bundle,     \* each version's bundle: good, invalid (a component does not validate), damaged
  chain,      \* the files of activation/, in order
  decisions,  \* the files of decisions/
  host,       \* what each process is doing
  sessions,   \* the versions each process' session has recorded
  running,    \* the version the agent of an open session runs on
  jobs

vars == <<bundle, chain, decisions, host, sessions, running, jobs, faults, ledgerVars>>
files == <<bundle, chain, decisions>>

(* The tail of the chain as a reader sees it (Activation). *)
BaselineActivation == [revision |-> 0, digest |-> 0, version |-> Baseline, stack |-> <<Baseline>>]
Advance(a, rev) ==
  [revision |-> rev.number, digest |-> rev.decision, version |-> rev.version,
   stack |-> IF rev.type = "adopt" THEN Append(a.stack, rev.version) ELSE Front(a.stack)]

(* The version a rollback returns to. *)
RollbackTarget(a) == a.stack[Len(a.stack) - 1]

(* Whether a revision may follow an activation (isNextRevision,            *)
(* rejectRevision).                                                        *)
Follows(a, rev) ==
  /\ rev.number = a.revision + 1 /\ rev.previous = a.digest
  /\ rev.from = a.version /\ rev.version # rev.from
  /\ rev.type = "adopt" => rev.version \in Versions
  /\ rev.type = "rollback" => Len(a.stack) > 1 /\ rev.version = RollbackTarget(a)

(* readActivationChain: up to the first file that cannot be accepted. *)
Accepted(n) == chain[n].readable /\ Follows(chain[n].before, chain[n].rev)
ValidLength == CHOOSE n \in 0..Len(chain) :
  /\ \A i \in 1..n : Accepted(i)
  /\ n < Len(chain) => ~Accepted(n + 1)
After(n) == IF n = 0 THEN BaselineActivation ELSE Advance(chain[n].before, chain[n].rev)
Adoption == After(ValidLength)
Problem == ValidLength < Len(chain)
File(rev, before) == [rev |-> rev, before |-> before, readable |-> TRUE]

Loads(v) == v # Baseline => bundle[v] # "damaged"
Validates(v) == v # Baseline => bundle[v] # "invalid"
Usable(v) == Loads(v) /\ Validates(v)
-----------------------------------------------------------------------------
NoRevision == [number |-> 0, previous |-> 0, from |-> None, version |-> None, type |-> None, trigger |-> None,
               decision |-> 0]
Quiet == [job |-> None, at |-> "idle", base |-> BaselineActivation, problem |-> FALSE, tries |-> 0,
          why |-> None, rev |-> NoRevision, version |-> None]

(* The chain that adoptions left (versions adopted earlier). *)
Adopting(s, i) == [number |-> i, previous |-> i - 1, from |-> IF i = 1 THEN Baseline ELSE s[i - 1],
                   version |-> s[i], type |-> "adopt", trigger |-> "gate", decision |-> i]
AdoptedBefore(s, i) == [revision |-> i - 1, digest |-> i - 1, version |-> IF i = 1 THEN Baseline ELSE s[i - 1],
                        stack |-> <<Baseline>> \o SubSeq(s, 1, i - 1)]

Init ==
  /\ \E s \in Adopted :
       /\ chain = [i \in 1..Len(s) |-> File(Adopting(s, i), AdoptedBefore(s, i))]
       /\ decisions = 1..Len(s)
  /\ bundle \in Bundles
  /\ host = [h \in Hosts |-> Quiet] /\ sessions = [h \in Hosts |-> <<>>] /\ running = [h \in Hosts |-> None]
  /\ jobs = 0 /\ faults = 0
  /\ LedgerInit

At(h, label) == host[h].at = label
Goto(h, label) == host' = [host EXCEPT ![h].at = label]
Done(h) == host' = [host EXCEPT ![h] = Quiet]
-----------------------------------------------------------------------------
(* Jobs of a process.  A view (capabilities.list, and the end of a         *)
(* rollback) resolves the version as an opening does.                      *)
Start(h, job, label) ==
  /\ At(h, "idle") /\ jobs < MaxJobs
  /\ jobs' = jobs + 1
  /\ host' = [host EXCEPT ![h] = [Quiet EXCEPT !.job = job, !.at = label]]
  /\ UNCHANGED <<files, sessions, running, faults, ledgerVars>>

CreateSession(h) == running[h] = None /\ sessions[h] = <<>> /\ Start(h, "create", "chain")
ResumeSession(h) == running[h] = None /\ sessions[h] # <<>> /\ Start(h, "resume", "verify")
ViewCapabilities(h) == Start(h, "view", "chain")

(* The user asks for an earlier version of the stack; without one, the     *)
(* one before the last.                                                    *)
AskRollback(h) ==
  /\ At(h, "idle") /\ jobs < MaxJobs /\ Len(Adoption.stack) > 1
  /\ jobs' = jobs + 1
  /\ \E v \in ToSet(Front(Adoption.stack)) \ {Adoption.version} :
       host' = [host EXCEPT ![h] = [Quiet EXCEPT !.job = "rollback", !.at = "check", !.base = Adoption,
                                                 !.why = "manual", !.version = v]]
  /\ UNCHANGED <<files, sessions, running, faults, ledgerVars>>

CloseSession(h) ==
  /\ At(h, "idle") /\ running[h] # None
  /\ running' = [running EXCEPT ![h] = None]
  /\ UNCHANGED <<files, host, sessions, jobs, faults, ledgerVars>>
-----------------------------------------------------------------------------
(* resolveVersion: read the chain, load and validate the tail's bundle,    *)
(* roll it back when it does not pass, and start again.                    *)
ReadChain(h) ==
  /\ At(h, "chain")
  /\ IF host[h].tries = MaxAttempts THEN Done(h)
     ELSE host' = [host EXCEPT ![h].at = "judge", ![h].base = Adoption, ![h].problem = Problem]
  /\ UNCHANGED <<files, sessions, running, jobs, faults, ledgerVars>>

Settle(h, v) == host' = [host EXCEPT ![h] = [Quiet EXCEPT !.job = host[h].job, !.at = "record", !.base = host[h].base,
                                                   !.problem = host[h].problem, !.version = v]]

JudgeTail(h) ==
  /\ At(h, "judge")
  /\ LET v == host[h].base.version IN
     IF Usable(v) THEN Settle(h, v)
     ELSE IF host[h].problem THEN Settle(h, Baseline)
     ELSE host' = [host EXCEPT ![h].at = "check", ![h].why = IF Loads(v) THEN "components" ELSE "load"]
  /\ UNCHANGED <<files, sessions, running, jobs, faults, ledgerVars>>

(* After a rollback, or one that came too late: resolveAdopted tries       *)
(* again, and counts; resolveVersion starts a new resolveAdopted; the      *)
(* user's rollback goes on from what it wrote, or gives up.                *)
Again(h) == host' = [host EXCEPT ![h] = [Quiet EXCEPT !.job = host[h].job, !.at = "chain",
                       !.tries = IF host[h].why = "load" THEN host[h].tries + 1 ELSE 0]]
(* Mutant: a loser compares again with the tail it has seen. *)
TooLateForGood(h) == IF host[h].why = "manual" THEN Done(h) ELSE Goto(h, "check")
TooLate(h) == IF host[h].why = "manual" THEN Done(h) ELSE Again(h)
RolledBack(h, base) ==
  IF host[h].why = "manual" /\ base.version # host[h].version
  THEN host' = [host EXCEPT ![h].at = "check", ![h].base = base, ![h].rev = NoRevision]
  ELSE Again(h)
-----------------------------------------------------------------------------
(* commitActivation: the tail must be the one that was looked at; then the *)
(* file is published under the next number, unless there is one.           *)
UsedDecisions == decisions \cup {chain[i].rev.decision : i \in DOMAIN chain}
  \cup {host[h].base.digest : h \in Hosts} \cup {host[h].rev.decision : h \in Hosts}
FreshDecision == CHOOSE d \in 1..Cardinality(UsedDecisions) + 1 : d \notin UsedDecisions

RollbackRevision(h, current) ==
  [number |-> current.revision + 1, previous |-> current.digest, from |-> current.version,
   version |-> RollbackTarget(current), type |-> "rollback",
   trigger |-> IF host[h].why = "manual" THEN "manual" ELSE "load-failure", decision |-> FreshDecision]

(* Mutant: what is rolled back is the tail, whatever tail was judged. *)
CheckTailUnseen(h) ==
  /\ At(h, "check")
  /\ IF Problem \/ Len(Adoption.stack) = 1 THEN Done(h)
     ELSE host' = [host EXCEPT ![h].at = "publish", ![h].rev = RollbackRevision(h, Adoption)]
  /\ UNCHANGED <<files, sessions, running, jobs, faults, ledgerVars>>
CheckTail(h) ==
  /\ At(h, "check")
  /\ IF Problem THEN Done(h)
     ELSE IF Adoption.digest # host[h].base.digest THEN TooLate(h)
     ELSE host' = [host EXCEPT ![h].at = "publish", ![h].rev = RollbackRevision(h, Adoption)]
  /\ UNCHANGED <<files, sessions, running, jobs, faults, ledgerVars>>

(* Mutant: the file is written over one that has the number. *)
PublishOver(h) ==
  /\ At(h, "publish")
  /\ chain' = [n \in 1..host[h].rev.number |->
                IF n = host[h].rev.number THEN File(host[h].rev, After(n - 1)) ELSE chain[n]]
  /\ Goto(h, "decide")
  /\ UNCHANGED <<bundle, decisions, sessions, running, jobs, faults, ledgerVars>>
Publish(h) ==
  /\ At(h, "publish")
  /\ IF host[h].rev.number <= Len(chain)
     THEN TooLate(h) /\ UNCHANGED chain
     ELSE /\ chain' = Append(chain, File(host[h].rev, After(Len(chain))))
          /\ Goto(h, "decide")
  /\ UNCHANGED <<bundle, decisions, sessions, running, jobs, faults, ledgerVars>>

(* publishDecision, then onDecision: the record in the ledger. *)
PublishDecision(h) ==
  /\ At(h, "decide")
  /\ decisions' = decisions \cup {host[h].rev.decision}
  /\ StartAppend(h, host[h].rev.decision)
  /\ Goto(h, "ledger")
  /\ UNCHANGED <<bundle, chain, sessions, running, jobs, faults, ledger, accepted, excused>>

AppendLedger(h) ==
  /\ At(h, "ledger") /\ AppendStep(h)
  /\ IF pen'[h] = Idle THEN RolledBack(h, Advance(host[h].base, host[h].rev)) ELSE UNCHANGED host
  /\ UNCHANGED <<files, sessions, running, jobs>>
-----------------------------------------------------------------------------
(* The kernel: create writes the version into session.start, resume keeps  *)
(* the recorded one while it is usable and records the other one it takes; *)
(* the agent is attached to what was recorded, or to the baseline, with a  *)
(* record of its own.                                                      *)
Verify(h) ==
  /\ At(h, "verify")
  /\ IF Usable(Last(sessions[h]))
     THEN host' = [host EXCEPT ![h].at = "attach", ![h].version = Last(sessions[h])]
     ELSE Goto(h, "chain")
  /\ UNCHANGED <<files, sessions, running, jobs, faults, ledgerVars>>

RecordVersion(h) ==
  /\ At(h, "record")
  /\ IF host[h].job \in {"create", "resume"}
     THEN /\ sessions' = [sessions EXCEPT ![h] = Append(@, host[h].version)]
          /\ Goto(h, "attach")
     ELSE Done(h) /\ UNCHANGED sessions
  /\ UNCHANGED <<files, running, jobs, faults, ledgerVars>>

(* A usable bundle may fail too: a tool of its name is there already, or a  *)
(* plugin cannot be imported.                                              *)
Attach(h) ==
  /\ At(h, "attach")
  /\ \/ Usable(host[h].version) /\ running' = [running EXCEPT ![h] = host[h].version] /\ Done(h)
     \/ host[h].version # Baseline /\ Goto(h, "fallback") /\ UNCHANGED running
  /\ UNCHANGED <<files, sessions, jobs, faults, ledgerVars>>

(* Mutant: the failed load is not recorded. *)
RecordLoadFailureSilently(h) ==
  /\ At(h, "fallback")
  /\ host' = [host EXCEPT ![h].at = "attach", ![h].version = Baseline]
  /\ UNCHANGED <<files, sessions, running, jobs, faults, ledgerVars>>
RecordLoadFailure(h) ==
  /\ At(h, "fallback")
  /\ sessions' = [sessions EXCEPT ![h] = Append(@, Baseline)]
  /\ host' = [host EXCEPT ![h].at = "attach", ![h].version = Baseline]
  /\ UNCHANGED <<files, running, jobs, faults, ledgerVars>>
-----------------------------------------------------------------------------
(* A process dies, a bundle or a file of the chain is damaged on the disk, *)
(* and a person repairs the chain while nothing else goes on: the file is  *)
(* restored, or, if it is the last one, removed.                           *)
Die(h) ==
  /\ faults < MaxFaults /\ (At(h, "idle") => running[h] # None)
  /\ faults' = faults + 1
  /\ running' = [running EXCEPT ![h] = None]
  /\ Done(h) /\ WriterDies(h)
  /\ UNCHANGED <<files, sessions, jobs>>

DamageBundle(v) ==
  /\ bundle[v] # "damaged" /\ faults < MaxFaults
  /\ faults' = faults + 1
  /\ bundle' = [bundle EXCEPT ![v] = "damaged"]
  /\ UNCHANGED <<chain, decisions, host, sessions, running, jobs, ledgerVars>>

DamageChain(n) ==
  /\ chain[n].readable /\ faults < MaxFaults
  /\ faults' = faults + 1
  /\ chain' = [chain EXCEPT ![n].readable = FALSE]
  /\ UNCHANGED <<bundle, decisions, host, sessions, running, jobs, ledgerVars>>

RepairChain(n) ==
  /\ ~chain[n].readable /\ \A h \in Hosts : At(h, "idle")
  /\ \/ chain' = [chain EXCEPT ![n].readable = TRUE]
     \/ n = Len(chain) /\ chain' = Front(chain)
  /\ UNCHANGED <<bundle, decisions, host, sessions, running, jobs, faults, ledgerVars>>

Step(h) ==
  \/ ReadChain(h) \/ JudgeTail(h)
  \/ CheckTail(h) \/ Publish(h) \/ PublishDecision(h) \/ AppendLedger(h)
  \/ Verify(h) \/ RecordVersion(h) \/ Attach(h) \/ RecordLoadFailure(h)

Next ==
  \/ \E h \in Hosts : Step(h) \/ CreateSession(h) \/ ResumeSession(h) \/ ViewCapabilities(h)
                      \/ AskRollback(h) \/ CloseSession(h) \/ Die(h)
  \/ \E v \in Versions : DamageBundle(v)
  \/ \E n \in DOMAIN chain : DamageChain(n) \/ RepairChain(n)

Spec == Init /\ [][Next]_vars
(* A process that runs goes on with what it has begun. *)
FairSpec == Spec /\ \A h \in Hosts : WF_vars(Step(h))
-----------------------------------------------------------------------------
(* The type invariant, and the chain a reader accepts: with every file     *)
(* readable it has no problem, so a race between processes that roll back  *)
(* never damages it (commitActivation, publishExclusive).                  *)
CapabilitiesInv ==
  /\ \A h \in Hosts : host[h].tries \in 0..MaxAttempts /\ running[h] \in Versions \cup {Baseline, None}
  /\ (\A n \in DOMAIN chain : chain[n].readable) => ~Problem
  /\ \A i, j \in DOMAIN chain : i # j => chain[i].rev.decision # chain[j].rev.decision

(* Only what was meant to be rolled back is: a version that a process      *)
(* rolled back at its own initiative does not pass its checks, however     *)
(* many processes found it so at once; a rollback of the user does not go  *)
(* below the version he asked for (CapabilityStore.rollback, rollback of   *)
(* sdk/capabilities.ts).                                                   *)
RollbacksAreMeant ==
  /\ \A n \in DOMAIN chain : chain[n].rev.trigger = "load-failure" => ~Usable(chain[n].rev.from)
  /\ \A h \in Hosts : host[h].at \in {"decide", "ledger"} /\ host[h].why = "manual" =>
       host[h].version \in ToSet(Advance(host[h].base, host[h].rev).stack)

(* A session is opened on the adopted version: what resolveVersion settles *)
(* on is the tail of the chain, unless the tail has moved since it was     *)
(* read, or the chain was damaged then.  From there on the agent of an     *)
(* open session runs on the version that its session recorded last,        *)
(* through failed loads, crashes and resumes (docs/spec/data-formats.md on *)
(* session.start.capabilityVersion).                                       *)
SessionsOnAdopted == \A h \in Hosts :
  /\ At(h, "record") /\ host[h].base = Adoption /\ ~host[h].problem => host[h].version = Adoption.version
  /\ running[h] # None => running[h] = Last(sessions[h])

(* Every opening, view and rollback ends, whatever the others do: each     *)
(* process is idle again and again.                                        *)
JobsEnd == \A h \in Hosts : []<>At(h, "idle")
=============================================================================
