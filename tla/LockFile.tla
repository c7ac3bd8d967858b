------------------------------ MODULE LockFile ------------------------------
(***************************************************************************)
(* The single-writer lock of a session: sessions/<id>/.lock, taken, taken  *)
(* over and released by the file operations of                             *)
(* src/packages/session/src/lock.ts.                                       *)
(*                                                                         *)
(* A process is one incarnation: once dead it stays dead, and a later      *)
(* process may get its pid.  Each awaited file operation is one step, so   *)
(* other processes run, die or change the files in between.  A file is     *)
(* "old" when its mtime is more than ABANDONED_LOCK_MS in the past; files  *)
(* of a live process that is in the middle of writing one do not get old   *)
(* (no process stalls for ten seconds between two file operations).        *)
(***************************************************************************)
EXTENDS Naturals, FiniteSets

CONSTANTS
  Procs,         \* the processes that use the session
  None,          \* "no process", "no file"
  Empty,         \* the text of a lock file that was created and not yet written
  Envs,          \* the environments a behaviour may run in
  MaxAttempts    \* rounds of acquireLockFile's loop (5 in the code)

VARIABLES
  pc,       \* where each process is in acquireLockFile / releaseLockFile
  lock,     \* the file .lock
  guard,    \* the file .lock.takeover
  saw,      \* what readExisting returned to each process: text and age
  attempt,  \* the loop counter of each process
  alone,    \* whether no other process was active since this acquire began
  env       \* the environment, fixed by Init

vars == <<pc, lock, guard, saw, attempt, alone, env>>

GuardLabels == {"compare", "unlink", "unguard"}
OwnLabels   == {"held", "releaseUnlink"}
Acquiring   == {"create", "write", "read", "statFirst", "textFirst", "judge",
                "guard", "guardStat", "guardUnlink"} \union GuardLabels
Labels      == {"unborn", "out", "refused", "dead"} \union Acquiring \union OwnLabels

(* late: the processes that start later, when their pid is free; crash:    *)
(* the places a process may die at; ageing: the files that can grow old;   *)
(* torn: whether the readFile and the stat of readExisting can see two     *)
(* different files; started: whether the start time of a pid is known.     *)
Env == [host : [Procs -> Nat], pid : [Procs -> Nat], late : SUBSET Procs, crash : SUBSET Labels,
        ageing : SUBSET {"lock", "guard"}, torn : BOOLEAN, started : BOOLEAN]

ASSUME ProcsAssumption == None \notin Procs /\ Empty \notin Procs /\ None # Empty
ASSUME EnvsAssumption == Envs \subseteq Env
(* Processes that are there from the start have pids of their own. *)
ASSUME PidsAssumption ==
  \A e \in Envs : \A p, q \in Procs \ e.late :
    p # q => e.host[p] # e.host[q] \/ e.pid[p] # e.pid[q]
ASSUME AttemptsAssumption == MaxAttempts \in Nat

NoFile == [by |-> None, written |-> FALSE, old |-> FALSE]
Created(p) == [by |-> p, written |-> FALSE, old |-> FALSE]
Exists(file) == file.by # None
TextOf(file) == IF file.written THEN file.by ELSE Empty

Unread == [text |-> None, old |-> FALSE]
Alive(p) == pc[p] \notin {"unborn", "dead"}
Active(p) == pc[p] \in Acquiring \union OwnLabels

SameHost(p, q) == env.host[p] = env.host[q]
SamePid(p, q) == SameHost(p, q) /\ env.pid[p] = env.pid[q]
-----------------------------------------------------------------------------
(* isAlive(h.pid), and pidReused(h): a live process has the pid of h but   *)
(* is not h.                                                               *)
PidAlive(h) == \E q \in Procs : Alive(q) /\ SamePid(q, h)
PidReused(h) == env.started /\ \E q \in Procs \ {h} : Alive(q) /\ SamePid(q, h)

(* Mutant: the pid is looked up on this host whatever host the lock names. *)
StaleAnyHost(p, text, old) ==
  IF text = Empty THEN old
  ELSE ~\E q \in Procs : Alive(q) /\ SameHost(p, q) /\ env.pid[q] = env.pid[text]

Stale(p, text, old) ==
  IF text = Empty THEN old
  ELSE SameHost(p, text) /\ (~PidAlive(text) \/ PidReused(text))

Goto(p, label) == pc' = [pc EXCEPT ![p] = label]

(* lockedError; what readExisting returned goes out of scope. *)
Refuse(p) == Goto(p, "refused") /\ saw' = [saw EXCEPT ![p] = Unread]

(* Mutants: the loop ends a round early, or never. *)
NextAttemptShort(p) ==
  /\ attempt' = [attempt EXCEPT ![p] = @ + 1]
  /\ saw' = [saw EXCEPT ![p] = Unread]
  /\ Goto(p, IF attempt[p] + 2 < MaxAttempts THEN "create" ELSE "refused")

NextAttemptForever(p) ==
  Goto(p, "create") /\ saw' = [saw EXCEPT ![p] = Unread] /\ UNCHANGED attempt

(* The end of a round: the next one, or lockedError after the last. *)
NextAttempt(p) ==
  /\ attempt' = [attempt EXCEPT ![p] = @ + 1]
  /\ saw' = [saw EXCEPT ![p] = Unread]
  /\ Goto(p, IF attempt[p] + 1 < MaxAttempts THEN "create" ELSE "refused")
-----------------------------------------------------------------------------
Init ==
  /\ env \in Envs
  /\ pc = [p \in Procs |-> IF p \in env.late THEN "unborn" ELSE "out"]
  /\ lock = NoFile
  /\ guard = NoFile
  /\ saw = [p \in Procs |-> Unread]
  /\ attempt = [p \in Procs |-> 0]
  /\ alone = [p \in Procs |-> FALSE]

(* A process starts; a pid belongs to one live process of a host. *)
Start(p) ==
  /\ pc[p] = "unborn"
  /\ \A q \in Procs : Alive(q) => ~SamePid(p, q)
  /\ Goto(p, "out")
  /\ UNCHANGED <<lock, guard, saw, attempt, alone, env>>

(* acquireLockFile is called (again after it threw or after a release). *)
Acquire(p) ==
  /\ pc[p] \in {"out", "refused"}
  /\ Goto(p, "create")
  /\ attempt' = [attempt EXCEPT ![p] = 0]
  /\ alone' = [q \in Procs |-> q = p /\ \A r \in Procs \ {p} : ~Active(r)]
  /\ UNCHANGED <<lock, guard, saw, env>>

(* createExclusive(path): open with wx. *)
Create(p) ==
  /\ pc[p] = "create"
  /\ IF Exists(lock)
       THEN Goto(p, "read") /\ UNCHANGED lock
       ELSE Goto(p, "write") /\ lock' = Created(p)
  /\ UNCHANGED <<guard, saw, attempt, alone, env>>

(* ... and its write, which reaches this process's own file even when the  *)
(* name now belongs to another.                                            *)
Write(p) ==
  /\ pc[p] = "write"
  /\ Goto(p, "held")
  /\ lock' = IF lock.by = p THEN [Created(p) EXCEPT !.written = TRUE] ELSE lock
  /\ UNCHANGED <<guard, saw, attempt, alone, env>>

(* The write fails: whatever has the name is unlinked, the error thrown. *)
WriteFails(p) ==
  /\ pc[p] = "write"
  /\ Goto(p, "out")
  /\ lock' = NoFile
  /\ UNCHANGED <<guard, saw, attempt, alone, env>>

(* readExisting, both files operations seeing the same file. *)
Read(p) ==
  /\ pc[p] = "read"
  /\ IF Exists(lock)
       THEN /\ saw' = [saw EXCEPT ![p] = [text |-> TextOf(lock), old |-> lock.old]]
            /\ Goto(p, "judge")
            /\ UNCHANGED attempt
       ELSE NextAttempt(p)
  /\ UNCHANGED <<lock, guard, alone, env>>

(* Promise.all starts them together and they may end in either order: the  *)
(* first of the two, then the second.  ENOENT in either means "no file".   *)
ReadOne(p) ==
  /\ pc[p] = "read" /\ env.torn
  /\ IF Exists(lock)
       THEN /\ \/ /\ saw' = [saw EXCEPT ![p].old = lock.old]
                  /\ Goto(p, "statFirst")
               \/ /\ saw' = [saw EXCEPT ![p].text = TextOf(lock)]
                  /\ Goto(p, "textFirst")
            /\ UNCHANGED attempt
       ELSE NextAttempt(p)
  /\ UNCHANGED <<lock, guard, alone, env>>

ReadOther(p) ==
  /\ pc[p] \in {"statFirst", "textFirst"}
  /\ IF Exists(lock)
       THEN /\ saw' = IF pc[p] = "statFirst"
                        THEN [saw EXCEPT ![p].text = TextOf(lock)]
                        ELSE [saw EXCEPT ![p].old = lock.old]
            /\ Goto(p, "judge")
            /\ UNCHANGED attempt
       ELSE NextAttempt(p)
  /\ UNCHANGED <<lock, guard, alone, env>>

(* Not stale: lockedError.  Stale: take it over. *)
Judge(p) ==
  /\ pc[p] = "judge"
  /\ IF Stale(p, saw[p].text, saw[p].old)
       THEN Goto(p, "guard") /\ UNCHANGED saw
       ELSE Refuse(p)
  /\ UNCHANGED <<lock, guard, attempt, alone, env>>
-----------------------------------------------------------------------------
(* Mutant: an existing guard is overwritten instead of respected. *)
TakeGuardAnyway(p) ==
  /\ pc[p] = "guard"
  /\ Goto(p, "compare")
  /\ guard' = Created(p)
  /\ UNCHANGED <<lock, saw, attempt, alone, env>>

(* takeOver: create the guard exclusively. *)
TakeGuard(p) ==
  /\ pc[p] = "guard"
  /\ IF Exists(guard)
       THEN Goto(p, "guardStat") /\ UNCHANGED guard
       ELSE Goto(p, "compare") /\ guard' = Created(p)
  /\ UNCHANGED <<lock, saw, attempt, alone, env>>

(* The guard is taken: abandoned when it is old, otherwise lockedError. *)
GuardStat(p) ==
  /\ pc[p] = "guardStat"
  /\ IF Exists(guard) /\ guard.old
       THEN Goto(p, "guardUnlink") /\ UNCHANGED saw
       ELSE Refuse(p)
  /\ UNCHANGED <<lock, guard, attempt, alone, env>>

GuardUnlink(p) ==
  /\ pc[p] = "guardUnlink"
  /\ guard' = NoFile
  /\ NextAttempt(p)
  /\ UNCHANGED <<lock, alone, env>>

(* Mutant: the lock is not read again under the guard. *)
CompareNothing(p) ==
  /\ pc[p] = "compare"
  /\ Goto(p, "unlink")
  /\ UNCHANGED <<lock, guard, saw, attempt, alone, env>>

(* The lock is removed only when it still has the text judged stale. *)
Compare(p) ==
  /\ pc[p] = "compare"
  /\ Goto(p, IF Exists(lock) /\ TextOf(lock) = saw[p].text THEN "unlink" ELSE "unguard")
  /\ UNCHANGED <<lock, guard, saw, attempt, alone, env>>

Unlink(p) ==
  /\ pc[p] = "unlink"
  /\ lock' = NoFile
  /\ Goto(p, "unguard")
  /\ UNCHANGED <<guard, saw, attempt, alone, env>>

Unguard(p) ==
  /\ pc[p] = "unguard"
  /\ guard' = NoFile
  /\ NextAttempt(p)
  /\ UNCHANGED <<lock, alone, env>>
-----------------------------------------------------------------------------
(* releaseLockFile: read, and unlink only this process's own lock. *)
Release(p) ==
  /\ pc[p] = "held"
  /\ Goto(p, IF Exists(lock) /\ TextOf(lock) = p THEN "releaseUnlink" ELSE "out")
  /\ UNCHANGED <<lock, guard, saw, attempt, alone, env>>

ReleaseUnlink(p) ==
  /\ pc[p] = "releaseUnlink"
  /\ lock' = NoFile
  /\ Goto(p, "out")
  /\ UNCHANGED <<guard, saw, attempt, alone, env>>
-----------------------------------------------------------------------------
(* The process dies where the environment lets it. *)
Die(p) ==
  /\ Alive(p) /\ pc[p] \in env.crash
  /\ Goto(p, "dead")
  /\ UNCHANGED <<lock, guard, saw, attempt, alone, env>>

(* Ten seconds pass over a file that no live process is writing. *)
AgeLock ==
  /\ "lock" \in env.ageing
  /\ Exists(lock) /\ ~lock.old
  /\ lock.written \/ ~Alive(lock.by)
  /\ lock' = [lock EXCEPT !.old = TRUE]
  /\ UNCHANGED <<pc, guard, saw, attempt, alone, env>>

AgeGuard ==
  /\ "guard" \in env.ageing
  /\ Exists(guard) /\ ~guard.old
  /\ ~Alive(guard.by)
  /\ guard' = [guard EXCEPT !.old = TRUE]
  /\ UNCHANGED <<pc, lock, saw, attempt, alone, env>>

(* A step of acquireLockFile: it never waits for another process. *)
AcquireStep(p) ==
  \/ Create(p) \/ Write(p) \/ WriteFails(p)
  \/ Read(p) \/ ReadOne(p) \/ ReadOther(p) \/ Judge(p)
  \/ TakeGuard(p) \/ GuardStat(p) \/ GuardUnlink(p)
  \/ Compare(p) \/ Unlink(p) \/ Unguard(p)

Step(p) ==
  \/ Start(p) \/ Acquire(p) \/ AcquireStep(p)
  \/ Release(p) \/ ReleaseUnlink(p)
  \/ Die(p)

Next == AgeLock \/ AgeGuard \/ \E p \in Procs : Step(p)

Spec == Init /\ [][Next]_vars

(* Each await of a live process is answered. *)
FairSpec == Spec /\ \A p \in Procs : WF_vars(AcquireStep(p))
-----------------------------------------------------------------------------
SeenType == [text : Procs \union {None, Empty}, old : BOOLEAN]
FileType == [by : Procs \union {None}, written : BOOLEAN, old : BOOLEAN]

TypeOK ==
  /\ pc \in [Procs -> Labels]
  /\ lock \in FileType
  /\ guard \in FileType
  /\ saw \in [Procs -> SeenType]
  /\ attempt \in [Procs -> Nat]
  /\ alone \in [Procs -> BOOLEAN]
  /\ env \in Envs

(* At most one process has the session open for writing: the header of     *)
(* lock.ts ("two processes that both see the same stale lock cannot both   *)
(* win") and data-formats.md.                                              *)
MutualExclusion ==
  \A p, q \in Procs : pc[p] \in OwnLabels /\ pc[q] \in OwnLabels => p = q

(* An acquire that no other process disturbed is refused only by something *)
(* that a dead process left and that cannot be judged abandoned yet (a     *)
(* file that is not old, a foreign host, a reused pid), never by its own   *)
(* stale lock and guard or by running out of rounds.                       *)
UndisturbedRefusedOnlyByLeftover ==
  [][\A p \in Procs : pc[p] # "refused" /\ pc'[p] = "refused" /\ alone[p] =>
       \/ (Exists(guard) /\ ~guard.old)'
       \/ (Exists(lock) /\ ~Stale(p, TextOf(lock), FALSE))']_vars

(* Every acquire ends: taken, refused, or thrown. *)
AcquireEnds == \A p \in Procs : pc[p] = "create" ~> pc[p] \notin Acquiring

-----------------------------------------------------------------------------
(* What makes mutual exclusion inductive. *)

(* The environments in which the lock is safe.  A file with no text can be *)
(* judged abandoned only if it can get old, so then nothing may die while  *)
(* writing one and the text and the age must belong to one file; and a     *)
(* guard can be judged abandoned only if it can get old, so then nothing   *)
(* may die holding one.  Each condition is needed: see the README.         *)
SoundEnv(e) ==
  /\ "lock" \in e.ageing => "write" \notin e.crash /\ ~e.torn
  /\ "guard" \in e.ageing => e.crash \intersect GuardLabels = {}

(* A pid of a host belongs to one live process. *)
PidsAreUnique ==
  \A p, q \in Procs : Alive(p) /\ Alive(q) /\ SamePid(p, q) => p = q

(* The lock file of a live writer stays on disk, with the writer's own     *)
(* text, until the writer itself removes it: nobody's takeover, failed     *)
(* write or late unlink removes the file of a process that relies on it.   *)
WriterKeepsFile ==
  \A p \in Procs :
    /\ pc[p] = "write" => lock.by = p /\ ~lock.written
    /\ pc[p] \in OwnLabels => lock.by = p /\ lock.written

(* A lock file is its live writer's or was left by a dead process, and one *)
(* with no text is not old.                                                *)
LockFileHasOrigin ==
  Exists(lock) =>
    /\ pc[lock.by] \in {"write", "dead"} \union OwnLabels
    /\ ~lock.written => ~lock.old /\ ("lock" \in env.ageing => pc[lock.by] = "write")

(* One process at a time is between taking and removing the guard, and no  *)
(* guard is ever judged abandoned.                                         *)
GuardIsExclusive ==
  /\ \A p \in Procs : pc[p] \in GuardLabels => guard.by = p
  /\ Exists(guard) => pc[guard.by] \in GuardLabels \union {"dead"}
  /\ Exists(guard) /\ "guard" \in env.ageing => pc[guard.by] # "dead"
  /\ ~guard.old
  /\ \A p \in Procs : pc[p] # "guardUnlink"

(* What a process read before it takes over: an old file has a text, and   *)
(* the text judged stale names a dead process.                             *)
ReadIsSound ==
  \A p \in Procs :
    /\ saw[p].text \in Procs => pc[saw[p].text] # "unborn"
    /\ "lock" \notin env.ageing => ~saw[p].old
    /\ pc[p] \in {"statFirst", "textFirst"} => env.torn
    /\ pc[p] = "textFirst" => saw[p].text # None
    /\ pc[p] = "judge" => saw[p].text # None /\ (saw[p].text = Empty => ~saw[p].old)
    /\ pc[p] \in {"guard", "guardStat"} \union GuardLabels =>
         saw[p].text \in Procs /\ pc[saw[p].text] = "dead"
    /\ pc[p] = "unlink" => lock.by = saw[p].text

SoundLock ==
  /\ TypeOK
  /\ SoundEnv(env)
  /\ PidsAreUnique
  /\ "lock" \notin env.ageing => ~lock.old
  /\ WriterKeepsFile
  /\ LockFileHasOrigin
  /\ GuardIsExclusive
  /\ ReadIsSound

LockInv == SoundEnv(env) => SoundLock
-----------------------------------------------------------------------------
(* The abstract writer: the process that relies on the lock. *)
Writer == IF \E p \in Procs : pc[p] \in OwnLabels
            THEN CHOOSE p \in Procs : pc[p] \in OwnLabels
            ELSE None

Promise == INSTANCE SingleWriter WITH writer <- Writer
SingleWriterSpec == Promise!Spec
=============================================================================
