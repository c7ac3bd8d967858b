-------------------------- MODULE LockFile_proofs --------------------------
(***************************************************************************)
(* Mutual exclusion of the session lock, for any set of processes and any  *)
(* sound environments, and what an acquire that nobody disturbs may be     *)
(* refused by.                                                             *)
(***************************************************************************)
EXTENDS LockFile, TLAPS

(* A text is judged stale only when its process is dead: isAlive and       *)
(* pidReused together never take a live writer for an abandoned one.       *)
LEMMA StaleIsDead ==
  ASSUME TypeOK, PidsAreUnique,
         NEW p \in Procs, NEW h \in Procs, NEW old,
         pc[h] # "unborn", Stale(p, h, old)
  PROVE  pc[h] = "dead"
<1>1. h # Empty
  BY ProcsAssumption
<1>2. SamePid(h, h)
  BY DEF SamePid, SameHost
<1>3. ASSUME Alive(h) PROVE FALSE
  <2>1. PidAlive(h)
    BY <1>2, <1>3 DEF PidAlive
  <2>2. PidReused(h)
    BY <1>1, <2>1 DEF Stale
  <2>3. PICK q \in Procs \ {h} : Alive(q) /\ SamePid(q, h)
    BY <2>2 DEF PidReused
  <2> QED BY <1>3, <2>3 DEF PidsAreUnique
<1> QED BY <1>3 DEF Alive

(* The values that files and readers take have their types. *)
LEMMA FileTypes ==
  /\ NoFile \in FileType
  /\ \A p \in Procs : Created(p) \in FileType
  /\ Unread \in SeenType
  /\ \A f \in FileType : /\ TextOf(f) \in Procs \union {None, Empty}
                        /\ f.old \in BOOLEAN
                        /\ [text |-> TextOf(f), old |-> f.old] \in SeenType
  /\ \A r \in SeenType, t \in Procs \union {None, Empty}, o \in BOOLEAN :
       [r EXCEPT !.text = t] \in SeenType /\ [r EXCEPT !.old = o] \in SeenType
BY DEF FileType, SeenType, NoFile, Created, Unread, TextOf

(* The initial state is sound when its environment is. *)
THEOREM LockInitially ==
  ASSUME Init, SoundEnv(env)
  PROVE  SoundLock
<1> USE ProcsAssumption, EnvsAssumption DEF Init
<1>1. env \in Env
  OBVIOUS
<1>2. TypeOK
  BY <1>1 DEF TypeOK, Labels, Acquiring, OwnLabels, GuardLabels, FileType, SeenType, NoFile, Unread
<1>3. SoundEnv(env)
  OBVIOUS
<1>4. PidsAreUnique
  BY <1>1, PidsAssumption DEF PidsAreUnique, Alive, SamePid, SameHost
<1>5. WriterKeepsFile /\ LockFileHasOrigin /\ GuardIsExclusive /\ ReadIsSound /\ ~lock.old
  BY DEF WriterKeepsFile, LockFileHasOrigin, GuardIsExclusive, ReadIsSound, NoFile, Exists,
         Unread, OwnLabels, GuardLabels
<1> QED BY <1>2, <1>3, <1>4, <1>5 DEF SoundLock

(* A process starts where its pid is free. *)
LEMMA StartKeeps ==
  ASSUME SoundLock, NEW p \in Procs, Start(p)
  PROVE  SoundLock'
<1> USE ProcsAssumption DEF SoundLock, TypeOK, Start, Goto
<1>1. TypeOK'
  BY DEF FileType, SeenType, NoFile, Created, Exists, TextOf, Unread, Labels, Acquiring, OwnLabels, GuardLabels
<1>2. PidsAreUnique'
  BY DEF PidsAreUnique, Alive, SamePid, SameHost
<1>3. WriterKeepsFile'
  BY DEF FileType, SeenType, NoFile, Created, Exists, TextOf, OwnLabels, GuardLabels,
         WriterKeepsFile, LockFileHasOrigin, GuardIsExclusive, ReadIsSound
<1>4. LockFileHasOrigin'
  BY DEF FileType, SeenType, NoFile, Created, Exists, TextOf, OwnLabels, GuardLabels, SoundEnv,
         WriterKeepsFile, LockFileHasOrigin, ReadIsSound
<1>5. GuardIsExclusive'
  BY DEF FileType, SeenType, NoFile, Created, Exists, TextOf, GuardLabels, SoundEnv, GuardIsExclusive
<1>6. ReadIsSound'
  BY DEF FileType, SeenType, NoFile, Created, Exists, TextOf, Unread, OwnLabels, GuardLabels, SoundEnv,
         WriterKeepsFile, LockFileHasOrigin, GuardIsExclusive, ReadIsSound
<1>7. SoundEnv(env)' /\ ("lock" \notin env.ageing => ~lock.old)'
  BY DEF NoFile, Created
<1> QED BY <1>1, <1>2, <1>3, <1>4, <1>5, <1>6, <1>7

(* acquireLockFile is called: no file changes. *)
LEMMA AcquireKeeps ==
  ASSUME SoundLock, NEW p \in Procs, Acquire(p)
  PROVE  SoundLock'
<1> USE ProcsAssumption DEF SoundLock, TypeOK, Acquire, Goto
<1>1. TypeOK'
  BY DEF FileType, SeenType, NoFile, Created, Exists, TextOf, Unread, Labels, Acquiring, OwnLabels, GuardLabels
<1>2. PidsAreUnique'
  BY DEF PidsAreUnique, Alive, SamePid, SameHost
<1>3. WriterKeepsFile'
  BY DEF FileType, SeenType, NoFile, Created, Exists, TextOf, OwnLabels, GuardLabels,
         WriterKeepsFile, LockFileHasOrigin, GuardIsExclusive, ReadIsSound
<1>4. LockFileHasOrigin'
  BY DEF FileType, SeenType, NoFile, Created, Exists, TextOf, OwnLabels, GuardLabels, SoundEnv,
         WriterKeepsFile, LockFileHasOrigin, ReadIsSound
<1>5. GuardIsExclusive'
  BY DEF FileType, SeenType, NoFile, Created, Exists, TextOf, GuardLabels, SoundEnv, GuardIsExclusive
<1>6. ReadIsSound'
  BY DEF FileType, SeenType, NoFile, Created, Exists, TextOf, Unread, OwnLabels, GuardLabels, SoundEnv,
         WriterKeepsFile, LockFileHasOrigin, GuardIsExclusive, ReadIsSound
<1>7. SoundEnv(env)' /\ ("lock" \notin env.ageing => ~lock.old)'
  BY DEF NoFile, Created
<1> QED BY <1>1, <1>2, <1>3, <1>4, <1>5, <1>6, <1>7

(* The lock file is created only where there was none, so no writer loses its file to it. *)
LEMMA CreateKeeps ==
  ASSUME SoundLock, NEW p \in Procs, Create(p)
  PROVE  SoundLock'
<1> USE ProcsAssumption DEF SoundLock, TypeOK, Create, Goto
<1>1. TypeOK'
  <2>1. pc' \in [Procs -> Labels]
    BY DEF Labels, Acquiring, OwnLabels, GuardLabels
  <2>2. lock' \in FileType /\ guard' \in FileType
    BY FileTypes
  <2>3. saw' \in [Procs -> SeenType]
    BY FileTypes
  <2>4. attempt' \in [Procs -> Nat] /\ alone' \in [Procs -> BOOLEAN] /\ env' \in Envs
    OBVIOUS
  <2> QED BY <2>1, <2>2, <2>3, <2>4
<1>2. PidsAreUnique'
  BY DEF PidsAreUnique, Alive, SamePid, SameHost
<1>3. WriterKeepsFile'
  BY DEF FileType, SeenType, NoFile, Created, Exists, TextOf, OwnLabels, GuardLabels,
         WriterKeepsFile, LockFileHasOrigin, GuardIsExclusive, ReadIsSound
<1>4. LockFileHasOrigin'
  BY DEF FileType, SeenType, NoFile, Created, Exists, TextOf, OwnLabels, GuardLabels, SoundEnv,
         WriterKeepsFile, LockFileHasOrigin, ReadIsSound
<1>5. GuardIsExclusive'
  BY DEF FileType, SeenType, NoFile, Created, Exists, TextOf, GuardLabels, SoundEnv, GuardIsExclusive
<1>6. ReadIsSound'
  BY DEF FileType, SeenType, NoFile, Created, Exists, TextOf, Unread, OwnLabels, GuardLabels, SoundEnv,
         WriterKeepsFile, LockFileHasOrigin, GuardIsExclusive, ReadIsSound
<1>7. SoundEnv(env)' /\ ("lock" \notin env.ageing => ~lock.old)'
  BY DEF NoFile, Created
<1> QED BY <1>1, <1>2, <1>3, <1>4, <1>5, <1>6, <1>7

(* The writer finds its own file under the name: nobody took a file with no text over. *)
LEMMA WriteKeeps ==
  ASSUME SoundLock, NEW p \in Procs, Write(p)
  PROVE  SoundLock'
<1> USE ProcsAssumption DEF SoundLock, TypeOK, Write, Goto
<1>1. TypeOK'
  BY DEF FileType, SeenType, NoFile, Created, Exists, TextOf, Unread, Labels, Acquiring, OwnLabels, GuardLabels
<1>2. PidsAreUnique'
  BY DEF PidsAreUnique, Alive, SamePid, SameHost
<1>3. WriterKeepsFile'
  BY DEF FileType, SeenType, NoFile, Created, Exists, TextOf, OwnLabels, GuardLabels,
         WriterKeepsFile, LockFileHasOrigin, GuardIsExclusive, ReadIsSound
<1>4. LockFileHasOrigin'
  BY DEF FileType, SeenType, NoFile, Created, Exists, TextOf, OwnLabels, GuardLabels, SoundEnv,
         WriterKeepsFile, LockFileHasOrigin, ReadIsSound
<1>5. GuardIsExclusive'
  BY DEF FileType, SeenType, NoFile, Created, Exists, TextOf, GuardLabels, SoundEnv, GuardIsExclusive
<1>6. ReadIsSound'
  BY DEF FileType, SeenType, NoFile, Created, Exists, TextOf, Unread, OwnLabels, GuardLabels, SoundEnv,
         WriterKeepsFile, LockFileHasOrigin, GuardIsExclusive, ReadIsSound
<1>7. SoundEnv(env)' /\ ("lock" \notin env.ageing => ~lock.old)'
  BY DEF NoFile, Created
<1> QED BY <1>1, <1>2, <1>3, <1>4, <1>5, <1>6, <1>7

(* The unlink after a failed write removes the process's own file. *)
LEMMA WriteFailsKeeps ==
  ASSUME SoundLock, NEW p \in Procs, WriteFails(p)
  PROVE  SoundLock'
<1> USE ProcsAssumption DEF SoundLock, TypeOK, WriteFails, Goto
<1>1. TypeOK'
  BY DEF FileType, SeenType, NoFile, Created, Exists, TextOf, Unread, Labels, Acquiring, OwnLabels, GuardLabels
<1>2. PidsAreUnique'
  BY DEF PidsAreUnique, Alive, SamePid, SameHost
<1>3. WriterKeepsFile'
  BY DEF FileType, SeenType, NoFile, Created, Exists, TextOf, OwnLabels, GuardLabels,
         WriterKeepsFile, LockFileHasOrigin, GuardIsExclusive, ReadIsSound
<1>4. LockFileHasOrigin'
  BY DEF FileType, SeenType, NoFile, Created, Exists, TextOf, OwnLabels, GuardLabels, SoundEnv,
         WriterKeepsFile, LockFileHasOrigin, ReadIsSound
<1>5. GuardIsExclusive'
  BY DEF FileType, SeenType, NoFile, Created, Exists, TextOf, GuardLabels, SoundEnv, GuardIsExclusive
<1>6. ReadIsSound'
  BY DEF FileType, SeenType, NoFile, Created, Exists, TextOf, Unread, OwnLabels, GuardLabels, SoundEnv,
         WriterKeepsFile, LockFileHasOrigin, GuardIsExclusive, ReadIsSound
<1>7. SoundEnv(env)' /\ ("lock" \notin env.ageing => ~lock.old)'
  BY DEF NoFile, Created
<1> QED BY <1>1, <1>2, <1>3, <1>4, <1>5, <1>6, <1>7

(* An old file has a text when text and age are read together. *)
LEMMA ReadKeeps ==
  ASSUME SoundLock, NEW p \in Procs, Read(p)
  PROVE  SoundLock'
<1> USE ProcsAssumption DEF SoundLock, TypeOK, Read, Goto, NextAttempt
<1>1. TypeOK'
  <2>1. pc' \in [Procs -> Labels]
    BY DEF Labels, Acquiring, OwnLabels, GuardLabels
  <2>2. lock' \in FileType /\ guard' \in FileType
    BY FileTypes
  <2>3. saw' \in [Procs -> SeenType]
    BY FileTypes
  <2>4. attempt' \in [Procs -> Nat] /\ alone' \in [Procs -> BOOLEAN] /\ env' \in Envs
    OBVIOUS
  <2> QED BY <2>1, <2>2, <2>3, <2>4
<1>2. PidsAreUnique'
  BY DEF PidsAreUnique, Alive, SamePid, SameHost
<1>3. WriterKeepsFile'
  BY DEF FileType, SeenType, NoFile, Created, Exists, TextOf, OwnLabels, GuardLabels,
         WriterKeepsFile, LockFileHasOrigin, GuardIsExclusive, ReadIsSound
<1>4. LockFileHasOrigin'
  BY DEF FileType, SeenType, NoFile, Created, Exists, TextOf, OwnLabels, GuardLabels, SoundEnv,
         WriterKeepsFile, LockFileHasOrigin, ReadIsSound
<1>5. GuardIsExclusive'
  BY DEF FileType, SeenType, NoFile, Created, Exists, TextOf, GuardLabels, SoundEnv, GuardIsExclusive
<1>6. ReadIsSound'
  BY DEF FileType, SeenType, NoFile, Created, Exists, TextOf, Unread, OwnLabels, GuardLabels, SoundEnv,
         WriterKeepsFile, LockFileHasOrigin, GuardIsExclusive, ReadIsSound
<1>7. SoundEnv(env)' /\ ("lock" \notin env.ageing => ~lock.old)'
  BY DEF NoFile, Created
<1> QED BY <1>1, <1>2, <1>3, <1>4, <1>5, <1>6, <1>7

(* Text and age read apart: sound only because no file gets old then. *)
LEMMA ReadOneKeeps ==
  ASSUME SoundLock, NEW p \in Procs, ReadOne(p)
  PROVE  SoundLock'
<1> USE ProcsAssumption DEF SoundLock, TypeOK, ReadOne, Goto, NextAttempt
<1>1. TypeOK'
  <2>1. pc' \in [Procs -> Labels]
    BY DEF Labels, Acquiring, OwnLabels, GuardLabels
  <2>2. lock' \in FileType /\ guard' \in FileType
    BY FileTypes
  <2>3. saw' \in [Procs -> SeenType]
    <3>1. CASE ~Exists(lock)
      BY <3>1, FileTypes
    <3>2. CASE saw' = [saw EXCEPT ![p].text = TextOf(lock)]
      BY <3>2, FileTypes
    <3>3. CASE saw' = [saw EXCEPT ![p].old = lock.old]
      BY <3>3, FileTypes
    <3> QED BY <3>1, <3>2, <3>3
  <2>4. attempt' \in [Procs -> Nat] /\ alone' \in [Procs -> BOOLEAN] /\ env' \in Envs
    OBVIOUS
  <2> QED BY <2>1, <2>2, <2>3, <2>4
<1>2. PidsAreUnique'
  BY DEF PidsAreUnique, Alive, SamePid, SameHost
<1>3. WriterKeepsFile'
  BY DEF FileType, SeenType, NoFile, Created, Exists, TextOf, OwnLabels, GuardLabels,
         WriterKeepsFile, LockFileHasOrigin, GuardIsExclusive, ReadIsSound
<1>4. LockFileHasOrigin'
  BY DEF FileType, SeenType, NoFile, Created, Exists, TextOf, OwnLabels, GuardLabels, SoundEnv,
         WriterKeepsFile, LockFileHasOrigin, ReadIsSound
<1>5. GuardIsExclusive'
  BY DEF FileType, SeenType, NoFile, Created, Exists, TextOf, GuardLabels, SoundEnv, GuardIsExclusive
<1>6. ReadIsSound'
  BY DEF FileType, SeenType, NoFile, Created, Exists, TextOf, Unread, OwnLabels, GuardLabels, SoundEnv,
         WriterKeepsFile, LockFileHasOrigin, GuardIsExclusive, ReadIsSound
<1>7. SoundEnv(env)' /\ ("lock" \notin env.ageing => ~lock.old)'
  BY DEF NoFile, Created
<1> QED BY <1>1, <1>2, <1>3, <1>4, <1>5, <1>6, <1>7

(* The second of the two, on whatever file has the name by then. *)
LEMMA ReadOtherKeeps ==
  ASSUME SoundLock, NEW p \in Procs, ReadOther(p)
  PROVE  SoundLock'
<1> USE ProcsAssumption DEF SoundLock, TypeOK, ReadOther, Goto, NextAttempt
<1>1. TypeOK'
  <2>1. pc' \in [Procs -> Labels]
    BY DEF Labels, Acquiring, OwnLabels, GuardLabels
  <2>2. lock' \in FileType /\ guard' \in FileType
    BY FileTypes
  <2>3. saw' \in [Procs -> SeenType]
    <3>1. CASE ~Exists(lock)
      BY <3>1, FileTypes
    <3>2. CASE saw' = [saw EXCEPT ![p].text = TextOf(lock)]
      BY <3>2, FileTypes
    <3>3. CASE saw' = [saw EXCEPT ![p].old = lock.old]
      BY <3>3, FileTypes
    <3> QED BY <3>1, <3>2, <3>3
  <2>4. attempt' \in [Procs -> Nat] /\ alone' \in [Procs -> BOOLEAN] /\ env' \in Envs
    OBVIOUS
  <2> QED BY <2>1, <2>2, <2>3, <2>4
<1>2. PidsAreUnique'
  BY DEF PidsAreUnique, Alive, SamePid, SameHost
<1>3. WriterKeepsFile'
  BY DEF FileType, SeenType, NoFile, Created, Exists, TextOf, OwnLabels, GuardLabels,
         WriterKeepsFile, LockFileHasOrigin, GuardIsExclusive, ReadIsSound
<1>4. LockFileHasOrigin'
  BY DEF FileType, SeenType, NoFile, Created, Exists, TextOf, OwnLabels, GuardLabels, SoundEnv,
         WriterKeepsFile, LockFileHasOrigin, ReadIsSound
<1>5. GuardIsExclusive'
  BY DEF FileType, SeenType, NoFile, Created, Exists, TextOf, GuardLabels, SoundEnv, GuardIsExclusive
<1>6. ReadIsSound'
  BY DEF FileType, SeenType, NoFile, Created, Exists, TextOf, Unread, OwnLabels, GuardLabels, SoundEnv,
         WriterKeepsFile, LockFileHasOrigin, GuardIsExclusive, ReadIsSound
<1>7. SoundEnv(env)' /\ ("lock" \notin env.ageing => ~lock.old)'
  BY DEF NoFile, Created
<1> QED BY <1>1, <1>2, <1>3, <1>4, <1>5, <1>6, <1>7

(* Only the lock of a dead process is taken over. *)
LEMMA JudgeKeeps ==
  ASSUME SoundLock, NEW p \in Procs, Judge(p)
  PROVE  SoundLock'
<1> USE ProcsAssumption DEF SoundLock, TypeOK, Judge, Goto, Refuse
<1>1. TypeOK'
  <2>1. pc' \in [Procs -> Labels]
    BY DEF Labels, Acquiring, OwnLabels, GuardLabels
  <2>2. lock' \in FileType /\ guard' \in FileType
    BY FileTypes
  <2>3. saw' \in [Procs -> SeenType]
    BY FileTypes
  <2>4. attempt' \in [Procs -> Nat] /\ alone' \in [Procs -> BOOLEAN] /\ env' \in Envs
    OBVIOUS
  <2> QED BY <2>1, <2>2, <2>3, <2>4
<1>2. PidsAreUnique'
  BY DEF PidsAreUnique, Alive, SamePid, SameHost
<1>3. WriterKeepsFile'
  BY DEF FileType, SeenType, NoFile, Created, Exists, TextOf, OwnLabels, GuardLabels,
         WriterKeepsFile, LockFileHasOrigin, GuardIsExclusive, ReadIsSound
<1>4. LockFileHasOrigin'
  BY DEF FileType, SeenType, NoFile, Created, Exists, TextOf, OwnLabels, GuardLabels, SoundEnv,
         WriterKeepsFile, LockFileHasOrigin, ReadIsSound
<1>5. GuardIsExclusive'
  BY DEF FileType, SeenType, NoFile, Created, Exists, TextOf, GuardLabels, SoundEnv, GuardIsExclusive
<1>6. ReadIsSound'
  <2>1. CASE Stale(p, saw[p].text, saw[p].old)
    <3>1. saw[p].text \in Procs
      BY <2>1 DEF Stale, ReadIsSound, SeenType
    <3>2. pc[saw[p].text] = "dead"
      BY <2>1, <3>1, StaleIsDead DEF ReadIsSound
    <3> QED BY <2>1, <3>1, <3>2 DEF ReadIsSound, GuardLabels
  <2>2. CASE ~Stale(p, saw[p].text, saw[p].old)
    BY <2>2 DEF ReadIsSound, GuardLabels, Unread
  <2> QED BY <2>1, <2>2
<1>7. SoundEnv(env)' /\ ("lock" \notin env.ageing => ~lock.old)'
  BY DEF NoFile, Created
<1> QED BY <1>1, <1>2, <1>3, <1>4, <1>5, <1>6, <1>7

(* The guard is taken only where there was none. *)
LEMMA TakeGuardKeeps ==
  ASSUME SoundLock, NEW p \in Procs, TakeGuard(p)
  PROVE  SoundLock'
<1> USE ProcsAssumption DEF SoundLock, TypeOK, TakeGuard, Goto
<1>1. TypeOK'
  <2>1. pc' \in [Procs -> Labels]
    BY DEF Labels, Acquiring, OwnLabels, GuardLabels
  <2>2. lock' \in FileType /\ guard' \in FileType
    BY FileTypes
  <2>3. saw' \in [Procs -> SeenType]
    BY FileTypes
  <2>4. attempt' \in [Procs -> Nat] /\ alone' \in [Procs -> BOOLEAN] /\ env' \in Envs
    OBVIOUS
  <2> QED BY <2>1, <2>2, <2>3, <2>4
<1>2. PidsAreUnique'
  BY DEF PidsAreUnique, Alive, SamePid, SameHost
<1>3. WriterKeepsFile'
  BY DEF FileType, SeenType, NoFile, Created, Exists, TextOf, OwnLabels, GuardLabels,
         WriterKeepsFile, LockFileHasOrigin, GuardIsExclusive, ReadIsSound
<1>4. LockFileHasOrigin'
  BY DEF FileType, SeenType, NoFile, Created, Exists, TextOf, OwnLabels, GuardLabels, SoundEnv,
         WriterKeepsFile, LockFileHasOrigin, ReadIsSound
<1>5. GuardIsExclusive'
  BY DEF FileType, SeenType, NoFile, Created, Exists, TextOf, GuardLabels, SoundEnv, GuardIsExclusive
<1>6. ReadIsSound'
  BY DEF FileType, SeenType, NoFile, Created, Exists, TextOf, Unread, OwnLabels, GuardLabels, SoundEnv,
         WriterKeepsFile, LockFileHasOrigin, GuardIsExclusive, ReadIsSound
<1>7. SoundEnv(env)' /\ ("lock" \notin env.ageing => ~lock.old)'
  BY DEF NoFile, Created
<1> QED BY <1>1, <1>2, <1>3, <1>4, <1>5, <1>6, <1>7

(* No guard is old, so no guard is unlinked as abandoned. *)
LEMMA GuardStatKeeps ==
  ASSUME SoundLock, NEW p \in Procs, GuardStat(p)
  PROVE  SoundLock'
<1> USE ProcsAssumption DEF SoundLock, TypeOK, GuardStat, Goto, Refuse
<1>1. TypeOK'
  <2>1. pc' \in [Procs -> Labels]
    BY DEF Labels, Acquiring, OwnLabels, GuardLabels
  <2>2. lock' \in FileType /\ guard' \in FileType
    BY FileTypes
  <2>3. saw' \in [Procs -> SeenType]
    BY FileTypes
  <2>4. attempt' \in [Procs -> Nat] /\ alone' \in [Procs -> BOOLEAN] /\ env' \in Envs
    OBVIOUS
  <2> QED BY <2>1, <2>2, <2>3, <2>4
<1>2. PidsAreUnique'
  BY DEF PidsAreUnique, Alive, SamePid, SameHost
<1>3. WriterKeepsFile'
  BY DEF FileType, SeenType, NoFile, Created, Exists, TextOf, OwnLabels, GuardLabels,
         WriterKeepsFile, LockFileHasOrigin, GuardIsExclusive, ReadIsSound
<1>4. LockFileHasOrigin'
  BY DEF FileType, SeenType, NoFile, Created, Exists, TextOf, OwnLabels, GuardLabels, SoundEnv,
         WriterKeepsFile, LockFileHasOrigin, ReadIsSound
<1>5. GuardIsExclusive'
  BY DEF FileType, SeenType, NoFile, Created, Exists, TextOf, GuardLabels, SoundEnv, GuardIsExclusive
<1>6. ReadIsSound'
  BY DEF FileType, SeenType, NoFile, Created, Exists, TextOf, Unread, OwnLabels, GuardLabels, SoundEnv,
         WriterKeepsFile, LockFileHasOrigin, GuardIsExclusive, ReadIsSound
<1>7. SoundEnv(env)' /\ ("lock" \notin env.ageing => ~lock.old)'
  BY DEF NoFile, Created
<1> QED BY <1>1, <1>2, <1>3, <1>4, <1>5, <1>6, <1>7

(* Not reached in a sound environment. *)
LEMMA GuardUnlinkKeeps ==
  ASSUME SoundLock, NEW p \in Procs, GuardUnlink(p)
  PROVE  SoundLock'
<1> USE ProcsAssumption DEF SoundLock, TypeOK, GuardUnlink, Goto, NextAttempt
<1>1. TypeOK'
  BY DEF FileType, SeenType, NoFile, Created, Exists, TextOf, Unread, Labels, Acquiring, OwnLabels, GuardLabels
<1>2. PidsAreUnique'
  BY DEF PidsAreUnique, Alive, SamePid, SameHost
<1>3. WriterKeepsFile'
  BY DEF FileType, SeenType, NoFile, Created, Exists, TextOf, OwnLabels, GuardLabels,
         WriterKeepsFile, LockFileHasOrigin, GuardIsExclusive, ReadIsSound
<1>4. LockFileHasOrigin'
  BY DEF FileType, SeenType, NoFile, Created, Exists, TextOf, OwnLabels, GuardLabels, SoundEnv,
         WriterKeepsFile, LockFileHasOrigin, ReadIsSound
<1>5. GuardIsExclusive'
  BY DEF FileType, SeenType, NoFile, Created, Exists, TextOf, GuardLabels, SoundEnv, GuardIsExclusive
<1>6. ReadIsSound'
  BY DEF FileType, SeenType, NoFile, Created, Exists, TextOf, Unread, OwnLabels, GuardLabels, SoundEnv,
         WriterKeepsFile, LockFileHasOrigin, GuardIsExclusive, ReadIsSound
<1>7. SoundEnv(env)' /\ ("lock" \notin env.ageing => ~lock.old)'
  BY DEF NoFile, Created
<1> QED BY <1>1, <1>2, <1>3, <1>4, <1>5, <1>6, <1>7

(* What is about to be unlinked is the lock of a dead process. *)
LEMMA CompareKeeps ==
  ASSUME SoundLock, NEW p \in Procs, Compare(p)
  PROVE  SoundLock'
<1> USE ProcsAssumption DEF SoundLock, TypeOK, Compare, Goto
<1>1. TypeOK'
  BY DEF FileType, SeenType, NoFile, Created, Exists, TextOf, Unread, Labels, Acquiring, OwnLabels, GuardLabels
<1>2. PidsAreUnique'
  BY DEF PidsAreUnique, Alive, SamePid, SameHost
<1>3. WriterKeepsFile'
  BY DEF FileType, SeenType, NoFile, Created, Exists, TextOf, OwnLabels, GuardLabels,
         WriterKeepsFile, LockFileHasOrigin, GuardIsExclusive, ReadIsSound
<1>4. LockFileHasOrigin'
  BY DEF FileType, SeenType, NoFile, Created, Exists, TextOf, OwnLabels, GuardLabels, SoundEnv,
         WriterKeepsFile, LockFileHasOrigin, ReadIsSound
<1>5. GuardIsExclusive'
  BY DEF FileType, SeenType, NoFile, Created, Exists, TextOf, GuardLabels, SoundEnv, GuardIsExclusive
<1>6. ReadIsSound'
  BY DEF FileType, SeenType, NoFile, Created, Exists, TextOf, Unread, OwnLabels, GuardLabels, SoundEnv,
         WriterKeepsFile, LockFileHasOrigin, GuardIsExclusive, ReadIsSound
<1>7. SoundEnv(env)' /\ ("lock" \notin env.ageing => ~lock.old)'
  BY DEF NoFile, Created
<1> QED BY <1>1, <1>2, <1>3, <1>4, <1>5, <1>6, <1>7

(* The guard has one holder, so the file compared is the file unlinked. *)
LEMMA UnlinkKeeps ==
  ASSUME SoundLock, NEW p \in Procs, Unlink(p)
  PROVE  SoundLock'
<1> USE ProcsAssumption DEF SoundLock, TypeOK, Unlink, Goto
<1>1. TypeOK'
  BY DEF FileType, SeenType, NoFile, Created, Exists, TextOf, Unread, Labels, Acquiring, OwnLabels, GuardLabels
<1>2. PidsAreUnique'
  BY DEF PidsAreUnique, Alive, SamePid, SameHost
<1>3. WriterKeepsFile'
  BY DEF FileType, SeenType, NoFile, Created, Exists, TextOf, OwnLabels, GuardLabels,
         WriterKeepsFile, LockFileHasOrigin, GuardIsExclusive, ReadIsSound
<1>4. LockFileHasOrigin'
  BY DEF FileType, SeenType, NoFile, Created, Exists, TextOf, OwnLabels, GuardLabels, SoundEnv,
         WriterKeepsFile, LockFileHasOrigin, ReadIsSound
<1>5. GuardIsExclusive'
  BY DEF FileType, SeenType, NoFile, Created, Exists, TextOf, GuardLabels, SoundEnv, GuardIsExclusive
<1>6. ReadIsSound'
  BY DEF FileType, SeenType, NoFile, Created, Exists, TextOf, Unread, OwnLabels, GuardLabels, SoundEnv,
         WriterKeepsFile, LockFileHasOrigin, GuardIsExclusive, ReadIsSound
<1>7. SoundEnv(env)' /\ ("lock" \notin env.ageing => ~lock.old)'
  BY DEF NoFile, Created
<1> QED BY <1>1, <1>2, <1>3, <1>4, <1>5, <1>6, <1>7

(* The guard removed is the process's own. *)
LEMMA UnguardKeeps ==
  ASSUME SoundLock, NEW p \in Procs, Unguard(p)
  PROVE  SoundLock'
<1> USE ProcsAssumption DEF SoundLock, TypeOK, Unguard, Goto, NextAttempt
<1>1. TypeOK'
  BY DEF FileType, SeenType, NoFile, Created, Exists, TextOf, Unread, Labels, Acquiring, OwnLabels, GuardLabels
<1>2. PidsAreUnique'
  BY DEF PidsAreUnique, Alive, SamePid, SameHost
<1>3. WriterKeepsFile'
  BY DEF FileType, SeenType, NoFile, Created, Exists, TextOf, OwnLabels, GuardLabels,
         WriterKeepsFile, LockFileHasOrigin, GuardIsExclusive, ReadIsSound
<1>4. LockFileHasOrigin'
  BY DEF FileType, SeenType, NoFile, Created, Exists, TextOf, OwnLabels, GuardLabels, SoundEnv,
         WriterKeepsFile, LockFileHasOrigin, ReadIsSound
<1>5. GuardIsExclusive'
  BY DEF FileType, SeenType, NoFile, Created, Exists, TextOf, GuardLabels, SoundEnv, GuardIsExclusive
<1>6. ReadIsSound'
  BY DEF FileType, SeenType, NoFile, Created, Exists, TextOf, Unread, OwnLabels, GuardLabels, SoundEnv,
         WriterKeepsFile, LockFileHasOrigin, GuardIsExclusive, ReadIsSound
<1>7. SoundEnv(env)' /\ ("lock" \notin env.ageing => ~lock.old)'
  BY DEF NoFile, Created
<1> QED BY <1>1, <1>2, <1>3, <1>4, <1>5, <1>6, <1>7

(* A live writer finds its own text. *)
LEMMA ReleaseKeeps ==
  ASSUME SoundLock, NEW p \in Procs, Release(p)
  PROVE  SoundLock'
<1> USE ProcsAssumption DEF SoundLock, TypeOK, Release, Goto
<1>1. TypeOK'
  BY DEF FileType, SeenType, NoFile, Created, Exists, TextOf, Unread, Labels, Acquiring, OwnLabels, GuardLabels
<1>2. PidsAreUnique'
  BY DEF PidsAreUnique, Alive, SamePid, SameHost
<1>3. WriterKeepsFile'
  BY DEF FileType, SeenType, NoFile, Created, Exists, TextOf, OwnLabels, GuardLabels,
         WriterKeepsFile, LockFileHasOrigin, GuardIsExclusive, ReadIsSound
<1>4. LockFileHasOrigin'
  BY DEF FileType, SeenType, NoFile, Created, Exists, TextOf, OwnLabels, GuardLabels, SoundEnv,
         WriterKeepsFile, LockFileHasOrigin, ReadIsSound
<1>5. GuardIsExclusive'
  BY DEF FileType, SeenType, NoFile, Created, Exists, TextOf, GuardLabels, SoundEnv, GuardIsExclusive
<1>6. ReadIsSound'
  BY DEF FileType, SeenType, NoFile, Created, Exists, TextOf, Unread, OwnLabels, GuardLabels, SoundEnv,
         WriterKeepsFile, LockFileHasOrigin, GuardIsExclusive, ReadIsSound
<1>7. SoundEnv(env)' /\ ("lock" \notin env.ageing => ~lock.old)'
  BY DEF NoFile, Created
<1> QED BY <1>1, <1>2, <1>3, <1>4, <1>5, <1>6, <1>7

(* It removes its own file. *)
LEMMA ReleaseUnlinkKeeps ==
  ASSUME SoundLock, NEW p \in Procs, ReleaseUnlink(p)
  PROVE  SoundLock'
<1> USE ProcsAssumption DEF SoundLock, TypeOK, ReleaseUnlink, Goto
<1>1. TypeOK'
  BY DEF FileType, SeenType, NoFile, Created, Exists, TextOf, Unread, Labels, Acquiring, OwnLabels, GuardLabels
<1>2. PidsAreUnique'
  BY DEF PidsAreUnique, Alive, SamePid, SameHost
<1>3. WriterKeepsFile'
  BY DEF FileType, SeenType, NoFile, Created, Exists, TextOf, OwnLabels, GuardLabels,
         WriterKeepsFile, LockFileHasOrigin, GuardIsExclusive, ReadIsSound
<1>4. LockFileHasOrigin'
  BY DEF FileType, SeenType, NoFile, Created, Exists, TextOf, OwnLabels, GuardLabels, SoundEnv,
         WriterKeepsFile, LockFileHasOrigin, ReadIsSound
<1>5. GuardIsExclusive'
  BY DEF FileType, SeenType, NoFile, Created, Exists, TextOf, GuardLabels, SoundEnv, GuardIsExclusive
<1>6. ReadIsSound'
  BY DEF FileType, SeenType, NoFile, Created, Exists, TextOf, Unread, OwnLabels, GuardLabels, SoundEnv,
         WriterKeepsFile, LockFileHasOrigin, GuardIsExclusive, ReadIsSound
<1>7. SoundEnv(env)' /\ ("lock" \notin env.ageing => ~lock.old)'
  BY DEF NoFile, Created
<1> QED BY <1>1, <1>2, <1>3, <1>4, <1>5, <1>6, <1>7

(* A death leaves the lock or the guard behind, never without its trace. *)
LEMMA DieKeeps ==
  ASSUME SoundLock, NEW p \in Procs, Die(p)
  PROVE  SoundLock'
<1> USE ProcsAssumption DEF SoundLock, TypeOK, Die, Goto
<1>1. TypeOK'
  BY DEF FileType, SeenType, NoFile, Created, Exists, TextOf, Unread, Labels, Acquiring, OwnLabels, GuardLabels
<1>2. PidsAreUnique'
  BY DEF PidsAreUnique, Alive, SamePid, SameHost
<1>3. WriterKeepsFile'
  BY DEF FileType, SeenType, NoFile, Created, Exists, TextOf, OwnLabels, GuardLabels,
         WriterKeepsFile, LockFileHasOrigin, GuardIsExclusive, ReadIsSound
<1>4. LockFileHasOrigin'
  BY DEF FileType, SeenType, NoFile, Created, Exists, TextOf, OwnLabels, GuardLabels, SoundEnv,
         WriterKeepsFile, LockFileHasOrigin, ReadIsSound
<1>5. GuardIsExclusive'
  BY DEF FileType, SeenType, NoFile, Created, Exists, TextOf, GuardLabels, SoundEnv, GuardIsExclusive
<1>6. ReadIsSound'
  BY DEF FileType, SeenType, NoFile, Created, Exists, TextOf, Unread, OwnLabels, GuardLabels, SoundEnv,
         WriterKeepsFile, LockFileHasOrigin, GuardIsExclusive, ReadIsSound
<1>7. SoundEnv(env)' /\ ("lock" \notin env.ageing => ~lock.old)'
  BY DEF NoFile, Created
<1> QED BY <1>1, <1>2, <1>3, <1>4, <1>5, <1>6, <1>7

(* Ageing: only a file with a text, or one whose creator is dead, gets old. *)
LEMMA AgeingKeeps ==
  ASSUME SoundLock, AgeLock \/ AgeGuard
  PROVE  SoundLock'
<1> USE DEF SoundLock, TypeOK, FileType, Exists, TextOf, AgeLock, AgeGuard
<1>1. PidsAreUnique'
  BY DEF PidsAreUnique, Alive, SamePid, SameHost
<1>2. WriterKeepsFile' /\ ReadIsSound'
  BY DEF WriterKeepsFile, ReadIsSound
<1>3. LockFileHasOrigin'
  BY DEF LockFileHasOrigin, Alive, OwnLabels
<1>4. GuardIsExclusive'
  BY DEF GuardIsExclusive, Alive, GuardLabels
<1> QED BY <1>1, <1>2, <1>3, <1>4

(* Every step keeps the invariant. *)
LEMMA LockStep ==
  ASSUME SoundLock, [Next]_vars
  PROVE  SoundLock'
<1>1. CASE UNCHANGED vars
  BY <1>1 DEF vars, SoundLock, TypeOK, PidsAreUnique, Alive, SamePid, SameHost, WriterKeepsFile,
              LockFileHasOrigin, GuardIsExclusive, ReadIsSound, Exists
<1>2. ASSUME NEW p \in Procs, AcquireStep(p) PROVE SoundLock'
  BY <1>2, CreateKeeps, WriteKeeps, WriteFailsKeeps, ReadKeeps, ReadOneKeeps, ReadOtherKeeps,
     JudgeKeeps, TakeGuardKeeps, GuardStatKeeps, GuardUnlinkKeeps, CompareKeeps, UnlinkKeeps,
     UnguardKeeps DEF AcquireStep
<1>3. ASSUME NEW p \in Procs, Step(p) PROVE SoundLock'
  BY <1>2, <1>3, StartKeeps, AcquireKeeps, ReleaseKeeps, ReleaseUnlinkKeeps, DieKeeps DEF Step
<1> QED BY <1>1, <1>3, AgeingKeeps DEF Next

(* Where every environment is sound, the state of the lock is. *)
THEOREM SoundLockInvariant ==
  ASSUME \A e \in Envs : SoundEnv(e)
  PROVE  Spec => []SoundLock
<1>1. Init => SoundLock
  BY LockInitially DEF Init
<1>2. SoundLock /\ [Next]_vars => SoundLock'
  BY LockStep
<1> QED BY <1>1, <1>2, PTL DEF Spec

(* The state of the lock stays consistent in every sound environment,      *)
(* whatever the others are.                                                *)
THEOREM LockInvariant == Spec => []LockInv
<1>1. Init => LockInv
  <2>1. SUFFICES ASSUME Init, SoundEnv(env) PROVE SoundLock
    BY DEF LockInv
  <2> QED BY <2>1, LockInitially
<1>2. LockInv /\ [Next]_vars => LockInv'
  <2>1. SUFFICES ASSUME LockInv, [Next]_vars, SoundEnv(env)' PROVE SoundLock'
    BY DEF LockInv
  <2>2. env' = env
    BY <2>1 DEF Next, Step, AcquireStep, Start, Acquire, Create, Write, WriteFails, Read, ReadOne,
         ReadOther, Judge, TakeGuard, GuardStat, GuardUnlink, Compare, Unlink, Unguard, Release,
         ReleaseUnlink, Die, AgeLock, AgeGuard, vars
  <2>3. SoundLock
    BY <2>1, <2>2 DEF LockInv, SoundEnv
  <2> QED BY <2>1, <2>3, LockStep
<1> QED BY <1>1, <1>2, PTL DEF Spec

(* Two writers would both be named by the one lock file. *)
LEMMA KeptFileExcludes ==
  ASSUME SoundLock
  PROVE  MutualExclusion
BY DEF SoundLock, WriterKeepsFile, MutualExclusion

(* At most one process has the session open for writing. *)
THEOREM OneWriter ==
  ASSUME \A e \in Envs : SoundEnv(e)
  PROVE  Spec => []MutualExclusion
<1>1. SoundLock => MutualExclusion
  BY KeptFileExcludes
<1> QED BY <1>1, SoundLockInvariant, PTL
-----------------------------------------------------------------------------
(* Refinement: the files implement SingleWriter. *)
LEMMA WriterIsTheOwner ==
  ASSUME MutualExclusion
  PROVE  /\ \A p \in Procs : pc[p] \in OwnLabels => Writer = p
         /\ (\A p \in Procs : pc[p] \notin OwnLabels) => Writer = None
BY DEF MutualExclusion, Writer

(* Only createExclusive's write makes a process the owner, and then the    *)
(* file with no text is its own, so there is no other owner.               *)
LEMMA EnteringOwner ==
  ASSUME SoundLock, [Next]_vars, NEW p \in Procs, pc[p] \notin OwnLabels, pc'[p] \in OwnLabels
  PROVE  \A q \in Procs : pc[q] \notin OwnLabels
<1>1. pc[p] = "write"
  BY DEF Next, Step, AcquireStep, Start, Acquire, Create, Write, WriteFails, Read, ReadOne,
         ReadOther, Judge, TakeGuard, GuardStat, GuardUnlink, Compare, Unlink, Unguard, Release,
         ReleaseUnlink, Die, AgeLock, AgeGuard, Goto, NextAttempt, Refuse, vars, OwnLabels,
         SoundLock, TypeOK
<1> QED BY <1>1 DEF SoundLock, WriterKeepsFile

(* A step takes, leaves or does not change the abstract writer. *)
LEMMA LockStepSimulates ==
  ASSUME SoundLock, SoundLock', [Next]_vars
  PROVE  [Promise!Next]_Writer
<1>0. MutualExclusion /\ MutualExclusion'
  BY KeptFileExcludes DEF SoundLock, WriterKeepsFile, MutualExclusion
<1>1. CASE \E p \in Procs : pc[p] \notin OwnLabels /\ pc'[p] \in OwnLabels
  <2>1. PICK p \in Procs : pc[p] \notin OwnLabels /\ pc'[p] \in OwnLabels
    BY <1>1
  <2>2. Writer = None
    BY <2>1, <1>0, EnteringOwner, WriterIsTheOwner
  <2>3. Writer' = p
    BY <2>1, <1>0 DEF Writer, MutualExclusion
  <2> QED BY <2>2, <2>3 DEF Promise!Next, Promise!Take
<1>2. CASE \A p \in Procs : pc'[p] \in OwnLabels => pc[p] \in OwnLabels
  <2>1. CASE \E p \in Procs : pc'[p] \in OwnLabels
    BY <1>0, <1>2, <2>1 DEF Writer, MutualExclusion
  <2>2. CASE \A p \in Procs : pc'[p] \notin OwnLabels
    BY <2>2, ProcsAssumption DEF Writer, Promise!Next, Promise!Leave
  <2> QED BY <2>1, <2>2
<1> QED BY <1>1, <1>2

(* The file protocol implements the promise of a single writer. *)
THEOREM LockRefinesSingleWriter ==
  ASSUME \A e \in Envs : SoundEnv(e)
  PROVE  Spec => SingleWriterSpec
<1>1. Init => Promise!Init
  BY DEF Init, Promise!Init, Writer, OwnLabels
<1>2. SoundLock /\ SoundLock' /\ [Next]_vars => [Promise!Next]_Writer
  BY LockStepSimulates
<1> QED BY <1>1, <1>2, SoundLockInvariant, PTL DEF Spec, SingleWriterSpec, Promise!Spec

-----------------------------------------------------------------------------
(* An acquire that nobody disturbs: in any environment.                    *)

(* While alone[p] holds, no other process is active.                       *)
NobodyElse == \A p \in Procs : alone[p] => \A q \in Procs \ {p} : ~Active(q)

(* So what p has read is still there, and each of its rounds gets further: *)
(* the first may end at an old guard, the next at the lock, and then there *)
(* is neither.                                                             *)
Found == {"read", "statFirst", "textFirst", "judge", "guard", "guardStat", "guardUnlink", "compare", "unlink"}
Progress(p) ==
  /\ pc[p] \in Found => Exists(lock)
  /\ pc[p] \in Found \ {"read", "statFirst"} => saw[p].text = TextOf(lock)
  /\ pc[p] \in {"guardStat", "guardUnlink"} => attempt[p] = 0 /\ Exists(guard)
  /\ pc[p] \in Acquiring \ {"write"} =>
       \/ attempt[p] = 0
       \/ attempt[p] = 1 /\ (pc[p] \in GuardLabels \/ ~Exists(guard))
       \/ attempt[p] = 2 /\ pc[p] = "create" /\ ~Exists(lock)
  /\ pc[p] = "unguard" => ~Exists(lock)

(* The inductive invariant. *)
AloneInv == TypeOK /\ NobodyElse /\ \A p \in Procs : alone[p] => Progress(p)

(* The types do not depend on the environment. *)
LEMMA TypesKept ==
  ASSUME TypeOK, [Next]_vars
  PROVE  TypeOK'
<1> USE ProcsAssumption DEF TypeOK
<1>1. CASE UNCHANGED vars
  BY <1>1 DEF vars
<1>2. ASSUME NEW p \in Procs, Start(p) \/ Acquire(p) \/ Release(p) \/ Die(p) PROVE TypeOK'
  <2>1. pc' \in [Procs -> Labels]
    BY <1>2 DEF Start, Acquire, Release, Die, Goto, Labels, Acquiring, OwnLabels
  <2>2. attempt' \in [Procs -> Nat] /\ alone' \in [Procs -> BOOLEAN]
    <3>1. CASE Acquire(p)
      <4>1. attempt' = [attempt EXCEPT ![p] = 0]
        BY <3>1 DEF Acquire
      <4>2. alone' = [q \in Procs |-> q = p /\ \A r \in Procs \ {p} : ~Active(r)]
        BY <3>1 DEF Acquire
      <4> QED BY <4>1, <4>2
    <3>2. CASE ~Acquire(p)
      BY <1>2, <3>2 DEF Start, Release, Die
    <3> QED BY <3>1, <3>2
  <2> QED BY <1>2, <2>1, <2>2 DEF Start, Acquire, Release, Die
<1>3. ASSUME NEW p \in Procs, Create(p) \/ Write(p) \/ WriteFails(p) \/ Unlink(p) \/ ReleaseUnlink(p) PROVE TypeOK'
  <2>1. pc' \in [Procs -> Labels]
    BY <1>3 DEF Create, Write, WriteFails, Unlink, ReleaseUnlink, Goto, Labels, Acquiring, OwnLabels, GuardLabels
  <2>2. lock' \in FileType
    <3>1. NoFile \in FileType /\ Created(p) \in FileType /\ [Created(p) EXCEPT !.written = TRUE] \in FileType
      BY DEF FileType, NoFile, Created
    <3> QED BY <1>3, <3>1 DEF Create, Write, WriteFails, Unlink, ReleaseUnlink
  <2> QED BY <1>3, <2>1, <2>2 DEF Create, Write, WriteFails, Unlink, ReleaseUnlink
<1>4. ASSUME NEW p \in Procs, Read(p) \/ ReadOne(p) \/ ReadOther(p) PROVE TypeOK'
  <2>0. pc' \in [Procs -> Labels]
    BY <1>4 DEF Read, ReadOne, ReadOther, NextAttempt, Goto, Labels, Acquiring
  <2>1. attempt' \in [Procs -> Nat]
    BY <1>4 DEF Read, ReadOne, ReadOther, NextAttempt
  <2>2. saw' \in [Procs -> SeenType]
    <3>1. \/ saw' = [saw EXCEPT ![p] = Unread]
          \/ saw' = [saw EXCEPT ![p] = [text |-> TextOf(lock), old |-> lock.old]]
          \/ saw' = [saw EXCEPT ![p].text = TextOf(lock)]
          \/ saw' = [saw EXCEPT ![p].old = lock.old]
      BY <1>4 DEF Read, ReadOne, ReadOther, NextAttempt
    <3>2. CASE saw' = [saw EXCEPT ![p].text = TextOf(lock)]
      BY <3>2, FileTypes
    <3>3. CASE saw' = [saw EXCEPT ![p].old = lock.old]
      BY <3>3, FileTypes
    <3> QED BY <3>1, <3>2, <3>3, FileTypes
  <2> QED BY <1>4, <2>0, <2>1, <2>2 DEF Read, ReadOne, ReadOther
<1>5. ASSUME NEW p \in Procs, Judge(p) \/ GuardStat(p) \/ Compare(p) PROVE TypeOK'
  BY <1>5, FileTypes DEF Judge, GuardStat, Compare, Refuse, Goto, Labels, Acquiring, OwnLabels, GuardLabels
<1>6. ASSUME NEW p \in Procs, TakeGuard(p) \/ GuardUnlink(p) \/ Unguard(p) PROVE TypeOK'
  BY <1>6, FileTypes DEF TakeGuard, GuardUnlink, Unguard, NextAttempt, Goto, Labels, Acquiring, OwnLabels, GuardLabels
<1>7. ASSUME AgeLock \/ AgeGuard PROVE TypeOK'
  BY <1>7 DEF AgeLock, AgeGuard, FileType
<1> QED BY <1>1, <1>2, <1>3, <1>4, <1>5, <1>6, <1>7 DEF Next, Step, AcquireStep

(* A process becomes active by calling acquireLockFile only. *)
LEMMA WhoActs ==
  ASSUME TypeOK, NEW p \in Procs, Step(p)
  PROVE  /\ \A q \in Procs \ {p} : pc'[q] = pc[q]
         /\ Acquire(p) \/ alone' = alone
         /\ Active(p) \/ Acquire(p) \/ Start(p) \/ Die(p)
         /\ Active(p)' => Active(p) \/ Acquire(p)
BY DEF TypeOK, Step, AcquireStep, Start, Acquire, Create, Write, WriteFails, Read, ReadOne,
       ReadOther, Judge, TakeGuard, GuardStat, GuardUnlink, Compare, Unlink, Unguard, Release,
       ReleaseUnlink, Die, Goto, NextAttempt, Refuse, Active, Acquiring, OwnLabels, GuardLabels, Labels

LEMMA NobodyElseKept ==
  ASSUME TypeOK, NobodyElse, [Next]_vars
  PROVE  NobodyElse'
<1>1. CASE UNCHANGED <<pc, alone>>
  BY <1>1 DEF NobodyElse, Active
<1>2. ASSUME NEW r \in Procs, Acquire(r) PROVE NobodyElse'
  BY <1>2 DEF NobodyElse, Active, Acquire, Goto, TypeOK
<1>3. ASSUME NEW r \in Procs, Step(r), ~Acquire(r) PROVE NobodyElse'
  <2>1. \A q \in Procs : Active(q)' => Active(q)
    BY <1>3, WhoActs DEF Active
  <2> QED BY <1>3, <2>1, WhoActs DEF NobodyElse
<1> QED BY <1>1, <1>2, <1>3 DEF Next, vars, AgeLock, AgeGuard

(* One who is alone meets only his own steps and the age of files. *)
LEMMA ProgressKept ==
  ASSUME AloneInv, [Next]_vars, MaxAttempts >= 3, NEW p \in Procs, alone'[p]
  PROVE  Progress(p)'
<1> USE ProcsAssumption, AttemptsAssumption
<1>1. TypeOK /\ pc[p] \in Labels /\ attempt[p] \in Nat /\ (alone[p] => Progress(p))
  BY DEF AloneInv, TypeOK
<1>2. CASE UNCHANGED vars
  BY <1>1, <1>2 DEF vars, Progress, Exists, TextOf
<1>3. CASE AgeLock \/ AgeGuard
  BY <1>1, <1>3 DEF AgeLock, AgeGuard, Progress, Exists, TextOf, TypeOK, FileType
<1>4. ASSUME NEW q \in Procs \ {p}, Step(q) PROVE Progress(p)'
  <2>1. ~Acquire(q)
    BY DEF Acquire, AloneInv, TypeOK
  <2>2. alone[p] /\ ~Active(q)
    BY <1>4, <2>1, <1>1, WhoActs DEF AloneInv, NobodyElse
  <2>3. (Start(q) \/ Die(q)) /\ pc'[p] = pc[p]
    BY <1>4, <1>1, <2>1, <2>2, WhoActs
  <2> QED BY <1>1, <2>2, <2>3 DEF Start, Die, Progress, Exists, TextOf
<1>5. CASE Acquire(p)
  BY <1>1, <1>5 DEF Acquire, Goto, Progress, TypeOK, Found, GuardLabels
<1>6. CASE Step(p) /\ ~Acquire(p)
  <2>1. alone[p] /\ Progress(p)
    BY <1>1, <1>6, WhoActs
  <2>2. CASE Start(p) \/ Die(p) \/ Release(p) \/ ReleaseUnlink(p) \/ Write(p) \/ WriteFails(p)
    BY <1>1, <2>2 DEF Start, Die, Release, ReleaseUnlink, Write, WriteFails, Goto, Progress, TypeOK, Found, Acquiring, GuardLabels
  <2>3. CASE Create(p)
    BY <1>1, <2>1, <2>3 DEF Create, Goto, Progress, TypeOK, Found, Acquiring, GuardLabels
  <2>4. CASE Read(p) \/ ReadOne(p) \/ ReadOther(p)
    <3>1. Exists(lock) /\ UNCHANGED <<lock, guard, attempt>> /\ pc'[p] \in {"statFirst", "textFirst", "judge"}
      BY <1>1, <2>1, <2>4 DEF Read, ReadOne, ReadOther, Goto, Progress, TypeOK, Found
    <3>2. pc'[p] # "statFirst" => saw'[p].text = TextOf(lock)
      BY <1>1, <2>1, <2>4 DEF Read, ReadOne, ReadOther, Goto, Progress, TypeOK, Found, SeenType, NextAttempt
    <3> QED BY <1>1, <2>1, <2>4, <3>1, <3>2 DEF Read, ReadOne, ReadOther, Progress, Found, Acquiring, GuardLabels, Exists, TextOf
  <2>5. CASE Judge(p)
    BY <1>1, <2>1, <2>5 DEF Judge, Refuse, Goto, Progress, TypeOK, Found, Acquiring, GuardLabels, Exists, TextOf
  <2>6. CASE TakeGuard(p)
    BY <1>1, <2>1, <2>6 DEF TakeGuard, Goto, Progress, TypeOK, Found, Acquiring, GuardLabels, Exists, TextOf
  <2>7. CASE GuardStat(p)
    BY <1>1, <2>1, <2>7 DEF GuardStat, Refuse, Goto, Progress, TypeOK, Found, Acquiring, GuardLabels, Exists, TextOf
  <2>8. CASE GuardUnlink(p)
    BY <1>1, <2>1, <2>8 DEF GuardUnlink, NextAttempt, Goto, Progress, TypeOK, Found, Acquiring, GuardLabels, Exists, NoFile
  <2>9. CASE Compare(p)
    BY <1>1, <2>1, <2>9 DEF Compare, Goto, Progress, TypeOK, Found, Acquiring, GuardLabels, Exists, TextOf
  <2>10. CASE Unlink(p)
    BY <1>1, <2>1, <2>10 DEF Unlink, Goto, Progress, TypeOK, Found, Acquiring, GuardLabels, Exists, NoFile
  <2>11. CASE Unguard(p)
    BY <1>1, <2>1, <2>11 DEF Unguard, NextAttempt, Goto, Progress, TypeOK, Found, Acquiring, GuardLabels, Exists, NoFile
  <2> QED BY <1>6, <2>2, <2>3, <2>4, <2>5, <2>6, <2>7, <2>8, <2>9, <2>10, <2>11 DEF Step, AcquireStep
<1> QED BY <1>2, <1>3, <1>4, <1>5, <1>6 DEF Next

(* AloneInv is inductive. *)
LEMMA AloneInvariant ==
  ASSUME MaxAttempts >= 3
  PROVE  Spec => []AloneInv
<1>1. Init => AloneInv
  BY ProcsAssumption DEF Init, AloneInv, NobodyElse, TypeOK, Labels, Acquiring, OwnLabels, GuardLabels, FileType,
                         SeenType, NoFile, Unread
<1>2. AloneInv /\ [Next]_vars => AloneInv'
  BY TypesKept, NobodyElseKept, ProgressKept DEF AloneInv
<1> QED BY <1>1, <1>2, PTL DEF Spec

(* Where an acquire that is alone is refused, it is by a lock it may not   *)
(* judge stale or by a young guard.                                        *)
LEMMA RefusedByLeftover ==
  ASSUME AloneInv, [Next]_vars, MaxAttempts >= 3,
         NEW p \in Procs, pc[p] # "refused", pc'[p] = "refused", alone[p]
  PROVE  (Exists(guard) /\ ~guard.old)' \/ (Exists(lock) /\ ~Stale(p, TextOf(lock), FALSE))'
<1> USE ProcsAssumption, AttemptsAssumption
<1>1. TypeOK /\ Progress(p) /\ attempt[p] \in Nat
  BY DEF AloneInv, TypeOK
<1>2. Step(p)
  BY <1>1, WhoActs DEF Next, AgeLock, AgeGuard, vars
<1>3. CASE Judge(p)
  <2>1. /\ Exists(lock) /\ saw[p].text = TextOf(lock) /\ ~Stale(p, TextOf(lock), saw[p].old)
        /\ UNCHANGED <<lock, env>>
    BY <1>1, <1>3 DEF Judge, Progress, Found, Goto, TypeOK
  <2>2. \A q \in Procs : Alive(q)' = Alive(q)
    BY <1>1, <1>3 DEF Judge, Refuse, Goto, TypeOK, Alive
  <2>3. ~Stale(p, TextOf(lock), FALSE)
    BY <2>1 DEF Stale
  <2>4. ~Stale(p, TextOf(lock), FALSE)'
    BY <2>1, <2>2, <2>3 DEF Stale, PidAlive, PidReused, SamePid, SameHost, TextOf
  <2> QED BY <2>1, <2>4 DEF Exists
<1>4. CASE GuardStat(p)
  BY <1>1, <1>4 DEF GuardStat, Progress, Goto, TypeOK, Exists
<1>5. CASE ~Judge(p) /\ ~GuardStat(p)
  <2>1. Read(p) \/ ReadOne(p) \/ ReadOther(p) \/ GuardUnlink(p) \/ Unguard(p)
    BY <1>1, <1>2, <1>5 DEF Step, AcquireStep, Start, Acquire, Create, Write, WriteFails, TakeGuard, Compare, Unlink,
       Release, ReleaseUnlink, Die, Goto, TypeOK
  <2>2. CASE Read(p) \/ ReadOne(p) \/ ReadOther(p)
    BY <1>1, <2>2 DEF Read, ReadOne, ReadOther, Progress, Found, Goto, TypeOK
  <2>3. CASE GuardUnlink(p)
    BY <1>1, <2>3 DEF GuardUnlink, NextAttempt, Progress, Goto, TypeOK
  <2>4. CASE Unguard(p)
    BY <1>1, <2>4 DEF Unguard, NextAttempt, Progress, Goto, TypeOK, Acquiring, GuardLabels
  <2> QED BY <2>1, <2>2, <2>3, <2>4
<1> QED BY <1>3, <1>4, <1>5

(* With at least three rounds (five in the code), an acquire that nobody   *)
(* disturbs is refused only because of what a dead process left, in any    *)
(* environment, also one in which the lock is not safe (acquireLockFile,   *)
(* takeOver).                                                              *)
THEOREM RefusedOnlyByLeftover ==
  ASSUME MaxAttempts >= 3
  PROVE  Spec => UndisturbedRefusedOnlyByLeftover
<1> DEFINE Left(p) == \/ (Exists(guard) /\ ~guard.old)'
                      \/ (Exists(lock) /\ ~Stale(p, TextOf(lock), FALSE))'
           Refusals == \A p \in Procs : pc[p] # "refused" /\ pc'[p] = "refused" /\ alone[p] => Left(p)
<1>1. AloneInv /\ [Next]_vars => Refusals
  BY RefusedByLeftover
<1> HIDE DEF Refusals
<1>2. Spec => [][Refusals]_vars
  BY <1>1, AloneInvariant, PTL DEF Spec
<1> QED BY <1>2 DEF Refusals, UndisturbedRefusedOnlyByLeftover
=============================================================================
