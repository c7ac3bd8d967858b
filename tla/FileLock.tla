------------------------------ MODULE FileLock ------------------------------
(***************************************************************************)
(* The pid lock file under which the processes of a project change the     *)
(* learning queue and other shared files: withFileLock, tryCreateLock and  *)
(* breakStaleLock of src/packages/evolve/src/lock.ts, one action per       *)
(* operation on a file.                                                    *)
(*                                                                         *)
(* Files are numbered as they are created; a rename or a link changes      *)
(* where a file is, never what its writer has written.  A user of the lock *)
(* is a call of withFileLock in a process of its own.                      *)
(***************************************************************************)
EXTENDS Naturals, FiniteSets

CONSTANTS
  Users,     \* calls of withFileLock
  AtFirst,   \* what may be there at first: no lock, or one with what is written in it
  MaxFiles,  \* bound: lock files created
  MaxFaults  \* bound: processes that die, and pids that could not be written

VARIABLES
  pid,      \* what is written in each file: a user, Nobody while it is empty, or Leftover
  old,      \* files that are older than EMPTY_LOCK_GRACE_MS
  path,     \* the file that has the name of the lock
  aside,    \* the file that each user has moved aside
  at,       \* where each user stands
  mine,     \* the file each user has created
  before,   \* the pid it read before the rename
  dead, faults

vars == <<pid, old, path, aside, at, mine, before, dead, faults>>

NoFile == 0
Nobody == "nobody"
Leftover == "leftover"  \* the pid of a process that died before

Files == DOMAIN pid
Alive(w) == w \in Users \ dead
Holders == {u \in Users : at[u] = "held"}

(* At first there is no lock (<<>>), or one that a dead process left: with *)
(* its pid (<<Leftover>>), or empty (<<Nobody>>).                          *)
Init ==
  /\ pid \in AtFirst /\ path = Cardinality(DOMAIN pid)
  /\ old = DOMAIN pid
  /\ aside = [u \in Users |-> NoFile] /\ at = [u \in Users |-> "out"]
  /\ mine = [u \in Users |-> NoFile] /\ before = [u \in Users |-> Nobody]
  /\ dead = {} /\ faults = 0

Goto(u, label) == at' = [at EXCEPT ![u] = label]
Running(u, label) == at[u] = label /\ u \notin dead
-----------------------------------------------------------------------------
Enter(u) == Running(u, "out") /\ Goto(u, "create") /\ UNCHANGED <<pid, old, path, aside, mine, before, dead, faults>>

(* tryCreateLock: the exclusive create, and the write of the pid.          *)
Create(u) ==
  /\ Running(u, "create")
  /\ IF path # NoFile THEN Goto(u, "read") /\ UNCHANGED <<pid, path, mine>>
     ELSE /\ Cardinality(Files) < MaxFiles
          /\ pid' = [f \in 1..Cardinality(Files) + 1 |-> IF f \in Files THEN pid[f] ELSE Nobody]
          /\ path' = Cardinality(Files) + 1 /\ mine' = [mine EXCEPT ![u] = Cardinality(Files) + 1]
          /\ Goto(u, "write")
  /\ UNCHANGED <<old, aside, before, dead, faults>>

WritePid(u) ==
  /\ Running(u, "write")
  /\ pid' = [pid EXCEPT ![mine[u]] = u]
  /\ Goto(u, "held")
  /\ UNCHANGED <<old, path, aside, mine, before, dead, faults>>

(* The pid could not be written: the empty file stays, and withFileLock    *)
(* throws.                                                                 *)
WriteFails(u) ==
  /\ Running(u, "write") /\ faults < MaxFaults
  /\ faults' = faults + 1 /\ mine' = [mine EXCEPT ![u] = NoFile]
  /\ Goto(u, "out")
  /\ UNCHANGED <<pid, old, path, aside, before, dead>>

(* breakStaleLock: a lock of a live process, or one that is just being     *)
(* written, is left alone.                                                 *)
ReadPid(u) ==
  /\ Running(u, "read")
  /\ LET read == IF path = NoFile THEN Nobody ELSE pid[path] IN
     /\ before' = [before EXCEPT ![u] = read]
     /\ Goto(u, IF read = Nobody THEN "age" ELSE IF Alive(read) THEN "wait" ELSE "rename")
  /\ UNCHANGED <<pid, old, path, aside, mine, dead, faults>>
StatAge(u) ==
  /\ Running(u, "age")
  /\ Goto(u, IF path \in old THEN "rename" ELSE "wait")
  /\ UNCHANGED <<pid, old, path, aside, mine, before, dead, faults>>

MoveAside(u) ==
  /\ Running(u, "rename")
  /\ IF path = NoFile THEN Goto(u, "wait") /\ UNCHANGED <<aside, path>>
     ELSE Goto(u, "moved") /\ aside' = [aside EXCEPT ![u] = path] /\ path' = NoFile
  /\ UNCHANGED <<pid, old, mine, before, dead, faults>>

(* What was moved is looked at again: removed when it is what was read and *)
(* its process is dead, put back when the name is still free otherwise.    *)
IsStale(u) == pid[aside[u]] = before[u] /\ ~Alive(pid[aside[u]])
RemoveStale(u) ==
  /\ Running(u, "moved") /\ IsStale(u)
  /\ aside' = [aside EXCEPT ![u] = NoFile]
  /\ Goto(u, "create")
  /\ UNCHANGED <<pid, old, path, mine, before, dead, faults>>
PutBack(u) ==
  /\ Running(u, "moved") /\ ~IsStale(u)
  /\ path' = IF path = NoFile THEN aside[u] ELSE path
  /\ aside' = [aside EXCEPT ![u] = NoFile]
  /\ Goto(u, "wait")
  /\ UNCHANGED <<pid, old, mine, before, dead, faults>>

(* It polls until its deadline. *)
Poll(u) ==
  /\ Running(u, "wait")
  /\ Goto(u, "create") \/ Goto(u, "out")
  /\ UNCHANGED <<pid, old, path, aside, mine, before, dead, faults>>

(* The end of fn: the lock is removed by its name. *)
Leave(u) ==
  /\ Running(u, "held")
  /\ path' = NoFile
  /\ mine' = [mine EXCEPT ![u] = NoFile]
  /\ Goto(u, "out")
  /\ UNCHANGED <<pid, old, aside, before, dead, faults>>
-----------------------------------------------------------------------------
(* A process dies; a file that nobody is writing gets old (a live process  *)
(* writes its pid within the time).                                        *)
Die(u) ==
  /\ u \notin dead /\ faults < MaxFaults
  /\ dead' = dead \cup {u} /\ faults' = faults + 1
  /\ UNCHANGED <<pid, old, path, aside, at, mine, before>>
Age(f) ==
  /\ f \notin old /\ \A u \in Users \ dead : at[u] = "write" => mine[u] # f
  /\ old' = old \cup {f}
  /\ UNCHANGED <<pid, path, aside, at, mine, before, dead, faults>>

Step(u) == Enter(u) \/ Create(u) \/ WritePid(u) \/ WriteFails(u) \/ ReadPid(u) \/ StatAge(u) \/ MoveAside(u) \/ RemoveStale(u)
           \/ PutBack(u) \/ Poll(u) \/ Leave(u)
Next == (\E u \in Users : Step(u) \/ Die(u)) \/ \E f \in Files : Age(f)
Spec == Init /\ [][Next]_vars
-----------------------------------------------------------------------------
(* At most one live process is inside: withFileLock runs fn while it holds *)
(* the lock, breakStaleLock breaks only one whose process is dead.         *)
OneHolder == Cardinality(Holders \ dead) <= 1
=============================================================================
