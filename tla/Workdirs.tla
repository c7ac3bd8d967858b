------------------------------ MODULE Workdirs ------------------------------
(***************************************************************************)
(* The copies of the project that threads and members work in:             *)
(* LocalMemberWorkdirs and LocalMemberWorkdir of                           *)
(* src/packages/tasking/src/workdirs.ts, called by the turns of their      *)
(* agents (kernel/src/agent.ts).  A member of a thread copies the thread's *)
(* copy and merges back into it.                                           *)
(*                                                                         *)
(* Every path is handled for itself, so the model has one file.  Its       *)
(* content is the set of the edits it has, Original among them when it     *)
(* exists at all.  A step ends where the code awaits: the user edits the   *)
(* project and agents edit their copies between any two steps of a merge.  *)
(***************************************************************************)
EXTENDS Naturals, Sequences, FiniteSets

CONSTANTS
  Project,       \* the directory of the user
  Copies,        \* sessions with a copy
  From,          \* From[c]: the directory c is copied from and merges into
  MaxEdits,      \* bound: edits made
  MaxTurns       \* bound: turns begun

Dirs == {Project} \cup Copies
ASSUME WorkdirsAssumption ==
  /\ Project \notin Copies /\ From \in [Copies -> Dirs]
  /\ \A c \in Copies : From[c] \in Copies => From[From[c]] = Project  \* members start no members
  /\ MaxEdits \in Nat /\ MaxTurns \in Nat

Original == 0
NoFile == {}

VARIABLES
  file,        \* file[d]: the file in directory d
  base,        \* base[c]: what c and its parent had when they were last in sync
  finds,       \* finds[c]: what a scan of c's parent and of c gives: the file, or what c
               \* believes to have written when nobody has written since (projectSeen, copySeen)
  phase,       \* phase[c]: where the session of c is
  queue,       \* merges, refreshes and closes, one at a time (serial)
  job,         \* where the first of the queue is
  merges,      \* merges[c]: the number of the last conflict copy of this opening of c
  kept,        \* kept[c][n]: conflict copy n of c, which is kept when c is closed
  unmerged,    \* sessions whose copy has changes no merge brought in
  turns,
  made, excused, raced  \* for the properties: edits made; taken back, or thrown away with
                        \* a copy that was not merged; made during a job on their file

vars == <<file, base, finds, phase, queue, job, merges, kept, unmerged, turns, made, excused, raced>>
edits == <<made, excused, raced>>
conflicts == <<merges, kept>>

NoJob == [at |-> "none", ours |-> NoFile, theirs |-> NoFile, body |-> NoFile]
Init ==
  /\ file = [d \in Dirs |-> IF d = Project THEN {Original} ELSE NoFile]
  /\ base = [c \in Copies |-> NoFile] /\ finds = [c \in Copies |-> [up |-> NoFile, own |-> NoFile]]
  /\ phase = [c \in Copies |-> "none"] /\ queue = <<>> /\ job = NoJob
  /\ merges = [c \in Copies |-> 0] /\ kept = [c \in Copies |-> [n \in 1..MaxTurns |-> NoFile]] /\ unmerged = {} /\ turns = 0
  /\ made = {} /\ excused = {} /\ raced = {}
-----------------------------------------------------------------------------
(* Writing the file of a directory: the next scans see it. *)
Seen(d, new) ==
  [c \in Copies |-> [up |-> IF From[c] = d THEN new ELSE finds[c].up, own |-> IF c = d THEN new ELSE finds[c].own]]
Write(d, new) == file' = [file EXCEPT ![d] = new] /\ finds' = Seen(d, new)
Leave == UNCHANGED <<file, finds>>

(* The directories the job under way reads and writes. *)
AtWork == IF job.at = "none" THEN {} ELSE {Head(queue), From[Head(queue)]}

(* Somebody adds to the file, rewrites it or removes it, having seen it. *)
Change(d, new) ==
  /\ Write(d, new)
  /\ LET e == Cardinality(made) + 1
     IN /\ made' = made \cup {e}
        /\ excused' = excused \cup (file[d] \ new) \cup ({e} \ new)
        /\ raced' = IF d \in AtWork THEN raced \cup {e} ELSE raced
  /\ UNCHANGED <<base, phase, queue, job, conflicts, unmerged, turns>>
Edit(d) ==
  /\ Cardinality(made) < MaxEdits
  /\ LET e == Cardinality(made) + 1 IN \E new \in {file[d] \cup {Original, e}, {Original, e}, NoFile} : new # file[d] /\ Change(d, new)
(* A tool that was given up may still write while its turn is merged. *)
AgentEdits(c) == phase[c] \in {"working", "merging"} /\ Edit(c)
-----------------------------------------------------------------------------
(* The session: open, turns, close. *)

Enqueue(c, next) == phase' = [phase EXCEPT ![c] = next] /\ queue' = Append(queue, c)
Works(d) == d = Project \/ (d \in Copies /\ phase[d] = "working")

(* The files are listed first (kept in base) and copied when it is c's turn. *)
Open(c) ==
  /\ phase[c] = "none" /\ Works(From[c]) /\ turns < MaxTurns
  /\ Enqueue(c, "opening")
  /\ base' = [base EXCEPT ![c] = file[From[c]]]
  /\ UNCHANGED <<file, finds, job, conflicts, unmerged, turns, edits>>
BeginTurn(c) ==
  /\ phase[c] = "idle" /\ Works(From[c]) /\ turns < MaxTurns /\ turns' = turns + 1
  /\ Enqueue(c, "refreshing")
  /\ UNCHANGED <<file, base, finds, job, conflicts, unmerged, edits>>
(* A turn that ends with an error is not merged (HELD_MERGE). *)
EndTurn(c) ==
  /\ phase[c] = "working"
  /\ \/ Enqueue(c, "merging") /\ UNCHANGED unmerged
     \/ phase' = [phase EXCEPT ![c] = "idle"] /\ unmerged' = unmerged \cup {c} /\ UNCHANGED queue
  /\ UNCHANGED <<file, base, finds, job, conflicts, turns, edits>>
Close(c) ==
  /\ phase[c] = "idle" /\ \A m \in Copies : From[m] = c => phase[m] = "none"
  /\ Enqueue(c, "closing")
  /\ UNCHANGED <<file, base, finds, job, conflicts, unmerged, turns, edits>>
-----------------------------------------------------------------------------
(* Jobs. *)

First(c, ph, at) == queue # <<>> /\ c = Head(queue) /\ phase[c] = ph /\ job.at = at
Working(c, at) == queue # <<>> /\ c = Head(queue) /\ job.at = at
Done(c, next) == phase' = [phase EXCEPT ![c] = next] /\ queue' = Tail(queue) /\ job' = NoJob
Go(at) == job' = [job EXCEPT !.at = at] /\ UNCHANGED <<phase, queue>>
Holding(at, body) == job' = [job EXCEPT !.at = at, !.body = body] /\ UNCHANGED <<phase, queue>>
InSync(c, f) == base' = [base EXCEPT ![c] = f]

CopyIn(c) ==
  /\ First(c, "opening", "none")
  /\ LET body == IF base[c] = NoFile THEN NoFile ELSE file[From[c]]
     IN InSync(c, body) /\ file' = [file EXCEPT ![c] = body]
        /\ finds' = [Seen(c, body) EXCEPT ![c].up = file[From[c]]]
  /\ Done(c, "idle") /\ merges' = [merges EXCEPT ![c] = 0]
  /\ UNCHANGED <<kept, unmerged, turns, edits>>
RemoveCopy(c) ==
  /\ First(c, "closing", "none")
  /\ Write(c, NoFile) /\ InSync(c, NoFile) /\ Done(c, "none")
  /\ unmerged' = unmerged \ {c}
  /\ excused' = IF c \in unmerged THEN excused \cup (file[c] \ base[c]) ELSE excused
  /\ UNCHANGED <<conflicts, turns, made, raced>>

(* mergeNow: scan the parent, scan the copy, compare with the base. *)
MergeScan(c) ==
  /\ First(c, "merging", "none")
  /\ job' = [job EXCEPT !.at = "scanned", !.ours = finds[c].up]
  /\ UNCHANGED <<file, base, finds, phase, queue, conflicts, unmerged, turns, edits>>
MergeScanCopy(c) ==
  /\ Working(c, "scanned")
  /\ job' = [job EXCEPT !.at = "compared", !.theirs = finds[c].own]
  /\ UNCHANGED <<file, base, finds, phase, queue, conflicts, unmerged, turns, edits>>

Compared(c) == Working(c, "compared") /\ UNCHANGED <<unmerged, turns, made, raced>>
Unchanged(c) ==
  /\ Compared(c) /\ job.theirs = base[c]
  /\ Go("refresh") /\ Leave /\ UNCHANGED <<base, conflicts, excused>>
(* Only the member changed the file. *)
TakeTheirs(c) ==
  /\ Compared(c) /\ job.theirs # base[c] /\ job.ours = base[c] /\ UNCHANGED <<conflicts, excused>>
  /\ \/ job.theirs = NoFile /\ Write(From[c], NoFile) /\ InSync(c, NoFile) /\ Go("refresh")
     \/ job.theirs # NoFile /\ file[c] # NoFile /\ Holding("put", file[c]) /\ Leave /\ UNCHANGED base
SameChange(c) ==
  /\ Compared(c) /\ job.theirs # base[c] /\ job.ours # base[c] /\ job.ours = job.theirs
  /\ InSync(c, job.theirs) /\ Go("refresh") /\ Leave /\ UNCHANGED <<conflicts, excused>>
(* Both did: line by line (mergeText), unless the changes overlap or one   *)
(* of the two removed the file.                                            *)
BothChanged(c) == job.theirs # base[c] /\ job.ours # base[c] /\ job.ours # job.theirs
AllThree(c) == NoFile \notin {base[c], job.ours, job.theirs}
MergeText(b, o, t) == (b \cap o \cap t) \cup (o \ b) \cup (t \ b)
MergeBoth(c) ==
  LET o == file[From[c]]
  IN /\ Compared(c) /\ BothChanged(c) /\ AllThree(c) /\ NoFile \notin {o, file[c]}
     /\ Holding("putBoth", MergeText(base[c], o, file[c])) /\ Leave /\ UNCHANGED <<base, conflicts, excused>>
Overlap(c) ==
  AllThree(c) => LET o == file[From[c]] IN base[c] \notin {o, file[c]} /\ o # file[c] /\ NoFile \notin {o, file[c]}
Keep(c) ==
  LET n == merges[c] + 1
  IN /\ merges' = [merges EXCEPT ![c] = n] /\ kept' = [kept EXCEPT ![c][n] = file[c]]
     /\ excused' = excused \cup kept[c][n]

(* Mutant: the base stays what it was after a conflict. *)
ConflictAgain(c) ==
  /\ Compared(c) /\ BothChanged(c) /\ Overlap(c)
  /\ \/ job.theirs = NoFile /\ UNCHANGED <<conflicts, excused>>
     \/ job.theirs # NoFile /\ file[c] # NoFile /\ Keep(c)
  /\ Go("refresh") /\ Leave /\ UNCHANGED base

Conflict(c) ==
  /\ Compared(c) /\ BothChanged(c) /\ Overlap(c)
  /\ \/ job.theirs = NoFile /\ UNCHANGED <<conflicts, excused>>
     \/ job.theirs # NoFile /\ file[c] # NoFile /\ Keep(c)
  /\ InSync(c, job.theirs) /\ Go("refresh") /\ Leave
(* A file of the copy, or of the project, that is gone when it is read     *)
(* ends the merge with an error.                                           *)
MergeFails(c) ==
  /\ Working(c, "compared") /\ job.theirs \notin {NoFile, base[c], job.ours}
  /\ \/ file[c] = NoFile
     \/ BothChanged(c) /\ AllThree(c) /\ file[From[c]] = NoFile
  /\ Done(c, "idle") /\ unmerged' = unmerged \cup {c}
  /\ Leave /\ UNCHANGED <<base, conflicts, turns, edits>>

(* A member that merges into the copy of a thread whose turn is over. *)
Late(c) == IF From[c] \in Copies /\ phase[From[c]] = "idle" THEN unmerged \cup {From[c]} ELSE unmerged
Put(c) ==
  /\ \/ Working(c, "put") /\ Go("stat")
     \/ Working(c, "putBoth") /\ Go("statBoth")
  /\ Write(From[c], job.body) /\ unmerged' = Late(c)
  /\ UNCHANGED <<base, conflicts, turns, edits>>
Stat(c) ==
  /\ Working(c, "stat")
  /\ finds' = [finds EXCEPT ![c].up = job.theirs] /\ InSync(c, job.theirs) /\ Go("refresh")
  /\ UNCHANGED <<file, conflicts, unmerged, turns, edits>>
StatBoth(c) ==
  /\ Working(c, "statBoth")
  /\ file' = [file EXCEPT ![c] = job.body] /\ finds' = [Seen(c, job.body) EXCEPT ![c].up = job.body]
  /\ Go("statOwn")
  /\ UNCHANGED <<base, conflicts, unmerged, turns, edits>>

(* refreshNow, at the start of a turn and after a merge: what the parent   *)
(* changed and the copy did not.                                           *)
RefreshDone(c) ==
  /\ Done(c, IF phase[c] = "merging" THEN "idle" ELSE "working")
  /\ unmerged' = IF phase[c] = "merging" THEN unmerged \ {c} ELSE unmerged
RefreshScan(c) ==
  /\ First(c, "refreshing", "none") \/ Working(c, "refresh")
  /\ job' = [job EXCEPT !.at = "refreshScanned", !.ours = finds[c].up]
  /\ UNCHANGED <<file, base, finds, phase, queue, conflicts, unmerged, turns, edits>>
RefreshScanCopy(c) ==
  /\ Working(c, "refreshScanned")
  /\ job' = [job EXCEPT !.at = "refreshCompared", !.theirs = finds[c].own]
  /\ UNCHANGED <<file, base, finds, phase, queue, conflicts, unmerged, turns, edits>>
RefreshLeaves(c) ==
  /\ Working(c, "refreshCompared")
  /\ \/ job.ours = base[c] \/ job.theirs # base[c]
     \/ job.ours # NoFile /\ file[From[c]] = NoFile
  /\ RefreshDone(c) /\ Leave
  /\ UNCHANGED <<base, conflicts, turns, edits>>

(* Mutant: also over what the member has changed. *)
RefreshTakesAll(c) ==
  /\ Working(c, "refreshCompared") /\ job.ours # base[c]
  /\ \/ job.ours = NoFile /\ Write(c, NoFile) /\ InSync(c, NoFile) /\ RefreshDone(c)
     \/ /\ job.ours # NoFile /\ file[From[c]] # NoFile
        /\ Holding("refreshPut", file[From[c]]) /\ Leave /\ UNCHANGED <<base, unmerged>>
  /\ UNCHANGED <<conflicts, turns, edits>>

RefreshTakes(c) ==
  /\ Working(c, "refreshCompared") /\ job.ours # base[c] /\ job.theirs = base[c]
  /\ \/ job.ours = NoFile /\ Write(c, NoFile) /\ InSync(c, NoFile) /\ RefreshDone(c)
     \/ /\ job.ours # NoFile /\ file[From[c]] # NoFile
        /\ Holding("refreshPut", file[From[c]]) /\ Leave /\ UNCHANGED <<base, unmerged>>
  /\ UNCHANGED <<conflicts, turns, edits>>
RefreshPut(c) ==
  /\ Working(c, "refreshPut") /\ Write(c, job.body) /\ Go("refreshStat")
  /\ UNCHANGED <<base, conflicts, unmerged, turns, edits>>
(* The copy's own file has been written by a merge or a refresh. *)
StatOwn(c) ==
  /\ \/ Working(c, "statOwn") /\ Go("refresh") /\ UNCHANGED unmerged
     \/ Working(c, "refreshStat") /\ RefreshDone(c)
  /\ finds' = [finds EXCEPT ![c].own = job.body] /\ InSync(c, job.body)
  /\ UNCHANGED <<file, conflicts, turns, edits>>

Merge(c) ==
  \/ MergeScan(c) \/ MergeScanCopy(c) \/ Unchanged(c) \/ TakeTheirs(c) \/ SameChange(c)
  \/ MergeBoth(c) \/ Conflict(c) \/ MergeFails(c) \/ Put(c) \/ Stat(c) \/ StatBoth(c) \/ StatOwn(c)
Refresh(c) == RefreshScan(c) \/ RefreshScanCopy(c) \/ RefreshLeaves(c) \/ RefreshTakes(c) \/ RefreshPut(c)
Next ==
  \/ Edit(Project)
  \/ \E c \in Copies :
       \/ AgentEdits(c) \/ Open(c) \/ BeginTurn(c) \/ EndTurn(c) \/ Close(c)
       \/ CopyIn(c) \/ RemoveCopy(c) \/ Merge(c) \/ Refresh(c)
Spec == Init /\ [][Next]_vars
-----------------------------------------------------------------------------
(* No edit gets lost: one that nobody took back is in the project, in a    *)
(* conflict copy, or a change of a copy that is still to be merged.  The   *)
(* exceptions are a copy thrown away with changes that no merge brought    *)
(* in, a conflict copy written over by the next opening of its session,    *)
(* and an edit made while a job works on the file.                         *)
ToMerge(e) == \E c \in Copies : e \in file[c] \ base[c]
Kept == UNION {kept[c][n] : c \in Copies, n \in 1..MaxTurns}
EditsSurvive ==
  \A e \in made \ (excused \cup raced) : e \in file[Project] \cup Kept \/ ToMerge(e)

(* After a merge that nobody edited under, the copy is what its parent is, *)
(* whatever was merged, kept aside or left as it was: the next turn starts *)
(* from there.                                                             *)
MergedIsInSync ==
  [][\A c \in Copies : phase[c] = "merging" /\ phase'[c] = "idle" /\ c \notin unmerged' /\ raced = {}
       => file'[c] = file'[From[c]] /\ base'[c] = file'[c]]_vars
=============================================================================
