--------------------------- MODULE Workdirs_proofs ---------------------------
(***************************************************************************)
(* No edit of the project or of a copy gets lost, and a merge that nobody  *)
(* edits under leaves the copy in sync, for any number of threads, members,*)
(* edits and turns; and no queued turn of the learning queue is lost while *)
(* one process at a time has the project open.                             *)
(***************************************************************************)
EXTENDS Workdirs, LearningQueue, FiniteSetTheorems, SequenceTheorems, WellFoundedInduction, TLAPS

(* An edit that the properties speak of: nobody took it back, it was not   *)
(* made under a job, and no conflict copy holds it.                        *)
Live == made \ (excused \cup raced \cup Kept)
(* Files are compared on the live edits, L; as long as nobody has edited   *)
(* under a job, R = {}, they are compared as they are.                     *)
Within(L, a, b) == \A e \in L : e \in a => e \in b
Agree(L, R, a, b) == (\A e \in L : e \in a <=> e \in b) /\ (R = {} => a = b)

Phases == {"none", "opening", "idle", "refreshing", "working", "merging", "closing"}
Stages == {"none", "scanned", "compared", "put", "stat", "putBoth", "statBoth", "statOwn", "refresh",
           "refreshScanned", "refreshCompared", "refreshPut", "refreshStat"}
MergeStages == {"scanned", "compared", "put", "stat", "putBoth", "statBoth", "statOwn", "refresh"}
RefreshStages == {"refresh", "refreshScanned", "refreshCompared", "refreshPut", "refreshStat"}

Files == SUBSET Nat
Found == [up : Files, own : Files]
Jobs == [at : Stages, ours : Files, theirs : Files, body : Files]
WorkdirsTypeOK ==
  /\ file \in [Dirs -> Files] /\ base \in [Copies -> Files] /\ finds \in [Copies -> Found]
  /\ phase \in [Copies -> Phases] /\ queue \in Seq(Copies)
  /\ job \in Jobs /\ kept \in [Copies -> [1..MaxTurns -> Files]]
  /\ merges \in [Copies -> Nat] /\ turns \in Nat
  /\ IsFiniteSet(made) /\ made \subseteq Nat \ {Original}

(* The next edit is in nothing that is there. *)
Past(S) == \A e \in S : e <= Cardinality(made)
NextIsNew ==
  /\ Past(made) /\ Past(job.ours) /\ Past(job.theirs) /\ Past(job.body)
  /\ \A d \in Dirs : Past(file[d])
  /\ \A c \in Copies : Past(base[c]) /\ Past(finds[c].up) /\ Past(finds[c].own)

(* A member has a copy only while its thread has one, and a copy is empty  *)
(* before it is made and after it is removed.                              *)
Out(c) == phase[c] \in {"none", "opening"}
CopiesAreOpen ==
  \A c \in Copies :
    /\ Out(c) => file[c] = NoFile
    /\ phase[c] # "none" /\ From[c] \in Copies => phase[From[c]] \notin {"none", "opening", "closing"}

(* There is room for the conflict copy of every merge to come. *)
MayKeep(c) ==
  \/ phase[c] \in {"refreshing", "working"}
  \/ phase[c] = "merging" /\ ~(queue # <<>> /\ c = Head(queue) /\ job.at \in RefreshStages)
ConflictsCounted ==
  /\ turns <= MaxTurns
  /\ \A c \in Copies : merges[c] <= turns /\ (MayKeep(c) => merges[c] < turns)

(* The job is that of the first in the queue. *)
JobIsAt ==
  job.at # "none" =>
    /\ queue # <<>> /\ phase[Head(queue)] \in {"merging", "refreshing"}
    /\ job.at \in MergeStages => phase[Head(queue)] = "merging"

(* What a scan gives is what is there. *)
FindsTell(L, R) ==
  \A c \in Copies : ~Out(c) => Agree(L, R, finds[c].up, file[From[c]]) /\ Agree(L, R, finds[c].own, file[c])

(* What a copy and its parent had in common both still have, and a session *)
(* that is not marked has nothing more.                                    *)
Settled(c) == phase[c] \in {"idle", "closing"} /\ c \notin unmerged
BasesTell(L) ==
  \A c \in Copies : ~Out(c) =>
    /\ Within(L, base[c], file[c]) /\ Within(L, base[c], file[From[c]])
    /\ Settled(c) => Within(L, file[c], base[c])

(* What the job of c knows of the copy, its parent and their base. *)
JobKnows(L, R, c) ==
  LET up == file[From[c]]
      own == file[c]
  IN /\ job.at \in {"scanned", "compared", "refreshScanned", "refreshCompared"} => Agree(L, R, job.ours, up)
     /\ job.at \in {"compared", "put", "stat", "refreshCompared"} => Agree(L, R, job.theirs, own)
     /\ job.at = "put" => Agree(L, R, job.body, own) /\ Agree(L, R, base[c], up)
     /\ job.at = "stat" => Agree(L, R, job.theirs, up)
     /\ job.at = "putBoth" => Within(L, up, job.body)
     /\ job.at \in {"putBoth", "statBoth", "refreshPut"} => Within(L, own, job.body)
     /\ job.at \in {"statBoth", "statOwn", "refreshPut", "refreshStat"} => Agree(L, R, job.body, up)
     /\ job.at \in {"statOwn", "refreshStat"} => Agree(L, R, job.body, own)
     /\ job.at \in {"refresh", "refreshScanned", "refreshCompared"} /\ phase[c] = "merging" => Agree(L, R, base[c], own)
JobTells(L, R) == job.at # "none" => JobKnows(L, R, Head(queue))

DataTells(L, R) == FindsTell(L, R) /\ BasesTell(L) /\ JobTells(L, R)
FilesHave(L) == \A e \in L : \E d \in Dirs : e \in file[d]

WorkdirsInv ==
  /\ WorkdirsTypeOK /\ NextIsNew /\ CopiesAreOpen /\ ConflictsCounted /\ JobIsAt
  /\ DataTells(Live, raced) /\ FilesHave(Live)
-----------------------------------------------------------------------------
(* Queues, records and scans. *)

LEMMA Queues ==
  ASSUME NEW q \in Seq(Copies)
  PROVE  /\ \A c \in Copies : /\ Append(q, c) \in Seq(Copies) /\ Append(q, c) # <<>>
                              /\ Head(Append(q, c)) = IF q = <<>> THEN c ELSE Head(q)
         /\ q # <<>> => Head(q) \in Copies /\ Tail(q) \in Seq(Copies)
<1>1. ASSUME NEW c \in Copies
      PROVE  /\ Append(q, c) \in Seq(Copies) /\ Append(q, c) # <<>>
             /\ Head(Append(q, c)) = IF q = <<>> THEN c ELSE Head(q)
  <2>1. Append(q, c) \in Seq(Copies) /\ Append(q, c) # <<>>
    BY AppendProperties
  <2>2. Head(Append(q, c)) = IF q = <<>> THEN c ELSE Head(q)
    OBVIOUS
  <2> QED BY <2>1, <2>2
<1> QED BY <1>1, HeadTailProperties

LEMMA SeenFacts ==
  ASSUME finds \in [Copies -> Found], NEW d, NEW new \in Files
  PROVE  /\ Seen(d, new) \in [Copies -> Found]
         /\ \A c \in Copies : /\ Seen(d, new)[c].up = IF From[c] = d THEN new ELSE finds[c].up
                              /\ Seen(d, new)[c].own = IF c = d THEN new ELSE finds[c].own
BY DEF Seen, Found

LEMMA FoundFields ==
  ASSUME NEW f \in [Copies -> Found], NEW c \in Copies, NEW x \in Files
  PROVE  /\ [f EXCEPT ![c].up = x] \in [Copies -> Found] /\ [f EXCEPT ![c].own = x] \in [Copies -> Found]
         /\ \A k \in Copies : /\ [f EXCEPT ![c].up = x][k].up = IF k = c THEN x ELSE f[k].up
                              /\ [f EXCEPT ![c].up = x][k].own = f[k].own
                              /\ [f EXCEPT ![c].own = x][k].own = IF k = c THEN x ELSE f[k].own
                              /\ [f EXCEPT ![c].own = x][k].up = f[k].up
BY DEF Found

IsJob(j, at, ours, theirs, body) ==
  j \in Jobs /\ j.at = at /\ j.ours = ours /\ j.theirs = theirs /\ j.body = body
LEMMA JobFields ==
  ASSUME job \in Jobs, NEW at \in Stages
  PROVE  /\ IsJob([job EXCEPT !.at = at], at, job.ours, job.theirs, job.body)
         /\ \A x \in Files :
              /\ IsJob([job EXCEPT !.at = at, !.ours = x], at, x, job.theirs, job.body)
              /\ IsJob([job EXCEPT !.at = at, !.theirs = x], at, job.ours, x, job.body)
              /\ IsJob([job EXCEPT !.at = at, !.body = x], at, job.ours, job.theirs, x)
<1>1. IsJob([job EXCEPT !.at = at], at, job.ours, job.theirs, job.body)
  BY DEF IsJob, Jobs
<1>2. ASSUME NEW x \in Files PROVE IsJob([job EXCEPT !.at = at, !.ours = x], at, x, job.theirs, job.body)
  BY DEF IsJob, Jobs
<1>3. ASSUME NEW x \in Files PROVE IsJob([job EXCEPT !.at = at, !.theirs = x], at, job.ours, x, job.body)
  BY DEF IsJob, Jobs
<1>4. ASSUME NEW x \in Files PROVE IsJob([job EXCEPT !.at = at, !.body = x], at, job.ours, job.theirs, x)
  BY DEF IsJob, Jobs
<1> QED BY <1>1, <1>2, <1>3, <1>4

LEMMA StageNames ==
  /\ "scanned" \in Stages /\ "compared" \in Stages /\ "put" \in Stages /\ "stat" \in Stages
  /\ "putBoth" \in Stages /\ "statBoth" \in Stages /\ "statOwn" \in Stages /\ "refresh" \in Stages
  /\ "refreshScanned" \in Stages /\ "refreshCompared" \in Stages /\ "refreshPut" \in Stages
  /\ "refreshStat" \in Stages
BY DEF Stages

LEMMA MergeIsFile == \A b, o, t \in Files : MergeText(b, o, t) \in Files
BY DEF MergeText, Files

LEMMA Directories ==
  /\ \A c \in Copies : c \in Dirs /\ From[c] \in Dirs /\ From[c] # c
  /\ Project \in Dirs /\ Project \notin Copies /\ \A d \in Dirs : d = Project \/ d \in Copies
BY WorkdirsAssumption DEF Dirs

LEMMA FileFacts ==
  ASSUME WorkdirsTypeOK
  PROVE  /\ NoFile \in Files /\ job.ours \in Files /\ job.theirs \in Files /\ job.body \in Files
         /\ \A c \in Copies : /\ file[c] \in Files /\ file[From[c]] \in Files /\ base[c] \in Files
                              /\ finds[c].up \in Files /\ finds[c].own \in Files
<1>1. NoFile \in Files
  BY DEF NoFile, Files
<1>2. job.ours \in Files /\ job.theirs \in Files /\ job.body \in Files
  BY DEF WorkdirsTypeOK, Jobs
<1>3. ASSUME NEW c \in Copies
      PROVE  /\ file[c] \in Files /\ file[From[c]] \in Files /\ base[c] \in Files
             /\ finds[c].up \in Files /\ finds[c].own \in Files
  BY Directories DEF WorkdirsTypeOK, Found
<1> QED BY <1>1, <1>2, <1>3

-----------------------------------------------------------------------------
(* What each step does. *)
LEMMA ChangeDoes ==
  ASSUME WorkdirsTypeOK, NEW d \in Dirs, NEW new \in Files, Change(d, new)
  PROVE  /\ file' = [file EXCEPT ![d] = new] /\ finds' \in [Copies -> Found]
         /\ \A k \in Copies : /\ finds'[k].up = IF From[k] = d THEN new ELSE finds[k].up
                             /\ finds'[k].own = IF k = d THEN new ELSE finds[k].own
         /\ made' = made \cup {Cardinality(made) + 1}
         /\ excused' = excused \cup (file[d] \ new) \cup ({Cardinality(made) + 1} \ new)
         /\ raced' = IF d \in AtWork THEN raced \cup {Cardinality(made) + 1} ELSE raced
         /\ UNCHANGED <<base, phase, queue, job, merges, kept, unmerged, turns>>
BY SeenFacts DEF WorkdirsTypeOK, Change, Write, conflicts

LEMMA OpenDoes ==
  ASSUME WorkdirsTypeOK, NEW c \in Copies, Open(c)
  PROVE  /\ phase[c] = "none" /\ Works(From[c]) /\ phase' = [phase EXCEPT ![c] = "opening"] /\ queue' = Append(queue, c)
         /\ base' = [base EXCEPT ![c] = file[From[c]]]
         /\ UNCHANGED <<file, finds, job, merges, kept, unmerged, turns, made, excused, raced>>
BY DEF WorkdirsTypeOK, Open, Enqueue, conflicts, edits

LEMMA BeginTurnDoes ==
  ASSUME WorkdirsTypeOK, NEW c \in Copies, BeginTurn(c)
  PROVE  /\ phase[c] = "idle" /\ phase' = [phase EXCEPT ![c] = "refreshing"] /\ queue' = Append(queue, c)
         /\ turns < MaxTurns /\ turns' = turns + 1
         /\ UNCHANGED <<file, base, finds, job, merges, kept, unmerged, made, excused, raced>>
BY DEF WorkdirsTypeOK, BeginTurn, Enqueue, conflicts, edits

LEMMA EndTurnDoes ==
  ASSUME WorkdirsTypeOK, NEW c \in Copies, EndTurn(c)
  PROVE  /\ phase[c] = "working"
         /\ \/ phase' = [phase EXCEPT ![c] = "merging"] /\ queue' = Append(queue, c) /\ unmerged' = unmerged
            \/ phase' = [phase EXCEPT ![c] = "idle"] /\ queue' = queue /\ unmerged' = unmerged \cup {c}
         /\ UNCHANGED <<file, base, finds, job, merges, kept, turns, made, excused, raced>>
BY DEF WorkdirsTypeOK, EndTurn, Enqueue, conflicts, edits

LEMMA CloseDoes ==
  ASSUME WorkdirsTypeOK, NEW c \in Copies, Close(c)
  PROVE  /\ phase[c] = "idle" /\ \A m \in Copies : From[m] = c => phase[m] = "none"
         /\ phase' = [phase EXCEPT ![c] = "closing"] /\ queue' = Append(queue, c)
         /\ UNCHANGED <<file, base, finds, job, merges, kept, unmerged, turns, made, excused, raced>>
BY DEF WorkdirsTypeOK, Close, Enqueue, conflicts, edits

LEMMA CopyInDoes ==
  ASSUME WorkdirsTypeOK, NEW c \in Copies, CopyIn(c)
  PROVE  \E body \in {NoFile, file[From[c]]} :
           /\ queue # <<>> /\ c = Head(queue) /\ phase[c] = "opening" /\ job.at = "none"
           /\ phase' = [phase EXCEPT ![c] = "idle"] /\ queue' = Tail(queue) /\ job' = NoJob /\ merges' = [merges EXCEPT ![c] = 0]
           /\ base' = [base EXCEPT ![c] = body] /\ file' = [file EXCEPT ![c] = body] /\ finds' \in [Copies -> Found]
           /\ \A k \in Copies : /\ finds'[k].up = IF k = c THEN file[From[c]] ELSE IF From[k] = c THEN body ELSE finds[k].up
                               /\ finds'[k].own = IF k = c THEN body ELSE finds[k].own
           /\ UNCHANGED <<kept, unmerged, turns, made, excused, raced>>
<1> DEFINE body == IF base[c] = NoFile THEN NoFile ELSE file[From[c]]
<1>1. body \in Files /\ body \in {NoFile, file[From[c]]} /\ file[From[c]] \in Files
  BY FileFacts
<1>2. /\ finds' = [Seen(c, body) EXCEPT ![c].up = file[From[c]]]
      /\ file' = [file EXCEPT ![c] = body] /\ base' = [base EXCEPT ![c] = body]
  BY DEF CopyIn, InSync
<1> HIDE DEF body
<1>3. Seen(c, body) \in [Copies -> Found]
  BY <1>1, SeenFacts DEF WorkdirsTypeOK
<1>4. /\ finds' \in [Copies -> Found]
      /\ \A k \in Copies : /\ finds'[k].up = IF k = c THEN file[From[c]] ELSE Seen(c, body)[k].up
                          /\ finds'[k].own = Seen(c, body)[k].own
  BY <1>1, <1>2, <1>3 DEF Found, Files
<1>5. \A k \in Copies : /\ Seen(c, body)[k].up = IF From[k] = c THEN body ELSE finds[k].up
                       /\ Seen(c, body)[k].own = IF k = c THEN body ELSE finds[k].own
  BY <1>1, SeenFacts DEF WorkdirsTypeOK
<1>6. /\ finds' \in [Copies -> Found]
      /\ \A k \in Copies : /\ finds'[k].up = IF k = c THEN file[From[c]] ELSE IF From[k] = c THEN body ELSE finds[k].up
                          /\ finds'[k].own = IF k = c THEN body ELSE finds[k].own
  BY <1>4, <1>5
<1>7. /\ queue # <<>> /\ c = Head(queue) /\ phase[c] = "opening" /\ job.at = "none"
      /\ phase' = [phase EXCEPT ![c] = "idle"] /\ queue' = Tail(queue) /\ job' = NoJob
      /\ merges' = [merges EXCEPT ![c] = 0] /\ UNCHANGED <<kept, unmerged, turns, made, excused, raced>>
  BY DEF CopyIn, First, Done, edits
<1> QED BY <1>1, <1>2, <1>6, <1>7

LEMMA RemoveCopyDoes ==
  ASSUME WorkdirsTypeOK, NEW c \in Copies, RemoveCopy(c)
  PROVE  /\ queue # <<>> /\ c = Head(queue) /\ phase[c] = "closing" /\ job.at = "none"
         /\ file' = [file EXCEPT ![c] = NoFile] /\ finds' \in [Copies -> Found]
         /\ \A k \in Copies : /\ finds'[k].up = IF From[k] = c THEN NoFile ELSE finds[k].up
                             /\ finds'[k].own = IF k = c THEN NoFile ELSE finds[k].own
         /\ phase' = [phase EXCEPT ![c] = "none"] /\ queue' = Tail(queue) /\ job' = NoJob /\ base' = [base EXCEPT ![c] = NoFile]
         /\ unmerged' = unmerged \ {c}
         /\ excused' = IF c \in unmerged THEN excused \cup (file[c] \ base[c]) ELSE excused
         /\ UNCHANGED <<merges, kept, turns, made, raced>>
BY FileFacts, SeenFacts, Directories DEF WorkdirsTypeOK, RemoveCopy, First, Write, InSync, Done, conflicts

LEMMA MergeScanDoes ==
  ASSUME WorkdirsTypeOK, NEW c \in Copies, MergeScan(c)
  PROVE  /\ queue # <<>> /\ c = Head(queue) /\ phase[c] = "merging" /\ job.at = "none"
         /\ IsJob(job', "scanned", finds[c].up, job.theirs, job.body)
         /\ UNCHANGED <<file, base, finds, phase, queue, merges, kept, unmerged, turns, made, excused, raced>>
BY FileFacts, Directories, StageNames, JobFields DEF WorkdirsTypeOK, MergeScan, First, conflicts, edits

LEMMA MergeScanCopyDoes ==
  ASSUME WorkdirsTypeOK, NEW c \in Copies, MergeScanCopy(c)
  PROVE  /\ queue # <<>> /\ c = Head(queue) /\ job.at = "scanned"
         /\ IsJob(job', "compared", job.ours, finds[c].own, job.body)
         /\ UNCHANGED <<file, base, finds, phase, queue, merges, kept, unmerged, turns, made, excused, raced>>
BY FileFacts, Directories, StageNames, JobFields DEF WorkdirsTypeOK, MergeScanCopy, Working, conflicts, edits

LEMMA UnchangedDoes ==
  ASSUME WorkdirsTypeOK, NEW c \in Copies, Unchanged(c)
  PROVE  /\ queue # <<>> /\ c = Head(queue) /\ job.at = "compared"
         /\ job.theirs = base[c]
         /\ IsJob(job', "refresh", job.ours, job.theirs, job.body)
         /\ UNCHANGED <<file, base, finds, phase, queue, merges, kept, unmerged, turns, made, excused, raced>>
BY FileFacts, Directories, StageNames, JobFields DEF WorkdirsTypeOK, Compared, Working, Leave,
   conflicts, Unchanged, Go

LEMMA TakeTheirsDoes ==
  ASSUME WorkdirsTypeOK, NEW c \in Copies, TakeTheirs(c)
  PROVE  /\ queue # <<>> /\ c = Head(queue) /\ job.at = "compared"
         /\ job.theirs # base[c] /\ job.ours = base[c]
         /\ \/ /\ job.theirs = NoFile /\ base' = [base EXCEPT ![c] = NoFile]
               /\ IsJob(job', "refresh", job.ours, job.theirs, job.body)
               /\ file' = [file EXCEPT ![From[c]] = NoFile] /\ finds' \in [Copies -> Found]
               /\ \A k \in Copies : /\ finds'[k].up = IF From[k] = From[c] THEN NoFile ELSE finds[k].up
                                   /\ finds'[k].own = IF k = From[c] THEN NoFile ELSE finds[k].own
            \/ /\ job.theirs # NoFile /\ UNCHANGED <<file, finds, base>>
               /\ IsJob(job', "put", job.ours, job.theirs, file[c])
         /\ UNCHANGED <<phase, queue, merges, kept, unmerged, turns, made, excused, raced>>
<1>1. /\ queue # <<>> /\ c = Head(queue) /\ job.at = "compared" /\ job.theirs # base[c] /\ job.ours = base[c]
      /\ UNCHANGED <<phase, queue, merges, kept, unmerged, turns, made, excused, raced>>
      /\ \/ /\ job.theirs = NoFile /\ base' = [base EXCEPT ![c] = NoFile] /\ job' = [job EXCEPT !.at = "refresh"]
            /\ file' = [file EXCEPT ![From[c]] = NoFile] /\ finds' = Seen(From[c], NoFile)
         \/ /\ job.theirs # NoFile /\ UNCHANGED <<file, finds, base>>
            /\ job' = [job EXCEPT !.at = "put", !.body = file[c]]
  BY DEF TakeTheirs, Write, InSync, Go, Holding, Leave, Compared, Working, conflicts
<1>2. /\ IsJob([job EXCEPT !.at = "refresh"], "refresh", job.ours, job.theirs, job.body)
      /\ IsJob([job EXCEPT !.at = "put", !.body = file[c]], "put", job.ours, job.theirs, file[c])
  BY FileFacts, StageNames, JobFields DEF WorkdirsTypeOK
<1>3. /\ Seen(From[c], NoFile) \in [Copies -> Found]
      /\ \A k \in Copies : /\ Seen(From[c], NoFile)[k].up = IF From[k] = From[c] THEN NoFile ELSE finds[k].up
                          /\ Seen(From[c], NoFile)[k].own = IF k = From[c] THEN NoFile ELSE finds[k].own
  BY FileFacts, Directories, SeenFacts DEF WorkdirsTypeOK
<1> QED BY <1>1, <1>2, <1>3

LEMMA SameChangeDoes ==
  ASSUME WorkdirsTypeOK, NEW c \in Copies, SameChange(c)
  PROVE  /\ queue # <<>> /\ c = Head(queue) /\ job.at = "compared"
         /\ job.ours = job.theirs /\ base' = [base EXCEPT ![c] = job.theirs]
         /\ IsJob(job', "refresh", job.ours, job.theirs, job.body)
         /\ UNCHANGED <<file, finds, phase, queue, merges, kept, unmerged, turns, made, excused, raced>>
BY FileFacts, Directories, StageNames, JobFields DEF WorkdirsTypeOK, Compared, Working, Leave,
   conflicts, SameChange, InSync, Go

LEMMA MergeBothDoes ==
  ASSUME WorkdirsTypeOK, NEW c \in Copies, MergeBoth(c)
  PROVE  /\ queue # <<>> /\ c = Head(queue) /\ job.at = "compared"
         /\ IsJob(job', "putBoth", job.ours, job.theirs, MergeText(base[c], file[From[c]], file[c]))
         /\ UNCHANGED <<file, base, finds, phase, queue, merges, kept, unmerged, turns, made, excused, raced>>
BY MergeIsFile, FileFacts, Directories, StageNames, JobFields DEF WorkdirsTypeOK, Compared, Working,
   Leave, conflicts, MergeBoth, Holding

LEMMA ConflictDoes ==
  ASSUME WorkdirsTypeOK, NEW c \in Copies, Conflict(c)
  PROVE  /\ queue # <<>> /\ c = Head(queue) /\ job.at = "compared"
         /\ base' = [base EXCEPT ![c] = job.theirs]
         /\ IsJob(job', "refresh", job.ours, job.theirs, job.body)
         /\ \/ job.theirs = NoFile /\ UNCHANGED <<merges, kept, excused>>
            \/ /\ merges' = [merges EXCEPT ![c] = merges[c] + 1] /\ excused' = excused \cup kept[c][merges[c] + 1]
               /\ kept' = [kept EXCEPT ![c][merges[c] + 1] = file[c]]
         /\ UNCHANGED <<file, finds, phase, queue, unmerged, turns, made, raced>>
BY FileFacts, Directories, StageNames, JobFields DEF WorkdirsTypeOK, Compared, Working, Leave,
   conflicts, Conflict, Keep, InSync, Go

LEMMA MergeFailsDoes ==
  ASSUME WorkdirsTypeOK, NEW c \in Copies, MergeFails(c)
  PROVE  /\ queue # <<>> /\ c = Head(queue) /\ job.at = "compared"
         /\ phase' = [phase EXCEPT ![c] = "idle"] /\ queue' = Tail(queue) /\ job' = NoJob /\ unmerged' = unmerged \cup {c}
         /\ UNCHANGED <<file, base, finds, merges, kept, turns, made, excused, raced>>
BY DEF WorkdirsTypeOK, MergeFails, Working, Done, Leave, conflicts, edits

LEMMA PutDoes ==
  ASSUME WorkdirsTypeOK, NEW c \in Copies, Put(c)
  PROVE  /\ queue # <<>> /\ c = Head(queue)
         /\ \/ job.at = "put" /\ IsJob(job', "stat", job.ours, job.theirs, job.body)
            \/ job.at = "putBoth" /\ IsJob(job', "statBoth", job.ours, job.theirs, job.body)
         /\ file' = [file EXCEPT ![From[c]] = job.body] /\ finds' \in [Copies -> Found]
         /\ \A k \in Copies : /\ finds'[k].up = IF From[k] = From[c] THEN job.body ELSE finds[k].up
                             /\ finds'[k].own = IF k = From[c] THEN job.body ELSE finds[k].own
         /\ unmerged' = Late(c)
         /\ UNCHANGED <<base, phase, queue, merges, kept, turns, made, excused, raced>>
<1>1. /\ queue # <<>> /\ c = Head(queue) /\ file' = [file EXCEPT ![From[c]] = job.body] /\ unmerged' = Late(c)
      /\ finds' = Seen(From[c], job.body)
      /\ UNCHANGED <<base, phase, queue, merges, kept, turns, made, excused, raced>>
      /\ \/ job.at = "put" /\ job' = [job EXCEPT !.at = "stat"]
         \/ job.at = "putBoth" /\ job' = [job EXCEPT !.at = "statBoth"]
  BY DEF Put, Working, Write, Go, conflicts, edits
<1>2. /\ IsJob([job EXCEPT !.at = "stat"], "stat", job.ours, job.theirs, job.body)
      /\ IsJob([job EXCEPT !.at = "statBoth"], "statBoth", job.ours, job.theirs, job.body)
  BY StageNames, JobFields DEF WorkdirsTypeOK
<1>3. /\ finds' \in [Copies -> Found]
      /\ \A k \in Copies : /\ finds'[k].up = IF From[k] = From[c] THEN job.body ELSE finds[k].up
                          /\ finds'[k].own = IF k = From[c] THEN job.body ELSE finds[k].own
  BY <1>1, FileFacts, Directories, SeenFacts DEF WorkdirsTypeOK
<1> QED BY <1>1, <1>2, <1>3

LEMMA StatDoes ==
  ASSUME WorkdirsTypeOK, NEW c \in Copies, Stat(c)
  PROVE  /\ queue # <<>> /\ c = Head(queue) /\ job.at = "stat" /\ base' = [base EXCEPT ![c] = job.theirs] /\ finds' \in [Copies -> Found]
         /\ \A k \in Copies : finds'[k].up = (IF k = c THEN job.theirs ELSE finds[k].up) /\ finds'[k].own = finds[k].own
         /\ IsJob(job', "refresh", job.ours, job.theirs, job.body)
         /\ UNCHANGED <<file, phase, queue, merges, kept, unmerged, turns, made, excused, raced>>
<1>1. /\ queue # <<>> /\ c = Head(queue) /\ job.at = "stat" /\ base' = [base EXCEPT ![c] = job.theirs]
      /\ finds' = [finds EXCEPT ![c].up = job.theirs] /\ job' = [job EXCEPT !.at = "refresh"]
      /\ UNCHANGED <<file, phase, queue, merges, kept, unmerged, turns, made, excused, raced>>
  BY DEF Stat, Working, InSync, Go, conflicts, edits
<1>2. IsJob([job EXCEPT !.at = "refresh"], "refresh", job.ours, job.theirs, job.body)
  BY StageNames, JobFields DEF WorkdirsTypeOK
<1>3. finds \in [Copies -> Found] /\ job.theirs \in Files
  BY FileFacts DEF WorkdirsTypeOK
<1>4. /\ finds' \in [Copies -> Found]
      /\ \A k \in Copies : finds'[k].up = (IF k = c THEN job.theirs ELSE finds[k].up) /\ finds'[k].own = finds[k].own
  BY <1>1, <1>3 DEF Found
<1> QED BY <1>1, <1>2, <1>4

LEMMA StatBothDoes ==
  ASSUME WorkdirsTypeOK, NEW c \in Copies, StatBoth(c)
  PROVE  /\ queue # <<>> /\ c = Head(queue) /\ job.at = "statBoth" /\ file' = [file EXCEPT ![c] = job.body] /\ finds' \in [Copies -> Found]
         /\ \A k \in Copies : /\ finds'[k].up = IF k = c \/ From[k] = c THEN job.body ELSE finds[k].up
                             /\ finds'[k].own = IF k = c THEN job.body ELSE finds[k].own
         /\ IsJob(job', "statOwn", job.ours, job.theirs, job.body)
         /\ UNCHANGED <<base, phase, queue, merges, kept, unmerged, turns, made, excused, raced>>
<1>1. job.body \in Files
  BY FileFacts
<1>2. finds' = [Seen(c, job.body) EXCEPT ![c].up = job.body]
  BY DEF StatBoth
<1>3. /\ Seen(c, job.body) \in [Copies -> Found]
      /\ \A k \in Copies : /\ Seen(c, job.body)[k].up = IF From[k] = c THEN job.body ELSE finds[k].up
                          /\ Seen(c, job.body)[k].own = IF k = c THEN job.body ELSE finds[k].own
  BY <1>1, SeenFacts DEF WorkdirsTypeOK
<1>4. /\ finds' \in [Copies -> Found]
      /\ \A k \in Copies : /\ finds'[k].up = IF k = c THEN job.body ELSE Seen(c, job.body)[k].up
                          /\ finds'[k].own = Seen(c, job.body)[k].own
  BY <1>1, <1>2, <1>3 DEF Found, Files
<1>5. IsJob(job', "statOwn", job.ours, job.theirs, job.body)
  BY StageNames, JobFields DEF WorkdirsTypeOK, StatBoth, Go
<1> QED BY <1>3, <1>4, <1>5 DEF StatBoth, Working, Go, conflicts, edits

LEMMA StatOwnDoes ==
  ASSUME WorkdirsTypeOK, NEW c \in Copies, StatOwn(c)
  PROVE  /\ queue # <<>> /\ c = Head(queue) /\ base' = [base EXCEPT ![c] = job.body] /\ finds' \in [Copies -> Found]
         /\ \A k \in Copies : finds'[k].own = (IF k = c THEN job.body ELSE finds[k].own) /\ finds'[k].up = finds[k].up
         /\ \/ /\ job.at = "statOwn" /\ UNCHANGED <<phase, queue, unmerged>>
               /\ IsJob(job', "refresh", job.ours, job.theirs, job.body)
            \/ /\ job.at = "refreshStat"
               /\ queue' = Tail(queue) /\ job' = NoJob
               /\ IF phase[c] = "merging" THEN phase' = [phase EXCEPT ![c] = "idle"] /\ unmerged' = unmerged \ {c}
                  ELSE phase' = [phase EXCEPT ![c] = "working"] /\ unmerged' = unmerged
         /\ UNCHANGED <<file, merges, kept, turns, made, excused, raced>>
<1>1. /\ queue # <<>> /\ c = Head(queue) /\ base' = [base EXCEPT ![c] = job.body]
      /\ finds' = [finds EXCEPT ![c].own = job.body] /\ UNCHANGED <<file, merges, kept, turns, made, excused, raced>>
      /\ \/ /\ job.at = "statOwn" /\ UNCHANGED <<phase, queue, unmerged>> /\ job' = [job EXCEPT !.at = "refresh"]
         \/ job.at = "refreshStat" /\ RefreshDone(c)
  BY DEF StatOwn, Working, InSync, Go, conflicts, edits
<1>2. IsJob([job EXCEPT !.at = "refresh"], "refresh", job.ours, job.theirs, job.body)
  BY StageNames, JobFields DEF WorkdirsTypeOK
<1>3. finds \in [Copies -> Found] /\ job.body \in Files
  BY FileFacts DEF WorkdirsTypeOK
<1>4. /\ finds' \in [Copies -> Found]
      /\ \A k \in Copies : finds'[k].own = (IF k = c THEN job.body ELSE finds[k].own) /\ finds'[k].up = finds[k].up
  BY <1>1, <1>3 DEF Found
<1> QED BY <1>1, <1>2, <1>4 DEF RefreshDone, Done

LEMMA RefreshScanDoes ==
  ASSUME WorkdirsTypeOK, NEW c \in Copies, RefreshScan(c)
  PROVE  /\ queue # <<>> /\ c = Head(queue) /\ ((phase[c] = "refreshing" /\ job.at = "none") \/ job.at = "refresh")
         /\ IsJob(job', "refreshScanned", finds[c].up, job.theirs, job.body)
         /\ UNCHANGED <<file, base, finds, phase, queue, merges, kept, unmerged, turns, made, excused, raced>>
BY FileFacts, Directories, StageNames, JobFields DEF WorkdirsTypeOK, RefreshScan, First, Working,
   conflicts, edits

LEMMA RefreshScanCopyDoes ==
  ASSUME WorkdirsTypeOK, NEW c \in Copies, RefreshScanCopy(c)
  PROVE  /\ queue # <<>> /\ c = Head(queue) /\ job.at = "refreshScanned"
         /\ IsJob(job', "refreshCompared", job.ours, finds[c].own, job.body)
         /\ UNCHANGED <<file, base, finds, phase, queue, merges, kept, unmerged, turns, made, excused, raced>>
BY FileFacts, Directories, StageNames, JobFields DEF WorkdirsTypeOK, RefreshScanCopy, Working, conflicts, edits

LEMMA RefreshLeavesDoes ==
  ASSUME WorkdirsTypeOK, NEW c \in Copies, RefreshLeaves(c)
  PROVE  /\ queue # <<>> /\ c = Head(queue) /\ job.at = "refreshCompared"
         /\ \/ job.ours = base[c] \/ job.theirs # base[c]
            \/ job.ours # NoFile /\ file[From[c]] = NoFile
         /\ queue' = Tail(queue) /\ job' = NoJob
         /\ IF phase[c] = "merging" THEN phase' = [phase EXCEPT ![c] = "idle"] /\ unmerged' = unmerged \ {c}
            ELSE phase' = [phase EXCEPT ![c] = "working"] /\ unmerged' = unmerged
         /\ UNCHANGED <<file, base, finds, merges, kept, turns, made, excused, raced>>
BY DEF WorkdirsTypeOK, RefreshLeaves, Working, RefreshDone, Done, Leave, conflicts, edits

LEMMA RefreshTakesDoes ==
  ASSUME WorkdirsTypeOK, NEW c \in Copies, RefreshTakes(c)
  PROVE  /\ queue # <<>> /\ c = Head(queue) /\ job.at = "refreshCompared"
         /\ job.theirs = base[c]
         /\ \/ /\ job.ours = NoFile /\ base' = [base EXCEPT ![c] = NoFile]
               /\ queue' = Tail(queue) /\ job' = NoJob
               /\ IF phase[c] = "merging" THEN phase' = [phase EXCEPT ![c] = "idle"] /\ unmerged' = unmerged \ {c}
                  ELSE phase' = [phase EXCEPT ![c] = "working"] /\ unmerged' = unmerged
               /\ file' = [file EXCEPT ![c] = NoFile] /\ finds' \in [Copies -> Found]
               /\ \A k \in Copies : /\ finds'[k].up = IF From[k] = c THEN NoFile ELSE finds[k].up
                                   /\ finds'[k].own = IF k = c THEN NoFile ELSE finds[k].own
            \/ /\ job.ours # NoFile /\ UNCHANGED <<file, finds, base, phase, queue, unmerged>>
               /\ IsJob(job', "refreshPut", job.ours, job.theirs, file[From[c]])
         /\ UNCHANGED <<merges, kept, turns, made, excused, raced>>
<1>1. CASE job.ours = NoFile
  BY <1>1, FileFacts, SeenFacts, Directories
     DEF WorkdirsTypeOK, RefreshTakes, Write, InSync, RefreshDone, Done, Working, conflicts, edits
<1>2. CASE job.ours # NoFile
  <2>1. /\ queue # <<>> /\ c = Head(queue) /\ job.at = "refreshCompared" /\ job.theirs = base[c]
        /\ UNCHANGED <<file, finds, base, phase, queue, unmerged, merges, kept, turns, made, excused, raced>>
        /\ job' = [job EXCEPT !.at = "refreshPut", !.body = file[From[c]]]
    BY <1>2 DEF RefreshTakes, Holding, Leave, Working, conflicts, edits
  <2>2. IsJob(job', "refreshPut", job.ours, job.theirs, file[From[c]])
    BY <2>1, FileFacts, StageNames, JobFields DEF WorkdirsTypeOK
  <2> QED BY <1>2, <2>1, <2>2
<1> QED BY <1>1, <1>2

LEMMA RefreshPutDoes ==
  ASSUME WorkdirsTypeOK, NEW c \in Copies, RefreshPut(c)
  PROVE  /\ queue # <<>> /\ c = Head(queue) /\ job.at = "refreshPut"
         /\ file' = [file EXCEPT ![c] = job.body] /\ finds' \in [Copies -> Found]
         /\ \A k \in Copies : /\ finds'[k].up = IF From[k] = c THEN job.body ELSE finds[k].up
                             /\ finds'[k].own = IF k = c THEN job.body ELSE finds[k].own
         /\ IsJob(job', "refreshStat", job.ours, job.theirs, job.body)
         /\ UNCHANGED <<base, phase, queue, merges, kept, unmerged, turns, made, excused, raced>>
<1>1. /\ queue # <<>> /\ c = Head(queue) /\ job.at = "refreshPut" /\ file' = [file EXCEPT ![c] = job.body]
      /\ finds' = Seen(c, job.body) /\ job' = [job EXCEPT !.at = "refreshStat"]
      /\ UNCHANGED <<base, phase, queue, merges, kept, unmerged, turns, made, excused, raced>>
  BY DEF RefreshPut, Working, Write, Go, conflicts, edits
<1>2. IsJob([job EXCEPT !.at = "refreshStat"], "refreshStat", job.ours, job.theirs, job.body)
  BY StageNames, JobFields DEF WorkdirsTypeOK
<1>3. /\ finds' \in [Copies -> Found]
      /\ \A k \in Copies : /\ finds'[k].up = IF From[k] = c THEN job.body ELSE finds[k].up
                          /\ finds'[k].own = IF k = c THEN job.body ELSE finds[k].own
  BY <1>1, FileFacts, Directories, SeenFacts DEF WorkdirsTypeOK
<1> QED BY <1>1, <1>2, <1>3

(* An edit of directory d. *)
EditOf(d, new) == Change(d, new) /\ new \subseteq file[d] \cup {Original, Cardinality(made) + 1}
LEMMA EditIs ==
  ASSUME WorkdirsTypeOK, NEW d \in Dirs, Edit(d)
  PROVE  \E new \in Files : EditOf(d, new)
<1> DEFINE e == Cardinality(made) + 1
<1>1. e \in Nat
  BY FS_CardinalityType DEF WorkdirsTypeOK
<1>2. file[d] \in Files
  BY DEF WorkdirsTypeOK
<1>3. PICK new \in {file[d] \cup {Original, e}, {Original, e}, NoFile} : Change(d, new)
  BY DEF Edit
<1>4. new \in Files /\ new \subseteq file[d] \cup {Original, e}
  BY <1>1, <1>2, <1>3 DEF Files, Original, NoFile
<1> QED BY <1>3, <1>4 DEF EditOf

-----------------------------------------------------------------------------
(* Every step is one of these. *)
SessionStep(c) == Open(c) \/ BeginTurn(c) \/ EndTurn(c) \/ Close(c) \/ CopyIn(c) \/ RemoveCopy(c)
LEMMA Steps ==
  ASSUME WorkdirsTypeOK, [Next]_vars
  PROVE  \/ UNCHANGED vars
         \/ \E d \in Dirs, new \in Files : EditOf(d, new) /\ (d \in Copies => phase[d] \in {"working", "merging"})
         \/ \E c \in Copies : SessionStep(c) \/ Merge(c) \/ Refresh(c)
<1>1. ASSUME Edit(Project)
      PROVE  \E new \in Files : EditOf(Project, new) /\ (Project \in Copies => phase[Project] \in {"working", "merging"})
  BY <1>1, Directories, EditIs
<1>2. ASSUME NEW c \in Copies, AgentEdits(c)
      PROVE  \E new \in Files : EditOf(c, new) /\ (c \in Copies => phase[c] \in {"working", "merging"})
  BY <1>2, Directories, EditIs DEF AgentEdits
<1> QED BY <1>1, <1>2, Directories DEF Next, SessionStep

LEMMA PhaseNames ==
  /\ "none" \in Phases /\ "opening" \in Phases /\ "idle" \in Phases /\ "refreshing" \in Phases
  /\ "working" \in Phases /\ "merging" \in Phases /\ "closing" \in Phases
BY DEF Phases

LEMMA QueueNow ==
  ASSUME WorkdirsTypeOK
  PROVE  /\ \A c \in Copies : /\ Append(queue, c) \in Seq(Copies) /\ Append(queue, c) # <<>>
                              /\ Head(Append(queue, c)) = IF queue = <<>> THEN c ELSE Head(queue)
         /\ queue # <<>> => Head(queue) \in Copies /\ Tail(queue) \in Seq(Copies)
BY Queues DEF WorkdirsTypeOK

LEMMA KeptType ==
  ASSUME WorkdirsTypeOK, NEW c \in Copies, NEW n, NEW x \in Files
  PROVE  [kept EXCEPT ![c][n] = x] \in [Copies -> [1..MaxTurns -> Files]]
<1>1. kept[c] \in [1..MaxTurns -> Files] /\ kept \in [Copies -> [1..MaxTurns -> Files]]
  BY DEF WorkdirsTypeOK
<1>2. [kept[c] EXCEPT ![n] = x] \in [1..MaxTurns -> Files]
  BY <1>1
<1> QED BY <1>1, <1>2

LEMMA TypeInductive == WorkdirsTypeOK /\ [Next]_vars => WorkdirsTypeOK'
<1> SUFFICES ASSUME WorkdirsTypeOK, [Next]_vars PROVE WorkdirsTypeOK'
  OBVIOUS
<1>j. NoJob \in Jobs
  BY DEF NoJob, Jobs, Stages, Files, NoFile
<1>b. /\ base \in [Copies -> Files]
      /\ \A c \in Copies, v \in Files : [base EXCEPT ![c] = v] \in [Copies -> Files]
  BY DEF WorkdirsTypeOK
<1>f. /\ file \in [Dirs -> Files]
      /\ \A d \in Dirs, v \in Files : [file EXCEPT ![d] = v] \in [Dirs -> Files]
  BY DEF WorkdirsTypeOK
<1>0. CASE UNCHANGED vars
  BY <1>0 DEF vars, WorkdirsTypeOK
<1>1. ASSUME NEW d \in Dirs, NEW new \in Files, EditOf(d, new) PROVE WorkdirsTypeOK'
  <2>1. made' = made \cup {Cardinality(made) + 1} /\ IsFiniteSet(made) /\ Cardinality(made) \in Nat
    BY <1>1, ChangeDoes, FS_CardinalityType DEF EditOf, WorkdirsTypeOK
  <2>2. IsFiniteSet(made')
    BY <2>1, FS_AddElement
  <2>5. Cardinality(made) + 1 \in Nat \ {0}
    BY <2>1
  <2>3. made' \subseteq Nat \ {Original}
    BY <2>1, <2>5 DEF WorkdirsTypeOK, Original
  <2>6. file' = [file EXCEPT ![d] = new] /\ finds' \in [Copies -> Found]
    BY <1>1, ChangeDoes DEF EditOf
  <2>4. file' \in [Dirs -> Files] /\ finds' \in [Copies -> Found]
    BY <2>6 DEF WorkdirsTypeOK
  <2> QED BY <1>1, <2>2, <2>3, <2>4, ChangeDoes DEF EditOf, WorkdirsTypeOK
<1>2. ASSUME NEW c \in Copies, Open(c) PROVE WorkdirsTypeOK'
  <2>1. phase' \in [Copies -> Phases]
    BY <1>2, OpenDoes, PhaseNames DEF WorkdirsTypeOK
  <2>2. queue' \in Seq(Copies)
    BY <1>2, OpenDoes, QueueNow DEF WorkdirsTypeOK
  <2>3. base' \in [Copies -> Files]
    <3>1. base' = [base EXCEPT ![c] = file[From[c]]]
      BY <1>2, OpenDoes
    <3> QED BY <3>1, FileFacts DEF WorkdirsTypeOK
  <2> QED BY <1>2, <2>1, <2>2, <2>3, OpenDoes DEF WorkdirsTypeOK
<1>3. ASSUME NEW c \in Copies, BeginTurn(c) PROVE WorkdirsTypeOK'
  <2>1. phase' \in [Copies -> Phases]
    BY <1>3, BeginTurnDoes, PhaseNames DEF WorkdirsTypeOK
  <2>2. queue' \in Seq(Copies)
    BY <1>3, BeginTurnDoes, QueueNow DEF WorkdirsTypeOK
  <2>3. turns' \in Nat
    BY <1>3, BeginTurnDoes DEF WorkdirsTypeOK
  <2> QED BY <1>3, <2>1, <2>2, <2>3, BeginTurnDoes DEF WorkdirsTypeOK
<1>4. ASSUME NEW c \in Copies, EndTurn(c) PROVE WorkdirsTypeOK'
  <2>1. phase' \in [Copies -> Phases]
    BY <1>4, EndTurnDoes, PhaseNames DEF WorkdirsTypeOK
  <2>2. queue' \in Seq(Copies)
    BY <1>4, EndTurnDoes, QueueNow DEF WorkdirsTypeOK
  <2> QED BY <1>4, <2>1, <2>2, EndTurnDoes DEF WorkdirsTypeOK
<1>5. ASSUME NEW c \in Copies, Close(c) PROVE WorkdirsTypeOK'
  <2>1. phase' \in [Copies -> Phases]
    <3>1. phase' = [phase EXCEPT ![c] = "closing"]
      BY <1>5, CloseDoes
    <3> QED BY <3>1, PhaseNames DEF WorkdirsTypeOK
  <2>2. queue' \in Seq(Copies)
    <3>1. queue' = Append(queue, c)
      BY <1>5, CloseDoes
    <3> QED BY <3>1, QueueNow DEF WorkdirsTypeOK
  <2> QED BY <1>5, <2>1, <2>2, CloseDoes DEF WorkdirsTypeOK
<1>6. ASSUME NEW c \in Copies, CopyIn(c) PROVE WorkdirsTypeOK'
  <2>1. phase' \in [Copies -> Phases]
    <3>1. phase' = [phase EXCEPT ![c] = "idle"]
      BY <1>6, CopyInDoes
    <3> QED BY <3>1, PhaseNames DEF WorkdirsTypeOK
  <2>2. queue' \in Seq(Copies)
    BY <1>6, CopyInDoes, QueueNow DEF WorkdirsTypeOK
  <2>3. job' \in Jobs
    BY <1>6, CopyInDoes, <1>j DEF WorkdirsTypeOK, IsJob
  <2>4. merges' \in [Copies -> Nat]
    BY <1>6, CopyInDoes DEF WorkdirsTypeOK
  <2>5. base' \in [Copies -> Files]
    <3>1. \E body \in {NoFile, file[From[c]]} : base' = [base EXCEPT ![c] = body]
      BY <1>6, CopyInDoes
    <3> QED BY <3>1, FileFacts DEF WorkdirsTypeOK
  <2>6. file' \in [Dirs -> Files]
    <3>1. \E body \in {NoFile, file[From[c]]} : file' = [file EXCEPT ![c] = body]
      BY <1>6, CopyInDoes
    <3> QED BY <3>1, FileFacts, Directories DEF WorkdirsTypeOK
  <2>7. finds' \in [Copies -> Found]
    BY <1>6, CopyInDoes
  <2>8. UNCHANGED <<kept, turns, made>>
    BY <1>6, CopyInDoes
  <2> QED BY <2>1, <2>2, <2>3, <2>4, <2>5, <2>6, <2>7, <2>8 DEF WorkdirsTypeOK
<1>7. ASSUME NEW c \in Copies, RemoveCopy(c) PROVE WorkdirsTypeOK'
  <2>1. phase' \in [Copies -> Phases]
    BY <1>7, RemoveCopyDoes, PhaseNames DEF WorkdirsTypeOK
  <2>2. queue' \in Seq(Copies)
    BY <1>7, RemoveCopyDoes, QueueNow DEF WorkdirsTypeOK
  <2>3. job' \in Jobs
    BY <1>7, RemoveCopyDoes, <1>j DEF WorkdirsTypeOK, IsJob
  <2>4. base' \in [Copies -> Files]
    <3>1. base' = [base EXCEPT ![c] = NoFile]
      BY <1>7, RemoveCopyDoes
    <3> QED BY <3>1, FileFacts DEF WorkdirsTypeOK
  <2>5. file' \in [Dirs -> Files]
    <3>1. file' = [file EXCEPT ![c] = NoFile]
      BY <1>7, RemoveCopyDoes
    <3> QED BY <3>1, FileFacts, Directories DEF WorkdirsTypeOK
  <2>6. finds' \in [Copies -> Found]
    BY <1>7, RemoveCopyDoes DEF WorkdirsTypeOK
  <2> QED BY <1>7, <2>1, <2>2, <2>3, <2>4, <2>5, <2>6, RemoveCopyDoes DEF WorkdirsTypeOK
<1>8. ASSUME NEW c \in Copies, MergeScan(c) PROVE WorkdirsTypeOK'
  <2>1. job' \in Jobs
    BY <1>8, MergeScanDoes, <1>j DEF WorkdirsTypeOK, IsJob
  <2> QED BY <1>8, <2>1, MergeScanDoes DEF WorkdirsTypeOK
<1>9. ASSUME NEW c \in Copies, MergeScanCopy(c) PROVE WorkdirsTypeOK'
  <2>1. job' \in Jobs
    BY <1>9, MergeScanCopyDoes, <1>j DEF WorkdirsTypeOK, IsJob
  <2> QED BY <1>9, <2>1, MergeScanCopyDoes DEF WorkdirsTypeOK
<1>10. ASSUME NEW c \in Copies, Unchanged(c) PROVE WorkdirsTypeOK'
  <2>1. job' \in Jobs
    BY <1>10, UnchangedDoes, <1>j DEF WorkdirsTypeOK, IsJob
  <2> QED BY <1>10, <2>1, UnchangedDoes DEF WorkdirsTypeOK
<1>11. ASSUME NEW c \in Copies, TakeTheirs(c) PROVE WorkdirsTypeOK'
  <2>1. job' \in Jobs
    BY <1>11, TakeTheirsDoes, <1>j DEF WorkdirsTypeOK, IsJob
  <2>2. base' \in [Copies -> Files]
    BY <1>11, TakeTheirsDoes, <1>b, FileFacts, Directories
  <2>3. file' \in [Dirs -> Files]
    BY <1>11, TakeTheirsDoes, <1>f, FileFacts, Directories
  <2>4. finds' \in [Copies -> Found]
    BY <1>11, TakeTheirsDoes DEF WorkdirsTypeOK
  <2> QED BY <1>11, <2>1, <2>2, <2>3, <2>4, TakeTheirsDoes DEF WorkdirsTypeOK
<1>12. ASSUME NEW c \in Copies, SameChange(c) PROVE WorkdirsTypeOK'
  <2>1. job' \in Jobs
    BY <1>12, SameChangeDoes, <1>j DEF WorkdirsTypeOK, IsJob
  <2>2. base' \in [Copies -> Files]
    BY <1>12, SameChangeDoes, FileFacts DEF WorkdirsTypeOK
  <2> QED BY <1>12, <2>1, <2>2, SameChangeDoes DEF WorkdirsTypeOK
<1>13. ASSUME NEW c \in Copies, MergeBoth(c) PROVE WorkdirsTypeOK'
  <2>1. job' \in Jobs
    BY <1>13, MergeBothDoes, <1>j DEF WorkdirsTypeOK, IsJob
  <2> QED BY <1>13, <2>1, MergeBothDoes DEF WorkdirsTypeOK
<1>14. ASSUME NEW c \in Copies, Conflict(c) PROVE WorkdirsTypeOK'
  <2>1. job' \in Jobs
    BY <1>14, ConflictDoes, <1>j DEF WorkdirsTypeOK, IsJob
  <2>2. base' \in [Copies -> Files]
    BY <1>14, ConflictDoes, FileFacts DEF WorkdirsTypeOK
  <2>3. merges' \in [Copies -> Nat]
    BY <1>14, ConflictDoes DEF WorkdirsTypeOK
  <2>4. kept' \in [Copies -> [1..MaxTurns -> Files]]
    <3>1. kept' = kept \/ kept' = [kept EXCEPT ![c][merges[c] + 1] = file[c]]
      BY <1>14, ConflictDoes
    <3>2. [kept EXCEPT ![c][merges[c] + 1] = file[c]] \in [Copies -> [1..MaxTurns -> Files]]
      BY KeptType, FileFacts
    <3>3. kept \in [Copies -> [1..MaxTurns -> Files]]
      BY DEF WorkdirsTypeOK
    <3> QED BY <3>1, <3>2, <3>3
  <2> QED BY <1>14, <2>1, <2>2, <2>3, <2>4, ConflictDoes DEF WorkdirsTypeOK
<1>15. ASSUME NEW c \in Copies, MergeFails(c) PROVE WorkdirsTypeOK'
  <2>1. phase' \in [Copies -> Phases]
    BY <1>15, MergeFailsDoes, PhaseNames DEF WorkdirsTypeOK
  <2>2. queue' \in Seq(Copies)
    BY <1>15, MergeFailsDoes, QueueNow DEF WorkdirsTypeOK
  <2>3. job' \in Jobs
    BY <1>15, MergeFailsDoes, <1>j DEF WorkdirsTypeOK, IsJob
  <2> QED BY <1>15, <2>1, <2>2, <2>3, MergeFailsDoes DEF WorkdirsTypeOK
<1>16. ASSUME NEW c \in Copies, Put(c) PROVE WorkdirsTypeOK'
  <2>1. job' \in Jobs
    BY <1>16, PutDoes, <1>j DEF WorkdirsTypeOK, IsJob
  <2>2. file' \in [Dirs -> Files]
    BY <1>16, PutDoes, FileFacts, Directories DEF WorkdirsTypeOK
  <2>3. finds' \in [Copies -> Found]
    BY <1>16, PutDoes DEF WorkdirsTypeOK
  <2> QED BY <1>16, <2>1, <2>2, <2>3, PutDoes DEF WorkdirsTypeOK
<1>17. ASSUME NEW c \in Copies, Stat(c) PROVE WorkdirsTypeOK'
  <2>1. job' \in Jobs
    BY <1>17, StatDoes, <1>j DEF WorkdirsTypeOK, IsJob
  <2>2. base' \in [Copies -> Files]
    BY <1>17, StatDoes, FileFacts DEF WorkdirsTypeOK
  <2>3. finds' \in [Copies -> Found]
    BY <1>17, StatDoes DEF WorkdirsTypeOK
  <2> QED BY <1>17, <2>1, <2>2, <2>3, StatDoes DEF WorkdirsTypeOK
<1>18. ASSUME NEW c \in Copies, StatBoth(c) PROVE WorkdirsTypeOK'
  <2>1. job' \in Jobs
    BY <1>18, StatBothDoes, <1>j DEF WorkdirsTypeOK, IsJob
  <2>2. file' \in [Dirs -> Files]
    BY <1>18, StatBothDoes, FileFacts, Directories DEF WorkdirsTypeOK
  <2>3. finds' \in [Copies -> Found]
    BY <1>18, StatBothDoes DEF WorkdirsTypeOK
  <2> QED BY <1>18, <2>1, <2>2, <2>3, StatBothDoes DEF WorkdirsTypeOK
<1>19. ASSUME NEW c \in Copies, StatOwn(c) PROVE WorkdirsTypeOK'
  <2>1. job' \in Jobs
    BY <1>19, StatOwnDoes, <1>j DEF WorkdirsTypeOK, IsJob
  <2>2. base' \in [Copies -> Files]
    BY <1>19, StatOwnDoes, FileFacts DEF WorkdirsTypeOK
  <2>3. finds' \in [Copies -> Found]
    BY <1>19, StatOwnDoes DEF WorkdirsTypeOK
  <2>4. phase' \in [Copies -> Phases]
    BY <1>19, StatOwnDoes, PhaseNames DEF WorkdirsTypeOK
  <2>5. queue' \in Seq(Copies)
    BY <1>19, StatOwnDoes, QueueNow DEF WorkdirsTypeOK
  <2> QED BY <1>19, <2>1, <2>2, <2>3, <2>4, <2>5, StatOwnDoes DEF WorkdirsTypeOK
<1>20. ASSUME NEW c \in Copies, RefreshScan(c) PROVE WorkdirsTypeOK'
  <2>1. job' \in Jobs
    BY <1>20, RefreshScanDoes, <1>j DEF WorkdirsTypeOK, IsJob
  <2> QED BY <1>20, <2>1, RefreshScanDoes DEF WorkdirsTypeOK
<1>21. ASSUME NEW c \in Copies, RefreshScanCopy(c) PROVE WorkdirsTypeOK'
  <2>1. job' \in Jobs
    BY <1>21, RefreshScanCopyDoes, <1>j DEF WorkdirsTypeOK, IsJob
  <2> QED BY <1>21, <2>1, RefreshScanCopyDoes DEF WorkdirsTypeOK
<1>22. ASSUME NEW c \in Copies, RefreshLeaves(c) PROVE WorkdirsTypeOK'
  <2>1. phase' \in [Copies -> Phases]
    BY <1>22, RefreshLeavesDoes, PhaseNames DEF WorkdirsTypeOK
  <2>2. queue' \in Seq(Copies)
    BY <1>22, RefreshLeavesDoes, QueueNow DEF WorkdirsTypeOK
  <2>3. job' \in Jobs
    BY <1>22, RefreshLeavesDoes, <1>j DEF WorkdirsTypeOK, IsJob
  <2> QED BY <1>22, <2>1, <2>2, <2>3, RefreshLeavesDoes DEF WorkdirsTypeOK
<1>23. ASSUME NEW c \in Copies, RefreshTakes(c) PROVE WorkdirsTypeOK'
  <2>1. phase' \in [Copies -> Phases]
    <3>1. \/ phase' = phase \/ phase' = [phase EXCEPT ![c] = "idle"]
           \/ phase' = [phase EXCEPT ![c] = "working"]
      BY <1>23, RefreshTakesDoes
    <3> QED BY <3>1, PhaseNames DEF WorkdirsTypeOK
  <2>2. queue' \in Seq(Copies)
    BY <1>23, RefreshTakesDoes, QueueNow DEF WorkdirsTypeOK
  <2>3. job' \in Jobs
    BY <1>23, RefreshTakesDoes, <1>j DEF WorkdirsTypeOK, IsJob
  <2>4. base' \in [Copies -> Files]
    <3>1. base' = base \/ base' = [base EXCEPT ![c] = NoFile]
      BY <1>23, RefreshTakesDoes
    <3> QED BY <3>1, FileFacts DEF WorkdirsTypeOK
  <2>5. file' \in [Dirs -> Files]
    <3>1. file' = file \/ file' = [file EXCEPT ![c] = NoFile]
      BY <1>23, RefreshTakesDoes
    <3>2. NoFile \in Files /\ c \in Dirs /\ file \in [Dirs -> Files]
      BY FileFacts, Directories DEF WorkdirsTypeOK
    <3> QED BY <3>1, <3>2
  <2>6. finds' \in [Copies -> Found]
    BY <1>23, RefreshTakesDoes DEF WorkdirsTypeOK
  <2> QED BY <1>23, <2>1, <2>2, <2>3, <2>4, <2>5, <2>6, RefreshTakesDoes DEF WorkdirsTypeOK
<1>24. ASSUME NEW c \in Copies, RefreshPut(c) PROVE WorkdirsTypeOK'
  <2>1. job' \in Jobs
    BY <1>24, RefreshPutDoes, <1>j DEF WorkdirsTypeOK, IsJob
  <2>2. file' \in [Dirs -> Files]
    BY <1>24, RefreshPutDoes, FileFacts, Directories DEF WorkdirsTypeOK
  <2>3. finds' \in [Copies -> Found]
    BY <1>24, RefreshPutDoes DEF WorkdirsTypeOK
  <2> QED BY <1>24, <2>1, <2>2, <2>3, RefreshPutDoes DEF WorkdirsTypeOK
<1> QED BY <1>0, <1>1, <1>2, <1>3, <1>4, <1>5, <1>6, <1>7, <1>8, <1>9, <1>10, <1>11, <1>12, <1>13,
   <1>14, <1>15, <1>16, <1>17, <1>18, <1>19, <1>20, <1>21, <1>22, <1>23, <1>24, Steps
        DEF SessionStep, Merge, Refresh

LEMMA NextIsNewInductive == WorkdirsTypeOK /\ NextIsNew /\ [Next]_vars => NextIsNew'
<1> SUFFICES ASSUME WorkdirsTypeOK, NextIsNew, [Next]_vars PROVE NextIsNew'
  OBVIOUS
<1>j. Past(NoJob.ours) /\ Past(NoJob.theirs) /\ Past(NoJob.body) /\ Past(NoFile)
  BY DEF NoJob, NoFile, Past
<1>p. /\ Past(NoFile) /\ Past(job.ours) /\ Past(job.theirs) /\ Past(job.body)
      /\ \A d \in Dirs : Past(file[d])
      /\ \A c \in Copies : Past(base[c])
  BY <1>j DEF NextIsNew
<1>b. \A c \in Copies, v \in Files : Past(v) => \A k \in Copies : Past([base EXCEPT ![c] = v][k])
  <2>1. \A c \in Copies, v \in Files : \A k \in Copies : [base EXCEPT ![c] = v][k] \in {v, base[k]}
    BY DEF WorkdirsTypeOK
  <2> QED BY <2>1, <1>p
<1>f. \A d \in Dirs, v \in Files : Past(v) => \A k \in Dirs : Past([file EXCEPT ![d] = v][k])
  <2>1. \A d \in Dirs, v \in Files : \A k \in Dirs : [file EXCEPT ![d] = v][k] \in {v, file[k]}
    BY DEF WorkdirsTypeOK
  <2> QED BY <2>1, <1>p
<1>0. CASE UNCHANGED vars
  BY <1>0 DEF vars, NextIsNew, Past
<1>1. ASSUME NEW d \in Dirs, NEW new \in Files, EditOf(d, new) PROVE NextIsNew'
  <2> DEFINE n == Cardinality(made)
  <2>1. n \in Nat /\ made' = made \cup {n + 1}
    BY <1>1, ChangeDoes, FS_CardinalityType DEF WorkdirsTypeOK, EditOf
  <2>2. n + 1 \notin made
    BY <2>1 DEF NextIsNew, Past
  <2>3. Cardinality(made') = n + 1
    BY <2>1, <2>2, FS_AddElement DEF WorkdirsTypeOK
  <2> HIDE DEF n
  <2>4. \A e \in Nat : e <= n => e <= n + 1
    BY <2>1
  <2>5. \A S \in Files : (\A e \in S : e <= n) => (\A e \in S : e <= n + 1)
    BY <2>4 DEF Files
  <2>6. \A e \in new : e <= n + 1
    BY <1>1, <2>1, <2>4 DEF NextIsNew, Past, EditOf, WorkdirsTypeOK, Files, Original, n
  <2>7. \A e \in made' : e <= n + 1
    BY <2>1, <2>4 DEF NextIsNew, Past, WorkdirsTypeOK, n
  <2>8. job' = job /\ base' = base /\ file' = [file EXCEPT ![d] = new]
        /\ \A k \in Copies : finds'[k].up \in {new, finds[k].up} /\ finds'[k].own \in {new, finds[k].own}
    BY <1>1, ChangeDoes DEF EditOf
  <2>9. /\ \A e \in job.ours : e <= n + 1
        /\ \A e \in job.theirs : e <= n + 1
        /\ \A e \in job.body : e <= n + 1
    BY <2>5, FileFacts DEF NextIsNew, Past, n
  <2>10. \A k \in Dirs : \A e \in file'[k] : e <= n + 1
    BY <2>5, <2>6, <2>8 DEF NextIsNew, Past, WorkdirsTypeOK, n
  <2>11. \A k \in Copies : /\ \A e \in base[k] : e <= n + 1
                           /\ \A e \in finds'[k].up : e <= n + 1
                           /\ \A e \in finds'[k].own : e <= n + 1
    BY <2>5, <2>6, <2>8, FileFacts DEF NextIsNew, Past, n
  <2> QED BY <2>3, <2>7, <2>8, <2>9, <2>10, <2>11 DEF NextIsNew, Past
<1>2. ASSUME NEW c \in Copies, Open(c) PROVE NextIsNew'
  <2>0. UNCHANGED made
    BY <1>2, OpenDoes
  <2>1. \A k \in Copies : Past(base'[k])
    <3>1. base' = [base EXCEPT ![c] = file[From[c]]]
      BY <1>2, OpenDoes
    <3> QED BY <3>1, <1>p, <1>b, FileFacts, Directories
  <2> QED BY <1>2, <2>0, <2>1, OpenDoes DEF NextIsNew, Past
<1>3. ASSUME NEW c \in Copies, BeginTurn(c) PROVE NextIsNew'
  <2>0. UNCHANGED made
    BY <1>3, BeginTurnDoes
  <2> QED BY <1>3, <2>0, BeginTurnDoes DEF NextIsNew, Past
<1>4. ASSUME NEW c \in Copies, EndTurn(c) PROVE NextIsNew'
  <2>0. UNCHANGED made
    BY <1>4, EndTurnDoes
  <2> QED BY <1>4, <2>0, EndTurnDoes DEF NextIsNew, Past
<1>5. ASSUME NEW c \in Copies, Close(c) PROVE NextIsNew'
  <2>0. UNCHANGED made
    BY <1>5, CloseDoes
  <2> QED BY <1>5, <2>0, CloseDoes DEF NextIsNew, Past
<1>6. ASSUME NEW c \in Copies, CopyIn(c) PROVE NextIsNew'
  <2>0. UNCHANGED made
    BY <1>6, CopyInDoes
  <2>1. Past(job'.ours) /\ Past(job'.theirs) /\ Past(job'.body)
    BY <1>6, CopyInDoes, <1>j, Directories DEF NextIsNew, IsJob
  <2>2. \A k \in Copies : Past(base'[k])
    <3>1. \E body \in {NoFile, file[From[c]]} : base' = [base EXCEPT ![c] = body]
      BY <1>6, CopyInDoes
    <3> QED BY <3>1, <1>p, <1>b, FileFacts, Directories
  <2>3. \A d \in Dirs : Past(file'[d])
    <3>1. \E body \in {NoFile, file[From[c]]} : file' = [file EXCEPT ![c] = body]
      BY <1>6, CopyInDoes
    <3> QED BY <3>1, <1>p, <1>f, FileFacts, Directories
  <2>4. \A k \in Copies : Past(finds'[k].up) /\ Past(finds'[k].own)
    BY <1>6, CopyInDoes, <1>j, Directories DEF NextIsNew
  <2> QED BY <1>6, <2>0, <2>1, <2>2, <2>3, <2>4, CopyInDoes DEF NextIsNew, Past
<1>7. ASSUME NEW c \in Copies, RemoveCopy(c) PROVE NextIsNew'
  <2>0. UNCHANGED made
    BY <1>7, RemoveCopyDoes
  <2>1. Past(job'.ours) /\ Past(job'.theirs) /\ Past(job'.body)
    BY <1>7, RemoveCopyDoes, <1>j, Directories DEF NextIsNew, IsJob
  <2>2. \A k \in Copies : Past(base'[k])
    <3>1. base' = [base EXCEPT ![c] = NoFile]
      BY <1>7, RemoveCopyDoes
    <3> QED BY <3>1, <1>p, <1>b, FileFacts, Directories
  <2>3. \A d \in Dirs : Past(file'[d])
    <3>1. file' = [file EXCEPT ![c] = NoFile]
      BY <1>7, RemoveCopyDoes
    <3> QED BY <3>1, <1>p, <1>f, FileFacts, Directories
  <2>4. \A k \in Copies : Past(finds'[k].up) /\ Past(finds'[k].own)
    BY <1>7, RemoveCopyDoes, <1>j, Directories DEF NextIsNew
  <2> QED BY <1>7, <2>0, <2>1, <2>2, <2>3, <2>4, RemoveCopyDoes DEF NextIsNew, Past
<1>8. ASSUME NEW c \in Copies, MergeScan(c) PROVE NextIsNew'
  <2>0. UNCHANGED made
    BY <1>8, MergeScanDoes
  <2>1. Past(job'.ours) /\ Past(job'.theirs) /\ Past(job'.body)
    BY <1>8, MergeScanDoes, <1>j, Directories DEF NextIsNew, IsJob
  <2> QED BY <1>8, <2>0, <2>1, MergeScanDoes DEF NextIsNew, Past
<1>9. ASSUME NEW c \in Copies, MergeScanCopy(c) PROVE NextIsNew'
  <2>0. UNCHANGED made
    BY <1>9, MergeScanCopyDoes
  <2>1. Past(job'.ours) /\ Past(job'.theirs) /\ Past(job'.body)
    BY <1>9, MergeScanCopyDoes, <1>j, Directories DEF NextIsNew, IsJob
  <2> QED BY <1>9, <2>0, <2>1, MergeScanCopyDoes DEF NextIsNew, Past
<1>10. ASSUME NEW c \in Copies, Unchanged(c) PROVE NextIsNew'
  <2>0. UNCHANGED made
    BY <1>10, UnchangedDoes
  <2>1. Past(job'.ours) /\ Past(job'.theirs) /\ Past(job'.body)
    BY <1>10, UnchangedDoes, <1>j, Directories DEF NextIsNew, IsJob
  <2> QED BY <1>10, <2>0, <2>1, UnchangedDoes DEF NextIsNew, Past
<1>11. ASSUME NEW c \in Copies, TakeTheirs(c) PROVE NextIsNew'
  <2>0. UNCHANGED made
    BY <1>11, TakeTheirsDoes
  <2>1. Past(job'.ours) /\ Past(job'.theirs) /\ Past(job'.body)
    BY <1>11, TakeTheirsDoes, <1>j, Directories DEF NextIsNew, IsJob
  <2>2. \A k \in Copies : Past(base'[k])
    <3>1. base' = base \/ base' = [base EXCEPT ![c] = NoFile]
      BY <1>11, TakeTheirsDoes
    <3> QED BY <3>1, <1>p, <1>b, FileFacts, Directories
  <2>3. \A d \in Dirs : Past(file'[d])
    <3>1. file' = file \/ file' = [file EXCEPT ![From[c]] = NoFile]
      BY <1>11, TakeTheirsDoes
    <3> QED BY <3>1, <1>p, <1>f, FileFacts, Directories
  <2>4. \A k \in Copies : Past(finds'[k].up) /\ Past(finds'[k].own)
    BY <1>11, TakeTheirsDoes, <1>j, Directories DEF NextIsNew
  <2> QED BY <1>11, <2>0, <2>1, <2>2, <2>3, <2>4, TakeTheirsDoes DEF NextIsNew, Past
<1>12. ASSUME NEW c \in Copies, SameChange(c) PROVE NextIsNew'
  <2>0. UNCHANGED made
    BY <1>12, SameChangeDoes
  <2>1. Past(job'.ours) /\ Past(job'.theirs) /\ Past(job'.body)
    BY <1>12, SameChangeDoes, <1>j, Directories DEF NextIsNew, IsJob
  <2>2. \A k \in Copies : Past(base'[k])
    BY <1>12, SameChangeDoes, <1>p, <1>b, FileFacts, Directories
  <2> QED BY <1>12, <2>0, <2>1, <2>2, SameChangeDoes DEF NextIsNew, Past
<1>13. ASSUME NEW c \in Copies, MergeBoth(c) PROVE NextIsNew'
  <2>0. UNCHANGED made
    BY <1>13, MergeBothDoes
  <2>1. Past(job'.ours) /\ Past(job'.theirs) /\ Past(job'.body)
    BY <1>13, MergeBothDoes, <1>j, Directories DEF NextIsNew, IsJob, MergeText, Past
  <2> QED BY <1>13, <2>0, <2>1, MergeBothDoes DEF NextIsNew, Past
<1>14. ASSUME NEW c \in Copies, Conflict(c) PROVE NextIsNew'
  <2>0. UNCHANGED made
    BY <1>14, ConflictDoes
  <2>1. Past(job'.ours) /\ Past(job'.theirs) /\ Past(job'.body)
    BY <1>14, ConflictDoes, <1>j, Directories DEF NextIsNew, IsJob
  <2>2. \A k \in Copies : Past(base'[k])
    BY <1>14, ConflictDoes, <1>p, <1>b, FileFacts, Directories
  <2> QED BY <1>14, <2>0, <2>1, <2>2, ConflictDoes DEF NextIsNew, Past
<1>15. ASSUME NEW c \in Copies, MergeFails(c) PROVE NextIsNew'
  <2>0. UNCHANGED made
    BY <1>15, MergeFailsDoes
  <2>1. Past(job'.ours) /\ Past(job'.theirs) /\ Past(job'.body)
    BY <1>15, MergeFailsDoes, <1>j, Directories DEF NextIsNew, IsJob
  <2> QED BY <1>15, <2>0, <2>1, MergeFailsDoes DEF NextIsNew, Past
<1>16. ASSUME NEW c \in Copies, Put(c) PROVE NextIsNew'
  <2>0. UNCHANGED made
    BY <1>16, PutDoes
  <2>1. Past(job'.ours) /\ Past(job'.theirs) /\ Past(job'.body)
    BY <1>16, PutDoes, <1>j, Directories DEF NextIsNew, IsJob
  <2>2. \A d \in Dirs : Past(file'[d])
    <3>1. file' = [file EXCEPT ![From[c]] = job.body]
      BY <1>16, PutDoes
    <3> QED BY <3>1, <1>p, <1>f, FileFacts, Directories
  <2>3. \A k \in Copies : Past(finds'[k].up) /\ Past(finds'[k].own)
    BY <1>16, PutDoes, <1>j, Directories DEF NextIsNew
  <2> QED BY <1>16, <2>0, <2>1, <2>2, <2>3, PutDoes DEF NextIsNew, Past
<1>17. ASSUME NEW c \in Copies, Stat(c) PROVE NextIsNew'
  <2>0. UNCHANGED made
    BY <1>17, StatDoes
  <2>1. Past(job'.ours) /\ Past(job'.theirs) /\ Past(job'.body)
    BY <1>17, StatDoes, <1>j, Directories DEF NextIsNew, IsJob
  <2>2. \A k \in Copies : Past(base'[k])
    BY <1>17, StatDoes, <1>p, <1>b, FileFacts, Directories
  <2>3. \A k \in Copies : Past(finds'[k].up) /\ Past(finds'[k].own)
    BY <1>17, StatDoes, <1>j, Directories DEF NextIsNew
  <2> QED BY <1>17, <2>0, <2>1, <2>2, <2>3, StatDoes DEF NextIsNew, Past
<1>18. ASSUME NEW c \in Copies, StatBoth(c) PROVE NextIsNew'
  <2>0. UNCHANGED made
    BY <1>18, StatBothDoes
  <2>1. Past(job'.ours) /\ Past(job'.theirs) /\ Past(job'.body)
    BY <1>18, StatBothDoes, <1>j, Directories DEF NextIsNew, IsJob
  <2>2. \A d \in Dirs : Past(file'[d])
    <3>1. file' = [file EXCEPT ![c] = job.body]
      BY <1>18, StatBothDoes
    <3> QED BY <3>1, <1>p, <1>f, FileFacts, Directories
  <2>3. \A k \in Copies : Past(finds'[k].up) /\ Past(finds'[k].own)
    BY <1>18, StatBothDoes, <1>j, Directories DEF NextIsNew
  <2> QED BY <1>18, <2>0, <2>1, <2>2, <2>3, StatBothDoes DEF NextIsNew, Past
<1>19. ASSUME NEW c \in Copies, StatOwn(c) PROVE NextIsNew'
  <2>0. UNCHANGED made
    BY <1>19, StatOwnDoes
  <2>1. Past(job'.ours) /\ Past(job'.theirs) /\ Past(job'.body)
    BY <1>19, StatOwnDoes, <1>j, Directories DEF NextIsNew, IsJob
  <2>2. \A k \in Copies : Past(base'[k])
    BY <1>19, StatOwnDoes, <1>p, <1>b, FileFacts, Directories
  <2>3. \A k \in Copies : Past(finds'[k].up) /\ Past(finds'[k].own)
    BY <1>19, StatOwnDoes, <1>j, Directories DEF NextIsNew
  <2> QED BY <1>19, <2>0, <2>1, <2>2, <2>3, StatOwnDoes DEF NextIsNew, Past
<1>20. ASSUME NEW c \in Copies, RefreshScan(c) PROVE NextIsNew'
  <2>0. UNCHANGED made
    BY <1>20, RefreshScanDoes
  <2>1. Past(job'.ours) /\ Past(job'.theirs) /\ Past(job'.body)
    BY <1>20, RefreshScanDoes, <1>j, Directories DEF NextIsNew, IsJob
  <2> QED BY <1>20, <2>0, <2>1, RefreshScanDoes DEF NextIsNew, Past
<1>21. ASSUME NEW c \in Copies, RefreshScanCopy(c) PROVE NextIsNew'
  <2>0. UNCHANGED made
    BY <1>21, RefreshScanCopyDoes
  <2>1. Past(job'.ours) /\ Past(job'.theirs) /\ Past(job'.body)
    BY <1>21, RefreshScanCopyDoes, <1>j, Directories DEF NextIsNew, IsJob
  <2> QED BY <1>21, <2>0, <2>1, RefreshScanCopyDoes DEF NextIsNew, Past
<1>22. ASSUME NEW c \in Copies, RefreshLeaves(c) PROVE NextIsNew'
  <2>0. UNCHANGED made
    BY <1>22, RefreshLeavesDoes
  <2>1. Past(job'.ours) /\ Past(job'.theirs) /\ Past(job'.body)
    BY <1>22, RefreshLeavesDoes, <1>j, Directories DEF NextIsNew, IsJob
  <2> QED BY <1>22, <2>0, <2>1, RefreshLeavesDoes DEF NextIsNew, Past
<1>23. ASSUME NEW c \in Copies, RefreshTakes(c) PROVE NextIsNew'
  <2>0. UNCHANGED made
    BY <1>23, RefreshTakesDoes
  <2>1. Past(job'.ours) /\ Past(job'.theirs) /\ Past(job'.body)
    BY <1>23, RefreshTakesDoes, <1>j, Directories DEF NextIsNew, IsJob
  <2>2. \A k \in Copies : Past(base'[k])
    <3>1. base' = base \/ base' = [base EXCEPT ![c] = NoFile]
      BY <1>23, RefreshTakesDoes
    <3> QED BY <3>1, <1>p, <1>b, FileFacts, Directories
  <2>3. \A d \in Dirs : Past(file'[d])
    <3>1. file' = file \/ file' = [file EXCEPT ![c] = NoFile]
      BY <1>23, RefreshTakesDoes
    <3> QED BY <3>1, <1>p, <1>f, FileFacts, Directories
  <2>4. \A k \in Copies : Past(finds'[k].up) /\ Past(finds'[k].own)
    BY <1>23, RefreshTakesDoes, <1>j, Directories DEF NextIsNew
  <2> QED BY <1>23, <2>0, <2>1, <2>2, <2>3, <2>4, RefreshTakesDoes DEF NextIsNew, Past
<1>24. ASSUME NEW c \in Copies, RefreshPut(c) PROVE NextIsNew'
  <2>0. UNCHANGED made
    BY <1>24, RefreshPutDoes
  <2>1. Past(job'.ours) /\ Past(job'.theirs) /\ Past(job'.body)
    BY <1>24, RefreshPutDoes, <1>j, Directories DEF NextIsNew, IsJob
  <2>2. \A d \in Dirs : Past(file'[d])
    <3>1. file' = [file EXCEPT ![c] = job.body]
      BY <1>24, RefreshPutDoes
    <3> QED BY <3>1, <1>p, <1>f, FileFacts, Directories
  <2>3. \A k \in Copies : Past(finds'[k].up) /\ Past(finds'[k].own)
    BY <1>24, RefreshPutDoes, <1>j, Directories DEF NextIsNew
  <2> QED BY <1>24, <2>0, <2>1, <2>2, <2>3, RefreshPutDoes DEF NextIsNew, Past
<1> QED BY <1>0, <1>1, <1>2, <1>3, <1>4, <1>5, <1>6, <1>7, <1>8, <1>9, <1>10, <1>11, <1>12, <1>13,
   <1>14, <1>15, <1>16, <1>17, <1>18, <1>19, <1>20, <1>21, <1>22, <1>23, <1>24, Steps
        DEF SessionStep, Merge, Refresh

-----------------------------------------------------------------------------
(* Who has a copy, and whose job is under way. *)

(* A step of the job of c lets it go on or ends it.  The conflict copy is  *)
(* the last thing that a merge may count before its refresh.               *)
JobGoesOn(c) ==
  /\ UNCHANGED <<phase, queue>> /\ job'.at # "none"
  /\ job'.at \in MergeStages => phase[c] = "merging"
  /\ phase[c] = "merging" /\ job.at \in RefreshStages => job'.at \in RefreshStages
JobEnds(c) ==
  /\ job' = NoJob /\ queue' = Tail(queue)
  /\ \/ phase[c] = "merging" /\ phase' = [phase EXCEPT ![c] = "idle"]
     \/ phase[c] = "refreshing" /\ phase' = [phase EXCEPT ![c] = "working"]
Counts(c) ==
  \/ merges' = merges
  \/ /\ merges' = [merges EXCEPT ![c] = merges[c] + 1]
     /\ phase[c] = "merging" /\ job.at \notin RefreshStages /\ job'.at \in RefreshStages

LEMMA JobStep ==
  ASSUME WorkdirsTypeOK, JobIsAt, NEW c \in Copies, Merge(c) \/ Refresh(c)
  PROVE  /\ queue # <<>> /\ c = Head(queue) /\ phase[c] \in {"merging", "refreshing"}
         /\ JobGoesOn(c) \/ JobEnds(c)
         /\ Counts(c) /\ turns' = turns
         /\ \A d \in Copies : file'[d] = file[d] \/ d \in {c, From[c]}
<1> USE DEF JobIsAt, MergeStages, RefreshStages
<1>1. CASE MergeScan(c)
  <2>1. queue # <<>> /\ c = Head(queue) /\ phase[c] \in {"merging", "refreshing"}
    BY <1>1, MergeScanDoes
  <2>2. JobGoesOn(c) \/ JobEnds(c)
    BY <1>1, <2>1, MergeScanDoes DEF JobGoesOn, JobEnds, IsJob
  <2>3. Counts(c) /\ turns' = turns
    BY <1>1, <2>1, MergeScanDoes DEF Counts
  <2>4. \A d \in Copies : file'[d] = file[d] \/ d \in {c, From[c]}
    BY <1>1, MergeScanDoes, Directories DEF WorkdirsTypeOK
  <2> QED BY <2>1, <2>2, <2>3, <2>4
<1>2. CASE MergeScanCopy(c)
  <2>1. queue # <<>> /\ c = Head(queue) /\ phase[c] \in {"merging", "refreshing"}
    BY <1>2, MergeScanCopyDoes
  <2>2. JobGoesOn(c) \/ JobEnds(c)
    BY <1>2, <2>1, MergeScanCopyDoes DEF JobGoesOn, JobEnds, IsJob
  <2>3. Counts(c) /\ turns' = turns
    BY <1>2, <2>1, MergeScanCopyDoes DEF Counts
  <2>4. \A d \in Copies : file'[d] = file[d] \/ d \in {c, From[c]}
    BY <1>2, MergeScanCopyDoes, Directories DEF WorkdirsTypeOK
  <2> QED BY <2>1, <2>2, <2>3, <2>4
<1>3. CASE Unchanged(c)
  <2>1. queue # <<>> /\ c = Head(queue) /\ phase[c] \in {"merging", "refreshing"}
    BY <1>3, UnchangedDoes
  <2>2. JobGoesOn(c) \/ JobEnds(c)
    BY <1>3, <2>1, UnchangedDoes DEF JobGoesOn, JobEnds, IsJob
  <2>3. Counts(c) /\ turns' = turns
    BY <1>3, <2>1, UnchangedDoes DEF Counts
  <2>4. \A d \in Copies : file'[d] = file[d] \/ d \in {c, From[c]}
    BY <1>3, UnchangedDoes, Directories DEF WorkdirsTypeOK
  <2> QED BY <2>1, <2>2, <2>3, <2>4
<1>4. CASE TakeTheirs(c)
  <2>1. queue # <<>> /\ c = Head(queue) /\ phase[c] \in {"merging", "refreshing"}
    BY <1>4, TakeTheirsDoes
  <2>2. JobGoesOn(c) \/ JobEnds(c)
    BY <1>4, <2>1, TakeTheirsDoes DEF JobGoesOn, JobEnds, IsJob
  <2>3. Counts(c) /\ turns' = turns
    BY <1>4, <2>1, TakeTheirsDoes DEF Counts
  <2>4. \A d \in Copies : file'[d] = file[d] \/ d \in {c, From[c]}
    BY <1>4, TakeTheirsDoes, Directories DEF WorkdirsTypeOK
  <2> QED BY <2>1, <2>2, <2>3, <2>4
<1>5. CASE SameChange(c)
  <2>1. queue # <<>> /\ c = Head(queue) /\ phase[c] \in {"merging", "refreshing"}
    BY <1>5, SameChangeDoes
  <2>2. JobGoesOn(c) \/ JobEnds(c)
    BY <1>5, <2>1, SameChangeDoes DEF JobGoesOn, JobEnds, IsJob
  <2>3. Counts(c) /\ turns' = turns
    BY <1>5, <2>1, SameChangeDoes DEF Counts
  <2>4. \A d \in Copies : file'[d] = file[d] \/ d \in {c, From[c]}
    BY <1>5, SameChangeDoes, Directories DEF WorkdirsTypeOK
  <2> QED BY <2>1, <2>2, <2>3, <2>4
<1>6. CASE MergeBoth(c)
  <2>1. queue # <<>> /\ c = Head(queue) /\ phase[c] \in {"merging", "refreshing"}
    BY <1>6, MergeBothDoes
  <2>2. JobGoesOn(c) \/ JobEnds(c)
    BY <1>6, <2>1, MergeBothDoes DEF JobGoesOn, JobEnds, IsJob
  <2>3. Counts(c) /\ turns' = turns
    BY <1>6, <2>1, MergeBothDoes DEF Counts
  <2>4. \A d \in Copies : file'[d] = file[d] \/ d \in {c, From[c]}
    BY <1>6, MergeBothDoes, Directories DEF WorkdirsTypeOK
  <2> QED BY <2>1, <2>2, <2>3, <2>4
<1>7. CASE Conflict(c)
  <2>1. queue # <<>> /\ c = Head(queue) /\ phase[c] \in {"merging", "refreshing"}
    BY <1>7, ConflictDoes
  <2>2. JobGoesOn(c) \/ JobEnds(c)
    BY <1>7, <2>1, ConflictDoes DEF JobGoesOn, JobEnds, IsJob
  <2>3. Counts(c) /\ turns' = turns
    BY <1>7, <2>1, ConflictDoes DEF Counts, IsJob
  <2>4. \A d \in Copies : file'[d] = file[d] \/ d \in {c, From[c]}
    BY <1>7, ConflictDoes, Directories DEF WorkdirsTypeOK
  <2> QED BY <2>1, <2>2, <2>3, <2>4
<1>8. CASE MergeFails(c)
  <2>1. queue # <<>> /\ c = Head(queue) /\ phase[c] \in {"merging", "refreshing"}
    BY <1>8, MergeFailsDoes
  <2>2. JobGoesOn(c) \/ JobEnds(c)
    BY <1>8, <2>1, MergeFailsDoes DEF JobGoesOn, JobEnds, IsJob
  <2>3. Counts(c) /\ turns' = turns
    BY <1>8, <2>1, MergeFailsDoes DEF Counts
  <2>4. \A d \in Copies : file'[d] = file[d] \/ d \in {c, From[c]}
    BY <1>8, MergeFailsDoes, Directories DEF WorkdirsTypeOK
  <2> QED BY <2>1, <2>2, <2>3, <2>4
<1>9. CASE Put(c)
  <2>1. queue # <<>> /\ c = Head(queue) /\ phase[c] \in {"merging", "refreshing"}
    BY <1>9, PutDoes
  <2>2. JobGoesOn(c) \/ JobEnds(c)
    BY <1>9, <2>1, PutDoes DEF JobGoesOn, JobEnds, IsJob
  <2>3. Counts(c) /\ turns' = turns
    BY <1>9, <2>1, PutDoes DEF Counts
  <2>4. \A d \in Copies : file'[d] = file[d] \/ d \in {c, From[c]}
    BY <1>9, PutDoes, Directories DEF WorkdirsTypeOK
  <2> QED BY <2>1, <2>2, <2>3, <2>4
<1>10. CASE Stat(c)
  <2>1. queue # <<>> /\ c = Head(queue) /\ phase[c] \in {"merging", "refreshing"}
    BY <1>10, StatDoes
  <2>2. JobGoesOn(c) \/ JobEnds(c)
    BY <1>10, <2>1, StatDoes DEF JobGoesOn, JobEnds, IsJob
  <2>3. Counts(c) /\ turns' = turns
    BY <1>10, <2>1, StatDoes DEF Counts
  <2>4. \A d \in Copies : file'[d] = file[d] \/ d \in {c, From[c]}
    BY <1>10, StatDoes, Directories DEF WorkdirsTypeOK
  <2> QED BY <2>1, <2>2, <2>3, <2>4
<1>11. CASE StatBoth(c)
  <2>1. queue # <<>> /\ c = Head(queue) /\ phase[c] \in {"merging", "refreshing"}
    BY <1>11, StatBothDoes
  <2>2. JobGoesOn(c) \/ JobEnds(c)
    BY <1>11, <2>1, StatBothDoes DEF JobGoesOn, JobEnds, IsJob
  <2>3. Counts(c) /\ turns' = turns
    BY <1>11, <2>1, StatBothDoes DEF Counts
  <2>4. \A d \in Copies : file'[d] = file[d] \/ d \in {c, From[c]}
    BY <1>11, StatBothDoes, Directories DEF WorkdirsTypeOK
  <2> QED BY <2>1, <2>2, <2>3, <2>4
<1>12. CASE StatOwn(c)
  <2>1. queue # <<>> /\ c = Head(queue) /\ phase[c] \in {"merging", "refreshing"}
    BY <1>12, StatOwnDoes
  <2>2. JobGoesOn(c) \/ JobEnds(c)
    BY <1>12, <2>1, StatOwnDoes DEF JobGoesOn, JobEnds, IsJob
  <2>3. Counts(c) /\ turns' = turns
    BY <1>12, <2>1, StatOwnDoes DEF Counts
  <2>4. \A d \in Copies : file'[d] = file[d] \/ d \in {c, From[c]}
    BY <1>12, StatOwnDoes, Directories DEF WorkdirsTypeOK
  <2> QED BY <2>1, <2>2, <2>3, <2>4
<1>13. CASE RefreshScan(c)
  <2>1. queue # <<>> /\ c = Head(queue) /\ phase[c] \in {"merging", "refreshing"}
    BY <1>13, RefreshScanDoes
  <2>2. JobGoesOn(c) \/ JobEnds(c)
    BY <1>13, <2>1, RefreshScanDoes DEF JobGoesOn, JobEnds, IsJob
  <2>3. Counts(c) /\ turns' = turns
    BY <1>13, <2>1, RefreshScanDoes DEF Counts
  <2>4. \A d \in Copies : file'[d] = file[d] \/ d \in {c, From[c]}
    BY <1>13, RefreshScanDoes, Directories DEF WorkdirsTypeOK
  <2> QED BY <2>1, <2>2, <2>3, <2>4
<1>14. CASE RefreshScanCopy(c)
  <2>1. queue # <<>> /\ c = Head(queue) /\ phase[c] \in {"merging", "refreshing"}
    BY <1>14, RefreshScanCopyDoes
  <2>2. JobGoesOn(c) \/ JobEnds(c)
    BY <1>14, <2>1, RefreshScanCopyDoes DEF JobGoesOn, JobEnds, IsJob
  <2>3. Counts(c) /\ turns' = turns
    BY <1>14, <2>1, RefreshScanCopyDoes DEF Counts
  <2>4. \A d \in Copies : file'[d] = file[d] \/ d \in {c, From[c]}
    BY <1>14, RefreshScanCopyDoes, Directories DEF WorkdirsTypeOK
  <2> QED BY <2>1, <2>2, <2>3, <2>4
<1>15. CASE RefreshLeaves(c)
  <2>1. queue # <<>> /\ c = Head(queue) /\ phase[c] \in {"merging", "refreshing"}
    BY <1>15, RefreshLeavesDoes
  <2>2. JobGoesOn(c) \/ JobEnds(c)
    BY <1>15, <2>1, RefreshLeavesDoes DEF JobGoesOn, JobEnds, IsJob
  <2>3. Counts(c) /\ turns' = turns
    BY <1>15, <2>1, RefreshLeavesDoes DEF Counts
  <2>4. \A d \in Copies : file'[d] = file[d] \/ d \in {c, From[c]}
    BY <1>15, RefreshLeavesDoes, Directories DEF WorkdirsTypeOK
  <2> QED BY <2>1, <2>2, <2>3, <2>4
<1>16. CASE RefreshTakes(c)
  <2>1. queue # <<>> /\ c = Head(queue) /\ phase[c] \in {"merging", "refreshing"}
    BY <1>16, RefreshTakesDoes
  <2>2. JobGoesOn(c) \/ JobEnds(c)
    BY <1>16, <2>1, RefreshTakesDoes DEF JobGoesOn, JobEnds, IsJob
  <2>3. Counts(c) /\ turns' = turns
    BY <1>16, <2>1, RefreshTakesDoes DEF Counts
  <2>4. \A d \in Copies : file'[d] = file[d] \/ d \in {c, From[c]}
    BY <1>16, RefreshTakesDoes, Directories DEF WorkdirsTypeOK
  <2> QED BY <2>1, <2>2, <2>3, <2>4
<1>17. CASE RefreshPut(c)
  <2>1. queue # <<>> /\ c = Head(queue) /\ phase[c] \in {"merging", "refreshing"}
    BY <1>17, RefreshPutDoes
  <2>2. JobGoesOn(c) \/ JobEnds(c)
    BY <1>17, <2>1, RefreshPutDoes DEF JobGoesOn, JobEnds, IsJob
  <2>3. Counts(c) /\ turns' = turns
    BY <1>17, <2>1, RefreshPutDoes DEF Counts
  <2>4. \A d \in Copies : file'[d] = file[d] \/ d \in {c, From[c]}
    BY <1>17, RefreshPutDoes, Directories DEF WorkdirsTypeOK
  <2> QED BY <2>1, <2>2, <2>3, <2>4
<1> QED BY <1>1, <1>2, <1>3, <1>4, <1>5, <1>6, <1>7, <1>8, <1>9, <1>10, <1>11, <1>12, <1>13, <1>14,
   <1>15, <1>16, <1>17 DEF Merge, Refresh

(* The queue grows behind a job that is under way. *)
LEMMA QueueGrows ==
  ASSUME WorkdirsTypeOK, JobIsAt, NEW c \in Copies, phase[c] \notin {"merging", "refreshing"},
         queue' \in {queue, Append(queue, c)}, job.at # "none"
  PROVE  queue' # <<>> /\ Head(queue') = Head(queue) /\ c # Head(queue)
BY QueueNow DEF JobIsAt

LEMMA JobIsAtInductive ==
  ASSUME WorkdirsTypeOK, JobIsAt, [Next]_vars
  PROVE  JobIsAt'
<1>j. NoJob.at = "none"
  BY DEF NoJob
<1>1. CASE UNCHANGED vars
  BY <1>1 DEF vars, JobIsAt
<1>2. ASSUME NEW d \in Dirs, NEW new \in Files, EditOf(d, new) PROVE JobIsAt'
  BY <1>2, ChangeDoes DEF EditOf, JobIsAt
<1>3. ASSUME NEW c \in Copies, Open(c) \/ BeginTurn(c) \/ EndTurn(c) \/ Close(c) PROVE JobIsAt'
  <2>1. /\ phase[c] \notin {"merging", "refreshing"} /\ queue' \in {queue, Append(queue, c)} /\ job' = job
        /\ \A k \in Copies \ {c} : phase'[k] = phase[k]
    BY <1>3, OpenDoes, BeginTurnDoes, EndTurnDoes, CloseDoes DEF WorkdirsTypeOK
  <2>2. CASE job.at = "none"
    BY <2>1, <2>2 DEF JobIsAt
  <2>3. CASE job.at # "none"
    <3>1. queue' # <<>> /\ Head(queue') = Head(queue) /\ c # Head(queue) /\ Head(queue) \in Copies
      BY <2>1, <2>3, QueueGrows, QueueNow DEF JobIsAt
    <3>2. phase'[Head(queue')] = phase[Head(queue)]
      BY <2>1, <3>1
    <3> QED BY <2>1, <2>3, <3>1, <3>2 DEF JobIsAt
  <2> QED BY <2>2, <2>3
<1>4. ASSUME NEW c \in Copies, CopyIn(c) \/ RemoveCopy(c) PROVE JobIsAt'
  BY <1>j, <1>4, CopyInDoes, RemoveCopyDoes DEF JobIsAt
<1>5. ASSUME NEW c \in Copies, Merge(c) \/ Refresh(c) PROVE JobIsAt'
  <2>1. queue # <<>> /\ c = Head(queue) /\ phase[c] \in {"merging", "refreshing"} /\ (JobGoesOn(c) \/ JobEnds(c))
    BY <1>5, JobStep
  <2>2. CASE JobGoesOn(c)
    BY <2>1, <2>2 DEF JobGoesOn, JobIsAt
  <2>3. CASE JobEnds(c)
    BY <1>j, <2>3 DEF JobEnds, JobIsAt
  <2> QED BY <2>1, <2>2, <2>3
<1> QED BY <1>1, <1>2, <1>3, <1>4, <1>5, Steps DEF SessionStep

InBetween == {"idle", "refreshing", "working", "merging"}
(* Most steps leave open what is open, and write where it is. *)
Inside ==
  /\ \A k \in Copies : phase'[k] = phase[k] \/ {phase[k], phase'[k]} \subseteq InBetween
  /\ \A d \in Copies : file'[d] = file[d] \/ ~Out(d)

LEMMA StepsInside ==
  ASSUME WorkdirsTypeOK, JobIsAt, CopiesAreOpen, NEW c \in Copies,
         BeginTurn(c) \/ EndTurn(c) \/ Merge(c) \/ Refresh(c)
  PROVE  Inside
<1>1. CASE BeginTurn(c)
  BY <1>1, BeginTurnDoes DEF Inside, InBetween, WorkdirsTypeOK
<1>2. CASE EndTurn(c)
  BY <1>2, EndTurnDoes DEF Inside, InBetween, WorkdirsTypeOK
<1>3. CASE Merge(c) \/ Refresh(c)
  <2>1. /\ phase[c] \in {"merging", "refreshing"} /\ (JobGoesOn(c) \/ JobEnds(c))
        /\ \A d \in Copies : file'[d] = file[d] \/ d \in {c, From[c]}
    BY <1>3, JobStep
  <2>2. ~Out(c) /\ (From[c] \in Copies => ~Out(From[c]))
    BY <2>1 DEF CopiesAreOpen, Out
  <2>3. \A d \in Copies : file'[d] = file[d] \/ ~Out(d)
    BY <2>1, <2>2
  <2>4. \A k \in Copies : phase'[k] = phase[k] \/ {phase[k], phase'[k]} \subseteq InBetween
    BY <2>1 DEF JobGoesOn, JobEnds, InBetween, WorkdirsTypeOK
  <2> QED BY <2>3, <2>4 DEF Inside
<1> QED BY <1>1, <1>2, <1>3

LEMMA InsideKeeps ==
  ASSUME CopiesAreOpen, Inside
  PROVE  CopiesAreOpen' /\ \A k \in Copies : Out(k)' <=> Out(k)
<1>1. \A k \in Copies : Out(k)' <=> Out(k)
  BY DEF Inside, InBetween, Out
<1>2. ASSUME NEW k \in Copies PROVE Out(k)' => file'[k] = NoFile
  BY <1>1 DEF Inside, CopiesAreOpen
<1>3. ASSUME NEW k \in Copies, phase'[k] # "none", From[k] \in Copies
      PROVE  phase'[From[k]] \notin {"none", "opening", "closing"}
  BY <1>3 DEF Inside, InBetween, CopiesAreOpen
<1> QED BY <1>1, <1>2, <1>3 DEF CopiesAreOpen

LEMMA OpenInductive ==
  ASSUME WorkdirsTypeOK, JobIsAt, CopiesAreOpen, [Next]_vars
  PROVE  CopiesAreOpen'
<1> USE DEF CopiesAreOpen, Out, WorkdirsTypeOK
<1>1. CASE UNCHANGED vars
  BY <1>1 DEF vars
<1>2. ASSUME NEW d \in Dirs, NEW new \in Files, EditOf(d, new),
             d \in Copies => phase[d] \in {"working", "merging"}
      PROVE  CopiesAreOpen'
  <2>1. phase' = phase /\ file' = [file EXCEPT ![d] = new]
    BY <1>2, ChangeDoes DEF EditOf
  <2> QED BY <1>2, <2>1, Directories
<1>3. ASSUME NEW c \in Copies, Open(c) PROVE CopiesAreOpen'
  <2>1. /\ phase[c] = "none" /\ phase' = [phase EXCEPT ![c] = "opening"] /\ file' = file
        /\ From[c] \in Copies => phase[From[c]] = "working"
    BY <1>3, OpenDoes, Directories DEF Works
  <2> QED BY <2>1, Directories
<1>4. ASSUME NEW c \in Copies, Close(c) PROVE CopiesAreOpen'
  BY <1>4, CloseDoes, Directories
<1>5. ASSUME NEW c \in Copies, CopyIn(c) PROVE CopiesAreOpen'
  <2>1. /\ phase[c] = "opening" /\ phase' = [phase EXCEPT ![c] = "idle"]
        /\ \A k \in Copies \ {c} : file'[k] = file[k]
    BY <1>5, CopyInDoes, Directories
  <2> QED BY <2>1, Directories
<1>6. ASSUME NEW c \in Copies, RemoveCopy(c) PROVE CopiesAreOpen'
  <2>1. /\ phase[c] = "closing" /\ phase' = [phase EXCEPT ![c] = "none"]
        /\ file' = [file EXCEPT ![c] = NoFile]
    BY <1>6, RemoveCopyDoes
  <2> QED BY <2>1, Directories
<1>7. ASSUME NEW c \in Copies, BeginTurn(c) \/ EndTurn(c) \/ Merge(c) \/ Refresh(c) PROVE CopiesAreOpen'
  BY <1>7, StepsInside, InsideKeeps
<1> QED BY <1>1, <1>2, <1>3, <1>4, <1>5, <1>6, <1>7, Steps DEF SessionStep

-----------------------------------------------------------------------------
(* Conflict copies. *)

LEMMA CountKeeps ==
  ASSUME WorkdirsTypeOK, ConflictsCounted, turns' = turns,
         \A k \in Copies : merges'[k] \in {0, merges[k]} /\ (MayKeep(k)' => MayKeep(k))
  PROVE  ConflictsCounted'
<1>1. turns \in Nat /\ \A k \in Copies : merges[k] \in Nat
  BY DEF WorkdirsTypeOK
<1>2. ASSUME NEW k \in Copies PROVE merges'[k] <= turns /\ (MayKeep(k)' => merges'[k] < turns)
  <2>1. merges[k] <= turns /\ (MayKeep(k)' => merges[k] < turns)
    BY DEF ConflictsCounted
  <2> QED BY <1>1, <2>1
<1> QED BY <1>2 DEF ConflictsCounted

LEMMA CountInductive ==
  ASSUME WorkdirsTypeOK, JobIsAt, ConflictsCounted, [Next]_vars
  PROVE  ConflictsCounted'
<1>j. NoJob.at \notin RefreshStages
  BY DEF NoJob, RefreshStages
<1>1. CASE UNCHANGED vars
  BY <1>1 DEF vars, ConflictsCounted, MayKeep
<1>2. ASSUME NEW d \in Dirs, NEW new \in Files, EditOf(d, new) PROVE ConflictsCounted'
  BY <1>2, ChangeDoes DEF EditOf, ConflictsCounted, MayKeep
<1>3. ASSUME NEW c \in Copies, Open(c) \/ EndTurn(c) \/ Close(c) PROVE ConflictsCounted'
  <2>1. /\ phase[c] \notin {"merging", "refreshing"} /\ queue' \in {queue, Append(queue, c)}
        /\ UNCHANGED <<merges, turns, job>> /\ \A k \in Copies \ {c} : phase'[k] = phase[k]
        /\ phase'[c] \in {"opening", "closing", "idle"} \/ phase[c] = "working"
    BY <1>3, OpenDoes, EndTurnDoes, CloseDoes DEF WorkdirsTypeOK
  <2>2. job.at # "none" => queue' # <<>> /\ Head(queue') = Head(queue)
    BY <2>1, QueueGrows
  <2>3. job.at \in RefreshStages => job.at # "none" /\ queue # <<>>
    BY DEF RefreshStages, JobIsAt
  <2>4. ASSUME NEW k \in Copies, MayKeep(k)' PROVE MayKeep(k)
    <3>1. CASE k = c
      BY <2>1, <2>4, <3>1 DEF MayKeep
    <3>2. CASE k # c
      BY <2>1, <2>2, <2>3, <2>4, <3>2 DEF MayKeep
    <3> QED BY <3>1, <3>2
  <2> QED BY <2>1, <2>4, CountKeeps
<1>4. ASSUME NEW c \in Copies, BeginTurn(c) PROVE ConflictsCounted'
  <2>1. turns' = turns + 1 /\ turns < MaxTurns /\ merges' = merges
    BY <1>4, BeginTurnDoes
  <2>2. turns \in Nat /\ MaxTurns \in Nat /\ \A k \in Copies : merges[k] \in Nat /\ merges[k] <= turns
    BY WorkdirsAssumption DEF WorkdirsTypeOK, ConflictsCounted
  <2>3. \A k \in Copies : merges[k] < turns + 1
    BY <2>2
  <2>4. turns + 1 <= MaxTurns
    BY <2>1, <2>2
  <2> QED BY <2>1, <2>2, <2>3, <2>4 DEF ConflictsCounted
<1>5. ASSUME NEW c \in Copies, CopyIn(c) \/ RemoveCopy(c) PROVE ConflictsCounted'
  <2>1. /\ queue # <<>> /\ c = Head(queue) /\ job' = NoJob /\ turns' = turns
        /\ phase'[c] \in {"idle", "none"}
        /\ \A k \in Copies : merges'[k] \in {0, merges[k]} /\ (k # c => phase'[k] = phase[k])
    BY <1>5, CopyInDoes, RemoveCopyDoes DEF WorkdirsTypeOK
  <2>2. ASSUME NEW k \in Copies, MayKeep(k)' PROVE MayKeep(k)
    BY <2>1, <2>2 DEF MayKeep
  <2> QED BY <2>1, <2>2, CountKeeps
<1>6. ASSUME NEW c \in Copies, Merge(c) \/ Refresh(c) PROVE ConflictsCounted'
  <2>1. /\ queue # <<>> /\ c = Head(queue) /\ phase[c] \in {"merging", "refreshing"}
        /\ (JobGoesOn(c) \/ JobEnds(c)) /\ Counts(c) /\ turns' = turns
    BY <1>6, JobStep
  <2>2. ASSUME NEW k \in Copies, MayKeep(k)' PROVE MayKeep(k)
    <3>1. CASE JobGoesOn(c)
      BY <2>1, <2>2, <3>1 DEF MayKeep, JobGoesOn
    <3>2. CASE JobEnds(c)
      BY <2>1, <2>2, <3>2 DEF MayKeep, JobEnds, WorkdirsTypeOK
    <3> QED BY <2>1, <3>1, <3>2
  <2>3. CASE merges' = merges
    BY <2>1, <2>2, <2>3, CountKeeps
  <2>4. CASE merges' # merges
    <3>1. /\ merges' = [merges EXCEPT ![c] = merges[c] + 1]
          /\ phase[c] = "merging" /\ job.at \notin RefreshStages /\ job'.at \in RefreshStages
      BY <2>1, <2>4 DEF Counts
    <3>2. UNCHANGED <<phase, queue>>
      BY <1>j, <2>1, <3>1 DEF JobGoesOn, JobEnds
    <3>3. MayKeep(c) /\ ~MayKeep(c)'
      BY <2>1, <3>1, <3>2 DEF MayKeep
    <3>4. turns \in Nat /\ \A k \in Copies : merges[k] \in Nat
      BY DEF WorkdirsTypeOK
    <3>5. merges[c] < turns
      BY <3>3 DEF ConflictsCounted
    <3>6. merges'[c] <= turns' /\ \A k \in Copies \ {c} : merges'[k] = merges[k]
      BY <2>1, <3>1, <3>4, <3>5 DEF WorkdirsTypeOK
    <3>7. ASSUME NEW k \in Copies PROVE merges'[k] <= turns' /\ (MayKeep(k)' => merges'[k] < turns')
      BY <2>1, <2>2, <3>3, <3>6 DEF ConflictsCounted
    <3> QED BY <2>1, <3>7 DEF ConflictsCounted
  <2> QED BY <2>3, <2>4
<1> QED BY <1>1, <1>2, <1>3, <1>4, <1>5, <1>6, Steps DEF SessionStep

-----------------------------------------------------------------------------
(* What the copies and their parents have, seen on the edits of a set L.   *)

LEMMA Comparing ==
  ASSUME NEW L, NEW R
  PROVE  /\ \A a : Agree(L, R, a, a) /\ Within(L, a, a)
         /\ \A a, b : Agree(L, R, a, b) => Agree(L, R, b, a) /\ Within(L, a, b) /\ Within(L, b, a)
         /\ \A a, b, d : Agree(L, R, a, b) /\ Agree(L, R, b, d) => Agree(L, R, a, d)
         /\ \A a, b, d : Within(L, a, b) /\ Within(L, b, d) => Within(L, a, d)
BY DEF Agree, Within

(* It is enough to look at fewer edits, and not to ask for more equality.  *)
LEMMA Fewer ==
  ASSUME NEW L, NEW R, NEW M, NEW S, M \subseteq L, S = {} => R = {}, DataTells(L, R)
  PROVE  DataTells(M, S)
<1>1. \A a, b : (Agree(L, R, a, b) => Agree(M, S, a, b)) /\ (Within(L, a, b) => Within(M, a, b))
  BY DEF Agree, Within
<1>2. FindsTell(M, S)
  BY <1>1 DEF DataTells, FindsTell
<1>3. BasesTell(M)
  BY <1>1 DEF DataTells, BasesTell
<1>4. JobTells(M, S)
  BY <1>1 DEF DataTells, JobTells, JobKnows
<1> QED BY <1>2, <1>3, <1>4 DEF DataTells

(* Whoever writes a file is seen by the next scans. *)
Wrote(d, new) ==
  /\ file' = [file EXCEPT ![d] = new]
  /\ \A k \in Copies : /\ finds'[k].up = IF From[k] = d THEN new ELSE finds[k].up
                       /\ finds'[k].own = IF k = d THEN new ELSE finds[k].own
  /\ \A k \in Copies : Out(k)' <=> Out(k)
LEMMA WriteTells ==
  ASSUME WorkdirsTypeOK, NEW L, NEW R, FindsTell(L, R), NEW d \in Dirs, NEW new, Wrote(d, new)
  PROVE  FindsTell(L, R)'
<1> USE DEF Wrote
<1>1. ASSUME NEW k \in Copies, ~Out(k)'
      PROVE  Agree(L, R, finds'[k].up, file'[From[k]]) /\ Agree(L, R, finds'[k].own, file'[k])
  <2>1. Agree(L, R, finds[k].up, file[From[k]]) /\ Agree(L, R, finds[k].own, file[k])
    BY <1>1 DEF FindsTell
  <2>2. file'[From[k]] = (IF From[k] = d THEN new ELSE file[From[k]]) /\ file'[k] = (IF k = d THEN new ELSE file[k])
    BY Directories DEF WorkdirsTypeOK
  <2>3. Agree(L, R, finds'[k].up, file'[From[k]])
    BY <2>1, <2>2, Comparing
  <2>4. Agree(L, R, finds'[k].own, file'[k])
    BY <2>1, <2>2, Comparing
  <2> QED BY <2>3, <2>4
<1> QED BY <1>1 DEF FindsTell

(* Files that only grow keep what they have in common. *)
LEMMA GrowingKeeps ==
  ASSUME WorkdirsTypeOK, NEW L, BasesTell(L),
         \A d \in Dirs : Within(L, file[d], file'[d]),
         \A k \in Copies : ~Out(k)' =>
           /\ \/ base'[k] = base[k] /\ ~Out(k)
              \/ Within(L, base'[k], file'[k]) /\ Within(L, base'[k], file'[From[k]])
           /\ Settled(k)' => Within(L, file'[k], base'[k])
  PROVE  BasesTell(L)'
<1>1. ASSUME NEW k \in Copies, ~Out(k)'
      PROVE  /\ Within(L, base'[k], file'[k]) /\ Within(L, base'[k], file'[From[k]])
             /\ Settled(k)' => Within(L, file'[k], base'[k])
  <2>1. CASE base'[k] = base[k] /\ ~Out(k)
    <3>1. Within(L, base[k], file[k]) /\ Within(L, base[k], file[From[k]])
      BY <2>1 DEF BasesTell
    <3>2. Within(L, file[k], file'[k]) /\ Within(L, file[From[k]], file'[From[k]])
      BY Directories
    <3> QED BY <1>1, <2>1, <3>1, <3>2 DEF Within
  <2> QED BY <1>1, <2>1
<1> QED BY <1>1 DEF BasesTell

(* The job looks, and writes nothing. *)
LookAt(c) ==
  \/ MergeScan(c) \/ MergeScanCopy(c) \/ Unchanged(c) \/ MergeBoth(c) \/ RefreshScan(c) \/ RefreshScanCopy(c)
  \/ RefreshTakes(c) /\ job.ours # NoFile
  \/ TakeTheirs(c) /\ job.theirs # NoFile
LEMMA LooksTell ==
  ASSUME WorkdirsTypeOK, CopiesAreOpen, JobIsAt, NEW L, NEW R, DataTells(L, R), NEW c \in Copies, LookAt(c)
  PROVE  DataTells(L, R)'
<1> DEFINE up == file[From[c]]
           own == file[c]
<1>1. UNCHANGED <<file, base, finds, phase, queue, unmerged>>
  BY MergeScanDoes, MergeScanCopyDoes, UnchangedDoes, MergeBothDoes, RefreshScanDoes, RefreshScanCopyDoes,
     RefreshTakesDoes, TakeTheirsDoes DEF LookAt
<1>2. queue # <<>> /\ c = Head(queue) /\ phase[c] \in {"merging", "refreshing"}
  BY JobStep DEF LookAt, Merge, Refresh
<1>3. FindsTell(L, R)' /\ BasesTell(L)'
  BY <1>1 DEF DataTells, FindsTell, BasesTell, Out, Settled
<1>4. job.at # "none" => JobKnows(L, R, c)
  BY <1>2 DEF DataTells, JobTells
<1>5. /\ Agree(L, R, finds[c].up, up) /\ Agree(L, R, finds[c].own, own)
      /\ Within(L, base[c], own) /\ Within(L, base[c], up)
  BY <1>2 DEF DataTells, FindsTell, BasesTell, Out
<1>6. CASE MergeScan(c)
  <2>1. IsJob(job', "scanned", finds[c].up, job.theirs, job.body)
    BY <1>6, MergeScanDoes
  <2> QED BY <1>1, <1>2, <1>3, <1>5, <2>1, Comparing DEF DataTells, JobTells, JobKnows, IsJob
<1>7. CASE MergeScanCopy(c)
  <2>1. job.at = "scanned" /\ IsJob(job', "compared", job.ours, finds[c].own, job.body)
    BY <1>7, MergeScanCopyDoes
  <2> QED BY <1>1, <1>2, <1>3, <1>4, <1>5, <2>1, Comparing DEF DataTells, JobTells, JobKnows, IsJob
<1>8. CASE Unchanged(c)
  <2>1. job.at = "compared" /\ job.theirs = base[c] /\ IsJob(job', "refresh", job.ours, job.theirs, job.body)
    BY <1>8, UnchangedDoes
  <2> QED BY <1>1, <1>2, <1>3, <1>4, <2>1, Comparing DEF DataTells, JobTells, JobKnows, IsJob
<1>9. CASE MergeBoth(c)
  <2>1. job.at = "compared" /\ IsJob(job', "putBoth", job.ours, job.theirs, MergeText(base[c], up, own))
    BY <1>9, MergeBothDoes
  <2>2. Within(L, up, MergeText(base[c], up, own)) /\ Within(L, own, MergeText(base[c], up, own))
    BY <1>5 DEF Within, MergeText
  <2> QED BY <1>1, <1>2, <1>3, <2>1, <2>2 DEF DataTells, JobTells, JobKnows, IsJob
<1>10. CASE RefreshScan(c)
  <2>1. /\ (phase[c] = "refreshing" /\ job.at = "none") \/ job.at = "refresh"
        /\ IsJob(job', "refreshScanned", finds[c].up, job.theirs, job.body)
    BY <1>10, RefreshScanDoes
  <2> QED BY <1>1, <1>2, <1>3, <1>4, <1>5, <2>1, Comparing DEF DataTells, JobTells, JobKnows, IsJob
<1>11. CASE RefreshScanCopy(c)
  <2>1. job.at = "refreshScanned" /\ IsJob(job', "refreshCompared", job.ours, finds[c].own, job.body)
    BY <1>11, RefreshScanCopyDoes
  <2> QED BY <1>1, <1>2, <1>3, <1>4, <1>5, <2>1, Comparing DEF DataTells, JobTells, JobKnows, IsJob
<1>12. CASE RefreshTakes(c) /\ job.ours # NoFile
  <2>1. job.at = "refreshCompared" /\ job.theirs = base[c] /\ IsJob(job', "refreshPut", job.ours, job.theirs, up)
    BY <1>12, RefreshTakesDoes
  <2>2. Agree(L, R, base[c], own)
    BY <1>4, <2>1 DEF JobKnows
  <2>3. Within(L, own, up)
    BY <1>5, <2>2 DEF Agree, Within
  <2> QED BY <1>1, <1>2, <1>3, <2>1, <2>3, Comparing DEF DataTells, JobTells, JobKnows, IsJob
<1>13. CASE TakeTheirs(c) /\ job.theirs # NoFile
  <2>1. job.at = "compared" /\ job.ours = base[c] /\ IsJob(job', "put", job.ours, job.theirs, own)
    BY <1>13, TakeTheirsDoes
  <2>2. Agree(L, R, base[c], up) /\ Agree(L, R, job.theirs, own)
    BY <1>4, <2>1 DEF JobKnows
  <2> QED BY <1>1, <1>2, <1>3, <2>1, <2>2, Comparing DEF DataTells, JobTells, JobKnows, IsJob
<1> QED BY <1>6, <1>7, <1>8, <1>9, <1>10, <1>11, <1>12, <1>13 DEF LookAt

(* The step writes a base, or what a later scan believes. *)
LEMMA NotesTell ==
  ASSUME WorkdirsTypeOK, CopiesAreOpen, JobIsAt, NEW L, NEW R, DataTells(L, R), NEW c \in Copies,
         SameChange(c) \/ Stat(c) \/ StatOwn(c)
  PROVE  DataTells(L, R)'
<1> DEFINE up == file[From[c]]
           own == file[c]
<1>1. /\ file' = file
      /\ \A k \in Copies \ {c} : /\ base'[k] = base[k] /\ phase'[k] = phase[k]
                                 /\ finds'[k].up = finds[k].up /\ finds'[k].own = finds[k].own
  BY SameChangeDoes, StatDoes, StatOwnDoes DEF WorkdirsTypeOK
<1>2. queue # <<>> /\ c = Head(queue) /\ phase[c] \in {"merging", "refreshing"} /\ (JobGoesOn(c) \/ JobEnds(c))
  BY JobStep DEF Merge, Refresh
<1>3. /\ job.at # "none" /\ JobKnows(L, R, c)
      /\ Agree(L, R, finds[c].up, up) /\ Agree(L, R, finds[c].own, own)
  BY <1>2, SameChangeDoes, StatDoes, StatOwnDoes DEF DataTells, JobTells, FindsTell, Out
<1>4. /\ Agree(L, R, finds'[c].up, up) /\ Agree(L, R, finds'[c].own, own)
      /\ Agree(L, R, base'[c], up) /\ Agree(L, R, base'[c], own)
  <2>1. CASE SameChange(c)
    BY <1>3, <2>1, SameChangeDoes, Comparing DEF JobKnows, WorkdirsTypeOK
  <2>2. CASE Stat(c)
    BY <1>3, <2>2, StatDoes, Comparing DEF JobKnows, WorkdirsTypeOK
  <2>3. CASE StatOwn(c)
    BY <1>3, <2>3, StatOwnDoes, Comparing DEF JobKnows, WorkdirsTypeOK
  <2> QED BY <2>1, <2>2, <2>3
<1>5. \A k \in Copies \ {c} : (Out(k)' <=> Out(k)) /\ (Settled(k)' => Settled(k))
  <2>1. \A k \in Copies \ {c} : k \in unmerged => k \in unmerged'
    BY SameChangeDoes, StatDoes, StatOwnDoes
  <2> QED BY <1>1, <2>1 DEF Out, Settled
<1>6. FindsTell(L, R)'
  BY <1>1, <1>4, <1>5 DEF DataTells, FindsTell
<1>7. BasesTell(L)'
  <2>1. Within(L, base'[c], up) /\ Within(L, base'[c], own) /\ Within(L, own, base'[c])
    BY <1>4, Comparing
  <2> QED BY <1>1, <1>5, <2>1 DEF DataTells, BasesTell
<1>8. JobTells(L, R)'
  <2>1. CASE job'.at # "none"
    <3>1. job'.at = "refresh" /\ queue' = queue
      BY <2>1, SameChangeDoes, StatDoes, StatOwnDoes DEF IsJob, NoJob
    <3> QED BY <1>1, <1>2, <1>4, <3>1 DEF JobTells, JobKnows
  <2> QED BY <2>1 DEF JobTells
<1> QED BY <1>6, <1>7, <1>8 DEF DataTells

(* The job ends and writes nothing. *)
LEMMA LeavingTells ==
  ASSUME WorkdirsTypeOK, CopiesAreOpen, JobIsAt, NEW L, NEW R, DataTells(L, R), NEW c \in Copies,
         MergeFails(c) \/ RefreshLeaves(c)
  PROVE  DataTells(L, R)'
<1>1. UNCHANGED <<file, base, finds>> /\ job'.at = "none"
  BY MergeFailsDoes, RefreshLeavesDoes DEF NoJob
<1>2. queue # <<>> /\ c = Head(queue) /\ phase[c] \in {"merging", "refreshing"} /\ (JobGoesOn(c) \/ JobEnds(c))
  BY JobStep DEF Merge, Refresh
<1>3. \A k \in Copies : (Out(k)' <=> Out(k)) /\ (Settled(k)' => Settled(k) \/ k = c)
  BY <1>2, MergeFailsDoes, RefreshLeavesDoes DEF JobGoesOn, JobEnds, Out, Settled, WorkdirsTypeOK
<1>4. Settled(c)' => Within(L, file[c], base[c])
  <2>1. CASE MergeFails(c)
    BY <2>1, MergeFailsDoes DEF Settled
  <2>2. CASE RefreshLeaves(c)
    <3>1. JobKnows(L, R, c) /\ job.at = "refreshCompared"
      BY <1>2, <2>2, RefreshLeavesDoes DEF DataTells, JobTells
    <3>2. Settled(c)' => phase[c] = "merging"
      BY <2>2, RefreshLeavesDoes DEF Settled, WorkdirsTypeOK
    <3> QED BY <3>1, <3>2, Comparing DEF JobKnows
  <2> QED BY <2>1, <2>2
<1>5. FindsTell(L, R)'
  BY <1>1, <1>3 DEF DataTells, FindsTell
<1>6. BasesTell(L)'
  BY <1>1, <1>3, <1>4 DEF DataTells, BasesTell
<1>7. JobTells(L, R)'
  BY <1>1 DEF JobTells
<1> QED BY <1>5, <1>6, <1>7 DEF DataTells

(* The job writes a file: that of the parent, or of the copy.  No live     *)
(* edit goes.                                                              *)
Putting(c) ==
  \/ Put(c)
  \/ TakeTheirs(c) /\ job.theirs = NoFile
LEMMA PuttingTells ==
  ASSUME WorkdirsTypeOK, CopiesAreOpen, JobIsAt, NEW L, NEW R, DataTells(L, R), NEW c \in Copies, Putting(c)
  PROVE  DataTells(L, R)' /\ \A d \in Dirs : Within(L, file[d], file'[d])
<1> DEFINE up == file[From[c]]
           own == file[c]
<1>1. queue # <<>> /\ c = Head(queue) /\ phase[c] = "merging" /\ job.at \in {"put", "putBoth", "compared"}
  BY PutDoes, TakeTheirsDoes DEF Putting, JobIsAt, MergeStages
<1>2. JobKnows(L, R, c)
  BY <1>1 DEF DataTells, JobTells
<1>3. PICK new \in Files :
        /\ file' = [file EXCEPT ![From[c]] = new]
        /\ \A k \in Copies : /\ finds'[k].up = IF From[k] = From[c] THEN new ELSE finds[k].up
                             /\ finds'[k].own = IF k = From[c] THEN new ELSE finds[k].own
        /\ \/ new = job.body /\ job.at = "put" /\ job'.at = "stat" /\ job'.theirs = job.theirs
           \/ new = job.body /\ job.at = "putBoth" /\ job'.at = "statBoth" /\ job'.body = job.body
           \/ /\ new = NoFile /\ job.at = "compared" /\ job.theirs = NoFile /\ job.ours = base[c] /\ job'.at = "refresh"
              /\ base' = [base EXCEPT ![c] = NoFile]
        /\ base' = base \/ base' = [base EXCEPT ![c] = NoFile]
  <2>1. CASE Put(c)
    <3>1. /\ file' = [file EXCEPT ![From[c]] = job.body] /\ base' = base
          /\ \A k \in Copies : /\ finds'[k].up = IF From[k] = From[c] THEN job.body ELSE finds[k].up
                               /\ finds'[k].own = IF k = From[c] THEN job.body ELSE finds[k].own
      BY <2>1, PutDoes
    <3>2. \/ job.at = "put" /\ job'.at = "stat" /\ job'.theirs = job.theirs
          \/ job.at = "putBoth" /\ job'.at = "statBoth" /\ job'.body = job.body
      BY <2>1, PutDoes DEF IsJob
    <3>3. job.body \in Files
      BY FileFacts
    <3> QED BY <3>1, <3>2, <3>3
  <2>2. CASE TakeTheirs(c) /\ job.theirs = NoFile
    <3>1. /\ file' = [file EXCEPT ![From[c]] = NoFile] /\ base' = [base EXCEPT ![c] = NoFile]
          /\ job.at = "compared" /\ job.ours = base[c]
          /\ \A k \in Copies : /\ finds'[k].up = IF From[k] = From[c] THEN NoFile ELSE finds[k].up
                               /\ finds'[k].own = IF k = From[c] THEN NoFile ELSE finds[k].own
      BY <2>2, TakeTheirsDoes
    <3>2. job'.at = "refresh"
      BY <2>2, TakeTheirsDoes DEF IsJob
    <3>3. NoFile \in Files
      BY FileFacts
    <3> QED BY <2>2, <3>1, <3>2, <3>3
  <2> QED BY <2>1, <2>2 DEF Putting
<1>4. UNCHANGED <<phase, queue>> /\ \A k \in Copies : k \in unmerged => k \in unmerged'
  BY PutDoes, TakeTheirsDoes DEF Putting, Late
<1>5. \A k \in Copies : (Out(k)' <=> Out(k)) /\ (Settled(k)' => Settled(k))
  BY <1>4 DEF Out, Settled
<1>6. /\ file'[From[c]] = new /\ file'[c] = own
      /\ \A d \in Dirs \ {From[c]} : file'[d] = file[d]
  BY <1>3, Directories DEF WorkdirsTypeOK
<1>7. Within(L, up, new)
  <2>1. Within(L, base[c], own) /\ (job.at = "compared" => Agree(L, R, job.ours, up))
    BY <1>1, <1>2 DEF DataTells, BasesTell, Out, JobKnows
  <2>2. job.at = "put" => Agree(L, R, job.body, own) /\ Agree(L, R, base[c], up)
    BY <1>2 DEF JobKnows
  <2>3. job.at = "putBoth" => Within(L, up, job.body)
    BY <1>2 DEF JobKnows
  <2>4. job.at = "compared" => Agree(L, R, job.theirs, own)
    BY <1>2 DEF JobKnows
  <2>5. CASE job.at = "put"
    BY <1>3, <2>1, <2>2, <2>5 DEF Agree, Within
  <2>6. CASE job.at = "putBoth"
    BY <1>3, <2>3, <2>6
  <2>7. CASE job.at = "compared"
    BY <1>3, <2>1, <2>4, <2>7 DEF Agree, Within
  <2> QED BY <1>1, <2>5, <2>6, <2>7
<1>8. \A d \in Dirs : Within(L, file[d], file'[d])
  BY <1>6, <1>7, Directories, Comparing
<1>9. From[c] \in Copies /\ Settled(From[c])' => new = NoFile
  <2>1. From[c] \in Copies => phase[From[c]] # "closing"
    BY <1>1 DEF CopiesAreOpen
  <2>2. Put(c) /\ From[c] \in Copies /\ phase[From[c]] = "idle" => From[c] \in unmerged'
    BY PutDoes DEF Late
  <2>3. TakeTheirs(c) => new = NoFile
    <3>1. TakeTheirs(c) => job.at = "compared"
      BY TakeTheirsDoes
    <3>2. job.at = "compared" => new = NoFile
      BY <1>3
    <3> QED BY <3>1, <3>2
  <2> QED BY <1>4, <2>1, <2>2, <2>3 DEF Putting, Settled
<1>10. FindsTell(L, R)'
  <2>1. FindsTell(L, R) /\ From[c] \in Dirs
    BY Directories DEF DataTells
  <2>2. Wrote(From[c], new)
    BY <1>3, <1>5 DEF Wrote
  <2> QED BY <2>1, <2>2, WriteTells
<1>11. BasesTell(L)'
  <2>1. ASSUME NEW k \in Copies, ~Out(k)'
        PROVE  /\ \/ base'[k] = base[k] /\ ~Out(k)
                  \/ Within(L, base'[k], file'[k]) /\ Within(L, base'[k], file'[From[k]])
               /\ Settled(k)' => Within(L, file'[k], base'[k])
    <3>1. base'[k] = base[k] \/ base'[k] = NoFile
      BY <1>3 DEF WorkdirsTypeOK
    <3>2. Settled(k)' => k # c
      BY <1>1, <1>4 DEF Settled
    <3>3. Settled(k)' => Within(L, file'[k], base'[k])
      <4>1. CASE k = From[c]
        BY <1>6, <1>9, <4>1 DEF Within, NoFile
      <4>2. CASE k # From[c] /\ k # c
        <5>1. file'[k] = file[k] /\ base'[k] = base[k]
          BY <1>3, <1>6, <4>2, Directories DEF WorkdirsTypeOK
        <5> QED BY <1>5, <2>1, <5>1 DEF DataTells, BasesTell
      <4> QED BY <3>2, <4>1, <4>2
    <3> QED BY <1>5, <2>1, <3>1, <3>3 DEF Within, NoFile
  <2> QED BY <1>8, <2>1, GrowingKeeps DEF DataTells
<1>12. JobTells(L, R)'
  <2>1. JobKnows(L, R, c)'
    <3>1. CASE job.at = "put"
      <4>1. Agree(L, R, job.theirs, own) /\ Agree(L, R, job.body, own)
        BY <1>2, <3>1 DEF JobKnows
      <4> QED BY <1>3, <1>6, <3>1, <4>1, Comparing DEF JobKnows
    <3>2. CASE job.at = "putBoth"
      <4>1. Within(L, own, job.body)
        BY <1>2, <3>2 DEF JobKnows
      <4> QED BY <1>3, <1>6, <3>2, <4>1, Comparing DEF JobKnows
    <3>3. CASE job.at = "compared"
      <4>1. Agree(L, R, NoFile, own) /\ base'[c] = NoFile
        BY <1>2, <1>3, <3>3 DEF JobKnows, WorkdirsTypeOK
      <4> QED BY <1>3, <1>6, <3>3, <4>1 DEF JobKnows
    <3> QED BY <1>1, <3>1, <3>2, <3>3
  <2> QED BY <1>1, <1>4, <2>1 DEF JobTells
<1> QED BY <1>8, <1>10, <1>11, <1>12 DEF DataTells

Taking(c) ==
  \/ StatBoth(c) \/ RefreshPut(c)
  \/ RefreshTakes(c) /\ job.ours = NoFile
LEMMA TakingTells ==
  ASSUME WorkdirsTypeOK, CopiesAreOpen, JobIsAt, NEW L, NEW R, DataTells(L, R), NEW c \in Copies, Taking(c)
  PROVE  DataTells(L, R)' /\ \A d \in Dirs : Within(L, file[d], file'[d])
<1> DEFINE up == file[From[c]]
           own == file[c]
<1>1. /\ queue # <<>> /\ c = Head(queue) /\ phase[c] \in {"merging", "refreshing"}
      /\ job.at \in {"statBoth", "refreshPut", "refreshCompared"}
      /\ JobGoesOn(c) \/ JobEnds(c)
  BY JobStep, StatBothDoes, RefreshPutDoes, RefreshTakesDoes DEF Taking, Merge, Refresh
<1>2. /\ JobKnows(L, R, c) /\ FindsTell(L, R) /\ BasesTell(L)
      /\ Within(L, base[c], up)
  BY <1>1 DEF DataTells, JobTells, BasesTell, Out
<1>3. PICK new \in Files :
        /\ file' = [file EXCEPT ![c] = new]
        /\ \A k \in Copies : /\ finds'[k].up = (IF From[k] = c THEN new ELSE finds[k].up) \/ (k = c /\ finds'[k].up = new)
                             /\ finds'[k].own = IF k = c THEN new ELSE finds[k].own
        /\ \/ /\ new = job.body /\ job.at \in {"statBoth", "refreshPut"} /\ job'.at \in {"statOwn", "refreshStat"}
              /\ job'.body = job.body /\ base' = base
           \/ /\ new = NoFile /\ job.at = "refreshCompared" /\ job.ours = NoFile /\ job.theirs = base[c]
              /\ job'.at = "none" /\ base' = [base EXCEPT ![c] = NoFile]
  <2>1. CASE StatBoth(c)
    <3>1. /\ file' = [file EXCEPT ![c] = job.body] /\ base' = base /\ job.at = "statBoth"
          /\ \A k \in Copies : /\ finds'[k].up = IF k = c \/ From[k] = c THEN job.body ELSE finds[k].up
                               /\ finds'[k].own = IF k = c THEN job.body ELSE finds[k].own
      BY <2>1, StatBothDoes
    <3>2. job'.at = "statOwn" /\ job'.body = job.body
      BY <2>1, StatBothDoes DEF IsJob
    <3>3. job.body \in Files
      BY FileFacts
    <3>4. \A k \in Copies : /\ finds'[k].up = (IF From[k] = c THEN job.body ELSE finds[k].up) \/ (k = c /\ finds'[k].up = job.body)
                            /\ finds'[k].own = IF k = c THEN job.body ELSE finds[k].own
      BY <3>1
    <3> QED BY <3>1, <3>2, <3>3, <3>4
  <2>2. CASE RefreshPut(c)
    <3>1. /\ file' = [file EXCEPT ![c] = job.body] /\ base' = base /\ job.at = "refreshPut"
          /\ \A k \in Copies : /\ finds'[k].up = IF From[k] = c THEN job.body ELSE finds[k].up
                               /\ finds'[k].own = IF k = c THEN job.body ELSE finds[k].own
      BY <2>2, RefreshPutDoes
    <3>2. job'.at = "refreshStat" /\ job'.body = job.body
      BY <2>2, RefreshPutDoes DEF IsJob
    <3>3. job.body \in Files
      BY FileFacts
    <3>4. \A k \in Copies : /\ finds'[k].up = (IF From[k] = c THEN job.body ELSE finds[k].up) \/ (k = c /\ finds'[k].up = job.body)
                            /\ finds'[k].own = IF k = c THEN job.body ELSE finds[k].own
      BY <3>1
    <3> QED BY <3>1, <3>2, <3>3, <3>4
  <2>3. CASE RefreshTakes(c) /\ job.ours = NoFile
    <3>1. /\ file' = [file EXCEPT ![c] = NoFile] /\ base' = [base EXCEPT ![c] = NoFile]
          /\ job.at = "refreshCompared" /\ job.theirs = base[c] /\ job' = NoJob
          /\ \A k \in Copies : /\ finds'[k].up = IF From[k] = c THEN NoFile ELSE finds[k].up
                               /\ finds'[k].own = IF k = c THEN NoFile ELSE finds[k].own
      BY <2>3, RefreshTakesDoes
    <3>2. NoFile \in Files /\ NoJob.at = "none"
      BY FileFacts DEF NoJob
    <3>4. \A k \in Copies : /\ finds'[k].up = (IF From[k] = c THEN NoFile ELSE finds[k].up) \/ (k = c /\ finds'[k].up = NoFile)
                            /\ finds'[k].own = IF k = c THEN NoFile ELSE finds[k].own
      BY <3>1
    <3> QED BY <2>3, <3>1, <3>2, <3>4
  <2> QED BY <2>1, <2>2, <2>3 DEF Taking
<1>4. /\ file'[c] = new /\ file'[From[c]] = up
      /\ \A d \in Dirs \ {c} : file'[d] = file[d]
  BY <1>3, Directories DEF WorkdirsTypeOK
<1>5. Within(L, own, new) /\ Agree(L, R, new, up)
  <2>1. CASE job.at = "statBoth" \/ job.at = "refreshPut"
    BY <1>2, <1>3, <2>1 DEF JobKnows
  <2>2. CASE job.at = "refreshCompared"
    <3>1. Agree(L, R, NoFile, up) /\ Agree(L, R, base[c], own)
      BY <1>2, <1>3, <2>2 DEF JobKnows
    <3> QED BY <1>2, <1>3, <2>2, <3>1 DEF Agree, Within
  <2> QED BY <1>1, <2>1, <2>2
<1>6. \A d \in Dirs : Within(L, file[d], file'[d])
  BY <1>4, <1>5, Directories, Comparing
<1>7. \A k \in Copies : Out(k)' <=> Out(k)
  BY <1>1 DEF JobGoesOn, JobEnds, Out, WorkdirsTypeOK
<1>8. \A k \in Copies \ {c} : Settled(k)' => Settled(k)
  <2>1. \A k \in Copies \ {c} : k \in unmerged => k \in unmerged'
    BY StatBothDoes, RefreshPutDoes, RefreshTakesDoes DEF Taking
  <2>2. \A k \in Copies \ {c} : phase'[k] = phase[k]
    BY <1>1 DEF JobGoesOn, JobEnds, WorkdirsTypeOK
  <2> QED BY <2>1, <2>2 DEF Settled
<1>9. FindsTell(L, R)'
  <2>1. ASSUME NEW k \in Copies, ~Out(k)'
        PROVE  Agree(L, R, finds'[k].up, file'[From[k]]) /\ Agree(L, R, finds'[k].own, file'[k])
    <3>1. Agree(L, R, finds[k].up, file[From[k]]) /\ Agree(L, R, finds[k].own, file[k])
      BY <1>2, <1>7, <2>1 DEF FindsTell
    <3>2. Agree(L, R, finds'[k].own, file'[k])
      BY <1>3, <1>4, <3>1, Directories, Comparing
    <3>3. Agree(L, R, finds'[k].up, file'[From[k]])
      <4>1. CASE k = c
        BY <1>3, <1>4, <1>5, <3>1, <4>1, Directories
      <4>2. CASE k # c
        BY <1>3, <1>4, <3>1, <4>2, Directories, Comparing
      <4> QED BY <4>1, <4>2
    <3> QED BY <3>2, <3>3
  <2> QED BY <2>1 DEF FindsTell
<1>10. BasesTell(L)'
  <2>1. ASSUME NEW k \in Copies, ~Out(k)'
        PROVE  /\ \/ base'[k] = base[k] /\ ~Out(k)
                  \/ Within(L, base'[k], file'[k]) /\ Within(L, base'[k], file'[From[k]])
               /\ Settled(k)' => Within(L, file'[k], base'[k])
    <3>1. base'[k] = base[k] \/ base'[k] = NoFile
      BY <1>3 DEF WorkdirsTypeOK
    <3>2. CASE k = c
      <4>1. Settled(k)' => new = NoFile
        BY <1>1, <1>3, <3>2 DEF JobGoesOn, JobEnds, Settled, WorkdirsTypeOK, NoJob
      <4> QED BY <1>4, <1>7, <2>1, <3>1, <3>2, <4>1 DEF Within, NoFile
    <3>3. CASE k # c
      <4>1. file'[k] = file[k] /\ base'[k] = base[k]
        BY <1>3, <1>4, <3>3, Directories DEF WorkdirsTypeOK
      <4> QED BY <1>2, <1>7, <1>8, <2>1, <3>3, <4>1 DEF BasesTell
    <3> QED BY <3>2, <3>3
  <2> QED BY <1>2, <1>6, <2>1, GrowingKeeps
<1>11. JobTells(L, R)'
  <2>1. CASE job'.at # "none"
    <3>1. /\ new = job.body /\ job.at \in {"statBoth", "refreshPut"} /\ job'.at \in {"statOwn", "refreshStat"}
          /\ job'.body = job.body
      BY <1>3, <2>1
    <3>2. UNCHANGED queue
      BY <1>1, <2>1 DEF JobGoesOn, JobEnds, NoJob
    <3>3. JobKnows(L, R, c)'
      BY <1>4, <1>5, <3>1, Comparing DEF JobKnows
    <3> QED BY <1>1, <3>2, <3>3 DEF JobTells
  <2> QED BY <2>1 DEF JobTells
<1> QED BY <1>6, <1>9, <1>10, <1>11 DEF DataTells

(* Steps of a session that leave its copy alone. *)
LEMMA SessionTells ==
  ASSUME WorkdirsTypeOK, CopiesAreOpen, JobIsAt, NEW L, NEW R, DataTells(L, R), NEW c \in Copies,
         Open(c) \/ BeginTurn(c) \/ EndTurn(c) \/ Close(c)
  PROVE  DataTells(L, R)'
<1>0. /\ UNCHANGED <<file, finds, job>> /\ queue' \in {queue, Append(queue, c)}
      /\ phase[c] \notin {"merging", "refreshing"}
      /\ base' = base \/ base' = [base EXCEPT ![c] = file[From[c]]]
      /\ \E p \in Phases : phase' = [phase EXCEPT ![c] = p]
      /\ unmerged' = unmerged \/ unmerged' = unmerged \cup {c}
  BY OpenDoes, BeginTurnDoes, EndTurnDoes, CloseDoes, PhaseNames
<1>1. /\ UNCHANGED <<file, finds, job>> /\ queue' \in {queue, Append(queue, c)}
      /\ phase[c] \notin {"merging", "refreshing"}
      /\ \A k \in Copies \ {c} : base'[k] = base[k] /\ phase'[k] = phase[k] /\ (k \in unmerged => k \in unmerged')
  BY <1>0 DEF WorkdirsTypeOK
<1>2. \/ Out(c)'
      \/ ~Out(c) /\ base'[c] = base[c] /\ (Settled(c)' => Settled(c))
  BY OpenDoes, BeginTurnDoes, EndTurnDoes, CloseDoes DEF Out, Settled, WorkdirsTypeOK
<1>3. \A k \in Copies : ~Out(k)' => ~Out(k) /\ base'[k] = base[k] /\ (Settled(k)' => Settled(k))
  BY <1>1, <1>2 DEF Out, Settled
<1>4. FindsTell(L, R)'
  BY <1>1, <1>3 DEF DataTells, FindsTell
<1>5. BasesTell(L)'
  BY <1>1, <1>3 DEF DataTells, BasesTell
<1>6. JobTells(L, R)'
  <2>1. CASE job.at = "none"
    BY <1>1, <2>1 DEF JobTells
  <2>2. CASE job.at # "none"
    <3>1. Head(queue') = Head(queue) /\ c # Head(queue) /\ Head(queue) \in Copies
      BY <1>1, <2>2, QueueGrows, QueueNow DEF JobIsAt
    <3>2. phase'[Head(queue)] = phase[Head(queue)] /\ base'[Head(queue)] = base[Head(queue)]
      BY <1>1, <3>1
    <3> QED BY <1>1, <2>2, <3>1, <3>2 DEF DataTells, JobTells, JobKnows
  <2> QED BY <2>1, <2>2
<1> QED BY <1>4, <1>5, <1>6 DEF DataTells

LEMMA CopyInTells ==
  ASSUME WorkdirsTypeOK, CopiesAreOpen, NEW L, NEW R, DataTells(L, R), NEW c \in Copies, CopyIn(c)
  PROVE  DataTells(L, R)' /\ \A d \in Dirs : Within(L, file[d], file'[d])
<1>1. PICK body \in {NoFile, file[From[c]]} :
        /\ phase[c] = "opening" /\ phase' = [phase EXCEPT ![c] = "idle"] /\ job' = NoJob
        /\ base' = [base EXCEPT ![c] = body] /\ file' = [file EXCEPT ![c] = body]
        /\ \A k \in Copies : /\ finds'[k].up = IF k = c THEN file[From[c]] ELSE IF From[k] = c THEN body ELSE finds[k].up
                             /\ finds'[k].own = IF k = c THEN body ELSE finds[k].own
        /\ unmerged' = unmerged
  BY CopyInDoes
<1>2. /\ file'[c] = body /\ base'[c] = body /\ file[c] = NoFile
      /\ \A d \in Dirs \ {c} : file'[d] = file[d]
      /\ \A k \in Copies \ {c} : base'[k] = base[k] /\ phase'[k] = phase[k]
  BY <1>1, Directories DEF WorkdirsTypeOK, CopiesAreOpen, Out
<1>3. \A k \in Copies : From[k] = c => Out(k) /\ Out(k)'
  BY <1>1, <1>2, Directories DEF CopiesAreOpen, Out
<1>4. \A k \in Copies \ {c} : (Out(k)' => Out(k)) /\ (Out(k) => Out(k)') /\ (Settled(k)' => Settled(k))
  BY <1>1, <1>2 DEF Out, Settled
<1>5. \A d \in Dirs : Within(L, file[d], file'[d])
  BY <1>2, Comparing DEF Within, NoFile
<1>6. Within(L, body, file[From[c]])
  BY <1>1, Comparing DEF Within, NoFile
<1>7. FindsTell(L, R)'
  <2>1. ASSUME NEW k \in Copies, ~Out(k)'
        PROVE  Agree(L, R, finds'[k].up, file'[From[k]]) /\ Agree(L, R, finds'[k].own, file'[k])
    <3>1. From[k] \in Dirs \ {c}
      BY <1>3, <2>1, Directories
    <3>2. CASE k = c
      BY <1>1, <1>2, <3>1, <3>2, Comparing
    <3>3. CASE k # c
      <4>1. Agree(L, R, finds[k].up, file[From[k]]) /\ Agree(L, R, finds[k].own, file[k])
        BY <1>4, <2>1, <3>3 DEF DataTells, FindsTell
      <4> QED BY <1>1, <1>2, <3>1, <3>3, <4>1, Directories
    <3> QED BY <3>2, <3>3
  <2> QED BY <2>1 DEF FindsTell
<1>8. BasesTell(L)'
  <2>1. ASSUME NEW k \in Copies, ~Out(k)'
        PROVE  /\ \/ base'[k] = base[k] /\ ~Out(k)
                  \/ Within(L, base'[k], file'[k]) /\ Within(L, base'[k], file'[From[k]])
               /\ Settled(k)' => Within(L, file'[k], base'[k])
    <3>1. CASE k = c
      BY <1>2, <1>6, <3>1, Directories, Comparing
    <3>2. CASE k # c
      BY <1>2, <1>4, <2>1, <3>2, Directories DEF DataTells, BasesTell
    <3> QED BY <3>1, <3>2
  <2> QED BY <1>5, <2>1, GrowingKeeps DEF DataTells
<1>9. JobTells(L, R)'
  BY <1>1 DEF JobTells, NoJob
<1> QED BY <1>5, <1>7, <1>8, <1>9 DEF DataTells

(* Only a copy that nobody has a copy of is removed. *)
LEMMA RemoveTells ==
  ASSUME WorkdirsTypeOK, CopiesAreOpen, NEW L, NEW R, DataTells(L, R), NEW c \in Copies, RemoveCopy(c)
  PROVE  DataTells(L, R)'
<1>1. /\ phase[c] = "closing" /\ phase' = [phase EXCEPT ![c] = "none"] /\ job' = NoJob
      /\ base' = [base EXCEPT ![c] = NoFile] /\ file' = [file EXCEPT ![c] = NoFile]
      /\ \A k \in Copies : /\ finds'[k].up = IF From[k] = c THEN NoFile ELSE finds[k].up
                           /\ finds'[k].own = IF k = c THEN NoFile ELSE finds[k].own
      /\ unmerged' = unmerged \ {c}
  BY RemoveCopyDoes
<1>2. /\ \A d \in Dirs \ {c} : file'[d] = file[d]
      /\ \A k \in Copies \ {c} : base'[k] = base[k] /\ phase'[k] = phase[k]
      /\ phase'[c] = "none"
  BY <1>1, Directories DEF WorkdirsTypeOK
<1>3. \A k \in Copies : From[k] = c => Out(k)'
  BY <1>1, <1>2, Directories DEF CopiesAreOpen, Out
<1>4. \A k \in Copies : ~Out(k)' => k # c /\ From[k] # c /\ ~Out(k) /\ (Settled(k)' => Settled(k))
  BY <1>1, <1>2, <1>3 DEF Out, Settled
<1>5. \A k \in Copies : ~Out(k)' => file'[k] = file[k] /\ file'[From[k]] = file[From[k]] /\ base'[k] = base[k]
  BY <1>2, <1>4, Directories
<1>6. FindsTell(L, R)'
  BY <1>1, <1>4, <1>5 DEF DataTells, FindsTell
<1>7. BasesTell(L)'
  BY <1>4, <1>5 DEF DataTells, BasesTell
<1>8. JobTells(L, R)'
  BY <1>1 DEF JobTells, NoJob
<1> QED BY <1>6, <1>7, <1>8 DEF DataTells

(* What the copy had is live no more: the conflict copy has it. *)
LEMMA ConflictTells ==
  ASSUME WorkdirsTypeOK, CopiesAreOpen, JobIsAt, NEW L, NEW R, DataTells(L, R), NEW c \in Copies, Conflict(c),
         \A e \in L : e \notin job.theirs
  PROVE  DataTells(L, R)'
<1>1. /\ UNCHANGED <<file, finds, phase, queue, unmerged>> /\ job.at = "compared"
      /\ queue # <<>> /\ c = Head(queue) /\ base' = [base EXCEPT ![c] = job.theirs]
  BY ConflictDoes
<1>2. job'.at = "refresh"
  BY ConflictDoes DEF IsJob
<1>3. Agree(L, R, job.theirs, file[c]) /\ phase[c] = "merging" /\ base'[c] = job.theirs
  BY <1>1 DEF DataTells, JobTells, JobKnows, JobIsAt, MergeStages, WorkdirsTypeOK
<1>4. FindsTell(L, R)'
  BY <1>1 DEF DataTells, FindsTell, Out
<1>5. BasesTell(L)'
  <2>1. Within(L, base'[c], file[c]) /\ Within(L, base'[c], file[From[c]]) /\ ~Settled(c)'
    BY <1>1, <1>3 DEF Within, Settled
  <2>2. \A k \in Copies \ {c} : base'[k] = base[k]
    BY <1>1 DEF WorkdirsTypeOK
  <2> QED BY <1>1, <2>1, <2>2 DEF DataTells, BasesTell, Out, Settled
<1>6. JobTells(L, R)'
  BY <1>1, <1>2, <1>3 DEF JobTells, JobKnows
<1> QED BY <1>4, <1>5, <1>6 DEF DataTells

-----------------------------------------------------------------------------
(* Edits. *)

(* The next edit is in nothing yet. *)
LEMMA NextIsNowhere ==
  ASSUME WorkdirsTypeOK, NextIsNew
  PROVE  LET e == Cardinality(made) + 1
         IN /\ e \notin made /\ e \notin job.ours /\ e \notin job.theirs /\ e \notin job.body /\ e # Original
            /\ \A d \in Dirs : e \notin file[d]
            /\ \A c \in Copies : e \notin base[c] /\ e \notin finds[c].up /\ e \notin finds[c].own
<1> DEFINE n == Cardinality(made)
<1>1. n \in Nat
  BY FS_CardinalityType DEF WorkdirsTypeOK
<1>2. \A S : Past(S) => n + 1 \notin S
  BY <1>1 DEF Past
<1>3. n + 1 # Original
  BY <1>1 DEF Original
<1> QED BY <1>2, <1>3 DEF NextIsNew

(* Whoever edits a file leaves the live edits in it that were there, and   *)
(* adds none but his own; under a job, his own is not live.                *)
LEMMA EditTells ==
  ASSUME WorkdirsTypeOK, CopiesAreOpen, JobIsAt, NextIsNew, NEW L, NEW R, DataTells(L, R),
         NEW d \in Dirs, NEW new \in Files, EditOf(d, new), d \in Copies => phase[d] \in {"working", "merging"},
         \A e \in L : e = Cardinality(made) + 1 \/ (e \in made /\ e \notin excused'),
         d \in AtWork => R # {} /\ Cardinality(made) + 1 \notin L,
         Original \notin L
  PROVE  DataTells(L, R)'
<1> DEFINE n == Cardinality(made) + 1
<1>1. /\ file' = [file EXCEPT ![d] = new] /\ UNCHANGED <<base, phase, queue, job, unmerged>>
      /\ \A k \in Copies : /\ finds'[k].up = IF From[k] = d THEN new ELSE finds[k].up
                           /\ finds'[k].own = IF k = d THEN new ELSE finds[k].own
      /\ file[d] \ new \subseteq excused'
      /\ new \subseteq file[d] \cup {Original, n}
  BY ChangeDoes DEF EditOf
<1>2. file'[d] = new /\ \A x \in Dirs \ {d} : file'[x] = file[x]
  BY <1>1 DEF WorkdirsTypeOK
<1>3. /\ \A x \in Dirs : n \notin file[x]
      /\ \A k \in Copies : n \notin base[k]
      /\ n \notin job.body
  BY NextIsNowhere
<1> HIDE DEF n
<1>4. \A e \in L : e # n => (e \in file[d] <=> e \in new)
  BY <1>1 DEF n
<1>5. \A x \in Dirs : Within(L, file[x], file'[x])
  BY <1>2, <1>3, <1>4 DEF Within
<1>6. \A k \in Copies : (Out(k)' <=> Out(k)) /\ (Settled(k)' <=> Settled(k))
  BY <1>1 DEF Out, Settled
<1>7. FindsTell(L, R)'
  <2>1. FindsTell(L, R)
    BY DEF DataTells
  <2>2. Wrote(d, new)
    BY <1>1, <1>6 DEF Wrote
  <2> QED BY <2>1, <2>2, WriteTells
<1>8. BasesTell(L)'
  <2>1. ASSUME NEW k \in Copies, ~Out(k)'
        PROVE  /\ \/ base'[k] = base[k] /\ ~Out(k)
                  \/ Within(L, base'[k], file'[k]) /\ Within(L, base'[k], file'[From[k]])
               /\ Settled(k)' => Within(L, file'[k], base'[k])
    <3>1. Settled(k)' => k # d /\ Settled(k)
      BY <1>6 DEF Settled
    <3>2. Settled(k)' => file'[k] = file[k] /\ Within(L, file[k], base[k])
      BY <1>2, <1>6, <2>1, <3>1, Directories DEF DataTells, BasesTell
    <3> QED BY <1>1, <1>6, <2>1, <3>2
  <2> QED BY <1>5, <2>1, GrowingKeeps DEF DataTells
<1>9. JobTells(L, R)'
  <2>1. CASE job.at # "none"
    <3>0. PICK c \in Copies : c = Head(queue) /\ queue # <<>>
      BY <2>1, QueueNow DEF JobIsAt
    <3>1. JobKnows(L, R, c)
      BY <2>1, <3>0 DEF DataTells, JobTells
    <3>2. CASE d \notin {c, From[c]}
      <4>1. file'[c] = file[c] /\ file'[From[c]] = file[From[c]]
        BY <1>2, <3>1, <3>2, Directories
      <4> QED BY <1>1, <2>1, <3>0, <3>1, <4>1 DEF JobTells, JobKnows
    <3>3. CASE d \in {c, From[c]}
      <4>1. R # {} /\ n \notin L
        BY <2>1, <3>0, <3>3 DEF AtWork, n
      <4>2. \A a : \A x \in Dirs : /\ (Agree(L, R, a, file[x]) => Agree(L, R, a, file'[x]))
                                   /\ (Within(L, a, file[x]) => Within(L, a, file'[x]))
                                   /\ (Within(L, file[x], a) => Within(L, file'[x], a))
        <5>1. \A x \in Dirs, e \in L : e \in file'[x] <=> e \in file[x]
          BY <1>2, <1>4, <4>1
        <5> QED BY <4>1, <5>1 DEF Agree, Within
      <4>3. c \in Dirs /\ From[c] \in Dirs
        BY <3>1, Directories
      <4>4. JobKnows(L, R, c)'
        BY <1>1, <3>1, <4>2, <4>3 DEF JobKnows
      <4> QED BY <1>1, <3>0, <4>4 DEF JobTells
    <3> QED BY <3>2, <3>3
  <2>2. CASE job.at = "none"
    BY <1>1, <2>2 DEF JobTells
  <2> QED BY <2>1, <2>2
<1> QED BY <1>7, <1>8, <1>9 DEF DataTells

-----------------------------------------------------------------------------
(* Live edits. *)

(* Only an edit makes more of them. *)
LEMMA LiveShrinks ==
  ASSUME WorkdirsTypeOK, NEW c \in Copies, SessionStep(c) \/ Merge(c) \/ Refresh(c)
  PROVE  raced' = raced /\ Live' \subseteq Live
<1>1. CASE Conflict(c)
  <2>1. /\ made' = made /\ raced' = raced
        /\ \/ UNCHANGED <<kept, excused>>
           \/ /\ excused' = excused \cup kept[c][merges[c] + 1]
              /\ kept' = [kept EXCEPT ![c][merges[c] + 1] = file[c]]
    BY <1>1, ConflictDoes
  <2>2. ASSUME NEW e, e \in Kept, e \notin excused' PROVE e \in Kept'
    <3>1. PICK k \in Copies, n \in 1..MaxTurns : e \in kept[k][n]
      BY <2>2 DEF Kept
    <3>2. CASE UNCHANGED kept
      BY <3>1, <3>2 DEF Kept
    <3>3. CASE /\ excused' = excused \cup kept[c][merges[c] + 1]
               /\ kept' = [kept EXCEPT ![c][merges[c] + 1] = file[c]]
      <4>1. k # c \/ n # merges[c] + 1
        BY <2>2, <3>1, <3>3
      <4>2. kept'[k][n] = kept[k][n]
        BY <3>3, <4>1 DEF WorkdirsTypeOK
      <4> QED BY <3>1, <4>2 DEF Kept
    <3> QED BY <2>1, <3>2, <3>3
  <2>3. excused \subseteq excused'
    BY <2>1
  <2> QED BY <2>1, <2>2, <2>3 DEF Live
<1>2. CASE ~Conflict(c)
  <2>1. made' = made /\ raced' = raced /\ kept' = kept /\ excused \subseteq excused'
    <3>1. CASE SessionStep(c)
      BY <3>1, OpenDoes, BeginTurnDoes, EndTurnDoes, CloseDoes, CopyInDoes, RemoveCopyDoes DEF SessionStep
    <3>2. CASE Merge(c)
      BY <1>2, <3>2, MergeScanDoes, MergeScanCopyDoes, UnchangedDoes, TakeTheirsDoes, SameChangeDoes,
         MergeBothDoes,
         MergeFailsDoes, PutDoes, StatDoes, StatBothDoes, StatOwnDoes DEF Merge
    <3>3. CASE Refresh(c)
      BY <3>3, RefreshScanDoes, RefreshScanCopyDoes, RefreshLeavesDoes, RefreshTakesDoes, RefreshPutDoes
         DEF Refresh
    <3> QED BY <3>1, <3>2, <3>3
  <2>2. Kept' = Kept
    BY <2>1 DEF Kept
  <2> QED BY <2>1, <2>2 DEF Live
<1> QED BY <1>1, <1>2

(* As far as files and scans go, an edit that is in none of them may count *)
(* among those looked at.                                                  *)
LEMMA OneMoreEdit ==
  ASSUME WorkdirsTypeOK, NextIsNew, JobIsAt, NEW M, NEW S, NEW L, NEW R, DataTells(M, S),
         L \subseteq M \cup {Cardinality(made) + 1}, R = {} => S = {}
  PROVE  DataTells(L, R)
<1> DEFINE n == Cardinality(made) + 1
<1>1. /\ n \notin job.ours /\ n \notin job.theirs /\ n \notin job.body
      /\ \A d \in Dirs : n \notin file[d]
      /\ \A c \in Copies : n \notin base[c] /\ n \notin finds[c].up /\ n \notin finds[c].own
  BY NextIsNowhere
<1> HIDE DEF n
<1>2. \A a, b : n \notin a /\ n \notin b =>
        (Agree(M, S, a, b) => Agree(L, R, a, b)) /\ (Within(M, a, b) => Within(L, a, b))
  BY DEF Agree, Within, n
<1>3. FindsTell(L, R)
  BY <1>1, <1>2, Directories DEF DataTells, FindsTell
<1>4. BasesTell(L)
  BY <1>1, <1>2, Directories DEF DataTells, BasesTell
<1>5. JobTells(L, R)
  <2>1. CASE job.at # "none"
    <3>1. PICK c \in Copies : c = Head(queue)
      BY <2>1, QueueNow DEF JobIsAt
    <3>2. JobKnows(M, S, c)
      BY <2>1, <3>1 DEF DataTells, JobTells
    <3>3. /\ n \notin file[c] /\ n \notin file[From[c]] /\ n \notin base[c]
      BY <1>1, Directories
    <3>4. JobKnows(L, R, c)
      BY <1>1, <1>2, <3>2, <3>3 DEF JobKnows
    <3> QED BY <3>1, <3>4 DEF JobTells
  <2> QED BY <2>1 DEF JobTells
<1> QED BY <1>3, <1>4, <1>5 DEF DataTells

(* After a conflict nothing live is in what the copy had. *)
LEMMA ConflictKeeps ==
  ASSUME WorkdirsTypeOK, JobIsAt, ConflictsCounted, DataTells(Live, raced), NEW c \in Copies, Conflict(c)
  PROVE  \A e \in Live' : e \notin job.theirs
<1>1. queue # <<>> /\ c = Head(queue) /\ job.at = "compared" /\ phase[c] = "merging"
  BY ConflictDoes DEF JobIsAt, MergeStages
<1>2. CASE job.theirs = NoFile
  BY <1>2 DEF NoFile
<1>3. CASE job.theirs # NoFile
  <2>1. merges[c] + 1 \in 1..MaxTurns
    <3>1. merges[c] < turns /\ turns <= MaxTurns
      BY <1>1 DEF ConflictsCounted, MayKeep, RefreshStages
    <3>2. merges[c] \in Nat /\ turns \in Nat /\ MaxTurns \in Nat
      BY WorkdirsAssumption DEF WorkdirsTypeOK
    <3> QED BY <3>1, <3>2
  <2>2. kept' = [kept EXCEPT ![c][merges[c] + 1] = file[c]]
    BY <1>3, ConflictDoes
  <2>3. kept'[c][merges[c] + 1] = file[c]
    BY <2>1, <2>2 DEF WorkdirsTypeOK
  <2>4. file[c] \subseteq Kept'
    BY <2>1, <2>3 DEF Kept
  <2>5. Agree(Live, raced, job.theirs, file[c])
    BY <1>1 DEF DataTells, JobTells, JobKnows
  <2>6. Live' \subseteq Live
    BY LiveShrinks DEF Merge
  <2> QED BY <2>4, <2>5, <2>6 DEF Agree, Live
<1> QED BY <1>2, <1>3

LEMMA DataInductive ==
  ASSUME WorkdirsInv, [Next]_vars
  PROVE  DataTells(Live, raced)'
<1> USE DEF WorkdirsInv
<1>1. CASE UNCHANGED vars
  <2>1. Live' = Live /\ raced' = raced
    BY <1>1 DEF vars, Live, Kept
  <2>2. UNCHANGED <<file, base, finds, phase, queue, job, unmerged>>
    BY <1>1 DEF vars
  <2> QED BY <2>1, <2>2 DEF DataTells, FindsTell, BasesTell, JobTells, JobKnows, Out, Settled
<1>2. ASSUME NEW L, NEW R, L = Live', R = raced', DataTells(L, R)' PROVE DataTells(Live, raced)'
  BY <1>2 DEF DataTells, FindsTell, BasesTell, JobTells, JobKnows
<1>3. PICK L, R : L = Live' /\ R = raced'
  OBVIOUS
<1>4. ASSUME NEW c \in Copies, SessionStep(c) \/ Merge(c) \/ Refresh(c) PROVE DataTells(L, R)'
  <2>1. DataTells(L, R)
    <3>1. PICK M, S : M = Live /\ S = raced
      OBVIOUS
    <3>2. DataTells(M, S)
      BY <3>1
    <3>3. L \subseteq M /\ R = S
      BY <1>3, <1>4, <3>1, LiveShrinks
    <3> QED BY <3>2, <3>3, Fewer
  <2>2. CASE Open(c) \/ BeginTurn(c) \/ EndTurn(c) \/ Close(c)
    BY <2>1, <2>2, SessionTells
  <2>3. CASE CopyIn(c)
    BY <2>1, <2>3, CopyInTells
  <2>4. CASE RemoveCopy(c)
    BY <2>1, <2>4, RemoveTells
  <2>5. CASE Conflict(c)
    <3>1. \A e \in L : e \notin job.theirs
      BY <1>3, <2>5, ConflictKeeps
    <3> QED BY <2>1, <2>5, <3>1, ConflictTells
  <2>6. CASE LookAt(c)
    BY <2>1, <2>6, LooksTell
  <2>7. CASE SameChange(c) \/ Stat(c) \/ StatOwn(c)
    BY <2>1, <2>7, NotesTell
  <2>8. CASE MergeFails(c) \/ RefreshLeaves(c)
    BY <2>1, <2>8, LeavingTells
  <2>9. CASE Putting(c)
    BY <2>1, <2>9, PuttingTells
  <2>10. CASE Taking(c)
    BY <2>1, <2>10, TakingTells
  <2>11. \/ Open(c) \/ BeginTurn(c) \/ EndTurn(c) \/ Close(c) \/ CopyIn(c) \/ RemoveCopy(c) \/ Conflict(c) \/ LookAt(c)
         \/ SameChange(c) \/ Stat(c) \/ StatOwn(c) \/ MergeFails(c) \/ RefreshLeaves(c) \/ Putting(c) \/ Taking(c)
    BY <1>4 DEF SessionStep, Merge, Refresh, LookAt, Putting, Taking
  <2> QED BY <2>2, <2>3, <2>4, <2>5, <2>6, <2>7, <2>8, <2>9, <2>10, <2>11
<1>5. ASSUME NEW d \in Dirs, NEW new \in Files, EditOf(d, new), d \in Copies => phase[d] \in {"working", "merging"}
      PROVE  DataTells(L, R)'
  <2> DEFINE n == Cardinality(made) + 1
  <2>1. /\ made' = made \cup {n} /\ excused \subseteq excused' /\ kept' = kept
        /\ raced' = IF d \in AtWork THEN raced \cup {n} ELSE raced
    BY <1>5, ChangeDoes DEF EditOf
  <2>2. Kept' = Kept
    BY <2>1 DEF Kept
  <2>3. /\ \A e \in L : e = n \/ (e \in made /\ e \notin excused')
        /\ d \in AtWork => R # {} /\ n \notin L
        /\ R = {} => raced = {}
        /\ L \subseteq Live \cup {n}
    BY <1>3, <2>1, <2>2 DEF Live
  <2>4. n # Original /\ Original \notin made
    BY NextIsNowhere DEF WorkdirsTypeOK
  <2>5. Original \notin L
    BY <1>3, <2>1, <2>4 DEF Live
  <2>6. DataTells(L, R)
    <3>1. PICK M, S : M = Live /\ S = raced
      OBVIOUS
    <3>2. DataTells(M, S) /\ L \subseteq M \cup {n} /\ (R = {} => S = {})
      BY <2>3, <3>1
    <3> QED BY <3>2, OneMoreEdit
  <2> QED BY <1>5, <2>3, <2>5, <2>6, EditTells
<1> QED BY <1>1, <1>2, <1>3, <1>4, <1>5, Steps

(* Nothing live goes, but with a copy that is removed; and what that one   *)
(* had its parent has.                                                     *)
LEMMA HavingInductive ==
  ASSUME WorkdirsInv, [Next]_vars
  PROVE  FilesHave(Live)'
<1> USE DEF WorkdirsInv
<1>1. CASE UNCHANGED vars
  BY <1>1 DEF vars, FilesHave, Live, Kept
<1>2. ASSUME NEW d \in Dirs, NEW new \in Files, EditOf(d, new) PROVE FilesHave(Live)'
  <2> DEFINE n == Cardinality(made) + 1
  <2>1. /\ made' = made \cup {n} /\ raced \subseteq raced' /\ kept' = kept
        /\ excused' = excused \cup (file[d] \ new) \cup ({n} \ new)
        /\ file' = [file EXCEPT ![d] = new]
    BY <1>2, ChangeDoes DEF EditOf
  <2>2. file'[d] = new /\ \A x \in Dirs \ {d} : file'[x] = file[x]
    BY <2>1 DEF WorkdirsTypeOK
  <2>3. Kept' = Kept
    BY <2>1 DEF Kept
  <2> HIDE DEF n
  <2>4. ASSUME NEW e, e \in Live' PROVE \E x \in Dirs : e \in file'[x]
    <3>1. CASE e = n
      BY <2>1, <2>2, <2>4, <3>1 DEF Live
    <3>2. CASE e # n
      <4>1. e \in Live /\ e \notin file[d] \ new
        BY <2>1, <2>3, <2>4, <3>2 DEF Live
      <4>2. PICK x \in Dirs : e \in file[x]
        BY <4>1 DEF FilesHave
      <4> QED BY <2>2, <4>1, <4>2
    <3> QED BY <3>1, <3>2
  <2> QED BY <2>4 DEF FilesHave
<1>3. ASSUME NEW c \in Copies, RemoveCopy(c) PROVE FilesHave(Live)'
  <2>1. /\ phase[c] = "closing" /\ file' = [file EXCEPT ![c] = NoFile]
        /\ c \in unmerged => excused' = excused \cup (file[c] \ base[c])
    BY <1>3, RemoveCopyDoes
  <2>2. Live' \subseteq Live
    BY <1>3, LiveShrinks DEF SessionStep
  <2>3. \A x \in Dirs \ {c} : file'[x] = file[x]
    BY <2>1 DEF WorkdirsTypeOK
  <2>4. ASSUME NEW e, e \in Live', e \in file[c] PROVE e \in file'[From[c]]
    <3>1. e \in base[c]
      <4>1. CASE c \in unmerged
        BY <2>1, <2>4, <4>1 DEF Live
      <4>2. CASE c \notin unmerged
        BY <2>1, <2>2, <2>4, <4>2 DEF DataTells, BasesTell, Out, Settled, Within
      <4> QED BY <4>1, <4>2
    <3>2. e \in file[From[c]]
      BY <2>1, <2>2, <2>4, <3>1 DEF DataTells, BasesTell, Out, Within
    <3> QED BY <2>3, <3>2, Directories
  <2>5. ASSUME NEW e, e \in Live' PROVE \E x \in Dirs : e \in file'[x]
    <3>1. PICK x \in Dirs : e \in file[x]
      BY <2>2, <2>5 DEF FilesHave
    <3> QED BY <2>3, <2>4, <2>5, <3>1, Directories
  <2> QED BY <2>5 DEF FilesHave
<1>4. ASSUME NEW c \in Copies, SessionStep(c) \/ Merge(c) \/ Refresh(c), ~RemoveCopy(c) PROVE FilesHave(Live)'
  <2>1. PICK L, R : L = Live /\ R = raced
    OBVIOUS
  <2>2. DataTells(L, R)
    BY <2>1
  <2>3. \A x \in Dirs : Within(L, file[x], file'[x])
    <3>1. CASE file' = file
      BY <3>1, Comparing
    <3>2. CASE CopyIn(c)
      BY <2>2, <3>2, CopyInTells
    <3>3. CASE Putting(c)
      BY <2>2, <3>3, PuttingTells
    <3>4. CASE Taking(c)
      BY <2>2, <3>4, TakingTells
    <3>5. CASE Open(c) \/ BeginTurn(c) \/ EndTurn(c) \/ Close(c)
      BY <3>1, <3>5, OpenDoes, BeginTurnDoes, EndTurnDoes, CloseDoes
    <3>6. CASE LookAt(c)
      BY <3>1, <3>6, MergeScanDoes, MergeScanCopyDoes, UnchangedDoes, MergeBothDoes, RefreshScanDoes,
         RefreshScanCopyDoes, RefreshTakesDoes, TakeTheirsDoes DEF LookAt
    <3>7. CASE SameChange(c) \/ Stat(c) \/ StatOwn(c) \/ MergeFails(c) \/ RefreshLeaves(c) \/ Conflict(c)
      BY <3>1, <3>7, SameChangeDoes, StatDoes, StatOwnDoes, MergeFailsDoes, RefreshLeavesDoes, ConflictDoes
    <3> QED BY <1>4, <3>2, <3>3, <3>4, <3>5, <3>6, <3>7 DEF SessionStep, Merge, Refresh, LookAt, Putting, Taking
  <2>4. Live' \subseteq L
    BY <1>4, <2>1, LiveShrinks
  <2>5. FilesHave(L)
    BY <2>1
  <2> QED BY <2>3, <2>4, <2>5 DEF FilesHave, Within
<1> QED BY <1>1, <1>2, <1>3, <1>4, Steps

-----------------------------------------------------------------------------
(* The theorems. *)

LEMMA InvInitially == Init => WorkdirsInv
<1> SUFFICES ASSUME Init PROVE WorkdirsInv
  OBVIOUS
<1> USE DEF Init
<1>1. WorkdirsTypeOK
  <2>1. file \in [Dirs -> Files] /\ base \in [Copies -> Files] /\ finds \in [Copies -> Found]
    BY DEF Files, Found, NoFile, Original
  <2>2. phase \in [Copies -> Phases] /\ queue \in Seq(Copies) /\ job \in Jobs
    BY EmptySeq DEF Phases, Jobs, Stages, Files, NoJob, NoFile
  <2>3. kept \in [Copies -> [1..MaxTurns -> Files]] /\ merges \in [Copies -> Nat] /\ turns \in Nat
    BY DEF Files, NoFile
  <2>4. IsFiniteSet(made) /\ made \subseteq Nat \ {Original}
    BY FS_EmptySet
  <2> QED BY <2>1, <2>2, <2>3, <2>4 DEF WorkdirsTypeOK
<1>2. NextIsNew
  <2>1. Cardinality(made) = 0
    BY FS_EmptySet
  <2>2. Past({}) /\ Past({Original})
    BY <2>1 DEF Past, Original
  <2>3. \A d \in Dirs : file[d] \in {NoFile, {Original}}
    OBVIOUS
  <2> QED BY <2>2, <2>3 DEF NextIsNew, NoJob, NoFile
<1>3. CopiesAreOpen
  BY Directories DEF CopiesAreOpen, Out
<1>4. ConflictsCounted
  BY WorkdirsAssumption DEF ConflictsCounted, MayKeep
<1>5. JobIsAt /\ DataTells(Live, raced)
  BY DEF JobIsAt, DataTells, FindsTell, BasesTell, JobTells, Out, NoJob
<1>6. FilesHave(Live)
  BY DEF FilesHave, Live
<1> QED BY <1>1, <1>2, <1>3, <1>4, <1>5, <1>6 DEF WorkdirsInv

LEMMA InvInductive == WorkdirsInv /\ [Next]_vars => WorkdirsInv'
<1> SUFFICES ASSUME WorkdirsInv, [Next]_vars PROVE WorkdirsInv'
  OBVIOUS
<1>1. WorkdirsTypeOK' /\ NextIsNew'
  BY TypeInductive, NextIsNewInductive DEF WorkdirsInv
<1>2. CopiesAreOpen' /\ ConflictsCounted' /\ JobIsAt'
  BY OpenInductive, CountInductive, JobIsAtInductive DEF WorkdirsInv
<1> QED BY <1>1, <1>2, DataInductive, HavingInductive DEF WorkdirsInv

(* For any threads, members, edits and turns: what a copy and its parent   *)
(* had in common both still have, a job knows what it has seen, and a live *)
(* edit is in some directory (workdirs.ts).                                *)
THEOREM WorkdirsInvariant == Spec => []WorkdirsInv
<1> QED BY InvInitially, InvInductive, PTL DEF Spec

(* No edit gets lost: one that is in some directory is in the project, or  *)
(* on the way from a copy to its parent.                                   *)
THEOREM NoEditIsLost == Spec => []EditsSurvive
<1>1. WorkdirsInv => EditsSurvive
  <2> SUFFICES ASSUME WorkdirsInv, NEW e \in made \ (excused \cup raced), e \notin Kept, ~ToMerge(e)
               PROVE  e \in file[Project]
    BY DEF EditsSurvive
  <2>1. e \in Live
    BY DEF Live
  <2>2. ASSUME NEW c \in Copies, e \in file[c] PROVE e \in file[From[c]]
    <3>1. e \in base[c]
      BY <2>2 DEF ToMerge
    <3>2. ~Out(c)
      BY <2>2 DEF WorkdirsInv, CopiesAreOpen, NoFile
    <3> QED BY <2>1, <3>1, <3>2 DEF WorkdirsInv, DataTells, BasesTell, Within
  <2>3. PICK d \in Dirs : e \in file[d]
    BY <2>1 DEF WorkdirsInv, FilesHave
  <2>4. \A c \in Copies : From[c] = Project \/ (From[c] \in Copies /\ From[From[c]] = Project)
    BY WorkdirsAssumption, Directories
  <2> QED BY <2>2, <2>3, <2>4, Directories
<1> QED BY <1>1, WorkdirsInvariant, PTL

(* A merge that nobody edited under ends with the copy, its parent and     *)
(* their base the same.                                                    *)
THEOREM MergesAreInSync == Spec => MergedIsInSync
<1> DEFINE Merged(c) == phase[c] = "merging" /\ phase'[c] = "idle" /\ c \notin unmerged' /\ raced = {}
<1>1. ASSUME WorkdirsInv, [Next]_vars, NEW c \in Copies, Merged(c)
      PROVE  file'[c] = file'[From[c]] /\ base'[c] = file'[c]
  <2>1. WorkdirsTypeOK /\ JobIsAt /\ DataTells(Live, raced)
    BY <1>1 DEF WorkdirsInv
  <2>2. MergeFails(c) \/ RefreshLeaves(c) \/ RefreshTakes(c) \/ StatOwn(c)
    <3>1. ~ UNCHANGED phase
      BY <1>1
    <3>2. PICK k \in Copies : SessionStep(k) \/ Merge(k) \/ Refresh(k)
      BY <1>1, <2>1, <3>1, Steps, ChangeDoes DEF EditOf, vars
    <3>3. CASE SessionStep(k)
      <4>1. phase[k] # "merging"
        BY <2>1, <3>3, OpenDoes, BeginTurnDoes, EndTurnDoes, CloseDoes, CopyInDoes, RemoveCopyDoes
           DEF SessionStep
      <4>2. \E p \in Phases : phase' = [phase EXCEPT ![k] = p]
        BY <2>1, <3>3, OpenDoes, BeginTurnDoes, EndTurnDoes, CloseDoes, CopyInDoes, RemoveCopyDoes, PhaseNames
           DEF SessionStep
      <4>3. \A x \in Copies \ {k} : phase'[x] = phase[x]
        BY <2>1, <4>2 DEF WorkdirsTypeOK
      <4> QED BY <1>1, <4>1, <4>3
    <3>4. CASE Merge(k) \/ Refresh(k)
      <4>1. MergeFails(k) \/ RefreshLeaves(k) \/ RefreshTakes(k) \/ StatOwn(k)
        BY <2>1, <3>1, <3>4, MergeScanDoes, MergeScanCopyDoes, UnchangedDoes, TakeTheirsDoes, SameChangeDoes,
           MergeBothDoes, ConflictDoes, PutDoes, StatDoes, StatBothDoes, RefreshScanDoes, RefreshScanCopyDoes,
           RefreshPutDoes DEF Merge, Refresh
      <4>2. JobGoesOn(k) \/ JobEnds(k)
        BY <2>1, <3>4, JobStep
      <4>3. k = c
        BY <1>1, <2>1, <3>1, <4>2 DEF JobGoesOn, JobEnds, WorkdirsTypeOK
      <4> QED BY <4>1, <4>3
    <3> QED BY <3>2, <3>3, <3>4
  <2>3. queue # <<>> /\ c = Head(queue) /\ job.at # "none"
    BY <2>1, <2>2, MergeFailsDoes, RefreshLeavesDoes, RefreshTakesDoes, StatOwnDoes
  <2>4. JobKnows(Live, raced, c)
    BY <2>1, <2>3 DEF DataTells, JobTells
  <2>5. \A a, b : Agree(Live, raced, a, b) => a = b
    BY <1>1 DEF Agree
  <2>6. CASE MergeFails(c)
    BY <1>1, <2>1, <2>6, MergeFailsDoes
  <2>7. CASE RefreshLeaves(c)
    <3>1. job.ours = file[From[c]] /\ job.theirs = file[c] /\ base[c] = file[c]
      BY <1>1, <2>1, <2>4, <2>5, <2>7, RefreshLeavesDoes DEF JobKnows
    <3> QED BY <2>1, <2>7, <3>1, RefreshLeavesDoes
  <2>8. CASE RefreshTakes(c)
    <3>1. job.ours = file[From[c]] /\ phase' # phase
      BY <1>1, <2>1, <2>4, <2>5, <2>8, RefreshTakesDoes DEF JobKnows
    <3>2. job.ours = NoFile /\ base' = [base EXCEPT ![c] = NoFile] /\ file' = [file EXCEPT ![c] = NoFile]
      BY <2>1, <2>8, <3>1, RefreshTakesDoes
    <3> QED BY <2>1, <3>1, <3>2, Directories DEF WorkdirsTypeOK
  <2>9. CASE StatOwn(c)
    <3>1. job.at = "refreshStat"
      BY <1>1, <2>1, <2>9, StatOwnDoes
    <3>2. job.body = file[From[c]] /\ job.body = file[c]
      BY <2>4, <2>5, <3>1 DEF JobKnows
    <3> QED BY <2>1, <2>9, <3>2, StatOwnDoes DEF WorkdirsTypeOK
  <2> QED BY <2>2, <2>6, <2>7, <2>8, <2>9
<1>2. WorkdirsInv /\ [Next]_vars =>
        [\A c \in Copies : phase[c] = "merging" /\ phase'[c] = "idle" /\ c \notin unmerged' /\ raced = {}
           => file'[c] = file'[From[c]] /\ base'[c] = file'[c]]_vars
  BY <1>1
<1> QED BY <1>2, WorkdirsInvariant, PTL DEF Spec, MergedIsInSync

-----------------------------------------------------------------------------
(* The learning queue. *)
Statuses == {"none", "pending", "running", "budget"}
LearningItems == [task : Tasks \cup {"none"}, from : Nat, turn : Nat, status : Statuses, attempts : Int]
LearnedTasks == [task : Tasks \cup {"none"}, from : Nat, through : Nat]
Boots == {"down", "resetting", "releasing", "up"}
Loops == {"idle", "enter", "look", "ask", "learning", "finish", "release", "end"}
LearningHosts ==
  [boot : Boots, loop : Loops, again : BOOLEAN, stopped : BOOLEAN, kicks : BOOLEAN,
   item : LearningItems, learned : BOOLEAN, aborted : BOOLEAN]
LearningTypeOK ==
  /\ items \in Seq(LearningItems) /\ history \in Seq(LearnedTasks)
  /\ worker \in Hosts \cup {"none", "stale"} /\ host \in [Hosts -> LearningHosts]
  /\ queued \in [Tasks -> SUBSET Nat]

(* Whatever the queue and its history speak of has been queued. *)
Sound(q, i) == i.task \in Tasks /\ i.turn \in q[i.task] /\ i.from <= i.turn
QueuedBefore ==
  /\ \A t \in Tasks : \A n \in queued[t] : n <= MaxTurn[t]
  /\ \A k \in DOMAIN items : Sound(queued, items[k])
  /\ \A k \in DOMAIN history : history[k].task \in Tasks /\ history[k].through \in queued[history[k].task]

(* Who holds worker.lock works the queue or puts it back, and once that is *)
(* done an item runs only while its host learns from it.                   *)
Learning(h) == host[h].loop \in {"learning", "finish"}
SameTurns(i, j) == i.task = j.task /\ i.from = j.from /\ i.turn = j.turn
HostsWork ==
  \A h \in Hosts :
    /\ worker = h =>
         host[h].boot \in {"resetting", "releasing"} \/ host[h].loop \in {"look", "ask", "learning", "finish", "release"}
    /\ (host[h].loop # "idle" \/ host[h].kicks \/ host[h].stopped) => host[h].boot = "up"
    /\ Learning(h) => Sound(queued, host[h].item)
RunningIsMine ==
  \A h \in Hosts : host[h].boot \in {"up", "releasing"} =>
    \A k \in DOMAIN items : Running(items[k]) => Learning(h) /\ SameTurns(items[k], host[h].item)

LearningInv == LearningTypeOK /\ QueuedBefore /\ HostsWork /\ RunningIsMine /\ TurnsKept

(* One process at a time has the project open. *)
Alone == \A g, h \in Hosts : host[g].boot # "down" /\ host[h].boot # "down" => g = h
-----------------------------------------------------------------------------
(* Some lemmas on numbers and sequences that the queue needs. *)
LEMMA LeastOf ==
  ASSUME NEW T, T \subseteq Nat, T # {}
  PROVE  \E n \in T : \A m \in T : n <= m
<1>1. IsWellFoundedOn(OpToRel(<, Nat), Nat)
  BY NatLessThanWellFounded
<1>2. PICK x \in T : \A y \in T : ~ (<<y, x>> \in OpToRel(<, Nat))
  BY <1>1, WFMin
<1>3. \A y \in T : ~ (y < x)
  BY <1>2 DEF OpToRel
<1> QED BY <1>3

LEMMA MinOf ==
  ASSUME NEW T, T \subseteq Nat, T # {}
  PROVE  Min(T) \in T
BY LeastOf DEF Min

LEMMA GreatestOf ==
  ASSUME NEW T, T \subseteq Nat, T # {}, NEW b \in Nat, \A n \in T : n <= b
  PROVE  \E n \in T : \A m \in T : n >= m
<1> DEFINE Bounds == {n \in Nat : \A m \in T : m <= n}
<1>1. PICK n \in Bounds : \A m \in Bounds : n <= m
  <2>1. Bounds \subseteq Nat /\ b \in Bounds
    OBVIOUS
  <2> QED BY <2>1, LeastOf
<1>2. n \in T
  <2>1. SUFFICES ASSUME n \notin T PROVE FALSE
    OBVIOUS
  <2>2. \A m \in T : m <= n - 1
    BY <2>1, <1>1
  <2>3. n # 0
    <3>1. PICK m \in T : m <= n - 1
      BY <2>2
    <3> QED BY <3>1, <1>1
  <2>4. n - 1 \in Bounds
    BY <2>2, <2>3, <1>1
  <2> QED BY <2>4, <1>1
<1> QED BY <1>1, <1>2

LEMMA MaxOf ==
  ASSUME NEW T, T \subseteq Nat, T # {}, NEW b \in Nat, \A n \in T : n <= b
  PROVE  Max(T) \in T /\ \A m \in T : m <= Max(T)
<1>1. \E n \in T : \A m \in T : n >= m
  BY GreatestOf
<1>2. Max(T) \in T /\ \A m \in T : Max(T) >= m
  BY <1>1 DEF Max
<1> QED BY <1>2

LEMMA WaitingFound ==
  ASSUME NEW t, items \in Seq(LearningItems)
  PROVE  \/ /\ WaitingOf(t) = 0
            /\ \A k \in DOMAIN items : items[k].task = t => Running(items[k])
         \/ /\ WaitingOf(t) \in DOMAIN items /\ WaitingOf(t) > 0
            /\ items[WaitingOf(t)].task = t /\ ~Running(items[WaitingOf(t)])
<1> DEFINE T == {i \in 1..Len(items) : items[i].task = t /\ ~Running(items[i])}
<1>1. WaitingOf(t) = IF T # {} THEN Min(T) ELSE 0
  BY DEF WaitingOf, SelectInSeq
<1>2. T \subseteq Nat
  BY DEF LearningItems
<1>3. T # {} => Min(T) \in T
  BY <1>2, MinOf
<1> QED BY <1>1, <1>3

LEMMA RunningFound ==
  ASSUME NEW t, items \in Seq(LearningItems)
  PROVE  \/ /\ RunningOf(t) = 0
            /\ \A k \in DOMAIN items : items[k].task = t => ~Running(items[k])
         \/ /\ RunningOf(t) \in DOMAIN items /\ RunningOf(t) > 0
            /\ items[RunningOf(t)].task = t /\ Running(items[RunningOf(t)])
<1> DEFINE T == {i \in 1..Len(items) : items[i].task = t /\ Running(items[i])}
<1>1. RunningOf(t) = IF T # {} THEN Min(T) ELSE 0
  BY DEF RunningOf, SelectInSeq
<1>2. T \subseteq Nat
  OBVIOUS
<1>3. T # {} => Min(T) \in T
  BY <1>2, MinOf
<1> QED BY <1>1, <1>3

LEMMA FreeFound ==
  ASSUME items \in Seq(LearningItems)
  PROVE  LET free == SelectInSeq(items, Waiting)
         IN free = 0 \/ (free \in DOMAIN items /\ free > 0)
<1> DEFINE T == {i \in 1..Len(items) : Waiting(items[i])}
<1>1. SelectInSeq(items, Waiting) = IF T # {} THEN Min(T) ELSE 0
  BY DEF SelectInSeq
<1>2. T \subseteq Nat
  OBVIOUS
<1>3. T # {} => Min(T) \in T
  BY <1>2, MinOf
<1> QED BY <1>1, <1>3

LEMMA Removed ==
  ASSUME NEW S, NEW s \in Seq(S), NEW i \in DOMAIN s
  PROVE  /\ RemoveAt(s, i) \in Seq(S)
         /\ \A k \in DOMAIN RemoveAt(s, i) : \E j \in DOMAIN s : RemoveAt(s, i)[k] = s[j]
         /\ \A j \in DOMAIN s : j # i => \E k \in DOMAIN RemoveAt(s, i) : RemoveAt(s, i)[k] = s[j]
<1> DEFINE a == SubSeq(s, 1, i - 1)
           b == SubSeq(s, i + 1, Len(s))
           r == RemoveAt(s, i)
<1>1. a \in Seq(S) /\ Len(a) = i - 1 /\ \A k \in 1..i - 1 : a[k] = s[k]
  OBVIOUS
<1>2. b \in Seq(S) /\ Len(b) = Len(s) - i /\ \A k \in 1..Len(s) - i : b[k] = s[k + i]
  OBVIOUS
<1>3. r = a \o b
  BY DEF RemoveAt
<1> HIDE DEF a, b, r
<1>4. r \in Seq(S) /\ Len(r) = Len(s) - 1
  BY <1>1, <1>2, <1>3
<1>5. \A k \in 1..Len(s) - 1 : r[k] = IF k < i THEN s[k] ELSE s[k + 1]
  <2> TAKE k \in 1..Len(s) - 1
  <2>1. CASE k < i
    BY <2>1, <1>1, <1>2, <1>3
  <2>2. CASE ~(k < i)
    <3>1. r[k] = b[k - (i - 1)]
      BY <2>2, <1>1, <1>2, <1>3
    <3>2. b[k - (i - 1)] = s[k - (i - 1) + i]
      BY <2>2, <1>2
    <3>3. k - (i - 1) + i = k + 1
      OBVIOUS
    <3> QED BY <2>2, <3>1, <3>2, <3>3
  <2> QED BY <2>1, <2>2
<1>6. \A k \in DOMAIN r : \E j \in DOMAIN s : r[k] = s[j]
  <2> TAKE k \in DOMAIN r
  <2>1. k \in 1..Len(s) - 1
    BY <1>4
  <2>2. k \in DOMAIN s /\ k + 1 \in DOMAIN s
    BY <2>1
  <2> QED BY <2>1, <2>2, <1>5
<1>7. ASSUME NEW j \in DOMAIN s, j # i PROVE \E k \in DOMAIN r : r[k] = s[j]
  <2>1. CASE j < i
    <3>1. j \in DOMAIN r
      BY <2>1, <1>4
    <3> QED BY <3>1, <2>1, <1>4, <1>5
  <2>2. CASE ~(j < i)
    <3>1. j - 1 \in DOMAIN r /\ ~(j - 1 < i)
      BY <2>2, <1>4, <1>7
    <3>2. r[j - 1] = s[j - 1 + 1]
      BY <3>1, <1>4, <1>5
    <3> QED BY <3>1, <3>2
  <2> QED BY <2>1, <2>2
<1> QED BY <1>4, <1>6, <1>7 DEF r

LEMMA BoundOf ==
  \A S : S \subseteq Nat /\ IsFiniteSet(S) => \E b \in Nat : \A n \in S : n <= b
<1> DEFINE Wrong == {c \in Nat : \E S : S \subseteq Nat /\ IsFiniteSet(S) /\ Cardinality(S) = c /\ ~ \E b \in Nat : \A n \in S : n <= b}
<1>1. SUFFICES ASSUME Wrong # {} PROVE FALSE
  BY FS_CardinalityType
<1>2. PICK c \in Wrong : \A d \in Wrong : c <= d
  <2>1. Wrong \subseteq Nat
    OBVIOUS
  <2> QED BY <1>1, <2>1, LeastOf
<1>3. PICK S : S \subseteq Nat /\ IsFiniteSet(S) /\ Cardinality(S) = c /\ ~ \E b \in Nat : \A n \in S : n <= b
  BY <1>2
<1>4. PICK x : x \in S
  BY <1>3
<1> DEFINE R == S \ {x}
<1>5. c \in Nat /\ IsFiniteSet(R) /\ Cardinality(R) = c - 1 /\ R \subseteq Nat
  BY <1>2, <1>3, <1>4, FS_RemoveElement
<1>6. c - 1 \in Nat /\ c - 1 \notin Wrong
  <2>1. Cardinality(R) \in Nat
    BY <1>5, FS_CardinalityType
  <2> QED BY <2>1, <1>5, <1>2
<1>7. PICK b \in Nat : \A n \in R : n <= b
  BY <1>5, <1>6
<1>8. CASE x <= b
  BY <1>7, <1>8, <1>3
<1>9. CASE ~(x <= b)
  <2>1. x \in Nat /\ \A n \in S : n <= x
    BY <1>3, <1>4, <1>7, <1>9
  <2> QED BY <2>1, <1>3
<1> QED BY <1>8, <1>9

(* Every finite set of places can be put in order. *)
InOrder(p) == \A j, k \in DOMAIN p : j < k => p[j] < p[k]
LEMMA OrderOfSize ==
  \A c \in Nat : \A S : S \subseteq Nat /\ IsFiniteSet(S) /\ Cardinality(S) = c => \E p \in Bijection(1..c, S) : InOrder(p)
<1> DEFINE Ordered(c) ==
      \A S : S \subseteq Nat /\ IsFiniteSet(S) /\ Cardinality(S) = c => \E p \in Bijection(1..c, S) : InOrder(p)
    Wrong == {c \in Nat : ~Ordered(c)}
<1>1. SUFFICES ASSUME Wrong # {} PROVE FALSE
  OBVIOUS
<1>2. PICK c \in Wrong : \A d \in Wrong : c <= d
  <2>1. Wrong \subseteq Nat
    OBVIOUS
  <2> QED BY <1>1, <2>1, LeastOf
<1>3. PICK S : S \subseteq Nat /\ IsFiniteSet(S) /\ Cardinality(S) = c /\ ~ \E p \in Bijection(1..c, S) : InOrder(p)
  BY <1>2
<1>4. CASE c = 0
  <2>1. S = {} /\ 1..c = {}
    BY <1>3, <1>4, FS_EmptySet
  <2> DEFINE p == [k \in {} |-> 0]
  <2>2. p \in Bijection(1..c, S) /\ InOrder(p)
    BY <2>1 DEF Bijection, Injection, Surjection, IsInjective, InOrder
  <2> QED BY <2>2, <1>3
<1>5. CASE c # 0
  <2>1. S # {}
    BY <1>3, <1>5, FS_EmptySet
  <2>2. PICK b \in Nat : \A n \in S : n <= b
    BY <1>3, BoundOf
  <2>3. PICK n \in S : \A m \in S : n >= m
    BY <1>3, <2>1, <2>2, GreatestOf
  <2> DEFINE R == S \ {n}
  <2>4. R \subseteq Nat /\ IsFiniteSet(R) /\ Cardinality(R) = c - 1
    BY <1>3, <2>3, FS_RemoveElement
  <2>5. c - 1 \in Nat /\ c - 1 \notin Wrong
    BY <1>2, <1>5
  <2>6. PICK p \in Bijection(1..c - 1, R) : InOrder(p)
    BY <2>4, <2>5
  <2> DEFINE q == [k \in 1..c |-> IF k = c THEN n ELSE p[k]]
  <2>7. p \in [1..c - 1 -> R] /\ (\A r \in R : \E k \in 1..c - 1 : p[k] = r)
    BY <2>6 DEF Bijection, Injection, Surjection
  <2>8. \A j, k \in 1..c - 1 : p[j] = p[k] => j = k
    BY <2>6, <2>7 DEF Bijection, Injection, IsInjective
  <2>9. \A k \in 1..c : k # c => k \in 1..c - 1
    BY <1>2
  <2>10. q \in [1..c -> S]
    BY <2>3, <2>7, <2>9
  <2>11. \A j, k \in 1..c : j < k => q[j] < q[k]
    <3>1. TAKE j, k \in 1..c
    <3>2. HAVE j < k
    <3>3. j # c /\ j \in 1..c - 1
      BY <3>2, <1>2
    <3>4. p[j] \in R /\ q[j] = p[j]
      BY <3>3, <2>7
    <3>5. CASE k = c
      <4>1. q[k] = n
        BY <3>5
      <4>2. p[j] \in S /\ p[j] # n
        BY <3>4
      <4>3. p[j] \in Nat /\ n \in Nat /\ n >= p[j]
        BY <4>2, <2>3, <1>3
      <4>4. p[j] < n
        BY <4>2, <4>3
      <4> QED BY <4>1, <4>4, <3>4
    <3>6. CASE k # c
      <4>1. k \in 1..c - 1 /\ q[k] = p[k]
        BY <3>6, <2>9
      <4> QED BY <4>1, <3>2, <3>3, <3>4, <2>6, <2>7 DEF InOrder
    <3> QED BY <3>5, <3>6
  <2>12. \A j, k \in 1..c : q[j] = q[k] => j = k
    <3>1. SUFFICES ASSUME NEW j \in 1..c, NEW k \in 1..c, q[j] = q[k], j # k PROVE FALSE
      OBVIOUS
    <3>2. q[j] \in Nat /\ q[k] \in Nat
      BY <2>10, <1>3
    <3>3. j < k \/ k < j
      BY <3>1
    <3>4. q[j] < q[k] \/ q[k] < q[j]
      BY <3>3, <2>11
    <3> QED BY <3>4, <3>2, <3>1
  <2>13. \A r \in S : \E k \in 1..c : q[k] = r
    <3>1. TAKE r \in S
    <3>2. CASE r = n
      <4>1. c \in 1..c /\ q[c] = n
        BY <1>2, <1>5
      <4> QED BY <4>1, <3>2
    <3>3. CASE r # n
      <4>1. PICK k \in 1..c - 1 : p[k] = r
        BY <3>3, <2>7
      <4>2. k \in 1..c /\ q[k] = r
        BY <4>1, <1>2
      <4> QED BY <4>2
    <3> QED BY <3>2, <3>3
  <2> HIDE DEF q
  <2>14. q \in Bijection(1..c, S)
    BY <2>10, <2>12, <2>13 DEF Bijection, Injection, Surjection, IsInjective
  <2>15. InOrder(q)
    BY <2>10, <2>11 DEF InOrder
  <2> QED BY <2>14, <2>15, <1>3
<1> QED BY <1>4, <1>5

LEMMA MembersOfThose ==
  ASSUME NEW S, NEW s \in Seq(S), NEW places \in SUBSET DOMAIN s
  PROVE  /\ Those(s, places) \in Seq(S)
         /\ \A k \in DOMAIN Those(s, places) : \E j \in places : Those(s, places)[k] = s[j]
         /\ \A j \in places : \E k \in DOMAIN Those(s, places) : Those(s, places)[k] = s[j]
<1> DEFINE c == Cardinality(places)
           place == CHOOSE p \in Bijection(1..c, places) : \A j, k \in DOMAIN p : j < k => p[j] < p[k]
<1>1. IsFiniteSet(places) /\ c \in Nat /\ places \subseteq Nat
  <2>1. DOMAIN s = 1..Len(s) /\ Len(s) \in Nat
    OBVIOUS
  <2>2. IsFiniteSet(1..Len(s))
    BY <2>1, FS_Interval
  <2> QED BY <2>1, <2>2, FS_Subset, FS_CardinalityType
<1>2. \E p \in Bijection(1..c, places) : \A j, k \in DOMAIN p : j < k => p[j] < p[k]
  BY <1>1, OrderOfSize DEF InOrder
<1>3. place \in Bijection(1..c, places)
  BY <1>2
<1>4. Those(s, places) = [k \in 1..c |-> s[place[k]]]
  BY DEF Those
<1> HIDE DEF place, c
<1>5. place \in [1..c -> places] /\ \A j \in places : \E k \in 1..c : place[k] = j
  BY <1>3 DEF Bijection, Surjection
<1>6. \A j \in places : s[j] \in S
  OBVIOUS
<1>7. [k \in 1..c |-> s[place[k]]] \in [1..c -> S]
  BY <1>5, <1>6
<1>8. [k \in 1..c |-> s[place[k]]] \in Seq(S)
  BY <1>1, <1>7, SeqDef
<1> DEFINE those == [k \in 1..c |-> s[place[k]]]
<1>9. \A k \in DOMAIN those : \E j \in places : those[k] = s[j]
  BY <1>5
<1>10. ASSUME NEW j \in places PROVE \E k \in DOMAIN those : those[k] = s[j]
  <2>1. PICK k \in 1..c : place[k] = j
    BY <1>5
  <2>2. k \in DOMAIN those /\ those[k] = s[j]
    BY <2>1
  <2> QED BY <2>2
<1>11. Those(s, places) = those
  BY <1>4
<1>12. those \in Seq(S)
  BY <1>8
<1> HIDE DEF those
<1> QED BY <1>9, <1>10, <1>11, <1>12

-----------------------------------------------------------------------------
Covers(i, t, n) == i.task = t /\ n \in i.from..i.turn
Has(e, t, n) == e.task = t /\ n \in e.from..e.through

LEMMA TurnsKeptIs ==
  TurnsKept <=>
    \A t \in Tasks : \A n \in queued[t] :
      \/ <<t, n>> \in dropped
      \/ \E k \in DOMAIN items : Covers(items[k], t, n)
      \/ \E k \in DOMAIN history : Has(history[k], t, n)
<1>1. ASSUME NEW t, NEW n, NEW i PROVE <<t, n>> \in TurnsOf(i) <=> Covers(i, t, n)
  BY DEF TurnsOf, Covers
<1>2. ASSUME NEW t, NEW n
      PROVE  /\ (\E i \in ToSet(items) : <<t, n>> \in TurnsOf(i)) <=> \E k \in DOMAIN items : Covers(items[k], t, n)
             /\ (\E e \in ToSet(history) : e.task = t /\ n \in e.from..e.through) <=> \E k \in DOMAIN history : Has(history[k], t, n)
  BY <1>1 DEF ToSet, Has
<1> QED BY <1>2 DEF TurnsKept

LEMMA SaveKeeps ==
  ASSUME NEW s \in Seq(LearningItems), Save(s)
  PROVE  /\ items' \in Seq(LearningItems)
         /\ \A k \in DOMAIN items' : \E j \in DOMAIN s : items'[k] = s[j]
         /\ \A j \in DOMAIN s : TurnsOf(s[j]) \subseteq dropped' \/ \E k \in DOMAIN items' : items'[k] = s[j]
         /\ dropped \subseteq dropped'
<1> DEFINE over == IF Len(s) > MaxPending THEN Len(s) - MaxPending ELSE 0
<1>1. over \in Nat /\ over <= Len(s) /\ Len(s) \in Nat
  BY LearningAssumption
<1>2. items' = SubSeq(s, over + 1, Len(s)) /\ dropped' = dropped \cup UNION {TurnsOf(s[k]) : k \in 1..over}
  BY DEF Save
<1> HIDE DEF over
<1>3. items' \in Seq(LearningItems) /\ Len(items') = Len(s) - over /\ \A k \in 1..Len(s) - over : items'[k] = s[k + over]
  BY <1>1, <1>2
<1>4. ASSUME NEW k \in DOMAIN items' PROVE \E j \in DOMAIN s : items'[k] = s[j]
  <2>1. k \in 1..Len(s) - over
    BY <1>3
  <2>2. k + over \in DOMAIN s
    BY <2>1, <1>1
  <2> QED BY <2>1, <2>2, <1>3
<1>5. ASSUME NEW j \in DOMAIN s
      PROVE  TurnsOf(s[j]) \subseteq dropped' \/ \E k \in DOMAIN items' : items'[k] = s[j]
  <2>1. CASE j <= over
    <3>1. j \in 1..over
      BY <2>1, <1>1
    <3> QED BY <3>1, <1>2
  <2>2. CASE ~(j <= over)
    <3>1. j \in 1..Len(s) /\ j \in Nat
      BY <1>1
    <3>2. PICK k \in 1..Len(s) - over : k + over = j
      <4>1. j - over \in 1..Len(s) - over /\ j - over + over = j
        BY <2>2, <3>1, <1>1
      <4> QED BY <4>1
    <3>3. k \in DOMAIN items' /\ items'[k] = s[k + over]
      BY <1>3
    <3> QED BY <3>2, <3>3
  <2> QED BY <2>1, <2>2
<1> QED BY <1>2, <1>3, <1>4, <1>5

(* What is saved keeps the turns that the sequence or the history has. *)
LEMMA QueueStep ==
  ASSUME NEW s \in Seq(LearningItems), Save(s), queued' \in [Tasks -> SUBSET Nat],
         \A t \in Tasks : \A n \in queued'[t] : n <= MaxTurn[t],
         \A j \in DOMAIN s : Sound(queued', s[j]),
         \A k \in DOMAIN history' : history'[k].task \in Tasks /\ history'[k].through \in queued'[history'[k].task],
         \A t \in Tasks : \A n \in queued'[t] :
           \/ <<t, n>> \in dropped
           \/ \E j \in DOMAIN s : Covers(s[j], t, n)
           \/ \E k \in DOMAIN history' : Has(history'[k], t, n)
  PROVE  /\ items' \in Seq(LearningItems) /\ QueuedBefore' /\ TurnsKept'
         /\ \A k \in DOMAIN items' : \E j \in DOMAIN s : items'[k] = s[j]
<1>1. /\ items' \in Seq(LearningItems)
      /\ \A k \in DOMAIN items' : \E j \in DOMAIN s : items'[k] = s[j]
      /\ \A j \in DOMAIN s : TurnsOf(s[j]) \subseteq dropped' \/ \E k \in DOMAIN items' : items'[k] = s[j]
      /\ dropped \subseteq dropped'
  BY SaveKeeps
<1>2. QueuedBefore'
  <2>1. \A k \in DOMAIN items' : Sound(queued', items'[k])
    BY <1>1
  <2> QED BY <2>1 DEF QueuedBefore
<1>3. TurnsKept'
  <2>1. ASSUME NEW t \in Tasks, NEW n \in queued'[t]
        PROVE  \/ <<t, n>> \in dropped'
               \/ \E i \in ToSet(items') : <<t, n>> \in TurnsOf(i)
               \/ \E e \in ToSet(history') : e.task = t /\ n \in e.from..e.through
    <3>1. CASE <<t, n>> \in dropped
      BY <3>1, <1>1
    <3>2. CASE \E j \in DOMAIN s : Covers(s[j], t, n)
      <4>1. PICK j \in DOMAIN s : Covers(s[j], t, n)
        BY <3>2
      <4>2. <<t, n>> \in TurnsOf(s[j])
        BY <4>1 DEF Covers, TurnsOf
      <4> QED BY <4>2, <1>1 DEF ToSet
    <3>3. CASE \E k \in DOMAIN history' : Has(history'[k], t, n)
      BY <3>3 DEF Has, ToSet
    <3> QED BY <3>1, <3>2, <3>3
  <2> QED BY <2>1 DEF TurnsKept
<1> QED BY <1>1, <1>2, <1>3

LEMMA QueueStays ==
  ASSUME LearningInv, UNCHANGED queueFile, queued' = queued
  PROVE  items' \in Seq(LearningItems) /\ history' \in Seq(LearnedTasks) /\ QueuedBefore' /\ TurnsKept'
BY DEF LearningInv, LearningTypeOK, QueuedBefore, TurnsKept, queueFile

LEMMA SetHost ==
  ASSUME host \in [Hosts -> LearningHosts], NEW h \in Hosts, NEW r \in LearningHosts, Set(h, r)
  PROVE  /\ host' \in [Hosts -> LearningHosts] /\ host'[h] = r
         /\ \A g \in Hosts : g # h => host'[g] = host[g]
BY DEF Set

LEMMA OnlyMe ==
  ASSUME Alone, NEW h \in Hosts, host[h].boot # "down"
  PROVE  \A g \in Hosts : g # h => host[g].boot = "down"
BY DEF Alone

Holds(r) == r.boot \in {"resetting", "releasing"} \/ r.loop \in {"look", "ask", "learning", "finish", "release"}
Mine(r, i) == r.loop \in {"learning", "finish"} /\ SameTurns(i, r.item)

(* A step of a host that keeps what is said of the queue. *)
LEMMA HostStep ==
  ASSUME LearningInv, NEW h \in Hosts, NEW r \in LearningHosts, Set(h, r),
         items' \in Seq(LearningItems), history' \in Seq(LearnedTasks), QueuedBefore', TurnsKept',
         queued' \in [Tasks -> SUBSET Nat], \A t \in Tasks : queued[t] \subseteq queued'[t],
         worker' \in {worker, h, "none", "stale"}, worker' = h => Holds(r),
         r.loop # "idle" \/ r.kicks \/ r.stopped => r.boot = "up",
         r.loop \in {"learning", "finish"} => Sound(queued', r.item),
         r.boot \in {"up", "releasing"} => \A k \in DOMAIN items' : Running(items'[k]) => Mine(r, items'[k]),
         items' = items \/ \A g \in Hosts : g # h => host[g].boot = "down"
  PROVE  LearningInv'
<1>1. /\ host' \in [Hosts -> LearningHosts] /\ host'[h] = r
      /\ \A g \in Hosts : g # h => host'[g] = host[g]
  BY SetHost DEF LearningInv, LearningTypeOK
<1>2. LearningTypeOK'
  BY <1>1 DEF LearningInv, LearningTypeOK
<1>3. HostsWork'
  <2>1. ASSUME NEW g \in Hosts
        PROVE  /\ worker' = g => Holds(host'[g])
               /\ host'[g].loop # "idle" \/ host'[g].kicks \/ host'[g].stopped => host'[g].boot = "up"
               /\ host'[g].loop \in {"learning", "finish"} => Sound(queued', host'[g].item)
    <3>1. CASE g = h
      BY <3>1, <1>1
    <3>2. CASE g # h
      <4>1. host'[g] = host[g] /\ (worker' = g => worker = g)
        BY <3>2, <1>1, LearningAssumption
      <4>2. ASSUME NEW i, Sound(queued, i) PROVE Sound(queued', i)
        BY <4>2 DEF Sound
      <4> QED BY <4>1, <4>2 DEF LearningInv, HostsWork, Holds, Learning
    <3> QED BY <3>1, <3>2
  <2> QED BY <2>1 DEF HostsWork, Holds, Learning
<1>4. RunningIsMine'
  <2>1. ASSUME NEW g \in Hosts, host'[g].boot \in {"up", "releasing"}, NEW k \in DOMAIN items', Running(items'[k])
        PROVE  Mine(host'[g], items'[k])
    <3>1. CASE g = h
      BY <2>1, <3>1, <1>1
    <3>2. CASE g # h
      <4>1. items' = items /\ host'[g] = host[g]
        BY <3>2, <2>1, <1>1
      <4> QED BY <4>1, <2>1 DEF LearningInv, RunningIsMine, Mine, Learning
    <3> QED BY <3>1, <3>2
  <2> QED BY <2>1 DEF RunningIsMine, Mine, Learning
<1> QED BY <1>2, <1>3, <1>4 DEF LearningInv

(* A step of a host that leaves the queue as it is. *)
LEMMA QuietStep ==
  ASSUME LearningInv, NEW h \in Hosts, NEW r \in LearningHosts, Set(h, r), UNCHANGED <<queueFile, queued>>,
         worker' \in {worker, h, "none", "stale"}, worker' = h => Holds(r),
         r.loop # "idle" \/ r.kicks \/ r.stopped => r.boot = "up",
         r.loop \in {"learning", "finish"} => Sound(queued, r.item),
         r.boot \in {"up", "releasing"} => \A k \in DOMAIN items : Running(items[k]) => Mine(r, items[k])
  PROVE  LearningInv'
<1>1. items' \in Seq(LearningItems) /\ history' \in Seq(LearnedTasks) /\ QueuedBefore' /\ TurnsKept'
  BY QueueStays
<1>2. items' = items /\ queued' = queued /\ queued \in [Tasks -> SUBSET Nat]
  BY DEF queueFile, LearningInv, LearningTypeOK
<1> QED BY <1>1, <1>2, HostStep

LEMMA NothingRuns ==
  ASSUME LearningInv, NEW h \in Hosts, host[h].boot \in {"up", "releasing"}, ~Learning(h)
  PROVE  \A k \in DOMAIN items : ~Running(items[k])
BY DEF LearningInv, RunningIsMine

LEMMA LoopIsUp ==
  ASSUME LearningInv, NEW h \in Hosts, host[h].loop # "idle" \/ host[h].kicks \/ host[h].stopped
  PROVE  host[h].boot = "up"
BY DEF LearningInv, HostsWork

LEMMA KickIs ==
  ASSUME NEW r \in LearningHosts
  PROVE  /\ Kick(r) \in LearningHosts /\ Kick(r).boot = r.boot /\ Kick(r).item = r.item /\ Kick(r).kicks = r.kicks
         /\ Kick(r).loop = r.loop \/ (r.loop = "idle" /\ Kick(r).loop = "enter")
         /\ [Kick(r) EXCEPT !.kicks = FALSE] \in LearningHosts
         /\ [Kick(r) EXCEPT !.kicks = FALSE].loop = Kick(r).loop
         /\ [Kick(r) EXCEPT !.kicks = FALSE].boot = r.boot /\ [Kick(r) EXCEPT !.kicks = FALSE].item = r.item
         /\ [Kick(r) EXCEPT !.kicks = FALSE].kicks = FALSE
<1> DEFINE a == [r EXCEPT !.loop = "enter", !.again = FALSE]
           b == [r EXCEPT !.again = TRUE]
           k == Kick(r)
<1>1. a \in LearningHosts /\ a.boot = r.boot /\ a.item = r.item /\ a.kicks = r.kicks /\ a.loop = "enter"
  BY DEF LearningHosts, Loops
<1>2. b \in LearningHosts /\ b.boot = r.boot /\ b.item = r.item /\ b.kicks = r.kicks /\ b.loop = r.loop
  BY DEF LearningHosts
<1>3. k = r \/ (r.loop = "idle" /\ k = a) \/ k = b
  BY DEF Kick
<1> HIDE DEF a, b, k
<1>4. /\ k \in LearningHosts /\ k.boot = r.boot /\ k.item = r.item /\ k.kicks = r.kicks
      /\ k.loop = r.loop \/ (r.loop = "idle" /\ k.loop = "enter")
  BY <1>1, <1>2, <1>3
<1> DEFINE f == [k EXCEPT !.kicks = FALSE]
<1>5. f \in LearningHosts /\ f.boot = k.boot /\ f.item = k.item /\ ~f.kicks /\ f.kicks = FALSE /\ f.loop = k.loop
  BY <1>4 DEF LearningHosts
<1> HIDE DEF f
<1>6. /\ k \in LearningHosts /\ k.boot = r.boot /\ k.item = r.item /\ k.kicks = r.kicks
      /\ k.loop = r.loop \/ (r.loop = "idle" /\ k.loop = "enter")
      /\ f \in LearningHosts /\ f.loop = k.loop /\ f.boot = r.boot /\ f.item = r.item /\ f.kicks = FALSE
  BY <1>4, <1>5
<1> QED BY <1>6 DEF f, k

LEMMA BootSets ==
  ASSUME NEW r \in LearningHosts, NEW b \in Boots
  PROVE  /\ [r EXCEPT !.boot = b] \in LearningHosts /\ [r EXCEPT !.boot = b].boot = b
         /\ [r EXCEPT !.boot = b].loop = r.loop /\ [r EXCEPT !.boot = b].kicks = r.kicks
         /\ [r EXCEPT !.boot = b].stopped = r.stopped /\ [r EXCEPT !.boot = b].item = r.item
BY DEF LearningHosts

LEMMA DownIs ==
  /\ Down \in LearningHosts /\ NoItem \in LearningItems
  /\ Down.boot = "down" /\ Down.loop = "idle" /\ Down.kicks = FALSE /\ Down.stopped = FALSE
<1>1. NoItem \in LearningItems
  BY DEF NoItem, LearningItems, Statuses
<1> QED BY <1>1 DEF Down, LearningHosts, Boots, Loops

LEMMA GotoStep ==
  ASSUME LearningInv, NEW h \in Hosts, NEW l \in Loops \ {"learning", "finish"}, Goto(h, l),
         host[h].boot = "up", \A k \in DOMAIN items : ~Running(items[k]), UNCHANGED <<queueFile, queued>>,
         worker' \in {worker, h, "none", "stale"}, worker' = h => l \in {"look", "ask", "release"}
  PROVE  LearningInv'
<1> DEFINE r == [host[h] EXCEPT !.loop = l, !.item = NoItem, !.learned = FALSE, !.aborted = FALSE]
<1>1. host[h] \in LearningHosts
  BY DEF LearningInv, LearningTypeOK
<1>2. r \in LearningHosts /\ r.loop = l /\ r.boot = "up" /\ r.kicks = host[h].kicks
  BY <1>1, DownIs DEF LearningHosts
<1>3. Set(h, r)
  BY DEF Goto
<1> HIDE DEF r
<1>4. worker' = h => Holds(r)
  BY <1>2 DEF Holds
<1> QED BY <1>2, <1>3, <1>4, QuietStep

-----------------------------------------------------------------------------
(* Starting, and the steps that leave the queue as it is. *)
LEMMA StartSteps ==
  ASSUME LearningInv, Alone, Alone', NEW h \in Hosts, StartReset(h) \/ StartPlain(h) \/ Started(h)
  PROVE  LearningInv'
<1>0. host[h] \in LearningHosts /\ worker \in Hosts \cup {"none", "stale"}
  BY DEF LearningInv, LearningTypeOK
<1>1. CASE StartReset(h)
  <2> DEFINE r == [Down EXCEPT !.boot = "resetting"]
  <2>1. r \in LearningHosts /\ r.boot = "resetting" /\ r.loop = "idle" /\ r.kicks = FALSE /\ r.stopped = FALSE
    BY DownIs, BootSets DEF Boots
  <2>2. Set(h, r) /\ worker' = h /\ UNCHANGED <<queueFile, queued>>
    BY <1>1 DEF StartReset, TakeWorker
  <2> HIDE DEF r
  <2> QED BY <2>1, <2>2, QuietStep DEF Holds
<1>2. CASE StartPlain(h)
  <2> DEFINE d == [Down EXCEPT !.boot = "up"]
             r == Kick(d)
  <2>1. d \in LearningHosts /\ d.boot = "up" /\ d.loop = "idle" /\ d.kicks = FALSE
    BY DownIs, BootSets DEF Boots
  <2>2. r \in LearningHosts /\ r.boot = "up" /\ r.loop \in {"idle", "enter"} /\ r.kicks = FALSE
    BY <2>1, KickIs
  <2>3. Set(h, r) /\ UNCHANGED <<queueFile, worker, queued>> /\ host[h].boot = "down"
    BY <1>2 DEF StartPlain
  <2>4. host'[h].boot = "up" /\ \A g \in Hosts : g # h => host'[g] = host[g]
    BY <2>2, <2>3, SetHost DEF LearningInv, LearningTypeOK
  <2>5. \A g \in Hosts : host[g].boot = "down"
    BY <2>3, <2>4 DEF Alone
  <2>6. worker \notin Hosts
    BY <2>5 DEF LearningInv, HostsWork
  <2>7. \A k \in DOMAIN items : ~Running(items[k])
    BY <1>2, <2>6 DEF StartPlain, ToSet
  <2> HIDE DEF r
  <2> QED BY <2>2, <2>3, <2>6, <2>7, QuietStep
<1>3. CASE Started(h)
  <2> DEFINE d == [host[h] EXCEPT !.boot = "up"]
             r == Kick(d)
  <2>1. host[h].loop = "idle" /\ ~host[h].kicks /\ host[h].boot = "releasing"
    BY <1>3 DEF LearningInv, HostsWork, Started
  <2>2. d \in LearningHosts /\ d.boot = "up" /\ d.loop = "idle" /\ ~d.kicks
    BY <1>0, <2>1, BootSets DEF Boots
  <2>3. r \in LearningHosts /\ r.boot = "up" /\ r.loop \in {"idle", "enter"} /\ ~r.kicks
    BY <2>2, KickIs
  <2>4. Set(h, r) /\ worker' = "none" /\ UNCHANGED <<queueFile, queued>>
    BY <1>3 DEF Started
  <2>5. \A k \in DOMAIN items : ~Running(items[k])
    BY <2>1, NothingRuns DEF Learning
  <2> HIDE DEF r
  <2> QED BY <2>3, <2>4, <2>5, QuietStep, LearningAssumption
<1> QED BY <1>1, <1>2, <1>3

LEMMA KickedStep ==
  ASSUME LearningInv, NEW h \in Hosts, Kicked(h)
  PROVE  LearningInv'
<1> DEFINE r == [Kick(host[h]) EXCEPT !.kicks = FALSE]
<1>0. host[h] \in LearningHosts /\ host[h].boot = "up"
  BY LoopIsUp DEF LearningInv, LearningTypeOK, Kicked
<1>1. /\ r \in LearningHosts /\ r.boot = "up" /\ r.item = host[h].item
      /\ r.loop = host[h].loop \/ (host[h].loop = "idle" /\ r.loop = "enter")
  BY <1>0, KickIs
<1>2. Set(h, r) /\ UNCHANGED <<queueFile, worker, queued>>
  BY DEF Kicked
<1> HIDE DEF r
<1>3. worker' = h => Holds(r)
  BY <1>0, <1>1, <1>2 DEF Holds, LearningInv, HostsWork
<1>4. r.loop \in {"learning", "finish"} => Sound(queued, r.item)
  BY <1>1 DEF LearningInv, HostsWork, Learning
<1>5. \A k \in DOMAIN items : Running(items[k]) => Mine(r, items[k])
  BY <1>0, <1>1 DEF LearningInv, RunningIsMine, Mine, Learning
<1> QED BY <1>1, <1>2, <1>3, <1>4, <1>5, QuietStep

LEMMA LoopSteps ==
  ASSUME LearningInv, NEW h \in Hosts, Enter(h) \/ Look(h) \/ Forbidden(h) \/ Release(h)
  PROVE  LearningInv'
<1>0. host[h] \in LearningHosts /\ worker \in Hosts \cup {"none", "stale"} /\ items \in Seq(LearningItems)
  BY DEF LearningInv, LearningTypeOK
<1>1. host[h].boot = "up" /\ ~Learning(h)
  BY LoopIsUp DEF Learning, Enter, Look, Forbidden, Release
<1>2. \A k \in DOMAIN items : ~Running(items[k])
  BY <1>1, NothingRuns
<1>3. CASE Enter(h)
  <2>1. UNCHANGED <<queueFile, queued>>
    BY <1>3 DEF Enter
  <2>2. CASE worker \in Hosts
    <3>1. Goto(h, "end") /\ worker' = worker
      BY <1>3, <2>2 DEF Enter
    <3>2. worker # h
      BY <1>1, <1>3 DEF LearningInv, HostsWork, Enter
    <3> QED BY <3>1, <3>2, <2>1, <1>1, <1>2, GotoStep DEF Loops
  <2>3. CASE worker \notin Hosts
    <3>1. Goto(h, "look") /\ worker' = h
      BY <1>3, <2>3 DEF Enter, TakeWorker
    <3> QED BY <3>1, <2>1, <1>1, <1>2, GotoStep DEF Loops
  <2> QED BY <2>2, <2>3
<1>4. CASE Look(h)
  <2> DEFINE free == SelectInSeq(items, Waiting)
             r == [host[h] EXCEPT !.loop = "ask", !.item = [NoItem EXCEPT !.task = items[free].task]]
  <2>1. UNCHANGED <<queueFile, worker, queued>>
    BY <1>4 DEF Look
  <2>2. CASE host[h].stopped \/ free = 0
    <3>1. Goto(h, "release")
      BY <1>4, <2>2 DEF Look
    <3> QED BY <3>1, <2>1, <1>1, <1>2, GotoStep DEF Loops
  <2>3. CASE ~(host[h].stopped \/ free = 0)
    <3>1. Set(h, r)
      BY <1>4, <2>3 DEF Look
    <3>2. free \in DOMAIN items
      BY <2>3, <1>0, FreeFound
    <3>3. [NoItem EXCEPT !.task = items[free].task] \in LearningItems
      <4> HIDE DEF free
      <4>0. items[free] \in LearningItems
        BY <3>2, <1>0
      <4>1. items[free].task \in Tasks \cup {"none"}
        BY <4>0 DEF LearningItems
      <4> QED BY <4>1 DEF NoItem, LearningItems, Statuses
    <3>4. r \in LearningHosts /\ r.boot = "up" /\ r.loop = "ask"
      BY <3>3, <1>0, <1>1 DEF LearningHosts, Loops
    <3> HIDE DEF r
    <3> QED BY <3>1, <3>4, <2>1, <1>2, QuietStep DEF Holds
  <2> QED BY <2>2, <2>3
<1>5. CASE Forbidden(h)
  BY <1>5, <1>1, <1>2, GotoStep DEF Forbidden, Loops
<1>6. CASE Release(h)
  BY <1>6, <1>1, <1>2, GotoStep, LearningAssumption DEF Release, Loops
<1> QED BY <1>3, <1>4, <1>5, <1>6

LEMMA EndSteps ==
  ASSUME LearningInv, NEW h \in Hosts, LearnEnds(h) \/ LoopEnds(h) \/ Stop(h) \/ Exit(h) \/ Crash(h)
  PROVE  LearningInv'
<1>0. host[h] \in LearningHosts /\ worker \in Hosts \cup {"none", "stale"} /\ items \in Seq(LearningItems)
  BY DEF LearningInv, LearningTypeOK
<1>1. CASE LearnEnds(h)
  <2>1. PICK l \in BOOLEAN : Set(h, [host[h] EXCEPT !.loop = "finish", !.learned = l])
    BY <1>1 DEF LearnEnds
  <2> DEFINE r == [host[h] EXCEPT !.loop = "finish", !.learned = l]
  <2>2. r \in LearningHosts /\ r.loop = "finish" /\ r.boot = host[h].boot /\ r.item = host[h].item
    BY <1>0 DEF LearningHosts, Loops
  <2>3. host[h].boot = "up" /\ Learning(h) /\ UNCHANGED <<queueFile, worker, queued>>
    BY <1>1, LoopIsUp DEF LearnEnds, Learning
  <2>4. Sound(queued, r.item) /\ \A k \in DOMAIN items : Running(items[k]) => Mine(r, items[k])
    BY <2>2, <2>3 DEF LearningInv, HostsWork, RunningIsMine, Mine
  <2> HIDE DEF r
  <2>5. Set(h, r)
    BY <2>1 DEF r
  <2> QED BY <2>2, <2>3, <2>4, <2>5, QuietStep DEF Holds
<1>2. CASE LoopEnds(h)
  <2> DEFINE r == [host[h] EXCEPT !.loop = IF host[h].again /\ ~host[h].stopped THEN "enter" ELSE "idle", !.again = FALSE]
  <2>1. Set(h, r) /\ UNCHANGED <<queueFile, worker, queued>> /\ host[h].loop = "end" /\ host[h].boot = "up"
    BY <1>2, LoopIsUp DEF LoopEnds
  <2>2. r \in LearningHosts /\ r.loop \in {"enter", "idle"} /\ r.boot = "up"
    BY <1>0, <2>1 DEF LearningHosts, Loops
  <2>3. worker # h
    BY <2>1 DEF LearningInv, HostsWork
  <2>4. \A k \in DOMAIN items : ~Running(items[k])
    BY <2>1, NothingRuns DEF Learning
  <2> HIDE DEF r
  <2> QED BY <2>1, <2>2, <2>3, <2>4, QuietStep
<1>3. CASE Stop(h)
  <2> DEFINE r == [host[h] EXCEPT !.stopped = TRUE, !.aborted = (host[h].loop = "learning")]
  <2>1. Set(h, r) /\ UNCHANGED <<queueFile, worker, queued>> /\ host[h].boot = "up"
    BY <1>3 DEF Stop
  <2>2. /\ r \in LearningHosts /\ r.loop = host[h].loop /\ r.boot = "up" /\ r.item = host[h].item
        /\ r.kicks = host[h].kicks
    BY <1>0, <2>1 DEF LearningHosts
  <2> HIDE DEF r
  <2>3. worker' = h => Holds(r)
    BY <2>1, <2>2 DEF Holds, LearningInv, HostsWork
  <2>4. r.loop \in {"learning", "finish"} => Sound(queued, r.item)
    BY <2>2 DEF LearningInv, HostsWork, Learning
  <2>5. \A k \in DOMAIN items : Running(items[k]) => Mine(r, items[k])
    BY <2>1, <2>2 DEF LearningInv, RunningIsMine, Mine, Learning
  <2> QED BY <2>1, <2>2, <2>3, <2>4, <2>5, QuietStep
<1>4. CASE Exit(h)
  <2>1. Set(h, Down) /\ UNCHANGED <<queueFile, worker, queued>> /\ host[h].loop = "idle"
    BY <1>4 DEF Exit
  <2>2. worker # h
    BY <1>4 DEF LearningInv, HostsWork, Exit
  <2> QED BY <2>1, <2>2, DownIs, QuietStep
<1>5. CASE Crash(h)
  <2>1. Set(h, Down) /\ UNCHANGED <<queueFile, queued>> /\ worker' = IF worker = h THEN "stale" ELSE worker
    BY <1>5 DEF Crash
  <2>2. worker' \in {worker, "stale"} /\ worker' # h
    BY <2>1, LearningAssumption
  <2> QED BY <2>1, <2>2, DownIs, QuietStep
<1> QED BY <1>1, <1>2, <1>3, <1>4, <1>5

-----------------------------------------------------------------------------
(* The steps that save the queue. *)
(* The queue is saved with the same turns in every place. *)
LEMMA Restated ==
  ASSUME LearningInv, NEW s \in Seq(LearningItems), Save(s), UNCHANGED <<history, queued>>,
         DOMAIN s = DOMAIN items, \A k \in DOMAIN items : SameTurns(s[k], items[k])
  PROVE  /\ items' \in Seq(LearningItems) /\ QueuedBefore' /\ TurnsKept'
         /\ \A k \in DOMAIN items' : \E j \in DOMAIN s : items'[k] = s[j]
<1>1. /\ queued' \in [Tasks -> SUBSET Nat]
      /\ \A t \in Tasks : \A n \in queued'[t] : n <= MaxTurn[t]
      /\ \A k \in DOMAIN history' : history'[k].task \in Tasks /\ history'[k].through \in queued'[history'[k].task]
  BY DEF LearningInv, LearningTypeOK, QueuedBefore
<1>2. \A j \in DOMAIN s : Sound(queued', s[j])
  BY DEF LearningInv, QueuedBefore, SameTurns, Sound
<1>3. ASSUME NEW t \in Tasks, NEW n \in queued'[t]
      PROVE  \/ <<t, n>> \in dropped
             \/ \E j \in DOMAIN s : Covers(s[j], t, n)
             \/ \E k \in DOMAIN history' : Has(history'[k], t, n)
  <2>1. \/ <<t, n>> \in dropped
        \/ \E k \in DOMAIN items : Covers(items[k], t, n)
        \/ \E k \in DOMAIN history : Has(history[k], t, n)
    BY TurnsKeptIs DEF LearningInv
  <2>2. \A k \in DOMAIN items : Covers(items[k], t, n) => Covers(s[k], t, n)
    BY DEF SameTurns, Covers
  <2> QED BY <2>1, <2>2
<1> QED BY <1>1, <1>2, <1>3, QueueStep

LEMMA StatusSets ==
  ASSUME NEW i \in LearningItems, NEW st \in Statuses
  PROVE  /\ [i EXCEPT !.status = st] \in LearningItems /\ SameTurns([i EXCEPT !.status = st], i)
         /\ [i EXCEPT !.status = st].status = st
BY DEF LearningItems, SameTurns

LEMMA ResetStep ==
  ASSUME LearningInv, Alone, NEW h \in Hosts, Reset(h)
  PROVE  LearningInv'
<1> DEFINE s == [k \in DOMAIN items |-> IF Running(items[k]) THEN [items[k] EXCEPT !.status = "pending"] ELSE items[k]]
           r == [host[h] EXCEPT !.boot = "releasing"]
<1>0. /\ host[h] \in LearningHosts /\ items \in Seq(LearningItems) /\ history \in Seq(LearnedTasks)
      /\ host[h].boot = "resetting" /\ queued \in [Tasks -> SUBSET Nat]
  BY DEF LearningInv, LearningTypeOK, Reset
<1>1. \A k \in DOMAIN items : s[k] \in LearningItems /\ SameTurns(s[k], items[k]) /\ ~Running(s[k])
  <2> TAKE k \in DOMAIN items
  <2>1. items[k] \in LearningItems
    BY <1>0
  <2> QED BY <2>1, StatusSets DEF Statuses, Running, SameTurns
<1>2. DOMAIN s = DOMAIN items /\ s \in Seq(LearningItems)
  <2>1. DOMAIN items = 1..Len(items) /\ Len(items) \in Nat
    BY <1>0
  <2>2. s \in [1..Len(items) -> LearningItems]
    BY <1>1, <2>1
  <2> QED BY <2>1, <2>2, SeqDef
<1>3. Save(s) /\ Set(h, r) /\ UNCHANGED <<history, worker, queued>>
  BY DEF Reset
<1>4. r \in LearningHosts /\ r.boot = "releasing" /\ r.loop = "idle" /\ ~r.kicks /\ ~r.stopped
  <2>1. host[h].loop = "idle" /\ ~host[h].kicks /\ ~host[h].stopped
    BY <1>0 DEF LearningInv, HostsWork
  <2> QED BY <1>0, <2>1, BootSets DEF Boots
<1> HIDE DEF s, r
<1>5. /\ items' \in Seq(LearningItems) /\ QueuedBefore' /\ TurnsKept'
      /\ \A k \in DOMAIN items' : \E j \in DOMAIN s : items'[k] = s[j]
  BY <1>1, <1>2, <1>3, Restated
<1>6. \A k \in DOMAIN items' : ~Running(items'[k])
  BY <1>1, <1>2, <1>5
<1>7. \A g \in Hosts : g # h => host[g].boot = "down"
  BY <1>0, OnlyMe
<1> QED BY <1>0, <1>3, <1>4, <1>5, <1>6, <1>7, HostStep DEF Holds

LEMMA GotoIs ==
  ASSUME LearningInv, NEW h \in Hosts, NEW l \in Loops, Goto(h, l), host[h].boot = "up"
  PROVE  \E r \in LearningHosts : Set(h, r) /\ r.boot = "up" /\ r.loop = l
<1> DEFINE r == [host[h] EXCEPT !.loop = l, !.item = NoItem, !.learned = FALSE, !.aborted = FALSE]
<1>1. host[h] \in LearningHosts
  BY DEF LearningInv, LearningTypeOK
<1>2. r \in LearningHosts /\ r.loop = l /\ r.boot = "up"
  BY <1>1, DownIs DEF LearningHosts
<1> QED BY <1>2 DEF Goto

LEMMA NoBudgetStep ==
  ASSUME LearningInv, Alone, NEW h \in Hosts, NoBudget(h)
  PROVE  LearningInv'
<1> DEFINE s == [k \in DOMAIN items |-> IF Running(items[k]) THEN items[k] ELSE [items[k] EXCEPT !.status = "budget"]]
<1>0. /\ items \in Seq(LearningItems) /\ history \in Seq(LearnedTasks)
      /\ host[h].boot = "up" /\ ~Learning(h) /\ queued \in [Tasks -> SUBSET Nat]
  BY LoopIsUp DEF LearningInv, LearningTypeOK, NoBudget, Learning
<1>1. \A k \in DOMAIN items : s[k] \in LearningItems /\ SameTurns(s[k], items[k]) /\ ~Running(s[k])
  <2> TAKE k \in DOMAIN items
  <2>1. items[k] \in LearningItems
    BY <1>0
  <2>2. ~Running(items[k])
    BY <1>0, NothingRuns
  <2> QED BY <2>1, <2>2, StatusSets DEF Statuses, Running
<1>2. DOMAIN s = DOMAIN items /\ s \in Seq(LearningItems)
  <2>1. DOMAIN items = 1..Len(items) /\ Len(items) \in Nat
    BY <1>0
  <2>2. s \in [1..Len(items) -> LearningItems]
    BY <1>1, <2>1
  <2> QED BY <2>1, <2>2, SeqDef
<1>3. Save(s) /\ Goto(h, "release") /\ UNCHANGED <<history, worker, queued>>
  BY DEF NoBudget
<1>4. PICK r \in LearningHosts : Set(h, r) /\ r.boot = "up" /\ r.loop = "release"
  BY <1>0, <1>3, GotoIs DEF Loops
<1> HIDE DEF s
<1>5. /\ items' \in Seq(LearningItems) /\ QueuedBefore' /\ TurnsKept'
      /\ \A k \in DOMAIN items' : \E j \in DOMAIN s : items'[k] = s[j]
  BY <1>1, <1>2, <1>3, Restated
<1>6. \A k \in DOMAIN items' : ~Running(items'[k])
  BY <1>1, <1>2, <1>5
<1>7. \A g \in Hosts : g # h => host[g].boot = "down"
  BY <1>0, OnlyMe
<1> QED BY <1>0, <1>3, <1>4, <1>5, <1>6, <1>7, HostStep DEF Holds

LEMMA ClaimStep ==
  ASSUME LearningInv, Alone, NEW h \in Hosts, Claim(h)
  PROVE  LearningInv'
<1> DEFINE found == WaitingOf(host[h].item.task)
           mine == [items[found] EXCEPT !.status = "running", !.attempts = @ + 1]
           s == [items EXCEPT ![found] = mine]
           r == [host[h] EXCEPT !.loop = "learning", !.item = mine, !.aborted = FALSE]
<1>0. /\ items \in Seq(LearningItems) /\ history \in Seq(LearnedTasks) /\ host[h] \in LearningHosts
      /\ host[h].boot = "up" /\ ~Learning(h) /\ queued \in [Tasks -> SUBSET Nat]
  BY LoopIsUp DEF LearningInv, LearningTypeOK, Claim, Learning
<1>1. \A k \in DOMAIN items : ~Running(items[k])
  BY <1>0, NothingRuns
<1>2. UNCHANGED <<history, worker, queued>>
  BY DEF Claim
<1>3. \A g \in Hosts : g # h => host[g].boot = "down"
  BY <1>0, OnlyMe
<1>4. CASE found = 0
  <2>1. Save(items) /\ Goto(h, "look")
    BY <1>4 DEF Claim
  <2>2. PICK q \in LearningHosts : Set(h, q) /\ q.boot = "up" /\ q.loop = "look"
    BY <1>0, <2>1, GotoIs DEF Loops
  <2>3. /\ items' \in Seq(LearningItems) /\ QueuedBefore' /\ TurnsKept'
        /\ \A k \in DOMAIN items' : \E j \in DOMAIN items : items'[k] = items[j]
    <3>1. \A k \in DOMAIN items : SameTurns(items[k], items[k])
      BY DEF SameTurns
    <3> QED BY <3>1, <2>1, <1>0, <1>2, Restated
  <2>4. \A k \in DOMAIN items' : ~Running(items'[k])
    BY <1>1, <2>3
  <2> QED BY <1>0, <1>2, <1>3, <2>2, <2>3, <2>4, HostStep DEF Holds
<1>5. CASE found # 0
  <2>1. found \in DOMAIN items
    BY <1>5, <1>0, WaitingFound
  <2>2. items[found] \in LearningItems /\ Sound(queued, items[found])
    BY <2>1, <1>0 DEF LearningInv, QueuedBefore
  <2>3. Save(s) /\ Set(h, r)
    BY <1>5 DEF Claim
  <2> HIDE DEF found
  <2>4. mine \in LearningItems /\ SameTurns(mine, items[found])
    <3> DEFINE i == items[found]
    <3>1. i \in LearningItems /\ i.attempts + 1 \in Int
      BY <2>2 DEF LearningItems
    <3> HIDE DEF i
    <3>2. /\ [i EXCEPT !.status = "running", !.attempts = i.attempts + 1] \in LearningItems
          /\ SameTurns([i EXCEPT !.status = "running", !.attempts = i.attempts + 1], i)
      BY <3>1 DEF LearningItems, SameTurns, Statuses
    <3> QED BY <3>2 DEF i
  <2>5. Sound(queued, mine)
    BY <2>2, <2>4 DEF Sound, SameTurns
  <2> HIDE DEF mine
  <2>6. /\ DOMAIN s = DOMAIN items /\ s \in Seq(LearningItems)
        /\ \A k \in DOMAIN items : s[k] = IF k = found THEN mine ELSE items[k]
    BY <2>1, <2>4, <1>0
  <2>7. r \in LearningHosts /\ r.boot = "up" /\ r.loop = "learning" /\ r.item = mine
    BY <1>0, <2>4 DEF LearningHosts, Loops
  <2> HIDE DEF s, r
  <2>8. \A k \in DOMAIN items : SameTurns(s[k], items[k])
    BY <2>4, <2>6 DEF SameTurns
  <2>9. /\ items' \in Seq(LearningItems) /\ QueuedBefore' /\ TurnsKept'
        /\ \A k \in DOMAIN items' : \E j \in DOMAIN s : items'[k] = s[j]
    BY <2>3, <2>6, <2>8, <1>2, Restated
  <2>10. \A k \in DOMAIN items' : Running(items'[k]) => Mine(r, items'[k])
    <3>1. ASSUME NEW k \in DOMAIN items', Running(items'[k]) PROVE items'[k] = mine
      <4>1. PICK j \in DOMAIN items : items'[k] = s[j]
        BY <2>6, <2>9
      <4> QED BY <4>1, <3>1, <1>1, <2>6
    <3> QED BY <3>1, <2>7 DEF Mine, SameTurns
  <2> QED BY <1>0, <1>2, <1>3, <2>3, <2>5, <2>7, <2>9, <2>10, HostStep DEF Holds
<1> QED BY <1>4, <1>5

(* A sequence with one more at its end, or at its front. *)
LEMMA OneMore ==
  ASSUME NEW S, NEW q \in Seq(S), NEW x \in S, NEW s, s = Append(q, x) \/ s = <<x>> \o q
  PROVE  /\ s \in Seq(S)
         /\ \A k \in DOMAIN s : s[k] = x \/ \E j \in DOMAIN q : s[k] = q[j]
         /\ \A j \in DOMAIN q : \E k \in DOMAIN s : s[k] = q[j]
         /\ \E k \in DOMAIN s : s[k] = x
<1>1. CASE s = Append(q, x)
  <2>1. s \in Seq(S) /\ Len(s) = Len(q) + 1 /\ s[Len(q) + 1] = x /\ \A k \in 1..Len(q) : s[k] = q[k]
    BY <1>1
  <2>2. DOMAIN s = 1..Len(q) + 1 /\ DOMAIN q = 1..Len(q) /\ Len(q) \in Nat
    BY <2>1
  <2>3. \A k \in 1..Len(q) + 1 : k = Len(q) + 1 \/ k \in 1..Len(q)
    BY <2>2
  <2>4. \A k \in 1..Len(q) : k \in 1..Len(q) + 1
    BY <2>2
  <2>5. Len(q) + 1 \in DOMAIN s
    BY <2>2
  <2> QED BY <2>1, <2>2, <2>3, <2>4, <2>5
<1>2. CASE s = <<x>> \o q
  <2>1. s \in Seq(S) /\ Len(s) = Len(q) + 1
    BY <1>2
  <2>2. DOMAIN s = 1..Len(q) + 1 /\ DOMAIN q = 1..Len(q) /\ Len(q) \in Nat
    BY <2>1
  <2>3. s[1] = x /\ \A k \in 2..Len(q) + 1 : s[k] = q[k - 1]
    BY <1>2, <2>2
  <2>4. ASSUME NEW k \in DOMAIN s PROVE s[k] = x \/ \E j \in DOMAIN q : s[k] = q[j]
    <3>1. CASE k = 1
      BY <3>1, <2>3
    <3>2. CASE k # 1
      <4>1. k \in 2..Len(q) + 1 /\ k - 1 \in DOMAIN q
        BY <3>2, <2>2
      <4> QED BY <4>1, <2>3
    <3> QED BY <3>1, <3>2
  <2>5. ASSUME NEW j \in DOMAIN q PROVE \E k \in DOMAIN s : s[k] = q[j]
    <3>1. j + 1 \in 2..Len(q) + 1 /\ j + 1 \in DOMAIN s /\ j + 1 - 1 = j
      BY <2>2
    <3>2. s[j + 1] = q[j]
      BY <3>1, <2>3
    <3> QED BY <3>1, <3>2
  <2>6. 1 \in DOMAIN s
    BY <2>2
  <2> QED BY <2>1, <2>3, <2>4, <2>5, <2>6
<1> QED BY <1>1, <1>2

LEMMA FinishStep ==
  ASSUME LearningInv, Alone, NEW h \in Hosts, Finish(h)
  PROVE  LearningInv'
<1> DEFINE i == host[h].item
           places == {k \in DOMAIN items : ~(items[k].task = i.task /\ Running(items[k]))}
           rest == Those(items, places)
           again == [i EXCEPT !.status = "pending"]
           keep == host[h].learned \/ (~host[h].aborted /\ i.attempts >= MaxAttempts)
           front == [again EXCEPT !.attempts = @ - 1]
<1>0. /\ items \in Seq(LearningItems) /\ history \in Seq(LearnedTasks) /\ host[h] \in LearningHosts
      /\ host[h].boot = "up" /\ Learning(h) /\ queued \in [Tasks -> SUBSET Nat]
  BY LoopIsUp DEF LearningInv, LearningTypeOK, Finish, Learning
<1>1. /\ UNCHANGED <<worker, queued>> /\ Goto(h, "look")
      /\ history' = IF keep THEN Append(history, Entry(i)) ELSE history
      /\ Save(IF keep THEN rest ELSE IF host[h].aborted THEN <<front>> \o rest ELSE Append(rest, again))
  BY DEF Finish
<1>2. i \in LearningItems /\ Sound(queued, i)
  BY <1>0 DEF LearningInv, HostsWork, LearningHosts
<1>3. \A k \in DOMAIN items : Running(items[k]) => SameTurns(items[k], i)
  BY <1>0 DEF LearningInv, RunningIsMine
<1>4. \A k \in DOMAIN items : k \in places => ~Running(items[k])
  BY <1>3 DEF SameTurns
<1>5. \A k \in DOMAIN items : k \notin places => SameTurns(items[k], i)
  BY <1>3
<1>6. /\ rest \in Seq(LearningItems)
      /\ \A k \in DOMAIN rest : \E j \in places : rest[k] = items[j]
      /\ \A j \in places : \E k \in DOMAIN rest : rest[k] = items[j]
  <2>1. places \in SUBSET DOMAIN items
    OBVIOUS
  <2> HIDE DEF places
  <2> QED BY <2>1, <1>0, MembersOfThose
<1>7. PICK q \in LearningHosts : Set(h, q) /\ q.boot = "up" /\ q.loop = "look"
  BY <1>0, <1>1, GotoIs DEF Loops
<1>8. \A g \in Hosts : g # h => host[g].boot = "down"
  BY <1>0, OnlyMe
<1>9. /\ again \in LearningItems /\ SameTurns(again, i) /\ ~Running(again)
      /\ front \in LearningItems /\ SameTurns(front, i) /\ ~Running(front)
  <2> HIDE DEF i
  <2>1. again \in LearningItems /\ SameTurns(again, i) /\ again.status = "pending"
    BY <1>2 DEF LearningItems, SameTurns, Statuses
  <2> HIDE DEF again
  <2>2. again.attempts - 1 \in Int
    BY <2>1 DEF LearningItems
  <2>3. front \in LearningItems /\ SameTurns(front, again) /\ front.status = "pending"
    BY <2>1, <2>2 DEF LearningItems, SameTurns
  <2> QED BY <2>1, <2>3 DEF SameTurns, Running
<1>10. places \subseteq DOMAIN items
  OBVIOUS
<1> HIDE DEF places, rest, again, front
(* What both outcomes have in common. *)
<1>11. ASSUME NEW s \in Seq(LearningItems), Save(s),
              \A k \in DOMAIN s : (s[k] \in LearningItems /\ SameTurns(s[k], i) /\ ~Running(s[k])) \/ \E j \in places : s[k] = items[j],
              \A j \in places : \E k \in DOMAIN s : s[k] = items[j],
              history' \in Seq(LearnedTasks),
              \A k \in DOMAIN history' : history'[k] = Entry(i) \/ \E j \in DOMAIN history : history'[k] = history[j],
              \A j \in DOMAIN history : \E k \in DOMAIN history' : history'[k] = history[j],
              (\E k \in DOMAIN history' : history'[k] = Entry(i)) \/ (\E k \in DOMAIN s : SameTurns(s[k], i))
       PROVE  LearningInv'
  <2>1. /\ queued' \in [Tasks -> SUBSET Nat]
        /\ \A t \in Tasks : \A n \in queued'[t] : n <= MaxTurn[t]
    BY <1>1, <1>0 DEF LearningInv, QueuedBefore
  <2>2. \A j \in DOMAIN s : Sound(queued', s[j])
    <3> TAKE j \in DOMAIN s
    <3>1. CASE SameTurns(s[j], i)
      BY <3>1, <1>1, <1>2 DEF Sound, SameTurns
    <3>2. CASE \E k \in places : s[j] = items[k]
      BY <3>2, <1>1, <1>10 DEF LearningInv, QueuedBefore
    <3> QED BY <3>1, <3>2, <1>11
  <2>3. \A k \in DOMAIN history' : history'[k].task \in Tasks /\ history'[k].through \in queued'[history'[k].task]
    <3>1. Entry(i).task \in Tasks /\ Entry(i).through \in queued[Entry(i).task]
      BY <1>2 DEF Entry, Sound
    <3>2. \A k \in DOMAIN history : history[k].task \in Tasks /\ history[k].through \in queued[history[k].task]
      BY DEF LearningInv, QueuedBefore
    <3> QED BY <3>1, <3>2, <1>1, <1>11
  <2>4. ASSUME NEW t \in Tasks, NEW n \in queued'[t]
        PROVE  \/ <<t, n>> \in dropped
               \/ \E j \in DOMAIN s : Covers(s[j], t, n)
               \/ \E k \in DOMAIN history' : Has(history'[k], t, n)
    <3>1. \/ <<t, n>> \in dropped
          \/ \E k \in DOMAIN items : Covers(items[k], t, n)
          \/ \E k \in DOMAIN history : Has(history[k], t, n)
      BY <1>1, TurnsKeptIs DEF LearningInv
    <3>2. ASSUME NEW k \in DOMAIN items, Covers(items[k], t, n)
          PROVE  \/ \E j \in DOMAIN s : Covers(s[j], t, n)
                 \/ \E j \in DOMAIN history' : Has(history'[j], t, n)
      <4>1. CASE k \in places
        <5>1. PICK j \in DOMAIN s : s[j] = items[k]
          BY <4>1, <1>11
        <5> QED BY <5>1, <3>2
      <4>2. CASE k \notin places
        <5>1. Covers(i, t, n)
          BY <4>2, <3>2, <1>5 DEF SameTurns, Covers
        <5>2. Has(Entry(i), t, n)
          BY <5>1 DEF Covers, Has, Entry
        <5>3. \A j \in DOMAIN s : SameTurns(s[j], i) => Covers(s[j], t, n)
          BY <5>1 DEF SameTurns, Covers
        <5> QED BY <5>2, <5>3, <1>11
      <4> QED BY <4>1, <4>2
    <3>3. ASSUME NEW k \in DOMAIN history, Has(history[k], t, n)
          PROVE  \E j \in DOMAIN history' : Has(history'[j], t, n)
      <4>1. PICK j \in DOMAIN history' : history'[j] = history[k]
        BY <1>11
      <4> QED BY <4>1, <3>3
    <3> QED BY <3>1, <3>2, <3>3
  <2>5. /\ items' \in Seq(LearningItems) /\ QueuedBefore' /\ TurnsKept'
        /\ \A k \in DOMAIN items' : \E j \in DOMAIN s : items'[k] = s[j]
    BY <1>11, <2>1, <2>2, <2>3, <2>4, QueueStep
  <2>6. \A k \in DOMAIN items' : ~Running(items'[k])
    <3>1. \A j \in DOMAIN s : ~Running(s[j])
      BY <1>4, <1>10, <1>11
    <3> QED BY <3>1, <2>5
  <2> QED BY <1>0, <1>1, <1>7, <1>8, <1>11, <2>5, <2>6, HostStep DEF Holds
<1>12. CASE keep
  <2>1. Save(rest) /\ history' = Append(history, Entry(i))
    BY <1>1, <1>12
  <2>2. Entry(i) \in LearnedTasks
    BY <1>2 DEF Entry, LearnedTasks, LearningItems
  <2>3. /\ history' \in Seq(LearnedTasks)
        /\ \A k \in DOMAIN history' : history'[k] = Entry(i) \/ \E j \in DOMAIN history : history'[k] = history[j]
        /\ \A j \in DOMAIN history : \E k \in DOMAIN history' : history'[k] = history[j]
        /\ \E k \in DOMAIN history' : history'[k] = Entry(i)
    BY <1>0, <2>1, <2>2, OneMore
  <2> QED BY <1>6, <1>11, <2>1, <2>3
<1>13. CASE ~keep
  <2>1. history' = history
    BY <1>1, <1>13
  <2>2. PICK x : /\ x = again \/ x = front
                 /\ Save(Append(rest, x)) \/ Save(<<x>> \o rest)
    BY <1>1, <1>13
  <2>3. x \in LearningItems /\ SameTurns(x, i) /\ ~Running(x)
    BY <1>9, <2>2
  <2>4. PICK s : (s = Append(rest, x) \/ s = <<x>> \o rest) /\ Save(s)
    BY <2>2
  <2>5. /\ s \in Seq(LearningItems)
        /\ \A k \in DOMAIN s : s[k] = x \/ \E j \in DOMAIN rest : s[k] = rest[j]
        /\ \A j \in DOMAIN rest : \E k \in DOMAIN s : s[k] = rest[j]
        /\ \E k \in DOMAIN s : s[k] = x
    BY <1>6, <2>3, <2>4, OneMore
  <2>6. /\ \A k \in DOMAIN s : s[k] = x \/ \E j \in places : s[k] = items[j]
        /\ \A j \in places : \E k \in DOMAIN s : s[k] = items[j]
    BY <1>6, <2>5
  <2> QED BY <1>0, <1>11, <2>1, <2>3, <2>4, <2>5, <2>6
<1> QED BY <1>12, <1>13

LEMMA LatestIs ==
  ASSUME LearningInv, NEW t \in Tasks
  PROVE  Latest(t) \in Nat /\ \A n \in queued[t] : n <= Latest(t)
<1> DEFINE T == {0} \cup queued[t]
<1>1. T \subseteq Nat /\ T # {} /\ MaxTurn[t] \in Nat /\ \A n \in T : n <= MaxTurn[t]
  BY LearningAssumption DEF LearningInv, LearningTypeOK, QueuedBefore
<1>2. Max(T) \in T /\ \A m \in T : m <= Max(T)
  BY <1>1, MaxOf
<1> QED BY <1>1, <1>2 DEF Latest

LEMMA LearnedIs ==
  ASSUME LearningInv, NEW t \in Tasks
  PROVE  Learned(t) \in Nat /\ Learned(t) <= Latest(t)
<1> DEFINE T == {0} \cup {e.through : e \in {x \in ToSet(history) : x.task = t}}
<1>1. \A e \in ToSet(history) : e.task = t => e.through \in queued[t]
  BY DEF ToSet, LearningInv, QueuedBefore
<1>2. queued[t] \subseteq Nat
  BY DEF LearningInv, LearningTypeOK
<1>3. \A n \in T : n \in Nat /\ n <= Latest(t)
  BY <1>1, <1>2, LatestIs
<1>4. T \subseteq Nat /\ T # {} /\ Latest(t) \in Nat
  BY <1>3, LatestIs
<1>5. Max(T) \in T
  BY <1>3, <1>4, MaxOf
<1> HIDE DEF T
<1>6. Max(T) \in Nat /\ Max(T) <= Latest(t)
  BY <1>3, <1>5
<1> QED BY <1>6 DEF Learned, T

LEMMA FromIs ==
  ASSUME LearningInv, NEW t \in Tasks
  PROVE  /\ FromTurn(t) \in Nat /\ FromTurn(t) <= Latest(t) + 1
         /\ WaitingOf(t) > 0 => FromTurn(t) = items[WaitingOf(t)].from
<1>0. items \in Seq(LearningItems)
  BY DEF LearningInv, LearningTypeOK
<1>1. ASSUME NEW k \in DOMAIN items, items[k].task = t
      PROVE  /\ items[k].from \in Nat /\ items[k].turn \in Nat
             /\ items[k].from <= items[k].turn /\ items[k].turn <= Latest(t)
  <2>1. items[k] \in LearningItems /\ Sound(queued, items[k])
    BY <1>0 DEF LearningInv, QueuedBefore
  <2> QED BY <1>1, <2>1, LatestIs DEF Sound, LearningItems
<1>2. Latest(t) \in Nat /\ Learned(t) \in Nat /\ Learned(t) <= Latest(t)
  BY LatestIs, LearnedIs
<1>3. CASE WaitingOf(t) > 0
  <2>1. WaitingOf(t) \in DOMAIN items /\ items[WaitingOf(t)].task = t
    BY <1>0, <1>3, WaitingFound
  <2>2. FromTurn(t) = items[WaitingOf(t)].from
    BY <1>3 DEF FromTurn
  <2> HIDE DEF WaitingOf
  <2>3. items[WaitingOf(t)].from \in Nat /\ items[WaitingOf(t)].from <= Latest(t)
    BY <2>1, <1>1, <1>2
  <2> QED BY <2>2, <2>3, <1>2
<1>4. CASE ~(WaitingOf(t) > 0) /\ RunningOf(t) > 0
  <2>1. RunningOf(t) \in DOMAIN items /\ items[RunningOf(t)].task = t
    BY <1>0, <1>4, RunningFound
  <2>2. FromTurn(t) = items[RunningOf(t)].turn + 1
    BY <1>4 DEF FromTurn
  <2>3. items[RunningOf(t)].turn \in Nat /\ items[RunningOf(t)].turn <= Latest(t)
    BY <2>1, <1>1
  <2> QED BY <2>2, <2>3, <1>2, <1>4
<1>5. CASE ~(WaitingOf(t) > 0) /\ ~(RunningOf(t) > 0)
  <2>1. FromTurn(t) = Learned(t) + 1
    BY <1>5 DEF FromTurn
  <2> QED BY <2>1, <1>2, <1>5
<1> QED BY <1>3, <1>4, <1>5

LEMMA TurnEndsStep ==
  ASSUME LearningInv, Alone, NEW h \in Hosts, NEW t \in Tasks, TurnEnds(h, t)
  PROVE  LearningInv'
<1> DEFINE r == [host[h] EXCEPT !.kicks = TRUE]
<1>0. /\ items \in Seq(LearningItems) /\ history \in Seq(LearnedTasks) /\ host[h] \in LearningHosts
      /\ host[h].boot = "up" /\ queued \in [Tasks -> SUBSET Nat]
  BY DEF LearningInv, LearningTypeOK, TurnEnds
<1>1. PICK n \in Latest(t) + 1..MaxTurn[t] : EnqueueItem(t, n) /\ queued' = [queued EXCEPT ![t] = @ \cup {n}]
  BY DEF TurnEnds
<1>2. Set(h, r) /\ UNCHANGED <<history, worker>>
  BY DEF TurnEnds
<1>3. n \in Nat /\ n > Latest(t) /\ n <= MaxTurn[t] /\ Latest(t) \in Nat
  BY LatestIs, LearningAssumption
<1>4. ~(n <= Learned(t) \/ n < FromTurn(t)) /\ FromTurn(t) \in Nat /\ FromTurn(t) <= n
  BY <1>3, LatestIs, LearnedIs, FromIs
<1> DEFINE w == WaitingOf(t)
           rest == IF w > 0 THEN RemoveAt(items, w) ELSE items
           new == [task |-> t, from |-> FromTurn(t), turn |-> n, status |-> "pending", attempts |-> 0]
           s == Append(rest, new)
<1>5. Save(s)
  BY <1>1, <1>4 DEF EnqueueItem
<1>6. new \in LearningItems /\ new.task = t /\ new.from = FromTurn(t) /\ new.turn = n /\ ~Running(new)
  BY <1>3, <1>4 DEF LearningItems, Statuses, Running
<1>7. w = 0 \/ (w \in DOMAIN items /\ w > 0 /\ items[w].task = t)
  BY <1>0, WaitingFound
<1>8. w > 0 => FromTurn(t) = items[w].from
  BY FromIs
<1> HIDE DEF w, new
<1>9. /\ rest \in Seq(LearningItems)
      /\ \A k \in DOMAIN rest : \E j \in DOMAIN items : rest[k] = items[j]
      /\ \A j \in DOMAIN items : j # w => \E k \in DOMAIN rest : rest[k] = items[j]
  <2>1. CASE w > 0
    BY <2>1, <1>0, <1>7, Removed
  <2>2. CASE ~(w > 0)
    BY <2>2, <1>0
  <2> QED BY <2>1, <2>2
<1> HIDE DEF rest
<1>10. /\ s \in Seq(LearningItems)
       /\ \A k \in DOMAIN s : s[k] = new \/ \E j \in DOMAIN rest : s[k] = rest[j]
       /\ \A j \in DOMAIN rest : \E k \in DOMAIN s : s[k] = rest[j]
       /\ \E k \in DOMAIN s : s[k] = new
  BY <1>6, <1>9, OneMore
<1> HIDE DEF s
<1>11. /\ \A k \in DOMAIN s : s[k] = new \/ \E j \in DOMAIN items : s[k] = items[j]
       /\ \A j \in DOMAIN items : j # w => \E k \in DOMAIN s : s[k] = items[j]
  BY <1>9, <1>10
<1>12. /\ queued' \in [Tasks -> SUBSET Nat]
       /\ \A u \in Tasks : queued'[u] = IF u = t THEN queued[u] \cup {n} ELSE queued[u]
  BY <1>0, <1>1, <1>3
<1>13. \A u \in Tasks : \A m \in queued'[u] : m <= MaxTurn[u]
  BY <1>3, <1>12 DEF LearningInv, QueuedBefore
<1>14. ASSUME NEW i, Sound(queued, i) PROVE Sound(queued', i)
  BY <1>12, <1>14 DEF Sound
<1>15. \A j \in DOMAIN s : Sound(queued', s[j])
  <2>1. Sound(queued', new)
    BY <1>4, <1>6, <1>12 DEF Sound
  <2>2. \A j \in DOMAIN items : Sound(queued', items[j])
    BY <1>14 DEF LearningInv, QueuedBefore
  <2> QED BY <2>1, <2>2, <1>11
<1>16. \A k \in DOMAIN history' : history'[k].task \in Tasks /\ history'[k].through \in queued'[history'[k].task]
  BY <1>2, <1>12 DEF LearningInv, QueuedBefore
<1>17. ASSUME NEW u \in Tasks, NEW m \in queued'[u]
       PROVE  \/ <<u, m>> \in dropped
              \/ \E j \in DOMAIN s : Covers(s[j], u, m)
              \/ \E k \in DOMAIN history' : Has(history'[k], u, m)
  <2>1. CASE u = t /\ m = n
    <3>1. Covers(new, u, m)
      BY <2>1, <1>3, <1>4, <1>6 DEF Covers
    <3> QED BY <3>1, <1>10
  <2>2. CASE ~(u = t /\ m = n)
    <3>1. m \in queued[u]
      BY <2>2, <1>12
    <3>2. \/ <<u, m>> \in dropped
          \/ \E k \in DOMAIN items : Covers(items[k], u, m)
          \/ \E k \in DOMAIN history : Has(history[k], u, m)
      BY <3>1, TurnsKeptIs DEF LearningInv
    <3>3. ASSUME NEW k \in DOMAIN items, Covers(items[k], u, m)
          PROVE  \E j \in DOMAIN s : Covers(s[j], u, m)
      <4>1. CASE k # w
        BY <4>1, <3>3, <1>11
      <4>2. CASE k = w
        <5>1. w > 0 /\ items[w].task = t /\ new.from = items[w].from
          BY <4>2, <3>3, <1>0, <1>6, <1>7, <1>8
        <5>2. u = t /\ m \in items[w].from..items[w].turn
          BY <5>1, <4>2, <3>3 DEF Covers
        <5>3. items[w] \in LearningItems /\ Sound(queued, items[w])
          BY <4>2, <3>3, <1>0 DEF LearningInv, QueuedBefore
        <5>4. items[w].turn <= n /\ items[w].turn \in Nat /\ items[w].from \in Nat
          BY <5>1, <5>3, <1>3, LatestIs DEF Sound, LearningItems
        <5>5. m \in new.from..new.turn
          BY <5>1, <5>2, <5>4, <1>3, <1>6
        <5> QED BY <5>2, <5>5, <1>6, <1>10 DEF Covers
      <4> QED BY <4>1, <4>2
    <3> QED BY <3>2, <3>3, <1>2
  <2> QED BY <2>1, <2>2
<1>18. /\ items' \in Seq(LearningItems) /\ QueuedBefore' /\ TurnsKept'
       /\ \A k \in DOMAIN items' : \E j \in DOMAIN s : items'[k] = s[j]
  BY <1>5, <1>10, <1>12, <1>13, <1>15, <1>16, <1>17, QueueStep
<1>19. r \in LearningHosts /\ r.boot = "up" /\ r.loop = host[h].loop /\ r.item = host[h].item
  BY <1>0 DEF LearningHosts
<1> HIDE DEF r
<1>20. \A k \in DOMAIN items' : Running(items'[k]) => Mine(r, items'[k])
  <2>1. \A k \in DOMAIN items : Running(items[k]) => Mine(r, items[k])
    BY <1>0, <1>19 DEF LearningInv, RunningIsMine, Mine, Learning
  <2>2. \A j \in DOMAIN s : Running(s[j]) => Mine(r, s[j])
    BY <2>1, <1>6, <1>11
  <2> QED BY <2>2, <1>18
<1>21. worker' = h => Holds(r)
  BY <1>0, <1>2, <1>19 DEF LearningInv, HostsWork, Holds
<1>22. r.loop \in {"learning", "finish"} => Sound(queued', r.item)
  BY <1>14, <1>19 DEF LearningInv, HostsWork, Learning
<1>23. \A g \in Hosts : g # h => host[g].boot = "down"
  BY <1>0, OnlyMe
<1>24. history' \in Seq(LearnedTasks) /\ \A u \in Tasks : queued[u] \subseteq queued'[u]
  BY <1>0, <1>2, <1>12
<1> QED BY <1>2, <1>12, <1>18, <1>19, <1>20, <1>21, <1>22, <1>23, <1>24, HostStep

-----------------------------------------------------------------------------
LEMMA LearningStarts ==
  LearningInit => LearningInv
<1> SUFFICES ASSUME LearningInit PROVE LearningInv
  OBVIOUS
<1>1. items = <<>> /\ history = <<>> /\ worker = "none" /\ host = [h \in Hosts |-> Down] /\ queued = [t \in Tasks |-> {}]
  BY DEF LearningInit
<1>2. LearningTypeOK
  BY <1>1, DownIs DEF LearningTypeOK
<1>3. QueuedBefore /\ TurnsKept
  BY <1>1 DEF QueuedBefore, TurnsKept
<1>4. HostsWork /\ RunningIsMine
  BY <1>1, DownIs, LearningAssumption DEF HostsWork, RunningIsMine, Learning
<1> QED BY <1>2, <1>3, <1>4 DEF LearningInv

LEMMA LearningSteps ==
  LearningInv /\ Alone /\ Alone' /\ [LearningNext]_learningVars => LearningInv'
<1> SUFFICES ASSUME LearningInv, Alone, Alone', [LearningNext]_learningVars PROVE LearningInv'
  OBVIOUS
<1>1. CASE Allow \/ UNCHANGED learningVars
  <2>1. UNCHANGED <<items, history, worker, host, queued, dropped>>
    BY <1>1 DEF Allow, learningVars, queueFile
  <2> QED BY <2>1 DEF LearningInv, LearningTypeOK, QueuedBefore, HostsWork, RunningIsMine, TurnsKept, Learning
<1>2. ASSUME NEW h \in Hosts, Start(h) PROVE LearningInv'
  BY <1>2, StartSteps, ResetStep DEF Start
<1>3. ASSUME NEW h \in Hosts, Loop(h) PROVE LearningInv'
  BY <1>3, KickedStep, LoopSteps, NoBudgetStep, ClaimStep, FinishStep, EndSteps DEF Loop
<1>4. ASSUME NEW h \in Hosts, Stop(h) \/ Exit(h) \/ Crash(h) PROVE LearningInv'
  BY <1>4, EndSteps
<1>5. ASSUME NEW h \in Hosts, NEW t \in Tasks, TurnEnds(h, t) PROVE LearningInv'
  BY <1>5, TurnEndsStep
<1> QED BY <1>1, <1>2, <1>3, <1>4, <1>5 DEF LearningNext

(* What host.ts and queue.ts keep while one process at a time has the      *)
(* project open: the worker's lock, the item it learns from, the turns.    *)
THEOREM LearningInvariant == LearningSpec /\ []Alone => []LearningInv
<1>1. LearningInit => LearningInv
  BY LearningStarts
<1>2. LearningInv /\ Alone /\ Alone' /\ [LearningNext]_learningVars => LearningInv'
  BY LearningSteps
<1> QED BY <1>1, <1>2, PTL DEF LearningSpec

(* enqueueItem, #claim, #finish, start: while one process at a time has    *)
(* the project open, no queued turn is lost, whatever crashes or fails,    *)
(* except the turns of the items that a full queue drops.                  *)
THEOREM NoTurnIsLost == LearningSpec /\ []Alone => []TurnsKept
<1>1. LearningInv => TurnsKept
  BY DEF LearningInv
<1> QED BY <1>1, LearningInvariant, PTL
====
