------------------------------- MODULE Rewind -------------------------------
(***************************************************************************)
(* Which files a turn changed, what they were before it, and how a user    *)
(* takes them back: the snapshot of every root turn (LocalTaskRecorder of  *)
(* src/packages/tasking/src/task-records.ts), the turn's list of files     *)
(* (LocalTurnFileTracker of turn-files.ts), planRewind and applyRewind of  *)
(* rewind.ts, as the root turns of the sessions of one project (kernel/    *)
(* src/agent.ts) and sessions.rewind (sdk/src/sdk.ts) call them.           *)
(*                                                                         *)
(* The project is the sequence of what was written to its files: the       *)
(* content of a file is named by the write that made it, Original is what  *)
(* a file had at first, and an object of the store has the name of its     *)
(* content.  now is a clock so coarse that CLOCK_SKEW_MS, RACY_WINDOW_MS   *)
(* and the grain of the time stamps of files all lie within one tick.      *)
(***************************************************************************)
EXTENDS Naturals, Sequences, FiniteSets

CONSTANTS
  Sessions,  \* root sessions of the project, all in one process
  Files,     \* project files
  AtFirst,   \* those that exist at first
  Requests,  \* calls of sessions.rewind that can be under way
  Budgets    \* bounds a behaviour may have: see bounds

None == "none"

ASSUME RewindAssumption ==
  /\ None \notin Sessions /\ "user" \notin Sessions /\ AtFirst \subseteq Files /\ "large" \notin Files
  /\ Budgets \subseteq [sessions : Nat, turns : Nat, calls : Nat, edits : Nat, rewinds : Nat, ticks : Nat,
                         ages : Nat, faults : Nat, deaths : Nat]

Gone == 0
Original == 1

VARIABLES
  writes,    \* what was written to the files
  now,       \* the clock
  session,   \* session[s]: its turn, with what the tracker keeps of it (OpenTurn)
  call,      \* call[s]: the file and the kind of the tool that runs
  changes,   \* changes[s][t]: the paths of turn.files, and whether it was written with all
  owners,    \* owners[f]: who a write tool reported f for, and when
  snap,      \* snap[s]: where the snapshot of the turn is
  store,     \* .nexgent/snapshots: objects, trees, records and the index
  rewind,    \* rewind[q]: a sessions.rewind under way
  bounds,    \* turns, calls, ... left
  lost,      \* objects and trees swept while a snapshot counted on them
  dropped    \* dropped[s]: files whose owner was forgotten while the turn of s was about to look

rewindVars == <<writes, now, session, call, changes, owners, snap, store, rewind, bounds, lost, dropped>>
tracker == <<session, changes, owners, dropped>>

Spend(what) == bounds[what] > 0 /\ bounds' = [bounds EXCEPT ![what] = @ - 1]
-----------------------------------------------------------------------------
(* The files after the first n writes. *)
Of(f) == {i \in DOMAIN writes : writes[i].file = f}
Last(f, n) ==
  IF \E i \in Of(f) : i <= n THEN CHOOSE i \in Of(f) : i <= n /\ \A j \in Of(f) : j <= n => j <= i ELSE 0
Body(f, n) ==
  IF Last(f, n) > 0 THEN writes[Last(f, n)].body ELSE IF f \in AtFirst THEN Original ELSE Gone
Stamp(f, n) == IF Last(f, n) > 0 THEN writes[Last(f, n)].at ELSE 0
Here == Len(writes)
Exists(f) == Body(f, Here) # Gone

Reading == {s \in Sessions : snap[s].at \in {"storing", "stored"}}
(* A snapshot may take this write for what was there before it: a second   *)
(* one in a tick, after a snapshot saw the first, or a rewind in the       *)
(* middle of a turn of its session.                                        *)
Blurs(f, by, kind) ==
  \/ \E o \in Reading : Stamp(f, snap[o].seen) = now
  \/ kind = "rewind" /\ session[by].at # "idle"
Written(f, by, kind, body) ==
  writes' = Append(writes,
    [file |-> f, by |-> by, kind |-> kind, body |-> body, at |-> now,
     turn |-> IF by \in Sessions THEN session[by].turn ELSE 0,
     told |-> 0, blurs |-> Blurs(f, by, kind),
     unknown |-> by \in Sessions /\ body = Gone /\ f \notin session[by].baseline])
NewBody == Here + 2
-----------------------------------------------------------------------------
Closed(t, k) ==
  [at |-> "idle", turn |-> t, opened |-> k, started |-> 0, begun |-> 0, baseline |-> {}, touched |-> {},
   shell |-> FALSE]
NoCall == [kind |-> None]
NoOwner == [by |-> None, at |-> 0]
NoSnap == [at |-> "none"]
NoRewind == [at |-> "none"]
NoIndex == [at |-> 0, files |-> <<>>]
NoTree == [large |-> TRUE]
Nothing == [objects |-> {}, trees |-> {}]

(* A project without snapshots, or with one of a session long gone; since  *)
(* then, but within the grain of the clock, the user may have written to a *)
(* file the snapshot had read.                                             *)
TreeOf(n) == [f \in {g \in Files : Body(g, n) # Gone} |-> Body(f, n)]
NoStore == [objects |-> {}, trees |-> {}, fresh |-> Nothing, records |-> {}, index |-> NoIndex]
PastTree == [f \in AtFirst |-> Original]
PastStore(stamp) ==
  [objects |-> {Original}, trees |-> {PastTree}, fresh |-> Nothing,
   records |-> {[by |-> None, turn |-> 1, taken |-> 0, tree |-> PastTree, seen |-> 0, started |-> 0]},
   index |-> [at |-> 1, files |-> [f \in AtFirst |-> [stamp |-> stamp, body |-> Original]]]]

PastEdit(f) ==
  [file |-> f, by |-> "user", kind |-> "user", body |-> 2, at |-> 1, turn |-> 0, told |-> 0, blurs |-> FALSE,
   unknown |-> FALSE]

RewindInit ==
  /\ \/ writes = <<>> /\ store \in {NoStore, PastStore(0)}
     \/ \E f \in AtFirst : writes = <<PastEdit(f)>> /\ store = PastStore(1)
  /\ now = 2
  /\ session = [s \in Sessions |-> Closed(0, 0)] /\ call = [s \in Sessions |-> NoCall]
  /\ changes = [s \in Sessions |-> <<>>] /\ owners = [f \in Files |-> NoOwner]
  /\ snap = [s \in Sessions |-> NoSnap]
  /\ rewind = [q \in Requests |-> NoRewind] /\ bounds \in Budgets /\ lost = Nothing
  /\ dropped = [s \in Sessions |-> {}]
-----------------------------------------------------------------------------
(* The turn: beginTaskRecord, beginFiles.  The baseline is the index that  *)
(* the snapshots before this one left (indexedPaths).                      *)
Indexed == DOMAIN store.index.files
BeginTurn(s) ==
  /\ session[s].at = "idle" /\ Spend("turns")
  /\ Cardinality({s} \cup {o \in Sessions : session[o].turn > 0}) <= bounds.sessions
  /\ session' = [session EXCEPT ![s] = [Closed(@.turn + 1, @.opened) EXCEPT
                                 !.at = "open", !.started = now, !.begun = Here, !.baseline = Indexed]]
  /\ snap' = [snap EXCEPT ![s] = [at |-> "waiting"]]
  /\ UNCHANGED <<writes, now, call, changes, owners, dropped, store, rewind, lost>>

(* begin: walk the project, read the index and list the objects. *)
ListFiles(s) ==
  /\ snap[s].at = "waiting"
  /\ snap' = [snap EXCEPT ![s] =
       [at |-> "storing", seen |-> Here, objects |-> store.objects, index |-> store.index, tree |-> << >>]]
  /\ UNCHANGED <<writes, now, tracker, call, store, rewind, bounds, lost>>
(* The project is larger than maxSnapshotBytes: a record without a tree. *)
TooLarge(s) ==
  /\ snap[s].at = "waiting" /\ Spend("faults")
  /\ snap' = [snap EXCEPT ![s] = [at |-> "stored", seen |-> Here, objects |-> {}, tree |-> NoTree]]
  /\ UNCHANGED <<writes, now, tracker, call, store, rewind, lost>>

Walked(s) == DOMAIN TreeOf(snap[s].seen)

(* Mutant: no racy window, so that a file changed after it was read may    *)
(* have the stamp the index has.                                           *)
KnownByStamp(s, f) ==
  LET i == snap[s].index
  IN  /\ f \in DOMAIN i.files
      /\ i.files[f].stamp = Stamp(f, snap[s].seen) /\ i.files[f].body \in snap[s].objects

(* Whether the index says what is in a file (storeTree). *)
Known(s, f) ==
  LET i == snap[s].index
  IN  /\ f \in DOMAIN i.files
      /\ i.files[f].stamp = Stamp(f, snap[s].seen) /\ i.files[f].stamp < i.at
      /\ i.files[f].body \in snap[s].objects

Picked(s, f, body) ==
  snap' = [snap EXCEPT ![s].tree = [g \in {f} \cup DOMAIN @ |-> IF g = f THEN body ELSE @[g]]]
StoreFile(s, f) ==
  LET body == IF Known(s, f) THEN snap[s].index.files[f].body ELSE Body(f, Here)
  IN  /\ snap[s].at = "storing" /\ f \in Walked(s) \ DOMAIN snap[s].tree
      /\ body # Gone /\ Picked(s, f, body)
      /\ IF body \in snap[s].objects \cup store.objects THEN UNCHANGED <<store, lost>>
         ELSE /\ store' = [store EXCEPT !.objects = @ \cup {body}, !.fresh.objects = @ \cup {body}]
              /\ lost' = [lost EXCEPT !.objects = @ \ {body}]
      /\ UNCHANGED <<writes, now, tracker, call, rewind, bounds>>
(* A file is gone when it is read: the turn goes on without a snapshot. *)
SnapshotFails(s) ==
  /\ snap[s].at = "storing"
  /\ \E f \in Walked(s) \ DOMAIN snap[s].tree : ~Known(s, f) /\ ~Exists(f)
  /\ snap' = [snap EXCEPT ![s] = [at |-> "failed"]]
  /\ UNCHANGED <<writes, now, tracker, call, store, rewind, bounds, lost>>
StoreTree(s) ==
  /\ snap[s].at = "storing" /\ DOMAIN snap[s].tree = Walked(s)
  /\ LET tree == snap[s].tree
         new == {tree} \ store.trees
     IN  /\ store' = [store EXCEPT !.trees = @ \cup new, !.fresh.trees = @ \cup new,
                        !.index = [at |-> now, files |-> [f \in Walked(s) |->
                                     [stamp |-> Stamp(f, snap[s].seen), body |-> tree[f]]]]]
         /\ lost' = [lost EXCEPT !.trees = @ \ new]
  /\ snap' = [snap EXCEPT ![s].at = "stored"]
  /\ UNCHANGED <<writes, now, tracker, call, rewind, bounds>>
Taken(records) == {r.taken : r \in records}
WriteRecord(s) ==
  LET newest == CHOOSE n \in {0} \cup Taken(store.records) : \A m \in Taken(store.records) : m <= n
      new == [by |-> s, turn |-> session[s].turn, taken |-> newest + 1,
              tree |-> snap[s].tree, seen |-> snap[s].seen, started |-> session[s].started]
  IN  /\ snap[s].at = "stored"
      /\ store' = [store EXCEPT !.records = @ \cup {new}]
      /\ snap' = [snap EXCEPT ![s] = [at |-> "pruning", records |-> store.records \cup {new}, index |-> store.index]]
      /\ UNCHANGED <<writes, now, tracker, call, rewind, bounds, lost>>

(* prune: what is too old and, over the size cap, the oldest; never what   *)
(* the task itself has, which is the session since it was opened.  Then    *)
(* trees and objects that no record needs and that are older than the      *)
(* grace.  When it looks at the size it writes the time of that into the   *)
(* index as it had read it, over one that was stored since.                *)
OfTask(s, r) == r.by = s /\ r.turn > session[s].opened
Bodies(tree) == IF tree = NoTree THEN {} ELSE {tree[f] : f \in DOMAIN tree}
Trees(records) == {r.tree : r \in records} \ {NoTree}
Objects(records) == UNION {Bodies(t) : t \in Trees(records) \cap store.trees}
(* What the snapshots beside s count on: they found it when they listed    *)
(* the objects, or their record came after s had listed the records.       *)
Late(s) == store.records \ snap[s].records
TreesInUse(s) == Trees(Late(s)) \cup {snap[o].tree : o \in {x \in Sessions \ {s} : snap[x].at = "stored"}}
ObjectsInUse(s) ==
  (UNION {Bodies(t) : t \in Trees(Late(s))}) \cup
  (UNION {snap[o].objects \cup Bodies(snap[o].tree) : o \in Reading \ {s}})

(* Mutant: without the grace. *)
SweptAtOnce(records) == [trees |-> store.trees \ Trees(records), objects |-> store.objects \ Objects(records)]

Swept(records) ==
  [trees |-> store.trees \ (store.fresh.trees \cup Trees(records)),
   objects |-> store.objects \ (store.fresh.objects \cup Objects(records))]
Sweep(s, swept) ==
  lost' = [trees |-> lost.trees \cup ((swept.trees \cap TreesInUse(s)) \ store.fresh.trees),
           objects |-> lost.objects \cup ((swept.objects \cap ObjectsInUse(s)) \ store.fresh.objects)]
Indexes(s) == {store.index} \cup ({snap[s].index} \ {NoIndex})
Without(swept, doomed, index) ==
  store' = [store EXCEPT !.records = @ \ doomed, !.trees = @ \ swept.trees, !.objects = @ \ swept.objects,
                         !.index = index]
Prune(s) ==
  /\ snap[s].at = "pruning"
  /\ \E cut \in {0} \cup Taken(snap[s].records), index \in Indexes(s) :
       LET doomed == {r \in snap[s].records : ~OfTask(s, r) /\ r.taken <= cut}
           swept == Swept(snap[s].records \ doomed)
       IN  \/ Without(swept, doomed, index) /\ Sweep(s, swept)
           \/ doomed = {} /\ store' = [store EXCEPT !.index = index] /\ UNCHANGED lost
  /\ snap' = [snap EXCEPT ![s] = [at |-> "done"]]
  /\ UNCHANGED <<writes, now, tracker, call, rewind, bounds>>
-----------------------------------------------------------------------------
(* A tool that may change the project waits for the snapshot               *)
(* (awaitSnapshot), whatever became of it.                                 *)
Settled(s) == session[s].at = "open" /\ snap[s].at \in {"done", "failed"}
ToolWrites(s, f) ==
  /\ Settled(s) /\ call[s] = NoCall /\ Spend("calls")
  /\ \E kind \in {"write", "shell"}, body \in {NewBody, Gone} :
       /\ body = Gone => kind = "shell" /\ Exists(f)
       /\ Written(f, s, kind, body)
       /\ call' = [call EXCEPT ![s] = [kind |-> kind, file |-> f, write |-> Here + 1]]
  /\ UNCHANGED <<now, tracker, snap, store, rewind, lost>>

(* observe, once the result is recorded. *)
Report(s) ==
  IF call[s].kind = "shell"
  THEN session' = [session EXCEPT ![s].shell = TRUE] /\ UNCHANGED owners
  ELSE /\ session' = [session EXCEPT ![s].touched = @ \cup {call[s].file}]
       /\ owners' = [owners EXCEPT ![call[s].file] = [by |-> s, at |-> now]]
ToolReports(s) ==
  /\ call[s] # NoCall /\ Report(s)
  /\ writes' = [writes EXCEPT ![call[s].write].told = now]
  /\ call' = [call EXCEPT ![s] = NoCall]
  /\ UNCHANGED <<now, changes, dropped, snap, store, rewind, bounds, lost>>
(* It is stopped by its timeout or a cancel, or its result cannot be       *)
(* recorded: an error is not observed.                                     *)
ToolFails(s) ==
  /\ call[s] # NoCall /\ Spend("faults") /\ call' = [call EXCEPT ![s] = NoCall]
  /\ UNCHANGED <<writes, now, tracker, snap, store, rewind, lost>>

(* endTurn first takes the turn out of the tracker's map, then lists what  *)
(* was reported and, after a shell, looks at every file                    *)
(* (scanShellChanges).                                                     *)
LeaveFiles(s) ==
  /\ Settled(s) /\ call[s] = NoCall /\ session' = [session EXCEPT ![s].at = "ending"]
  /\ UNCHANGED <<writes, now, call, changes, owners, dropped, snap, store, rewind, bounds, lost>>
ReportedByOthers(s, f) ==
  owners[f].by \notin {None, s} /\ owners[f].at >= session[s].started
Reported(s) == {f \in session[s].touched : Exists(f) \/ f \in session[s].baseline}
Scanned(s) ==
  {f \in Files \ Reported(s) :
     /\ session[s].shell /\ ~ReportedByOthers(s, f)
     /\ IF Exists(f) THEN Stamp(f, Here) >= session[s].started ELSE f \in session[s].baseline}
(* Then the owners go that no turn of the map could need, those included   *)
(* that a turn which has just left it is about to look at.                 *)
Open(s) == {o \in Sessions \ {s} : session[o].at = "open"}

(* Mutant: only what the latest of the open turns needs. *)
PruneForLatest(s) ==
  [f \in Files |-> IF \A o \in Open(s) : owners[f].at > session[o].started THEN owners[f] ELSE NoOwner]

PruneOwners(s) ==
  [f \in Files |-> IF \E o \in Open(s) : owners[f].at >= session[o].started THEN owners[f] ELSE NoOwner]
Forgotten(o) == {f \in Files : session[o].at = "ending" /\ ReportedByOthers(o, f) /\ owners'[f] = NoOwner}
Listed(s, paths, whole) == changes' = [changes EXCEPT ![s] = Append(@, [paths |-> paths, whole |-> whole])]
(* The record is written, or not; a cancelled turn's look at the files may *)
(* be cut off.                                                             *)
EndFiles(s) ==
  /\ session[s].at = "ending"
  /\ \/ Listed(s, Reported(s) \cup Scanned(s), TRUE) /\ UNCHANGED bounds
     \/ /\ Spend("faults")
        /\ \/ Listed(s, {}, FALSE)
           \/ \E part \in SUBSET {f \in Scanned(s) : Exists(f)} : Listed(s, Reported(s) \cup part, FALSE)
  /\ owners' = PruneOwners(s) /\ session' = [session EXCEPT ![s] = Closed(@.turn, @.opened)]
  /\ dropped' = [o \in Sessions |-> IF o = s THEN {} ELSE dropped[o] \cup Forgotten(o)]
  /\ snap' = [snap EXCEPT ![s] = NoSnap]
  /\ UNCHANGED <<writes, now, call, store, rewind, lost>>
-----------------------------------------------------------------------------
(* sessions.rewind, which asks first whether a turn runs, not whether      *)
(* another rewind does ...                                                 *)
RewindStarts(q, s) ==
  /\ session[s].at = "idle" /\ rewind[q] = NoRewind /\ Spend("rewinds")
  /\ \E t \in 1..session[s].turn :
       rewind' = [rewind EXCEPT ![q] = [at |-> "asked", by |-> s, to |-> t, asked |-> session[s].turn]]
  /\ UNCHANGED <<writes, now, tracker, call, snap, store, lost>>

(* ... then reads turn.files of the turn and later, the snapshot and the   *)
(* files (planRewind).  A snapshot that is gone when applyRewind looks for *)
(* it again is one that planRewind does not find.                          *)
ListedSince(s, t) == UNION {changes[s][u].paths : u \in t..Len(changes[s])}
Snapshot(s, t) == {r \in store.records : r.by = s /\ r.turn = t /\ r.tree \in store.trees}
Before(tree, f) == IF f \in DOMAIN tree THEN tree[f] ELSE Gone
Plan(s, r) == {f \in ListedSince(s, r.turn) : Body(f, Here) # Before(r.tree, f)}
RewindPlans(q) ==
  /\ rewind[q].at = "asked"
  /\ rewind' = [rewind EXCEPT ![q] =
       IF Snapshot(@.by, @.to) = {} THEN NoRewind
       ELSE LET r == CHOOSE x \in Snapshot(@.by, @.to) : TRUE
            IN  [at |-> "applying", by |-> @.by, to |-> @.to, asked |-> @.asked, tree |-> r.tree, seen |-> r.seen,
                 started |-> r.started, todo |-> Plan(@.by, r), crossed |-> {}]]
  /\ UNCHANGED <<writes, now, tracker, call, snap, store, bounds, lost>>
(* It may write over what another rewind of the session has put back. *)
Crosses(q, o, f) ==
  /\ rewind[o].at = "applying" /\ rewind[o].by = rewind[q].by /\ f \notin rewind[o].todo
  /\ Before(rewind[o].tree, f) # Before(rewind[q].tree, f)
RewindFile(q, f) ==
  LET body == Before(rewind[q].tree, f)
  IN  /\ rewind[q].at = "applying" /\ f \in rewind[q].todo
      /\ body \in store.objects \cup {Gone}
      /\ Written(f, rewind[q].by, "rewind", body)
      /\ rewind' = [o \in Requests |->
           IF o = q THEN [rewind[o] EXCEPT !.todo = @ \ {f}]
           ELSE IF Crosses(q, o, f) THEN [rewind[o] EXCEPT !.crossed = @ \cup {f}] ELSE rewind[o]]
      /\ UNCHANGED <<now, tracker, call, snap, store, bounds, lost>>
(* The stored copy is gone, or cannot be written: the files before it stay *)
(* changed and no turn.rewind is written.                                  *)
RewindFails(q) ==
  /\ rewind[q].at = "applying" /\ rewind[q].todo # {}
  /\ \/ UNCHANGED bounds /\ \E f \in rewind[q].todo : Before(rewind[q].tree, f) \notin store.objects \cup {Gone}
     \/ Spend("faults")
  /\ rewind' = [rewind EXCEPT ![q] = NoRewind]
  /\ UNCHANGED <<writes, now, tracker, call, snap, store, lost>>
RewindEnds(q) ==
  /\ rewind[q].at = "applying" /\ rewind[q].todo = {}
  /\ rewind' = [rewind EXCEPT ![q] = NoRewind]
  /\ UNCHANGED <<writes, now, tracker, call, snap, store, bounds, lost>>
-----------------------------------------------------------------------------
UserEdits(f) ==
  /\ Spend("edits") /\ \E body \in {NewBody, Gone} : body # Body(f, Here) /\ Written(f, "user", "user", body)
  /\ UNCHANGED <<now, tracker, call, snap, store, rewind, lost>>
Tick == Spend("ticks") /\ now' = now + 1 /\ UNCHANGED <<writes, tracker, call, snap, store, rewind, lost>>
(* The grace, an hour, goes by; no snapshot takes that long. *)
Ages ==
  /\ Spend("ages") /\ Reading = {} /\ store.fresh # Nothing /\ store' = [store EXCEPT !.fresh = Nothing]
  /\ UNCHANGED <<writes, now, tracker, call, snap, rewind, lost>>
(* The process dies; its sessions are opened again by the next. *)
Crash ==
  /\ Spend("deaths")
  /\ session' = [s \in Sessions |-> Closed(session[s].turn, session[s].turn)]
  /\ changes' = [s \in Sessions |->
       IF session[s].at # "idle" THEN Append(changes[s], [paths |-> {}, whole |-> FALSE]) ELSE changes[s]]
  /\ call' = [s \in Sessions |-> NoCall] /\ owners' = [f \in Files |-> NoOwner]
  /\ snap' = [s \in Sessions |-> NoSnap] /\ rewind' = [q \in Requests |-> NoRewind]
  /\ dropped' = [s \in Sessions |-> {}]
  /\ UNCHANGED <<writes, now, store, lost>>

Snapshots(s) ==
  \/ ListFiles(s) \/ TooLarge(s) \/ SnapshotFails(s) \/ StoreTree(s) \/ WriteRecord(s) \/ Prune(s)
  \/ \E f \in Files : StoreFile(s, f)
Turn(s) ==
  \/ BeginTurn(s) \/ ToolReports(s) \/ ToolFails(s) \/ LeaveFiles(s) \/ EndFiles(s)
  \/ \E f \in Files : ToolWrites(s, f)
Rewinds(q) ==
  \/ \E s \in Sessions : RewindStarts(q, s)
  \/ RewindPlans(q) \/ RewindFails(q) \/ RewindEnds(q)
  \/ \E f \in Files : RewindFile(q, f)
RewindNext ==
  \/ \E s \in Sessions : Turn(s) \/ Snapshots(s)
  \/ \E q \in Requests : Rewinds(q)
  \/ \E f \in Files : UserEdits(f)
  \/ Tick \/ Ages \/ Crash
RewindSpec == RewindInit /\ [][RewindNext]_rewindVars
-----------------------------------------------------------------------------
(* A rewind that ends with nobody else at the file since the turn began:   *)
(* what the session's tools changed in the turn or later is what it was    *)
(* before the turn (sdk/src/api.ts on sessions.rewind), unless another     *)
(* rewind of the session put back something else after this one had dealt  *)
(* with the file.  It holds for what the session could know: calls that    *)
(* ended well, in turns whose turn.files is whole, and no shell that       *)
(* removed a file which the snapshots before the turn did not have; nor a  *)
(* file with a write that Blurs.                                           *)
Finished(q) == rewind[q].at = "applying" /\ rewind[q].todo = {} /\ session[rewind[q].by].turn = rewind[q].asked
Tools == {"write", "shell"}
Mine(q, f) ==
  {i \in Of(f) : writes[i].by = rewind[q].by /\ writes[i].kind \in Tools /\ writes[i].turn >= rewind[q].to}
Alone(q, f) ==
  \A i \in Of(f) :
    writes[i].by # rewind[q].by => writes[i].at < rewind[q].started /\ writes[i].told < rewind[q].started
TakenBack(q, f) == Body(f, Here) = Body(f, rewind[q].seen)
Knowable(s, i) ==
  writes[i].told > 0 /\ changes[s][writes[i].turn].whole /\ ~(writes[i].kind = "shell" /\ writes[i].unknown)
RewindUndoes ==
  \A q \in Requests, f \in Files :
    /\ Finished(q) /\ Mine(q, f) # {} /\ Alone(q, f)
    /\ \A i \in Mine(q, f) : Knowable(rewind[q].by, i)
    /\ \A i \in Of(f) : ~writes[i].blurs
    => TakenBack(q, f) \/ f \in rewind[q].crossed

(* What a snapshot record names is there: sessions prune and store at the  *)
(* same time, and the one thing that gets lost is what was swept, older    *)
(* than the grace, while another snapshot had just found it.               *)
SnapshotsWhole ==
  \A r \in store.records :
    \/ r.tree \in {NoTree} \cup lost.trees
    \/ r.tree \in store.trees /\ Bodies(r.tree) \subseteq store.objects \cup lost.objects

(* A turn is not charged with a file that only write tools of other        *)
(* sessions changed since it began, and reported, unless the end of yet    *)
(* another turn forgot the owner when this one had left the map and not    *)
(* yet looked.                                                             *)
Suspect(s, i) ==
  /\ writes[i].at >= session[s].started
  /\ i <= session[s].begun \/ writes[i].by \in {s, "user"} \/ writes[i].kind # "write" \/ writes[i].told = 0
ListedWithReason ==
  [][\A s \in Sessions : session[s].at # "idle" /\ Len(changes'[s]) > Len(changes[s]) =>
       \A f \in changes'[s][session[s].turn].paths \ dropped[s] :
         Exists(f) => \E i \in Of(f) : Suspect(s, i)]_rewindVars
=============================================================================
