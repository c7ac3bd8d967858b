----------------------------- MODULE SessionLog -----------------------------
(***************************************************************************)
(* The file of a session, session.jsonl, and the process that writes it:   *)
(* create, lock, append and release of src/packages/session/src/store.ts   *)
(* and the scan of src/packages/session/src/jsonl.ts.                      *)
(*                                                                         *)
(* The file is a sequence of units, the pieces in which a write can reach  *)
(* it; the last unit of a line is the one with its newline.  Each file     *)
(* operation is a step and may fail; between any two the process may be    *)
(* killed or the power go.  One process at a time has the lock (LockFile), *)
(* and writer.chain runs its appends one after another, so there is one    *)
(* append under way.  The contents of records are left out, but for which  *)
(* of them are synced.                                                     *)
(***************************************************************************)
EXTENDS Naturals, Sequences

CONSTANTS
  Bodies,        \* what a record can be
  Units,         \* how many units the line of each takes
  Start,         \* session.start
  Repair,        \* the error record of repairTail
  Synced,        \* the bodies whose write is followed by an fsync
  MaxSeq,        \* bound: records of a file
  MaxFaults,     \* bound: file operations that fail
  MaxDeaths      \* bound: kills and power losses

ASSUME BodiesAssumption ==
  /\ {Start, Repair} \subseteq Bodies /\ Start # Repair
  /\ {Start, Repair} \subseteq Synced /\ Synced \subseteq Bodies
ASSUME UnitsAssumption == Units \in [Bodies -> Nat \ {0}]
ASSUME BoundsAssumption == {MaxSeq, MaxFaults, MaxDeaths} \subseteq Nat

VARIABLES
  file,      \* the units of session.jsonl
  durable,   \* how many of them survive a power loss
  mode,      \* what the store is doing with the session
  size,      \* writer.size (of the last writer, when there is none)
  lastSeq,   \* writer.lastSeq
  torn,      \* writer.pendingTruncation: where to cut, or 0
  op,        \* the append under way
  scan,      \* the locals of scanSessionLog
  known,     \* the records a scan has found, each with its place in the file
  promised,  \* the records acknowledged to a caller or read by a holder
  safe,      \* how many of those an fsync covered
  lost,      \* whether the power went since the last holder read the file
  stray,     \* whether an append was dropped with what it wrote
  faults, deaths

disk == <<file, durable>>
writer == <<size, lastSeq, torn>>
ghosts == <<promised, safe, lost, stray>>
budget == <<faults, deaths>>
vars == <<disk, mode, writer, op, scan, known, ghosts, budget>>

(* releasing: release waits for the summary file, and the writer still     *)
(* takes appends.                                                          *)
Modes == {"absent", "creating", "closed", "scanning", "open", "releasing"}
Writing == {"open", "releasing"}

(* cut and cutSync are repairTail, the others writeRecord; after is the    *)
(* caller's record while the error record of a repair is written.          *)
Steps == {"none", "cut", "cutSync", "write", "sync", "undo"}
NoOp == [pc |-> "none", body |-> Start, done |-> 0, after |-> Start]
NoScan == [pos |-> 0, last |-> 0, max |-> 0, gap |-> 0]

Smaller(m, n) == IF m <= n THEN m ELSE n
NewLine(u) == u.part = Units[u.body]
Cut(n) == file' = SubSeq(file, 1, n) /\ durable' = Smaller(durable, n)

Works == UNCHANGED budget
Fails == faults < MaxFaults /\ faults' = faults + 1 /\ UNCHANGED deaths
-----------------------------------------------------------------------------
Init ==
  /\ file = <<>> /\ durable = 0 /\ mode = "absent"
  /\ size = 0 /\ lastSeq = 0 /\ torn = 0
  /\ op = NoOp /\ scan = NoScan /\ known = <<>>
  /\ promised = <<>> /\ safe = 0 /\ lost = FALSE /\ stray = FALSE
  /\ faults = 0 /\ deaths = 0

WriteOf(body, after) == [pc |-> "write", body |-> body, done |-> 0, after |-> after]

(* create: the file is there, and session.start is written to it. *)
Create ==
  /\ mode = "absent"
  /\ mode' = "creating"
  /\ op' = WriteOf(Start, Start)
  /\ UNCHANGED <<disk, writer, scan, known, ghosts, budget>>

(* append: what is torn is cut first. *)
Begin(body) ==
  /\ mode \in Writing /\ op.pc = "none"
  /\ body \notin {Start, Repair}
  /\ lastSeq + 1 < MaxSeq
  /\ op' = IF torn # 0 THEN [WriteOf(Repair, body) EXCEPT !.pc = "cut"] ELSE WriteOf(body, Start)
  /\ UNCHANGED <<disk, mode, writer, scan, known, ghosts, budget>>

(* The append rejects; a create that fails closes the file. *)
Reject ==
  /\ op' = NoOp
  /\ mode' = IF mode = "creating" THEN "closed" ELSE mode

(* repairTail: truncate ... *)
CutTail ==
  /\ op.pc = "cut"
  /\ \/ /\ Works
        /\ Cut(torn)
        /\ op' = [op EXCEPT !.pc = "cutSync"]
        /\ UNCHANGED mode
     \/ Fails /\ Reject /\ UNCHANGED disk
  /\ UNCHANGED <<writer, scan, known, promised, safe, lost, stray>>

(* ... and sync; only then is the truncation forgotten. *)
CutSync ==
  /\ op.pc = "cutSync"
  /\ \/ /\ Works
        /\ durable' = Len(file)
        /\ size' = torn /\ torn' = 0
        /\ op' = [op EXCEPT !.pc = "write"]
        /\ UNCHANGED mode
     \/ Fails /\ Reject /\ UNCHANGED <<durable, size, torn>>
  /\ UNCHANGED <<file, lastSeq, scan, known, ghosts>>
-----------------------------------------------------------------------------
(* writeRecord returns: the writer moves on, and so does the append when   *)
(* this was the error record of its repair.                                *)
Acknowledge(synced) ==
  /\ promised' = Append(promised, [seq |-> lastSeq + 1, body |-> op.body, at |-> size])
  /\ safe' = IF synced THEN Len(promised') ELSE safe
  /\ lastSeq' = lastSeq + 1
  /\ size' = size + Units[op.body]
  /\ op' = IF op.after # Start THEN WriteOf(op.after, Start) ELSE NoOp
  /\ mode' = IF mode = "creating" THEN "open" ELSE mode
  /\ stray' = FALSE

(* writeFully: the next piece reaches the file, at its place, over what is *)
(* there.                                                                  *)
WriteUnit ==
  /\ op.pc = "write"
  /\ LET n == size + op.done + 1
         unit == [seq |-> lastSeq + 1, body |-> op.body, part |-> op.done + 1]
     IN file' = IF n <= Len(file) THEN [file EXCEPT ![n] = unit] ELSE Append(file, unit)
  /\ durable' = Smaller(durable, size + op.done)
  /\ op' = [op EXCEPT !.done = @ + 1,
                      !.pc = IF op.done + 1 = Units[op.body] THEN "sync" ELSE "write"]
  /\ UNCHANGED <<mode, writer, scan, known, ghosts, budget>>

(* A write that fails is undone; not that of session.start. *)
Broken ==
  IF mode = "creating"
    THEN Reject /\ stray' = TRUE
    ELSE op' = [op EXCEPT !.pc = "undo"] /\ UNCHANGED <<mode, stray>>

WriteFails ==
  /\ op.pc = "write"
  /\ Fails /\ Broken
  /\ UNCHANGED <<disk, writer, scan, known, promised, safe, lost>>

(* The line is written; an fsync follows where the record wants one. *)
Sync ==
  /\ op.pc = "sync"
  /\ \/ op.body \in Synced /\ Works /\ durable' = Len(file) /\ Acknowledge(TRUE)
     \/ op.body \notin Synced /\ Works /\ UNCHANGED durable /\ Acknowledge(FALSE)
     \/ /\ op.body \in Synced
        /\ Fails /\ Broken
        /\ UNCHANGED <<durable, size, lastSeq, promised, safe>>
  /\ UNCHANGED <<file, torn, scan, known, lost>>

(* Mutants: the line before goes with the broken one; nothing is undone. *)
UndoTooMuch ==
  /\ op.pc = "undo"
  /\ Reject
  /\ Works /\ Cut(IF size > 0 THEN size - 1 ELSE 0)
  /\ UNCHANGED <<writer, scan, known, ghosts>>

UndoForgotten ==
  /\ op.pc = "undo"
  /\ Reject
  /\ UNCHANGED <<disk, writer, scan, known, ghosts, budget>>

(* truncate(writer.size), whose own failure is ignored. *)
Undo ==
  /\ op.pc = "undo"
  /\ Reject
  /\ \/ Works /\ Cut(size) /\ UNCHANGED stray
     \/ Fails /\ stray' = TRUE /\ UNCHANGED disk
  /\ UNCHANGED <<writer, scan, known, promised, safe, lost>>
-----------------------------------------------------------------------------
(* lock reads the file from its start. *)
Lock ==
  /\ mode = "closed"
  /\ mode' = "scanning"
  /\ scan' = NoScan /\ known' = <<>>
  /\ UNCHANGED <<disk, writer, op, promised, safe, lost, stray, budget>>

LineEnds == {n \in scan.pos + 1..Len(file) : NewLine(file[n])}

(* checkLine: the line from p to n is one record, whole. *)
Whole(p, n) ==
  LET first == file[p + 1]
  IN /\ n = p + Units[first.body]
     /\ \A k \in 1..Units[first.body] :
          LET unit == file[p + k]
          IN unit.seq = first.seq /\ unit.body = first.body /\ unit.part = k

(* checkSequence *)
Plausible(seq) == scan.last < seq /\ seq <= scan.last + 1 + scan.gap
Follows(seq, body) ==
  /\ Plausible(seq)
  /\ IF scan.last = 0 THEN seq = 1 /\ body = Start ELSE body # Start

(* Mutant: a line that is skipped counts as a record. *)
ScanLineCounting ==
  /\ mode = "scanning"
  /\ \E n \in LineEnds :
       LET first == file[scan.pos + 1]
       IN /\ \A e \in LineEnds : n <= e
          /\ IF Whole(scan.pos, n) /\ Follows(first.seq, first.body)
               THEN /\ known' = Append(known, [seq |-> first.seq, body |-> first.body,
                                               at |-> scan.pos])
                    /\ scan' = [pos |-> n, last |-> first.seq, max |-> first.seq, gap |-> 0]
               ELSE /\ scan' = [scan EXCEPT !.pos = n, !.max = @ + 1]
                    /\ UNCHANGED known
  /\ UNCHANGED <<disk, mode, writer, op, ghosts, budget>>

(* One line of scanSessionLog: a record, or skipped. *)
ScanLine ==
  /\ mode = "scanning"
  /\ \E n \in LineEnds :
       LET first == file[scan.pos + 1]
           whole == Whole(scan.pos, n)
       IN /\ \A e \in LineEnds : n <= e
          /\ IF whole /\ Follows(first.seq, first.body)
               THEN /\ known' = Append(known, [seq |-> first.seq, body |-> first.body,
                                               at |-> scan.pos])
                    /\ scan' = [pos |-> n, last |-> first.seq, max |-> first.seq, gap |-> 0]
               ELSE /\ scan' = [scan EXCEPT !.pos = n, !.gap = @ + 1,
                                  !.max = IF whole /\ Plausible(first.seq) /\ @ < first.seq
                                            THEN first.seq ELSE @]
                    /\ UNCHANGED known
  /\ UNCHANGED <<disk, mode, writer, op, ghosts, budget>>

(* The rest has no newline.  A file without session.start is corrupt. *)
ScanEnd ==
  /\ mode = "scanning" /\ LineEnds = {}
  /\ IF known = <<>>
       THEN mode' = "closed" /\ UNCHANGED <<writer, ghosts>>
       ELSE /\ mode' = "open"
            /\ size' = scan.pos /\ lastSeq' = scan.max
            /\ torn' = IF scan.pos < Len(file) THEN scan.pos ELSE 0
            /\ promised' = known /\ lost' = FALSE /\ stray' = FALSE
            /\ UNCHANGED <<safe>>
  /\ UNCHANGED <<disk, op, scan, known, budget>>
-----------------------------------------------------------------------------
(* release waits for the appends that were called before it; *)
Release ==
  /\ mode = "open" /\ op.pc = "none"
  /\ mode' = "releasing"
  /\ UNCHANGED <<disk, writer, op, scan, known, ghosts, budget>>

Dropped == op' = NoOp /\ stray' = (stray \/ op.pc # "none")

(* ... one that was called after it loses its file, and cannot undo, but   *)
(* what needs no fsync has returned by then.                               *)
Close ==
  /\ mode = "releasing"
  /\ op.pc = "sync" => op.body \in Synced
  /\ mode' = "closed"
  /\ Dropped
  /\ UNCHANGED <<disk, writer, scan, known, promised, safe, lost, budget>>

Dies == deaths < MaxDeaths /\ deaths' = deaths + 1 /\ UNCHANGED faults

(* The process is killed. *)
Kill ==
  /\ mode \notin {"absent", "closed"}
  /\ Dies
  /\ mode' = "closed"
  /\ Dropped
  /\ UNCHANGED <<disk, writer, scan, known, promised, safe, lost>>

(* The power goes, and a part of the file that was not synced with it. *)
PowerLoss ==
  /\ mode # "absent"
  /\ Dies
  /\ \E n \in durable..Len(file) : file' = SubSeq(file, 1, n)
  /\ mode' = "closed"
  /\ Dropped
  /\ lost' = TRUE
  /\ UNCHANGED <<durable, writer, scan, known, promised, safe>>

AppendStep == CutTail \/ CutSync \/ WriteUnit \/ WriteFails \/ Sync \/ Undo
HolderStep == Create \/ Lock \/ ScanLine \/ ScanEnd \/ Release \/ Close

Next ==
  \/ AppendStep \/ HolderStep
  \/ \E body \in Bodies : Begin(body)
  \/ Kill \/ PowerLoss

Spec == Init /\ [][Next]_vars
-----------------------------------------------------------------------------
Unit == [seq : Nat, body : Bodies, part : Nat]
Placed == [seq : Nat, body : Bodies, at : Nat]
ScanType == [pos : Nat, last : Nat, max : Nat, gap : Nat]
OpType == [pc : Steps, body : Bodies, done : Nat, after : Bodies]

TypeOK ==
  /\ file \in Seq(Unit)
  /\ durable \in 0..Len(file)
  /\ mode \in Modes
  /\ size \in Nat /\ lastSeq \in Nat /\ torn \in Nat
  /\ op \in OpType
  /\ scan \in ScanType
  /\ known \in Seq(Placed) /\ promised \in Seq(Placed)
  /\ safe \in 0..Len(promised)
  /\ lost \in BOOLEAN /\ stray \in BOOLEAN
  /\ faults \in Nat /\ deaths \in Nat

(* A record whose append was rejected and undone does not come back: a     *)
(* holder finds more than was acknowledged only when an append was dropped *)
(* in the middle, or its undo failed.                                      *)
StrayNeedsAFailure ==
  [][mode = "scanning" /\ mode' = "open" /\ Len(promised') > Len(promised) => stray]_vars

-----------------------------------------------------------------------------
(* What makes the promise inductive. *)

EndOf(r) == r.at + Units[r.body]
LineStart(p) == p = 0 \/ p > Len(file) \/ NewLine(file[p])

(* The line of record r is in the file at its place, but for what a loss   *)
(* of power took.                                                          *)
InPlace(r) ==
  /\ LineStart(r.at)
  /\ \A k \in 1..Units[r.body] :
       r.at + k <= Len(file) => file[r.at + k] = [seq |-> r.seq, body |-> r.body, part |-> k]

(* The acknowledged records lie one after another below the writer's size, *)
(* numbered from 1, the first being session.start.                         *)
RecordsPlaced ==
  \A i \in 1..Len(promised) :
    /\ promised[i].seq = i
    /\ promised[i].body = Start <=> i = 1
    /\ EndOf(promised[i]) <= size
    /\ \A j \in 1..i - 1 : EndOf(promised[j]) <= promised[i].at
    /\ InPlace(promised[i])

(* A line begins only where one may, with the number that is next there;   *)
(* beyond the writer's size nothing begins but at the size itself.         *)
HeadsNumbered ==
  \A p \in 0..Len(file) - 1 :
    LET head == file[p + 1]
    IN head.part = 1 =>
         /\ LineStart(p) /\ p <= size
         /\ head.seq \in 1..Len(promised) + 1
         /\ head.body = Start <=> head.seq = 1
         /\ \A i \in 1..Len(promised) : promised[i].at < p <=> i < head.seq

(* A line below the size that is a whole record is an acknowledged one. *)
WholeIsPromised ==
  \A p \in 0..Len(file) - 1 : \A n \in 1..Len(file) :
    p < size /\ Whole(p, n) => \E i \in 1..Len(promised) : promised[i].at = p

WriterInPlace ==
  /\ lastSeq = Len(promised)
  /\ LineStart(size)
  /\ ~lost => size <= Len(file)
  /\ lost => mode \in {"closed", "scanning"}
  /\ \A i \in 1..safe : EndOf(promised[i]) <= durable
  /\ mode \in {"absent", "creating"} => promised = <<>> /\ size = 0 /\ torn = 0
  /\ mode \in Writing => promised # <<>>
  /\ mode \in Writing /\ torn # 0 =>
       torn = size /\ \A p \in size + 1..Len(file) : ~NewLine(file[p])

(* The append under way has written its units where the next line goes. *)
AppendInPlace ==
  /\ op.pc # "none" => mode \in Writing \union {"creating"}
  /\ mode = "creating" => op.pc \in {"write", "sync"}
  /\ op.pc # "none" => (op.body = Start <=> mode = "creating")
  /\ op.pc \in {"cut", "cutSync"} => torn # 0 /\ op.done = 0
  /\ op.pc = "cutSync" => Len(file) = torn
  /\ op.pc \in {"write", "sync", "undo"} =>
       /\ torn = 0
       /\ op.done <= Units[op.body]
       /\ size + op.done <= Len(file)
       /\ \A k \in 1..op.done :
            file[size + k] = [seq |-> lastSeq + 1, body |-> op.body, part |-> k]
  /\ op.pc = "write" => op.done < Units[op.body]
  /\ op.pc = "sync" => op.done = Units[op.body]

(* A scan has found every acknowledged record that it has passed, and at   *)
(* most one more, the last.                                                *)
ScanInPlace ==
  mode = "scanning" =>
    /\ scan.pos <= Len(file) /\ LineStart(scan.pos)
    /\ scan.last = Len(known) /\ scan.max = Len(known)
    /\ Len(known) <= Len(promised) + 1
    /\ \A i \in 1..Len(known) : i <= Len(promised) => known[i] = promised[i]
    /\ Len(known) = Len(promised) + 1 =>
         LET r == known[Len(known)]
         IN /\ r.seq = Len(known) /\ r.at = size /\ InPlace(r) /\ EndOf(r) <= Len(file)
            /\ r.body = Start <=> r.seq = 1
    /\ \A i \in 1..Len(known) : EndOf(known[i]) <= scan.pos
    /\ \A i \in 1..Len(promised) : promised[i].at < scan.pos <=> i <= Len(known)
    /\ \A p \in 0..Len(file) - 1 : \A n \in 1..Len(file) :
         p < scan.pos /\ Whole(p, n) => \E i \in 1..Len(known) : known[i].at = p

(* What was acknowledged is in the file, nothing else there is numbered    *)
(* like it, what an fsync covered is durable, and a scan of the file finds *)
(* what was acknowledged and at most one record more.                      *)
LogInv ==
  /\ TypeOK
  /\ RecordsPlaced /\ HeadsNumbered /\ WholeIsPromised
  /\ WriterInPlace /\ AppendInPlace /\ ScanInPlace
-----------------------------------------------------------------------------
(* The session as its callers know it. *)
Sequence == [i \in 1..Len(promised) |-> promised[i].body]
Promise == INSTANCE Journal WITH log <- Sequence

(* store.ts: a record whose append returned is read by every later holder, *)
(* at its place; only a loss of power takes records, and none that was     *)
(* synced.                                                                 *)
JournalSpec == Promise!Spec
=============================================================================
