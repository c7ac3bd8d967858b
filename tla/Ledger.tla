------------------------------- MODULE Ledger -------------------------------
(***************************************************************************)
(* The usage ledger of a project, one file a month to which every process  *)
(* of the project appends: append, write and read of                       *)
(* src/packages/session/src/ledger.ts.  One month; the records of one      *)
(* process are written one after the other (chain).                        *)
(***************************************************************************)
EXTENDS Naturals, Sequences, FiniteSets

CONSTANTS
  Writers,    \* processes, each with its JsonlLedger
  MaxFaults   \* bound: deaths of a process, writes that fail or are cut short

ASSUME LedgerAssumption == MaxFaults \in Nat

VARIABLES
  ledger,     \* the file: its lines, the last one without its newline
  pen,        \* what each writer is about: idle, look, write
  accepted,   \* records whose append resolved
  excused,    \* records that a torn write of another writer, or a write cut short, may have cost
  faults

ledgerVars == <<ledger, pen, accepted, excused>>

Idle == [at |-> "idle", rec |-> 0, prefix |-> FALSE]
Whole(r) == [rec |-> r, whole |-> TRUE]
Part(r) == [rec |-> r, whole |-> FALSE]

LedgerInit ==
  /\ ledger = <<<<>>>> /\ pen = [w \in Writers |-> Idle]
  /\ accepted = {} /\ excused = {}

NewLine(f) == Append(f, <<>>)
Put(f, piece) == [f EXCEPT ![Len(f)] = Append(@, piece)]

(* What parses: a line that is one whole record.  The last line, which has *)
(* no newline, is left out (read).                                         *)
Readable(f) == {r \in {f[i][1].rec : i \in {j \in 1..Len(f) - 1 : f[j] # <<>>}} :
                  \E i \in 1..Len(f) - 1 : f[i] = <<Whole(r)>>}

(* The text of one append, after the newline it may start with: all of it, *)
(* or what is there of it when the write is cut short.                     *)
Begun(w) == IF pen[w].prefix THEN NewLine(ledger) ELSE ledger
Written(w) == NewLine(Put(Begun(w), Whole(pen[w].rec)))
Torn(w) == {Begun(w), Put(Begun(w), Part(pen[w].rec)), Put(Begun(w), Whole(pen[w].rec))}

(* A text that ends in the middle of a line puts the writers that have     *)
(* looked at the end before it at risk.                                    *)
AtRisk(w) == {pen[v].rec : v \in {u \in Writers \ {w} : pen[u].at = "write" /\ ~pen[u].prefix}}

StartAppend(w, r) == pen' = [pen EXCEPT ![w] = [Idle EXCEPT !.at = "look", !.rec = r]]

(* open, stat, and a read of the last byte there is.  Mutant: it is not    *)
(* looked at.                                                              *)
LookAway(w) ==
  /\ pen[w].at = "look"
  /\ pen' = [pen EXCEPT ![w].at = "write"]
  /\ UNCHANGED <<ledger, accepted, excused, faults>>
Look(w) ==
  /\ pen[w].at = "look"
  /\ pen' = [pen EXCEPT ![w].at = "write", ![w].prefix = (ledger[Len(ledger)] # <<>>)]
  /\ UNCHANGED <<ledger, accepted, excused, faults>>

(* One write, and its sync. *)
Write(w) ==
  /\ pen[w].at = "write"
  /\ ledger' = Written(w)
  /\ accepted' = accepted \cup {pen[w].rec}
  /\ pen' = [pen EXCEPT ![w] = Idle]
  /\ UNCHANGED <<excused, faults>>

(* handle.write reports how much it wrote, and nobody looks. *)
WriteShort(w) ==
  /\ pen[w].at = "write" /\ faults < MaxFaults
  /\ faults' = faults + 1
  /\ ledger' \in Torn(w)
  /\ accepted' = accepted \cup {pen[w].rec}
  /\ excused' = excused \cup AtRisk(w) \cup {pen[w].rec}
  /\ pen' = [pen EXCEPT ![w] = Idle]

(* The append is rejected: it could not open the file, not write, or not   *)
(* sync what it wrote.                                                     *)
AppendFails(w) ==
  /\ pen[w].at # "idle" /\ faults < MaxFaults
  /\ faults' = faults + 1
  /\ ledger' \in {ledger} \cup (IF pen[w].at = "write" THEN {Written(w)} ELSE {})
  /\ pen' = [pen EXCEPT ![w] = Idle]
  /\ UNCHANGED <<accepted, excused>>

AppendStep(w) == Look(w) \/ Write(w) \/ WriteShort(w) \/ AppendFails(w)

(* The process dies, if it is writing with a part of its text in the file. *)
WriterDies(w) ==
  /\ ledger' \in (IF pen[w].at = "write" THEN Torn(w) ELSE {}) \cup {ledger}
  /\ excused' = IF ledger' = ledger THEN excused ELSE excused \cup AtRisk(w)
  /\ pen' = [pen EXCEPT ![w] = Idle]
  /\ UNCHANGED accepted
-----------------------------------------------------------------------------
(* A record whose append resolved is read back, whatever other processes   *)
(* append, and whoever dies in a write, but in two windows: a text that    *)
(* ends in the middle of a line between the look of the append and its     *)
(* write, and a write that was cut short without an error.  Nothing is     *)
(* read that was not appended (JsonlLedger.write, read).                   *)
LedgerKeepsRecords == accepted \ excused \subseteq Readable(ledger)
=============================================================================
