------------------------- MODULE SessionLog_proofs -------------------------
(***************************************************************************)
(* The session file keeps what the store promises, for any records, any    *)
(* number of faults and any deaths.  Then about SessionState, what the     *)
(* records in that file mean: StateInv is an inductive invariant of the    *)
(* file, its checkpoints and its holder, and a session has one state;      *)
(* TurnInv one of its turns, and their records add up.                     *)
(***************************************************************************)
EXTENDS SessionLog, SessionState, SequenceTheorems, WellFoundedInduction, TLAPS

(* What the file, the promised records and the writer's place have to do   *)
(* with each other.                                                        *)
FileInv == RecordsPlaced /\ HeadsNumbered /\ WholeIsPromised

(* A line has at least one unit. *)
LEMMA LinesHaveUnits == \A b \in Bodies : Units[b] \in Nat /\ Units[b] > 0
BY UnitsAssumption

(* The units of a line of u units that starts at p. *)
LEMMA InsideLine ==
  ASSUME NEW p \in Nat, NEW u \in Nat, NEW n \in Nat, p + u <= n, NEW k \in 1..u
  PROVE  p + k \in 1..n
OBVIOUS

(* A file that was cut is the beginning of the file. *)
LEMMA CutKeepsBeginning ==
  ASSUME NEW S, NEW s \in Seq(S), NEW n \in 0..Len(s)
  PROVE  /\ SubSeq(s, 1, n) \in Seq(S)
         /\ Len(SubSeq(s, 1, n)) = n
         /\ \A k \in 1..n : SubSeq(s, 1, n)[k] = s[k]
<1>1. \A k \in 1..n : s[k] \in S
  OBVIOUS
<1> QED BY <1>1, SubSeqProperties

(* Steps that change neither the file nor what was acknowledged. *)
LEMMA QuietKeepsFileInv ==
  ASSUME FileInv, UNCHANGED <<file, promised, size>>
  PROVE  FileInv'
BY DEF FileInv, RecordsPlaced, HeadsNumbered, WholeIsPromised, InPlace, LineStart, EndOf, NewLine,
       Whole

(* A line that could start at a place still can when the file is cut. *)
LEMMA CutKeepsFileInv ==
  ASSUME TypeOK, FileInv, NEW n \in 0..Len(file), UNCHANGED <<promised, size>>,
         file' = SubSeq(file, 1, n)
  PROVE  /\ FileInv'
         /\ file' \in Seq(Unit) /\ Len(file') = n
         /\ \A p \in Nat : LineStart(p) => LineStart(p)'
<1>1. file' \in Seq(Unit) /\ Len(file') = n /\ \A k \in 1..n : file'[k] = file[k]
  BY CutKeepsBeginning DEF TypeOK
<1>2. Len(file) \in Nat /\ Len(promised) \in Nat
  BY DEF TypeOK
<1>3. \A p \in Nat : LineStart(p) => LineStart(p)'
  BY <1>1, <1>2 DEF LineStart, NewLine
<1>4. \A i \in 1..Len(promised) : promised[i] \in Placed
  BY DEF TypeOK
<1>5. RecordsPlaced'
  <2>1. ASSUME NEW i \in 1..Len(promised) PROVE InPlace(promised[i])'
    BY <1>1, <1>2, <1>3, <1>4, LinesHaveUnits DEF FileInv, RecordsPlaced, InPlace, Placed
  <2> QED BY <2>1 DEF FileInv, RecordsPlaced, EndOf
<1>6. HeadsNumbered'
  BY <1>1, <1>2, <1>3 DEF FileInv, HeadsNumbered
<1>7. WholeIsPromised'
  <2>1. SUFFICES ASSUME NEW p \in 0..n - 1, NEW m \in 1..n, p < size, Whole(p, m)'
                 PROVE  \E i \in 1..Len(promised) : promised[i].at = p
    BY <1>1 DEF WholeIsPromised
  <2>0. p \in 0..Len(file) - 1 /\ m \in 1..Len(file) /\ p \in Nat /\ m \in Nat /\ n \in Nat
    BY <1>2, <2>1
  <2>2. file'[p + 1] = file[p + 1] /\ file[p + 1] \in Unit
    BY <1>1, <1>2 DEF TypeOK
  <2>3. m = p + Units[file[p + 1].body]
    BY <2>1, <2>2 DEF Whole
  <2>4. \A k \in 1..Units[file[p + 1].body] : file'[p + k] = file[p + k]
    <3>1. Units[file[p + 1].body] \in Nat /\ p + Units[file[p + 1].body] <= n
      BY <2>0, <2>1, <2>2, <2>3, LinesHaveUnits DEF Unit
    <3>2. \A k \in 1..Units[file[p + 1].body] : p + k \in 1..n
      BY <2>0, <3>1, InsideLine
    <3> QED BY <1>1, <3>2
  <2>5. Whole(p, m)
    <3>1. \A k \in 1..Units[file[p + 1].body] :
            /\ file'[p + k].seq = file[p + 1].seq /\ file'[p + k].body = file[p + 1].body
            /\ file'[p + k].part = k
      <4>1. \A k \in 1..Units[file'[p + 1].body] :
              /\ file'[p + k].seq = file'[p + 1].seq /\ file'[p + k].body = file'[p + 1].body
              /\ file'[p + k].part = k
        BY <2>1 DEF Whole
      <4> QED BY <2>2, <4>1
    <3> QED BY <2>3, <2>4, <3>1 DEF Whole
  <2> QED BY <2>0, <2>1, <2>5 DEF FileInv, WholeIsPromised
<1> QED BY <1>1, <1>3, <1>5, <1>6, <1>7 DEF FileInv
-----------------------------------------------------------------------------
(* The numbers of a state that satisfies the type invariant. *)
LEMMA Numbers ==
  ASSUME TypeOK
  PROVE  /\ Len(file) \in Nat /\ Len(promised) \in Nat /\ Len(known) \in Nat
         /\ \A k \in 1..Len(file) : file[k] \in Unit
         /\ \A i \in 1..Len(promised) : promised[i] \in Placed
         /\ \A i \in 1..Len(known) : known[i] \in Placed
BY DEF TypeOK

(* Every acknowledged record begins below the writer's size. *)
LEMMA PromisedBelowSize ==
  ASSUME TypeOK, RecordsPlaced, NEW i \in 1..Len(promised)
  PROVE  /\ promised[i].at \in Nat /\ promised[i].at < size
         /\ promised[i].body \in Bodies /\ Units[promised[i].body] \in Nat \ {0}
         /\ EndOf(promised[i]) = promised[i].at + Units[promised[i].body]
         /\ EndOf(promised[i]) <= size
BY Numbers, LinesHaveUnits DEF RecordsPlaced, EndOf, Placed, TypeOK

(* A whole line begins with the first unit of a record and has its newline *)
(* at the end.                                                             *)
LEMMA WholeHasHead ==
  ASSUME TypeOK, NEW p \in 0..Len(file) - 1, NEW n \in 1..Len(file), Whole(p, n)
  PROVE  /\ file[p + 1].part = 1 /\ p < n
         /\ file[p + 1] \in Unit
         /\ n = p + Units[file[p + 1].body]
         /\ Units[file[p + 1].body] \in Nat \ {0}
         /\ \A k \in 1..Units[file[p + 1].body] :
              /\ file[p + k].part = k /\ file[p + k].body = file[p + 1].body
              /\ file[p + k].seq = file[p + 1].seq
<1>0. p + 1 \in 1..Len(file)
  BY Numbers
<1>1. file[p + 1] \in Unit /\ Units[file[p + 1].body] \in Nat /\ Units[file[p + 1].body] > 0
  BY <1>0, Numbers, LinesHaveUnits DEF Unit
<1>2. 1 \in 1..Units[file[p + 1].body]
  BY <1>1
<1> QED BY <1>1, <1>2 DEF Whole

(* The next unit of a record goes where no acknowledged record is, and     *)
(* makes no line whole that begins below the size.                         *)
LEMMA WriteUnitKeepsFileInv ==
  ASSUME LogInv, WriteUnit
  PROVE  /\ FileInv' /\ file' \in Seq(Unit)
         /\ Len(file') \in {Len(file), size + op.done + 1}
         /\ Len(file') >= Len(file) /\ Len(file') >= size + op.done + 1
         /\ \A k \in 1..Len(file) : k # size + op.done + 1 => file'[k] = file[k]
         /\ file'[size + op.done + 1] = [seq |-> lastSeq + 1, body |-> op.body, part |-> op.done + 1]
         /\ LineStart(size)'
<1> DEFINE N == size + op.done + 1
           unit == [seq |-> lastSeq + 1, body |-> op.body, part |-> op.done + 1]
<1>1. /\ TypeOK /\ FileInv /\ RecordsPlaced /\ HeadsNumbered /\ WholeIsPromised
      /\ WriterInPlace /\ AppendInPlace
      /\ op.pc = "write" /\ op \in OpType
  BY DEF LogInv, WriteUnit, FileInv, TypeOK
<1>2. /\ size \in Nat /\ op.done \in Nat /\ N \in Nat /\ N <= Len(file) + 1 /\ N > size
      /\ Len(file) \in Nat /\ size <= Len(file) /\ N = size + op.done + 1
  BY <1>1, Numbers DEF TypeOK, OpType, AppendInPlace
<1>3. LineStart(size) /\ lastSeq = Len(promised) /\ Len(promised) \in Nat
  BY <1>1, Numbers DEF WriterInPlace
<1>4. unit \in Unit /\ file \in Seq(Unit)
  BY <1>1, <1>2 DEF Unit, OpType, TypeOK
<1>5. /\ file' \in Seq(Unit) /\ Len(file') = IF N <= Len(file) THEN Len(file) ELSE N
      /\ \A k \in 1..Len(file) : k # N => file'[k] = file[k]
      /\ file'[N] = unit
  <2>1. CASE N <= Len(file)
    <3>1. file' = [file EXCEPT ![N] = unit] /\ N \in 1..Len(file)
      BY <1>2, <2>1 DEF WriteUnit
    <3> HIDE DEF unit, N
    <3>2. /\ file' \in Seq(Unit) /\ Len(file') = Len(file)
          /\ \A k \in 1..Len(file) : file'[k] = IF k = N THEN unit ELSE file[k]
      BY <1>4, <3>1, ExceptSeq
    <3> QED BY <2>1, <3>1, <3>2
  <2>2. CASE ~(N <= Len(file))
    <3>1. file' = Append(file, unit) /\ N = Len(file) + 1
      BY <1>2, <2>2 DEF WriteUnit
    <3> HIDE DEF unit, N
    <3>2. /\ file' \in Seq(Unit) /\ Len(file') = Len(file) + 1
          /\ \A k \in 1..Len(file) : file'[k] = file[k]
          /\ file'[Len(file) + 1] = unit
      BY <1>4, <3>1, AppendProperties
    <3> QED BY <2>2, <3>1, <3>2
  <2> QED BY <2>1, <2>2
<1>6. promised' = promised /\ size' = size
  BY DEF WriteUnit, ghosts, writer
<1>7. /\ Len(file') \in Nat /\ Len(file') >= Len(file) /\ Len(file') >= N
      /\ Len(file') \in {Len(file), N}
      /\ \A k \in 1..N - 1 : file'[k] = file[k]
  <2>1. /\ Len(file') \in Nat /\ Len(file') >= Len(file) /\ Len(file') >= N
        /\ Len(file') \in {Len(file), N}
    BY <1>2, <1>5
  <2>2. \A k \in 1..N - 1 : k \in 1..Len(file) /\ k # N
    BY <1>2
  <2> QED BY <1>5, <2>1, <2>2
<1>8. unit.seq = Len(promised) + 1 /\ unit.body = op.body /\ unit.part = op.done + 1
  BY <1>3
<1> HIDE DEF N, unit
<1>9. \A p \in Nat : p <= size /\ LineStart(p) => LineStart(p)'
  <2>1. SUFFICES ASSUME NEW p \in Nat, p <= size, LineStart(p), p # 0
                 PROVE  NewLine(file'[p])
    BY DEF LineStart, NewLine
  <2>2. file'[p] = file[p] /\ p <= Len(file)
    BY <1>2, <1>7, <2>1
  <2> QED BY <1>2, <2>1, <2>2 DEF LineStart
<1>10. RecordsPlaced'
  <2>1. ASSUME NEW i \in 1..Len(promised) PROVE InPlace(promised[i])'
    <3>0. PICK r : r = promised[i]
      OBVIOUS
    <3>1. /\ r.at \in Nat /\ r.at < size /\ Units[r.body] \in Nat
          /\ r.at + Units[r.body] <= size
      BY <1>1, <3>0, PromisedBelowSize
    <3>2. InPlace(r)
      BY <1>1, <3>0 DEF RecordsPlaced
    <3>3. \A k \in 1..Units[r.body] : r.at + k \in 1..N - 1 /\ r.at + k <= Len(file)
      BY <1>2, <3>1, SMTT(30)
    <3>4. LineStart(r.at)'
      <4>1. PICK a \in Nat : a = r.at
        BY <3>1
      <4>2. a <= size /\ LineStart(a)
        BY <3>1, <3>2, <4>1, <1>2 DEF InPlace
      <4>3. LineStart(a)'
        BY <1>9, <4>2
      <4> QED BY <4>1, <4>3
    <3>5. InPlace(r)'
      BY <1>7, <3>2, <3>3, <3>4 DEF InPlace
    <3> QED BY <3>0, <3>5, <1>6 DEF InPlace, LineStart
  <2> QED BY <1>1, <1>6, <2>1 DEF RecordsPlaced, EndOf
<1>11. HeadsNumbered'
  <2>1. SUFFICES ASSUME NEW p \in 0..Len(file') - 1, file'[p + 1].part = 1
                 PROVE  /\ LineStart(p)' /\ p <= size
                        /\ file'[p + 1].seq \in 1..Len(promised) + 1
                        /\ file'[p + 1].body = Start <=> file'[p + 1].seq = 1
                        /\ \A i \in 1..Len(promised) : promised[i].at < p <=> i < file'[p + 1].seq
    BY <1>6 DEF HeadsNumbered
  <2>2. CASE p + 1 # N
    <3>1. p \in 0..Len(file) - 1 /\ p + 1 \in 1..Len(file)
      BY <1>2, <1>7, <2>2
    <3>2. file'[p + 1] = file[p + 1]
      BY <1>5, <2>2, <3>1
    <3>3. /\ LineStart(p) /\ p <= size
          /\ file[p + 1].seq \in 1..Len(promised) + 1
          /\ file[p + 1].body = Start <=> file[p + 1].seq = 1
          /\ \A i \in 1..Len(promised) : promised[i].at < p <=> i < file[p + 1].seq
      BY <1>1, <2>1, <3>1, <3>2 DEF HeadsNumbered
    <3> QED BY <1>9, <3>1, <3>2, <3>3
  <2>3. CASE p + 1 = N
    <3>1. op.done = 0 /\ p = size /\ file'[p + 1] = unit
      BY <1>2, <1>5, <1>8, <2>1, <2>3
    <3>2. op.body = Start <=> Len(promised) = 0
      BY <1>1, <1>3, Numbers DEF AppendInPlace, WriterInPlace, Writing, TypeOK
    <3>3. \A i \in 1..Len(promised) : promised[i].at < size
      BY <1>1, PromisedBelowSize
    <3> QED BY <1>2, <1>3, <1>8, <1>9, <3>1, <3>2, <3>3
  <2> QED BY <2>2, <2>3
<1>12. WholeIsPromised'
  <2>1. SUFFICES ASSUME NEW p \in 0..Len(file') - 1, NEW n \in 1..Len(file'), p < size, Whole(p, n)'
                 PROVE  \E i \in 1..Len(promised) : promised[i].at = p
    BY <1>6 DEF WholeIsPromised
  <2> DEFINE first == file[p + 1]
  <2>2. p \in 0..Len(file) - 1 /\ p + 1 \in 1..N - 1 /\ p + 1 \in 1..Len(file)
    BY <1>2, <2>1
  <2>3. file'[p + 1] = first /\ first \in Unit
    BY <1>1, <1>7, <2>2, Numbers
  <2>4. /\ n = p + Units[first.body] /\ Units[first.body] \in Nat /\ Units[first.body] > 0
        /\ \A k \in 1..Units[first.body] :
             /\ file'[p + k].seq = first.seq
             /\ file'[p + k].body = first.body
             /\ file'[p + k].part = k
    BY <2>1, <2>3, LinesHaveUnits DEF Whole, Unit
  <2> HIDE DEF first
  <2>0. /\ p \in Nat /\ n \in Nat /\ n = p + Units[first.body] /\ Units[first.body] \in Nat
        /\ p < size
    BY <1>2, <2>1, <2>2, <2>4
  <2>5. n < N
    <3>1. SUFFICES ASSUME n >= N PROVE FALSE
      BY <1>2, <2>0
    <3>2. N - p \in 1..Units[first.body] /\ p + (N - p) = N /\ N - p > op.done + 1
      <4>1. N \in Nat /\ size \in Nat /\ op.done \in Nat /\ N = size + op.done + 1
        BY <1>2
      <4>2. PICK u \in Nat : u = Units[first.body]
        BY <2>0
      <4>3. N - p \in 1..u /\ p + (N - p) = N /\ N - p > op.done + 1
        <5>1. p \in Nat /\ p < size /\ p + u >= N
          BY <2>0, <3>1, <4>2
        <5>2. \A a, b, c, d, v \in Nat :
                a < b /\ d = b + c + 1 /\ a + v >= d =>
                  d - a \in 1..v /\ a + (d - a) = d /\ d - a > c + 1
          OBVIOUS
        <5> QED BY SMTT(20), <4>1, <5>1, <5>2
      <4> QED BY <4>2, <4>3
    <3>3. file'[N].part = N - p
      BY <2>4, <3>2
    <3> QED BY <1>2, <1>5, <1>8, <3>2, <3>3
  <2>6. n \in 1..Len(file) /\ \A k \in 1..Units[first.body] : p + k \in 1..N - 1
    <3>1. n \in 1..Len(file) /\ N - 1 \in Nat /\ p + Units[first.body] <= N - 1
      <4>1. N \in Nat /\ Len(file) \in Nat /\ N <= Len(file) + 1
        BY <1>2
      <4>2. n >= 1
        BY <2>1
      <4> QED BY <2>0, <2>5, <4>1, <4>2
    <3> QED BY <2>0, <3>1, InsideLine
  <2>7. Whole(p, n)
    BY <1>7, <2>4, <2>6 DEF Whole, first
  <2> QED BY <1>1, <2>1, <2>2, <2>6, <2>7 DEF WholeIsPromised
<1>13. FileInv' /\ LineStart(size)'
  <2>1. size <= size /\ size \in Nat /\ LineStart(size)
    BY <1>2, <1>3
  <2>2. LineStart(size)'
    BY <1>6, <1>9, <2>1 DEF LineStart
  <2> QED BY <1>10, <1>11, <1>12, <2>2 DEF FileInv
<1> QED BY <1>5, <1>7, <1>13 DEF N, unit

(* A whole line that begins at no place below the size begins at the size. *)
LEMMA HeadsBelowSize ==
  ASSUME TypeOK, HeadsNumbered, NEW p \in 0..Len(file) - 1, NEW n \in 1..Len(file), Whole(p, n)
  PROVE  /\ LineStart(p) /\ p <= size
         /\ file[p + 1].seq \in 1..Len(promised) + 1
         /\ file[p + 1].body = Start <=> file[p + 1].seq = 1
         /\ \A i \in 1..Len(promised) : promised[i].at < p <=> i < file[p + 1].seq
BY WholeHasHead DEF HeadsNumbered

(* The record that is acknowledged was written where the next line goes. *)
LEMMA AcknowledgeKeepsFileInv ==
  ASSUME LogInv, op.pc = "sync", file' = file, NEW synced \in BOOLEAN, Acknowledge(synced)
  PROVE  /\ FileInv'
         /\ promised' \in Seq(Placed) /\ Len(promised') = Len(promised) + 1
         /\ size' \in Nat /\ size' <= Len(file) /\ lastSeq' = Len(promised')
         /\ LineStart(size)'
         /\ \A i \in 1..Len(promised) : promised'[i] = promised[i]
<1> DEFINE c == Len(promised)
<1>0. PICK r : r = [seq |-> lastSeq + 1, body |-> op.body, at |-> size]
  OBVIOUS
<1>1. /\ TypeOK /\ FileInv /\ RecordsPlaced /\ HeadsNumbered /\ WholeIsPromised
      /\ WriterInPlace /\ AppendInPlace /\ op \in OpType
  BY DEF LogInv, FileInv, TypeOK
<1>2. /\ size \in Nat /\ c \in Nat /\ lastSeq = c /\ Len(file) \in Nat /\ op.body \in Bodies
      /\ Units[op.body] \in Nat /\ Units[op.body] > 0 /\ LineStart(size)
  BY <1>1, Numbers, LinesHaveUnits DEF TypeOK, OpType, WriterInPlace
<1>3. /\ size + Units[op.body] <= Len(file)
      /\ \A k \in 1..Units[op.body] :
           file[size + k] = [seq |-> lastSeq + 1, body |-> op.body, part |-> k]
  BY <1>1 DEF AppendInPlace
<1>4. r \in Placed /\ r.seq = c + 1 /\ r.body = op.body /\ r.at = size
  BY <1>0, <1>2 DEF Placed
<1>5. op.body = Start <=> c = 0
  BY <1>1, <1>2 DEF AppendInPlace, WriterInPlace, Writing, TypeOK
<1>6. promised' = Append(promised, r) /\ size' = size + Units[op.body] /\ lastSeq' = lastSeq + 1
  BY <1>0 DEF Acknowledge
<1>7. /\ promised' \in Seq(Placed) /\ Len(promised') = c + 1
      /\ \A i \in 1..c : promised'[i] = promised[i]
      /\ promised'[c + 1] = r
  BY <1>1, <1>4, <1>6, AppendProperties DEF TypeOK
<1>8. \A i \in 1..c : /\ promised[i].at \in Nat /\ promised[i].at < size
                      /\ EndOf(promised[i]) <= size
  BY <1>1, PromisedBelowSize
<1>9. \A q : InPlace(q) => InPlace(q)'
  BY DEF InPlace, LineStart
<1>10. InPlace(r)'
  <2>1. InPlace(r)
    BY <1>2, <1>3, <1>4 DEF InPlace
  <2> QED BY <2>1, <1>9
<1>11. RecordsPlaced'
  <2>1. ASSUME NEW i \in 1..c + 1
        PROVE  /\ promised'[i].seq = i
               /\ promised'[i].body = Start <=> i = 1
               /\ EndOf(promised'[i]) <= size'
               /\ \A j \in 1..i - 1 : EndOf(promised'[j]) <= promised'[i].at
               /\ InPlace(promised[i])'
    <3>1. CASE i \in 1..c
      <4>1. promised'[i] = promised[i] /\ \A j \in 1..i - 1 : promised'[j] = promised[j]
        BY <1>2, <1>7, <3>1
      <4>2. InPlace(promised[i])'
        BY <1>1, <4>1, <3>1 DEF RecordsPlaced, InPlace, LineStart
      <4>3. EndOf(promised[i]) <= size'
        BY <1>1, <1>2, <1>6, <3>1, PromisedBelowSize
      <4> QED BY <1>1, <4>1, <4>2, <4>3, <3>1 DEF RecordsPlaced
    <3>2. CASE i = c + 1
      <4>1. promised'[i] = r
        BY <1>7, <3>2
      <4>2. EndOf(r) = size'
        BY <1>4, <1>6 DEF EndOf
      <4>3. InPlace(promised[i])'
        BY <1>10, <4>1 DEF InPlace, LineStart
      <4>4. \A j \in 1..i - 1 : EndOf(promised'[j]) <= promised'[i].at
        BY <1>2, <1>4, <1>7, <1>8, <3>2, <4>1
      <4> QED BY <1>2, <1>4, <1>5, <1>6, <3>2, <4>1, <4>2, <4>3, <4>4
    <3> QED BY <1>2, <3>1, <3>2
  <2> QED BY <1>7, <2>1 DEF RecordsPlaced, EndOf
<1>12. HeadsNumbered'
  <2>1. SUFFICES ASSUME NEW p \in 0..Len(file) - 1, file[p + 1].part = 1
                 PROVE  /\ LineStart(p) /\ p <= size'
                        /\ file[p + 1].seq \in 1..Len(promised') + 1
                        /\ file[p + 1].body = Start <=> file[p + 1].seq = 1
                        /\ \A i \in 1..Len(promised') : promised'[i].at < p <=> i < file[p + 1].seq
    BY DEF HeadsNumbered, LineStart, NewLine
  <2>2. /\ LineStart(p) /\ p <= size
        /\ file[p + 1].seq \in 1..c + 1
        /\ file[p + 1].body = Start <=> file[p + 1].seq = 1
        /\ \A i \in 1..c : promised[i].at < p <=> i < file[p + 1].seq
    BY <1>1, <2>1 DEF HeadsNumbered
  <2>3. p <= size' /\ file[p + 1].seq \in 1..Len(promised') + 1
    BY <1>2, <1>6, <1>7, <2>2
  <2>4. ASSUME NEW i \in 1..Len(promised')
        PROVE  promised'[i].at < p <=> i < file[p + 1].seq
    <3>1. CASE i \in 1..c
      BY <1>7, <2>2, <3>1
    <3>2. CASE i = c + 1
      BY <1>2, <1>4, <1>7, <2>2, <3>2
    <3> QED BY <1>2, <1>7, <3>1, <3>2
  <2> QED BY <2>2, <2>3, <2>4
<1>13. WholeIsPromised'
  <2>1. SUFFICES ASSUME NEW p \in 0..Len(file) - 1, NEW n \in 1..Len(file), p < size', Whole(p, n)
                 PROVE  \E i \in 1..Len(promised') : promised'[i].at = p
    BY DEF WholeIsPromised, Whole
  <2>2. p <= size
    BY <1>1, <2>1, HeadsBelowSize
  <2>3. CASE p < size
    <3>1. PICK i \in 1..c : promised[i].at = p
      BY <1>1, <2>1, <2>3 DEF WholeIsPromised
    <3> QED BY <1>2, <1>7, <3>1
  <2>4. CASE p = size
    BY <1>2, <1>4, <1>7, <2>4
  <2> QED BY <1>2, <2>1, <2>2, <2>3, <2>4
<1>14. LineStart(size)'
  <2>1. Units[op.body] \in 1..Units[op.body]
    BY <1>2
  <2>2. file[size + Units[op.body]] = [seq |-> lastSeq + 1, body |-> op.body, part |-> Units[op.body]]
    BY <1>3, <2>1
  <2>3. NewLine(file[size + Units[op.body]])
    BY <2>2 DEF NewLine
  <2> QED BY <1>6, <2>3 DEF LineStart, NewLine
<1> QED BY <1>2, <1>3, <1>6, <1>7, <1>11, <1>12, <1>13, <1>14 DEF FileInv
-----------------------------------------------------------------------------
(* The scan stands at the start of a line that ends at n. *)
ScanAt(n) == mode = "scanning" /\ n \in LineEnds /\ \A e \in LineEnds : n <= e

LEMMA ScanNumbers ==
  ASSUME LogInv, mode = "scanning"
  PROVE  /\ scan.pos \in Nat /\ scan.last = Len(known) /\ scan.max = Len(known) /\ scan.gap \in Nat
         /\ Len(known) \in Nat /\ Len(promised) \in Nat /\ Len(file) \in Nat /\ size \in Nat
         /\ scan.pos <= Len(file) /\ Len(known) <= Len(promised) + 1
         /\ TypeOK /\ RecordsPlaced /\ HeadsNumbered /\ WholeIsPromised /\ WriterInPlace
BY Numbers DEF LogInv, ScanInPlace, TypeOK, ScanType

(* A line begins nowhere inside the line the scan stands at. *)
LEMMA ScannedLineIsOne ==
  ASSUME LogInv, NEW n, ScanAt(n)
  PROVE  /\ n \in Nat /\ scan.pos < n /\ n <= Len(file) /\ NewLine(file[n]) /\ LineStart(n)
         /\ scan.pos \in 0..Len(file) - 1
         /\ \A p \in Nat : scan.pos <= p /\ p < n /\ LineStart(p) => p = scan.pos
         /\ \A k \in Nat : scan.pos < k /\ k < n => ~NewLine(file[k])
<1>1. n \in scan.pos + 1..Len(file) /\ NewLine(file[n])
  BY DEF ScanAt, LineEnds
<1>2. scan.pos \in Nat /\ Len(file) \in Nat
  BY ScanNumbers DEF ScanAt
<1>3. ASSUME NEW k \in Nat, scan.pos < k, k < n PROVE ~NewLine(file[k])
  <2>1. k \in scan.pos + 1..Len(file)
    BY <1>1, <1>2, <1>3
  <2>2. k \notin LineEnds
    BY <1>1, <1>2, <1>3 DEF ScanAt
  <2> QED BY <2>1, <2>2 DEF LineEnds
<1>4. ASSUME NEW p \in Nat, scan.pos <= p, p < n, LineStart(p) PROVE p = scan.pos
  BY <1>1, <1>2, <1>3, <1>4 DEF LineStart
<1> QED BY <1>1, <1>2, <1>3, <1>4 DEF LineStart

(* A whole line inside the one the scan stands at is that line. *)
LEMMA ScannedWholeIsIt ==
  ASSUME LogInv, NEW n, ScanAt(n),
         NEW p \in 0..Len(file) - 1, NEW m \in 1..Len(file), Whole(p, m), scan.pos <= p, p < n
  PROVE  p = scan.pos /\ m = n
<1>1. TypeOK /\ HeadsNumbered /\ scan.pos \in Nat /\ Len(file) \in Nat
  BY ScanNumbers DEF ScanAt
<1>2. LineStart(p)
  BY <1>1, HeadsBelowSize
<1>3. p = scan.pos /\ n \in Nat /\ NewLine(file[n]) /\ \A k \in Nat : scan.pos < k /\ k < n => ~NewLine(file[k])
  BY <1>1, <1>2, ScannedLineIsOne
<1> DEFINE u == Units[file[p + 1].body]
<1>4. /\ u \in Nat /\ u > 0 /\ m = p + u
      /\ \A k \in 1..u : file[p + k].part = k /\ file[p + k].body = file[p + 1].body
  <2>1. u \in Nat \ {0} /\ m = p + u
    BY <1>1, WholeHasHead
  <2>2. \A k \in 1..u : file[p + k].part = k /\ file[p + k].body = file[p + 1].body
    BY <1>1, WholeHasHead
  <2> QED BY <2>1, <2>2
<1>5. \A k \in 1..u : NewLine(file[p + k]) <=> k = u
  BY <1>4 DEF NewLine
<1> HIDE DEF u
<1>6. ~(m < n)
  <2>1. NewLine(file[m])
    <3>1. u \in 1..u
      BY <1>4
    <3> QED BY <1>4, <1>5, <3>1
  <2> QED BY <1>1, <1>3, <1>4, <2>1
<1>7. ~(n < m)
  <2>1. SUFFICES ASSUME n < m PROVE FALSE
    OBVIOUS
  <2>2. n - p \in 1..u /\ n - p # u /\ p + (n - p) = n
    BY <1>1, <1>3, <1>4, <2>1
  <2>3. ~NewLine(file[n])
    BY <1>5, <2>2
  <2> QED BY <1>3, <2>3
<1> QED BY <1>1, <1>3, <1>4, <1>6, <1>7

(* An acknowledged record that begins in this line is the line, and the    *)
(* next one to be found.                                                   *)
LEMMA ScannedPromiseIsNext ==
  ASSUME LogInv, NEW n, ScanAt(n),
         NEW i \in 1..Len(promised), scan.pos <= promised[i].at, promised[i].at < n
  PROVE  /\ promised[i].at = scan.pos /\ i = Len(known) + 1
         /\ Whole(scan.pos, n)
         /\ file[scan.pos + 1] = [seq |-> i, body |-> promised[i].body, part |-> 1]
<1>1. /\ scan.pos \in Nat /\ Len(known) \in Nat /\ Len(promised) \in Nat /\ Len(file) \in Nat
      /\ TypeOK /\ RecordsPlaced
  BY ScanNumbers DEF ScanAt
<1>2. PICK r : r = promised[i]
  OBVIOUS
<1>3. /\ r.at \in Nat /\ Units[r.body] \in Nat /\ Units[r.body] > 0 /\ r.seq = i
      /\ InPlace(r) /\ r \in Placed
  <2>1. r.at \in Nat /\ Units[r.body] \in Nat \ {0}
    BY <1>1, <1>2, PromisedBelowSize
  <2>2. r \in Placed
    BY <1>1, <1>2, Numbers
  <2>3. r.seq = i /\ InPlace(r)
    BY <1>1, <1>2 DEF RecordsPlaced
  <2> QED BY <2>1, <2>2, <2>3
<1>4. /\ n \in Nat /\ scan.pos < n /\ n <= Len(file) /\ NewLine(file[n])
      /\ \A k \in Nat : scan.pos < k /\ k < n => ~NewLine(file[k])
      /\ \A p \in Nat : scan.pos <= p /\ p < n /\ LineStart(p) => p = scan.pos
  BY ScannedLineIsOne
<1>5. r.at = scan.pos
  BY <1>2, <1>3, <1>4 DEF InPlace
<1>6. i = Len(known) + 1
  <2>1. \A j \in 1..Len(promised) : promised[j].at < scan.pos <=> j <= Len(known)
    BY DEF LogInv, ScanInPlace, ScanAt
  <2>2. ~(i <= Len(known))
    BY <1>1, <1>2, <1>5, <2>1
  <2>3. ~(i > Len(known) + 1)
    <3>1. SUFFICES ASSUME i > Len(known) + 1 PROVE FALSE
      OBVIOUS
    <3>2. PICK j \in 1..Len(promised) : j = Len(known) + 1 /\ j \in 1..i - 1
      BY <1>1, <3>1
    <3>3. EndOf(promised[j]) <= r.at
      BY <1>1, <1>2, <3>2 DEF RecordsPlaced
    <3>4. promised[j].at < scan.pos
      <4>1. /\ promised[j].at \in Nat /\ Units[promised[j].body] \in Nat \ {0}
            /\ EndOf(promised[j]) = promised[j].at + Units[promised[j].body]
        BY <1>1, PromisedBelowSize
      <4> QED BY <1>3, <1>5, <3>3, <4>1
    <3> QED BY <1>1, <2>1, <3>2, <3>4
  <2> QED BY <1>1, <2>2, <2>3
<1> DEFINE u == Units[r.body]
<1>7. \A k \in 1..u : scan.pos + k <= Len(file) =>
        file[scan.pos + k] = [seq |-> i, body |-> r.body, part |-> k]
  BY <1>3, <1>5 DEF InPlace
<1>8. \A k \in 1..u : scan.pos + k <= Len(file) => (NewLine(file[scan.pos + k]) <=> k = u)
  <2>1. SUFFICES ASSUME NEW k \in 1..u, scan.pos + k <= Len(file)
                 PROVE  NewLine(file[scan.pos + k]) <=> k = u
    OBVIOUS
  <2>2. file[scan.pos + k] = [seq |-> i, body |-> r.body, part |-> k]
    BY <1>7, <2>1
  <2> QED BY <2>2 DEF NewLine
<1> HIDE DEF u
<1>9. u \in Nat /\ u > 0
  BY <1>3 DEF u
<1>10. n = scan.pos + u
  <2>1. ~(n < scan.pos + u)
    <3>1. SUFFICES ASSUME n < scan.pos + u PROVE FALSE
      OBVIOUS
    <3>2. n - scan.pos \in 1..u /\ n - scan.pos # u /\ scan.pos + (n - scan.pos) = n
      BY <1>1, <1>4, <1>9, <3>1
    <3> QED BY <1>4, <1>8, <3>2
  <2>2. ~(n > scan.pos + u)
    <3>1. SUFFICES ASSUME n > scan.pos + u PROVE FALSE
      OBVIOUS
    <3>2. u \in 1..u /\ scan.pos + u <= Len(file) /\ scan.pos + u \in Nat /\ scan.pos < scan.pos + u
      BY <1>1, <1>4, <1>9, <3>1
    <3> QED BY <1>4, <1>8, <3>1, <3>2
  <2>3. n \in Nat /\ scan.pos + u \in Nat
    BY <1>1, <1>4, <1>9
  <2> QED BY <2>1, <2>2, <2>3
<1>11. \A k \in 1..u : file[scan.pos + k] = [seq |-> i, body |-> r.body, part |-> k]
  <2>1. \A k \in 1..u : scan.pos + k <= Len(file)
    BY <1>1, <1>4, <1>9, <1>10
  <2> QED BY <1>7, <2>1 DEF u
<1>12. file[scan.pos + 1] = [seq |-> i, body |-> r.body, part |-> 1]
  BY <1>9, <1>11
<1>13. Whole(scan.pos, n)
  <2>1. file[scan.pos + 1].body = r.body /\ file[scan.pos + 1].seq = i
    BY <1>12
  <2>2. n = scan.pos + Units[r.body]
    BY <1>10 DEF u
  <2>3. ASSUME NEW k \in 1..Units[r.body]
        PROVE  /\ file[scan.pos + k].seq = i /\ file[scan.pos + k].body = r.body
               /\ file[scan.pos + k].part = k
    <3>1. file[scan.pos + k] = [seq |-> i, body |-> r.body, part |-> k]
      BY <1>11 DEF u
    <3> QED BY <3>1
  <2> QED BY <2>1, <2>2, <2>3 DEF Whole
<1> QED BY <1>2, <1>5, <1>6, <1>12, <1>13

(* A whole line the scan stands at is the next record: acknowledged, or    *)
(* the one that was on its way, at the size.                               *)
LEMMA ScannedWholeIsNext ==
  ASSUME LogInv, NEW n, ScanAt(n), Whole(scan.pos, n)
  PROVE  /\ Len(known) <= Len(promised)
         /\ file[scan.pos + 1].seq = Len(known) + 1
         /\ file[scan.pos + 1].body \in Bodies
         /\ file[scan.pos + 1].body = Start <=> Len(known) = 0
         /\ Len(known) < Len(promised) =>
              /\ promised[Len(known) + 1].seq = Len(known) + 1
              /\ promised[Len(known) + 1].body = file[scan.pos + 1].body
              /\ promised[Len(known) + 1].at = scan.pos
         /\ Len(known) = Len(promised) => scan.pos = size
<1>1. /\ scan.pos \in Nat /\ Len(known) \in Nat /\ Len(promised) \in Nat /\ Len(file) \in Nat
      /\ Len(known) <= Len(promised) + 1 /\ size \in Nat
      /\ TypeOK /\ RecordsPlaced /\ HeadsNumbered /\ WholeIsPromised
  BY ScanNumbers DEF ScanAt
<1>2. /\ n \in 1..Len(file) /\ scan.pos < n /\ scan.pos \in 0..Len(file) - 1
  BY <1>1, ScannedLineIsOne
<1>3. /\ scan.pos <= size
      /\ file[scan.pos + 1].seq \in 1..Len(promised) + 1
      /\ file[scan.pos + 1].body = Start <=> file[scan.pos + 1].seq = 1
      /\ \A i \in 1..Len(promised) : promised[i].at < scan.pos <=> i < file[scan.pos + 1].seq
  BY <1>1, <1>2, HeadsBelowSize
<1>4. file[scan.pos + 1].body \in Bodies
  BY <1>1, <1>2, WholeHasHead DEF Unit
<1>5. CASE scan.pos < size
  <2>1. PICK i \in 1..Len(promised) : promised[i].at = scan.pos
    BY <1>1, <1>2, <1>5 DEF WholeIsPromised
  <2>2. scan.pos <= promised[i].at /\ promised[i].at < n
    BY <1>1, <1>2, <2>1
  <2>3. /\ i = Len(known) + 1
        /\ file[scan.pos + 1] = [seq |-> i, body |-> promised[i].body, part |-> 1]
    BY <2>2, ScannedPromiseIsNext
  <2>4. file[scan.pos + 1].seq = i /\ file[scan.pos + 1].body = promised[i].body
    BY <2>3
  <2>5. promised[i].seq = i
    BY <1>1 DEF RecordsPlaced
  <2> QED BY <1>1, <1>3, <1>4, <2>1, <2>3, <2>4, <2>5
<1>6. CASE scan.pos = size
  <2>1. \A i \in 1..Len(promised) : promised[i].at < scan.pos
    BY <1>1, <1>6, PromisedBelowSize
  <2>2. file[scan.pos + 1].seq = Len(promised) + 1
    <3>1. CASE Len(promised) = 0
      BY <1>3, <3>1
    <3>2. CASE Len(promised) # 0
      <4>1. Len(promised) \in 1..Len(promised)
        BY <1>1, <3>2
      <4> QED BY <1>1, <1>3, <2>1, <4>1
    <3> QED BY <3>1, <3>2
  <2>3. \A i \in 1..Len(promised) : i <= Len(known)
    BY <2>1 DEF LogInv, ScanInPlace, ScanAt
  <2>4. Len(promised) <= Len(known)
    <3>1. CASE Len(promised) = 0
      BY <1>1, <3>1
    <3>2. CASE Len(promised) # 0
      <4>1. Len(promised) \in 1..Len(promised)
        BY <1>1, <3>2
      <4> QED BY <2>3, <4>1
    <3> QED BY <3>1, <3>2
  <2>5. Len(known) # Len(promised) + 1
    <3>1. SUFFICES ASSUME Len(known) = Len(promised) + 1 PROVE FALSE
      OBVIOUS
    <3>2. PICK r : r = known[Len(known)]
      OBVIOUS
    <3>3. Len(known) \in 1..Len(known)
      BY <1>1, <3>1
    <3>4. r.at = size /\ EndOf(r) <= scan.pos
      BY <3>1, <3>2, <3>3 DEF LogInv, ScanInPlace, ScanAt
    <3>5. Units[r.body] \in Nat /\ Units[r.body] > 0
      BY <1>1, <3>2, <3>3, Numbers, LinesHaveUnits DEF Placed
    <3> QED BY <1>1, <1>6, <3>4, <3>5 DEF EndOf
  <2>6. Len(known) = Len(promised)
    BY <1>1, <2>4, <2>5
  <2> QED BY <1>1, <1>3, <1>4, <1>6, <2>2, <2>6
<1> QED BY <1>1, <1>3, <1>5, <1>6

(* What a step of the scan leaves alone: all but the scan and what it knows. *)
LEMMA ScanStepKeepsTheRest ==
  ASSUME LogInv, UNCHANGED <<disk, writer, op, ghosts, budget, mode>>
  PROVE  /\ FileInv' /\ WriterInPlace' /\ AppendInPlace'
         /\ scan' \in ScanType /\ known' \in Seq(Placed) => TypeOK'
<1>1. FileInv'
  BY QuietKeepsFileInv DEF LogInv, FileInv, disk, writer, ghosts
<1>2. WriterInPlace' /\ AppendInPlace'
  BY DEF LogInv, WriterInPlace, AppendInPlace, LineStart, NewLine, EndOf, Writing,
         disk, writer, ghosts, budget
<1>3. scan' \in ScanType /\ known' \in Seq(Placed) => TypeOK'
  BY DEF LogInv, TypeOK, disk, writer, ghosts, budget
<1> QED BY <1>1, <1>2, <1>3

(* The line is a record, and the scan takes it. *)
LEMMA ScanTakesALine ==
  ASSUME LogInv, NEW n, ScanAt(n), Whole(scan.pos, n),
         UNCHANGED <<disk, writer, op, ghosts, budget, mode>>,
         known' = Append(known, [seq |-> file[scan.pos + 1].seq, body |-> file[scan.pos + 1].body,
                                 at |-> scan.pos]),
         scan' = [pos |-> n, last |-> file[scan.pos + 1].seq, max |-> file[scan.pos + 1].seq,
                  gap |-> 0]
  PROVE  ScanInPlace' /\ scan' \in ScanType /\ known' \in Seq(Placed)
<1> DEFINE k == Len(known)
           c == Len(promised)
<1>1. /\ scan.pos \in Nat /\ k \in Nat /\ c \in Nat /\ Len(file) \in Nat /\ size \in Nat
      /\ TypeOK /\ known \in Seq(Placed) /\ mode = "scanning"
  BY ScanNumbers DEF ScanAt, TypeOK
<1>2. /\ n \in Nat /\ scan.pos < n /\ n <= Len(file) /\ LineStart(n) /\ n \in 1..Len(file)
      /\ scan.pos \in 0..Len(file) - 1
  BY <1>1, ScannedLineIsOne
<1>3. PICK r : r = [seq |-> file[scan.pos + 1].seq, body |-> file[scan.pos + 1].body,
                    at |-> scan.pos]
  OBVIOUS
<1>4. /\ r.seq = k + 1 /\ r.at = scan.pos /\ r.body = file[scan.pos + 1].body /\ r.body \in Bodies
      /\ r.body = Start <=> r.seq = 1
      /\ k <= c
      /\ k < c => /\ promised[k + 1].seq = r.seq
                  /\ promised[k + 1].body = r.body
                  /\ promised[k + 1].at = r.at
      /\ k = c => scan.pos = size
      /\ r \in Placed
  <2>1. r.seq = file[scan.pos + 1].seq /\ r.body = file[scan.pos + 1].body /\ r.at = scan.pos
    BY <1>3
  <2>2. r.seq = k + 1 /\ r.body \in Bodies /\ (r.body = Start <=> k = 0)
    BY <2>1, ScannedWholeIsNext
  <2>3. r \in Placed
    BY <1>1, <1>3, <2>1, <2>2 DEF Placed
  <2> QED BY <1>1, <2>1, <2>2, <2>3, ScannedWholeIsNext
<1>5. k < c => promised[k + 1] = r
  <2>1. SUFFICES ASSUME k < c PROVE promised[k + 1] = r
    OBVIOUS
  <2>2. k + 1 \in 1..c
    BY <1>1, <2>1
  <2>3. promised[k + 1] \in Placed
    BY <1>1, <2>2, Numbers
  <2> QED BY <1>4, <2>1, <2>3 DEF Placed
<1>6. /\ known' \in Seq(Placed) /\ Len(known') = k + 1
      /\ \A i \in 1..k : known'[i] = known[i]
      /\ known'[k + 1] = r
  BY <1>1, <1>3, <1>4, AppendProperties
<1>7. scan'.pos = n /\ scan'.last = k + 1 /\ scan'.max = k + 1 /\ scan' \in ScanType
  <2>1. r.seq = file[scan.pos + 1].seq
    BY <1>3
  <2> QED BY <1>1, <1>2, <1>4, <2>1 DEF ScanType
<1>8. EndOf(r) = n /\ InPlace(r)
  <2>1. /\ file[scan.pos + 1] \in Unit /\ n = scan.pos + Units[r.body]
        /\ \A j \in 1..Units[r.body] :
             /\ file[scan.pos + j].part = j /\ file[scan.pos + j].body = r.body
             /\ file[scan.pos + j].seq = file[scan.pos + 1].seq
        /\ Units[r.body] \in Nat \ {0}
    <3>1. r.body = file[scan.pos + 1].body
      BY <1>3
    <3>2. /\ file[scan.pos + 1] \in Unit
          /\ n = scan.pos + Units[file[scan.pos + 1].body]
          /\ Units[file[scan.pos + 1].body] \in Nat \ {0}
          /\ \A j \in 1..Units[file[scan.pos + 1].body] :
               /\ file[scan.pos + j].part = j /\ file[scan.pos + j].body = file[scan.pos + 1].body
               /\ file[scan.pos + j].seq = file[scan.pos + 1].seq
      BY <1>1, <1>2, WholeHasHead
    <3> QED BY <3>1, <3>2
  <2>2. r.seq = file[scan.pos + 1].seq
    BY <1>3
  <2>3. ASSUME NEW j \in 1..Units[r.body]
        PROVE  file[r.at + j] = [seq |-> r.seq, body |-> r.body, part |-> j]
    <3>1. scan.pos + j \in 1..Len(file)
      <4>1. Units[r.body] \in Nat /\ scan.pos + Units[r.body] <= Len(file)
        BY <1>2, <2>1
      <4> QED BY <1>1, <4>1, InsideLine
    <3>2. file[scan.pos + j] \in Unit
      BY <1>1, <3>1, Numbers
    <3> QED BY <1>4, <2>1, <2>2, <3>2 DEF Unit
  <2>4. LineStart(scan.pos)
    BY DEF LogInv, ScanInPlace, ScanAt
  <2> QED BY <1>4, <2>1, <2>3, <2>4 DEF EndOf, InPlace
<1>9. /\ file' = file /\ promised' = promised /\ size' = size /\ mode' = mode
      /\ \A q \in Nat : LineStart(q)' <=> LineStart(q)
      /\ \A q : InPlace(q)' <=> InPlace(q)
      /\ \A p, m : Whole(p, m)' <=> Whole(p, m)
  BY DEF disk, writer, ghosts, LineStart, NewLine, InPlace, Whole
<1>10. /\ \A i \in 1..k : i <= c => known[i] = promised[i]
       /\ \A i \in 1..k : EndOf(known[i]) <= scan.pos
       /\ \A i \in 1..c : promised[i].at < scan.pos <=> i <= k
       /\ \A p \in 0..Len(file) - 1 : \A m \in 1..Len(file) :
            p < scan.pos /\ Whole(p, m) => \E i \in 1..k : known[i].at = p
  BY DEF LogInv, ScanInPlace, ScanAt
<1>11. ASSUME NEW i \in 1..k + 1, i <= c PROVE known'[i] = promised[i]
  BY <1>1, <1>5, <1>6, <1>10, <1>11
<1>12. ASSUME NEW i \in 1..k + 1 PROVE EndOf(known'[i]) <= n
  <2>1. CASE i \in 1..k
    <3>1. EndOf(known[i]) <= scan.pos /\ known[i] \in Placed
      BY <1>1, <1>10, <2>1, Numbers
    <3>2. EndOf(known[i]) \in Nat
      BY <3>1, LinesHaveUnits DEF EndOf, Placed
    <3> QED BY <1>1, <1>2, <1>6, <2>1, <3>1, <3>2
  <2>2. CASE i = k + 1
    BY <1>2, <1>6, <1>8, <2>2
  <2> QED BY <1>1, <2>1, <2>2
<1>13. ASSUME NEW i \in 1..c PROVE promised[i].at < n <=> i <= k + 1
  <2>0. promised[i].at \in Nat
    BY <1>1, PromisedBelowSize, ScanNumbers DEF ScanAt
  <2>1. CASE promised[i].at < scan.pos
    BY <1>1, <1>2, <1>10, <2>0, <2>1
  <2>2. CASE scan.pos <= promised[i].at /\ promised[i].at < n
    <3>1. i = Len(known) + 1
      BY <2>2, ScannedPromiseIsNext
    <3> QED BY <1>1, <2>2, <3>1
  <2>3. CASE n <= promised[i].at
    <3>1. ~(i <= k)
      BY <1>1, <1>2, <1>10, <2>0, <2>3
    <3>2. i # k + 1
      BY <1>1, <1>2, <1>4, <2>0, <2>3
    <3> QED BY <1>1, <1>2, <2>0, <2>3, <3>1, <3>2
  <2> QED BY <1>1, <1>2, <2>0, <2>1, <2>2, <2>3
<1>14. ASSUME NEW p \in 0..Len(file) - 1, NEW m \in 1..Len(file), p < n, Whole(p, m)
       PROVE  \E i \in 1..k + 1 : known'[i].at = p
  <2>1. CASE p < scan.pos
    <3>1. PICK i \in 1..k : known[i].at = p
      BY <1>10, <1>14, <2>1
    <3> QED BY <1>1, <1>6, <3>1
  <2>2. CASE scan.pos <= p
    <3>1. p = scan.pos
      BY <1>14, <2>2, ScannedWholeIsIt
    <3>2. known'[k + 1].at = scan.pos
      BY <1>4, <1>6
    <3>3. k + 1 \in 1..k + 1
      BY <1>1
    <3> QED BY <3>1, <3>2, <3>3
  <2> QED BY <1>1, <2>1, <2>2
<1>15. k + 1 = c + 1 => /\ r.seq = k + 1 /\ r.at = size /\ InPlace(r) /\ EndOf(r) <= Len(file)
                        /\ (r.body = Start <=> r.seq = 1)
  BY <1>1, <1>2, <1>4, <1>8
<1>16. /\ scan'.pos <= Len(file) /\ LineStart(scan'.pos) /\ scan'.last = Len(known')
       /\ scan'.max = Len(known') /\ Len(known') <= c + 1
  BY <1>1, <1>2, <1>4, <1>6, <1>7
<1>17. Len(known') = c + 1 =>
         LET q == known'[Len(known')]
         IN /\ q.seq = Len(known') /\ q.at = size /\ InPlace(q) /\ EndOf(q) <= Len(file)
            /\ q.body = Start <=> q.seq = 1
  BY <1>6, <1>15
<1> HIDE DEF k, c
<1>18. ScanInPlace'
  <2>1. \A i \in 1..Len(known') : i <= Len(promised) => known'[i] = promised[i]
    BY <1>6, <1>11 DEF c
  <2>2. \A i \in 1..Len(known') : EndOf(known'[i]) <= scan'.pos
    BY <1>6, <1>7, <1>12
  <2>3. \A i \in 1..Len(promised) : promised[i].at < scan'.pos <=> i <= Len(known')
    BY <1>6, <1>7, <1>13 DEF c
  <2>4. \A p \in 0..Len(file) - 1 : \A m \in 1..Len(file) :
          p < scan'.pos /\ Whole(p, m) => \E i \in 1..Len(known') : known'[i].at = p
    BY <1>6, <1>7, <1>14
  <2>5. LineStart(scan.pos)'
    BY <1>9, <1>16 DEF LineStart
  <2>6. Len(known') = Len(promised) + 1 => InPlace(known[Len(known)])'
    BY <1>9, <1>17 DEF InPlace, LineStart, c
  <2>7. /\ (scan.pos <= Len(file))' /\ (scan.last = Len(known))' /\ (scan.max = Len(known))'
        /\ (Len(known) <= Len(promised) + 1)'
    BY <1>9, <1>16 DEF c
  <2>8. (Len(known) = Len(promised) + 1 =>
           LET q == known[Len(known)]
           IN /\ q.seq = Len(known) /\ q.at = size /\ InPlace(q) /\ EndOf(q) <= Len(file)
              /\ q.body = Start <=> q.seq = 1)'
    BY <1>9, <1>17, <2>6 DEF EndOf, c
  <2>9. (\A i \in 1..Len(known) : EndOf(known[i]) <= scan.pos)'
    BY <2>2 DEF EndOf
  <2>10. (\A p \in 0..Len(file) - 1 : \A m \in 1..Len(file) :
            p < scan.pos /\ Whole(p, m) => \E i \in 1..Len(known) : known[i].at = p)'
    BY <1>9, <2>4 DEF Whole
  <2> QED BY <1>9, <2>1, <2>3, <2>5, <2>7, <2>8, <2>9, <2>10 DEF ScanInPlace
<1> QED BY <1>6, <1>7, <1>18

(* The line is no whole record, and no acknowledged one begins in it. *)
LEMMA ScanSkipsALine ==
  ASSUME LogInv, NEW n, ScanAt(n), ~Whole(scan.pos, n),
         UNCHANGED <<disk, writer, op, ghosts, budget, mode, known>>,
         scan' = [scan EXCEPT !.pos = n, !.gap = @ + 1]
  PROVE  ScanInPlace' /\ scan' \in ScanType
<1>1. /\ scan.pos \in Nat /\ Len(known) \in Nat /\ Len(promised) \in Nat /\ Len(file) \in Nat
      /\ TypeOK /\ mode = "scanning"
  BY ScanNumbers DEF ScanAt
<1>2. /\ n \in Nat /\ scan.pos < n /\ n <= Len(file) /\ LineStart(n)
  BY ScannedLineIsOne
<1>3. /\ scan' \in ScanType /\ scan'.pos = n /\ scan'.last = scan.last /\ scan'.max = scan.max
  <2>1. scan \in ScanType
    BY <1>1 DEF TypeOK
  <2>2. n \in Nat
    BY <1>2
  <2>3. scan.last \in Nat /\ scan.max \in Nat /\ scan.gap + 1 \in Nat
    BY <2>1 DEF ScanType
  <2>4. scan' = [pos |-> n, last |-> scan.last, max |-> scan.max, gap |-> scan.gap + 1]
    BY <2>1 DEF ScanType
  <2>5. scan'.pos = n /\ scan'.last = scan.last /\ scan'.max = scan.max
    BY <2>4
  <2> QED BY <2>2, <2>3, <2>4, <2>5 DEF ScanType
<1>4. /\ scan.last = Len(known) /\ scan.max = Len(known) /\ Len(known) <= Len(promised) + 1
      /\ \A i \in 1..Len(known) : i <= Len(promised) => known[i] = promised[i]
      /\ Len(known) = Len(promised) + 1 =>
           LET r == known[Len(known)]
           IN /\ r.seq = Len(known) /\ r.at = size /\ InPlace(r) /\ EndOf(r) <= Len(file)
              /\ r.body = Start <=> r.seq = 1
      /\ \A i \in 1..Len(known) : EndOf(known[i]) <= scan.pos
      /\ \A i \in 1..Len(promised) : promised[i].at < scan.pos <=> i <= Len(known)
      /\ \A p \in 0..Len(file) - 1 : \A m \in 1..Len(file) :
           p < scan.pos /\ Whole(p, m) => \E i \in 1..Len(known) : known[i].at = p
  BY DEF LogInv, ScanInPlace, ScanAt
<1>5. /\ file' = file /\ promised' = promised /\ size' = size /\ mode' = mode /\ known' = known
      /\ \A q \in Nat : LineStart(q)' <=> LineStart(q)
      /\ \A q : InPlace(q)' <=> InPlace(q)
      /\ \A p, m : Whole(p, m)' <=> Whole(p, m)
  BY DEF disk, writer, ghosts, LineStart, NewLine, InPlace, Whole
<1>6. ASSUME NEW i \in 1..Len(promised) PROVE promised[i].at < n <=> i <= Len(known)
  <2>1. promised[i].at \in Nat
    BY <1>1, PromisedBelowSize, ScanNumbers
  <2>2. ~(scan.pos <= promised[i].at /\ promised[i].at < n)
    BY ScannedPromiseIsNext
  <2>3. promised[i].at < n <=> promised[i].at < scan.pos
    BY <1>1, <1>2, <2>1, <2>2
  <2> QED BY <1>4, <2>3
<1>7. ASSUME NEW p \in 0..Len(file) - 1, NEW m \in 1..Len(file), p < n, Whole(p, m)
      PROVE  \E i \in 1..Len(known) : known[i].at = p
  <2>1. ~(scan.pos <= p)
    BY <1>7, ScannedWholeIsIt
  <2>2. p < scan.pos
    BY <1>1, <2>1
  <2> QED BY <1>4, <1>7, <2>2
<1>8. ASSUME NEW i \in 1..Len(known) PROVE EndOf(known[i]) <= n
  <2>1. EndOf(known[i]) <= scan.pos /\ known[i] \in Placed
    BY <1>1, <1>4, Numbers
  <2>2. EndOf(known[i]) \in Nat
    BY <2>1, LinesHaveUnits DEF EndOf, Placed
  <2> QED BY <1>1, <1>2, <2>1, <2>2
<1>9. LineStart(scan.pos)'
  BY <1>2, <1>3, <1>5 DEF LineStart
<1>10. Len(known) = Len(promised) + 1 => InPlace(known[Len(known)])'
  BY <1>4, <1>5 DEF InPlace, LineStart
<1>11. ScanInPlace'
  <2>1. /\ scan'.pos <= Len(file) /\ scan'.last = Len(known) /\ scan'.max = Len(known)
    BY <1>2, <1>3, <1>4
  <2>2. \A i \in 1..Len(promised) : promised[i].at < scan'.pos <=> i <= Len(known)
    BY <1>3, <1>6
  <2>3. \A p \in 0..Len(file) - 1 : \A m \in 1..Len(file) :
          p < scan'.pos /\ Whole(p, m) => \E i \in 1..Len(known) : known[i].at = p
    BY <1>3, <1>7
  <2>4. \A i \in 1..Len(known) : EndOf(known[i]) <= scan'.pos
    BY <1>3, <1>8
  <2> QED BY <1>4, <1>5, <1>9, <1>10, <2>1, <2>2, <2>3, <2>4
          DEF ScanInPlace, EndOf, Whole
<1> QED BY <1>3, <1>11

LEMMA ScanLineKeeps ==
  ASSUME LogInv, ScanLine
  PROVE  LogInv'
<1>1. PICK n \in LineEnds :
        /\ \A e \in LineEnds : n <= e
        /\ IF Whole(scan.pos, n) /\ Follows(file[scan.pos + 1].seq, file[scan.pos + 1].body)
             THEN /\ known' = Append(known, [seq |-> file[scan.pos + 1].seq,
                                             body |-> file[scan.pos + 1].body, at |-> scan.pos])
                  /\ scan' = [pos |-> n, last |-> file[scan.pos + 1].seq,
                              max |-> file[scan.pos + 1].seq, gap |-> 0]
             ELSE /\ scan' = [scan EXCEPT !.pos = n, !.gap = @ + 1,
                                !.max = IF /\ Whole(scan.pos, n)
                                           /\ Plausible(file[scan.pos + 1].seq)
                                           /\ @ < file[scan.pos + 1].seq
                                          THEN file[scan.pos + 1].seq ELSE @]
                  /\ UNCHANGED known
  BY DEF ScanLine
<1>2. ScanAt(n) /\ UNCHANGED <<disk, writer, op, ghosts, budget, mode>>
  BY <1>1 DEF ScanAt, ScanLine
<1>3. CASE Whole(scan.pos, n)
  <2>1. Follows(file[scan.pos + 1].seq, file[scan.pos + 1].body)
    <3>1. /\ scan.last = Len(known) /\ Len(known) \in Nat /\ scan.gap \in Nat
      BY <1>2, ScanNumbers DEF ScanAt
    <3>2. /\ file[scan.pos + 1].seq = Len(known) + 1
          /\ file[scan.pos + 1].body = Start <=> Len(known) = 0
      BY <1>2, <1>3, ScannedWholeIsNext
    <3> QED BY <3>1, <3>2 DEF Follows, Plausible
  <2>2. ScanInPlace' /\ scan' \in ScanType /\ known' \in Seq(Placed)
    BY <1>1, <1>2, <1>3, <2>1, ScanTakesALine
  <2> QED BY <1>2, <2>2, ScanStepKeepsTheRest DEF LogInv, FileInv
<1>4. CASE ~Whole(scan.pos, n)
  <2>1. /\ scan' = [scan EXCEPT !.pos = n, !.gap = @ + 1]
        /\ UNCHANGED known
    <3>1. scan \in ScanType
      BY DEF LogInv, TypeOK
    <3> QED BY <1>1, <1>4, <3>1 DEF ScanType
  <2>2. ScanInPlace' /\ scan' \in ScanType /\ known' \in Seq(Placed)
    <3>1. known \in Seq(Placed)
      BY DEF LogInv, TypeOK
    <3>2. ScanInPlace' /\ scan' \in ScanType
      BY <1>2, <1>4, <2>1, ScanSkipsALine
    <3> QED BY <2>1, <3>1, <3>2
  <2> QED BY <1>2, <2>2, ScanStepKeepsTheRest DEF LogInv, FileInv
<1> QED BY <1>3, <1>4

(* A scan that found no record leaves the session closed. *)
LEMMA ScanEndEmptyKeeps ==
  ASSUME LogInv, ScanEnd, known = <<>>
  PROVE  LogInv'
<1>1. /\ UNCHANGED <<disk, writer, op, ghosts, budget, scan, known>>
      /\ mode = "scanning" /\ mode' = "closed"
  BY DEF ScanEnd
<1>2. op.pc = "none"
  BY <1>1 DEF LogInv, AppendInPlace, Writing
<1>3. FileInv'
  BY <1>1, QuietKeepsFileInv DEF LogInv, FileInv, disk, writer, ghosts
<1>4. TypeOK'
  BY <1>1 DEF LogInv, TypeOK, disk, writer, ghosts, budget, Modes
<1>5. WriterInPlace'
  BY <1>1 DEF LogInv, WriterInPlace, LineStart, NewLine, EndOf, Writing, disk, writer, ghosts
<1>6. AppendInPlace' /\ ScanInPlace'
  BY <1>1, <1>2 DEF AppendInPlace, ScanInPlace
<1> QED BY <1>3, <1>4, <1>5, <1>6 DEF LogInv, FileInv

(* No newline is left ahead of a scan that is at its end. *)
LEMMA NoNewLineAhead ==
  ASSUME LogInv, mode = "scanning", LineEnds = {}, NEW e \in 1..Len(file), NewLine(file[e])
  PROVE  e <= scan.pos
<1>1. scan.pos \in Nat /\ Len(file) \in Nat
  BY ScanNumbers
<1>2. e \notin scan.pos + 1..Len(file)
  BY DEF LineEnds
<1> QED BY <1>1, <1>2

(* A scan at its end has found every acknowledged record that is whole in  *)
(* the file.                                                               *)
LEMMA WhatIsThereIsFound ==
  ASSUME LogInv, mode = "scanning", LineEnds = {},
         NEW i \in 1..Len(promised), EndOf(promised[i]) <= Len(file)
  PROVE  i <= Len(known)
<1>0. PICK r : r = promised[i]
  OBVIOUS
<1>1. /\ scan.pos \in Nat /\ Len(file) \in Nat
      /\ r.at \in Nat /\ Units[r.body] \in Nat /\ Units[r.body] > 0 /\ InPlace(r)
      /\ EndOf(r) = r.at + Units[r.body]
  <2>1. /\ scan.pos \in Nat /\ Len(file) \in Nat /\ TypeOK /\ RecordsPlaced
    BY ScanNumbers
  <2>2. /\ r.at \in Nat /\ Units[r.body] \in Nat \ {0} /\ EndOf(r) = r.at + Units[r.body]
    BY <1>0, <2>1, PromisedBelowSize
  <2>3. InPlace(r)
    BY <1>0, <2>1 DEF RecordsPlaced
  <2> QED BY <2>1, <2>2, <2>3
<1>2. EndOf(r) \in 1..Len(file) /\ Units[r.body] \in 1..Units[r.body]
  BY <1>0, <1>1
<1>3. file[EndOf(r)] = [seq |-> r.seq, body |-> r.body, part |-> Units[r.body]]
  BY <1>1, <1>2 DEF InPlace
<1>4. NewLine(file[EndOf(r)])
  BY <1>3 DEF NewLine
<1>5. EndOf(r) <= scan.pos
  BY <1>2, <1>4, NoNewLineAhead
<1>6. r.at < scan.pos
  BY <1>1, <1>5
<1> QED BY <1>0, <1>6 DEF LogInv, ScanInPlace

(* ... and so what an fsync covered. *)
LEMMA SyncedIsFound ==
  ASSUME LogInv, mode = "scanning", LineEnds = {}
  PROVE  safe <= Len(known) /\ safe <= Len(promised) /\ safe \in Nat
<1>1. /\ safe \in 0..Len(promised) /\ durable \in 0..Len(file)
      /\ Len(promised) \in Nat /\ Len(known) \in Nat /\ Len(file) \in Nat
  BY Numbers DEF LogInv, TypeOK
<1>2. CASE safe = 0
  BY <1>1, <1>2
<1>3. CASE safe # 0
  <2>1. safe \in 1..safe /\ safe \in 1..Len(promised)
    BY <1>1, <1>3
  <2>2. EndOf(promised[safe]) <= durable
    BY <2>1 DEF LogInv, WriterInPlace
  <2>3. EndOf(promised[safe]) \in Nat
    BY <2>1, PromisedBelowSize DEF LogInv
  <2>4. EndOf(promised[safe]) <= Len(file)
    BY <1>1, <2>2, <2>3
  <2> QED BY <1>1, <2>1, <2>4, WhatIsThereIsFound
<1> QED BY <1>1, <1>2, <1>3

(* What the scan knows at its end is what the writer takes over. *)
LEMMA ScanEndKeeps ==
  ASSUME LogInv, ScanEnd
  PROVE  LogInv'
<1>0. CASE known = <<>>
  BY <1>0, ScanEndEmptyKeeps
<1>1. CASE known # <<>>
  <2> DEFINE k == Len(known)
             c == Len(promised)
  <2>1. /\ scan.pos \in Nat /\ k \in Nat /\ c \in Nat /\ Len(file) \in Nat /\ size \in Nat
        /\ scan.pos <= Len(file) /\ k <= c + 1 /\ scan.max = k
        /\ TypeOK /\ RecordsPlaced /\ HeadsNumbered /\ WriterInPlace /\ mode = "scanning"
    BY ScanNumbers DEF ScanEnd
  <2>2. /\ file' = file /\ durable' = durable /\ mode' = "open" /\ size' = scan.pos
        /\ lastSeq' = scan.max /\ torn' = (IF scan.pos < Len(file) THEN scan.pos ELSE 0)
        /\ promised' = known /\ lost' = FALSE /\ stray' = FALSE
        /\ UNCHANGED <<safe, op, scan, known, faults, deaths>>
    BY <1>1 DEF ScanEnd, disk, budget
  <2>3. op.pc = "none"
    BY <2>1 DEF LogInv, AppendInPlace, Writing
  <2>4. /\ LineStart(scan.pos)
        /\ \A i \in 1..k : i <= c => known[i] = promised[i]
        /\ k = c + 1 =>
             /\ known[k].seq = k /\ known[k].at = size /\ InPlace(known[k])
             /\ known[k].body = Start <=> known[k].seq = 1
        /\ \A i \in 1..k : EndOf(known[i]) <= scan.pos
        /\ \A i \in 1..c : promised[i].at < scan.pos <=> i <= k
        /\ \A p \in 0..Len(file) - 1 : \A m \in 1..Len(file) :
             p < scan.pos /\ Whole(p, m) => \E i \in 1..k : known[i].at = p
    BY <2>1 DEF LogInv, ScanInPlace
  <2>5. ASSUME NEW e \in 1..Len(file), NewLine(file[e]) PROVE e <= scan.pos
    BY <2>1, <2>5, NoNewLineAhead DEF ScanEnd
  <2>7. safe <= k /\ safe <= c /\ safe \in Nat
    BY <2>1, SyncedIsFound DEF ScanEnd
  <2>8. TypeOK'
    <3>1. safe' \in 0..Len(promised')
      BY <2>1, <2>2, <2>7
    <3>2. torn' \in Nat /\ size' \in Nat /\ lastSeq' \in Nat /\ mode' \in Modes
      BY <2>1, <2>2 DEF Modes
    <3> QED BY <2>1, <2>2, <3>1, <3>2 DEF TypeOK
  <2>9. /\ \A p \in Nat : LineStart(p) => LineStart(p)'
        /\ \A r : InPlace(r) => InPlace(r)'
        /\ \A p, m : Whole(p, m)' <=> Whole(p, m)
    BY <2>2 DEF LineStart, NewLine, InPlace, Whole
  <2>10. RecordsPlaced'
    <3>1. ASSUME NEW i \in 1..k
          PROVE  /\ known[i].seq = i
                 /\ known[i].body = Start <=> i = 1
                 /\ EndOf(known[i]) <= scan.pos
                 /\ \A j \in 1..i - 1 : EndOf(known[j]) <= known[i].at
                 /\ InPlace(known[i])
      <4>1. CASE i <= c
        <5>1. i \in 1..c /\ known[i] = promised[i] /\ \A j \in 1..i - 1 : known[j] = promised[j]
          BY <2>1, <2>4, <4>1
        <5>2. /\ promised[i].seq = i
              /\ promised[i].body = Start <=> i = 1
              /\ \A j \in 1..i - 1 : EndOf(promised[j]) <= promised[i].at
              /\ InPlace(promised[i])
          BY <2>1, <5>1 DEF RecordsPlaced
        <5> QED BY <2>4, <5>1, <5>2
      <4>2. CASE ~(i <= c)
        <5>1. i = k /\ k = c + 1
          BY <2>1, <4>2
        <5>2. ASSUME NEW j \in 1..i - 1 PROVE EndOf(known[j]) <= size
          <6>1. j \in 1..c /\ known[j] = promised[j]
            BY <2>1, <2>4, <5>1
          <6> QED BY <2>1, <6>1, PromisedBelowSize
        <5> QED BY <2>4, <5>1, <5>2
      <4> QED BY <4>1, <4>2
    <3>2. ASSUME NEW i \in 1..k PROVE InPlace(promised[i])'
      <4>1. InPlace(known[i])
        BY <3>1
      <4> QED BY <2>2, <4>1 DEF InPlace, LineStart, NewLine
    <3> QED BY <2>2, <3>1, <3>2 DEF RecordsPlaced, EndOf
  <2>11. HeadsNumbered'
    <3>1. SUFFICES ASSUME NEW p \in 0..Len(file) - 1, file[p + 1].part = 1
                   PROVE  /\ LineStart(p) /\ p <= scan.pos
                          /\ file[p + 1].seq \in 1..k + 1
                          /\ file[p + 1].body = Start <=> file[p + 1].seq = 1
                          /\ \A i \in 1..k : known[i].at < p <=> i < file[p + 1].seq
      BY <2>2 DEF HeadsNumbered, LineStart, NewLine
    <3>2. PICK h : h = file[p + 1]
      OBVIOUS
    <3>3. /\ LineStart(p) /\ p <= size
          /\ h.seq \in 1..c + 1
          /\ h.body = Start <=> h.seq = 1
          /\ \A i \in 1..c : promised[i].at < p <=> i < h.seq
      BY <2>1, <3>1, <3>2 DEF HeadsNumbered
    <3>4. p <= scan.pos
      BY <2>1, <2>5, <3>3 DEF LineStart
    <3>5. h.seq \in 1..k + 1
      <4>1. SUFFICES ASSUME h.seq > k + 1 PROVE FALSE
        BY <2>1, <3>3
      <4>2. k + 1 \in 1..c /\ k + 1 < h.seq
        BY <2>1, <3>3, <4>1
      <4>3. promised[k + 1].at < p /\ promised[k + 1].at \in Nat
        BY <2>1, <3>3, <4>2, PromisedBelowSize
      <4>4. promised[k + 1].at < scan.pos
        BY <2>1, <3>4, <4>3
      <4> QED BY <2>1, <2>4, <4>2, <4>4
    <3>6. ASSUME NEW i \in 1..k PROVE known[i].at < p <=> i < h.seq
      <4>1. CASE i <= c
        <5>1. i \in 1..c /\ known[i] = promised[i]
          BY <2>1, <2>4, <4>1
        <5> QED BY <3>3, <5>1
      <4>2. CASE ~(i <= c)
        <5>1. i = k /\ k = c + 1
          BY <2>1, <4>2
        <5> QED BY <2>1, <2>4, <3>3, <5>1
      <4> QED BY <4>1, <4>2
    <3> QED BY <3>2, <3>3, <3>4, <3>5, <3>6
  <2>12. WholeIsPromised'
    BY <2>2, <2>4, <2>9 DEF WholeIsPromised
  <2>13. WriterInPlace'
    <3>1. LineStart(size)'
      BY <2>2, <2>4 DEF LineStart, NewLine
    <3>2. ASSUME NEW i \in 1..safe PROVE EndOf(known[i]) <= durable
      <4>1. known[i] = promised[i]
        <5>1. i \in 1..k /\ i <= c
          BY <2>1, <2>7
        <5> QED BY <2>4, <5>1
      <4> QED BY <2>1, <4>1 DEF WriterInPlace
    <3>3. torn' # 0 => torn' = size' /\ \A p \in scan.pos + 1..Len(file) : ~NewLine(file[p])
      BY <2>1, <2>2, <2>5
    <3> QED BY <1>1, <2>1, <2>2, <3>1, <3>2, <3>3 DEF WriterInPlace, Writing, EndOf, NewLine
  <2>14. AppendInPlace' /\ ScanInPlace'
    BY <2>2, <2>3 DEF AppendInPlace, ScanInPlace
  <2> QED BY <2>8, <2>10, <2>11, <2>12, <2>13, <2>14 DEF LogInv
<1> QED BY <1>0, <1>1
-----------------------------------------------------------------------------
(* A step that touches neither the file, nor the writer, nor what was      *)
(* acknowledged.                                                           *)
LEMMA StillStepKeeps ==
  ASSUME LogInv, UNCHANGED <<disk, writer, promised, safe, lost>>,
         op' \in OpType, mode' \in Modes, scan' \in ScanType, known' \in Seq(Placed),
         stray' \in BOOLEAN, faults' \in Nat, deaths' \in Nat,
         lost => mode' \in {"closed", "scanning"},
         mode' \in {"absent", "creating"} => mode \in {"absent", "creating"},
         mode' \in Writing => mode \in Writing
  PROVE  TypeOK' /\ FileInv' /\ WriterInPlace'
<1>1. FileInv'
  BY QuietKeepsFileInv DEF LogInv, FileInv, disk, writer
<1>2. TypeOK'
  BY DEF LogInv, TypeOK, disk, writer
<1>3. WriterInPlace'
  BY DEF LogInv, WriterInPlace, LineStart, NewLine, EndOf, disk, writer
<1> QED BY <1>1, <1>2, <1>3

(* No append is under way and no scan. *)
LEMMA IdleInPlace ==
  ASSUME op'.pc = "none", mode' \notin {"creating", "scanning"}
  PROVE  AppendInPlace' /\ ScanInPlace'
BY DEF AppendInPlace, ScanInPlace

LEMMA NoOpType == NoOp \in OpType /\ NoOp.pc = "none" /\ NoScan \in ScanType
BY BodiesAssumption DEF NoOp, NoScan, OpType, ScanType, Steps

LEMMA InitEstablishes == Init => LogInv
<1> SUFFICES ASSUME Init PROVE LogInv
  OBVIOUS
<1>1. /\ file = <<>> /\ durable = 0 /\ mode = "absent"
      /\ size = 0 /\ lastSeq = 0 /\ torn = 0
      /\ op = NoOp /\ scan = NoScan /\ known = <<>>
      /\ promised = <<>> /\ safe = 0 /\ lost = FALSE /\ stray = FALSE
      /\ faults = 0 /\ deaths = 0
  BY DEF Init
<1>2. Len(file) = 0 /\ Len(promised) = 0
  BY <1>1
<1>3. TypeOK
  <2>1. file \in Seq(Unit) /\ known \in Seq(Placed) /\ promised \in Seq(Placed)
    BY <1>1
  <2>2. durable \in 0..Len(file) /\ safe \in 0..Len(promised)
    BY <1>1, <1>2
  <2> QED BY <1>1, <2>1, <2>2, NoOpType DEF TypeOK, Modes
<1>4. RecordsPlaced /\ HeadsNumbered /\ WholeIsPromised
  BY <1>2 DEF RecordsPlaced, HeadsNumbered, WholeIsPromised
<1>5. WriterInPlace
  BY <1>1, <1>2 DEF WriterInPlace, LineStart, Writing
<1>6. AppendInPlace /\ ScanInPlace
  BY <1>1, NoOpType DEF AppendInPlace, ScanInPlace
<1> QED BY <1>3, <1>4, <1>5, <1>6 DEF LogInv

(* A write that goes to the place of the next line begins with no unit. *)
LEMMA WriteOfInPlace ==
  ASSUME TypeOK', NEW body \in Bodies, NEW after \in Bodies, op' = WriteOf(body, after),
         mode' \in Writing \union {"creating"}, body = Start <=> mode' = "creating",
         torn' = 0, size' <= Len(file')
  PROVE  AppendInPlace' /\ ScanInPlace'
<1>1. op'.pc = "write" /\ op'.body = body /\ op'.done = 0
  BY DEF WriteOf
<1>2. Units[body] \in Nat /\ Units[body] > 0 /\ size' \in Nat
  BY LinesHaveUnits DEF TypeOK
<1>3. mode' # "scanning"
  BY DEF Writing
<1> QED BY <1>1, <1>2, <1>3 DEF AppendInPlace, ScanInPlace

LEMMA WriteOfType ==
  ASSUME NEW body \in Bodies, NEW after \in Bodies
  PROVE  WriteOf(body, after) \in OpType /\ [WriteOf(body, after) EXCEPT !.pc = "cut"] \in OpType
BY DEF WriteOf, OpType, Steps

LEMMA CreateKeeps ==
  ASSUME LogInv, Create
  PROVE  LogInv'
<1>1. /\ mode = "absent" /\ mode' = "creating" /\ op' = WriteOf(Start, Start)
      /\ UNCHANGED <<disk, writer, scan, known, ghosts, budget>>
  BY DEF Create
<1>2. Start \in Bodies
  BY BodiesAssumption
<1>3. size = 0 /\ torn = 0 /\ ~lost /\ Len(file) \in Nat
  BY <1>1, Numbers DEF LogInv, WriterInPlace, TypeOK
<1>4. TypeOK' /\ FileInv' /\ WriterInPlace'
  <2>1. op' \in OpType
    BY <1>1, <1>2, WriteOfType
  <2> QED BY <1>1, <1>3, <2>1, StillStepKeeps DEF LogInv, TypeOK, Modes, Writing, ghosts, budget
<1>5. AppendInPlace' /\ ScanInPlace'
  BY <1>1, <1>2, <1>3, <1>4, WriteOfInPlace DEF disk, writer
<1> QED BY <1>4, <1>5 DEF LogInv, FileInv

LEMMA BeginKeeps ==
  ASSUME LogInv, NEW body \in Bodies, Begin(body)
  PROVE  LogInv'
<1>1. /\ mode \in Writing /\ mode' = mode /\ body # Start
      /\ UNCHANGED <<disk, writer, scan, known, ghosts, budget>>
  BY DEF Begin
<1>2. Start \in Bodies /\ Repair \in Bodies /\ Repair # Start
  BY BodiesAssumption
<1>3. ~lost /\ size <= Len(file)
  BY <1>1 DEF LogInv, WriterInPlace, Writing
<1>4. op' \in OpType
  BY <1>2, WriteOfType DEF Begin
<1>5. TypeOK' /\ FileInv' /\ WriterInPlace'
  BY <1>1, <1>3, <1>4, StillStepKeeps DEF LogInv, TypeOK, Modes, Writing, ghosts, budget
<1>6. AppendInPlace' /\ ScanInPlace'
  <2>1. CASE torn = 0
    <3>1. op' = WriteOf(body, Start)
      BY <2>1 DEF Begin
    <3> QED BY <1>1, <1>2, <1>3, <1>5, <2>1, <3>1, WriteOfInPlace DEF disk, writer, Writing
  <2>2. CASE torn # 0
    <3>1. op'.pc = "cut" /\ op'.body = Repair /\ op'.done = 0
      BY <2>2 DEF Begin, WriteOf
    <3>2. mode' \in Writing /\ mode' # "creating" /\ mode' # "scanning" /\ torn' # 0
      BY <1>1, <2>2 DEF Writing, writer
    <3> QED BY <1>2, <3>1, <3>2 DEF AppendInPlace, ScanInPlace
  <2> QED BY <2>1, <2>2
<1> QED BY <1>5, <1>6 DEF LogInv, FileInv

LEMMA LockKeeps ==
  ASSUME LogInv, Lock
  PROVE  LogInv'
<1>1. /\ mode = "closed" /\ mode' = "scanning" /\ scan' = NoScan /\ known' = <<>>
      /\ UNCHANGED <<disk, writer, op, promised, safe, lost, stray, budget>>
  BY DEF Lock
<1>2. TypeOK' /\ FileInv' /\ WriterInPlace'
  <2>1. known' \in Seq(Placed) /\ scan' \in ScanType
    BY <1>1, NoOpType
  <2> QED BY <1>1, <2>1, StillStepKeeps DEF LogInv, TypeOK, Modes, Writing, budget
<1>3. AppendInPlace'
  <2>1. op.pc = "none" /\ op' = op
    BY <1>1 DEF LogInv, AppendInPlace, Writing
  <2> QED BY <1>1, <2>1 DEF AppendInPlace
<1>4. ScanInPlace'
  <2>1. scan'.pos = 0 /\ scan'.last = 0 /\ scan'.max = 0 /\ Len(known') = 0 /\ promised' = promised
    BY <1>1 DEF NoScan
  <2>2. \A i \in 1..Len(promised) : promised[i].at \in Nat
    BY PromisedBelowSize DEF LogInv
  <2>3. Len(file') \in Nat /\ Len(promised) \in Nat /\ LineStart(scan.pos)'
    BY <1>2, <2>1, Numbers DEF LineStart, LogInv, TypeOK
  <2> QED BY <2>1, <2>2, <2>3 DEF ScanInPlace
<1> QED BY <1>2, <1>3, <1>4 DEF LogInv, FileInv

(* The holder lets go of the session: in order, or killed. *)
LEMMA LetGoKeeps ==
  ASSUME LogInv, Release \/ Close \/ Kill
  PROVE  LogInv'
<1>1. CASE Release
  <2>1. /\ mode = "open" /\ mode' = "releasing" /\ op.pc = "none"
        /\ UNCHANGED <<disk, writer, op, scan, known, ghosts, budget>>
    BY <1>1 DEF Release
  <2>2. TypeOK' /\ FileInv' /\ WriterInPlace'
    <3>1. ~lost
      BY <2>1 DEF LogInv, WriterInPlace
    <3> QED BY <2>1, <3>1, StillStepKeeps DEF LogInv, TypeOK, Modes, Writing, ghosts, budget
  <2>3. AppendInPlace' /\ ScanInPlace'
    BY <2>1, IdleInPlace
  <2> QED BY <2>2, <2>3 DEF LogInv, FileInv
<1>2. CASE Close \/ Kill
  <2>1. /\ mode' = "closed" /\ op' = NoOp
        /\ stray' = (stray \/ op.pc # "none")
        /\ UNCHANGED <<disk, writer, scan, known, promised, safe, lost>>
        /\ faults' = faults /\ deaths' \in {deaths, deaths + 1}
    BY <1>2 DEF Close, Kill, Dropped, Dies, budget
  <2>2. TypeOK' /\ FileInv' /\ WriterInPlace'
    <3>1. /\ op' \in OpType /\ mode' \in Modes /\ stray' \in BOOLEAN /\ mode' \notin Writing
          /\ scan' \in ScanType /\ known' \in Seq(Placed)
          /\ faults' \in Nat /\ deaths' \in Nat
      BY <2>1, NoOpType DEF LogInv, TypeOK, Modes, Writing
    <3> QED BY <2>1, <3>1, StillStepKeeps
  <2>3. AppendInPlace' /\ ScanInPlace'
    BY <2>1, NoOpType, IdleInPlace
  <2> QED BY <2>2, <2>3 DEF LogInv, FileInv
<1> QED BY <1>1, <1>2
-----------------------------------------------------------------------------
(* While an append is under way there is a writer, and no scan. *)
LEMMA AppendUnderWay ==
  ASSUME LogInv, op.pc # "none"
  PROVE  /\ mode \in Writing \union {"creating"} /\ mode # "scanning" /\ ~lost
         /\ size <= Len(file) /\ lastSeq = Len(promised) /\ op \in OpType
         /\ size \in Nat /\ Len(file) \in Nat /\ Len(promised) \in Nat
         /\ op.body = Start <=> mode = "creating"
         /\ Units[op.body] \in Nat /\ Units[op.body] > 0
<1>1. mode \in Writing \union {"creating"}
  BY DEF LogInv, AppendInPlace
<1>2. mode # "scanning" /\ ~lost
  BY <1>1 DEF LogInv, WriterInPlace, Writing
<1>3. op \in OpType /\ op.body \in Bodies
  BY DEF LogInv, TypeOK, OpType
<1> QED BY <1>1, <1>2, <1>3, Numbers, LinesHaveUnits
        DEF LogInv, WriterInPlace, AppendInPlace, TypeOK

(* An append that fails, and leaves the file as it is. *)
LEMMA FailureKeeps ==
  ASSUME LogInv, op.pc # "none", Fails, Reject \/ Broken,
         Reject => mode = "creating" \/ mode' = mode,
         Broken => op.pc \in {"write", "sync"},
         UNCHANGED <<disk, writer, promised, safe, lost, scan, known>>,
         stray' \in BOOLEAN
  PROVE  LogInv'
<1>1. /\ mode \in Writing \union {"creating"} /\ ~lost /\ op \in OpType /\ mode # "scanning"
      /\ op.body = Start <=> mode = "creating"
  BY AppendUnderWay
<1>2. mode' = IF mode = "creating" /\ op'.pc = "none" THEN "closed" ELSE mode
  BY NoOpType DEF Reject, Broken
<1>3. op' = NoOp \/ (Broken /\ mode # "creating" /\ op' = [op EXCEPT !.pc = "undo"])
  BY DEF Reject, Broken
<1>4. op' \in OpType
  BY <1>1, <1>3, NoOpType DEF OpType, Steps
<1>5. TypeOK' /\ FileInv' /\ WriterInPlace'
  <2>1. /\ mode' \in Modes /\ faults' \in Nat /\ deaths' \in Nat
        /\ scan' \in ScanType /\ known' \in Seq(Placed)
    BY <1>1, <1>2 DEF LogInv, TypeOK, Modes, Writing, Fails
  <2>2. mode' \in Writing => mode \in Writing
    BY <1>1, <1>2 DEF Writing
  <2>3. mode' \in {"absent", "creating"} => mode \in {"absent", "creating"}
    BY <1>1, <1>2 DEF Writing
  <2> QED BY <1>1, <1>4, <2>1, <2>2, <2>3, StillStepKeeps
<1>6. AppendInPlace' /\ ScanInPlace'
  <2>1. CASE op' = NoOp
    <3>1. mode' \notin {"creating", "scanning"} /\ op'.pc = "none"
      BY <1>1, <1>2, <2>1, NoOpType
    <3> QED BY <3>1, IdleInPlace
  <2>2. CASE Broken /\ mode # "creating" /\ op' = [op EXCEPT !.pc = "undo"]
    <3>1. op'.pc = "undo" /\ op'.body = op.body /\ op'.done = op.done
      BY <1>1, <2>2 DEF OpType
    <3>2. mode' = mode /\ mode' \in Writing
      BY <1>1, <2>2, <3>1, <1>2
    <3>3. /\ torn = 0
          /\ op.done <= Units[op.body]
          /\ size + op.done <= Len(file)
          /\ \A k \in 1..op.done :
               file[size + k] = [seq |-> lastSeq + 1, body |-> op.body, part |-> k]
      BY <2>2 DEF LogInv, AppendInPlace
    <3>4. mode' # "creating" /\ mode' # "scanning" /\ op.body # Start
      BY <1>1, <2>2, <3>2
    <3> QED BY <3>1, <3>2, <3>3, <3>4 DEF AppendInPlace, ScanInPlace, disk, writer
  <2> QED BY <1>3, <2>1, <2>2
<1> QED BY <1>5, <1>6 DEF LogInv, FileInv

LEMMA WriteFailsKeeps ==
  ASSUME LogInv, WriteFails
  PROVE  LogInv'
<1>1. stray' \in BOOLEAN
  BY DEF WriteFails, Broken, LogInv, TypeOK
<1>2. ~Reject \/ mode = "creating" \/ mode' = mode
  BY DEF Reject
<1> QED BY <1>1, <1>2, FailureKeeps DEF WriteFails

(* The file is cut at the writer's size: what is acknowledged lies below. *)
LEMMA CutAtSizeKeeps ==
  ASSUME LogInv, op.pc # "none", mode # "creating", Cut(size), mode' = mode,
         UNCHANGED <<writer, promised, safe, lost, scan, known, budget>>,
         op' \in OpType, stray' \in BOOLEAN
  PROVE  TypeOK' /\ FileInv' /\ WriterInPlace' /\ Len(file') = size
<1>1. /\ mode \in Writing /\ ~lost /\ size \in 0..Len(file) /\ size \in Nat /\ Len(file) \in Nat
      /\ TypeOK /\ FileInv /\ WriterInPlace /\ RecordsPlaced
  BY AppendUnderWay DEF LogInv, FileInv
<1>2. /\ file' = SubSeq(file, 1, size) /\ durable' = Smaller(durable, size)
      /\ size' = size /\ lastSeq' = lastSeq /\ torn' = torn
  BY DEF Cut, writer
<1>3. /\ FileInv' /\ file' \in Seq(Unit) /\ Len(file') = size
      /\ \A p \in Nat : LineStart(p) => LineStart(p)'
  BY <1>1, <1>2, CutKeepsFileInv
<1>4. durable \in 0..Len(file) /\ durable' \in 0..size
  BY <1>1, <1>2 DEF TypeOK, Smaller
<1>5. TypeOK'
  BY <1>1, <1>2, <1>3, <1>4 DEF TypeOK, budget
<1>6. ASSUME NEW i \in 1..safe PROVE EndOf(promised[i]) <= durable'
  <2>1. i \in 1..Len(promised)
    BY <1>1, Numbers DEF TypeOK
  <2>2. EndOf(promised[i]) <= size /\ EndOf(promised[i]) <= durable
    BY <1>1, <2>1, PromisedBelowSize DEF WriterInPlace
  <2> QED BY <1>2, <2>2 DEF Smaller
<1>7. LineStart(size)'
  <2>1. LineStart(size)
    BY <1>1 DEF WriterInPlace
  <2>2. PICK p \in Nat : p = size
    BY <1>1
  <2> QED BY <1>2, <1>3, <2>1, <2>2 DEF LineStart
<1>8. WriterInPlace'
  <2>1. \A p \in size + 1..Len(file') : ~NewLine(file'[p])
    BY <1>1, <1>3
  <2>2. torn # 0 => torn = size
    BY <1>1 DEF WriterInPlace
  <2>3. /\ lastSeq = Len(promised) /\ promised # <<>>
    BY <1>1 DEF WriterInPlace
  <2>4. size <= Len(file') /\ mode' \notin {"absent", "creating"} /\ ~lost' /\ mode' = mode
    BY <1>1, <1>3 DEF Writing
  <2> QED BY <1>2, <1>6, <1>7, <2>1, <2>2, <2>3, <2>4 DEF WriterInPlace, EndOf, NewLine
<1> QED BY <1>3, <1>5, <1>8

LEMMA CutTailKeeps ==
  ASSUME LogInv, CutTail
  PROVE  LogInv'
<1>1. /\ op.pc = "cut" /\ op.done = 0 /\ torn # 0 /\ mode # "creating" /\ mode \in Writing
      /\ op.body # Start /\ mode # "scanning" /\ torn = size /\ op \in OpType
  BY AppendUnderWay DEF CutTail, LogInv, AppendInPlace, WriterInPlace, Writing
<1>2. CASE Works /\ Cut(torn)
  <2>1. /\ op' = [op EXCEPT !.pc = "cutSync"] /\ mode' = mode
        /\ UNCHANGED <<writer, scan, known, promised, safe, lost, stray, budget>> /\ Cut(size)
    BY <1>1, <1>2, NoOpType DEF CutTail, Works, Fails, budget, LogInv, TypeOK
  <2>2. /\ op' \in OpType /\ op'.pc = "cutSync" /\ op'.body = op.body /\ op'.done = 0
    BY <1>1, <2>1 DEF OpType, Steps
  <2>3. TypeOK' /\ FileInv' /\ WriterInPlace' /\ Len(file') = size
    <3>1. stray' \in BOOLEAN
      BY <2>1 DEF LogInv, TypeOK
    <3> QED BY <1>1, <2>1, <2>2, <3>1, CutAtSizeKeeps
  <2>4. AppendInPlace' /\ ScanInPlace'
    BY <1>1, <2>1, <2>2, <2>3 DEF AppendInPlace, ScanInPlace, writer
  <2> QED BY <2>3, <2>4 DEF LogInv, FileInv
<1>3. CASE Fails /\ Reject /\ UNCHANGED disk
  <2>1. stray' \in BOOLEAN /\ mode' = mode
    BY <1>1, <1>3 DEF CutTail, LogInv, TypeOK, Reject
  <2>2. ~Broken
    BY <1>1, <1>3, NoOpType DEF Reject, Broken, OpType
  <2> QED BY <1>1, <1>3, <2>1, <2>2, FailureKeeps DEF CutTail
<1> QED BY <1>2, <1>3 DEF CutTail

LEMMA CutSyncKeeps ==
  ASSUME LogInv, CutSync
  PROVE  LogInv'
<1>1. /\ op.pc = "cutSync" /\ op.done = 0 /\ torn # 0 /\ mode # "creating" /\ mode \in Writing
      /\ op.body # Start /\ mode # "scanning" /\ torn = size /\ op \in OpType
      /\ Len(file) = size /\ size \in Nat /\ ~lost
      /\ Units[op.body] \in Nat /\ Units[op.body] > 0
  BY AppendUnderWay DEF CutSync, LogInv, AppendInPlace, WriterInPlace, Writing
<1>2. CASE /\ Works
           /\ durable' = Len(file)
           /\ size' = torn /\ torn' = 0
           /\ op' = [op EXCEPT !.pc = "write"]
           /\ UNCHANGED mode
  <2>1. /\ op' \in OpType /\ op'.pc = "write" /\ op'.body = op.body /\ op'.done = 0
    BY <1>1, <1>2 DEF OpType, Steps
  <2>2. /\ file' = file /\ size' = size /\ torn' = 0 /\ lastSeq' = lastSeq /\ mode' = mode
        /\ durable' = Len(file)
        /\ UNCHANGED <<scan, known, ghosts, budget>>
    BY <1>1, <1>2 DEF CutSync, Works
  <2>3. FileInv'
    BY <2>2, QuietKeepsFileInv DEF LogInv, FileInv, ghosts
  <2>4. TypeOK'
    BY <1>1, <2>1, <2>2 DEF LogInv, TypeOK, ghosts, budget
  <2>5. WriterInPlace'
    <3>1. ASSUME NEW i \in 1..safe PROVE EndOf(promised[i]) <= durable'
      <4>1. i \in 1..Len(promised)
        BY Numbers DEF LogInv, TypeOK
      <4> QED BY <1>1, <2>2, <4>1, PromisedBelowSize DEF LogInv
    <3>2. lastSeq = Len(promised) /\ LineStart(size) /\ promised # <<>>
      BY <1>1 DEF LogInv, WriterInPlace
    <3> QED BY <1>1, <2>2, <3>1, <3>2 DEF WriterInPlace, ghosts, EndOf, LineStart, NewLine, Writing
  <2>6. AppendInPlace' /\ ScanInPlace'
    BY <1>1, <2>1, <2>2 DEF AppendInPlace, ScanInPlace
  <2> QED BY <2>3, <2>4, <2>5, <2>6 DEF LogInv, FileInv
<1>3. CASE Fails /\ Reject /\ UNCHANGED <<durable, size, torn>>
  <2>1. stray' \in BOOLEAN /\ mode' = mode
    BY <1>1, <1>3 DEF CutSync, LogInv, TypeOK, Reject, ghosts
  <2>2. ~Broken
    BY <1>1, <1>3, NoOpType DEF Reject, Broken, OpType
  <2> QED BY <1>1, <1>3, <2>1, <2>2, FailureKeeps DEF CutSync, ghosts, disk, writer
<1> QED BY <1>2, <1>3 DEF CutSync

LEMMA UndoKeeps ==
  ASSUME LogInv, Undo
  PROVE  LogInv'
<1>1. /\ op.pc = "undo" /\ mode # "creating" /\ mode # "scanning" /\ mode \in Writing
  BY AppendUnderWay DEF Undo, LogInv, AppendInPlace
<1>2. op' = NoOp /\ mode' = mode
  BY <1>1 DEF Undo, Reject
<1>3. CASE Works /\ Cut(size) /\ UNCHANGED stray
  <2>1. UNCHANGED <<writer, promised, safe, lost, scan, known, budget>>
    BY <1>3 DEF Undo, Works
  <2>2. op' \in OpType /\ stray' \in BOOLEAN
    BY <1>2, <1>3, <2>1, NoOpType DEF LogInv, TypeOK
  <2>3. TypeOK' /\ FileInv' /\ WriterInPlace'
    BY <1>1, <1>2, <1>3, <2>1, <2>2, CutAtSizeKeeps
  <2>4. AppendInPlace' /\ ScanInPlace'
    BY <1>1, <1>2, NoOpType, IdleInPlace
  <2> QED BY <2>3, <2>4 DEF LogInv, FileInv
<1>4. CASE Fails /\ stray' = TRUE /\ UNCHANGED disk
  <2>1. ~Broken
    BY <1>1, <1>2, NoOpType DEF Broken, OpType, LogInv, TypeOK
  <2> QED BY <1>1, <1>2, <1>4, <2>1, FailureKeeps DEF Undo
<1> QED BY <1>3, <1>4 DEF Undo

LEMMA WriteUnitKeeps ==
  ASSUME LogInv, WriteUnit
  PROVE  LogInv'
<1>1. /\ op.pc = "write" /\ mode # "scanning" /\ op \in OpType /\ torn = 0 /\ ~lost
      /\ mode \in Writing \union {"creating"}
      /\ size \in Nat /\ Len(file) \in Nat /\ op.done \in Nat /\ size <= Len(file)
      /\ op.done < Units[op.body] /\ Units[op.body] \in Nat /\ size + op.done <= Len(file)
      /\ \A k \in 1..op.done :
           file[size + k] = [seq |-> lastSeq + 1, body |-> op.body, part |-> k]
      /\ op.body = Start <=> mode = "creating"
      /\ mode = "creating" => op.pc \in {"write", "sync"}
  BY AppendUnderWay DEF WriteUnit, LogInv, AppendInPlace, OpType
<1>2. /\ FileInv' /\ file' \in Seq(Unit) /\ LineStart(size)'
      /\ Len(file') >= Len(file) /\ Len(file') >= size + op.done + 1
      /\ \A k \in 1..Len(file) : k # size + op.done + 1 => file'[k] = file[k]
      /\ file'[size + op.done + 1] =
           [seq |-> lastSeq + 1, body |-> op.body, part |-> op.done + 1]
  BY WriteUnitKeepsFileInv
<1>3. /\ durable' = Smaller(durable, size + op.done)
      /\ op' = [op EXCEPT !.done = @ + 1,
                          !.pc = IF op.done + 1 = Units[op.body] THEN "sync" ELSE "write"]
      /\ UNCHANGED <<mode, writer, scan, known, ghosts, budget>>
  BY DEF WriteUnit
<1>4. Len(file') \in Nat /\ durable \in 0..Len(file) /\ durable' \in 0..Len(file')
  <2>1. Len(file') \in Nat /\ durable \in 0..Len(file)
    BY <1>2 DEF LogInv, TypeOK
  <2> QED BY <1>1, <1>2, <1>3, <2>1 DEF Smaller
<1>5. /\ op' \in OpType /\ op'.done = op.done + 1 /\ op'.body = op.body
      /\ op'.pc = IF op.done + 1 = Units[op.body] THEN "sync" ELSE "write"
  <2>1. PICK pc \in {"sync", "write"} : pc = IF op.done + 1 = Units[op.body] THEN "sync" ELSE "write"
    OBVIOUS
  <2>2. /\ op.body \in Bodies /\ op.after \in Bodies
        /\ op' = [pc |-> pc, body |-> op.body, done |-> op.done + 1, after |-> op.after]
    BY <1>1, <1>3, <2>1 DEF OpType
  <2>3. op.done + 1 \in Nat
    BY <1>1
  <2>4. op' \in OpType
    BY <2>1, <2>2, <2>3 DEF OpType, Steps
  <2> QED BY <2>1, <2>2, <2>4
<1>6. TypeOK'
  BY <1>2, <1>3, <1>4, <1>5 DEF LogInv, TypeOK, writer, ghosts, budget
<1>7. WriterInPlace'
  <2>1. ASSUME NEW i \in 1..safe PROVE EndOf(promised[i]) <= durable'
    <3>1. i \in 1..Len(promised)
      BY Numbers DEF LogInv, TypeOK
    <3>2. EndOf(promised[i]) <= size /\ EndOf(promised[i]) <= durable /\ EndOf(promised[i]) \in Nat
      BY <3>1, PromisedBelowSize DEF LogInv, WriterInPlace
    <3> QED BY <1>1, <1>3, <1>4, <3>2 DEF Smaller
  <2>2. size <= Len(file')
    BY <1>1, <1>2, <1>4
  <2>3. /\ lastSeq = Len(promised)
        /\ mode \in {"absent", "creating"} => promised = <<>> /\ size = 0 /\ torn = 0
        /\ mode \in Writing => promised # <<>>
    BY DEF LogInv, WriterInPlace
  <2> QED BY <1>1, <1>2, <1>3, <2>1, <2>2, <2>3 DEF WriterInPlace, EndOf, writer, ghosts
<1>8. AppendInPlace'
  <2>1. ASSUME NEW k \in 1..op.done + 1
        PROVE  file'[size + k] = [seq |-> lastSeq + 1, body |-> op.body, part |-> k]
    <3>1. CASE k = op.done + 1
      BY <1>1, <1>2, <3>1
    <3>2. CASE k # op.done + 1
      <4>1. k \in 1..op.done /\ size + k \in 1..Len(file) /\ size + k # size + op.done + 1
        BY <1>1, <3>2
      <4> QED BY <1>1, <1>2, <4>1
    <3> QED BY <3>1, <3>2
  <2>2. /\ size + (op.done + 1) <= Len(file') /\ op.done + 1 <= Units[op.body]
        /\ op'.pc = "write" => op.done + 1 < Units[op.body]
        /\ op'.pc = "sync" => op.done + 1 = Units[op.body]
        /\ op'.pc \in {"write", "sync"}
    BY <1>1, <1>2, <1>4, <1>5
  <2> QED BY <1>1, <1>3, <1>5, <2>1, <2>2 DEF AppendInPlace, writer
<1>9. ScanInPlace'
  BY <1>1, <1>3 DEF ScanInPlace
<1> QED BY <1>2, <1>6, <1>7, <1>8, <1>9 DEF LogInv, FileInv

(* The record is acknowledged. *)
LEMMA AcknowledgeKeeps ==
  ASSUME LogInv, op.pc = "sync", NEW synced \in BOOLEAN, Acknowledge(synced),
         IF synced THEN durable' = Len(file) ELSE durable' = durable,
         UNCHANGED <<file, torn, scan, known, lost, budget>>
  PROVE  LogInv'
<1>1. /\ mode # "scanning" /\ op \in OpType /\ torn = 0 /\ ~lost
      /\ mode \in Writing \union {"creating"}
      /\ Len(file) \in Nat /\ Len(promised) \in Nat
      /\ op.body = Start <=> mode = "creating"
  BY AppendUnderWay DEF LogInv, AppendInPlace
<1>2. /\ FileInv' /\ promised' \in Seq(Placed) /\ Len(promised') = Len(promised) + 1
      /\ size' \in Nat /\ size' <= Len(file) /\ lastSeq' = Len(promised') /\ LineStart(size)'
      /\ \A i \in 1..Len(promised) : promised'[i] = promised[i]
  BY AcknowledgeKeepsFileInv
<1>3. /\ safe' = (IF synced THEN Len(promised') ELSE safe)
      /\ op' = (IF op.after # Start THEN WriteOf(op.after, Start) ELSE NoOp)
      /\ mode' = (IF mode = "creating" THEN "open" ELSE mode)
      /\ stray' = FALSE
  BY DEF Acknowledge
<1>4. durable \in 0..Len(file) /\ durable' \in 0..Len(file) /\ safe \in 0..Len(promised)
      /\ safe' \in 0..Len(promised')
  BY <1>1, <1>2, <1>3 DEF LogInv, TypeOK
<1>5. mode' \in Writing /\ mode' \in Modes /\ mode' # "creating" /\ mode' # "scanning"
  BY <1>1, <1>3 DEF Writing, Modes
<1>6. op.after \in Bodies /\ op.body \in Bodies /\ Start \in Bodies
  BY <1>1, BodiesAssumption DEF OpType
<1>7. op' \in OpType
  BY <1>3, <1>6, NoOpType, WriteOfType
<1>8. TypeOK'
  <2>1. lastSeq' \in Nat
    BY <1>1, <1>2
  <2> QED BY <1>2, <1>3, <1>4, <1>5, <1>7, <2>1 DEF LogInv, TypeOK, budget
<1>9. WriterInPlace'
  <2>1. ASSUME NEW i \in 1..safe' PROVE EndOf(promised'[i]) <= durable'
    <3>1. CASE synced
      <4>1. RecordsPlaced' /\ i \in 1..Len(promised')
        BY <1>2, <1>3, <3>1 DEF FileInv
      <4>2. EndOf(promised'[i]) <= size'
        BY <4>1 DEF RecordsPlaced, EndOf
      <4>3. EndOf(promised'[i]) \in Nat
        <5>1. PICK r \in Placed : r = promised'[i]
          BY <1>2, <4>1
        <5>2. r.at \in Nat /\ Units[r.body] \in Nat
          BY LinesHaveUnits DEF Placed
        <5> QED BY <5>1, <5>2 DEF EndOf
      <4> QED BY <1>1, <1>2, <3>1, <4>2, <4>3
    <3>2. CASE ~synced
      <4>1. i \in 1..safe /\ i \in 1..Len(promised)
        BY <1>1, <1>3, <1>4, <3>2
      <4> QED BY <1>2, <3>2, <4>1 DEF LogInv, WriterInPlace
    <3> QED BY <3>1, <3>2
  <2>2. promised' # <<>>
    BY <1>1, <1>2
  <2> QED BY <1>1, <1>2, <1>5, <2>1, <2>2 DEF WriterInPlace, EndOf, Writing
<1>10. AppendInPlace' /\ ScanInPlace'
  <2>1. CASE op.after = Start
    BY <1>3, <1>5, <2>1, NoOpType, IdleInPlace
  <2>2. CASE op.after # Start
    BY <1>1, <1>2, <1>3, <1>5, <1>6, <1>8, <2>2, WriteOfInPlace
  <2> QED BY <2>1, <2>2
<1> QED BY <1>2, <1>8, <1>9, <1>10 DEF LogInv, FileInv

LEMMA SyncKeeps ==
  ASSUME LogInv, Sync
  PROVE  LogInv'
<1>1. op.pc = "sync" /\ UNCHANGED <<file, torn, scan, known, lost>>
  BY DEF Sync
<1>2. CASE op.body \in Synced /\ Works /\ durable' = Len(file) /\ Acknowledge(TRUE)
  BY <1>1, <1>2, AcknowledgeKeeps DEF Works
<1>3. CASE op.body \notin Synced /\ Works /\ UNCHANGED durable /\ Acknowledge(FALSE)
  BY <1>1, <1>3, AcknowledgeKeeps DEF Works
<1>4. CASE /\ op.body \in Synced
           /\ Fails /\ Broken
           /\ UNCHANGED <<durable, size, lastSeq, promised, safe>>
  <2>1. stray' \in BOOLEAN
    BY <1>4 DEF Broken, LogInv, TypeOK
  <2>2. ~Reject \/ mode = "creating" \/ mode' = mode
    BY DEF Reject
  <2> QED BY <1>1, <1>4, <2>1, <2>2, FailureKeeps DEF disk, writer
<1> QED BY <1>2, <1>3, <1>4 DEF Sync

LEMMA PowerLossKeeps ==
  ASSUME LogInv, PowerLoss
  PROVE  LogInv'
<1>1. PICK n \in durable..Len(file) : file' = SubSeq(file, 1, n)
  BY DEF PowerLoss
<1>2. /\ mode' = "closed" /\ op' = NoOp /\ stray' = (stray \/ op.pc # "none") /\ lost' = TRUE
      /\ UNCHANGED <<durable, writer, scan, known, promised, safe, faults>>
      /\ deaths' = deaths + 1
  BY DEF PowerLoss, Dies, Dropped
<1>3. TypeOK /\ FileInv /\ WriterInPlace /\ durable \in 0..Len(file) /\ Len(file) \in Nat
      /\ size \in Nat
  BY DEF LogInv, FileInv, TypeOK
<1>4. n \in 0..Len(file) /\ durable \in 0..n
  BY <1>1, <1>3
<1>5. /\ FileInv' /\ file' \in Seq(Unit) /\ Len(file') = n
      /\ \A p \in Nat : LineStart(p) => LineStart(p)'
  BY <1>1, <1>2, <1>3, <1>4, CutKeepsFileInv DEF writer
<1>6. TypeOK'
  <2>1. durable' \in 0..Len(file') /\ mode' \in Modes /\ op' \in OpType /\ stray' \in BOOLEAN
        /\ lost' \in BOOLEAN /\ deaths' \in Nat
    BY <1>2, <1>3, <1>4, <1>5, NoOpType DEF Modes, TypeOK
  <2> QED BY <1>2, <1>3, <1>5, <2>1 DEF TypeOK, writer
<1>7. WriterInPlace'
  <2>1. LineStart(size)'
    <3>1. PICK p \in Nat : p = size
      BY <1>3
    <3>2. LineStart(p)'
      BY <1>3, <1>5, <3>1 DEF WriterInPlace
    <3> QED BY <1>2, <3>1, <3>2 DEF LineStart, writer
  <2> QED BY <1>2, <1>3, <2>1 DEF WriterInPlace, EndOf, Writing, writer
<1>8. AppendInPlace' /\ ScanInPlace'
  BY <1>2, NoOpType, IdleInPlace
<1> QED BY <1>5, <1>6, <1>7, <1>8 DEF LogInv, FileInv

LEMMA NextKeeps == LogInv /\ [Next]_vars => LogInv'
<1> SUFFICES ASSUME LogInv, [Next]_vars PROVE LogInv'
  OBVIOUS
<1>1. CASE AppendStep
  BY <1>1, CutTailKeeps, CutSyncKeeps, WriteUnitKeeps, WriteFailsKeeps, SyncKeeps, UndoKeeps
     DEF AppendStep
<1>2. CASE HolderStep
  BY <1>2, CreateKeeps, LockKeeps, ScanLineKeeps, ScanEndKeeps, LetGoKeeps DEF HolderStep
<1>3. ASSUME NEW body \in Bodies, Begin(body) PROVE LogInv'
  BY <1>3, BeginKeeps
<1>4. CASE Kill
  BY <1>4, LetGoKeeps
<1>5. CASE PowerLoss
  BY <1>5, PowerLossKeeps
<1>6. CASE UNCHANGED vars
  <2>1. FileInv'
    BY <1>6, QuietKeepsFileInv DEF LogInv, FileInv, vars, disk, writer, ghosts
  <2>2. TypeOK' /\ WriterInPlace' /\ AppendInPlace'
    BY <1>6 DEF LogInv, TypeOK, WriterInPlace, AppendInPlace, LineStart, NewLine, EndOf,
                vars, disk, writer, ghosts, budget
  <2>3. ScanInPlace'
    BY <1>6 DEF LogInv, ScanInPlace, LineStart, NewLine, EndOf, InPlace, Whole,
                vars, disk, writer, ghosts, budget
  <2> QED BY <2>1, <2>2, <2>3 DEF LogInv, FileInv
<1> QED BY <1>1, <1>2, <1>3, <1>4, <1>5, <1>6 DEF Next

(* The file, the writer, the append under way and the scan agree: what was *)
(* acknowledged is in the file at its place, nothing else looks like a     *)
(* record of the session, what an fsync covered lies in the durable part,  *)
(* and a scan finds what was acknowledged and at most one record more.     *)
THEOREM LogInvariant == Spec => []LogInv
<1>1. Init => LogInv
  BY InitEstablishes
<1>2. LogInv /\ [Next]_vars => LogInv'
  BY NextKeeps
<1> QED BY <1>1, <1>2, PTL DEF Spec
-----------------------------------------------------------------------------
(* The session that callers see has the length of the acknowledged records. *)
LEMMA SequenceIsPromised ==
  ASSUME TypeOK
  PROVE  /\ Sequence \in Seq(Bodies) /\ Len(Sequence) = Len(promised)
         /\ \A i \in 1..Len(promised) : Sequence[i] = promised[i].body
<1>1. Len(promised) \in Nat /\ \A i \in 1..Len(promised) : promised[i].body \in Bodies
  BY Numbers DEF Placed
<1> QED BY <1>1 DEF Sequence

(* One record more is one body more. *)
LEMMA SequenceGrows ==
  ASSUME TypeOK, TypeOK', Len(promised') = Len(promised) + 1,
         \A i \in 1..Len(promised) : promised'[i] = promised[i]
  PROVE  Sequence' = Append(Sequence, promised'[Len(promised')].body)
<1> DEFINE c == Len(promised)
<1>0. PICK b : b = promised'[Len(promised')].body
  OBVIOUS
<1>1. /\ c \in Nat /\ Sequence \in Seq(Bodies) /\ Len(Sequence) = c
      /\ \A i \in 1..c : Sequence[i] = promised[i].body
  BY Numbers, SequenceIsPromised
<1>2. /\ Sequence' \in Seq(Bodies) /\ Len(Sequence') = c + 1
      /\ \A i \in 1..c + 1 : Sequence'[i] = promised'[i].body
      /\ promised'[c + 1] \in Placed
  <2>1. promised' \in Seq(Placed)
    BY DEF TypeOK
  <2>2. \A i \in 1..c + 1 : promised'[i] \in Placed /\ promised'[i].body \in Bodies
    <3>1. \A i \in 1..Len(promised') : promised'[i] \in Placed
      BY <2>1
    <3>2. \A r \in Placed : r.body \in Bodies
      BY DEF Placed
    <3> QED BY <3>1, <3>2
  <2>3. c + 1 \in 1..c + 1
    BY <1>1
  <2> QED BY <1>1, <2>2, <2>3 DEF Sequence
<1>3. b \in Bodies /\ Sequence'[c + 1] = b
  BY <1>0, <1>1, <1>2 DEF Placed
<1>4. \A i \in 1..c : Sequence'[i] = Sequence[i]
  BY <1>1, <1>2
<1>5. /\ Append(Sequence, b) \in Seq(Bodies) /\ Len(Append(Sequence, b)) = c + 1
      /\ \A i \in 1..c : Append(Sequence, b)[i] = Sequence[i]
      /\ Append(Sequence, b)[c + 1] = b
  BY <1>1, <1>3, AppendProperties
<1> HIDE DEF c
<1>6. \A i \in 1..c + 1 : Sequence'[i] = Append(Sequence, b)[i]
  BY <1>1, <1>3, <1>4, <1>5
<1>7. Sequence' = Append(Sequence, b)
  BY <1>1, <1>2, <1>5, <1>6, SeqEqual
<1> QED BY <1>0, <1>7

(* An acknowledged record is added to the journal. *)
LEMMA AcknowledgeAdds ==
  ASSUME LogInv, TypeOK', op.pc = "sync", file' = file, NEW synced \in BOOLEAN,
         Acknowledge(synced), UNCHANGED lost
  PROVE  Promise!Next
<1>1. ~lost /\ op \in OpType /\ TypeOK
  BY AppendUnderWay DEF LogInv
<1>2. /\ Len(promised') = Len(promised) + 1
      /\ \A i \in 1..Len(promised) : promised'[i] = promised[i]
  BY AcknowledgeKeepsFileInv
<1>3. promised'[Len(promised')].body = op.body
  <2>1. PICK r : r = [seq |-> lastSeq + 1, body |-> op.body, at |-> size]
    OBVIOUS
  <2>2. promised' = Append(promised, r) /\ r.body = op.body
    BY <2>1 DEF Acknowledge
  <2>3. r \in Placed
    BY <1>1, <2>1 DEF TypeOK, OpType, Placed
  <2>4. promised \in Seq(Placed)
    BY <1>1 DEF TypeOK
  <2>5. promised'[Len(promised) + 1] = r
    BY <2>2, <2>3, <2>4, AppendProperties
  <2> QED BY <1>2, <2>2, <2>5
<1>4. Sequence' = Append(Sequence, op.body) /\ Len(Sequence') = Len(promised')
  <2>1. Sequence' = Append(Sequence, op.body)
    BY <1>1, <1>2, <1>3, SequenceGrows
  <2>2. Len(Sequence) = Len(promised) /\ Sequence \in Seq(Bodies)
    BY <1>1, SequenceIsPromised
  <2>3. op.body \in Bodies
    BY <1>1 DEF OpType
  <2> QED BY <1>2, <2>1, <2>2, <2>3, AppendProperties
<1>5. safe' \in {safe, Len(Sequence')}
  BY <1>4 DEF Acknowledge
<1>6. op.body \in Bodies
  BY <1>1 DEF OpType
<1> QED BY <1>1, <1>4, <1>5, <1>6 DEF Promise!Next, Promise!Add

(* A scan that found records opens the session. *)
LEMMA ScanEndOpens ==
  ASSUME LogInv, LogInv', ScanEnd, known # <<>>
  PROVE  Promise!Next
<1> DEFINE k == Len(known)
           c == Len(promised)
<1>1. /\ mode = "scanning" /\ LineEnds = {} /\ promised' = known /\ lost' = FALSE /\ safe' = safe
  BY DEF ScanEnd
<1>2. /\ k \in Nat /\ c \in Nat /\ k <= c + 1 /\ TypeOK /\ TypeOK'
      /\ \A i \in 1..k : i <= c => known[i] = promised[i]
      /\ Len(file) \in Nat /\ size \in Nat
  BY <1>1, ScanNumbers DEF LogInv, ScanInPlace
<1>3. /\ Sequence \in Seq(Bodies) /\ Len(Sequence) = c
      /\ \A i \in 1..c : Sequence[i] = promised[i].body
  BY <1>2, SequenceIsPromised
<1>4. /\ Sequence' \in Seq(Bodies) /\ Len(Sequence') = k
      /\ \A i \in 1..k : Sequence'[i] = known[i].body
  <2>1. \A i \in 1..k : known[i] \in Placed /\ known[i].body \in Bodies
    BY <1>2, Numbers DEF Placed
  <2> QED BY <1>1, <1>2, <2>1 DEF Sequence
<1>5. CASE k = c + 1
  <2>1. Sequence' = Append(Sequence, promised'[Len(promised')].body)
    BY <1>1, <1>2, <1>5, SequenceGrows
  <2>2. promised'[Len(promised')].body \in Bodies
    <3>1. k \in 1..k
      BY <1>2, <1>5
    <3>2. known[k] \in Placed
      BY <1>2, <3>1, Numbers
    <3> QED BY <1>1, <3>2 DEF Placed
  <2> QED BY <1>1, <2>1, <2>2 DEF Promise!Next, Promise!Open
<1>6. CASE k = c
  <2>1. \A i \in 1..c : Sequence'[i] = Sequence[i]
    BY <1>2, <1>3, <1>4, <1>6
  <2>2. Sequence' = Sequence
    BY <1>3, <1>4, <1>6, <2>1, SeqEqual
  <2> QED BY <1>1, <2>2 DEF Promise!Next, Promise!Open
<1>7. CASE k < c
  <2>1. lost
    <3>1. SUFFICES ASSUME ~lost PROVE FALSE
      OBVIOUS
    <3>2. size <= Len(file)
      BY <3>1 DEF LogInv, WriterInPlace
    <3>3. k + 1 \in 1..c
      BY <1>2, <1>7
    <3>4. EndOf(promised[k + 1]) <= size /\ EndOf(promised[k + 1]) \in Nat
      BY <1>2, <3>3, PromisedBelowSize DEF LogInv
    <3>5. EndOf(promised[k + 1]) <= Len(file)
      BY <1>2, <3>2, <3>4
    <3>6. k + 1 <= Len(known)
      BY <1>1, <3>3, <3>5, WhatIsThereIsFound
    <3> QED BY <1>2, <3>6
  <2>2. k \in safe..Len(Sequence)
    BY <1>1, <1>2, <1>3, <1>7, SyncedIsFound
  <2>3. k \in 0..Len(Sequence)
    BY <1>2, <1>3, <1>7
  <2> HIDE DEF k, c
  <2>4. /\ SubSeq(Sequence, 1, k) \in Seq(Bodies) /\ Len(SubSeq(Sequence, 1, k)) = k
        /\ \A i \in 1..k : SubSeq(Sequence, 1, k)[i] = Sequence[i]
    BY <1>3, <2>3, CutKeepsBeginning
  <2>5. \A i \in 1..k : Sequence'[i] = SubSeq(Sequence, 1, k)[i]
    BY <1>2, <1>3, <1>4, <1>7, <2>4
  <2>6. Sequence' = SubSeq(Sequence, 1, k)
    BY <1>4, <2>4, <2>5, SeqEqual
  <2> QED BY <1>1, <2>1, <2>2, <2>6 DEF Promise!Next, Promise!Open
<1> QED BY <1>2, <1>5, <1>6, <1>7

LEMMA StepIsAllowed ==
  ASSUME LogInv, LogInv', [Next]_vars
  PROVE  [Promise!Next]_(Promise!jvars)
<1>1. CASE UNCHANGED <<promised, safe, lost>>
  BY <1>1 DEF Promise!jvars, Sequence
<1>2. CASE Sync
  <2>1. CASE \E synced \in BOOLEAN : Acknowledge(synced)
    BY <1>2, <2>1, AcknowledgeAdds DEF Sync, LogInv
  <2>2. CASE UNCHANGED <<promised, safe, lost>>
    BY <1>1, <2>2
  <2> QED BY <1>2, <2>1, <2>2 DEF Sync
<1>3. CASE ScanEnd
  <2>1. CASE known = <<>>
    BY <1>1, <1>3, <2>1 DEF ScanEnd, ghosts
  <2> QED BY <1>3, <2>1, ScanEndOpens
<1>4. CASE PowerLoss
  BY <1>4 DEF PowerLoss, Promise!Next, Promise!PowerLoss, Sequence
<1>5. CASE CutTail \/ CutSync \/ WriteUnit \/ WriteFails \/ Undo
  <2>1. UNCHANGED <<promised, safe, lost>>
    BY <1>5 DEF CutTail, CutSync, WriteUnit, WriteFails, Undo, ghosts
  <2> QED BY <1>1, <2>1
<1>6. CASE Create \/ Lock \/ ScanLine \/ Release \/ Close \/ Kill
  <2>1. UNCHANGED <<promised, safe, lost>>
    BY <1>6 DEF Create, Lock, ScanLine, Release, Close, Kill, ghosts
  <2> QED BY <1>1, <2>1
<1>7. ASSUME NEW body \in Bodies, Begin(body) PROVE UNCHANGED <<promised, safe, lost>>
  BY <1>7 DEF Begin, ghosts
<1>8. CASE UNCHANGED vars
  BY <1>1, <1>8 DEF vars, ghosts
<1> QED BY <1>1, <1>2, <1>3, <1>4, <1>5, <1>6, <1>7, <1>8 DEF Next, AppendStep, HolderStep

(* The file of a session keeps the promise of Journal: what was            *)
(* acknowledged is there for every later holder, but for what a loss of    *)
(* power takes, which is never what an fsync covered.                      *)
THEOREM LogKeepsThePromise == Spec => JournalSpec
<1>1. Init => Promise!Init
  <2>1. ASSUME Init PROVE Sequence = <<>>
    <3>1. Len(promised) = 0
      BY <2>1 DEF Init
    <3> QED BY <3>1 DEF Sequence
  <2> QED BY <2>1 DEF Init, Promise!Init
<1>2. LogInv /\ LogInv' /\ [Next]_vars => [Promise!Next]_(Promise!jvars)
  BY StepIsAllowed
<1> QED BY <1>1, <1>2, LogInvariant, PTL DEF Spec, JournalSpec, Promise!Spec
-----------------------------------------------------------------------------
(* Unless an append was dropped with what it wrote, no record stands where *)
(* the next line goes.                                                     *)
NothingAhead ==
  ~stray /\ op.pc \notin {"write", "sync", "undo"} =>
    \A n \in size + 1..Len(file) : ~Whole(size, n)

(* A whole line ends in a newline. *)
LEMMA WholeEndsInNewLine ==
  ASSUME TypeOK, NEW p \in 0..Len(file) - 1, NEW n \in 1..Len(file), Whole(p, n)
  PROVE  NewLine(file[n])
<1>1. /\ n = p + Units[file[p + 1].body]
      /\ Units[file[p + 1].body] \in Nat \ {0}
      /\ \A k \in 1..Units[file[p + 1].body] :
           file[p + k].part = k /\ file[p + k].body = file[p + 1].body
  BY WholeHasHead
<1>2. Units[file[p + 1].body] \in 1..Units[file[p + 1].body]
  BY <1>1
<1> QED BY <1>1, <1>2 DEF NewLine

(* The file and the size stay, and nothing new is asked of them. *)
LEMMA NothingAheadStill ==
  ASSUME NothingAhead, file' = file, size' = size,
         ~stray' /\ op'.pc \notin {"write", "sync", "undo"} =>
           ~stray /\ op.pc \notin {"write", "sync", "undo"}
  PROVE  NothingAhead'
BY DEF NothingAhead, Whole

LEMMA NothingAheadKept ==
  ASSUME LogInv, LogInv', NothingAhead, [Next]_vars
  PROVE  NothingAhead'
<1>0. /\ TypeOK /\ size \in Nat /\ Len(file) \in Nat
      /\ size' \in Nat /\ Len(file') \in Nat
  <2>1. TypeOK /\ file \in Seq(Unit) /\ file' \in Seq(Unit) /\ size \in Nat /\ size' \in Nat
    BY DEF LogInv, TypeOK
  <2>2. Len(file) \in Nat /\ Len(file') \in Nat
    BY <2>1
  <2> QED BY <2>1, <2>2
<1>1. CASE UNCHANGED <<file, size, op, stray>>
  BY <1>1, NothingAheadStill
<1>2. CASE Create \/ WriteUnit
  <2>1. CASE Create
    <3>1. op'.pc = "write"
      BY <2>1 DEF Create, WriteOf
    <3> QED BY <3>1 DEF NothingAhead
  <2>2. CASE WriteUnit
    <3>1. op \in OpType
      BY <1>0 DEF TypeOK
    <3>2. op'.pc \in {"write", "sync"}
      BY <2>2, <3>1 DEF WriteUnit, OpType
    <3> QED BY <3>2 DEF NothingAhead
  <2> QED BY <1>2, <2>1, <2>2
<1>3. ASSUME NEW body \in Bodies, Begin(body) PROVE NothingAhead'
  <2>1. /\ file' = file /\ size' = size /\ stray' = stray /\ op.pc = "none"
    BY <1>3 DEF Begin, disk, writer, ghosts
  <2> QED BY <2>1, NothingAheadStill
<1>4. CASE CutTail
  <2>1. CASE Cut(torn)
    <3>1. torn = size /\ size \in 0..Len(file)
      BY <1>4, AppendUnderWay DEF CutTail, LogInv, AppendInPlace, WriterInPlace, Writing
    <3>2. Len(file') = size /\ size' = size
      BY <1>0, <1>4, <2>1, <3>1, CutKeepsBeginning DEF Cut, CutTail, writer, TypeOK
    <3> QED BY <1>0, <3>2 DEF NothingAhead
  <2>2. CASE UNCHANGED disk
    <3>1. file' = file /\ size' = size /\ stray' = stray /\ op.pc = "cut"
      BY <1>4, <2>2 DEF CutTail, disk, writer
    <3> QED BY <3>1, NothingAheadStill
  <2> QED BY <1>4, <2>1, <2>2 DEF CutTail
<1>5. CASE CutSync
  <2>1. size' = size
    <3>1. torn = size
      BY <1>5, AppendUnderWay DEF CutSync, LogInv, AppendInPlace, WriterInPlace, Writing
    <3> QED BY <1>5, <3>1 DEF CutSync
  <2>2. file' = file /\ stray' = stray /\ op.pc = "cutSync"
    BY <1>5 DEF CutSync, ghosts
  <2> QED BY <2>1, <2>2, NothingAheadStill
<1>6. ASSUME op.pc \in {"write", "sync"}, Broken PROVE NothingAhead'
  <2>1. stray' \/ op'.pc = "undo"
    BY <1>6 DEF Broken, LogInv, TypeOK, OpType
  <2> QED BY <2>1 DEF NothingAhead
<1>7. CASE WriteFails
  BY <1>6, <1>7 DEF WriteFails
<1>8. CASE Sync
  <2>1. CASE Broken
    BY <1>6, <1>8, <2>1 DEF Sync
  <2>2. CASE \E synced \in BOOLEAN : Acknowledge(synced)
    <3>1. file' = file /\ size' = size + Units[op.body]
      BY <1>8, <2>2 DEF Sync, Acknowledge
    <3>2. Units[op.body] \in Nat /\ Units[op.body] > 0
      BY <1>8, AppendUnderWay DEF Sync
    <3>3. ASSUME NEW n \in size' + 1..Len(file), Whole(size', n) PROVE FALSE
      <4>1. PICK p \in 0..Len(file) - 1 : p = size'
        BY <1>0, <3>1
      <4>2. p <= size
        <5>1. n \in 1..Len(file) /\ Whole(p, n)
          <6>1. n \in 1..Len(file)
            BY <1>0, <3>1, <3>2, <3>3
          <6> QED BY <3>3, <4>1, <6>1
        <5> QED BY <1>0, <5>1, HeadsBelowSize DEF LogInv
      <4> QED BY <1>0, <3>1, <3>2, <4>1, <4>2
    <3> QED BY <3>1, <3>3 DEF NothingAhead, Whole
  <2> QED BY <1>8, <2>1, <2>2 DEF Sync
<1>9. CASE Undo
  <2>1. CASE Cut(size)
    <3>1. size \in 0..Len(file)
      BY <1>9, AppendUnderWay DEF Undo
    <3>2. Len(file') = size /\ size' = size
      BY <1>9, <2>1, <3>1, <1>0, CutKeepsBeginning DEF Cut, Undo, writer, TypeOK
    <3> QED BY <1>0, <3>2 DEF NothingAhead
  <2>2. CASE stray'
    BY <2>2 DEF NothingAhead
  <2> QED BY <1>9, <2>1, <2>2 DEF Undo
<1>10. CASE Lock \/ ScanLine \/ Release
  BY <1>1, <1>10 DEF Lock, ScanLine, Release, disk, writer, ghosts
<1>11. CASE ScanEnd
  <2>1. CASE known = <<>>
    BY <1>1, <1>11, <2>1 DEF ScanEnd, disk, writer, ghosts
  <2>2. CASE known # <<>>
    <3>1. file' = file /\ size' = scan.pos /\ scan.pos \in Nat
      BY <1>11, <2>2, ScanNumbers DEF ScanEnd, disk
    <3>2. ASSUME NEW n \in scan.pos + 1..Len(file), Whole(scan.pos, n) PROVE FALSE
      <4>1. NewLine(file[n]) /\ n \in 1..Len(file)
        BY <1>0, <3>1, <3>2, WholeEndsInNewLine
      <4>2. n <= scan.pos
        BY <1>11, <4>1, NoNewLineAhead DEF ScanEnd
      <4> QED BY <1>0, <3>1, <4>2
    <3> QED BY <3>1, <3>2 DEF NothingAhead, Whole
  <2> QED BY <2>1, <2>2
<1>12. CASE Close \/ Kill
  <2>1. file' = file /\ size' = size /\ stray' = (stray \/ op.pc # "none")
    BY <1>12 DEF Close, Kill, Dropped, disk, writer
  <2> QED BY <2>1, NothingAheadStill
<1>13. CASE PowerLoss
  <2>1. PICK m \in durable..Len(file) : file' = SubSeq(file, 1, m)
    BY <1>13 DEF PowerLoss
  <2>2. m \in 0..Len(file)
    BY <1>0, <2>1 DEF TypeOK
  <2>3. Len(file') = m /\ \A k \in 1..m : file'[k] = file[k]
    BY <1>0, <2>1, <2>2, CutKeepsBeginning DEF TypeOK
  <2>4. size' = size /\ stray' = (stray \/ op.pc # "none")
    BY <1>13 DEF PowerLoss, Dropped, writer
  <2>5. SUFFICES ASSUME ~stray, op.pc = "none", NEW n \in size + 1..m, Whole(size, n)'
                 PROVE  FALSE
    BY <2>3, <2>4 DEF NothingAhead
  <2>6. /\ size + 1 \in 1..m /\ n \in 1..Len(file) /\ size \in 0..Len(file) - 1
        /\ n \in size + 1..Len(file)
    BY <1>0, <2>2, <2>5
  <2>7. file'[size + 1] = file[size + 1] /\ file[size + 1] \in Unit
    BY <1>0, <2>2, <2>3, <2>6, Numbers
  <2>8. n = size + Units[file[size + 1].body]
    BY <2>4, <2>5, <2>7 DEF Whole
  <2>9. \A k \in 1..Units[file[size + 1].body] : file'[size + k] = file[size + k]
    <3>1. Units[file[size + 1].body] \in Nat
      BY <2>7, LinesHaveUnits DEF Unit
    <3>2. \A k \in 1..Units[file[size + 1].body] : size + k \in 1..m
      BY <1>0, <2>2, <2>5, <2>8, <3>1
    <3> QED BY <2>3, <3>2
  <2>10. Whole(size, n)
    BY <2>4, <2>5, <2>7, <2>8, <2>9 DEF Whole
  <2> QED BY <2>5, <2>6, <2>10 DEF NothingAhead
<1>14. CASE UNCHANGED vars
  BY <1>1, <1>14 DEF vars, disk, writer, ghosts
<1> QED BY <1>2, <1>3, <1>4, <1>5, <1>7, <1>8, <1>9, <1>10, <1>11, <1>12, <1>13, <1>14
        DEF Next, AppendStep, HolderStep

(* A record whose append was rejected and undone does not come back: a     *)
(* scan finds a record that was not acknowledged only after an append was  *)
(* dropped in the middle, or its undo failed.                              *)
THEOREM UndoneStaysUndone == Spec => StrayNeedsAFailure
<1> DEFINE ComesBack == mode = "scanning" /\ mode' = "open" /\ Len(promised') > Len(promised)
<1>1. Init => NothingAhead
  <2>1. ASSUME Init PROVE Len(file) = 0 /\ size = 0
    BY <2>1 DEF Init
  <2> QED BY <2>1 DEF NothingAhead
<1>2. LogInv /\ LogInv' /\ NothingAhead /\ [Next]_vars => NothingAhead'
  BY NothingAheadKept
<1>3. LogInv /\ NothingAhead /\ [Next]_vars => (ComesBack => stray)
  <2>1. SUFFICES ASSUME LogInv, NothingAhead, [Next]_vars, ComesBack, ~stray PROVE FALSE
    OBVIOUS
  <2>2. ScanEnd /\ known # <<>> /\ promised' = known
    <3>1. ~(UNCHANGED mode)
      BY <2>1
    <3>2. ~(CutTail \/ CutSync \/ WriteUnit \/ WriteFails \/ Sync \/ Undo)
      <4>1. op.pc = "none"
        BY <2>1 DEF LogInv, AppendInPlace, Writing
      <4> QED BY <4>1 DEF CutTail, CutSync, WriteUnit, WriteFails, Sync, Undo
    <3>3. ScanEnd
      BY <2>1, <3>1, <3>2 DEF Next, AppendStep, HolderStep, Create, Lock, ScanLine, Release, Close,
                              Kill, PowerLoss, Begin, vars
    <3> QED BY <2>1, <3>3 DEF ScanEnd
  <2>3. /\ Len(known) = Len(promised) + 1 /\ size \in Nat /\ Len(file) \in Nat
        /\ Len(known) \in Nat /\ TypeOK
    BY <2>1, <2>2, ScanNumbers
  <2>4. PICK r : r = known[Len(known)]
    OBVIOUS
  <2>5. r.at = size /\ InPlace(r) /\ EndOf(r) <= Len(file) /\ r \in Placed
    <3>1. Len(known) \in 1..Len(known)
      BY <2>3
    <3>2. r \in Placed
      BY <2>3, <2>4, <3>1, Numbers
    <3> QED BY <2>1, <2>3, <2>4, <3>2 DEF LogInv, ScanInPlace
  <2>6. Units[r.body] \in Nat /\ Units[r.body] > 0 /\ EndOf(r) = size + Units[r.body]
    BY <2>5, LinesHaveUnits DEF EndOf, Placed
  <2>7. \A k \in 1..Units[r.body] : file[size + k] = [seq |-> r.seq, body |-> r.body, part |-> k]
    BY <2>3, <2>5, <2>6 DEF InPlace
  <2>8. Whole(size, EndOf(r))
    <3>1. file[size + 1] = [seq |-> r.seq, body |-> r.body, part |-> 1]
      BY <2>6, <2>7
    <3>2. file[size + 1].seq = r.seq /\ file[size + 1].body = r.body
      BY <3>1
    <3>3. ASSUME NEW k \in 1..Units[r.body]
          PROVE  /\ file[size + k].seq = r.seq /\ file[size + k].body = r.body
                 /\ file[size + k].part = k
      <4>1. file[size + k] = [seq |-> r.seq, body |-> r.body, part |-> k]
        BY <2>7
      <4> QED BY <4>1
    <3> QED BY <2>6, <3>2, <3>3 DEF Whole
  <2>9. EndOf(r) \in size + 1..Len(file) /\ op.pc = "none"
    BY <2>1, <2>3, <2>5, <2>6 DEF LogInv, AppendInPlace, Writing
  <2> QED BY <2>1, <2>8, <2>9 DEF NothingAhead
<1>4. Spec => [](LogInv /\ NothingAhead)
  BY <1>1, <1>2, LogInvariant, PTL DEF Spec
<1> QED BY <1>3, <1>4, PTL DEF Spec, StrayNeedsAFailure
-----------------------------------------------------------------------------
(* Sequences, of whatever they are. *)
IsSeq(q) == \E S : q \in Seq(S)

(* The least of a set of numbers. *)
LEMMA LeastOf ==
  ASSUME NEW T, T \subseteq Nat, T # {}
  PROVE  \E n \in T : \A m \in T : n <= m
<1>1. IsWellFoundedOn(OpToRel(<, Nat), Nat)
  BY NatLessThanWellFounded
<1>2. PICK x \in T : \A y \in T : ~ (<<y, x>> \in OpToRel(<, Nat))
  BY <1>1, WFMin
<1>3. \A y \in T : y \in Nat /\ x \in Nat
  OBVIOUS
<1>4. \A y \in T : ~(y < x)
  BY <1>2, <1>3 DEF OpToRel
<1> QED BY <1>4, <1>3

(* A sequence with one more. *)
LEMMA Appended ==
  ASSUME NEW q, IsSeq(q), NEW e
  PROVE  /\ IsSeq(Append(q, e)) /\ Len(q) \in Nat
         /\ Len(Append(q, e)) = Len(q) + 1 /\ Append(q, e)[Len(q) + 1] = e
         /\ DOMAIN q = 1..Len(q) /\ DOMAIN Append(q, e) = 1..(Len(q) + 1)
         /\ \A i \in 1..Len(q) : Append(q, e)[i] = q[i]
<1>1. PICK S : q \in Seq(S) /\ e \in S
  <2>1. PICK R : q \in Seq(R)
    BY DEF IsSeq
  <2>2. q \in Seq(R \cup {e})
    BY <2>1, SeqMonotonic
  <2> QED BY <2>2
<1>2. Len(q) \in Nat /\ DOMAIN q = 1..Len(q)
  BY <1>1, LenProperties
<1>3. /\ Append(q, e) \in Seq(S) /\ Len(Append(q, e)) = Len(q) + 1
      /\ Append(q, e)[Len(q) + 1] = e /\ \A i \in 1..Len(q) : Append(q, e)[i] = q[i]
  BY <1>1, AppendProperties
<1>4. DOMAIN Append(q, e) = 1..Len(Append(q, e))
  BY <1>3, LenProperties
<1> QED BY <1>2, <1>3, <1>4 DEF IsSeq

(* One sequence after another. *)
LEMMA Joined ==
  ASSUME NEW a, NEW b, IsSeq(a), IsSeq(b)
  PROVE  /\ IsSeq(a \o b) /\ Len(a) \in Nat /\ Len(b) \in Nat /\ Len(a \o b) = Len(a) + Len(b)
         /\ \A i \in 1..Len(a) : (a \o b)[i] = a[i]
         /\ SubSeq(a \o b, 1, Len(a)) = a /\ SubSeq(a \o b, Len(a) + 1, Len(a \o b)) = b
         /\ a \o <<>> = a
<1>1. PICK S : a \in Seq(S) /\ b \in Seq(S)
  <2>1. PICK R : a \in Seq(R)
    BY DEF IsSeq
  <2>2. PICK T : b \in Seq(T)
    BY DEF IsSeq
  <2>3. a \in Seq(R \cup T) /\ b \in Seq(R \cup T)
    BY <2>1, <2>2, SeqMonotonic
  <2> QED BY <2>3
<1>2. /\ a \o b \in Seq(S) /\ Len(a \o b) = Len(a) + Len(b)
      /\ \A i \in 1..(Len(a) + Len(b)) : (a \o b)[i] = IF i <= Len(a) THEN a[i] ELSE b[i - Len(a)]
  BY <1>1, ConcatProperties
<1>3. Len(a) \in Nat /\ Len(b) \in Nat
  BY <1>1, LenProperties
<1> DEFINE c == a \o b
<1> HIDE DEF c
<1>4. c \in Seq(S) /\ Len(c) = Len(a) + Len(b)
      /\ \A i \in 1..(Len(a) + Len(b)) : c[i] = IF i <= Len(a) THEN a[i] ELSE b[i - Len(a)]
  BY <1>2 DEF c
<1>5. \A i \in 1..Len(c) : c[i] \in S
  BY <1>4, ElementOfSeq
<1>6. \A i \in 1..Len(a) : c[i] = a[i]
  BY <1>3, <1>4
<1>7. SubSeq(c, 1, Len(a)) = a
  <2>1. /\ SubSeq(c, 1, Len(a)) \in Seq(S) /\ Len(SubSeq(c, 1, Len(a))) = Len(a)
        /\ \A i \in 1..Len(a) : SubSeq(c, 1, Len(a))[i] = c[i]
    <3>1. \A i \in 1..Len(a) : c[i] \in S
      BY <1>3, <1>4, <1>5
    <3>2. /\ SubSeq(c, 1, Len(a)) \in Seq(S)
          /\ Len(SubSeq(c, 1, Len(a))) = IF 1 <= Len(a) THEN Len(a) - 1 + 1 ELSE 0
          /\ \A i \in 1..(Len(a) - 1 + 1) : SubSeq(c, 1, Len(a))[i] = c[1 + i - 1]
      BY <1>3, <3>1, SubSeqProperties
    <3> QED BY <1>3, <3>2
  <2> QED BY <1>1, <1>6, <2>1, SeqEqual
<1>8. SubSeq(c, Len(a) + 1, Len(c)) = b
  <2> DEFINE m == Len(a) + 1
             t == SubSeq(c, m, Len(c))
  <2>1. m \in Int /\ Len(c) \in Int /\ \A i \in m..Len(c) : c[i] \in S
    BY <1>3, <1>4, <1>5
  <2>2. /\ t \in Seq(S) /\ Len(t) = IF m <= Len(c) THEN Len(c) - m + 1 ELSE 0
        /\ \A i \in 1..(Len(c) - m + 1) : t[i] = c[m + i - 1]
    <3> HIDE DEF m
    <3> QED BY <2>1, SubSeqProperties
  <2>3. Len(t) = Len(b) /\ \A i \in 1..Len(b) : t[i] = c[Len(a) + i]
    <3>1. m = Len(a) + 1
      OBVIOUS
    <3> HIDE DEF t, m
    <3>2. Len(c) - m + 1 = Len(b) /\ (m <= Len(c) <=> Len(b) > 0)
      BY <1>3, <1>4, <3>1
    <3>3. Len(t) = Len(b)
      BY <1>3, <2>2, <3>2
    <3>4. \A i \in 1..Len(b) : t[i] = c[m + i - 1] /\ m + i - 1 = Len(a) + i
      BY <1>3, <2>2, <3>1, <3>2
    <3> QED BY <3>3, <3>4
  <2>4. \A i \in 1..Len(b) : c[Len(a) + i] = b[i]
    BY <1>3, <1>4
  <2> HIDE DEF t
  <2>5. t = b
    BY <1>1, <2>2, <2>3, <2>4, SeqEqual
  <2> QED BY <2>5 DEF t
<1>9. a \o <<>> = a
  BY <1>1, ConcatEmptySeq
<1> QED BY <1>3, <1>4, <1>6, <1>7, <1>8, <1>9 DEF IsSeq, c
LEMMA Rejoined ==
  ASSUME NEW a, NEW b, NEW c, IsSeq(a), IsSeq(b), IsSeq(c)
  PROVE  (a \o b) \o c = a \o (b \o c) /\ IsSeq(b \o c)
<1>1. PICK A, B, C : a \in Seq(A) /\ b \in Seq(B) /\ c \in Seq(C)
  BY DEF IsSeq
<1> DEFINE S == A \cup B \cup C
<1>2. a \in Seq(S) /\ b \in Seq(S) /\ c \in Seq(S)
  BY <1>1, SeqMonotonic
<1> HIDE DEF S
<1> QED BY <1>2, ConcatAssociative, Joined
-----------------------------------------------------------------------------
(* replay and resolveLatestCheckpoint go through the records one by one,   *)
(* unansweredToolCalls through the replies and their calls: each is a row, *)
(* of states, of links, or of lists, where the next is what a record makes *)
(* of the one before.                                                      *)
Linked(l, rec, i) ==
  IF rec.type # "checkpoint" THEN l
  ELSE IF rec.base = 0 THEN [seq |-> i, depth |-> 0, state |-> rec.state]
  ELSE IF Usable(rec, l)
  THEN [seq |-> i, depth |-> l.depth + 1,
        state |-> [rec.state EXCEPT !.messages = SubSeq(l.state.messages, 1, rec.keep) \o @]]
  ELSE l
With(what, x, rec, i) ==
  IF what = "state" THEN Apply(x, rec, i)
  ELSE IF what = "link" THEN Linked(x, rec, i)
  ELSE IF what = "join" THEN x \o rec
  ELSE IF rec[2] THEN x ELSE Append(x, rec[1])
IsFold(what, f, s, q, d, n) == f = [i \in d..n |-> IF i = d THEN s ELSE With(what, f[i - 1], q[i], i)]
Row(what, f, s, q, d, n) == f[d] = s /\ \A i \in d + 1..n : f[i] = With(what, f[i - 1], q[i], i)

LEMMA RowExists ==
  ASSUME NEW what, NEW s, NEW q, NEW d \in Nat, NEW n \in Nat, d <= n
  PROVE  \E f : IsFold(what, f, s, q, d, n)
<1> DEFINE Body(f, i) == IF i = d THEN s ELSE With(what, f[i - 1], q[i], i)
           Part(k) == \E f : \A i \in d..k : f[i] = Body(f, i)
           T == {k \in Nat : d <= k /\ ~Part(k)}
<1>1. Part(d)
  <2>1. \A i \in d..d : [j \in {d} |-> s][i] = Body([j \in {d} |-> s], i)
    OBVIOUS
  <2> QED BY <2>1
<1>2. ASSUME NEW k \in Nat, d <= k, Part(k) PROVE Part(k + 1)
  <2>1. PICK f : \A i \in d..k : f[i] = Body(f, i)
    BY <1>2
  <2> DEFINE g == [i \in d..(k + 1) |-> IF i = k + 1 THEN With(what, f[k], q[k + 1], k + 1) ELSE f[i]]
  <2>2. ASSUME NEW i \in d..(k + 1) PROVE g[i] = Body(g, i)
    <3>1. CASE i = k + 1
      <4>1. g[k + 1] = With(what, f[k], q[k + 1], k + 1) /\ g[k] = f[k]
        BY <1>2
      <4> HIDE DEF g
      <4> QED BY <1>2, <3>1, <4>1
    <3>2. CASE i # k + 1 /\ i # d
      <4>1. i \in d..k /\ i - 1 \in d..k /\ i - 1 # k + 1 /\ i - 1 \in d..(k + 1)
        BY <1>2, <3>2
      <4>2. g[i] = f[i] /\ g[i - 1] = f[i - 1]
        BY <3>2, <4>1
      <4> HIDE DEF g
      <4> QED BY <2>1, <3>2, <4>1, <4>2
    <3>3. CASE i # k + 1 /\ i = d
      BY <2>1, <3>3
    <3> QED BY <3>1, <3>2, <3>3
  <2> HIDE DEF g
  <2> QED BY <2>2
<1>3. Part(n)
  <2>1. CASE T # {}
    <3>1. PICK k \in T : \A m \in T : k <= m
      <4>1. T \subseteq Nat
        OBVIOUS
      <4> HIDE DEF T
      <4> QED BY <2>1, <4>1, LeastOf
    <3> HIDE DEF Part
    <3>2. k # d
      BY <1>1, <3>1
    <3>3. k - 1 \in Nat /\ d <= k - 1 /\ k - 1 + 1 = k
      BY <3>1, <3>2
    <3>4. Part(k - 1)
      BY <3>1, <3>3
    <3> QED BY <1>2, <3>1, <3>3, <3>4
  <2> HIDE DEF Part
  <2> QED BY <2>1
<1>4. PICK f : \A i \in d..n : f[i] = Body(f, i)
  BY <1>3
<1> DEFINE g == [i \in d..n |-> f[i]]
<1>5. \A i \in d..n : g[i] = Body(g, i)
  <2> SUFFICES ASSUME NEW i \in d..n PROVE g[i] = Body(g, i)
    OBVIOUS
  <2>1. i # d => i - 1 \in d..n
    OBVIOUS
  <2>2. g[i] = f[i] /\ (i # d => g[i - 1] = f[i - 1])
    BY <2>1
  <2> HIDE DEF g
  <2> QED BY <1>4, <2>2
<1>6. g = [i \in d..n |-> g[i]]
  OBVIOUS
<1> HIDE DEF g
<1>7. g = [i \in d..n |-> Body(g, i)]
  BY <1>5, <1>6
<1> QED BY <1>7 DEF IsFold

LEMMA ReplayIsRow ==
  ASSUME NEW s, NEW q, NEW d \in Nat, Len(q) \in Nat, d <= Len(q)
  PROVE  \E f : Row("state", f, s, q, d, Len(q)) /\ Replay(s, q, d) = f[Len(q)]
<1> DEFINE n == Len(q)
           R(f) == f = [i \in d..n |-> IF i = d THEN s ELSE Apply(f[i - 1], q[i], i)]
           f == CHOOSE f : R(f)
<1>1. R(f)
  <2>1. n \in Nat /\ d <= n
    OBVIOUS
  <2> HIDE DEF n
  <2>2. PICK g : IsFold("state", g, s, q, d, n)
    BY <2>1, RowExists
  <2>3. R(g)
    BY <2>2 DEF IsFold, With
  <2> HIDE DEF R
  <2> QED BY <2>3
<1>2. Replay(s, q, d) = f[n]
  BY DEF Replay
<1> HIDE DEF f
<1>3. f[d] = s
  BY <1>1 DEF IsFold, With
<1>4. \A i \in d + 1..n : f[i] = Apply(f[i - 1], q[i], i)
  <2>1. \A i \in d + 1..n : i \in d..n /\ i # d
    OBVIOUS
  <2> QED BY <1>1, <2>1 DEF IsFold, With
<1> QED BY <1>2, <1>3, <1>4 DEF Row, With

LEMMA LinkIsRow ==
  ASSUME NEW q, Len(q) \in Nat
  PROVE  \E f : Row("link", f, NoLink, q, 0, Len(q)) /\ LatestCheckpoint(q) = f[Len(q)]
<1> DEFINE n == Len(q)
           R(f) ==
             f = [i \in 0..n |->
               IF i = 0 THEN NoLink
               ELSE IF q[i].type # "checkpoint" THEN f[i - 1]
               ELSE IF q[i].base = 0 THEN [seq |-> i, depth |-> 0, state |-> q[i].state]
               ELSE IF Usable(q[i], f[i - 1])
               THEN [seq |-> i, depth |-> f[i - 1].depth + 1,
                     state |-> [q[i].state EXCEPT !.messages =
                                  SubSeq(f[i - 1].state.messages, 1, q[i].keep) \o @]]
               ELSE f[i - 1]]
           f == CHOOSE f : R(f)
<1>1. R(f)
  <2>1. n \in Nat /\ 0 <= n
    OBVIOUS
  <2> HIDE DEF n
  <2>2. PICK g : IsFold("link", g, NoLink, q, 0, n)
    BY <2>1, RowExists
  <2>3. R(g)
    BY <2>2 DEF IsFold, With, Linked
  <2> HIDE DEF R
  <2> QED BY <2>3
<1>2. LatestCheckpoint(q) = f[n]
  BY DEF LatestCheckpoint
<1> HIDE DEF f
<1>3. f[0] = NoLink
  BY <1>1
<1>4. \A i \in 0 + 1..n : f[i] = Linked(f[i - 1], q[i], i)
  <2>1. \A i \in 0 + 1..n : i \in 0..n /\ i # 0
    OBVIOUS
  <2> QED BY <1>1, <2>1 DEF Linked
<1> QED BY <1>2, <1>3, <1>4 DEF Row, With

(* There is one row. *)
LEMMA RowsAgree ==
  ASSUME NEW what, NEW f, NEW g, NEW s, NEW q, NEW p, NEW d \in Nat, NEW n \in Nat, d <= n,
         Row(what, f, s, q, d, n), Row(what, g, s, p, d, n), \A i \in d + 1..n : p[i] = q[i]
  PROVE  f[n] = g[n]
<1> DEFINE T == {k \in d..n : f[k] # g[k]}
<1>1. CASE T # {}
  <2>1. PICK k \in T : \A m \in T : k <= m
    <3>1. T \subseteq Nat
      OBVIOUS
    <3> HIDE DEF T
    <3> QED BY <1>1, <3>1, LeastOf
  <2>2. k # d /\ k \in d + 1..n /\ k - 1 \in d..n /\ k - 1 \notin T
    <3>1. k # d
      BY <2>1 DEF Row
    <3> QED BY <2>1, <3>1
  <2>3. f[k - 1] = g[k - 1]
    BY <2>2
  <2>4. f[k] = g[k]
    BY <2>2, <2>3 DEF Row
  <2> QED BY <2>1, <2>4
<1>2. n \in d..n
  OBVIOUS
<1> QED BY <1>1, <1>2

LEMMA ReplayOfNothing ==
  ASSUME NEW s, NEW q, Len(q) \in Nat
  PROVE  Replay(s, q, Len(q)) = s
BY ReplayIsRow DEF Row

LEMMA ReplayOfOneMore ==
  ASSUME NEW s, NEW q, IsSeq(q), NEW e, NEW d \in 0..Len(q)
  PROVE  Replay(s, Append(q, e), d) = Apply(Replay(s, q, d), e, Len(q) + 1)
<1> DEFINE n == Len(q)
           p == Append(q, e)
<1>1. n \in Nat /\ Len(p) = n + 1 /\ p[n + 1] = e /\ (\A i \in 1..n : p[i] = q[i]) /\ d \in Nat /\ d <= n
  BY Appended
<1>2. PICK f : Row("state", f, s, q, d, n) /\ Replay(s, q, d) = f[n]
  BY <1>1, ReplayIsRow
<1>3. PICK g : Row("state", g, s, p, d, n + 1) /\ Replay(s, p, d) = g[n + 1]
  <2> HIDE DEF p, n
  <2>1. Len(p) \in Nat /\ d <= Len(p)
    BY <1>1
  <2> QED BY <1>1, <2>1, ReplayIsRow
<1> HIDE DEF n, p
<1>4. Row("state", g, s, p, d, n)
  BY <1>1, <1>3 DEF Row
<1>5. \A i \in d + 1..n : p[i] = q[i]
  BY <1>1
<1>6. f[n] = g[n]
  BY <1>1, <1>2, <1>4, <1>5, RowsAgree
<1>7. g[n + 1] = Apply(g[n], p[n + 1], n + 1)
  <2> DEFINE k == n + 1
  <2>1. k \in d + 1..k /\ k - 1 = n
    BY <1>1
  <2>2. \A i \in d + 1..k : g[i] = Apply(g[i - 1], p[i], i)
    BY <1>3 DEF Row, With
  <2> HIDE DEF k
  <2>3. g[k] = Apply(g[k - 1], p[k], k)
    BY <2>1, <2>2
  <2> QED BY <2>1, <2>3 DEF k
<1> QED BY <1>1, <1>2, <1>3, <1>6, <1>7 DEF n, p


LEMMA LinkOfOneMore ==
  ASSUME NEW q, IsSeq(q), NEW e
  PROVE  LatestCheckpoint(Append(q, e)) = Linked(LatestCheckpoint(q), e, Len(q) + 1)
<1> DEFINE n == Len(q)
           p == Append(q, e)
<1>1. n \in Nat /\ Len(p) = n + 1 /\ p[n + 1] = e /\ (\A i \in 1..n : p[i] = q[i])
  BY Appended
<1>2. PICK f : Row("link", f, NoLink, q, 0, n) /\ LatestCheckpoint(q) = f[n]
  BY <1>1, LinkIsRow
<1>3. PICK g : Row("link", g, NoLink, p, 0, n + 1) /\ LatestCheckpoint(p) = g[n + 1]
  <2> HIDE DEF p, n
  <2>1. Len(p) \in Nat
    BY <1>1
  <2> QED BY <1>1, <2>1, LinkIsRow
<1> HIDE DEF n, p
<1>4. Row("link", g, NoLink, p, 0, n)
  BY <1>1, <1>3 DEF Row
<1>5. \A i \in 0 + 1..n : p[i] = q[i]
  BY <1>1
<1>6. f[n] = g[n]
  BY <1>1, <1>2, <1>4, <1>5, RowsAgree
<1>7. g[n + 1] = Linked(g[n], p[n + 1], n + 1)
  <2> DEFINE k == n + 1
  <2>1. k \in 0 + 1..k /\ k - 1 = n
    BY <1>1
  <2>2. \A i \in 0 + 1..k : g[i] = Linked(g[i - 1], p[i], i)
    BY <1>3 DEF Row, With
  <2> HIDE DEF k
  <2>3. g[k] = Linked(g[k - 1], p[k], k)
    BY <2>1, <2>2
  <2> QED BY <2>1, <2>3 DEF k
<1> QED BY <1>1, <1>2, <1>3, <1>6, <1>7 DEF n, p
-----------------------------------------------------------------------------
(* A state, and a link of a chain among n records.                         *)
IsState(s) ==
  /\ IsSeq(s.messages)
  /\ s = [messages |-> s.messages, lastTurn |-> s.lastTurn, openTurn |-> s.openTurn]
IsLink(l, n) ==
  \/ l = NoLink
  \/ l.seq \in 1..n /\ IsState(l.state) /\ l = [seq |-> l.seq, depth |-> l.depth, state |-> l.state]

(* Records whose latest checkpoint is what they fold to; as long as none   *)
(* of those after it is a compaction, they have only added messages to it. *)
OnlyAdded(p) ==
  LatestCheckpoint(p) # NoLink /\ ~Rewritten(p, LatestCheckpoint(p).seq)
  => \E e : IsSeq(e) /\ Load(p).state.messages = LatestCheckpoint(p).state.messages \o e
Exact(p) ==
  /\ IsSeq(p) /\ Len(p) >= 1
  /\ IsLink(LatestCheckpoint(p), Len(p))
  /\ IsState(Load(p).state) /\ Load(p).state = Folded(p)
  /\ OnlyAdded(p)

(* What a holder that has seen the records p may append.                   *)
Plain(p, r) ==
  /\ r.type # "checkpoint"
  /\ r.type = "compaction" => CompactionFits(Load(p).state.messages, r.keep)
MayAppend(p, r) == Plain(p, r) \/ r = CheckpointOf(Opened(p))

LEMMA Single ==
  ASSUME NEW x
  PROVE  IsSeq(<<x>>) /\ IsSeq(<<>>)
<1>1. <<x>> \in Seq({x}) /\ <<>> \in Seq({x})
  OBVIOUS
<1> QED BY <1>1 DEF IsSeq

LEMMA PartIsSeq ==
  ASSUME NEW q, IsSeq(q), NEW m \in 1..Len(q)
  PROVE  IsSeq(SubSeq(q, m, Len(q)))
<1>1. PICK S : q \in Seq(S)
  BY DEF IsSeq
<1>2. Len(q) \in Nat
  BY <1>1, LenProperties
<1>3. \A i \in m..Len(q) : q[i] \in S
  BY <1>1, <1>2, ElementOfSeq
<1>4. SubSeq(q, m, Len(q)) \in Seq(S)
  BY <1>2, <1>3, SubSeqProperties
<1> QED BY <1>4 DEF IsSeq

(* A state with other messages. *)
LEMMA OtherMessages ==
  ASSUME NEW s, IsState(s), NEW q, IsSeq(q)
  PROVE  /\ IsState([s EXCEPT !.messages = q]) /\ [s EXCEPT !.messages = q].messages = q
         /\ [s EXCEPT !.messages = s.messages] = s
<1> DEFINE m == s.messages
           t == s.lastTurn
           o == s.openTurn
<1>1. s = [messages |-> m, lastTurn |-> t, openTurn |-> o]
  BY DEF IsState
<1> HIDE DEF m, t, o
<1>2. [s EXCEPT !.messages = q] = [messages |-> q, lastTurn |-> t, openTurn |-> o]
  BY <1>1
<1>3. [s EXCEPT !.messages = m] = s
  BY <1>1
<1> QED BY <1>2, <1>3 DEF IsState, m

(* What a record adds: nothing is lost but by a compaction. *)
LEMMA ApplyAdds ==
  ASSUME NEW s, IsState(s), NEW r, NEW n, r.type # "checkpoint",
         r.type = "compaction" => r.keep \in 1..Len(s.messages)
  PROVE  /\ IsState(Apply(s, r, n))
         /\ r.type # "compaction" => \E e : IsSeq(e) /\ Apply(s, r, n).messages = s.messages \o e
<1> DEFINE a == Apply(s, r, n)
<1>1. s = [messages |-> s.messages, lastTurn |-> s.lastTurn, openTurn |-> s.openTurn] /\ IsSeq(s.messages)
  BY DEF IsState
<1>2. s.messages \o <<>> = s.messages /\ IsSeq(<<>>) /\ Len(s.messages) \in Nat
  BY <1>1, Single, Joined
<1>3. CASE r.type \in {"turn.start", "turn.end"}
  <2>1. \/ a = [s EXCEPT !.lastTurn = r.turn, !.openTurn = r.turn]
        \/ a = [s EXCEPT !.openTurn = 0]
    BY <1>3 DEF Apply
  <2> HIDE DEF a
  <2> DEFINE m == s.messages
             t == s.lastTurn
             o == s.openTurn
  <2>2. s = [messages |-> m, lastTurn |-> t, openTurn |-> o]
    BY <1>1
  <2> HIDE DEF m, t, o
  <2>3. a.messages = m /\ a = [messages |-> m, lastTurn |-> a.lastTurn, openTurn |-> a.openTurn]
    BY <2>1, <2>2
  <2>4. IsState(a)
    BY <1>1, <2>3 DEF IsState, m
  <2>5. a.messages = s.messages \o <<>>
    BY <1>2, <2>3 DEF m
  <2> QED BY <1>2, <2>4, <2>5 DEF a
<1>4. CASE r.type = "compaction"
  <2> DEFINE q == Compacted(s.messages, n, r.keep)
             m == Len(s.messages) - r.keep + 1
  <2>1. a = [s EXCEPT !.messages = q]
    BY <1>4 DEF Apply
  <2>2. IsSeq(q)
    <3>1. m \in 1..Len(s.messages)
      BY <1>2, <1>4
    <3>2. IsSeq(SubSeq(s.messages, m, Len(s.messages)))
      <4> HIDE DEF m
      <4> QED BY <1>1, <3>1, PartIsSeq
    <3>3. IsSeq(<<Summary(n)>>)
      BY Single
    <3> QED BY <3>2, <3>3, Joined DEF Compacted, LastOf
  <2> HIDE DEF q
  <2>3. IsState(a)
    BY <2>1, <2>2, OtherMessages
  <2> QED BY <1>4, <2>3
<1>5. CASE r.type \notin {"turn.start", "turn.end", "compaction"}
  <2> DEFINE e == MessageOf(r, n)
             q == s.messages \o e
  <2>1. a = [s EXCEPT !.messages = q]
    BY <1>5 DEF Apply
  <2>2. IsSeq(e)
    BY Single DEF MessageOf
  <2> HIDE DEF e
  <2>3. IsSeq(q)
    BY <1>1, <2>2, Joined
  <2>4. IsState(a) /\ a.messages = q
    <3> HIDE DEF a, q
    <3> QED BY <2>1, <2>3, OtherMessages
  <2> QED BY <2>2, <2>4
<1> QED BY <1>3, <1>4, <1>5

(* The records as if there were no checkpoints.                            *)
Masked(p) == [i \in 1..Len(p) |-> IF p[i].type = "checkpoint" THEN SessionStart ELSE p[i]]

LEMMA MaskedIsSeq ==
  ASSUME NEW p, IsSeq(p)
  PROVE  IsSeq(Masked(p)) /\ Len(Masked(p)) = Len(p)
<1>1. PICK S : p \in Seq(S)
  BY DEF IsSeq
<1>2. Len(p) \in Nat
  BY <1>1, LenProperties
<1> DEFINE R == S \cup {SessionStart}
<1>3. \A i \in 1..Len(p) : p[i] \in R
  BY <1>1, ElementOfSeq
<1>4. Masked(p) \in [1..Len(p) -> R]
  BY <1>3 DEF Masked
<1>5. Masked(p) \in Seq(R)
  BY <1>2, <1>4, SeqDef
<1>6. DOMAIN Masked(p) = 1..Len(p)
  BY DEF Masked
<1>7. Len(Masked(p)) = Len(p)
  BY <1>2, <1>5, <1>6, LenProperties
<1> QED BY <1>5, <1>7 DEF IsSeq

LEMMA FoldedIsReplay ==
  ASSUME NEW p
  PROVE  Folded(p) = Replay(InitialState, Masked(p), 1)
BY DEF Folded, Masked

LEMMA FoldedOfOneMore ==
  ASSUME NEW p, IsSeq(p), Len(p) >= 1, NEW r
  PROVE  Folded(Append(p, r)) =
           Apply(Folded(p), IF r.type = "checkpoint" THEN SessionStart ELSE r, Len(p) + 1)
<1> DEFINE m == IF r.type = "checkpoint" THEN SessionStart ELSE r
           q == Append(p, r)
<1>1. IsSeq(Masked(p)) /\ Len(Masked(p)) = Len(p) /\ Len(p) \in Nat
  BY MaskedIsSeq, Appended
<1>2. IsSeq(Masked(q)) /\ Len(q) = Len(p) + 1 /\ q[Len(p) + 1] = r /\ \A i \in 1..Len(p) : q[i] = p[i]
  <2>1. IsSeq(q) /\ Len(q) = Len(p) + 1 /\ q[Len(p) + 1] = r /\ \A i \in 1..Len(p) : q[i] = p[i]
    BY Appended
  <2> HIDE DEF q
  <2> QED BY <2>1, MaskedIsSeq
<1> DEFINE a == Append(Masked(p), m)
<1>3. /\ IsSeq(a) /\ Len(a) = Len(p) + 1 /\ DOMAIN a = 1..(Len(p) + 1) /\ a[Len(p) + 1] = m
      /\ \A i \in 1..Len(p) : a[i] = Masked(p)[i]
  <2> HIDE DEF m
  <2> QED BY <1>1, Appended
<1>4. Masked(q) = a
  <2>1. Masked(q) = [i \in 1..(Len(p) + 1) |-> IF q[i].type = "checkpoint" THEN SessionStart ELSE q[i]]
    BY <1>2 DEF Masked
  <2>2. a = [i \in 1..(Len(p) + 1) |-> a[i]]
    <3>1. a = [i \in DOMAIN a |-> a[i]]
      <4>1. PICK S : a \in Seq(S)
        BY <1>3 DEF IsSeq
      <4>2. a \in [1..Len(a) -> S]
        BY <4>1, LenProperties
      <4> HIDE DEF a
      <4> QED BY <4>2
    <3> QED BY <1>3, <3>1
  <2>3. ASSUME NEW i \in 1..(Len(p) + 1)
        PROVE  a[i] = IF q[i].type = "checkpoint" THEN SessionStart ELSE q[i]
    <3>1. CASE i = Len(p) + 1
      BY <1>2, <1>3, <3>1
    <3>2. CASE i # Len(p) + 1
      <4>1. i \in 1..Len(p)
        BY <1>1, <3>2
      <4>2. a[i] = Masked(p)[i] /\ q[i] = p[i]
        BY <1>2, <1>3, <4>1
      <4> QED BY <4>1, <4>2 DEF Masked
    <3> QED BY <3>1, <3>2
  <2> HIDE DEF a, q
  <2> QED BY <2>1, <2>2, <2>3
<1>5. Replay(InitialState, a, 1) = Apply(Replay(InitialState, Masked(p), 1), m, Len(p) + 1)
  <2>1. 1 \in 0..Len(Masked(p))
    BY <1>1
  <2> HIDE DEF m
  <2> QED BY <1>1, <2>1, ReplayOfOneMore
<1>6. Folded(q) = Replay(InitialState, a, 1) /\ Folded(p) = Replay(InitialState, Masked(p), 1)
  BY <1>4, FoldedIsReplay
<1> QED BY <1>5, <1>6

(* The last checkpoint, when there is one more record.                     *)
LEMMA LastCheckpointOfOneMore ==
  ASSUME NEW p, IsSeq(p), NEW r
  PROVE  LastCheckpoint(Append(p, r)) = IF r.type = "checkpoint" THEN Len(p) + 1 ELSE LastCheckpoint(p)
<1> DEFINE q == Append(p, r)
           At(s) == {i \in 1..Len(s) : s[i].type = "checkpoint"}
<1>1. Len(p) \in Nat /\ Len(q) = Len(p) + 1 /\ q[Len(p) + 1] = r /\ \A i \in 1..Len(p) : q[i] = p[i]
  BY Appended
<1> HIDE DEF q
<1>2. CASE r.type = "checkpoint"
  <2>1. Len(p) + 1 \in At(q) /\ \A j \in At(q) : j \in Nat /\ j <= Len(p) + 1
    BY <1>1, <1>2
  <2>2. LastCheckpoint(q) = CHOOSE i \in At(q) : \A j \in At(q) : j <= i
    BY <2>1 DEF LastCheckpoint
  <2>3. \A i \in At(q) : (\A j \in At(q) : j <= i) => i = Len(p) + 1
    BY <1>1, <2>1
  <2> HIDE DEF At
  <2> QED BY <1>2, <2>1, <2>2, <2>3 DEF q
<1>3. CASE r.type # "checkpoint"
  <2>1. At(q) = At(p)
    BY <1>1, <1>3
  <2>2. LastCheckpoint(p) = IF At(p) = {} THEN 0 ELSE CHOOSE i \in At(p) : \A j \in At(p) : j <= i
    BY DEF LastCheckpoint
  <2>3. LastCheckpoint(q) = IF At(q) = {} THEN 0 ELSE CHOOSE i \in At(q) : \A j \in At(q) : j <= i
    BY DEF LastCheckpoint
  <2> HIDE DEF At
  <2> QED BY <1>3, <2>1, <2>2, <2>3 DEF q
<1> QED BY <1>2, <1>3

LEMMA RewrittenByOneMore ==
  ASSUME NEW p, IsSeq(p), NEW r, NEW n \in 0..Len(p)
  PROVE  Rewritten(Append(p, r), n) <=> Rewritten(p, n) \/ r.type = "compaction"
<1> DEFINE q == Append(p, r)
<1>1. Len(p) \in Nat /\ Len(q) = Len(p) + 1 /\ q[Len(p) + 1] = r /\ \A i \in 1..Len(p) : q[i] = p[i]
  BY Appended
<1> HIDE DEF q
<1>2. \A i \in n + 1..Len(q) : i = Len(p) + 1 \/ i \in n + 1..Len(p)
  BY <1>1
<1>3. \A i \in n + 1..Len(p) : i \in 1..Len(p) /\ i \in n + 1..Len(q)
  BY <1>1
<1>4. Len(p) + 1 \in n + 1..Len(q)
  BY <1>1
<1> QED BY <1>1, <1>2, <1>3, <1>4 DEF Rewritten, q

(* The link of no checkpoint is not one of a checkpoint.                   *)
LEMMA ChainsHaveLinks ==
  ASSUME NEW l, NEW n \in Nat, IsLink(l, n), l # NoLink
  PROVE  l.seq \in 1..n /\ BaseOf(l) # NoBase
BY DEF IsLink, BaseOf, NoBase

(* One more record that is no checkpoint.                                  *)
LEMMA PlainIsLoaded ==
  ASSUME NEW p, Exact(p), NEW r, Plain(p, r)
  PROVE  /\ LatestCheckpoint(Append(p, r)) = LatestCheckpoint(p)
         /\ Load(Append(p, r)).state = Apply(Load(p).state, r, Len(p) + 1)
         /\ Load(Append(p, r)).base = IF r.type = "compaction" THEN NoBase ELSE Load(p).base
<1> DEFINE q == Append(p, r)
           l == LatestCheckpoint(p)
<1>1. IsSeq(p) /\ Len(p) \in Nat /\ Len(p) >= 1 /\ IsLink(l, Len(p))
  BY Appended DEF Exact
<1>2. LatestCheckpoint(q) = l
  BY <1>1, LinkOfOneMore DEF Linked, Plain
<1>3. CASE l = NoLink
  <2>1. Replay(InitialState, q, 1) = Apply(Replay(InitialState, p, 1), r, Len(p) + 1)
    BY <1>1, ReplayOfOneMore
  <2> HIDE DEF q, l
  <2>2. /\ Load(q).state = Replay(InitialState, q, 1) /\ Load(p).state = Replay(InitialState, p, 1)
        /\ Load(q).base = NoBase /\ Load(p).base = NoBase
    BY <1>2, <1>3 DEF Load, l
  <2> QED BY <1>2, <2>1, <2>2 DEF q, l
<1>4. CASE l # NoLink
  <2>1. l.seq \in 1..Len(p)
    BY <1>1, <1>4, ChainsHaveLinks
  <2>2. Replay(l.state, q, l.seq) = Apply(Replay(l.state, p, l.seq), r, Len(p) + 1)
    BY <1>1, <2>1, ReplayOfOneMore
  <2>3. Rewritten(q, l.seq) <=> Rewritten(p, l.seq) \/ r.type = "compaction"
    BY <1>1, <2>1, RewrittenByOneMore
  <2> HIDE DEF q, l
  <2>4. /\ Load(q).state = Replay(l.state, q, l.seq) /\ Load(p).state = Replay(l.state, p, l.seq)
        /\ Load(q).base = IF Rewritten(q, l.seq) THEN NoBase ELSE BaseOf(l)
        /\ Load(p).base = IF Rewritten(p, l.seq) THEN NoBase ELSE BaseOf(l)
    BY <1>2, <1>4 DEF Load, l
  <2> QED BY <1>2, <2>2, <2>3, <2>4 DEF q, l
<1> QED BY <1>3, <1>4

LEMMA PlainKeepsExact ==
  ASSUME NEW p, Exact(p), NEW r, Plain(p, r)
  PROVE  Exact(Append(p, r)) /\ Opened(Append(p, r)) = Write(Opened(p), r)
<1> DEFINE q == Append(p, r)
           l == LatestCheckpoint(p)
           s == Load(p).state
<1>1. /\ IsSeq(p) /\ Len(p) \in Nat /\ Len(p) >= 1 /\ IsLink(l, Len(p)) /\ IsState(s) /\ s = Folded(p)
      /\ r.type # "checkpoint"
  BY Appended DEF Exact, Plain
<1>2. /\ LatestCheckpoint(q) = l /\ Load(q).state = Apply(s, r, Len(p) + 1)
      /\ Load(q).base = IF r.type = "compaction" THEN NoBase ELSE Load(p).base
  BY PlainIsLoaded
<1>3. IsSeq(q) /\ Len(q) = Len(p) + 1
  BY <1>1, Appended
<1>4. r.type = "compaction" => r.keep \in 1..Len(s.messages)
  BY DEF Plain, CompactionFits
<1>5. /\ IsState(Load(q).state)
      /\ r.type # "compaction" => \E e : IsSeq(e) /\ Load(q).state.messages = s.messages \o e
  <2> HIDE DEF s, q
  <2> QED BY <1>1, <1>2, <1>4, ApplyAdds
<1>6. Folded(q) = Load(q).state
  BY <1>1, <1>2, FoldedOfOneMore
<1>7. OnlyAdded(q)
  <2>1. SUFFICES ASSUME l # NoLink, ~Rewritten(q, l.seq)
                 PROVE  \E e : IsSeq(e) /\ Load(q).state.messages = l.state.messages \o e
    BY <1>2 DEF OnlyAdded
  <2>2. l.seq \in 1..Len(p) /\ IsSeq(l.state.messages)
    BY <1>1, <2>1 DEF IsLink, IsState
  <2>3. ~Rewritten(p, l.seq) /\ r.type # "compaction"
    BY <1>1, <2>1, <2>2, RewrittenByOneMore
  <2>4. PICK a : IsSeq(a) /\ s.messages = l.state.messages \o a
    BY <2>1, <2>3 DEF Exact, OnlyAdded
  <2>5. PICK b : IsSeq(b) /\ Load(q).state.messages = s.messages \o b
    BY <1>5, <2>3
  <2> DEFINE m == l.state.messages
  <2>6. IsSeq(m) /\ s.messages = m \o a
    BY <2>2, <2>4
  <2> HIDE DEF m
  <2>7. (m \o a) \o b = m \o (a \o b) /\ IsSeq(a \o b)
    BY <2>4, <2>5, <2>6, Rejoined
  <2>8. Load(q).state.messages = m \o (a \o b)
    BY <2>5, <2>6, <2>7
  <2> QED BY <2>7, <2>8 DEF m
<1>8. IsLink(l, Len(q))
  BY <1>1, <1>3 DEF IsLink
<1>9. Exact(q)
  <2> HIDE DEF q, l
  <2> QED BY <1>1, <1>2, <1>3, <1>5, <1>6, <1>7, <1>8 DEF Exact
<1>10. Opened(q) = Write(Opened(p), r)
  <2>1. LastCheckpoint(q) = LastCheckpoint(p)
    BY <1>1, LastCheckpointOfOneMore
  <2> HIDE DEF q
  <2>2. Opened(q) = [last |-> Len(p) + 1, lastCheckpoint |-> LastCheckpoint(p),
                     base |-> IF r.type = "compaction" THEN NoBase ELSE Load(p).base,
                     state |-> Apply(s, r, Len(p) + 1)]
    BY <1>2, <1>3, <2>1 DEF Opened
  <2> QED BY <1>1, <2>2 DEF Opened, Write
<1> QED BY <1>9, <1>10

(* One more record that is the checkpoint due.                             *)
LEMMA CheckpointIsLink ==
  ASSUME NEW p, Exact(p), NEW r, r = CheckpointOf(Opened(p))
  PROVE  /\ r.type = "checkpoint"
         /\ LatestCheckpoint(Append(p, r)) =
              [seq |-> Len(p) + 1, depth |-> IF r.base = 0 THEN 0 ELSE Load(p).base.depth + 1,
               state |-> Load(p).state]
         /\ Apply(Load(p).state, r, Len(p) + 1) = Load(p).state
<1> DEFINE q == Append(p, r)
           l == LatestCheckpoint(p)
           s == Load(p).state
           b == Load(p).base
           n == Len(p) + 1
<1>1. IsSeq(p) /\ Len(p) \in Nat /\ Len(p) >= 1 /\ IsLink(l, Len(p)) /\ IsState(s)
  BY Appended DEF Exact
<1>2. LatestCheckpoint(q) = Linked(l, r, n)
  BY <1>1, LinkOfOneMore
<1>3. Opened(p).base = b /\ Opened(p).state = s
  BY DEF Opened
<1>4. CASE b = NoBase \/ b.count = 0 \/ b.depth >= MaxChain
  <2>1. r = [type |-> "checkpoint", base |-> 0, keep |-> 0, state |-> s]
    BY <1>3, <1>4 DEF CheckpointOf, Checkpoint
  <2> HIDE DEF s, q, l
  <2>2. r.type = "checkpoint" /\ r.base = 0 /\ r.state = s
    BY <2>1
  <2>3. Linked(l, r, n) = [seq |-> n, depth |-> 0, state |-> s]
    BY <2>2 DEF Linked
  <2>4. Apply(s, r, n) = s
    BY <2>2 DEF Apply
  <2> QED BY <1>2, <2>2, <2>3, <2>4 DEF s, q
<1>5. CASE ~(b = NoBase \/ b.count = 0 \/ b.depth >= MaxChain)
  <2>1. l # NoLink /\ ~Rewritten(p, l.seq) /\ b = BaseOf(l)
    BY <1>5 DEF Load
  <2>2. l.seq \in 1..Len(p) /\ IsState(l.state)
    BY <1>1, <2>1 DEF IsLink
  <2> DEFINE m == l.state.messages
             k == Len(m)
  <2>3. b.seq = l.seq /\ b.count = k
    BY <2>1 DEF BaseOf
  <2>4. PICK e : IsSeq(e) /\ s.messages = m \o e
    BY <2>1 DEF Exact, OnlyAdded
  <2>5. IsSeq(m)
    BY <2>2 DEF IsState
  <2>6. SubSeq(s.messages, k + 1, Len(s.messages)) = e /\ SubSeq(m, 1, k) = m /\ k \in Nat /\ k <= k
    <3> HIDE DEF m
    <3>1. SubSeq(m \o e, k + 1, Len(m \o e)) = e /\ k \in Nat
      BY <2>4, <2>5, Joined
    <3>2. PICK S : m \in Seq(S)
      BY <2>5 DEF IsSeq
    <3>3. SubSeq(m, 1, k) = m
      BY <3>2, SubSeqFull
    <3> QED BY <2>4, <3>1, <3>3
  <2>7. CheckpointOf(Opened(p)) =
          Checkpoint(b.seq, b.count, [s EXCEPT !.messages = SubSeq(s.messages, b.count + 1, Len(s.messages))])
    <3> HIDE DEF s, b
    <3> QED BY <1>3, <1>5 DEF CheckpointOf
  <2> DEFINE t == [s EXCEPT !.messages = e]
  <2>8. r = [type |-> "checkpoint", base |-> l.seq, keep |-> k, state |-> t]
    BY <2>3, <2>6, <2>7 DEF Checkpoint
  <2> HIDE DEF t
  <2>9. r.type = "checkpoint" /\ r.base = l.seq /\ r.base # 0 /\ r.keep = k /\ r.state = t
    BY <2>2, <2>8
  <2>10. t.messages = e /\ IsState(t) /\ [t EXCEPT !.messages = m \o e] = s
    <3>1. t.messages = e /\ IsState(t)
      <4> HIDE DEF s
      <4> QED BY <1>1, <2>4, OtherMessages DEF t
    <3>2. [t EXCEPT !.messages = s.messages] = s
      <4> DEFINE a == s.messages
                 c == s.lastTurn
                 d == s.openTurn
      <4>1. s = [messages |-> a, lastTurn |-> c, openTurn |-> d]
        BY <1>1 DEF IsState
      <4> HIDE DEF a, c, d, s
      <4>2. t = [messages |-> e, lastTurn |-> c, openTurn |-> d]
        BY <4>1 DEF t
      <4>3. [t EXCEPT !.messages = a] = s
        BY <4>1, <4>2
      <4> QED BY <4>3 DEF a
    <3> QED BY <2>4, <3>1, <3>2
  <2>11. Usable(r, l)
    <3> HIDE DEF l
    <3>1. Len(l.state.messages) = k
      OBVIOUS
    <3> HIDE DEF k
    <3> QED BY <2>1, <2>6, <2>9, <3>1 DEF Usable
  <2>12. Linked(l, r, n) = [seq |-> n, depth |-> l.depth + 1, state |-> s]
    <3>1. Linked(l, r, n) = [seq |-> n, depth |-> l.depth + 1,
                             state |-> [t EXCEPT !.messages = SubSeq(m, 1, k) \o t.messages]]
      <4> HIDE DEF l, n
      <4> QED BY <2>9, <2>11 DEF Linked
    <3> QED BY <2>6, <2>10, <3>1
  <2>13. b.depth = l.depth
    BY <2>1 DEF BaseOf
  <2>14. Apply(s, r, n) = s
    <3>1. Apply(s, r, n) = [s EXCEPT !.messages = s.messages \o <<>>]
      BY <2>9 DEF Apply, MessageOf
    <3>2. s.messages \o <<>> = s.messages
      BY <1>1, Single, Joined DEF IsState
    <3>3. [s EXCEPT !.messages = s.messages] = s
      <4> HIDE DEF s
      <4> QED BY <1>1, Single, OtherMessages
    <3> QED BY <3>1, <3>2, <3>3
  <2> HIDE DEF q, s, b, n, l
  <2> QED BY <1>2, <2>9, <2>12, <2>13, <2>14 DEF q, s, b, n
<1> QED BY <1>4, <1>5

LEMMA CheckpointKeepsExact ==
  ASSUME NEW p, Exact(p), NEW r, r = CheckpointOf(Opened(p))
  PROVE  Exact(Append(p, r)) /\ Opened(Append(p, r)) = Write(Opened(p), r)
<1> DEFINE q == Append(p, r)
           s == Load(p).state
           n == Len(p) + 1
           d == IF r.base = 0 THEN 0 ELSE Load(p).base.depth + 1
           l == [seq |-> n, depth |-> d, state |-> s]
<1>1. IsSeq(p) /\ Len(p) \in Nat /\ Len(p) >= 1 /\ IsState(s) /\ s = Folded(p)
  BY Appended DEF Exact
<1>2. r.type = "checkpoint" /\ LatestCheckpoint(q) = l /\ Apply(s, r, n) = s
  BY CheckpointIsLink
<1>3. IsSeq(q) /\ Len(q) = n
  BY <1>1, Appended
<1> HIDE DEF d, s
<1>4. l # NoLink /\ l.seq = n /\ l.state = s /\ l.depth = d /\ IsLink(l, n)
  BY <1>1 DEF NoLink, IsLink
<1> HIDE DEF l, q
<1>5. ~Rewritten(q, n)
  BY <1>1, <1>3 DEF Rewritten
<1>6. Load(q).state = s /\ Load(q).base = BaseOf(l)
  <2>1. Replay(l.state, q, Len(q)) = l.state
    BY <1>1, <1>3, ReplayOfNothing
  <2> QED BY <1>2, <1>3, <1>4, <1>5, <2>1 DEF Load
<1>7. Folded(q) = s
  <2>1. Folded(q) = Apply(s, SessionStart, n)
    BY <1>1, <1>2, FoldedOfOneMore DEF q
  <2>2. Apply(s, SessionStart, n) = [s EXCEPT !.messages = s.messages \o <<>>]
    BY DEF Apply, MessageOf, SessionStart
  <2>3. s.messages \o <<>> = s.messages
    BY <1>1, Single, Joined DEF IsState
  <2>4. [s EXCEPT !.messages = s.messages] = s
    BY <1>1, Single, OtherMessages
  <2> QED BY <2>1, <2>2, <2>3, <2>4
<1>8. OnlyAdded(q)
  <2>1. s.messages = s.messages \o <<>> /\ IsSeq(<<>>)
    BY <1>1, Single, Joined DEF IsState
  <2> QED BY <1>2, <1>4, <1>6, <2>1 DEF OnlyAdded
<1>9. Exact(q)
  BY <1>1, <1>2, <1>3, <1>4, <1>6, <1>7, <1>8 DEF Exact
<1>10. Opened(q) = Write(Opened(p), r)
  <2>1. LastCheckpoint(q) = n
    BY <1>1, <1>2, LastCheckpointOfOneMore DEF q
  <2>2. Opened(q) = [last |-> n, lastCheckpoint |-> n,
                     base |-> [seq |-> n, count |-> Len(s.messages), depth |-> d], state |-> s]
    BY <1>3, <1>4, <1>6, <2>1 DEF Opened, BaseOf
  <2>3. /\ Opened(p).last + 1 = n /\ Opened(p).state = s
        /\ d = IF r.base = 0 THEN 0 ELSE Opened(p).base.depth + 1
    BY DEF Opened, s, d
  <2> HIDE DEF n
  <2> QED BY <1>2, <2>2, <2>3 DEF Write
<1> QED BY <1>9, <1>10 DEF q
-----------------------------------------------------------------------------
(* The inductive invariant: the file is exact, and the holder has at hand  *)
(* what it would read from it, but for a record that was rejected.         *)
Held == holder.last \in 1..Len(log) /\ Exact(Known) /\ holder = Opened(Known)
StateInv == Exact(log) /\ (Holding => Held)

LEMMA RecordOrCheckpoint ==
  ASSUME NEW p, Exact(p), NEW r, MayAppend(p, r)
  PROVE  Exact(Append(p, r)) /\ Opened(Append(p, r)) = Write(Opened(p), r)
BY PlainKeepsExact, CheckpointKeepsExact DEF MayAppend

LEMMA FirstOf ==
  ASSUME NEW q, IsSeq(q)
  PROVE  /\ Len(q) \in Nat /\ SubSeq(q, 1, Len(q)) = q
         /\ \A n \in 1..Len(q) : IsSeq(SubSeq(q, 1, n)) /\ Len(SubSeq(q, 1, n)) = n
         /\ \A e : SubSeq(Append(q, e), 1, Len(q)) = q
<1>1. PICK S : q \in Seq(S)
  BY DEF IsSeq
<1>2. Len(q) \in Nat
  BY <1>1, LenProperties
<1>3. SubSeq(q, 1, Len(q)) = q
  BY <1>1, SubSeqFull
<1>4. ASSUME NEW n \in 1..Len(q) PROVE IsSeq(SubSeq(q, 1, n)) /\ Len(SubSeq(q, 1, n)) = n
  <2>1. \A i \in 1..n : q[i] \in S
    BY <1>1, <1>2, ElementOfSeq
  <2>2. SubSeq(q, 1, n) \in Seq(S) /\ Len(SubSeq(q, 1, n)) = IF 1 <= n THEN n - 1 + 1 ELSE 0
    BY <1>2, <2>1, SubSeqProperties
  <2> QED BY <1>2, <2>2 DEF IsSeq
<1>5. ASSUME NEW e PROVE SubSeq(Append(q, e), 1, Len(q)) = q
  <2>1. q \in Seq(S \cup {e})
    BY <1>1, SeqMonotonic
  <2>2. Append(q, e) = q \o <<e>>
    BY <2>1, AppendIsConcat
  <2>3. SubSeq(q \o <<e>>, 1, Len(q)) = q
    BY Single, Joined
  <2> QED BY <2>2, <2>3
<1> QED BY <1>2, <1>3, <1>4, <1>5

(* Whatever the last record of a file, its holder has what is before it.   *)
LEMMA HeldBefore ==
  ASSUME NEW p, Exact(p), log' = p \/ \E r : log' = Append(p, r) /\ Exact(Append(p, r)), holder' = Opened(p)
  PROVE  Exact(log') /\ Held'
<1>1. IsSeq(p) /\ Len(p) \in Nat /\ Len(p) >= 1 /\ Opened(p).last = Len(p)
  BY FirstOf DEF Exact, Opened
<1>2. Exact(log') /\ SubSeq(log', 1, Len(p)) = p /\ Len(log') \in Nat /\ Len(p) <= Len(log')
  <2>1. CASE log' = p
    BY <1>1, <2>1, FirstOf
  <2>2. ASSUME NEW r, log' = Append(p, r), Exact(Append(p, r))
        PROVE  Exact(log') /\ SubSeq(log', 1, Len(p)) = p /\ Len(log') \in Nat /\ Len(p) <= Len(log')
    BY <1>1, <2>2, FirstOf, Appended
  <2> QED BY <2>1, <2>2
<1>3. Known' = p
  BY <1>1, <1>2 DEF Known
<1>4. holder'.last \in 1..Len(log') /\ Exact(Known')
  BY <1>1, <1>2, <1>3
<1> QED BY <1>2, <1>3, <1>4 DEF Held

(* An append that resolves, or does not.                                   *)
LEMMA AppendKeeps ==
  ASSUME StateInv, Held, NEW r, MayAppend(Known, r), Appends(r) \/ Rejects(r)
  PROVE  Exact(log') /\ Held'
<1> DEFINE p == Known
           q == Append(p, r)
           w == Write(holder, r)
           c == CheckpointOf(w)
<1>1. Exact(p) /\ holder = Opened(p) /\ Exact(log) /\ holder.last = Len(p) /\ Len(p) \in Nat
  BY FirstOf DEF Held, StateInv, Opened, Exact
<1>2. Exact(q) /\ w = Opened(q) /\ Len(q) = Len(p) + 1
  <2>1. IsSeq(p)
    BY <1>1 DEF Exact
  <2>2. Len(q) = Len(p) + 1
    BY <2>1, Appended
  <2> QED BY <1>1, <2>2, RecordOrCheckpoint
<1>3. Exact(Append(q, c)) /\ Write(w, c) = Opened(Append(q, c))
  <2> HIDE DEF q, w
  <2>1. MayAppend(q, c)
    BY <1>2 DEF MayAppend
  <2> HIDE DEF c
  <2> QED BY <1>2, <2>1, RecordOrCheckpoint
<1>4. CASE Appends(r)
  <2>1. CASE CheckpointDue(w, r)
    <3>1. log' = p \o <<r, c>> /\ holder' = Write(w, c)
      BY <1>4, <2>1 DEF Appends
    <3>2. p \o <<r, c>> = Append(q, c)
      <4>1. PICK S : p \in Seq(S)
        BY <1>1 DEF Exact, IsSeq
      <4> HIDE DEF p, c
      <4> QED BY <4>1
    <3> HIDE DEF q, w, c
    <3> QED BY <1>3, <3>1, <3>2, HeldBefore
  <2>2. CASE ~CheckpointDue(w, r)
    <3>1. log' = q /\ holder' = w
      BY <1>4, <2>2 DEF Appends
    <3> HIDE DEF q, w
    <3> QED BY <1>2, <3>1, HeldBefore
  <2> QED BY <2>1, <2>2
<1>5. CASE LineFails(holder, p, r)
  <2>1. holder' = holder /\ log' \in {p, q, log}
    BY <1>5 DEF LineFails
  <2>2. CASE log' = log
    <3>1. holder' = holder
      BY <2>1
    <3> QED BY <1>1, <2>2, <3>1 DEF Held, StateInv, Known
  <2>3. CASE log' \in {p, q}
    <3> HIDE DEF p
    <3> QED BY <1>1, <1>2, <2>1, <2>3, HeldBefore
  <2> QED BY <2>1, <2>2, <2>3
<1>6. CASE LineFails(w, q, c)
  <2>1. w # holder
    <3>1. w.last = Len(p) + 1
      BY <1>2 DEF Opened
    <3> HIDE DEF w
    <3> QED BY <1>1, <3>1
  <2>2. holder' = w /\ log' \in {q, Append(q, c)}
    <3> HIDE DEF q, w, c
    <3> QED BY <1>6, <2>1 DEF LineFails
  <2> HIDE DEF q, w, c
  <2> QED BY <1>2, <1>3, <2>2, HeldBefore
<1> QED BY <1>4, <1>5, <1>6 DEF Rejects
-----------------------------------------------------------------------------
(* What a step does to the file: an append, nothing, an open, or an end.   *)
Appending == Holding /\ \E r : MayAppend(Known, r) /\ (Appends(r) \/ Rejects(r))
Quiet == UNCHANGED <<log, holder>> /\ (Holding' => Holding)
Opening == UNCHANGED log /\ holder' = Opened(log)
Ending ==
  /\ Holding /\ ~Holding'
  /\ log' \in {log, Known} \/ \E r : MayAppend(Known, r) /\ log' = Append(Known, r)

(* Every record but a compaction may always be appended.                   *)
LEMMA Constructed ==
  ASSUME NEW t, NEW n, NEW x, NEW y, NEW p
  PROVE  /\ MayAppend(p, TurnStart(t)) /\ MayAppend(p, UserMessage(t)) /\ MayAppend(p, AssistantMessage(t, n, x))
         /\ MayAppend(p, ToolResult(t, x, y)) /\ MayAppend(p, TurnEnd(t, x))
BY DEF MayAppend, Plain, TurnStart, UserMessage, AssistantMessage, ToolResult, TurnEnd

LEMMA CompactionMayFollow ==
  ASSUME Held, NEW k, CompactionFits(holder.state.messages, k)
  PROVE  MayAppend(Known, Compaction(turn, k))
<1>1. holder.state = Load(Known).state
  BY DEF Held, Opened
<1> QED BY <1>1 DEF MayAppend, Plain, Compaction

LEMMA StepsAre ==
  ASSUME StateInv, StateNext
  PROVE  Appending \/ Quiet \/ Opening \/ Ending
<1>1. CASE Open
  BY <1>1 DEF Open, Opening
<1>2. CASE ReadState \/ NoReply
  BY <1>2 DEF ReadState, NoReply, Quiet, stored, Holding, Goto, Requesting
<1>3. CASE AnswerCall \/ CloseTurn \/ RecoveryFails
  <2>1. MayAppend(Known, RecoveryRecord)
    BY Constructed DEF RecoveryRecord
  <2>2. Holding /\ (Appends(RecoveryRecord) \/ Rejects(RecoveryRecord))
    BY <1>3 DEF AnswerCall, CloseTurn, RecoveryFails, Recovering, Holding
  <2> QED BY <2>1, <2>2 DEF Appending
<1>4. CASE StartTurn \/ StartFails
  BY <1>4, Constructed DEF StartTurn, StartFails, Appending, Holding
<1>5. CASE Ask \/ AskFails
  BY <1>5, Constructed DEF Ask, AskFails, Says, Appending, Holding
<1>6. CASE Compact
  <2>1. Holding
    BY <1>6 DEF Compact, Holding
  <2>2. PICK k : CompactionFits(holder.state.messages, k) /\ Appends(Compaction(turn, k))
    BY <1>6 DEF Compact
  <2> QED BY <2>1, <2>2, CompactionMayFollow DEF Appending, StateInv
<1>7. CASE CompactFails
  <2>1. Holding /\ phase' # "closed"
    BY <1>7 DEF CompactFails, Holding
  <2>2. CASE UNCHANGED stored
    BY <2>1, <2>2 DEF Quiet, stored
  <2>3. CASE \E k : CompactionFits(holder.state.messages, k) /\ Rejects(Compaction(turn, k))
    BY <2>1, <2>3, CompactionMayFollow DEF Appending, StateInv
  <2> QED BY <1>7, <2>2, <2>3 DEF CompactFails
<1>8. CASE Steer \/ SteerFails
  BY <1>8, Constructed DEF Steer, SteerFails, Drains, Says, Appending, Holding
<1>9. CASE Reply \/ ReplyFails
  <2>1. Holding
    BY <1>9 DEF Reply, ReplyFails, Requesting, Holding
  <2>2. \E n, x : Appends(AssistantMessage(turn, n, x)) \/ Rejects(AssistantMessage(turn, n, x))
    BY <1>9 DEF Reply, ReplyFails, Says
  <2> QED BY <2>1, <2>2, Constructed DEF Appending
<1>10. CASE Result \/ ResultFails
  BY <1>10, Constructed DEF Result, ResultFails, Says, Appending, Holding
<1>11. CASE EndTurn \/ EndFails
  BY <1>11, Constructed DEF EndTurn, EndFails, Appending, Holding
<1>12. CASE Releases \/ ReleaseFails
  <2>1. MayAppend(Known, CheckpointOf(holder)) /\ Holding
    BY <1>12 DEF Releases, ReleaseFails, Holding, MayAppend, StateInv, Held
  <2>2. log' \in {log, Known, Append(Known, CheckpointOf(holder))} /\ phase' = "closed"
    BY <1>12 DEF Releases, ReleaseFails, Closes, Goto
  <2> QED BY <2>1, <2>2 DEF Ending, Holding
<1>13. CASE Killed
  <2>1. Holding /\ ~Holding'
    BY <1>13 DEF Killed, Holding, Closes, Goto
  <2>2. \A r \in UnderWay : MayAppend(Known, r)
    <3>1. Held
      BY <2>1 DEF StateInv
    <3>2. \A r \in Steers : MayAppend(Known, r)
      BY Constructed DEF Steers
    <3>3. MayAppend(Known, RecoveryRecord)
      BY Constructed DEF RecoveryRecord
    <3>4. MayAppend(Known, CheckpointOf(holder))
      BY <3>1 DEF MayAppend, Held
    <3>5. CASE phase \in {"top", "send"}
      <4>1. \A c : CompactionFits(holder.state.messages, Kept(c)) => MayAppend(Known, Compaction(turn, Kept(c)))
        BY <3>1, CompactionMayFollow
      <4>2. \A n : MayAppend(Known, AssistantMessage(turn, n, TRUE))
        BY Constructed
      <4>3. ~Recovering /\ phase # "start" /\ phase # "ask"
        BY <3>5 DEF Recovering
      <4>4. \A r \in UnderWay :
              \/ r \in Steers \/ \E n : r = AssistantMessage(turn, n, TRUE)
              \/ \E c : CompactionFits(holder.state.messages, Kept(c)) /\ r = Compaction(turn, Kept(c))
        BY <3>5, <4>3 DEF UnderWay
      <4> QED BY <3>2, <4>1, <4>2, <4>4
    <3>6. CASE phase \notin {"top", "send"}
      BY <3>2, <3>3, <3>4, <3>6, Constructed DEF UnderWay, Recovering
    <3> QED BY <3>5, <3>6
  <2>3. log' \in {log, Known} \/ \E r \in UnderWay : log' = Append(Known, r)
    BY <1>13 DEF Killed
  <2> QED BY <2>1, <2>2, <2>3 DEF Ending
<1> QED BY <1>1, <1>2, <1>3, <1>4, <1>5, <1>6, <1>7, <1>8, <1>9, <1>10, <1>11, <1>12, <1>13 DEF StateNext

LEMMA StateInitially == StateInit => StateInv
<1> SUFFICES ASSUME StateInit PROVE StateInv
  OBVIOUS
<1>1. log = <<SessionStart>> /\ holder = Opened(log)
  BY DEF StateInit
<1>2. IsSeq(log) /\ Len(log) = 1 /\ log[1].type # "checkpoint" /\ Len(log) \in Nat /\ 1 <= Len(log)
  <2>1. IsSeq(log) /\ Len(log) = 1 /\ log[1] = SessionStart
    BY <1>1, Single
  <2> QED BY <2>1 DEF SessionStart
<1>3. LatestCheckpoint(log) = NoLink
  <2>1. PICK f : Row("link", f, NoLink, log, 0, Len(log)) /\ LatestCheckpoint(log) = f[Len(log)]
    BY <1>2, LinkIsRow
  <2>2. f[0] = NoLink /\ f[1] = Linked(f[1 - 1], log[1], 1)
    <3>1. 1 \in 0 + 1..1
      OBVIOUS
    <3>2. \A i \in 0 + 1..1 : f[i] = With("link", f[i - 1], log[i], i)
      BY <1>2, <2>1 DEF Row
    <3>3. f[1] = With("link", f[1 - 1], log[1], 1)
      BY <3>1, <3>2
    <3> QED BY <2>1, <3>3 DEF Row, With
  <2>3. f[1] = NoLink
    BY <1>2, <2>2 DEF Linked
  <2> QED BY <1>2, <2>1, <2>3
<1>4. Load(log).state = InitialState
  <2>1. Replay(InitialState, log, 1) = InitialState
    BY <1>2, ReplayOfNothing
  <2> QED BY <1>3, <2>1 DEF Load
<1>5. Folded(log) = InitialState
  <2>1. Len(Masked(log)) = 1 /\ Len(Masked(log)) \in Nat
    BY <1>2, MaskedIsSeq
  <2>2. Replay(InitialState, Masked(log), Len(Masked(log))) = InitialState
    BY <2>1, ReplayOfNothing
  <2> QED BY <2>1, <2>2, FoldedIsReplay
<1>6. IsState(InitialState)
  BY Single DEF IsState, InitialState
<1>7. Exact(log)
  BY <1>2, <1>3, <1>4, <1>5, <1>6 DEF Exact, IsLink, OnlyAdded
<1>8. Known = log /\ holder.last = 1
  <2>1. holder.last = Len(log)
    BY <1>1 DEF Opened
  <2> QED BY <1>2, <2>1, FirstOf DEF Known
<1> QED BY <1>1, <1>2, <1>7, <1>8 DEF StateInv, Held

LEMMA StateStep == StateInv /\ [StateNext]_stateVars => StateInv'
<1> SUFFICES ASSUME StateInv, [StateNext]_stateVars PROVE StateInv'
  OBVIOUS
<1>1. CASE UNCHANGED stateVars
  BY <1>1 DEF stateVars, stored, StateInv, Held, Known, Holding
<1>2. CASE Appending
  BY <1>2, AppendKeeps DEF Appending, StateInv
<1>3. CASE Quiet
  BY <1>3 DEF Quiet, StateInv, Held, Known
<1>4. CASE Opening
  BY <1>4, HeldBefore DEF Opening, StateInv
<1>5. CASE Ending
  <2>1. Exact(log) /\ Exact(Known)
    BY <1>5 DEF Ending, StateInv, Held
  <2>2. Exact(log')
    BY <1>5, <2>1, RecordOrCheckpoint DEF Ending
  <2> QED BY <1>5, <2>2 DEF Ending, StateInv
<1> QED BY <1>1, <1>2, <1>3, <1>4, <1>5, StepsAre

(* Whatever holders died, appends were rejected and checkpoints failed,    *)
(* the file is exact and its holder has what it would read.                *)
THEOREM StateInvariant == StateSpec => []StateInv
<1> QED BY StateInitially, StateStep, PTL DEF StateSpec

(* A session has one state: the fold of its file, what a checkpoint and    *)
(* the records after it give, and what its holder has kept up to date      *)
(* (projection.ts, checkpoint.ts, startingPoint and writeRecord).          *)
THEOREM OneState == StateSpec => []StatesAgree
<1>1. StateInv => StatesAgree
  BY DEF StateInv, Exact, Held, StatesAgree, CheckpointsAreExact, WriterAsReopened
<1> QED BY <1>1, StateInvariant, PTL
-----------------------------------------------------------------------------
(* The replies of turn t that unansweredToolCalls looks at, and a list of  *)
(* the calls of those among the first k records: each call once.           *)
RepliesOf(p, t) ==
  {m \in 1..Len(p) : m > StartOf(p, t) /\ p[m].type = "assistant.message" /\ p[m].turn = t}
ListsCalls(q, p, t, k) ==
  /\ IsSeq(q)
  /\ \A j \in 1..Len(q) : \E m \in RepliesOf(p, t) : m <= k /\ \E c \in 1..p[m].calls : q[j] = <<m, c>>
  /\ \A j, l \in 1..Len(q) : j # l => q[j] # q[l]
  /\ \A m \in RepliesOf(p, t) : m <= k => \A c \in 1..p[m].calls : \E j \in 1..Len(q) : q[j] = <<m, c>>
(* What a reply brings to it. *)
Brings(p, t, i) ==
  IF i > StartOf(p, t) /\ p[i].type = "assistant.message" /\ p[i].turn = t
  THEN CallsOf(i, p[i].calls) ELSE <<>>

LEMMA CallsOfReply ==
  ASSUME NEW i, NEW n \in Nat
  PROVE  /\ IsSeq(CallsOf(i, n)) /\ Len(CallsOf(i, n)) = n
         /\ \A k \in 1..n : CallsOf(i, n)[k] = <<i, k>>
<1> DEFINE q == CallsOf(i, n)
           S == {<<i, k>> : k \in 1..n}
<1>1. q \in [1..n -> S] /\ DOMAIN q = 1..n /\ \A k \in 1..n : q[k] = <<i, k>>
  BY DEF CallsOf
<1> HIDE DEF S, q
<1>2. q \in Seq(S)
  BY <1>1, SeqDef
<1>3. Len(q) = n
  BY <1>1, <1>2, LenProperties
<1> QED BY <1>1, <1>2, <1>3 DEF IsSeq, q

LEMMA OneReplyMore ==
  ASSUME NEW p, NEW t, Len(p) \in Nat, NEW k \in 0..Len(p) - 1, NEW q, ListsCalls(q, p, t, k),
         \A m \in RepliesOf(p, t) : p[m].calls \in Nat
  PROVE  ListsCalls(q \o Brings(p, t, k + 1), p, t, k + 1)
<1> DEFINE i == k + 1
           b == Brings(p, t, i)
<1>1. i \in 1..Len(p) /\ k \in Nat /\ \A m \in 1..Len(p) : m <= i <=> m <= k \/ m = i
  OBVIOUS
<1>2. CASE i \notin RepliesOf(p, t)
  <2>1. b = <<>>
    BY <1>1, <1>2 DEF Brings, RepliesOf
  <2>2. q \o b = q
    <3> HIDE DEF b
    <3> QED BY <2>1, Single, Joined DEF ListsCalls
  <2>3. \A m \in RepliesOf(p, t) : m <= i <=> m <= k
    BY <1>1, <1>2 DEF RepliesOf
  <2> HIDE DEF i, b
  <2>4. ListsCalls(q, p, t, i)
    BY <2>3 DEF ListsCalls
  <2> QED BY <2>2, <2>4 DEF i, b
<1>3. CASE i \in RepliesOf(p, t)
  <2> DEFINE n == p[i].calls
             a == Len(q)
             c == q \o b
  <2>1. n \in Nat /\ b = CallsOf(i, n)
    BY <1>1, <1>3 DEF Brings, RepliesOf
  <2>2. IsSeq(b) /\ Len(b) = n /\ \A x \in 1..n : b[x] = <<i, x>>
    <3> HIDE DEF n, b, i
    <3> QED BY <2>1, CallsOfReply
  <2> HIDE DEF b, n
  <2>3. /\ IsSeq(c) /\ a \in Nat /\ Len(c) = a + n
        /\ \A x \in 1..a : c[x] = q[x]
        /\ \A x \in a + 1..a + n : c[x] = <<i, x - a>>
    <3>1. PICK S : q \in Seq(S) /\ b \in Seq(S)
      <4>1. PICK R : q \in Seq(R)
        BY DEF IsSeq, ListsCalls
      <4>2. PICK T : b \in Seq(T)
        BY <2>2 DEF IsSeq
      <4>3. q \in Seq(R \cup T) /\ b \in Seq(R \cup T)
        BY <4>1, <4>2, SeqMonotonic
      <4> QED BY <4>3
    <3>2. /\ c \in Seq(S) /\ Len(c) = a + Len(b) /\ a \in Nat
          /\ \A x \in 1..(a + Len(b)) : c[x] = IF x <= a THEN q[x] ELSE b[x - a]
      BY <3>1, ConcatProperties, LenProperties
    <3> HIDE DEF c, a, i
    <3>3. ASSUME NEW x \in a + 1..a + n PROVE c[x] = <<i, x - a>>
      <4> DEFINE y == x - a
      <4>1. y \in 1..n /\ x \in 1..(a + Len(b)) /\ ~(x <= a)
        BY <2>1, <2>2, <3>2
      <4>2. c[x] = b[y]
        BY <3>2, <4>1
      <4> HIDE DEF y
      <4>3. b[y] = <<i, y>>
        BY <2>2, <4>1
      <4> QED BY <4>2, <4>3 DEF y
    <3>4. \A x \in 1..a : c[x] = q[x]
      BY <2>1, <2>2, <3>2
    <3> QED BY <2>2, <3>2, <3>3, <3>4 DEF IsSeq
  <2> HIDE DEF c, a
  <2>4. \A x \in 1..Len(c) : x \in 1..a \/ x \in a + 1..a + n
    BY <2>1, <2>3
  <2>5. ASSUME NEW x \in 1..a
        PROVE  \E m \in RepliesOf(p, t) : m <= k /\ \E y \in 1..p[m].calls : c[x] = <<m, y>>
    BY <2>3 DEF ListsCalls, a
  <2>6. ASSUME NEW x \in 1..Len(c)
        PROVE  \E m \in RepliesOf(p, t) : m <= i /\ \E y \in 1..p[m].calls : c[x] = <<m, y>>
    <3>1. CASE x \in 1..a
      <4>1. PICK m \in RepliesOf(p, t) : m <= k /\ \E y \in 1..p[m].calls : c[x] = <<m, y>>
        BY <3>1, <2>5
      <4>2. m <= i
        BY <1>1, <4>1 DEF RepliesOf
      <4> QED BY <4>1, <4>2
    <3>2. CASE x \in a + 1..a + n
      <4>1. x - a \in 1..n /\ c[x] = <<i, x - a>>
        BY <2>1, <2>3, <3>2
      <4>2. i <= i
        BY <1>1
      <4> QED BY <1>3, <4>1, <4>2 DEF n
    <3> QED BY <2>4, <3>1, <3>2
  <2>7. ASSUME NEW x \in 1..Len(c), NEW y \in 1..Len(c), x # y PROVE c[x] # c[y]
    <3>1. CASE x \in 1..a /\ y \in 1..a
      BY <2>3, <2>7, <3>1 DEF ListsCalls, a
    <3>2. CASE x \in a + 1..a + n /\ y \in a + 1..a + n
      <4>1. x - a # y - a
        BY <2>1, <2>3, <2>7, <3>2
      <4> QED BY <2>3, <3>2, <4>1
    <3>3. \A u \in 1..a : \A v \in a + 1..a + n : c[u] # c[v]
      <4> SUFFICES ASSUME NEW u \in 1..a, NEW v \in a + 1..a + n PROVE c[u] # c[v]
        OBVIOUS
      <4>1. PICK m \in RepliesOf(p, t) : m <= k /\ \E z \in 1..p[m].calls : c[u] = <<m, z>>
        BY <2>5
      <4>2. m # i
        BY <1>1, <4>1 DEF RepliesOf
      <4>3. c[v] = <<i, v - a>>
        BY <2>3
      <4> QED BY <4>1, <4>2, <4>3
    <3>4. CASE x \in 1..a /\ y \in a + 1..a + n
      BY <3>3, <3>4
    <3>5. CASE y \in 1..a /\ x \in a + 1..a + n
      BY <3>3, <3>5
    <3> QED BY <2>4, <3>1, <3>2, <3>4, <3>5
  <2>8. ASSUME NEW m \in RepliesOf(p, t), m <= i, NEW y \in 1..p[m].calls
        PROVE  \E x \in 1..Len(c) : c[x] = <<m, y>>
    <3>1. CASE m <= k
      <4>1. PICK x \in 1..a : q[x] = <<m, y>>
        BY <3>1 DEF ListsCalls, a
      <4>2. x \in 1..Len(c)
        BY <2>1, <2>3
      <4> QED BY <2>3, <4>1, <4>2
    <3>2. CASE m = i
      <4>1. y \in 1..n
        BY <3>2 DEF n
      <4> DEFINE z == a + y
      <4>2. z \in 1..Len(c) /\ z \in a + 1..a + n /\ z - a = y
        BY <2>1, <2>3, <4>1
      <4> HIDE DEF z
      <4>3. c[z] = <<m, y>>
        BY <2>3, <3>2, <4>2
      <4> QED BY <4>2, <4>3
    <3> QED BY <1>1, <2>8, <3>1, <3>2 DEF RepliesOf
  <2> HIDE DEF i
  <2>9. ListsCalls(c, p, t, i)
    BY <2>3, <2>6, <2>7, <2>8 DEF ListsCalls
  <2> QED BY <2>9 DEF c, b, i
<1> QED BY <1>2, <1>3

LEMMA TurnCallsListed ==
  ASSUME NEW p, NEW t, Len(p) \in Nat, Len(p) >= 1, \A m \in RepliesOf(p, t) : p[m].calls \in Nat
  PROVE  ListsCalls(TurnCalls(p, t), p, t, Len(p))
<1> DEFINE n == Len(p)
           q == [i \in 1..n |-> Brings(p, t, i)]
<1>1. IsSeq(q) /\ Len(q) = n
  <2>1. q \in Seq({Brings(p, t, i) : i \in 1..n})
    <3> DEFINE S == {Brings(p, t, i) : i \in 1..n}
    <3>1. q \in [1..n -> S]
      OBVIOUS
    <3> HIDE DEF S, q
    <3> QED BY <3>1, SeqDef DEF S
  <2>2. DOMAIN q = 1..n
    OBVIOUS
  <2> HIDE DEF q
  <2>3. Len(q) = n
    BY <2>1, <2>2, LenProperties
  <2> QED BY <2>1, <2>3 DEF IsSeq
<1> DEFINE R(f) == f = [i \in 1..n |-> IF i = 1 THEN q[i] ELSE f[i - 1] \o q[i]]
           g == CHOOSE f : R(f)
<1>2. R(g)
  <2>1. PICK f : IsFold("join", f, q[1], q, 1, n)
    <3> HIDE DEF q, n
    <3>1. 1 \in Nat /\ n \in Nat /\ 1 <= n
      BY DEF n
    <3> QED BY <3>1, RowExists
  <2> HIDE DEF q
  <2>2. f = [i \in 1..n |-> IF i = 1 THEN q[1] ELSE f[i - 1] \o q[i]]
    BY <2>1 DEF IsFold, With
  <2>3. [i \in 1..n |-> IF i = 1 THEN q[1] ELSE f[i - 1] \o q[i]] =
        [i \in 1..n |-> IF i = 1 THEN q[i] ELSE f[i - 1] \o q[i]]
    OBVIOUS
  <2>4. R(f)
    BY <2>2, <2>3
  <2> HIDE DEF R
  <2> QED BY <2>4
<1>3. TurnCalls(p, t) = g[n]
  <2>1. TurnCalls(p, t) = FlattenSeq(q)
    BY DEF TurnCalls, Brings
  <2> HIDE DEF q, n
  <2>2. n # 0 /\ Len(q) = n
    BY <1>1 DEF n
  <2> QED BY <2>1, <2>2 DEF FlattenSeq
<1> HIDE DEF g
<1>4. g[1] = Brings(p, t, 1) /\ \A i \in 2..n : g[i] = g[i - 1] \o Brings(p, t, i)
  <2>1. \A i \in 1..n : q[i] = Brings(p, t, i)
    OBVIOUS
  <2>2. 1 \in 1..n /\ \A i \in 2..n : i \in 1..n /\ i # 1
    OBVIOUS
  <2> HIDE DEF q, n
  <2>3. \A i \in 1..n : g[i] = IF i = 1 THEN q[i] ELSE g[i - 1] \o q[i]
    BY <1>2
  <2> QED BY <2>1, <2>2, <2>3
<1> HIDE DEF q
<1>5. ListsCalls(g[1], p, t, 1)
  <2> DEFINE e == <<>>
             k == 0
  <2>1. ListsCalls(e, p, t, k) /\ Len(e) = 0
    <3>1. IsSeq(e) /\ Len(e) = 0
      BY Single
    <3>2. 1..Len(e) = {} /\ \A m \in RepliesOf(p, t) : ~(m <= k)
      BY <3>1 DEF RepliesOf
    <3> HIDE DEF e, k
    <3> QED BY <3>1, <3>2 DEF ListsCalls
  <2>2. k \in 0..Len(p) - 1 /\ k + 1 = 1
    OBVIOUS
  <2> HIDE DEF e, k
  <2>3. ListsCalls(e \o Brings(p, t, k + 1), p, t, k + 1)
    BY <2>1, <2>2, OneReplyMore
  <2>4. e \o Brings(p, t, 1) = Brings(p, t, 1)
    <3>1. IsSeq(Brings(p, t, 1))
      <4>1. 1 \in RepliesOf(p, t) => p[1].calls \in Nat
        OBVIOUS
      <4> QED BY <4>1, Single, CallsOfReply DEF Brings, RepliesOf
    <3>2. PICK S : Brings(p, t, 1) \in Seq(S)
      BY <3>1 DEF IsSeq
    <3> QED BY <3>2, ConcatEmptySeq DEF e
  <2> QED BY <1>4, <2>2, <2>3, <2>4
<1> DEFINE T == {k \in 1..n : ~ListsCalls(g[k], p, t, k)}
<1>6. CASE T # {}
  <2>1. PICK k \in T : \A m \in T : k <= m
    <3>1. T \subseteq Nat
      OBVIOUS
    <3> HIDE DEF T
    <3> QED BY <1>6, <3>1, LeastOf
  <2> DEFINE j == k - 1
  <2>2. k # 1
    BY <1>5, <2>1
  <2>3. j \in 1..n /\ j \notin T /\ j \in 0..Len(p) - 1 /\ j + 1 = k /\ k \in 2..n
    BY <2>1, <2>2
  <2> HIDE DEF j
  <2>4. ListsCalls(g[j], p, t, j)
    BY <2>3
  <2>5. ListsCalls(g[j] \o Brings(p, t, j + 1), p, t, j + 1)
    BY <2>3, <2>4, OneReplyMore
  <2>6. g[k] = g[k - 1] \o Brings(p, t, k)
    BY <1>4, <2>3
  <2>7. g[k] = g[j] \o Brings(p, t, j + 1)
    BY <2>3, <2>6 DEF j
  <2> QED BY <2>1, <2>3, <2>5, <2>7
<1>7. CASE T = {}
  <2>1. n \in 1..n
    OBVIOUS
  <2> QED BY <1>3, <1>7, <2>1
<1> QED BY <1>6, <1>7

(* Those of the first k calls of a list that are not answered. *)
LeftOf(q, calls, p, k) ==
  /\ IsSeq(q)
  /\ \A j \in 1..Len(q) : \E l \in 1..Len(calls) : l <= k /\ q[j] = calls[l] /\ ~Answered(p, calls[l])
  /\ \A i, j \in 1..Len(q) : i # j => q[i] # q[j]
  /\ \A l \in 1..Len(calls) : l <= k /\ ~Answered(p, calls[l]) => \E j \in 1..Len(q) : q[j] = calls[l]

LEMMA OneCallMore ==
  ASSUME NEW p, NEW calls, Len(calls) \in Nat, \A i, j \in 1..Len(calls) : i # j => calls[i] # calls[j],
         NEW k \in 0..Len(calls) - 1, NEW q, LeftOf(q, calls, p, k)
  PROVE  LeftOf(IF Answered(p, calls[k + 1]) THEN q ELSE Append(q, calls[k + 1]), calls, p, k + 1)
<1> DEFINE i == k + 1
           c == calls[i]
           r == Append(q, c)
<1>1. i \in 1..Len(calls) /\ k \in Nat /\ i <= i /\ \A m \in 1..Len(calls) : m <= i <=> m <= k \/ m = i
  OBVIOUS
<1>2. CASE Answered(p, c)
  <2> HIDE DEF i
  <2>1. LeftOf(q, calls, p, i)
    BY <1>1, <1>2 DEF LeftOf
  <2> QED BY <1>2, <2>1 DEF i
<1>3. CASE ~Answered(p, c)
  <2>1. IsSeq(r) /\ Len(q) \in Nat /\ Len(r) = Len(q) + 1 /\ r[Len(q) + 1] = c /\ \A x \in 1..Len(q) : r[x] = q[x]
    <3> HIDE DEF c
    <3> QED BY Appended DEF LeftOf
  <2> HIDE DEF i, r
  <2>2. \A x \in 1..Len(r) : x \in 1..Len(q) \/ x = Len(q) + 1
    BY <2>1
  <2>3. \A x \in 1..Len(q) : \E l \in 1..Len(calls) : l <= k /\ r[x] = calls[l] /\ ~Answered(p, calls[l])
    BY <2>1 DEF LeftOf
  <2>4. \A x \in 1..Len(r) : \E l \in 1..Len(calls) : l <= i /\ r[x] = calls[l] /\ ~Answered(p, calls[l])
    BY <1>1, <1>3, <2>1, <2>2, <2>3
  <2>5. \A x \in 1..Len(q) : r[x] # c
    <3>1. \A l \in 1..Len(calls) : l <= k => l # i
      BY DEF i
    <3> QED BY <1>1, <2>3, <3>1
  <2>6. \A x, y \in 1..Len(r) : x # y => r[x] # r[y]
    <3>1. \A x, y \in 1..Len(q) : x # y => r[x] # r[y]
      BY <2>1 DEF LeftOf
    <3> QED BY <2>1, <2>2, <2>5, <3>1
  <2>7. \A l \in 1..Len(calls) : l <= i /\ ~Answered(p, calls[l]) => \E x \in 1..Len(r) : r[x] = calls[l]
    <3>1. \A l \in 1..Len(calls) : l <= k /\ ~Answered(p, calls[l]) => \E x \in 1..Len(q) : r[x] = calls[l]
      BY <2>1 DEF LeftOf
    <3>2. \A x \in 1..Len(q) : x \in 1..Len(r)
      BY <2>1
    <3>3. Len(q) + 1 \in 1..Len(r) /\ r[Len(q) + 1] = calls[i]
      BY <2>1
    <3> QED BY <1>1, <3>1, <3>2, <3>3
  <2>8. LeftOf(r, calls, p, i)
    BY <2>1, <2>4, <2>6, <2>7 DEF LeftOf
  <2> QED BY <1>3, <2>8 DEF i, r
<1> QED BY <1>2, <1>3

LEMMA UnansweredLeft ==
  ASSUME NEW p, NEW t, IsSeq(TurnCalls(p, t)),
         \A i, j \in 1..Len(TurnCalls(p, t)) : i # j => TurnCalls(p, t)[i] # TurnCalls(p, t)[j]
  PROVE  LeftOf(Unanswered(p, t), TurnCalls(p, t), p, Len(TurnCalls(p, t)))
<1> DEFINE calls == TurnCalls(p, t)
           n == Len(calls)
           e == <<>>
           R(f) == f = [k \in 0..n |-> IF k = 0 THEN e
                                      ELSE IF Answered(p, calls[k]) THEN f[k - 1] ELSE Append(f[k - 1], calls[k])]
           g == CHOOSE f : R(f)
<1>1. n \in Nat
  <2> HIDE DEF calls
  <2>1. IsSeq(calls)
    BY DEF calls
  <2> QED BY <2>1, Appended
<1>2. R(g)
  <2> DEFINE q == [k \in 1..n |-> <<calls[k], Answered(p, calls[k])>>]
  <2>1. PICK f : IsFold("left", f, e, q, 0, n)
    <3> HIDE DEF q, n, e
    <3>1. 0 <= n
      BY <1>1
    <3> QED BY <1>1, <3>1, RowExists
  <2>2. f = [k \in 0..n |-> IF k = 0 THEN e ELSE IF q[k][2] THEN f[k - 1] ELSE Append(f[k - 1], q[k][1])]
    <3> HIDE DEF q, n, e
    <3> QED BY <2>1 DEF IsFold, With
  <2>3. \A k \in 0..n : k # 0 => q[k][1] = calls[k] /\ (q[k][2] <=> Answered(p, calls[k]))
    <3> HIDE DEF calls, n
    <3>1. \A k \in 0..n : k # 0 => k \in 1..n
      BY <1>1
    <3> QED BY <3>1
  <2> HIDE DEF q, n, e, calls
  <2>4. R(f)
    BY <2>2, <2>3
  <2> HIDE DEF R
  <2> QED BY <2>4
<1>3. Unanswered(p, t) = g[n]
  BY DEF Unanswered
<1> HIDE DEF g, calls
<1>4. g[0] = e /\ \A k \in 1..n : g[k] = IF Answered(p, calls[k]) THEN g[k - 1] ELSE Append(g[k - 1], calls[k])
  <2>1. 0 \in 0..n /\ \A k \in 1..n : k \in 0..n /\ k # 0
    BY <1>1
  <2> HIDE DEF e, n
  <2> QED BY <1>2, <2>1
<1> DEFINE T == {k \in 0..n : ~LeftOf(g[k], calls, p, k)}
<1>5. LeftOf(g[0], calls, p, 0)
  <2>1. IsSeq(e) /\ Len(e) = 0
    BY Single
  <2>2. 1..Len(e) = {} /\ \A l \in 1..Len(calls) : ~(l <= 0)
    BY <2>1
  <2> HIDE DEF e
  <2> QED BY <1>4, <2>1, <2>2 DEF LeftOf
<1>6. CASE T # {}
  <2>1. PICK k \in T : \A m \in T : k <= m
    <3>1. T \subseteq Nat
      OBVIOUS
    <3> HIDE DEF T
    <3> QED BY <1>6, <3>1, LeastOf
  <2> DEFINE j == k - 1
  <2>2. k # 0
    BY <1>5, <2>1
  <2>3. j \in 0..n - 1 /\ j \in 0..n /\ j \notin T /\ j + 1 = k /\ k \in 1..n
    BY <1>1, <2>1, <2>2
  <2>4. g[k] = IF Answered(p, calls[j + 1]) THEN g[j] ELSE Append(g[j], calls[j + 1])
    <3>1. g[k] = IF Answered(p, calls[k]) THEN g[k - 1] ELSE Append(g[k - 1], calls[k])
      BY <1>4, <2>3
    <3> QED BY <2>3, <3>1
  <2> HIDE DEF j
  <2>5. LeftOf(g[j], calls, p, j)
    BY <2>3
  <2>6. \A x, y \in 1..Len(calls) : x # y => calls[x] # calls[y]
    BY DEF calls
  <2>7. LeftOf(IF Answered(p, calls[j + 1]) THEN g[j] ELSE Append(g[j], calls[j + 1]), calls, p, j + 1)
    BY <1>1, <2>3, <2>5, <2>6, OneCallMore
  <2>8. LeftOf(g[k], calls, p, k)
    BY <2>3, <2>4, <2>7
  <2> QED BY <2>1, <2>8
<1>7. CASE T = {}
  <2>1. n \in 0..n
    BY <1>1
  <2> QED BY <1>3, <1>7, <2>1 DEF calls
<1> QED BY <1>6, <1>7
-----------------------------------------------------------------------------
(* What the records of a file say of its turns: the places of a type of    *)
(* record, the calls of a turn, the results before a place.                *)
LastTurnOf(p) == Load(p).state.lastTurn
OpenTurnOf(p) == Load(p).state.openTurn
PlacesOf(p, type) == {i \in 1..Len(p) : p[i].type = type}
IsCallOf(p, c, t) == \E m \in PlacesOf(p, "assistant.message") :
  p[m].turn = t /\ \E k \in 1..p[m].calls : c = <<m, k>>
AnsweredUpTo(p, c, n) == \E j \in PlacesOf(p, "tool.result") : j <= n /\ p[j].call = c

StartsRise(p) ==
  /\ LastTurnOf(p) \in Nat /\ OpenTurnOf(p) \in {0, LastTurnOf(p)}
  /\ \A i \in PlacesOf(p, "turn.start") : p[i] = TurnStart(p[i].turn) /\ p[i].turn \in 1..LastTurnOf(p)
  /\ \A i, j \in PlacesOf(p, "turn.start") : i < j => p[i].turn < p[j].turn
  /\ LastTurnOf(p) # 0 => \E i \in PlacesOf(p, "turn.start") : p[i].turn = LastTurnOf(p)
StartedBefore(p) ==
  \A type \in {"assistant.message", "turn.end"} : \A i \in PlacesOf(p, type) :
    \E j \in PlacesOf(p, "turn.start") : j < i /\ p[j].turn = p[i].turn
EndsOnce(p) ==
  /\ \A i, j \in PlacesOf(p, "turn.end") : i # j => p[i].turn # p[j].turn
  /\ LastTurnOf(p) # 0 =>
       (OpenTurnOf(p) = 0 <=> \E i \in PlacesOf(p, "turn.end") : p[i].turn = LastTurnOf(p))
CallsCounted(p) == \A m \in PlacesOf(p, "assistant.message") : p[m].calls \in Nat
ResultsOfCalls(p) == \A i \in PlacesOf(p, "tool.result") :
  /\ IsCallOf(p, p[i].call, p[i].turn) /\ p[i].call[1] < i
  /\ \A j \in PlacesOf(p, "tool.result") : j # i => p[j].call # p[i].call
RecoveredAnswered(p) == \A i \in PlacesOf(p, "turn.end") : p[i].reason = "interrupted" =>
  \A m \in PlacesOf(p, "assistant.message") : p[m].turn = p[i].turn =>
    \A k \in 1..p[m].calls : AnsweredUpTo(p, <<m, k>>, i)
TurnFacts(p) ==
  StartsRise(p) /\ StartedBefore(p) /\ EndsOnce(p) /\ CallsCounted(p) /\ ResultsOfCalls(p) /\ RecoveredAnswered(p)
(* No turn starts while another is open. *)
Apart(p) == \A i, j \in PlacesOf(p, "turn.start") : i < j =>
  \E k \in PlacesOf(p, "turn.end") : k \in i..j /\ p[k].turn = p[i].turn

(* What may follow in a file, as far as its turns go. *)
AllAnswered(p, t) == \A m \in PlacesOf(p, "assistant.message") : p[m].turn = t =>
  \A k \in 1..p[m].calls : Answered(p, <<m, k>>)
Begins(p, r) == \E t \in Nat : r = TurnStart(t) /\ t > LastTurnOf(p)
Replies(p, r) == OpenTurnOf(p) # 0 /\ \E n, x : n \in Nat /\ r = AssistantMessage(OpenTurnOf(p), n, x)
Answers(p, r) == OpenTurnOf(p) # 0 /\ \E c, x :
  r = ToolResult(OpenTurnOf(p), c, x) /\ IsCallOf(p, c, OpenTurnOf(p)) /\ ~Answered(p, c)
Finishes(p, r) == OpenTurnOf(p) # 0 /\ \E x :
  r = TurnEnd(OpenTurnOf(p), x) /\ (x = "interrupted" => AllAnswered(p, OpenTurnOf(p)))
Neutral(r) == r.type \notin {"turn.start", "turn.end", "assistant.message", "tool.result"}
Admits(p, r) == Begins(p, r) \/ Replies(p, r) \/ Answers(p, r) \/ Finishes(p, r) \/ Neutral(r)

(* With one record more. *)
LEMMA PlacesOfOneMore ==
  ASSUME NEW p, IsSeq(p), NEW r
  PROVE  /\ Len(p) \in Nat
         /\ \A type : \A i \in PlacesOf(p, type) :
              i \in 1..Len(p) /\ Append(p, r)[i] = p[i] /\ i \in PlacesOf(Append(p, r), type)
         /\ \A type : \A i \in PlacesOf(Append(p, r), type) :
              \/ i \in PlacesOf(p, type)
              \/ i = Len(p) + 1 /\ r.type = type
         /\ Append(p, r)[Len(p) + 1] = r /\ Len(p) + 1 \in PlacesOf(Append(p, r), r.type)
         /\ Len(p) + 1 \notin 1..Len(p)
<1> DEFINE q == Append(p, r)
<1>1. Len(p) \in Nat /\ Len(q) = Len(p) + 1 /\ q[Len(p) + 1] = r /\ \A i \in 1..Len(p) : q[i] = p[i]
  BY Appended
<1>2. \A i \in 1..Len(q) : i \in 1..Len(p) \/ i = Len(p) + 1
  BY <1>1
<1>3. \A i \in 1..Len(p) : i \in 1..Len(q)
  BY <1>1
<1>4. Len(p) + 1 \in 1..Len(q)
  BY <1>1
<1> HIDE DEF q
<1>5. Len(p) + 1 \notin 1..Len(p)
  BY <1>1
<1>6. \A type : \A i \in PlacesOf(p, type) : i \in 1..Len(p) /\ q[i] = p[i] /\ i \in PlacesOf(q, type)
  BY <1>1, <1>3 DEF PlacesOf
<1>7. ASSUME NEW type, NEW i \in PlacesOf(q, type)
      PROVE  i \in PlacesOf(p, type) \/ (i = Len(p) + 1 /\ r.type = type)
  <2>1. i \in 1..Len(q) /\ q[i].type = type
    BY DEF PlacesOf
  <2>2. CASE i \in 1..Len(p)
    <3>1. p[i].type = type
      BY <1>1, <2>1, <2>2
    <3> QED BY <2>2, <3>1, Zenon DEF PlacesOf
  <2>3. CASE i = Len(p) + 1
    BY <1>1, <2>1, <2>3
  <2> QED BY <1>2, <2>1, <2>2, <2>3
<1>8. Len(p) + 1 \in PlacesOf(q, r.type)
  BY <1>1, <1>4 DEF PlacesOf
<1> QED BY <1>1, <1>5, <1>6, <1>7, <1>8 DEF q

(* The places of a type with one record more. *)
MoreOf(p, r, type) ==
  /\ Len(p) \in Nat /\ Append(p, r)[Len(p) + 1] = r
  /\ \A i \in PlacesOf(p, type) :
       i \in 1..Len(p) /\ Append(p, r)[i] = p[i] /\ i \in PlacesOf(Append(p, r), type)
  /\ \A i \in PlacesOf(Append(p, r), type) : i \in PlacesOf(p, type) \/ (i = Len(p) + 1 /\ r.type = type)
  /\ r.type = type => Len(p) + 1 \in PlacesOf(Append(p, r), type)

LEMMA MoreOfAll ==
  ASSUME NEW p, IsSeq(p), NEW r
  PROVE  \A type : MoreOf(p, r, type)
<1> SUFFICES ASSUME NEW type PROVE MoreOf(p, r, type)
  OBVIOUS
<1>1. Len(p) \in Nat /\ Append(p, r)[Len(p) + 1] = r
  BY PlacesOfOneMore
<1>2. \A i \in PlacesOf(p, type) :
       i \in 1..Len(p) /\ Append(p, r)[i] = p[i] /\ i \in PlacesOf(Append(p, r), type)
  BY PlacesOfOneMore, Zenon
<1>3. \A i \in PlacesOf(Append(p, r), type) : i \in PlacesOf(p, type) \/ (i = Len(p) + 1 /\ r.type = type)
  BY PlacesOfOneMore, Zenon
<1>4. r.type = type => Len(p) + 1 \in PlacesOf(Append(p, r), type)
  BY PlacesOfOneMore, Zenon
<1> QED BY <1>1, <1>2, <1>3, <1>4 DEF MoreOf

LEMMA TurnsOfOneMore ==
  ASSUME NEW p, Exact(p), NEW r, MayAppend(p, r)
  PROVE  /\ LastTurnOf(Append(p, r)) = IF r.type = "turn.start" THEN r.turn ELSE LastTurnOf(p)
         /\ OpenTurnOf(Append(p, r)) =
              IF r.type = "turn.start" THEN r.turn ELSE IF r.type = "turn.end" THEN 0 ELSE OpenTurnOf(p)
<1> DEFINE s == Load(p).state
           q == Append(p, r)
           m == s.messages
           t == s.lastTurn
           o == s.openTurn
           n == Len(p) + 1
<1>1. s = [messages |-> m, lastTurn |-> t, openTurn |-> o]
  BY DEF Exact, IsState
<1>2. CASE Plain(p, r)
  <2>1. Load(q).state = Apply(s, r, n)
    BY <1>2, PlainIsLoaded
  <2>2. r.type # "checkpoint"
    BY <1>2 DEF Plain
  <2> HIDE DEF q, n, m, t, o
  <2>3. Apply(s, r, n).lastTurn = (IF r.type = "turn.start" THEN r.turn ELSE t)
    <3> HIDE DEF s
    <3> QED BY <1>1, <2>2 DEF Apply
  <2>4. Apply(s, r, n).openTurn = (IF r.type = "turn.start" THEN r.turn ELSE IF r.type = "turn.end" THEN 0 ELSE o)
    <3> HIDE DEF s
    <3> QED BY <1>1, <2>2 DEF Apply
  <2> QED BY <2>1, <2>3, <2>4 DEF LastTurnOf, OpenTurnOf, q, t, o
<1>3. CASE r = CheckpointOf(Opened(p))
  <2>1. r.type = "checkpoint" /\ Apply(s, r, n) = s
    BY <1>3, CheckpointIsLink
  <2>2. Opened(q) = Write(Opened(p), r)
    BY <1>3, CheckpointKeepsExact
  <2>3. Opened(q).state = Load(q).state /\ Opened(p).last = Len(p) /\ Opened(p).state = s
    BY DEF Opened
  <2>4. Write(Opened(p), r).state = Apply(s, r, n)
    BY <2>3 DEF Write
  <2>5. Load(q).state = s
    BY <2>1, <2>2, <2>3, <2>4
  <2> QED BY <2>1, <2>5 DEF LastTurnOf, OpenTurnOf
<1> QED BY <1>2, <1>3 DEF MayAppend

LEMMA AnsweredIs ==
  ASSUME NEW p
  PROVE  \A c : Answered(p, c) <=> \E j \in PlacesOf(p, "tool.result") : p[j].call = c
BY DEF Answered, PlacesOf

LEMMA AnsweredByOneMore ==
  ASSUME NEW p, IsSeq(p), NEW r
  PROVE  \A c : Answered(Append(p, r), c) <=> Answered(p, c) \/ (r.type = "tool.result" /\ r.call = c)
<1> DEFINE q == Append(p, r)
           res == "tool.result"
<1> HIDE DEF q, res
<1>1. /\ \A i \in PlacesOf(p, res) : q[i] = p[i] /\ i \in PlacesOf(q, res)
      /\ \A i \in PlacesOf(q, res) : i \in PlacesOf(p, res) \/ (i = Len(p) + 1 /\ r.type = res)
      /\ q[Len(p) + 1] = r /\ Len(p) + 1 \in PlacesOf(q, r.type)
  <2>1. \A i \in PlacesOf(p, res) : q[i] = p[i] /\ i \in PlacesOf(q, res)
    BY PlacesOfOneMore DEF q
  <2>2. \A i \in PlacesOf(q, res) : i \in PlacesOf(p, res) \/ (i = Len(p) + 1 /\ r.type = res)
    BY PlacesOfOneMore, Zenon DEF q
  <2>3. q[Len(p) + 1] = r /\ Len(p) + 1 \in PlacesOf(q, r.type)
    BY PlacesOfOneMore DEF q
  <2> QED BY <2>1, <2>2, <2>3
<1>2. /\ \A c : Answered(p, c) <=> \E j \in PlacesOf(p, res) : p[j].call = c
      /\ \A c : Answered(q, c) <=> \E j \in PlacesOf(q, res) : q[j].call = c
  BY AnsweredIs DEF res
<1>3. ASSUME NEW c PROVE Answered(q, c) <=> Answered(p, c) \/ (r.type = res /\ r.call = c)
  BY <1>1, <1>2
<1> QED BY <1>3 DEF q, res

LEMMA CallsOfOneMore ==
  ASSUME NEW p, IsSeq(p), NEW r
  PROVE  \A c, t : IsCallOf(p, c, t) => IsCallOf(Append(p, r), c, t)
<1> DEFINE q == Append(p, r)
<1> HIDE DEF q
<1>1. \A m \in PlacesOf(p, "assistant.message") : m \in PlacesOf(q, "assistant.message") /\ q[m] = p[m]
  BY PlacesOfOneMore DEF q
<1> QED BY <1>1 DEF IsCallOf, q

LEMMA AdmittedIs ==
  ASSUME NEW p, NEW r, Admits(p, r)
  PROVE  /\ r.type = "turn.start" => r = TurnStart(r.turn) /\ r.turn \in Nat /\ r.turn > LastTurnOf(p)
         /\ r.type = "assistant.message" => OpenTurnOf(p) # 0 /\ r.turn = OpenTurnOf(p) /\ r.calls \in Nat
         /\ r.type = "tool.result" => /\ OpenTurnOf(p) # 0 /\ r.turn = OpenTurnOf(p)
                                      /\ IsCallOf(p, r.call, r.turn) /\ ~Answered(p, r.call)
         /\ r.type = "turn.end" => /\ OpenTurnOf(p) # 0 /\ r.turn = OpenTurnOf(p)
                                   /\ r.reason = "interrupted" => AllAnswered(p, r.turn)
<1>1. CASE Begins(p, r)
  <2>1. PICK t \in Nat : r = TurnStart(t) /\ t > LastTurnOf(p)
    BY <1>1 DEF Begins
  <2>2. r.type = "turn.start" /\ r.turn = t
    BY <2>1 DEF TurnStart
  <2> QED BY <2>1, <2>2
<1>2. CASE Replies(p, r)
  <2>1. PICK n, x : n \in Nat /\ r = AssistantMessage(OpenTurnOf(p), n, x)
    BY <1>2 DEF Replies
  <2>2. r.type = "assistant.message" /\ r.turn = OpenTurnOf(p) /\ r.calls = n
    BY <2>1 DEF AssistantMessage
  <2> QED BY <1>2, <2>1, <2>2 DEF Replies
<1>3. CASE Answers(p, r)
  <2>1. PICK c, x : r = ToolResult(OpenTurnOf(p), c, x) /\ IsCallOf(p, c, OpenTurnOf(p)) /\ ~Answered(p, c)
    BY <1>3 DEF Answers
  <2>2. r.type = "tool.result" /\ r.turn = OpenTurnOf(p) /\ r.call = c
    BY <2>1 DEF ToolResult
  <2> QED BY <1>3, <2>1, <2>2 DEF Answers
<1>4. CASE Finishes(p, r)
  <2>1. PICK x : r = TurnEnd(OpenTurnOf(p), x) /\ (x = "interrupted" => AllAnswered(p, OpenTurnOf(p)))
    BY <1>4 DEF Finishes
  <2>2. r.type = "turn.end" /\ r.turn = OpenTurnOf(p) /\ r.reason = x
    BY <2>1 DEF TurnEnd
  <2> QED BY <1>4, <2>1, <2>2 DEF Finishes
<1>5. CASE Neutral(r)
  BY <1>5 DEF Neutral
<1> QED BY <1>1, <1>2, <1>3, <1>4, <1>5 DEF Admits

LEMMA KeepsStarts ==
  ASSUME NEW p, Exact(p), TurnFacts(p), NEW r, MayAppend(p, r), Admits(p, r)
  PROVE  StartsRise(Append(p, r))
<1> DEFINE q == Append(p, r)
           n == Len(p) + 1
           S(x) == PlacesOf(x, "turn.start")
<1>1. /\ Len(p) \in Nat
      /\ \A i \in S(p) : i \in 1..Len(p) /\ q[i] = p[i] /\ i \in S(q)
      /\ \A i \in S(q) : i \in S(p) \/ (i = n /\ r.type = "turn.start")
      /\ q[n] = r /\ (r.type = "turn.start" => n \in S(q))
  <2>1. MoreOf(p, r, "turn.start")
    BY MoreOfAll DEF Exact
  <2> QED BY <2>1 DEF MoreOf
<1>2. /\ LastTurnOf(q) = IF r.type = "turn.start" THEN r.turn ELSE LastTurnOf(p)
      /\ OpenTurnOf(q) = IF r.type = "turn.start" THEN r.turn ELSE IF r.type = "turn.end" THEN 0 ELSE OpenTurnOf(p)
  BY TurnsOfOneMore
<1>3. r.type = "turn.start" => r = TurnStart(r.turn) /\ r.turn \in Nat /\ r.turn > LastTurnOf(p)
  BY AdmittedIs
<1> HIDE DEF q, n, S
<1>4. /\ LastTurnOf(p) \in Nat /\ OpenTurnOf(p) \in {0, LastTurnOf(p)}
      /\ \A i \in S(p) : p[i] = TurnStart(p[i].turn) /\ p[i].turn \in 1..LastTurnOf(p)
      /\ \A i, j \in S(p) : i < j => p[i].turn < p[j].turn
      /\ LastTurnOf(p) # 0 => \E i \in S(p) : p[i].turn = LastTurnOf(p)
  BY DEF TurnFacts, StartsRise, S
<1>5. LastTurnOf(q) \in Nat /\ LastTurnOf(p) <= LastTurnOf(q) /\ OpenTurnOf(q) \in {0, LastTurnOf(q)}
  BY <1>2, <1>3, <1>4
<1>6. ASSUME NEW i \in S(q) PROVE q[i] = TurnStart(q[i].turn) /\ q[i].turn \in 1..LastTurnOf(q)
  <2>1. CASE i \in S(p)
    BY <1>1, <1>4, <1>5, <2>1
  <2>2. CASE i = n /\ r.type = "turn.start"
    BY <1>1, <1>2, <1>3, <1>4, <2>2
  <2> QED BY <1>1, <2>1, <2>2
<1>7. ASSUME NEW i \in S(q), NEW j \in S(q), i < j PROVE q[i].turn < q[j].turn
  <2>1. CASE i \in S(p) /\ j \in S(p)
    BY <1>1, <1>4, <1>7, <2>1
  <2>2. CASE i \in S(p) /\ j = n /\ r.type = "turn.start"
    BY <1>1, <1>3, <1>4, <2>2
  <2>3. CASE i = n
    <3>1. j \in 1..Len(p) \/ j = n
      BY <1>1
    <3> QED BY <1>1, <1>7, <2>3, <3>1 DEF n
  <2> QED BY <1>1, <2>1, <2>2, <2>3
<1>8. LastTurnOf(q) # 0 => \E i \in S(q) : q[i].turn = LastTurnOf(q)
  <2>1. CASE r.type = "turn.start"
    BY <1>1, <1>2, <2>1
  <2>2. CASE r.type # "turn.start"
    BY <1>1, <1>2, <1>4, <2>2
  <2> QED BY <2>1, <2>2
<1> QED BY <1>5, <1>6, <1>7, <1>8 DEF StartsRise, q, S

LEMMA OpenWasStarted ==
  ASSUME NEW p, StartsRise(p), OpenTurnOf(p) # 0
  PROVE  OpenTurnOf(p) = LastTurnOf(p) /\ \E i \in PlacesOf(p, "turn.start") : p[i].turn = OpenTurnOf(p)
BY DEF StartsRise

LEMMA KeepsStartedBefore ==
  ASSUME NEW p, Exact(p), TurnFacts(p), NEW r, MayAppend(p, r), Admits(p, r)
  PROVE  StartedBefore(Append(p, r)) /\ CallsCounted(Append(p, r))
<1> DEFINE q == Append(p, r)
           n == Len(p) + 1
           S(x) == PlacesOf(x, "turn.start")
           M(x) == PlacesOf(x, "assistant.message")
<1>1. /\ Len(p) \in Nat
      /\ \A i \in S(p) : i \in 1..Len(p) /\ q[i] = p[i] /\ i \in S(q)
      /\ \A i \in M(p) : i \in 1..Len(p) /\ q[i] = p[i] /\ i \in M(q)
      /\ \A i \in M(q) : i \in M(p) \/ (i = n /\ r.type = "assistant.message")
      /\ q[n] = r
  <2>1. MoreOf(p, r, "turn.start") /\ MoreOf(p, r, "assistant.message")
    BY MoreOfAll DEF Exact
  <2> QED BY <2>1 DEF MoreOf
<1>2. ASSUME NEW type, NEW i \in PlacesOf(q, type)
      PROVE  \/ i \in PlacesOf(p, type) /\ q[i] = p[i]
             \/ i = n /\ r.type = type
  <2>1. MoreOf(p, r, type)
    BY MoreOfAll DEF Exact
  <2> QED BY <2>1 DEF MoreOf
<1>3. /\ r.type \in {"assistant.message", "turn.end"} => OpenTurnOf(p) # 0 /\ r.turn = OpenTurnOf(p)
      /\ r.type = "assistant.message" => r.calls \in Nat
  BY AdmittedIs
<1> HIDE DEF q, n, S
<1>4. ASSUME NEW type \in {"assistant.message", "turn.end"}, NEW i \in PlacesOf(q, type)
      PROVE  \E j \in S(q) : j < i /\ q[j].turn = q[i].turn
  <2>1. CASE i \in PlacesOf(p, type) /\ q[i] = p[i]
    <3>1. PICK j \in S(p) : j < i /\ p[j].turn = p[i].turn
      BY <2>1 DEF TurnFacts, StartedBefore, S
    <3> QED BY <1>1, <2>1, <3>1
  <2>2. CASE i = n /\ r.type = type
    <3>1. PICK j \in S(p) : p[j].turn = r.turn
      BY <1>3, <2>2, OpenWasStarted DEF TurnFacts, S
    <3>2. j < n
      BY <1>1 DEF n
    <3> QED BY <1>1, <2>2, <3>1, <3>2
  <2> QED BY <1>2, <2>1, <2>2
<1>5. StartedBefore(q)
  BY <1>4 DEF StartedBefore, S
<1>6. CallsCounted(q)
  <2>1. \A i \in M(p) : p[i].calls \in Nat
    BY DEF TurnFacts, CallsCounted
  <2>2. \A i \in M(q) : q[i].calls \in Nat
    <3> HIDE DEF M
    <3> QED BY <1>1, <1>3, <2>1
  <2> QED BY <2>2 DEF CallsCounted
<1> QED BY <1>5, <1>6 DEF q

LEMMA KeepsEnds ==
  ASSUME NEW p, Exact(p), TurnFacts(p), NEW r, MayAppend(p, r), Admits(p, r)
  PROVE  EndsOnce(Append(p, r))
<1> DEFINE q == Append(p, r)
           n == Len(p) + 1
           E(x) == PlacesOf(x, "turn.end")
<1>1. /\ Len(p) \in Nat
      /\ \A i \in E(p) : i \in 1..Len(p) /\ q[i] = p[i] /\ i \in E(q)
      /\ \A i \in E(q) : i \in E(p) \/ (i = n /\ r.type = "turn.end")
      /\ q[n] = r /\ (r.type = "turn.end" => n \in E(q))
  <2>1. MoreOf(p, r, "turn.end")
    BY MoreOfAll DEF Exact
  <2> QED BY <2>1 DEF MoreOf
<1>2. /\ LastTurnOf(q) = IF r.type = "turn.start" THEN r.turn ELSE LastTurnOf(p)
      /\ OpenTurnOf(q) = IF r.type = "turn.start" THEN r.turn ELSE IF r.type = "turn.end" THEN 0 ELSE OpenTurnOf(p)
  BY TurnsOfOneMore
<1>3. /\ r.type = "turn.start" => r.turn \in Nat /\ r.turn > LastTurnOf(p)
      /\ r.type = "turn.end" => OpenTurnOf(p) # 0 /\ r.turn = OpenTurnOf(p)
  BY AdmittedIs
<1> HIDE DEF q, n
<1>4. /\ \A i, j \in E(p) : i # j => p[i].turn # p[j].turn
      /\ LastTurnOf(p) # 0 => (OpenTurnOf(p) = 0 <=> \E i \in E(p) : p[i].turn = LastTurnOf(p))
  BY DEF TurnFacts, EndsOnce
<1>5. LastTurnOf(p) \in Nat /\ OpenTurnOf(p) \in {0, LastTurnOf(p)} /\ \A i \in E(p) : p[i].turn \in 1..LastTurnOf(p)
  BY DEF TurnFacts, StartsRise, StartedBefore
<1> HIDE DEF E
<1>6. CASE r.type = "turn.end"
  <2>1. \A i \in E(p) : q[i].turn # r.turn
    BY <1>1, <1>3, <1>4, <1>5, <1>6
  <2>2. \A i, j \in E(q) : i # j => q[i].turn # q[j].turn
    BY <1>1, <1>4, <2>1
  <2>3. LastTurnOf(q) = r.turn /\ OpenTurnOf(q) = 0 /\ n \in E(q) /\ q[n].turn = r.turn
    BY <1>1, <1>2, <1>3, <1>5, <1>6
  <2> QED BY <2>2, <2>3 DEF EndsOnce, E, q
<1>7. CASE r.type # "turn.end"
  <2>1. \A i, j \in E(q) : i # j => q[i].turn # q[j].turn
    BY <1>1, <1>4, <1>7
  <2>2. LastTurnOf(q) # 0 => (OpenTurnOf(q) = 0 <=> \E i \in E(q) : q[i].turn = LastTurnOf(q))
    <3>1. CASE r.type = "turn.start"
      <4>1. OpenTurnOf(q) # 0 /\ LastTurnOf(q) \notin 1..LastTurnOf(p)
        BY <1>2, <1>3, <1>5, <3>1
      <4> QED BY <1>1, <1>5, <1>7, <4>1
    <3>2. CASE r.type # "turn.start"
      BY <1>1, <1>2, <1>4, <1>7, <3>2
    <3> QED BY <3>1, <3>2
  <2> QED BY <2>1, <2>2 DEF EndsOnce, E, q
<1> QED BY <1>6, <1>7

LEMMA KeepsResults ==
  ASSUME NEW p, Exact(p), TurnFacts(p), NEW r, MayAppend(p, r), Admits(p, r)
  PROVE  ResultsOfCalls(Append(p, r))
<1> DEFINE q == Append(p, r)
           n == Len(p) + 1
           R(x) == PlacesOf(x, "tool.result")
<1>1. /\ Len(p) \in Nat
      /\ \A i \in R(p) : i \in 1..Len(p) /\ q[i] = p[i] /\ i \in R(q)
      /\ \A i \in R(q) : i \in R(p) \/ (i = n /\ r.type = "tool.result")
      /\ q[n] = r
  <2>1. MoreOf(p, r, "tool.result")
    BY MoreOfAll DEF Exact
  <2> QED BY <2>1 DEF MoreOf
<1>2. r.type = "tool.result" => IsCallOf(p, r.call, r.turn) /\ ~Answered(p, r.call)
  BY AdmittedIs
<1>3. \A c, t : IsCallOf(p, c, t) => IsCallOf(q, c, t)
  BY CallsOfOneMore DEF Exact
<1>4. \A c, t : IsCallOf(p, c, t) => c[1] \in 1..Len(p)
  BY DEF IsCallOf, PlacesOf
<1>5. \A i \in R(p) : Answered(p, p[i].call)
  BY AnsweredIs
<1> HIDE DEF q, n
<1>6. \A i \in R(p) :
        /\ IsCallOf(p, p[i].call, p[i].turn) /\ p[i].call[1] < i
        /\ \A j \in R(p) : j # i => p[j].call # p[i].call
  BY DEF TurnFacts, ResultsOfCalls
<1> HIDE DEF R
<1>7. ASSUME NEW i \in R(q), NEW j \in R(q), j # i PROVE q[j].call # q[i].call
  <2>1. CASE i \in R(p) /\ j \in R(p)
    BY <1>1, <1>6, <1>7, <2>1
  <2>2. CASE i \in R(p) /\ j = n /\ r.type = "tool.result"
    BY <1>1, <1>2, <1>5, <2>2
  <2>3. CASE j \in R(p) /\ i = n /\ r.type = "tool.result"
    BY <1>1, <1>2, <1>5, <2>3
  <2> QED BY <1>1, <1>7, <2>1, <2>2, <2>3
<1>8. ASSUME NEW i \in R(q) PROVE IsCallOf(q, q[i].call, q[i].turn) /\ q[i].call[1] < i
  <2>1. CASE i \in R(p)
    BY <1>1, <1>3, <1>6, <2>1
  <2>2. CASE i = n /\ r.type = "tool.result"
    <3>1. r.call[1] \in 1..Len(p)
      BY <1>2, <1>4, <2>2
    <3> QED BY <1>1, <1>2, <1>3, <2>2, <3>1 DEF n
  <2> QED BY <1>1, <2>1, <2>2
<1> QED BY <1>7, <1>8 DEF ResultsOfCalls, R, q

LEMMA KeepsRecovered ==
  ASSUME NEW p, Exact(p), TurnFacts(p), NEW r, MayAppend(p, r), Admits(p, r)
  PROVE  RecoveredAnswered(Append(p, r))
<1> DEFINE q == Append(p, r)
           n == Len(p) + 1
           E(x) == PlacesOf(x, "turn.end")
           M(x) == PlacesOf(x, "assistant.message")
           R(x) == PlacesOf(x, "tool.result")
<1>1. /\ Len(p) \in Nat
      /\ \A i \in E(p) : q[i] = p[i]
      /\ \A i \in E(q) : i \in E(p) \/ (i = n /\ r.type = "turn.end")
      /\ \A m \in M(p) : q[m] = p[m]
      /\ \A m \in M(q) : m \in M(p) \/ (m = n /\ r.type = "assistant.message")
      /\ \A j \in R(p) : j \in 1..Len(p) /\ q[j] = p[j] /\ j \in R(q)
      /\ q[n] = r
  <2>1. MoreOf(p, r, "turn.end") /\ MoreOf(p, r, "assistant.message") /\ MoreOf(p, r, "tool.result")
    BY MoreOfAll DEF Exact
  <2> QED BY <2>1 DEF MoreOf
<1>2. /\ r.type = "turn.end" /\ r.reason = "interrupted" => AllAnswered(p, r.turn)
      /\ r.type = "assistant.message" => OpenTurnOf(p) # 0 /\ r.turn = OpenTurnOf(p)
  BY AdmittedIs
<1>3. OpenTurnOf(p) # 0 => \A i \in E(p) : p[i].turn # OpenTurnOf(p)
  BY DEF TurnFacts, EndsOnce, StartsRise
<1>4. \A c, i : AnsweredUpTo(p, c, i) => AnsweredUpTo(q, c, i)
  BY <1>1 DEF AnsweredUpTo
<1> SUFFICES ASSUME NEW i \in E(q), q[i].reason = "interrupted", NEW m \in M(q), q[m].turn = q[i].turn,
                    NEW k \in 1..q[m].calls
             PROVE  AnsweredUpTo(q, <<m, k>>, i)
  BY DEF RecoveredAnswered
<1> HIDE DEF q, n
<1>5. CASE i \in E(p) /\ m \in M(p)
  <2>1. AnsweredUpTo(p, <<m, k>>, i)
    BY <1>1, <1>5 DEF TurnFacts, RecoveredAnswered
  <2> QED BY <1>4, <2>1
<1>6. CASE i \in E(p) /\ m = n /\ r.type = "assistant.message"
  BY <1>1, <1>2, <1>3, <1>6
<1>7. CASE i = n /\ r.type = "turn.end"
  <2>1. m \in M(p) /\ q[m] = p[m]
    BY <1>1, <1>7
  <2>2. Answered(p, <<m, k>>)
    BY <1>1, <1>2, <1>7, <2>1 DEF AllAnswered
  <2>3. PICK j \in R(p) : p[j].call = <<m, k>>
    BY <2>2, AnsweredIs
  <2>4. j <= n /\ j \in R(q) /\ q[j].call = <<m, k>>
    BY <1>1, <2>3 DEF n
  <2> QED BY <1>7, <2>4 DEF AnsweredUpTo
<1> QED BY <1>1, <1>5, <1>6, <1>7

LEMMA KeepsApart ==
  ASSUME NEW p, Exact(p), TurnFacts(p), Apart(p), NEW r, MayAppend(p, r), Admits(p, r),
         r.type = "turn.start" => OpenTurnOf(p) = 0
  PROVE  Apart(Append(p, r))
<1> DEFINE q == Append(p, r)
           n == Len(p) + 1
           S(x) == PlacesOf(x, "turn.start")
           E(x) == PlacesOf(x, "turn.end")
<1>1. /\ Len(p) \in Nat
      /\ \A i \in S(p) : i \in 1..Len(p) /\ q[i] = p[i]
      /\ \A i \in S(q) : i \in S(p) \/ (i = n /\ r.type = "turn.start")
      /\ \A k \in E(p) : k \in 1..Len(p) /\ q[k] = p[k] /\ k \in E(q)
  <2>1. MoreOf(p, r, "turn.start") /\ MoreOf(p, r, "turn.end")
    BY MoreOfAll DEF Exact
  <2> QED BY <2>1 DEF MoreOf
<1>2. \A i, j \in S(p) : i < j => \E k \in E(p) : k \in i..j /\ p[k].turn = p[i].turn
  BY DEF Apart
<1>3. /\ LastTurnOf(p) \in Nat
      /\ \A i \in S(p) : p[i].turn \in 1..LastTurnOf(p)
      /\ \A i, j \in S(p) : i < j => p[i].turn < p[j].turn
      /\ LastTurnOf(p) # 0 => \E i \in S(p) : p[i].turn = LastTurnOf(p)
  BY DEF TurnFacts, StartsRise
<1>4. LastTurnOf(p) # 0 /\ OpenTurnOf(p) = 0 => \E i \in E(p) : p[i].turn = LastTurnOf(p)
  BY DEF TurnFacts, EndsOnce
<1>5. \A i \in E(p) : \E j \in S(p) : j < i /\ p[j].turn = p[i].turn
  BY DEF TurnFacts, StartedBefore
<1> SUFFICES ASSUME NEW i \in S(q), NEW j \in S(q), i < j
             PROVE  \E k \in E(q) : k \in i..j /\ q[k].turn = q[i].turn
  BY DEF Apart
<1> HIDE DEF q, n, S, E
<1>6. CASE i \in S(p) /\ j \in S(p)
  <2>1. PICK k \in E(p) : k \in i..j /\ p[k].turn = p[i].turn
    BY <1>2, <1>6
  <2> QED BY <1>1, <1>6, <2>1
<1>7. CASE i \in S(p) /\ j = n /\ r.type = "turn.start"
  <2>1. LastTurnOf(p) # 0
    BY <1>3, <1>7
  <2>2. CASE p[i].turn = LastTurnOf(p)
    <3>1. PICK k \in E(p) : p[k].turn = LastTurnOf(p)
      BY <1>4, <1>7, <2>1
    <3>2. PICK h \in S(p) : h < k /\ p[h].turn = p[k].turn
      BY <1>5
    <3>3. h = i
      <4>1. h \in 1..Len(p) /\ i \in 1..Len(p) /\ p[h].turn = p[i].turn /\ p[i].turn \in Nat
        BY <1>1, <1>3, <1>7, <2>2, <3>1, <3>2
      <4> QED BY <1>1, <1>3, <1>7, <4>1
    <3>4. k \in i..j
      BY <1>1, <1>7, <3>2, <3>3 DEF n
    <3> QED BY <1>1, <1>7, <2>2, <3>1, <3>4
  <2>3. CASE p[i].turn # LastTurnOf(p)
    <3>1. PICK h \in S(p) : p[h].turn = LastTurnOf(p)
      BY <1>3, <2>1
    <3>2. i < h
      <4>1. h \in 1..Len(p) /\ i \in 1..Len(p) /\ p[i].turn < p[h].turn /\ p[i].turn \in Nat /\ p[h].turn \in Nat
        BY <1>1, <1>3, <1>7, <2>3, <3>1
      <4>2. ~(h < i)
        BY <1>3, <1>7, <4>1
      <4> QED BY <1>1, <4>1, <4>2
    <3>3. PICK k \in E(p) : k \in i..h /\ p[k].turn = p[i].turn
      BY <1>2, <1>7, <3>2
    <3>4. k \in i..j
      BY <1>1, <1>7, <3>3 DEF n
    <3> QED BY <1>1, <1>7, <3>3, <3>4
  <2> QED BY <2>2, <2>3
<1>8. CASE i = n
  <2>1. j \in 1..Len(p) \/ j = n
    BY <1>1
  <2> QED BY <1>1, <1>8, <2>1 DEF n
<1> QED BY <1>1, <1>6, <1>7, <1>8

(* A record that is admitted leaves the turns as they should be. *)
LEMMA AdmittedKeepsTurns ==
  ASSUME NEW p, Exact(p), TurnFacts(p), NEW r, MayAppend(p, r), Admits(p, r)
  PROVE  TurnFacts(Append(p, r)) /\ Exact(Append(p, r))
BY KeepsStarts, KeepsStartedBefore, KeepsEnds, KeepsResults, KeepsRecovered, RecordOrCheckpoint DEF TurnFacts
-----------------------------------------------------------------------------
(* The calls of turn t that a list still has to answer, and a list that    *)
(* has all of them.                                                        *)
Awaits(p, q, t) ==
  /\ IsSeq(q)
  /\ \A k \in 1..Len(q) : IsCallOf(p, q[k], t) /\ ~Answered(p, q[k])
  /\ \A k, l \in 1..Len(q) : k # l => q[k] # q[l]
Covers(p, q, t) == \A m \in PlacesOf(p, "assistant.message") : p[m].turn = t =>
  \A k \in 1..p[m].calls : Answered(p, <<m, k>>) \/ \E l \in 1..Len(q) : q[l] = <<m, k>>

LEMMA StartIsBefore ==
  ASSUME NEW p, StartsRise(p), StartedBefore(p), Len(p) \in Nat, NEW m \in PlacesOf(p, "assistant.message")
  PROVE  m \in RepliesOf(p, p[m].turn)
<1> DEFINE t == p[m].turn
           T == {i \in 1..Len(p) : p[i] = TurnStart(t)}
<1>1. PICK j \in PlacesOf(p, "turn.start") : j < m /\ p[j].turn = t
  BY DEF StartedBefore
<1>2. j \in T
  BY <1>1 DEF PlacesOf, StartsRise
<1>3. \A i \in T : i \in PlacesOf(p, "turn.start") /\ p[i].turn = t
  BY DEF PlacesOf, TurnStart
<1>4. \A i \in T : i = j
  <2> SUFFICES ASSUME NEW i \in T PROVE i = j
    OBVIOUS
  <2>1. i \in PlacesOf(p, "turn.start") /\ p[i].turn = p[j].turn
    BY <1>1, <1>3
  <2>2. i \in Nat /\ j \in Nat /\ p[j].turn \in Nat
    BY <1>1, <2>1 DEF PlacesOf, StartsRise
  <2>3. ~(i < j) /\ ~(j < i)
    BY <1>1, <2>1, <2>2 DEF StartsRise
  <2> QED BY <2>2, <2>3
<1>5. StartOf(p, t) = j
  <2>1. StartOf(p, t) = IF T = {} THEN 0 ELSE CHOOSE i \in T : \A k \in T : k <= i
    BY DEF StartOf
  <2>2. j <= j
    BY <1>1 DEF PlacesOf
  <2> HIDE DEF T
  <2> QED BY <1>2, <1>4, <2>1, <2>2
<1>6. m \in 1..Len(p) /\ p[m].type = "assistant.message" /\ m > j
  BY <1>1 DEF PlacesOf
<1> QED BY <1>5, <1>6 DEF RepliesOf

LEMMA UnansweredAwaits ==
  ASSUME NEW p, Exact(p), TurnFacts(p), NEW t
  PROVE  Awaits(p, Unanswered(p, t), t) /\ Covers(p, Unanswered(p, t), t)
<1> DEFINE c == TurnCalls(p, t)
           q == Unanswered(p, t)
           M == PlacesOf(p, "assistant.message")
<1>1. IsSeq(p) /\ Len(p) \in Nat /\ Len(p) >= 1
  BY FirstOf DEF Exact
<1>2. \A m \in RepliesOf(p, t) : m \in M /\ p[m].turn = t /\ m <= Len(p)
  BY <1>1 DEF RepliesOf, PlacesOf
<1>3. \A m \in RepliesOf(p, t) : p[m].calls \in Nat
  BY <1>2 DEF TurnFacts, CallsCounted
<1>4. ListsCalls(c, p, t, Len(p))
  BY <1>1, <1>3, TurnCallsListed
<1>5. LeftOf(q, c, p, Len(c))
  BY <1>4, UnansweredLeft DEF ListsCalls
<1>6. Len(c) \in Nat /\ \A l \in 1..Len(c) : l <= Len(c)
  <2>1. IsSeq(c)
    BY <1>4 DEF ListsCalls
  <2> HIDE DEF c
  <2>2. Len(c) \in Nat
    BY <2>1, Appended
  <2> QED BY <2>2
<1> HIDE DEF c, q
<1>7. \A l \in 1..Len(c) : IsCallOf(p, c[l], t)
  BY <1>2, <1>4 DEF ListsCalls, IsCallOf
<1>8. \A j \in 1..Len(q) : \E l \in 1..Len(c) : q[j] = c[l] /\ ~Answered(p, c[l])
  BY <1>5 DEF LeftOf
<1>9. Awaits(p, q, t)
  BY <1>5, <1>7, <1>8 DEF Awaits, LeftOf
<1>10. Covers(p, q, t)
  <2> SUFFICES ASSUME NEW m \in M, p[m].turn = t, NEW k \in 1..p[m].calls, ~Answered(p, <<m, k>>)
               PROVE  \E l \in 1..Len(q) : q[l] = <<m, k>>
    BY DEF Covers
  <2>1. m \in RepliesOf(p, t)
    BY <1>1, StartIsBefore DEF TurnFacts
  <2>2. PICK l \in 1..Len(c) : c[l] = <<m, k>>
    BY <1>2, <1>4, <2>1 DEF ListsCalls
  <2> QED BY <1>5, <1>6, <2>2 DEF LeftOf
<1> QED BY <1>9, <1>10 DEF q

(* The records q are p and r, and perhaps a checkpoint. *)
Grew(p, r, q) ==
  /\ LastTurnOf(q) = IF r.type = "turn.start" THEN r.turn ELSE LastTurnOf(p)
  /\ OpenTurnOf(q) = IF r.type = "turn.start" THEN r.turn ELSE IF r.type = "turn.end" THEN 0 ELSE OpenTurnOf(p)
  /\ \A c : Answered(q, c) <=> Answered(p, c) \/ (r.type = "tool.result" /\ r.call = c)
  /\ \A c, t : IsCallOf(p, c, t) => IsCallOf(q, c, t)
  /\ \A m \in PlacesOf(q, "assistant.message") :
       \/ m \in PlacesOf(p, "assistant.message") /\ q[m] = p[m]
       \/ m = Len(p) + 1 /\ r.type = "assistant.message"
  /\ r.type = "assistant.message" => Len(p) + 1 \in PlacesOf(q, "assistant.message") /\ q[Len(p) + 1] = r

LEMMA GrewByOne ==
  ASSUME NEW p, Exact(p), NEW r, MayAppend(p, r)
  PROVE  Grew(p, r, Append(p, r))
<1>1. IsSeq(p)
  BY DEF Exact
<1> DEFINE q == Append(p, r)
<1>2. /\ LastTurnOf(q) = IF r.type = "turn.start" THEN r.turn ELSE LastTurnOf(p)
      /\ OpenTurnOf(q) = IF r.type = "turn.start" THEN r.turn ELSE IF r.type = "turn.end" THEN 0 ELSE OpenTurnOf(p)
  BY TurnsOfOneMore
<1>3. \A c : Answered(q, c) <=> Answered(p, c) \/ (r.type = "tool.result" /\ r.call = c)
  BY <1>1, AnsweredByOneMore
<1>4. \A c, t : IsCallOf(p, c, t) => IsCallOf(q, c, t)
  BY <1>1, CallsOfOneMore
<1>5. MoreOf(p, r, "assistant.message")
  BY <1>1, MoreOfAll
<1>6. /\ \A m \in PlacesOf(q, "assistant.message") :
           \/ m \in PlacesOf(p, "assistant.message") /\ q[m] = p[m]
           \/ m = Len(p) + 1 /\ r.type = "assistant.message"
      /\ r.type = "assistant.message" => Len(p) + 1 \in PlacesOf(q, "assistant.message") /\ q[Len(p) + 1] = r
  BY <1>5 DEF MoreOf
<1> HIDE DEF q
<1>7. Grew(p, r, q)
  BY <1>2, <1>3, <1>4, <1>6 DEF Grew
<1> QED BY <1>7 DEF q

LEMMA GrewWithCheckpoint ==
  ASSUME NEW p, NEW r, NEW q, Grew(p, r, q), Exact(q), NEW c, c.type = "checkpoint", MayAppend(q, c)
  PROVE  Grew(p, r, Append(q, c))
<1> DEFINE w == Append(q, c)
           M(x) == PlacesOf(x, "assistant.message")
<1>1. Grew(q, c, w)
  BY GrewByOne
<1>2. MoreOf(q, c, "assistant.message")
  BY MoreOfAll DEF Exact
<1>3. \A m \in M(q) : m \in M(w) /\ w[m] = q[m]
  BY <1>2 DEF MoreOf
<1> HIDE DEF w
<1>4. LastTurnOf(w) = LastTurnOf(q) /\ OpenTurnOf(w) = OpenTurnOf(q)
  BY <1>1 DEF Grew
<1>5. \A x : Answered(w, x) <=> Answered(q, x)
  BY <1>1 DEF Grew
<1>6. \A x, t : IsCallOf(q, x, t) => IsCallOf(w, x, t)
  BY <1>1 DEF Grew
<1>7. \A m \in M(w) : m \in M(q) /\ w[m] = q[m]
  BY <1>1 DEF Grew
<1>8. /\ \A m \in M(q) : \/ m \in M(p) /\ q[m] = p[m]
                         \/ m = Len(p) + 1 /\ r.type = "assistant.message"
      /\ r.type = "assistant.message" => Len(p) + 1 \in M(q) /\ q[Len(p) + 1] = r
  BY DEF Grew
<1>9. /\ \A m \in M(w) : \/ m \in M(p) /\ w[m] = p[m]
                         \/ m = Len(p) + 1 /\ r.type = "assistant.message"
      /\ r.type = "assistant.message" => Len(p) + 1 \in M(w) /\ w[Len(p) + 1] = r
  <2> HIDE DEF M
  <2> QED BY <1>3, <1>7, <1>8
<1>10. Grew(p, r, w)
  BY <1>4, <1>5, <1>6, <1>9 DEF Grew
<1> QED BY <1>10 DEF w

(* The first call of a list gets its result. *)
LEMMA FirstIsAnswered ==
  ASSUME NEW p, NEW q, NEW t, Awaits(p, q, t), q # <<>>, NEW r, r.type = "tool.result", r.call = Head(q),
         NEW w, Grew(p, r, w)
  PROVE  /\ Awaits(w, Tail(q), t)
         /\ Covers(p, q, t) => Covers(w, Tail(q), t)
         /\ IsCallOf(p, Head(q), t) /\ ~Answered(p, Head(q))
         /\ Len(q) > 1 => Tail(q) # <<>>
<1> DEFINE u == Tail(q)
           n == Len(q)
<1>1. /\ IsSeq(u) /\ n \in Nat /\ n >= 1 /\ Head(q) = q[1] /\ Len(u) = n - 1
      /\ \A i \in 1..n - 1 : u[i] = q[i + 1]
      /\ u = <<>> => Len(u) = 0
  <2>1. PICK S : q \in Seq(S)
    BY DEF Awaits, IsSeq
  <2>2. /\ Head(q) = q[1] /\ u \in Seq(S) /\ Len(u) = n - 1
        /\ \A i \in 1..Len(u) : u[i] = q[i + 1]
    BY <2>1, HeadTailProperties
  <2>3. n \in Nat /\ n # 0
    BY <2>1, LenProperties, EmptySeq
  <2> HIDE DEF u, n
  <2>4. u = <<>> => Len(u) = 0
    OBVIOUS
  <2> QED BY <2>2, <2>3, <2>4 DEF IsSeq
<1> HIDE DEF u, n
<1>2. \A x : Answered(w, x) <=> Answered(p, x) \/ x = q[1]
  BY <1>1 DEF Grew
<1>3. \A i \in 1..Len(u) : i + 1 \in 1..n /\ i + 1 # 1 /\ u[i] = q[i + 1]
  BY <1>1
<1>4. 1 \in 1..n
  BY <1>1
<1>5. /\ \A k \in 1..n : IsCallOf(p, q[k], t) /\ ~Answered(p, q[k])
      /\ \A k, l \in 1..n : k # l => q[k] # q[l]
  BY DEF Awaits, n
<1>6. ASSUME NEW i \in 1..Len(u) PROVE IsCallOf(w, u[i], t) /\ ~Answered(w, u[i])
  <2> DEFINE k == i + 1
  <2>1. k \in 1..n /\ k # 1 /\ u[i] = q[k]
    BY <1>3
  <2> HIDE DEF k
  <2>2. IsCallOf(w, q[k], t)
    BY <1>5, <2>1 DEF Grew
  <2> QED BY <1>2, <1>4, <1>5, <2>1, <2>2
<1>7. ASSUME NEW i \in 1..Len(u), NEW j \in 1..Len(u), i # j PROVE u[i] # u[j]
  <2> DEFINE k == i + 1
             l == j + 1
  <2>1. k \in 1..n /\ l \in 1..n /\ k # l /\ u[i] = q[k] /\ u[j] = q[l]
    BY <1>3, <1>7
  <2> HIDE DEF k, l
  <2> QED BY <1>5, <2>1
<1>8. Awaits(w, u, t)
  BY <1>1, <1>6, <1>7 DEF Awaits
<1>9. ASSUME Covers(p, q, t) PROVE Covers(w, u, t)
  <2> SUFFICES ASSUME NEW m \in PlacesOf(w, "assistant.message"), w[m].turn = t, NEW k \in 1..w[m].calls,
                      ~Answered(w, <<m, k>>)
               PROVE  \E l \in 1..Len(u) : u[l] = <<m, k>>
    BY DEF Covers
  <2>1. m \in PlacesOf(p, "assistant.message") /\ w[m] = p[m]
    BY DEF Grew
  <2>2. ~Answered(p, <<m, k>>) /\ <<m, k>> # q[1]
    BY <1>2
  <2>3. PICK l \in 1..n : q[l] = <<m, k>>
    BY <1>9, <2>1, <2>2 DEF Covers, n
  <2> DEFINE i == l - 1
  <2>4. l # 1
    BY <2>2, <2>3
  <2>5. i \in 1..Len(u) /\ i + 1 = l
    BY <1>1, <2>4
  <2> HIDE DEF i
  <2>6. u[i] = <<m, k>>
    BY <1>3, <2>3, <2>5
  <2> QED BY <2>5, <2>6
<1>10. IsCallOf(p, Head(q), t) /\ ~Answered(p, Head(q))
  BY <1>1, <1>4, <1>5
<1>11. n > 1 => u # <<>>
  BY <1>1
<1> QED BY <1>8, <1>9, <1>10, <1>11 DEF u, n

(* A reply brings its calls. *)
LEMMA ReplyAwaits ==
  ASSUME NEW p, Exact(p), TurnFacts(p), NEW n \in Nat, NEW t, NEW x, NEW w,
         Grew(p, AssistantMessage(t, n, x), w)
  PROVE  Awaits(w, CallsOf(Len(p) + 1, n), t) /\ (n > 0 => CallsOf(Len(p) + 1, n) # <<>>)
<1> DEFINE i == Len(p) + 1
           q == CallsOf(i, n)
           r == AssistantMessage(t, n, x)
<1>1. IsSeq(q) /\ Len(q) = n /\ \A k \in 1..n : q[k] = <<i, k>>
  <2> HIDE DEF i
  <2> QED BY CallsOfReply
<1>2. r.type = "assistant.message" /\ r.turn = t /\ r.calls = n
  BY DEF AssistantMessage
<1> HIDE DEF q, r
<1>3. i \in PlacesOf(w, "assistant.message") /\ w[i] = r
  BY <1>2 DEF Grew, r
<1>4. \A c : Answered(w, c) <=> Answered(p, c)
  BY <1>2 DEF Grew, r
<1>5. Len(p) \in Nat
  BY FirstOf DEF Exact
<1>6. \A k : ~Answered(p, <<i, k>>)
  <2> SUFFICES ASSUME NEW k, Answered(p, <<i, k>>) PROVE FALSE
    OBVIOUS
  <2>1. PICK j \in PlacesOf(p, "tool.result") : p[j].call = <<i, k>>
    BY AnsweredIs
  <2>2. IsCallOf(p, <<i, k>>, p[j].turn)
    BY <2>1 DEF TurnFacts, ResultsOfCalls
  <2>3. i \in 1..Len(p)
    BY <2>2 DEF IsCallOf, PlacesOf
  <2> QED BY <1>5, <2>3
<1> HIDE DEF i
<1>7. \A k \in 1..n : IsCallOf(w, <<i, k>>, t)
  BY <1>2, <1>3 DEF IsCallOf
<1>8. Awaits(w, q, t)
  <2>1. \A k \in 1..Len(q) : IsCallOf(w, q[k], t) /\ ~Answered(w, q[k])
    BY <1>1, <1>4, <1>6, <1>7
  <2>2. \A k, l \in 1..Len(q) : k # l => q[k] # q[l]
    BY <1>1
  <2> QED BY <1>1, <2>1, <2>2 DEF Awaits
<1>9. n > 0 => q # <<>>
  BY <1>1
<1> QED BY <1>8, <1>9 DEF q, i
-----------------------------------------------------------------------------
(* The inductive invariant of the turns, as long as no rejected append has *)
(* left its record: the file is all the holder knows; the turn that runs   *)
(* or is recovered is the open one; what waits for a result is what has    *)
(* none; and only failed appends leave a turn open behind their agent.     *)
AtWork == phase \in {"ask", "top", "send", "tools", "end", "reopen", "heal"}
InStep ==
  /\ log = Known
  /\ AtWork => turn = OpenTurnOf(log) /\ turn # 0
  /\ phase \notin {"reopen", "leave"} => lastTurn \in Nat /\ LastTurnOf(log) <= lastTurn
  /\ phase \in {"tools", "reopen", "heal"} => Awaits(log, todo, turn)
  /\ phase = "tools" => todo # <<>>
  /\ Recovering => Covers(log, todo, turn)
  /\ phase = "idle" /\ OpenTurnOf(log) # 0 => rejected > 0
  /\ phase = "start" /\ OpenTurnOf(log) # 0 => rejected > 1
  /\ phase = "heal" => rejected > 0
TurnsOf(p, n) == TurnFacts(p) /\ (n > 1 \/ Apart(p))
TurnInv ==
  /\ rejected \in Nat
  /\ ~strayed => TurnsOf(log, rejected) /\ (Holding => InStep)

(* What the holder may append now. *)
May(r) ==
  /\ MayAppend(log, r) /\ Admits(log, r)
  /\ r.type = "turn.start" /\ OpenTurnOf(log) # 0 => rejected > 1

LEMMA MayKeepsTurns ==
  ASSUME Exact(log), TurnsOf(log, rejected), NEW r, May(r)
  PROVE  TurnsOf(Append(log, r), rejected) /\ Exact(Append(log, r)) /\ Grew(log, r, Append(log, r))
<1>1. TurnFacts(Append(log, r)) /\ Exact(Append(log, r)) /\ Grew(log, r, Append(log, r))
  BY AdmittedKeepsTurns, GrewByOne DEF May, TurnsOf
<1>2. rejected > 1 \/ Apart(Append(log, r))
  BY KeepsApart DEF May, TurnsOf
<1> QED BY <1>1, <1>2 DEF TurnsOf

LEMMA CheckpointKeepsTurns ==
  ASSUME NEW p, Exact(p), NEW n, TurnsOf(p, n), NEW c, c = CheckpointOf(Opened(p))
  PROVE  TurnsOf(Append(p, c), n) /\ MayAppend(p, c) /\ Admits(p, c) /\ c.type = "checkpoint"
<1>1. c.type = "checkpoint" /\ MayAppend(p, c) /\ Admits(p, c)
  BY CheckpointIsLink DEF MayAppend, Admits, Neutral
<1>2. n > 1 \/ Apart(Append(p, c))
  BY <1>1, KeepsApart DEF TurnsOf
<1>3. TurnFacts(Append(p, c))
  BY <1>1, AdmittedKeepsTurns DEF TurnsOf
<1> QED BY <1>1, <1>2, <1>3 DEF TurnsOf

LEMMA StrayedStays ==
  ASSUME NEW r, Appends(r) \/ Rejects(r), ~strayed'
  PROVE  ~strayed
<1>1. CASE Appends(r)
  BY <1>1 DEF Appends
<1>2. CASE Rejects(r)
  BY <1>2 DEF Rejects, LineFails
<1> QED BY <1>1, <1>2

LEMMA AppendsGrows ==
  ASSUME StateInv, TurnInv, ~strayed', Holding, NEW r, May(r), Appends(r)
  PROVE  /\ ~strayed /\ InStep /\ rejected' = rejected /\ TurnsOf(log', rejected)
         /\ Grew(log, r, log') /\ log' = Known' /\ holder'.state = Load(log').state
<1> DEFINE q == Append(log, r)
           w == Write(holder, r)
           c == CheckpointOf(w)
<1>1. ~strayed /\ rejected' = rejected
  BY DEF Appends
<1>2. InStep /\ log = Known /\ TurnsOf(log, rejected) /\ Exact(log) /\ holder = Opened(log)
  BY <1>1 DEF TurnInv, InStep, StateInv, Held
<1>3. TurnsOf(q, rejected) /\ Exact(q) /\ Grew(log, r, q)
  BY <1>2, MayKeepsTurns
<1>4. w = Opened(q)
  BY <1>2, RecordOrCheckpoint DEF May
<1>5. \A x : Opened(x).last = Len(x) /\ Opened(x).state = Load(x).state
  BY DEF Opened
<1> HIDE DEF q, w
<1>6. CASE CheckpointDue(w, r)
  <2> DEFINE u == Append(q, c)
  <2>1. log' = u /\ holder' = Write(w, c)
    <3>1. log' = log \o <<r, c>> /\ holder' = Write(w, c)
      BY <1>2, <1>6 DEF Appends, w
    <3>2. log \o <<r, c>> = u
      <4>1. PICK S : log \in Seq(S)
        BY <1>2 DEF Exact, IsSeq
      <4> HIDE DEF c
      <4> QED BY <4>1 DEF q
    <3> QED BY <3>1, <3>2
  <2>2. TurnsOf(u, rejected) /\ MayAppend(q, c) /\ c.type = "checkpoint"
    BY <1>3, <1>4, CheckpointKeepsTurns
  <2>3. Exact(u) /\ Opened(u) = Write(w, c)
    BY <1>3, <1>4, <2>2, RecordOrCheckpoint
  <2>4. Grew(log, r, u)
    BY <1>3, <2>2, GrewWithCheckpoint
  <2> HIDE DEF u
  <2>5. SubSeq(u, 1, Len(u)) = u
    BY <2>3, FirstOf DEF Exact
  <2> QED BY <1>1, <1>2, <1>5, <2>1, <2>2, <2>3, <2>4, <2>5 DEF Known
<1>7. CASE ~CheckpointDue(w, r)
  <2>1. log' = q /\ holder' = w
    BY <1>2, <1>7 DEF Appends, w, q
  <2>2. SubSeq(q, 1, Len(q)) = q
    BY <1>3, FirstOf DEF Exact
  <2> QED BY <1>1, <1>2, <1>3, <1>4, <1>5, <2>1, <2>2 DEF Known
<1> QED BY <1>6, <1>7

LEMMA RejectsGrows ==
  ASSUME StateInv, TurnInv, ~strayed', Holding, NEW r, May(r), Rejects(r)
  PROVE  /\ ~strayed /\ InStep /\ rejected' = rejected + 1 /\ TurnsOf(log', rejected') /\ log' = Known'
         /\ log' = log \/ (r.type = "turn.end" /\ Grew(log, r, log'))
<1> DEFINE q == Append(log, r)
           w == Write(holder, r)
           c == CheckpointOf(w)
<1>1. ~strayed
  BY DEF Rejects, LineFails
<1>2. InStep /\ log = Known /\ TurnsOf(log, rejected) /\ Exact(log) /\ holder = Opened(log) /\ rejected \in Nat
  BY <1>1 DEF TurnInv, InStep, StateInv, Held
<1>3. TurnsOf(q, rejected) /\ Exact(q) /\ Grew(log, r, q)
  BY <1>2, MayKeepsTurns
<1>4. w = Opened(q)
  BY <1>2, RecordOrCheckpoint DEF May
<1>5. \A x : Opened(x).last = Len(x)
  BY DEF Opened
<1>6. rejected' = rejected + 1 /\ \A p : TurnsOf(p, rejected) => TurnsOf(p, rejected')
  BY <1>2 DEF Rejects, TurnsOf
<1> HIDE DEF q, w
<1>7. CASE LineFails(holder, Known, r)
  <2>1. log' = log /\ holder' = holder
    BY <1>2, <1>7 DEF LineFails
  <2>2. log' = Known'
    BY <1>2, <2>1 DEF Known
  <2> QED BY <1>1, <1>2, <1>6, <2>1, <2>2
<1>8. CASE CheckpointDue(w, r) /\ LineFails(w, Append(Known, r), c)
  <2>1. log' = q /\ holder' = w
    BY <1>2, <1>8 DEF LineFails, q
  <2>2. SubSeq(q, 1, Len(q)) = q
    BY <1>3, FirstOf DEF Exact
  <2>3. log' = Known'
    BY <1>4, <1>5, <2>1, <2>2 DEF Known
  <2>4. r.type = "turn.end"
    BY <1>8 DEF CheckpointDue
  <2> QED BY <1>1, <1>2, <1>3, <1>6, <2>1, <2>3, <2>4
<1> QED BY <1>7, <1>8 DEF Rejects, w

(* The records that the phases bring are such that they may follow. *)
LEMMA NeutralMay ==
  ASSUME StateInv, Holding, InStep
  PROVE  /\ \A t : May(UserMessage(t))
         /\ May(CheckpointOf(holder))
         /\ \A t, k : CompactionFits(holder.state.messages, k) => May(Compaction(t, k))
<1>1. Held /\ log = Known
  BY DEF StateInv, InStep
<1>2. \A t : MayAppend(log, UserMessage(t)) /\ UserMessage(t).type = "user.message"
  BY Constructed DEF UserMessage
<1>3. MayAppend(log, CheckpointOf(holder)) /\ CheckpointOf(holder).type = "checkpoint"
  BY <1>1, CheckpointIsLink DEF Held, MayAppend
<1>4. ASSUME NEW t, NEW k, CompactionFits(holder.state.messages, k)
      PROVE  MayAppend(log, Compaction(t, k)) /\ Compaction(t, k).type = "compaction"
  <2>1. holder.state = Load(log).state
    BY <1>1 DEF Held, Opened
  <2> QED BY <1>4, <2>1 DEF MayAppend, Plain, Compaction
<1>5. ASSUME NEW r, MayAppend(log, r), r.type \in {"user.message", "checkpoint", "compaction"} PROVE May(r)
  BY <1>5 DEF May, Admits, Neutral
<1> QED BY <1>2, <1>3, <1>4, <1>5

LEMMA WorkMay ==
  ASSUME InStep, AtWork
  PROVE  /\ \A n \in Nat : \A x : May(AssistantMessage(turn, n, x))
         /\ \A x : x # "interrupted" => May(TurnEnd(turn, x))
         /\ phase = "tools" => May(ToolResult(turn, Head(todo), TRUE)) /\ IsCallOf(log, Head(todo), turn)
         /\ Recovering => May(RecoveryRecord)
<1>1. turn = OpenTurnOf(log) /\ turn # 0
  BY DEF InStep
<1>2. ASSUME NEW n \in Nat, NEW x PROVE May(AssistantMessage(turn, n, x))
  <2>1. Replies(log, AssistantMessage(turn, n, x)) /\ AssistantMessage(turn, n, x).type # "turn.start"
    BY <1>1 DEF Replies, AssistantMessage
  <2> QED BY <2>1, Constructed DEF May, Admits
<1>3. ASSUME NEW x, x = "interrupted" => AllAnswered(log, turn) PROVE May(TurnEnd(turn, x))
  <2>1. Finishes(log, TurnEnd(turn, x)) /\ TurnEnd(turn, x).type # "turn.start"
    BY <1>1, <1>3 DEF Finishes, TurnEnd
  <2> QED BY <2>1, Constructed DEF May, Admits
<1>4. ASSUME Awaits(log, todo, turn), todo # <<>>, NEW x
      PROVE  May(ToolResult(turn, Head(todo), x)) /\ IsCallOf(log, Head(todo), turn)
  <2>1. IsCallOf(log, Head(todo), turn) /\ ~Answered(log, Head(todo))
    <3>1. PICK S : todo \in Seq(S)
      BY <1>4 DEF Awaits, IsSeq
    <3>2. Head(todo) = todo[1] /\ 1 \in 1..Len(todo)
      BY <1>4, <3>1, HeadTailProperties, LenProperties, EmptySeq
    <3> QED BY <1>4, <3>2 DEF Awaits
  <2>2. Answers(log, ToolResult(turn, Head(todo), x)) /\ ToolResult(turn, Head(todo), x).type # "turn.start"
    BY <1>1, <2>1 DEF Answers, ToolResult
  <2> QED BY <2>1, <2>2, Constructed DEF May, Admits
<1>5. phase = "tools" => May(ToolResult(turn, Head(todo), TRUE)) /\ IsCallOf(log, Head(todo), turn)
  BY <1>4 DEF InStep
<1>6. ASSUME Recovering PROVE May(RecoveryRecord)
  <2>1. Awaits(log, todo, turn) /\ Covers(log, todo, turn)
    BY <1>6 DEF InStep, Recovering
  <2>2. CASE todo # <<>>
    BY <1>4, <2>1, <2>2 DEF RecoveryRecord
  <2>3. CASE todo = <<>>
    <3>1. Len(todo) = 0
      BY <2>3
    <3>2. AllAnswered(log, turn)
      BY <2>1, <3>1 DEF Covers, AllAnswered
    <3> QED BY <1>3, <2>3, <3>2 DEF RecoveryRecord
  <2> QED BY <2>2, <2>3
<1> QED BY <1>2, <1>3, <1>5, <1>6

LEMMA StartMay ==
  ASSUME InStep, TurnsOf(log, rejected), phase = "start"
  PROVE  May(TurnStart(lastTurn + 1)) /\ lastTurn + 1 \in Nat /\ lastTurn + 1 # 0
<1>1. lastTurn \in Nat /\ LastTurnOf(log) <= lastTurn /\ LastTurnOf(log) \in Nat
  BY DEF InStep, TurnsOf, TurnFacts, StartsRise
<1>2. lastTurn + 1 \in Nat /\ lastTurn + 1 > LastTurnOf(log) /\ lastTurn + 1 # 0
  BY <1>1
<1>3. Begins(log, TurnStart(lastTurn + 1))
  BY <1>2 DEF Begins
<1>4. OpenTurnOf(log) # 0 => rejected > 1
  BY DEF InStep
<1> QED BY <1>2, <1>3, <1>4, Constructed DEF May, Admits

(* The actions, one after another. *)
TurnsKept == TurnsOf(log', rejected') /\ (Holding' => InStep')

LEMMA StoredKeeps ==
  ASSUME StateInv, TurnInv, ~strayed', UNCHANGED stored
  PROVE  /\ ~strayed /\ rejected' = rejected /\ log' = log /\ Exact(log)
         /\ TurnsOf(log, rejected) /\ TurnsOf(log', rejected')
         /\ Holding => InStep /\ log' = Known'
BY DEF stored, TurnInv, StateInv, InStep, Known

LEMMA OpenKeepsTurns == StateInv /\ TurnInv /\ ~strayed' /\ Open => TurnsKept
<1> SUFFICES ASSUME StateInv, TurnInv, ~strayed', Open PROVE TurnsKept
  OBVIOUS
<1> DEFINE o == OpenTurnOf(log)
<1>1. ~strayed /\ rejected' = rejected /\ log' = log /\ TurnsOf(log, rejected) /\ Exact(log)
  BY DEF Open, TurnInv, StateInv
<1>2. log' = Known'
  <2>1. SubSeq(log, 1, Len(log)) = log
    BY <1>1, FirstOf DEF Exact
  <2>2. holder'.last = Len(log)
    BY DEF Open, Opened
  <2> QED BY <1>1, <2>1, <2>2 DEF Known
<1>3. LastTurnOf(log) \in Nat /\ LastTurnOf(log) <= LastTurnOf(log)
  BY <1>1 DEF TurnsOf, TurnFacts, StartsRise
<1>4. CASE o = 0
  <2>1. phase' = "idle" /\ lastTurn' = LastTurnOf(log)
    BY <1>4 DEF Open, Leaves, Goto, LastTurnOf, OpenTurnOf
  <2>2. InStep'
    BY <1>1, <1>2, <1>3, <1>4, <2>1 DEF InStep, AtWork, Recovering
  <2> QED BY <1>1, <2>2 DEF TurnsKept
<1>5. CASE o # 0
  <2>1. phase' = "reopen" /\ turn' = o /\ todo' = Unanswered(log, o)
    BY <1>5 DEF Open, Goto, OpenTurnOf
  <2>2. Awaits(log, Unanswered(log, o), o) /\ Covers(log, Unanswered(log, o), o)
    BY <1>1, UnansweredAwaits DEF TurnsOf
  <2>3. Awaits(log', todo', turn') /\ Covers(log', todo', turn')
    BY <1>1, <2>1, <2>2
  <2>4. InStep'
    BY <1>1, <1>2, <1>5, <2>1, <2>3 DEF InStep, AtWork, Recovering
  <2> QED BY <1>1, <2>4 DEF TurnsKept
<1> QED BY <1>4, <1>5

LEMMA ReadStateKeepsTurns == StateInv /\ TurnInv /\ ~strayed' /\ ReadState => TurnsKept
<1> SUFFICES ASSUME StateInv, TurnInv, ~strayed', ReadState PROVE TurnsKept
  OBVIOUS
<1> DEFINE o == OpenTurnOf(log)
<1>1. /\ rejected' = rejected /\ log' = log /\ TurnsOf(log, rejected) /\ Exact(log)
      /\ TurnsOf(log', rejected') /\ InStep /\ log' = Known'
  BY StoredKeeps DEF ReadState, Holding
<1>2. phase = "idle" /\ lastTurn' = lastTurn /\ lastTurn \in Nat /\ LastTurnOf(log) <= lastTurn
      /\ (o # 0 => rejected > 0)
  BY <1>1 DEF ReadState, InStep, agent
<1>3. CASE o = 0
  <2>1. phase' = "start"
    BY <1>3 DEF ReadState, Goto, OpenTurnOf
  <2>2. InStep'
    BY <1>1, <1>2, <1>3, <2>1 DEF InStep, AtWork, Recovering
  <2> QED BY <1>1, <2>2 DEF TurnsKept
<1>4. CASE o # 0
  <2>1. phase' = "heal" /\ turn' = o /\ todo' = Unanswered(log, o)
    BY <1>4 DEF ReadState, Goto, OpenTurnOf
  <2>2. Awaits(log, Unanswered(log, o), o) /\ Covers(log, Unanswered(log, o), o)
    BY <1>1, UnansweredAwaits DEF TurnsOf
  <2>3. Awaits(log', todo', turn') /\ Covers(log', todo', turn')
    BY <1>1, <2>1, <2>2
  <2>4. InStep'
    BY <1>1, <1>2, <1>4, <2>1, <2>3 DEF InStep, AtWork, Recovering
  <2> QED BY <1>1, <2>4 DEF TurnsKept
<1> QED BY <1>3, <1>4

LEMMA RecoveryKeepsTurns == StateInv /\ TurnInv /\ ~strayed' /\ (AnswerCall \/ CloseTurn \/ RecoveryFails) => TurnsKept
<1> SUFFICES ASSUME StateInv, TurnInv, ~strayed', AnswerCall \/ CloseTurn \/ RecoveryFails PROVE TurnsKept
  OBVIOUS
<1> DEFINE r == RecoveryRecord
<1>1. Recovering /\ Holding /\ AtWork /\ ~strayed
  <2>1. Recovering /\ (Appends(r) \/ Rejects(r))
    BY DEF AnswerCall, CloseTurn, RecoveryFails
  <2> QED BY <2>1, StrayedStays DEF Recovering, Holding, AtWork
<1>2. InStep /\ TurnsOf(log, rejected) /\ rejected \in Nat
  BY <1>1 DEF TurnInv
<1>3. May(r)
  BY <1>1, <1>2, WorkMay
<1>4. /\ Awaits(log, todo, turn) /\ Covers(log, todo, turn) /\ turn = OpenTurnOf(log) /\ turn # 0
      /\ phase = "heal" => rejected > 0 /\ lastTurn \in Nat /\ LastTurnOf(log) <= lastTurn
  BY <1>1, <1>2 DEF InStep, Recovering
<1>5. CASE AnswerCall
  <2>1. todo # <<>> /\ Appends(r) /\ todo' = Tail(todo) /\ phase' = phase /\ lastTurn' = lastTurn /\ turn' = turn
    BY <1>5 DEF AnswerCall
  <2>2. r.type = "tool.result" /\ r.call = Head(todo)
    BY <2>1 DEF RecoveryRecord, ToolResult
  <2>3. rejected' = rejected /\ TurnsOf(log', rejected) /\ Grew(log, r, log') /\ log' = Known'
    BY <1>1, <1>3, <2>1, AppendsGrows
  <2> HIDE DEF r
  <2>4. Awaits(log', todo', turn') /\ Covers(log', todo', turn')
    BY <1>4, <2>1, <2>2, <2>3, FirstIsAnswered
  <2>5. LastTurnOf(log') = LastTurnOf(log) /\ OpenTurnOf(log') = OpenTurnOf(log)
    BY <2>2, <2>3 DEF Grew
  <2>6. InStep'
    BY <1>1, <1>4, <2>1, <2>3, <2>4, <2>5 DEF InStep, AtWork, Recovering
  <2> QED BY <2>3, <2>6 DEF TurnsKept
<1>6. CASE CloseTurn
  <2>1. todo = <<>> /\ Appends(r) /\ phase' = IF phase = "reopen" THEN "idle" ELSE "start"
    BY <1>1, <1>6 DEF CloseTurn, Leaves, Goto
  <2>2. r.type = "turn.end"
    BY <2>1 DEF RecoveryRecord, TurnEnd
  <2>3. /\ rejected' = rejected /\ TurnsOf(log', rejected) /\ Grew(log, r, log') /\ log' = Known'
        /\ holder'.state = Load(log').state
    BY <1>1, <1>3, <2>1, AppendsGrows
  <2>4. lastTurn' = IF phase = "reopen" THEN LastTurnOf(log') ELSE lastTurn
    BY <1>6, <2>3 DEF CloseTurn, LastTurnOf
  <2> HIDE DEF r
  <2>5. LastTurnOf(log') = LastTurnOf(log) /\ OpenTurnOf(log') = 0 /\ LastTurnOf(log) \in Nat
    BY <1>2, <2>2, <2>3 DEF Grew, TurnsOf, TurnFacts, StartsRise
  <2>6. InStep'
    BY <1>1, <1>4, <2>1, <2>3, <2>4, <2>5 DEF InStep, AtWork, Recovering
  <2> QED BY <2>3, <2>6 DEF TurnsKept
<1>7. CASE RecoveryFails
  <2>1. Rejects(r) /\ phase' = (IF phase = "reopen" THEN "leave" ELSE "start") /\ lastTurn' = lastTurn
    BY <1>7 DEF RecoveryFails, Leaves, Goto
  <2>2. /\ rejected' = rejected + 1 /\ TurnsOf(log', rejected') /\ log' = Known'
        /\ log' = log \/ (r.type = "turn.end" /\ Grew(log, r, log'))
    BY <1>1, <1>3, <2>1, RejectsGrows
  <2> HIDE DEF r
  <2>3. LastTurnOf(log') = LastTurnOf(log)
    BY <2>2 DEF Grew
  <2>4. InStep'
    BY <1>1, <1>2, <1>4, <2>1, <2>2, <2>3 DEF InStep, AtWork, Recovering
  <2> QED BY <2>2, <2>4 DEF TurnsKept
<1> QED BY <1>5, <1>6, <1>7

LEMMA StartKeepsTurns == StateInv /\ TurnInv /\ ~strayed' /\ (StartTurn \/ StartFails) => TurnsKept
<1> SUFFICES ASSUME StateInv, TurnInv, ~strayed', StartTurn \/ StartFails PROVE TurnsKept
  OBVIOUS
<1> DEFINE r == TurnStart(lastTurn + 1)
<1>1. phase = "start" /\ Holding /\ ~strayed /\ lastTurn' = lastTurn + 1
  <2>1. phase = "start" /\ lastTurn' = lastTurn + 1 /\ (Appends(r) \/ Rejects(r))
    BY DEF StartTurn, StartFails
  <2> QED BY <2>1, StrayedStays DEF Holding
<1>2. InStep /\ TurnsOf(log, rejected) /\ rejected \in Nat
  BY <1>1 DEF TurnInv
<1>3. May(r) /\ lastTurn + 1 \in Nat /\ lastTurn + 1 # 0 /\ lastTurn + 1 <= lastTurn + 1
  BY <1>1, <1>2, StartMay
<1>4. r.type = "turn.start" /\ r.turn = lastTurn + 1
  BY DEF TurnStart
<1>5. CASE StartTurn
  <2>1. Appends(r) /\ phase' = "ask" /\ turn' = lastTurn + 1
    BY <1>5 DEF StartTurn, Goto
  <2>2. rejected' = rejected /\ TurnsOf(log', rejected) /\ Grew(log, r, log') /\ log' = Known'
    BY <1>1, <1>3, <2>1, AppendsGrows
  <2> HIDE DEF r
  <2>3. LastTurnOf(log') = lastTurn + 1 /\ OpenTurnOf(log') = lastTurn + 1
    BY <1>4, <2>2 DEF Grew
  <2>4. InStep'
    BY <1>1, <1>3, <2>1, <2>2, <2>3 DEF InStep, AtWork, Recovering
  <2> QED BY <2>2, <2>4 DEF TurnsKept
<1>6. CASE StartFails
  <2>1. Rejects(r) /\ phase' = "idle"
    BY <1>6 DEF StartFails, Leaves, Goto
  <2>2. rejected' = rejected + 1 /\ TurnsOf(log', rejected') /\ log' = Known' /\ log' = log
    BY <1>1, <1>3, <1>4, <2>1, RejectsGrows
  <2>3. LastTurnOf(log) \in Nat /\ LastTurnOf(log) <= lastTurn /\ lastTurn \in Nat
    BY <1>1, <1>2 DEF InStep, TurnsOf, TurnFacts, StartsRise
  <2>4. LastTurnOf(log') <= lastTurn + 1 /\ rejected' > 0
    BY <1>2, <2>2, <2>3
  <2>5. InStep'
    BY <1>1, <1>3, <2>1, <2>2, <2>4 DEF InStep, AtWork, Recovering
  <2> QED BY <2>2, <2>5 DEF TurnsKept
<1> QED BY <1>5, <1>6

LEMMA StaysInTurn ==
  ASSUME InStep, phase \in {"ask", "top", "send", "tools", "end"}, log' = Known',
         LastTurnOf(log') = LastTurnOf(log), OpenTurnOf(log') = OpenTurnOf(log),
         lastTurn' = lastTurn, turn' = turn, phase' \in {"top", "send", "end"}
  PROVE  InStep'
<1>1. turn = OpenTurnOf(log) /\ turn # 0 /\ lastTurn \in Nat /\ LastTurnOf(log) <= lastTurn
  BY DEF InStep, AtWork
<1> QED BY <1>1 DEF InStep, AtWork, Recovering

(* An append that resolves, in a turn that goes on. *)
LEMMA TurnGoesOn ==
  ASSUME StateInv, TurnInv, ~strayed', phase \in {"ask", "top", "send", "tools", "end"}, NEW r,
         r.type \notin {"turn.start", "turn.end"}, InStep => May(r), Appends(r), lastTurn' = lastTurn, turn' = turn
  PROVE  /\ TurnsOf(log', rejected') /\ InStep /\ Grew(log, r, log') /\ log' = Known'
         /\ turn = OpenTurnOf(log') /\ turn # 0 /\ lastTurn \in Nat /\ LastTurnOf(log') <= lastTurn
         /\ phase' \in {"top", "send", "end"} => InStep'
<1>1. Holding /\ ~strayed /\ AtWork
  BY StrayedStays DEF Holding, AtWork
<1>2. InStep
  BY <1>1 DEF TurnInv
<1>3. rejected' = rejected /\ TurnsOf(log', rejected) /\ Grew(log, r, log') /\ log' = Known'
  BY <1>1, <1>2, AppendsGrows
<1>4. LastTurnOf(log') = LastTurnOf(log) /\ OpenTurnOf(log') = OpenTurnOf(log)
  BY <1>3 DEF Grew
<1>5. turn = OpenTurnOf(log) /\ turn # 0 /\ lastTurn \in Nat /\ LastTurnOf(log) <= lastTurn
  BY <1>1, <1>2 DEF InStep, AtWork
<1> QED BY <1>2, <1>3, <1>4, <1>5, StaysInTurn

(* One that does not: the turn is over, or ends next. *)
LEMMA TurnFails ==
  ASSUME StateInv, TurnInv, ~strayed', phase \in {"ask", "top", "send", "tools", "end"}, NEW r,
         r.type # "turn.start", InStep => May(r), Rejects(r), lastTurn' = lastTurn,
         \/ phase' = "idle"
         \/ phase' \in {"send", "end"} /\ turn' = turn /\ r.type # "turn.end"
  PROVE  TurnsKept
<1>1. Holding /\ ~strayed /\ AtWork
  BY StrayedStays DEF Holding, AtWork
<1>2. InStep /\ rejected \in Nat
  BY <1>1 DEF TurnInv
<1>3. /\ rejected' = rejected + 1 /\ TurnsOf(log', rejected') /\ log' = Known'
      /\ log' = log \/ (r.type = "turn.end" /\ Grew(log, r, log'))
  BY <1>1, <1>2, RejectsGrows
<1>4. lastTurn \in Nat /\ LastTurnOf(log) <= lastTurn
  BY <1>1, <1>2 DEF InStep, AtWork
<1>5. CASE phase' = "idle"
  <2>1. LastTurnOf(log') = LastTurnOf(log)
    BY <1>3 DEF Grew
  <2>2. InStep'
    BY <1>2, <1>3, <1>4, <1>5, <2>1 DEF InStep, AtWork, Recovering
  <2> QED BY <1>3, <2>2 DEF TurnsKept
<1>6. CASE phase' \in {"send", "end"} /\ turn' = turn /\ r.type # "turn.end"
  <2>1. log' = log
    BY <1>3, <1>6
  <2>2. InStep'
    BY <1>2, <1>3, <1>6, <2>1, StaysInTurn
  <2> QED BY <1>3, <2>2 DEF TurnsKept
<1> QED BY <1>5, <1>6

LEMMA AskKeepsTurns == StateInv /\ TurnInv /\ ~strayed' /\ (Ask \/ AskFails) => TurnsKept
<1> SUFFICES ASSUME StateInv, TurnInv, ~strayed', Ask \/ AskFails PROVE TurnsKept
  OBVIOUS
<1> DEFINE r == UserMessage(turn)
<1>1. phase = "ask" /\ lastTurn' = lastTurn
  BY DEF Ask, AskFails
<1>2. InStep => May(r)
  BY <1>1, NeutralMay DEF Holding
<1>3. r.type = "user.message"
  BY DEF UserMessage
<1>4. CASE Ask
  <2>1. Appends(r) /\ phase' = "top" /\ turn' = turn
    BY <1>4 DEF Ask, Says, Goto
  <2> HIDE DEF r
  <2> QED BY <1>1, <1>2, <1>3, <2>1, TurnGoesOn DEF TurnsKept
<1>5. CASE AskFails
  <2>1. Rejects(r) /\ phase' = "idle"
    BY <1>5 DEF AskFails, Leaves, Goto
  <2> HIDE DEF r
  <2> QED BY <1>1, <1>2, <1>3, <2>1, TurnFails
<1> QED BY <1>4, <1>5

LEMMA SteerKeepsTurns == StateInv /\ TurnInv /\ ~strayed' /\ (Steer \/ SteerFails) => TurnsKept
<1> SUFFICES ASSUME StateInv, TurnInv, ~strayed', Steer \/ SteerFails PROVE TurnsKept
  OBVIOUS
<1> DEFINE r == UserMessage(turn)
<1>1. phase \in {"top", "send", "end"} /\ lastTurn' = lastTurn /\ turn' = turn
  BY DEF Steer, SteerFails, Drains, agent
<1>2. InStep => May(r)
  BY <1>1, NeutralMay DEF Holding
<1>3. r.type = "user.message"
  BY DEF UserMessage
<1>4. CASE Steer
  <2>1. Appends(r) /\ phase' \in {"end", "send"}
    BY <1>4 DEF Steer, Says, Goto
  <2> HIDE DEF r
  <2> QED BY <1>1, <1>2, <1>3, <2>1, TurnGoesOn DEF TurnsKept
<1>5. CASE SteerFails
  <2>1. Rejects(r) /\ phase' = "end"
    BY <1>5 DEF SteerFails, Goto
  <2> HIDE DEF r
  <2> QED BY <1>1, <1>2, <1>3, <2>1, TurnFails
<1> QED BY <1>4, <1>5

(* Nothing is written, and the turn goes on. *)
LEMMA NothingKeepsTurns ==
  ASSUME StateInv, TurnInv, ~strayed', phase \in {"ask", "top", "send", "tools", "end"}, UNCHANGED stored,
         UNCHANGED agent, phase' \in {"send", "end"}
  PROVE  TurnsKept
<1>1. Holding
  BY DEF Holding
<1>2. rejected' = rejected /\ log' = log /\ TurnsOf(log', rejected') /\ InStep /\ log' = Known'
  BY <1>1, StoredKeeps
<1>3. InStep'
  BY <1>2, StaysInTurn DEF agent
<1> QED BY <1>2, <1>3 DEF TurnsKept

LEMMA CompactKeepsTurns == StateInv /\ TurnInv /\ ~strayed' /\ (Compact \/ CompactFails) => TurnsKept
<1> SUFFICES ASSUME StateInv, TurnInv, ~strayed', Compact \/ CompactFails PROVE TurnsKept
  OBVIOUS
<1>1. phase = "top" /\ lastTurn' = lastTurn /\ turn' = turn /\ phase' \in {"send", "end"}
  BY DEF Compact, CompactFails, Goto, agent
<1>2. ASSUME NEW k, CompactionFits(holder.state.messages, k), InStep PROVE May(Compaction(turn, k))
  BY <1>1, <1>2, NeutralMay DEF Holding
<1>3. \A k : Compaction(turn, k).type = "compaction"
  BY DEF Compaction
<1>4. CASE Compact
  <2>1. PICK k : CompactionFits(holder.state.messages, k) /\ Appends(Compaction(turn, k))
    BY <1>4 DEF Compact
  <2> DEFINE r == Compaction(turn, k)
  <2>2. Appends(r) /\ r.type = "compaction" /\ (InStep => May(r))
    BY <1>2, <1>3, <2>1
  <2> HIDE DEF r
  <2> QED BY <1>1, <2>2, TurnGoesOn DEF TurnsKept
<1>5. CASE CompactFails
  <2>1. CASE UNCHANGED stored
    BY <1>1, <1>5, <2>1, NothingKeepsTurns DEF CompactFails
  <2>2. CASE \E k : CompactionFits(holder.state.messages, k) /\ Rejects(Compaction(turn, k))
    <3>1. PICK k : CompactionFits(holder.state.messages, k) /\ Rejects(Compaction(turn, k))
      BY <2>2
    <3> DEFINE r == Compaction(turn, k)
    <3>2. Rejects(r) /\ r.type = "compaction" /\ (InStep => May(r))
      BY <1>2, <1>3, <3>1
    <3> HIDE DEF r
    <3> QED BY <1>1, <3>2, TurnFails
  <2> QED BY <1>5, <2>1, <2>2 DEF CompactFails
<1> QED BY <1>4, <1>5

LEMMA ReplyKeepsTurns == StateInv /\ TurnInv /\ ~strayed' /\ (Reply \/ ReplyFails \/ NoReply) => TurnsKept
<1> SUFFICES ASSUME StateInv, TurnInv, ~strayed', Reply \/ ReplyFails \/ NoReply PROVE TurnsKept
  OBVIOUS
<1>1. phase \in {"top", "send"} /\ lastTurn' = lastTurn /\ turn' = turn
  BY DEF Reply, ReplyFails, NoReply, Requesting, agent
<1>2. \A n \in 0..MaxCalls : n \in Nat
  BY NumbersAssumption
<1>3. ASSUME NEW n \in Nat, NEW x, InStep PROVE May(AssistantMessage(turn, n, x))
  BY <1>1, <1>3, WorkMay DEF AtWork
<1>4. \A n, x : AssistantMessage(turn, n, x).type = "assistant.message"
  BY DEF AssistantMessage
<1>5. CASE Reply
  <2>1. PICK n \in 0..MaxCalls, x \in BOOLEAN :
          /\ Appends(AssistantMessage(turn, n, x))
          /\ \/ phase' = "end"
             \/ phase' \in {"top", "end"}
             \/ n > 0 /\ phase' = "tools" /\ todo' = CallsOf(holder.last + 1, n)
    BY <1>5 DEF Reply, Says, Goto, NextStep
  <2> DEFINE r == AssistantMessage(turn, n, x)
  <2>2. Appends(r) /\ r.type = "assistant.message" /\ (InStep => May(r)) /\ n \in Nat
    BY <1>2, <1>3, <1>4, <2>1
  <2> HIDE DEF r
  <2>3. /\ TurnsOf(log', rejected') /\ InStep /\ Grew(log, r, log') /\ log' = Known'
        /\ turn = OpenTurnOf(log') /\ turn # 0 /\ lastTurn \in Nat /\ LastTurnOf(log') <= lastTurn
        /\ phase' \in {"top", "send", "end"} => InStep'
    BY <1>1, <2>2, TurnGoesOn
  <2>4. CASE phase' \in {"top", "end"}
    BY <2>3, <2>4 DEF TurnsKept
  <2>5. CASE n > 0 /\ phase' = "tools" /\ todo' = CallsOf(holder.last + 1, n)
    <3>1. Exact(log) /\ TurnFacts(log) /\ holder.last = Len(log)
      <4>1. Holding /\ ~strayed
        BY <1>1, <2>2, StrayedStays DEF Holding
      <4> QED BY <2>3, <4>1 DEF StateInv, Held, TurnInv, TurnsOf, InStep, Opened
    <3>2. Awaits(log', CallsOf(Len(log) + 1, n), turn) /\ CallsOf(Len(log) + 1, n) # <<>>
      BY <2>2, <2>3, <2>5, <3>1, ReplyAwaits DEF r
    <3>3. Awaits(log', todo', turn') /\ todo' # <<>>
      BY <1>1, <2>5, <3>1, <3>2
    <3>4. InStep'
      BY <1>1, <2>3, <2>5, <3>3 DEF InStep, AtWork, Recovering
    <3> QED BY <2>3, <3>4 DEF TurnsKept
  <2> QED BY <2>1, <2>4, <2>5
<1>6. CASE ReplyFails
  <2>1. PICK n \in 0..MaxCalls, x \in BOOLEAN : Rejects(AssistantMessage(turn, n, x))
    BY <1>6 DEF ReplyFails
  <2> DEFINE r == AssistantMessage(turn, n, x)
  <2>2. Rejects(r) /\ r.type = "assistant.message" /\ (InStep => May(r)) /\ phase' = "end"
    BY <1>2, <1>3, <1>4, <1>6, <2>1 DEF ReplyFails, Goto
  <2> HIDE DEF r
  <2> QED BY <1>1, <2>2, TurnFails
<1>7. CASE NoReply
  BY <1>1, <1>7, NothingKeepsTurns DEF NoReply, Goto
<1> QED BY <1>5, <1>6, <1>7

LEMMA ResultKeepsTurns == StateInv /\ TurnInv /\ ~strayed' /\ (Result \/ ResultFails) => TurnsKept
<1> SUFFICES ASSUME StateInv, TurnInv, ~strayed', Result \/ ResultFails PROVE TurnsKept
  OBVIOUS
<1> DEFINE r == ToolResult(turn, Head(todo), TRUE)
<1>1. phase = "tools" /\ lastTurn' = lastTurn /\ turn' = turn
  BY DEF Result, ResultFails
<1>2. InStep => May(r)
  BY <1>1, WorkMay DEF AtWork
<1>3. r.type = "tool.result" /\ r.call = Head(todo)
  BY DEF ToolResult
<1>4. CASE Result
  <2>1. /\ Appends(r) /\ todo' = Tail(todo)
        /\ IF Len(todo) > 1 THEN phase' = "tools" ELSE phase' \in {"top", "end"}
    BY <1>4 DEF Result, Says, Goto, NextStep
  <2> HIDE DEF r
  <2>2. /\ TurnsOf(log', rejected') /\ InStep /\ Grew(log, r, log') /\ log' = Known'
        /\ turn = OpenTurnOf(log') /\ turn # 0 /\ lastTurn \in Nat /\ LastTurnOf(log') <= lastTurn
        /\ phase' \in {"top", "send", "end"} => InStep'
    BY <1>1, <1>2, <1>3, <2>1, TurnGoesOn
  <2>3. CASE Len(todo) > 1
    <3>1. Awaits(log, todo, turn) /\ todo # <<>>
      BY <1>1, <2>2 DEF InStep
    <3>2. Awaits(log', todo', turn') /\ todo' # <<>>
      BY <1>1, <1>3, <2>1, <2>2, <2>3, <3>1, FirstIsAnswered
    <3>3. InStep'
      BY <1>1, <2>1, <2>2, <2>3, <3>2 DEF InStep, AtWork, Recovering
    <3> QED BY <2>2, <3>3 DEF TurnsKept
  <2>4. CASE ~(Len(todo) > 1)
    BY <2>1, <2>2, <2>4 DEF TurnsKept
  <2> QED BY <2>3, <2>4
<1>5. CASE ResultFails
  <2>1. Rejects(r) /\ phase' = "end"
    BY <1>5 DEF ResultFails, Goto
  <2> HIDE DEF r
  <2> QED BY <1>1, <1>2, <1>3, <2>1, TurnFails
<1> QED BY <1>4, <1>5

LEMMA EndKeepsTurns == StateInv /\ TurnInv /\ ~strayed' /\ (EndTurn \/ EndFails) => TurnsKept
<1> SUFFICES ASSUME StateInv, TurnInv, ~strayed', EndTurn \/ EndFails PROVE TurnsKept
  OBVIOUS
<1> DEFINE r == TurnEnd(turn, "ended")
<1>1. phase = "end" /\ lastTurn' = lastTurn /\ phase' = "idle"
  BY DEF EndTurn, EndFails, Leaves, Goto
<1>2. InStep => May(r)
  BY <1>1, WorkMay DEF AtWork
<1>3. r.type = "turn.end"
  BY DEF TurnEnd
<1>4. CASE EndTurn
  <2>1. Appends(r) /\ Holding
    BY <1>1, <1>4 DEF EndTurn, Holding
  <2> HIDE DEF r
  <2>2. InStep
    BY <2>1, StrayedStays DEF TurnInv
  <2>3. rejected' = rejected /\ TurnsOf(log', rejected) /\ Grew(log, r, log') /\ log' = Known'
    BY <1>2, <2>1, <2>2, AppendsGrows
  <2>4. LastTurnOf(log') = LastTurnOf(log) /\ OpenTurnOf(log') = 0 /\ lastTurn \in Nat /\ LastTurnOf(log) <= lastTurn
    BY <1>1, <1>3, <2>2, <2>3 DEF Grew, InStep
  <2>5. InStep'
    BY <1>1, <2>3, <2>4 DEF InStep, AtWork, Recovering
  <2> QED BY <2>3, <2>5 DEF TurnsKept
<1>5. CASE EndFails
  <2>1. Rejects(r)
    BY <1>5 DEF EndFails
  <2> HIDE DEF r
  <2> QED BY <1>1, <1>2, <1>3, <2>1, TurnFails
<1> QED BY <1>4, <1>5

(* The holder is gone: released, or killed in the middle of an append. *)
LEMMA LeavingKeepsTurns == StateInv /\ TurnInv /\ ~strayed' /\ (Releases \/ ReleaseFails \/ Killed) => TurnsKept
<1> SUFFICES ASSUME StateInv, TurnInv, ~strayed', Releases \/ ReleaseFails \/ Killed PROVE TurnsKept
  OBVIOUS
<1>1. Holding /\ ~strayed /\ ~Holding'
  BY DEF Releases, ReleaseFails, Killed, Closes, Goto, Holding
<1>2. InStep /\ log = Known /\ TurnsOf(log, rejected) /\ Exact(log) /\ rejected \in Nat
  BY <1>1 DEF TurnInv, StateInv, InStep
<1>3. ASSUME NEW r, May(r) PROVE TurnsOf(Append(log, r), rejected)
  BY <1>2, <1>3, MayKeepsTurns
<1>4. May(CheckpointOf(holder)) /\ \A t : May(UserMessage(t))
  BY <1>1, <1>2, NeutralMay
<1>5. \A p : TurnsOf(p, rejected) => TurnsOf(p, rejected + 1)
  BY <1>2 DEF TurnsOf
<1>6. CASE Releases \/ ReleaseFails
  <2>1. TurnsOf(log', rejected)
    BY <1>2, <1>3, <1>4, <1>6 DEF Releases, ReleaseFails
  <2>2. rejected' = rejected \/ rejected' = rejected + 1
    BY <1>6 DEF Releases, ReleaseFails
  <2> QED BY <1>1, <1>5, <2>1, <2>2 DEF TurnsKept
<1>7. CASE Killed
  <2>1. rejected' = rejected /\ (log' = log \/ \E r \in UnderWay : log' = Append(log, r))
    BY <1>2, <1>7 DEF Killed
  <2>2. ASSUME NEW r \in UnderWay PROVE May(r)
    <3>1. \A x \in Steers : May(x)
      BY <1>4 DEF Steers
    <3>2. CASE Recovering
      <4>1. May(RecoveryRecord)
        BY <1>2, <3>2, WorkMay DEF AtWork, Recovering
      <4>2. phase \notin {"start", "ask", "top", "send", "tools", "end"}
        BY <3>2 DEF Recovering
      <4>3. UnderWay = {RecoveryRecord}
        BY <3>2, <4>2 DEF UnderWay
      <4> QED BY <4>1, <4>3
    <3>3. CASE phase = "start"
      <4>1. May(TurnStart(lastTurn + 1)) /\ ~Recovering
        BY <1>2, <3>3, StartMay DEF Recovering
      <4> QED BY <3>3, <4>1 DEF UnderWay
    <3>4. CASE phase = "ask"
      <4>1. ~Recovering
        BY <3>4 DEF Recovering
      <4> QED BY <1>4, <3>4, <4>1 DEF UnderWay
    <3>5. CASE phase \in {"top", "send"}
      <4>1. ~Recovering /\ AtWork
        BY <3>5 DEF Recovering, AtWork
      <4>2. \A n \in 0..MaxCalls : May(AssistantMessage(turn, n, TRUE))
        <5>1. 0..MaxCalls \subseteq Nat
          BY NumbersAssumption
        <5>2. \A n \in Nat : \A x : May(AssistantMessage(turn, n, x))
          BY <1>2, <4>1, WorkMay
        <5> QED BY <5>1, <5>2
      <4>3. \A c : CompactionFits(holder.state.messages, Kept(c)) => May(Compaction(turn, Kept(c)))
        BY <1>1, <1>2, NeutralMay
      <4>4. \/ r \in Steers
            \/ \E n \in 0..MaxCalls : r = AssistantMessage(turn, n, TRUE)
            \/ \E c : CompactionFits(holder.state.messages, Kept(c)) /\ r = Compaction(turn, Kept(c))
        BY <3>5, <4>1 DEF UnderWay
      <4> QED BY <3>1, <4>2, <4>3, <4>4
    <3>6. CASE phase = "tools"
      <4>1. ~Recovering /\ AtWork
        BY <3>6 DEF Recovering, AtWork
      <4>2. May(ToolResult(turn, Head(todo), TRUE))
        BY <1>2, <3>6, <4>1, WorkMay
      <4> QED BY <3>6, <4>1, <4>2 DEF UnderWay
    <3>7. CASE phase = "end"
      <4>1. ~Recovering /\ AtWork
        BY <3>7 DEF Recovering, AtWork
      <4>2. May(TurnEnd(turn, "ended"))
        BY <1>2, <4>1, WorkMay
      <4> QED BY <3>1, <3>7, <4>1, <4>2 DEF UnderWay
    <3>8. CASE phase \notin {"reopen", "heal", "start", "ask", "top", "send", "tools", "end"}
      <4>1. ~Recovering
        BY <3>8 DEF Recovering
      <4> QED BY <1>4, <3>8, <4>1 DEF UnderWay
    <3> QED BY <3>2, <3>3, <3>4, <3>5, <3>6, <3>7, <3>8 DEF Recovering
  <2>3. TurnsOf(log', rejected')
    BY <1>2, <1>3, <2>1, <2>2
  <2> QED BY <1>1, <2>3 DEF TurnsKept
<1> QED BY <1>6, <1>7

LEMMA TurnsInitially == StateInit => TurnInv
<1> SUFFICES ASSUME StateInit PROVE TurnInv
  OBVIOUS
<1>1. log = <<SessionStart>> /\ phase = "idle" /\ lastTurn = 0 /\ rejected = 0 /\ holder = Opened(log)
  BY DEF StateInit
<1>2. Exact(log) /\ IsSeq(log) /\ Len(log) = 1 /\ log[1].type = "session.start"
  BY <1>1, StateInitially DEF StateInv, Exact, SessionStart
<1>3. Load(log).state = InitialState
  <2>1. Len(Masked(log)) = 1 /\ Len(Masked(log)) \in Nat
    BY <1>2, MaskedIsSeq
  <2>2. Replay(InitialState, Masked(log), Len(Masked(log))) = InitialState
    BY <2>1, ReplayOfNothing
  <2> QED BY <1>2, <2>1, <2>2, FoldedIsReplay DEF Exact
<1>4. LastTurnOf(log) = 0 /\ OpenTurnOf(log) = 0
  BY <1>3 DEF LastTurnOf, OpenTurnOf, InitialState
<1>5. \A type : type # "session.start" => PlacesOf(log, type) = {}
  BY <1>2 DEF PlacesOf
<1>6. TurnFacts(log)
  BY <1>4, <1>5 DEF TurnFacts, StartsRise, StartedBefore, EndsOnce, CallsCounted, ResultsOfCalls, RecoveredAnswered
<1>7. Apart(log)
  BY <1>5 DEF Apart
<1>8. log = Known
  BY <1>1, <1>2, FirstOf DEF Known, Opened
<1>9. InStep
  BY <1>1, <1>4, <1>8 DEF InStep, AtWork, Recovering
<1> QED BY <1>1, <1>6, <1>7, <1>9 DEF TurnInv, TurnsOf

LEMMA TurnsStep == StateInv /\ TurnInv /\ [StateNext]_stateVars => TurnInv'
<1> SUFFICES ASSUME StateInv, TurnInv, [StateNext]_stateVars PROVE TurnInv'
  OBVIOUS
<1>1. rejected' \in Nat
  <2>1. UNCHANGED rejected \/ rejected' = rejected + 1
    <3>1. \A r : Appends(r) => UNCHANGED rejected
      BY DEF Appends
    <3>2. \A r : Rejects(r) => rejected' = rejected + 1
      BY DEF Rejects
    <3>3. CASE StateNext
      BY <3>1, <3>2, <3>3
         DEF StateNext, Open, ReadState, AnswerCall, CloseTurn, RecoveryFails, StartTurn, StartFails, Ask, AskFails,
             Compact, CompactFails, Steer, SteerFails, Reply, ReplyFails, NoReply, Result, ResultFails, EndTurn,
             EndFails, Releases, ReleaseFails, Killed, Says, stored
    <3>4. CASE UNCHANGED stateVars
      BY <3>4 DEF stateVars, stored
    <3> QED BY <3>3, <3>4
  <2> QED BY <2>1 DEF TurnInv
<1>2. ASSUME ~strayed' PROVE TurnsKept
  <2>1. CASE UNCHANGED stateVars
    <3>1. UNCHANGED <<log, holder, rejected, strayed, phase, lastTurn, turn, todo>>
      BY <2>1 DEF stateVars, stored, agent
    <3>2. TurnsOf(log, rejected) /\ (Holding => InStep)
      BY <1>2, <3>1 DEF TurnInv
    <3>3. TurnsOf(log', rejected') /\ (Holding' => Holding)
      BY <3>1, <3>2 DEF Holding
    <3>4. InStep => InStep'
      BY <3>1 DEF InStep, AtWork, Recovering, Known
    <3> QED BY <3>2, <3>3, <3>4 DEF TurnsKept
  <2>2. CASE StateNext
    BY <1>2, <2>2, OpenKeepsTurns, ReadStateKeepsTurns, RecoveryKeepsTurns, StartKeepsTurns, AskKeepsTurns,
       CompactKeepsTurns, SteerKeepsTurns, ReplyKeepsTurns, ResultKeepsTurns, EndKeepsTurns, LeavingKeepsTurns
       DEF StateNext
  <2> QED BY <2>1, <2>2
<1> QED BY <1>1, <1>2 DEF TurnInv, TurnsKept

(* Whichever appends fail and whoever dies in a turn or in its recovery,   *)
(* the turn that runs is the open one, and its calls wait for one result.  *)
THEOREM TurnInvariant == StateSpec => []TurnInv
<1>1. StateSpec => []StateInv
  BY StateInvariant
<1> QED BY <1>1, TurnsInitially, TurnsStep, PTL DEF StateSpec

LEMMA FactsAddUp ==
  ASSUME Exact(log), TurnFacts(log)
  PROVE  ResultsMatchCalls /\ RecoveredTurnsAnswered /\ TurnsEndOnce
<1> DEFINE P(type) == PlacesOf(log, type)
<1>1. IsSeq(log) /\ Len(log) \in Nat /\ Len(log) >= 1
  BY FirstOf DEF Exact
<1>2. ResultsMatchCalls
  <2> SUFFICES ASSUME NEW i \in Places, IsA(i, "tool.result")
               PROVE  /\ log[i].call[1] < i /\ IsA(log[i].call[1], "assistant.message")
                      /\ log[log[i].call[1]].turn = log[i].turn
                      /\ log[i].call[2] \in 1..log[log[i].call[1]].calls
                      /\ \A j \in 1..i - 1 : IsA(j, "tool.result") => log[j].call # log[i].call
    BY DEF ResultsMatchCalls
  <2>1. i \in P("tool.result")
    BY DEF PlacesOf, Places, IsA
  <2>2. PICK m \in P("assistant.message") :
          log[m].turn = log[i].turn /\ \E k \in 1..log[m].calls : log[i].call = <<m, k>>
    BY <2>1 DEF TurnFacts, ResultsOfCalls, IsCallOf
  <2>3. PICK k \in 1..log[m].calls : log[i].call = <<m, k>>
    BY <2>2
  <2>4. log[i].call[1] = m /\ log[i].call[2] = k
    BY <2>3
  <2>5. log[i].call[1] < i /\ \A j \in P("tool.result") : j # i => log[j].call # log[i].call
    BY <2>1 DEF TurnFacts, ResultsOfCalls
  <2>6. \A j \in 1..i - 1 : IsA(j, "tool.result") => j \in P("tool.result") /\ j # i
    BY <1>1 DEF PlacesOf, IsA, Places
  <2>7. IsA(m, "assistant.message")
    BY <2>2 DEF PlacesOf, IsA
  <2> QED BY <2>2, <2>4, <2>5, <2>6, <2>7
<1>3. RecoveredTurnsAnswered
  <2> SUFFICES ASSUME NEW i \in Places, IsA(i, "turn.end"), log[i].reason = "interrupted",
                      NEW k \in 1..Len(TurnCalls(log, log[i].turn))
               PROVE  Answered(SubSeq(log, 1, i), TurnCalls(log, log[i].turn)[k])
    BY DEF RecoveredTurnsAnswered
  <2> DEFINE t == log[i].turn
             c == TurnCalls(log, t)[k]
  <2>1. i \in P("turn.end") /\ i \in 1..Len(log)
    BY DEF PlacesOf, IsA, Places
  <2>2. \A m \in RepliesOf(log, t) : m \in P("assistant.message") /\ log[m].turn = t
    BY DEF RepliesOf, PlacesOf
  <2>3. ListsCalls(TurnCalls(log, t), log, t, Len(log))
    <3>1. \A m \in RepliesOf(log, t) : log[m].calls \in Nat
      BY <2>2 DEF TurnFacts, CallsCounted
    <3> QED BY <1>1, <3>1, TurnCallsListed
  <2>4. PICK m \in RepliesOf(log, t) : \E x \in 1..log[m].calls : c = <<m, x>>
    BY <2>3 DEF ListsCalls
  <2>5. AnsweredUpTo(log, c, i)
    BY <2>1, <2>2, <2>4 DEF TurnFacts, RecoveredAnswered
  <2>6. PICK j \in P("tool.result") : j <= i /\ log[j].call = c
    BY <2>5 DEF AnsweredUpTo
  <2> HIDE DEF c
  <2>7. j \in 1..i /\ log[j].type = "tool.result"
    BY <1>1, <2>1, <2>6 DEF PlacesOf
  <2>8. Len(SubSeq(log, 1, i)) = i /\ SubSeq(log, 1, i)[j] = log[j]
    <3>1. PICK S : log \in Seq(S)
      BY <1>1 DEF IsSeq
    <3>2. \A x \in 1..i : log[x] \in S
      BY <1>1, <2>1, <3>1, ElementOfSeq
    <3>3. /\ Len(SubSeq(log, 1, i)) = IF 1 <= i THEN i - 1 + 1 ELSE 0
          /\ \A x \in 1..(i - 1 + 1) : SubSeq(log, 1, i)[x] = log[1 + x - 1]
      BY <1>1, <2>1, <3>2, SubSeqProperties
    <3> QED BY <1>1, <2>1, <2>7, <3>3
  <2>9. Answered(SubSeq(log, 1, i), c)
    BY <2>6, <2>7, <2>8 DEF Answered
  <2> QED BY <2>9 DEF c
<1>4. TurnsEndOnce
  <2> SUFFICES ASSUME NEW i \in Places, IsA(i, "turn.end")
               PROVE  /\ \E j \in 1..i - 1 : log[j] = TurnStart(log[i].turn)
                      /\ \A j \in 1..i - 1 : IsA(j, "turn.end") => log[j].turn # log[i].turn
    BY DEF TurnsEndOnce
  <2>1. i \in P("turn.end") /\ i \in 1..Len(log)
    BY DEF PlacesOf, IsA, Places
  <2>2. PICK j \in P("turn.start") : j < i /\ log[j].turn = log[i].turn
    BY <2>1 DEF TurnFacts, StartedBefore
  <2>3. j \in 1..i - 1 /\ log[j] = TurnStart(log[i].turn)
    BY <1>1, <2>1, <2>2 DEF TurnFacts, StartsRise, PlacesOf
  <2>4. ASSUME NEW x \in 1..i - 1, IsA(x, "turn.end") PROVE log[x].turn # log[i].turn
    <3>1. x \in P("turn.end") /\ x # i
      BY <1>1, <2>1, <2>4 DEF PlacesOf, IsA
    <3> QED BY <2>1, <3>1 DEF TurnFacts, EndsOnce
  <2> QED BY <2>3, <2>4
<1> QED BY <1>2, <1>3, <1>4

(* The turns add up: a call has one result, of its own turn; a turn that a *)
(* recovery closed has them all; a turn ends once, after it started; and   *)
(* turns overlap only after two appends failed (runTurn, resumeDetailed).  *)
THEOREM TurnsAlwaysAddUp == StateSpec => []TurnsAddUp
<1>1. StateInv /\ TurnInv => TurnsAddUp
  <2> SUFFICES ASSUME StateInv, TurnInv, ~strayed
               PROVE  /\ ResultsMatchCalls /\ RecoveredTurnsAnswered /\ TurnsEndOnce
                      /\ TurnsOverlap => rejected > 1
    BY DEF TurnsAddUp
  <2>1. Exact(log) /\ TurnFacts(log) /\ (rejected > 1 \/ Apart(log))
    BY DEF StateInv, TurnInv, TurnsOf
  <2>2. ASSUME TurnsOverlap, Apart(log) PROVE FALSE
    <3>1. PICK i \in Places, j \in Places :
            /\ i < j /\ IsA(i, "turn.start") /\ IsA(j, "turn.start")
            /\ \A k \in i..j : ~(IsA(k, "turn.end") /\ log[k].turn = log[i].turn)
      BY <2>2 DEF TurnsOverlap
    <3>2. i \in PlacesOf(log, "turn.start") /\ j \in PlacesOf(log, "turn.start")
      BY <3>1 DEF PlacesOf, Places, IsA
    <3>3. PICK k \in PlacesOf(log, "turn.end") : k \in i..j /\ log[k].turn = log[i].turn
      BY <2>2, <3>1, <3>2 DEF Apart
    <3> QED BY <3>1, <3>3 DEF PlacesOf, IsA
  <2> QED BY <2>1, <2>2, FactsAddUp
<1> QED BY <1>1, StateInvariant, TurnInvariant, PTL
=============================================================================
