------------------------- MODULE Capabilities_proofs -------------------------
(***************************************************************************)
(* The activation chain, the rollbacks, the sessions and the ledger of     *)
(* their records, for any number of processes, versions, jobs and faults.  *)
(***************************************************************************)
EXTENDS Capabilities, SequenceTheorems, FiniteSetTheorems, WellFoundedInduction, TLAPS

All == Versions \cup {Baseline}
Looked == {"judge", "check", "publish", "decide", "ledger"}
Composed == {"publish", "decide", "ledger"}
Opening == {"record", "attach", "fallback"}
Labels == {"idle", "chain", "verify", "judge", "check", "publish", "decide", "ledger", "record", "attach", "fallback"}
Jobs == {None, "create", "resume", "view", "rollback"}
Whys == {None, "load", "components", "manual"}

Activations == [revision : Nat, digest : Nat, version : All, stack : Seq(All)]
Revisions == [number : Nat, previous : Nat, from : All, version : All, type : {"adopt", "rollback"},
              trigger : {"gate", "manual", "load-failure"}, decision : Nat]
ChainFiles == [rev : Revisions, before : Activations, readable : BOOLEAN]
HostRecords ==
  [job : Jobs, at : Labels, base : Activations, problem : BOOLEAN,
   tries : 0..MaxAttempts, why : Whys, rev : Revisions \cup {NoRevision}, version : All \cup {None}]

CapabilitiesTypeOK ==
  /\ bundle \in [Versions -> {"good", "invalid", "damaged"}]
  /\ chain \in Seq(ChainFiles) /\ IsFiniteSet(decisions)
  /\ host \in [Hosts -> HostRecords]
  /\ sessions \in [Hosts -> Seq(All)] /\ running \in [Hosts -> All \cup {None}]

-----------------------------------------------------------------------------
(* The inductive invariant of the chain and of those who read and extend   *)
(* it.                                                                     *)

(* A stack begins with the baseline, ends with the version that is active, *)
(* and no version stands twice in a row.                                   *)
Sound(a) ==
  /\ a.stack # <<>> /\ a.stack[1] = Baseline /\ a.version = Last(a.stack)
  /\ \A i \in 1..Len(a.stack) - 1 : a.stack[i] # a.stack[i + 1]

(* Every file follows the one before it and names a decision of its own.   *)
Linked ==
  \A n \in DOMAIN chain :
    /\ chain[n].before = After(n - 1) /\ Sound(chain[n].before)
    /\ Follows(chain[n].before, chain[n].rev) /\ chain[n].rev.number = n /\ chain[n].rev.decision > 0
OwnDecision == \A i, j \in DOMAIN chain : i # j => chain[i].rev.decision # chain[j].rev.decision
OnlyBadFall == \A n \in DOMAIN chain : chain[n].rev.trigger = "load-failure" => ~Usable(chain[n].rev.from)
ChainOK == Linked /\ OwnDecision /\ OnlyBadFall

(* What a process has looked at is a part of the chain; nothing takes it   *)
(* away while the process works.                                           *)
Seen(r) ==
  r.at \in Looked => r.tries < MaxAttempts /\ r.base.revision <= Len(chain) /\ r.base = After(r.base.revision)

(* Why a rollback is wanted.                                               *)
Meant(r) ==
  r.at \in {"check"} \cup Composed =>
    /\ r.why # None
    /\ r.why = "manual" => r.version \in ToSet(Front(r.base.stack))
    /\ r.why # "manual" => ~Usable(r.base.version)

(* The revision takes back the tail that was looked at.                    *)
Composes(r) ==
  r.at \in Composed =>
    /\ r.rev \in Revisions /\ r.rev.decision > 0 /\ Len(r.base.stack) > 1
    /\ r.rev.number = r.base.revision + 1 /\ r.rev.previous = r.base.digest /\ r.rev.from = r.base.version
    /\ r.rev.version = RollbackTarget(r.base) /\ r.rev.type = "rollback"
    /\ r.rev.trigger = (IF r.why = "manual" THEN "manual" ELSE "load-failure")
Published(r) ==
  r.at \in {"decide", "ledger"} =>
    /\ r.rev.number <= Len(chain) /\ chain[r.rev.number].rev = r.rev /\ chain[r.rev.number].before = r.base

(* What an opening has settled on.                                         *)
Settled(r) ==
  /\ r.at \in Opening => r.version \in All
  /\ r.at = "record" => r.problem \/ r.version = r.base.version

HostOK(r) == Seen(r) /\ Meant(r) /\ Composes(r) /\ Published(r) /\ Settled(r)

(* Nobody else names the decision that a revision on its way names.        *)
Fresh(h) ==
  host[h].at = "publish" =>
    /\ \A n \in DOMAIN chain : chain[n].rev.decision # host[h].rev.decision
    /\ \A g \in Hosts \ {h} : host[g].at = "publish" => host[g].rev.decision # host[h].rev.decision

ChainInv == CapabilitiesTypeOK /\ ChainOK /\ \A h \in Hosts : HostOK(host[h]) /\ Fresh(h)

(* The inductive invariant of the sessions.                                *)
SessionOK(h) ==
  /\ host[h].job \in {"create", "resume"} => running[h] = None
  /\ host[h].at = "verify" => host[h].job = "resume" /\ sessions[h] # <<>>
  /\ host[h].at \in {"attach", "fallback"} => host[h].job \in {"create", "resume"} /\ sessions[h] # <<>>
  /\ host[h].at = "attach" => host[h].version = Last(sessions[h])
  /\ running[h] # None => running[h] = Last(sessions[h])
SessionInv == \A h \in Hosts : SessionOK(h)

(* The inductive invariant of the ledger: what is kept stands on a whole   *)
(* line, and who has seen the end of a line still has it.                  *)
Pieces == [rec : Nat, whole : BOOLEAN]
OnALine(r) == \E i \in 1..Len(ledger) - 1 : ledger[i] = <<Whole(r)>>
LedgerInv ==
  /\ ledger \in Seq(Seq(Pieces)) /\ ledger # <<>>
  /\ pen \in [Writers -> [at : {"idle", "look", "write"}, rec : Nat, prefix : BOOLEAN]]
  /\ \A r \in accepted \ excused : OnALine(r)
  /\ \A w \in Writers : pen[w].at = "write" /\ ~pen[w].prefix /\ pen[w].rec \notin excused => Last(ledger) = <<>>
-----------------------------------------------------------------------------
(* The chain as a reader sees it.                                          *)
LEMMA LeastOf ==
  ASSUME NEW T, T \subseteq Nat, T # {}
  PROVE  \E n \in T : \A m \in T : n <= m
<1>1. IsWellFoundedOn(OpToRel(<, Nat), Nat)
  BY NatLessThanWellFounded
<1>2. PICK x \in T : \A y \in T : ~ (<<y, x>> \in OpToRel(<, Nat))
  BY <1>1, WFMin
<1>3. \A y \in T : y \in Nat /\ x \in Nat
  OBVIOUS
<1>4. \A y \in T : ~(y < x)
  BY <1>2, <1>3 DEF OpToRel
<1> QED BY <1>4, <1>3

LEMMA ChainIsASequence ==
  ASSUME CapabilitiesTypeOK
  PROVE  /\ Len(chain) \in Nat /\ DOMAIN chain = 1..Len(chain)
         /\ \A n \in 1..Len(chain) : chain[n] \in ChainFiles
BY LenProperties, ElementOfSeq DEF CapabilitiesTypeOK

(* A reader's view ends somewhere in the chain; it ends at its end when no *)
(* file is damaged.                                                        *)
LEMMA ReadersView ==
  ASSUME CapabilitiesTypeOK, Linked
  PROVE  /\ ValidLength \in 0..Len(chain)
         /\ (\A n \in DOMAIN chain : chain[n].readable) => ~Problem
         /\ ~Problem => ValidLength = Len(chain)
<1> DEFINE L == Len(chain)
           V(n) == (\A i \in 1..n : Accepted(i)) /\ (n < L => ~Accepted(n + 1))
           Unaccepted == {i \in 1..L : ~Accepted(i)}
<1>1. L \in Nat /\ DOMAIN chain = 1..L
  BY ChainIsASequence
<1>2. \A i \in 1..L : chain[i].readable => Accepted(i)
  BY <1>1 DEF Linked, Accepted
<1>3. \E n \in 0..L : V(n)
  <2>1. CASE Unaccepted = {}
    BY <1>1, <2>1
  <2>2. CASE Unaccepted # {}
    <3>0. Unaccepted \subseteq Nat
      BY <1>1
    <3> HIDE DEF Unaccepted
    <3>1. PICK i \in Unaccepted : \A j \in Unaccepted : i <= j
      BY <2>2, <3>0, LeastOf
    <3> USE DEF Unaccepted
    <3>2. i - 1 \in 0..L /\ V(i - 1)
      BY <1>1, <3>1
    <3> QED BY <3>2
  <2> QED BY <2>1, <2>2
<1>4. ValidLength \in 0..L /\ V(ValidLength)
  <2> HIDE DEF V, L
  <2>1. ValidLength = CHOOSE n \in 0..L : V(n)
    BY DEF ValidLength, V, L
  <2> QED BY <1>3, <2>1
<1>5. ASSUME \A n \in DOMAIN chain : chain[n].readable PROVE ~Problem
  <2>1. \A i \in 1..L : Accepted(i)
    BY <1>1, <1>2, <1>5
  <2>2. CASE ValidLength < L
    BY <1>1, <1>4, <2>1, <2>2
  <2> QED BY <1>1, <1>4, <2>2 DEF Problem
<1>6. ASSUME ~Problem PROVE ValidLength = Len(chain)
  <2>1. ~(ValidLength < Len(chain))
    BY <1>6 DEF Problem
  <2>2. ValidLength \in 0..Len(chain) /\ Len(chain) \in Nat
    BY <1>1, <1>4
  <2>3. \A n \in Nat : \A v \in 0..n : ~(v < n) => v = n
    OBVIOUS
  <2> HIDE DEF L, V, Unaccepted
  <2> QED BY <2>1, <2>2, <2>3
<1> QED BY <1>4, <1>5, <1>6

(* The beginning of a sequence.                                            *)
LEMMA FrontOf ==
  ASSUME NEW S, NEW s \in Seq(S), s # <<>>
  PROVE  /\ Len(s) \in Nat \ {0} /\ Front(s) \in Seq(S) /\ Len(Front(s)) = Len(s) - 1
         /\ \A i \in 1..Len(s) - 1 : Front(s)[i] = s[i]
         /\ Last(s) \in S
<1>1. Len(s) \in Nat \ {0} /\ \A i \in 1..Len(s) : s[i] \in S
  BY EmptySeq, ElementOfSeq
<1>2. \A i \in 1..Len(s) - 1 : s[i] \in S
  BY <1>1
<1>3. /\ SubSeq(s, 1, Len(s) - 1) \in Seq(S)
      /\ Len(SubSeq(s, 1, Len(s) - 1)) = IF 1 <= Len(s) - 1 THEN Len(s) - 1 - 1 + 1 ELSE 0
      /\ \A i \in 1..(Len(s) - 1 - 1 + 1) : SubSeq(s, 1, Len(s) - 1)[i] = s[1 + i - 1]
  BY <1>1, <1>2, SubSeqProperties
<1>4. Len(Front(s)) = Len(s) - 1
  <2>1. Len(Front(s)) = IF 1 <= Len(s) - 1 THEN Len(s) - 1 - 1 + 1 ELSE 0
    BY <1>3 DEF Front
  <2>2. \A n \in Nat \ {0} : (IF 1 <= n - 1 THEN n - 1 - 1 + 1 ELSE 0) = n - 1
    OBVIOUS
  <2>3. Len(s) \in Nat \ {0}
    BY <1>1
  <2> QED BY <2>1, <2>2, <2>3
<1>5. \A i \in 1..Len(s) - 1 : Front(s)[i] = s[i]
  BY <1>1, <1>3 DEF Front
<1>6. Front(s) \in Seq(S) /\ Last(s) \in S
  BY <1>1, <1>3 DEF Front, Last
<1> QED BY <1>1, <1>4, <1>5, <1>6

(* What follows a sound activation is sound.                               *)
LEMMA SoundAdvance ==
  ASSUME NEW a \in Activations, NEW rev \in Revisions, Sound(a), Follows(a, rev)
  PROVE  /\ Advance(a, rev) \in Activations /\ Sound(Advance(a, rev))
         /\ Advance(a, rev).revision = rev.number /\ Advance(a, rev).digest = rev.decision
         /\ rev.type = "rollback" => Advance(a, rev).stack = Front(a.stack)
<1> DEFINE b == Advance(a, rev)
           s == a.stack
<1>1. /\ s \in Seq(All) /\ s # <<>> /\ s[1] = Baseline /\ a.version = s[Len(s)] /\ Len(s) \in Nat \ {0}
      /\ \A i \in 1..Len(s) - 1 : s[i] # s[i + 1]
  BY EmptySeq DEF Activations, Sound, Last
<1>2. /\ b.revision = rev.number /\ b.digest = rev.decision /\ b.version = rev.version
      /\ b.stack = IF rev.type = "adopt" THEN Append(s, rev.version) ELSE Front(s)
      /\ b = [revision |-> b.revision, digest |-> b.digest, version |-> b.version, stack |-> b.stack]
  BY DEF Advance
<1>3. rev.number \in Nat /\ rev.decision \in Nat /\ rev.version \in All /\ rev.type \in {"adopt", "rollback"}
  BY DEF Revisions
<1>4. CASE rev.type = "adopt"
  <2>1. b.stack = Append(s, rev.version)
    BY <1>2, <1>4
  <2>2. /\ b.stack \in Seq(All) /\ b.stack # <<>> /\ Len(b.stack) = Len(s) + 1
        /\ b.stack[Len(s) + 1] = rev.version /\ \A i \in 1..Len(s) : b.stack[i] = s[i]
    <3> HIDE DEF b, s
    <3> QED BY <1>1, <1>3, <2>1, AppendProperties
  <2>3. rev.version # s[Len(s)]
    BY <1>1 DEF Follows
  <2> HIDE DEF b, s
  <2>4. \A i \in 1..Len(s) : b.stack[i] # b.stack[i + 1]
    BY <1>1, <2>2, <2>3
  <2>5. Sound(b)
    BY <1>1, <1>2, <2>2, <2>4 DEF Sound, Last
  <2>6. b \in Activations
    BY <1>2, <1>3, <2>2 DEF Activations
  <2> QED BY <1>2, <1>4, <2>5, <2>6 DEF b, s
<1>5. CASE rev.type = "rollback"
  <2>1. b.stack = Front(s) /\ Len(s) > 1 /\ rev.version = s[Len(s) - 1]
    BY <1>2, <1>5 DEF Follows, RollbackTarget
  <2> HIDE DEF b, s
  <2>2. /\ b.stack \in Seq(All) /\ Len(b.stack) = Len(s) - 1 /\ \A i \in 1..Len(s) - 1 : b.stack[i] = s[i]
    BY <1>1, <2>1, FrontOf
  <2>3. Sound(b)
    <3>1. b.stack # <<>>
      BY <1>1, <2>1, <2>2, EmptySeq
    <3>2. b.stack[1] = Baseline
      BY <1>1, <2>1, <2>2
    <3>4. b.version = b.stack[Len(b.stack)]
      <4>1. b.version = s[Len(s) - 1]
        BY <1>2, <2>1
      <4>2. Len(s) - 1 \in 1..Len(s) - 1
        BY <1>1, <2>1
      <4> QED BY <4>1, <4>2, <2>2
    <3>3. \A i \in 1..Len(b.stack) - 1 : b.stack[i] # b.stack[i + 1]
      BY <1>1, <2>1, <2>2
    <3> QED BY <3>1, <3>2, <3>3, <3>4 DEF Sound, Last
  <2>4. b \in Activations
    BY <1>2, <1>3, <2>2 DEF Activations
  <2> QED BY <1>2, <1>5, <2>1, <2>3, <2>4 DEF b, s
<1> QED BY <1>3, <1>4, <1>5

(* Every activation of the chain is sound, and its digest identifies it.   *)
LEMMA ActivationsOfTheChain ==
  ASSUME CapabilitiesTypeOK, ChainOK
  PROVE  /\ \A k \in 0..Len(chain) : After(k) \in Activations /\ Sound(After(k)) /\ After(k).revision = k
         /\ \A k, m \in 0..Len(chain) : After(k).digest = After(m).digest => k = m
<1>1. Len(chain) \in Nat /\ DOMAIN chain = 1..Len(chain)
  BY ChainIsASequence
<1>2. /\ After(0) \in Activations /\ Sound(After(0)) /\ After(0).revision = 0 /\ After(0).digest = 0
  <2>1. <<Baseline>> \in Seq(All) /\ Len(<<Baseline>>) = 1 /\ <<Baseline>>[1] = Baseline /\ <<Baseline>> # <<>>
    BY DEF All
  <2>2. After(0) = BaselineActivation
    BY DEF After
  <2> QED BY <2>1, <2>2 DEF BaselineActivation, Activations, Sound, Last, All
<1>3. ASSUME NEW k \in 1..Len(chain)
      PROVE  /\ After(k) \in Activations /\ Sound(After(k)) /\ After(k).revision = k
             /\ After(k).digest = chain[k].rev.decision /\ chain[k].rev.decision > 0
  <2>1. chain[k].rev \in Revisions /\ chain[k].before \in Activations
    BY ChainIsASequence DEF ChainFiles
  <2>2. /\ Sound(chain[k].before) /\ Follows(chain[k].before, chain[k].rev) /\ chain[k].rev.number = k
        /\ chain[k].rev.decision > 0
    BY <1>1 DEF ChainOK, Linked
  <2>3. After(k) = Advance(chain[k].before, chain[k].rev)
    BY <1>1 DEF After
  <2> QED BY <2>1, <2>2, <2>3, SoundAdvance
<1>4. ASSUME NEW k \in 0..Len(chain), NEW m \in 0..Len(chain), After(k).digest = After(m).digest PROVE k = m
  <2>1. k \in 1..Len(chain) /\ m \in 1..Len(chain) => k = m
    BY <1>1, <1>3, <1>4 DEF ChainOK, OwnDecision
  <2> QED BY <1>1, <1>2, <1>3, <1>4, <2>1
<1>5. \A k \in 0..Len(chain) : k = 0 \/ k \in 1..Len(chain)
  BY <1>1
<1> QED BY <1>2, <1>3, <1>4, <1>5
-----------------------------------------------------------------------------
(* The chain that the adoptions of a project left.                         *)
LEMMA QuietIsAHost ==
  /\ Quiet \in HostRecords /\ Quiet.at = "idle" /\ Quiet.job = None /\ Quiet.tries = 0 /\ Quiet.why = None
  /\ BaselineActivation \in Activations
<1>1. BaselineActivation \in Activations
  <2>1. <<Baseline>> \in Seq(All)
    BY DEF All
  <2> QED BY <2>1 DEF BaselineActivation, Activations, All
<1>2. 0 \in 0..MaxAttempts
  BY CapabilitiesAssumption
<1>3. "idle" \in Labels /\ None \in Whys
  BY DEF Labels, Whys
<1>4. None \in Jobs
  BY DEF Jobs
<1> QED BY <1>1, <1>2, <1>3, <1>4 DEF Quiet, HostRecords

LEMMA StackOfAdoptions ==
  ASSUME NEW s \in Seq(Versions), \A i \in 1..Len(s) - 1 : s[i] # s[i + 1], NEW i \in 1..Len(s)
  PROVE  /\ AdoptedBefore(s, i) \in Activations /\ Sound(AdoptedBefore(s, i))
         /\ Adopting(s, i) \in Revisions /\ Follows(AdoptedBefore(s, i), Adopting(s, i))
         /\ i + 1 \in 1..Len(s) => AdoptedBefore(s, i + 1) = Advance(AdoptedBefore(s, i), Adopting(s, i))
         /\ AdoptedBefore(s, 1) = BaselineActivation
<1> DEFINE T(k) == <<Baseline>> \o SubSeq(s, 1, k - 1)
           V(k) == IF k = 1 THEN Baseline ELSE s[k - 1]
<1>1. Len(s) \in Nat /\ \A k \in 1..Len(s) : s[k] \in Versions /\ s[k] \in All /\ s[k] # Baseline /\ s[k] # None
  BY ElementOfSeq, CapabilitiesAssumption DEF All
<1>2. Baseline \in All
  BY DEF All
<1>3. ASSUME NEW k \in 1..Len(s) + 1
      PROVE  /\ T(k) \in Seq(All) /\ Len(T(k)) = k /\ T(k)[1] = Baseline /\ V(k) \in All
             /\ \A j \in 2..k : T(k)[j] = s[j - 1]
             /\ V(k) = T(k)[k] /\ T(k) # <<>>
  <2> DEFINE p == SubSeq(s, 1, k - 1)
  <2>1. \A j \in 1..k - 1 : s[j] \in All
    BY <1>1
  <2>2. /\ p \in Seq(All) /\ Len(p) = IF 1 <= k - 1 THEN k - 1 - 1 + 1 ELSE 0
        /\ \A j \in 1..(k - 1 - 1 + 1) : p[j] = s[1 + j - 1]
    BY <2>1, SubSeqProperties
  <2>3. Len(p) = k - 1 /\ \A j \in 1..k - 1 : p[j] = s[j]
    BY <2>2
  <2> HIDE DEF p
  <2>4. <<Baseline>> \in Seq(All) /\ Len(<<Baseline>>) = 1 /\ <<Baseline>>[1] = Baseline
    BY <1>2
  <2>5. /\ <<Baseline>> \o p \in Seq(All) /\ Len(<<Baseline>> \o p) = 1 + Len(p)
        /\ \A j \in 1..1 + Len(p) : (<<Baseline>> \o p)[j] = IF j <= 1 THEN <<Baseline>>[j] ELSE p[j - 1]
    BY <2>2, <2>4, ConcatProperties
  <2>6. T(k) = <<Baseline>> \o p
    BY DEF p
  <2> HIDE DEF T
  <2>7. T(k) \in Seq(All) /\ Len(T(k)) = k
    BY <2>3, <2>5, <2>6
  <2>8. T(k)[1] = Baseline
    BY <2>3, <2>4, <2>5, <2>6
  <2>9. \A j \in 2..k : T(k)[j] = s[j - 1]
    BY <2>3, <2>5, <2>6
  <2>10. T(k) # <<>>
    BY <2>7, EmptySeq
  <2>11. V(k) = T(k)[k] /\ V(k) \in All
    BY <1>1, <1>2, <2>8, <2>9
  <2> QED BY <2>7, <2>8, <2>9, <2>10, <2>11
<1>4. /\ AdoptedBefore(s, i) = [revision |-> i - 1, digest |-> i - 1, version |-> V(i), stack |-> T(i)]
      /\ Adopting(s, i) = [number |-> i, previous |-> i - 1, from |-> V(i), version |-> s[i], type |-> "adopt",
                           trigger |-> "gate", decision |-> i]
  BY DEF AdoptedBefore, Adopting
<1>5. i \in 1..Len(s) + 1 /\ i \in Nat /\ i - 1 \in Nat
  BY <1>1
<1> HIDE DEF T, V
<1>6. AdoptedBefore(s, i) \in Activations /\ Adopting(s, i) \in Revisions
  BY <1>1, <1>3, <1>4, <1>5 DEF Activations, Revisions
<1>7. Sound(AdoptedBefore(s, i))
  <2>1. \A j \in 1..i - 1 : T(i)[j] # T(i)[j + 1]
    <3> TAKE j \in 1..i - 1
    <3>1. CASE j = 1
      BY <1>1, <1>3, <1>5, <3>1
    <3>2. CASE j # 1
      <4>1. T(i)[j] = s[j - 1] /\ T(i)[j + 1] = s[j]
        BY <1>3, <1>5, <3>2
      <4>2. j - 1 \in 1..Len(s) - 1 /\ (j - 1) + 1 = j
        BY <1>1, <3>2
      <4> QED BY <4>1, <4>2
    <3> QED BY <3>1, <3>2
  <2> QED BY <1>3, <1>4, <1>5, <2>1 DEF Sound, Last
<1>8. s[i] # V(i)
  <2>1. CASE i = 1
    BY <1>1, <2>1 DEF V
  <2>2. CASE i # 1
    <3>1. i - 1 \in 1..Len(s) - 1 /\ (i - 1) + 1 = i
      BY <1>1, <2>2
    <3> QED BY <2>2, <3>1 DEF V
  <2> QED BY <2>1, <2>2
<1>9. Follows(AdoptedBefore(s, i), Adopting(s, i))
  BY <1>1, <1>4, <1>5, <1>8 DEF Follows
<1>10. ASSUME i + 1 \in 1..Len(s) PROVE AdoptedBefore(s, i + 1) = Advance(AdoptedBefore(s, i), Adopting(s, i))
  <2>1. AdoptedBefore(s, i + 1) = [revision |-> i, digest |-> i, version |-> V(i + 1), stack |-> T(i + 1)]
    <3>1. AdoptedBefore(s, i + 1) = [revision |-> (i + 1) - 1, digest |-> (i + 1) - 1, version |-> V(i + 1),
                                     stack |-> T(i + 1)]
      BY DEF AdoptedBefore, T, V
    <3>2. (i + 1) - 1 = i
      BY <1>5
    <3> QED BY <3>1, <3>2
  <2>2. V(i + 1) = s[i]
    BY <1>5 DEF V
  <2>3. Advance(AdoptedBefore(s, i), Adopting(s, i))
          = [revision |-> i, digest |-> i, version |-> s[i], stack |-> Append(T(i), s[i])]
    BY <1>4 DEF Advance
  <2>4. Append(T(i), s[i]) = T(i + 1)
    <3>1. i + 1 \in 1..Len(s) + 1
      BY <1>1, <1>5
    <3>2. T(i) \in Seq(All) /\ T(i + 1) \in Seq(All) /\ Len(T(i)) = i /\ Len(T(i + 1)) = i + 1
      BY <1>3, <1>5, <3>1
    <3>3. \A j \in 1..i + 1 : T(i + 1)[j] = IF j = 1 THEN Baseline ELSE s[j - 1]
      BY <1>3, <1>5, <3>1
    <3>4. \A j \in 1..i : T(i)[j] = IF j = 1 THEN Baseline ELSE s[j - 1]
      BY <1>3, <1>5
    <3>5. s[i] \in All
      BY <1>1
    <3>6. /\ Append(T(i), s[i]) \in Seq(All) /\ Len(Append(T(i), s[i])) = i + 1
          /\ Append(T(i), s[i])[i + 1] = s[i] /\ \A j \in 1..i : Append(T(i), s[i])[j] = T(i)[j]
      BY <3>2, <3>5, AppendProperties
    <3>7. \A j \in 1..i + 1 : Append(T(i), s[i])[j] = T(i + 1)[j]
      BY <1>5, <3>3, <3>4, <3>6
    <3> QED BY <1>5, <3>2, <3>6, <3>7, SeqEqual
  <2> QED BY <2>1, <2>2, <2>3, <2>4
<1>11. AdoptedBefore(s, 1) = BaselineActivation
  <2>1. SubSeq(s, 1, 0) = <<>>
    BY SubSeqEmpty
  <2>2. <<Baseline>> \o <<>> = <<Baseline>>
    BY <1>2, ConcatEmptySeq
  <2> QED BY <2>1, <2>2 DEF AdoptedBefore, BaselineActivation
<1> QED BY <1>6, <1>7, <1>9, <1>10, <1>11

LEMMA ChainInitially == Init => ChainInv
<1> SUFFICES ASSUME Init PROVE ChainInv
  OBVIOUS
<1>1. PICK s \in Adopted : chain = [i \in 1..Len(s) |-> File(Adopting(s, i), AdoptedBefore(s, i))]
  BY DEF Init
<1>2. s \in Seq(Versions) /\ \A i \in 1..Len(s) - 1 : s[i] # s[i + 1]
  BY CapabilitiesAssumption
<1>3. Len(s) \in Nat
  BY <1>2, LenProperties
<1>4. /\ DOMAIN chain = 1..Len(s)
      /\ \A i \in 1..Len(s) : /\ chain[i].rev = Adopting(s, i) /\ chain[i].before = AdoptedBefore(s, i)
                              /\ chain[i] = [rev |-> chain[i].rev, before |-> chain[i].before, readable |-> TRUE]
  BY <1>1 DEF File
<1>12. \A i \in 1..Len(s) : Adopting(s, i).number = i /\ Adopting(s, i).decision = i /\ Adopting(s, i).trigger = "gate"
  BY DEF Adopting
<1>5. chain \in Seq(ChainFiles)
  <2>1. \A i \in 1..Len(s) : File(Adopting(s, i), AdoptedBefore(s, i)) \in ChainFiles
    BY <1>2, StackOfAdoptions DEF File, ChainFiles
  <2> QED BY <1>1, <1>3, <2>1, IsASeq
<1>6. Len(chain) = Len(s)
  BY <1>3, <1>4, <1>5, LenProperties
<1>7. \A h \in Hosts : host[h] = Quiet
  BY DEF Init
<1>8. CapabilitiesTypeOK
  <2>1. bundle \in [Versions -> {"good", "invalid", "damaged"}]
    BY CapabilitiesAssumption DEF Init
  <2>2. host \in [Hosts -> HostRecords] /\ running \in [Hosts -> All \cup {None}]
    BY QuietIsAHost DEF Init
  <2>3. sessions \in [Hosts -> Seq(All)]
    BY EmptySeq DEF Init
  <2>4. IsFiniteSet(decisions)
    <3>1. PICK t \in Adopted : decisions = 1..Len(t)
      BY DEF Init
    <3>2. Len(t) \in Nat
      BY CapabilitiesAssumption, LenProperties
    <3> QED BY <3>1, <3>2, FS_Interval
  <2> QED BY <1>5, <2>1, <2>2, <2>3, <2>4 DEF CapabilitiesTypeOK
<1>9. Linked
  <2> SUFFICES ASSUME NEW n \in 1..Len(s)
               PROVE  /\ chain[n].before = After(n - 1) /\ Sound(chain[n].before)
                      /\ Follows(chain[n].before, chain[n].rev) /\ chain[n].rev.number = n /\ chain[n].rev.decision > 0
    BY <1>4 DEF Linked
  <2>1. Sound(chain[n].before) /\ Follows(chain[n].before, chain[n].rev)
    BY <1>2, <1>4, StackOfAdoptions
  <2>2. chain[n].rev.number = n /\ chain[n].rev.decision > 0
    BY <1>3, <1>4, <1>12
  <2>3. chain[n].before = After(n - 1)
    <3>1. CASE n = 1
      BY <1>2, <1>4, <3>1, StackOfAdoptions DEF After
    <3>2. CASE n # 1
      <4>1. n - 1 \in 1..Len(s) /\ (n - 1) + 1 = n /\ n - 1 # 0
        BY <1>3, <3>2
      <4>2. AdoptedBefore(s, n) = Advance(AdoptedBefore(s, n - 1), Adopting(s, n - 1))
        BY <1>2, <4>1, StackOfAdoptions
      <4> QED BY <1>4, <4>1, <4>2 DEF After
    <3> QED BY <3>1, <3>2
  <2> QED BY <2>1, <2>2, <2>3
<1>10. OwnDecision /\ OnlyBadFall
  BY <1>4, <1>12 DEF OwnDecision, OnlyBadFall
<1>11. \A h \in Hosts : HostOK(host[h]) /\ Fresh(h)
  BY <1>7, QuietIsAHost DEF HostOK, Seen, Meant, Composes, Published, Settled, Fresh, Looked, Composed, Opening
<1> QED BY <1>8, <1>9, <1>10, <1>11 DEF ChainInv, ChainOK
-----------------------------------------------------------------------------
(* What a process changes of itself.                                       *)
LEMMA HostUpdates ==
  \A r \in HostRecords :
    /\ \A l \in Labels : [r EXCEPT !.at = l] \in HostRecords
    /\ \A l \in Labels, b \in Activations, p \in BOOLEAN : [r EXCEPT !.at = l, !.base = b, !.problem = p] \in HostRecords
    /\ \A l \in Labels, w \in Whys : [r EXCEPT !.at = l, !.why = w] \in HostRecords
    /\ \A l \in Labels, v \in Revisions : [r EXCEPT !.at = l, !.rev = v] \in HostRecords
    /\ \A l \in Labels, v \in All : [r EXCEPT !.at = l, !.version = v] \in HostRecords
    /\ \A l \in Labels, b \in Activations : [r EXCEPT !.at = l, !.base = b, !.rev = NoRevision] \in HostRecords
<1> TAKE r \in HostRecords
<1>1. ASSUME NEW l \in Labels PROVE [r EXCEPT !.at = l] \in HostRecords
  BY DEF HostRecords
<1>2. ASSUME NEW l \in Labels, NEW b \in Activations, NEW p \in BOOLEAN
      PROVE  [r EXCEPT !.at = l, !.base = b, !.problem = p] \in HostRecords
  BY DEF HostRecords
<1>3. ASSUME NEW l \in Labels, NEW w \in Whys PROVE [r EXCEPT !.at = l, !.why = w] \in HostRecords
  BY DEF HostRecords
<1>4. ASSUME NEW l \in Labels, NEW v \in Revisions PROVE [r EXCEPT !.at = l, !.rev = v] \in HostRecords
  BY DEF HostRecords
<1>5. ASSUME NEW l \in Labels, NEW v \in All PROVE [r EXCEPT !.at = l, !.version = v] \in HostRecords
  BY DEF HostRecords
<1>6. ASSUME NEW l \in Labels, NEW b \in Activations
      PROVE  [r EXCEPT !.at = l, !.base = b, !.rev = NoRevision] \in HostRecords
  BY DEF HostRecords
<1> QED BY <1>1, <1>2, <1>3, <1>4, <1>5, <1>6

LEMMA QuietUpdates ==
  /\ \A j \in Jobs, l \in Labels : [Quiet EXCEPT !.job = j, !.at = l] \in HostRecords
  /\ \A j \in Jobs, l \in Labels, n \in 0..MaxAttempts :
       [Quiet EXCEPT !.job = j, !.at = l, !.tries = n] \in HostRecords
  /\ \A j \in Jobs, l \in Labels, b \in Activations, p \in BOOLEAN, v \in All :
       [Quiet EXCEPT !.job = j, !.at = l, !.base = b, !.problem = p, !.version = v] \in HostRecords
  /\ \A j \in Jobs, l \in Labels, b \in Activations, w \in Whys, v \in All :
       [Quiet EXCEPT !.job = j, !.at = l, !.base = b, !.why = w, !.version = v] \in HostRecords
<1>1. ASSUME NEW r \in HostRecords, NEW j \in Jobs, NEW l \in Labels
      PROVE  [r EXCEPT !.job = j, !.at = l] \in HostRecords
  BY DEF HostRecords
<1>2. ASSUME NEW r \in HostRecords, NEW j \in Jobs, NEW l \in Labels, NEW n \in 0..MaxAttempts
      PROVE  [r EXCEPT !.job = j, !.at = l, !.tries = n] \in HostRecords
  BY DEF HostRecords
<1>3. ASSUME NEW r \in HostRecords, NEW j \in Jobs, NEW l \in Labels, NEW b \in Activations, NEW p \in BOOLEAN,
             NEW v \in All
      PROVE  [r EXCEPT !.job = j, !.at = l, !.base = b, !.problem = p, !.version = v] \in HostRecords
  BY DEF HostRecords
<1>4. ASSUME NEW r \in HostRecords, NEW j \in Jobs, NEW l \in Labels, NEW b \in Activations, NEW w \in Whys,
             NEW v \in All
      PROVE  [r EXCEPT !.job = j, !.at = l, !.base = b, !.why = w, !.version = v] \in HostRecords
  BY DEF HostRecords
<1>5. Quiet \in HostRecords
  BY QuietIsAHost
<1> QED BY <1>1, <1>2, <1>3, <1>4, <1>5

LEMMA AtRest ==
  ASSUME NEW r, r.at \notin Looked \cup Opening
  PROVE  HostOK(r)
BY DEF HostOK, Seen, Meant, Composes, Published, Settled, Looked, Composed, Opening

(* A process moves; the chain and the bundles stay as they are.            *)
Stays(h, r) == host' = [host EXCEPT ![h] = r] /\ UNCHANGED <<bundle, chain>>
Unclaimed(r) ==
  r.at = "publish" =>
    /\ \A n \in DOMAIN chain : chain[n].rev.decision # r.rev.decision
    /\ \A g \in Hosts : host[g].rev.decision # r.rev.decision
LEMMA Moves ==
  ASSUME ChainInv, NEW h \in Hosts, NEW r \in HostRecords, Stays(h, r), HostOK(r), Unclaimed(r),
         IsFiniteSet(decisions'), sessions' \in [Hosts -> Seq(All)], running' \in [Hosts -> All \cup {None}]
  PROVE  ChainInv'
<1>1. /\ host \in [Hosts -> HostRecords] /\ bundle' = bundle /\ chain' = chain
      /\ host'[h] = r /\ \A g \in Hosts \ {h} : host'[g] = host[g]
      /\ host' \in [Hosts -> HostRecords]
  BY DEF ChainInv, CapabilitiesTypeOK, Stays
<1>2. CapabilitiesTypeOK'
  BY <1>1 DEF ChainInv, CapabilitiesTypeOK
<1>3. (\A n : After(n)' = After(n)) /\ \A v : Usable(v)' = Usable(v)
  BY <1>1 DEF After, Usable, Loads, Validates
<1>4. ChainOK'
  BY <1>1, <1>3 DEF ChainInv, ChainOK, Linked, OwnDecision, OnlyBadFall
<1>5. ASSUME NEW g \in Hosts PROVE HostOK(host[g])'
  <2>1. HostOK(host'[g])
    BY <1>1 DEF ChainInv
  <2> QED BY <1>1, <1>3, <2>1 DEF HostOK, Seen, Meant, Composes, Published, Settled
<1>6. ASSUME NEW g \in Hosts PROVE Fresh(g)'
  BY <1>1 DEF ChainInv, Fresh, Unclaimed
<1> QED BY <1>2, <1>4, <1>5, <1>6 DEF ChainInv

LEMMA Typed ==
  ASSUME ChainInv
  PROVE  /\ CapabilitiesTypeOK /\ ChainOK /\ Linked /\ IsFiniteSet(decisions)
         /\ sessions \in [Hosts -> Seq(All)] /\ running \in [Hosts -> All \cup {None}]
         /\ \A h \in Hosts : host[h] \in HostRecords /\ HostOK(host[h]) /\ Fresh(h)
BY DEF ChainInv, ChainOK, CapabilitiesTypeOK

(* The tail that a reader sees.                                            *)
LEMMA TailSeen ==
  ASSUME ChainInv
  PROVE  /\ Adoption \in Activations /\ Sound(Adoption) /\ Adoption = After(Adoption.revision)
         /\ Adoption.revision \in 0..Len(chain) /\ Adoption.version \in All
         /\ ~Problem => Adoption.revision = Len(chain)
<1>1. ValidLength \in 0..Len(chain) /\ (~Problem => ValidLength = Len(chain))
  BY Typed, ReadersView
<1>2. After(ValidLength) \in Activations /\ Sound(After(ValidLength)) /\ After(ValidLength).revision = ValidLength
  BY <1>1, Typed, ActivationsOfTheChain
<1>3. Adoption = After(ValidLength)
  BY DEF Adoption
<1> QED BY <1>1, <1>2, <1>3 DEF Activations

LEMMA StartKeeps ==
  ASSUME ChainInv, NEW h \in Hosts, NEW job \in {"create", "resume", "view"}, NEW label \in {"chain", "verify"},
         Start(h, job, label)
  PROVE  ChainInv'
<1> DEFINE r == [Quiet EXCEPT !.job = job, !.at = label]
<1>1. Stays(h, r) /\ UNCHANGED <<decisions, sessions, running>>
  BY DEF Start, Stays, files
<1>2. r \in HostRecords /\ r.at = label
  <2>1. label \in Labels
    BY DEF Labels
  <2>2. r.at = label
    BY QuietIsAHost DEF HostRecords
  <2>3. job \in Jobs
    BY DEF Jobs
  <2> QED BY <2>1, <2>2, <2>3, QuietUpdates
<1> HIDE DEF r
<1>3. HostOK(r) /\ Unclaimed(r)
  BY <1>2, AtRest DEF Looked, Opening, Unclaimed
<1> QED BY <1>1, <1>2, <1>3, Moves, Typed

LEMMA AskRollbackKeeps ==
  ASSUME ChainInv, NEW h \in Hosts, AskRollback(h)
  PROVE  ChainInv'
<1>1. PICK v \in ToSet(Front(Adoption.stack)) :
        host' = [host EXCEPT ![h] = [Quiet EXCEPT !.job = "rollback", !.at = "check", !.base = Adoption,
                                                  !.why = "manual", !.version = v]]
  BY DEF AskRollback
<1> DEFINE r == [Quiet EXCEPT !.job = "rollback", !.at = "check", !.base = Adoption, !.why = "manual", !.version = v]
<1>2. Stays(h, r) /\ UNCHANGED <<decisions, sessions, running>>
  BY <1>1 DEF AskRollback, Stays, files
<1>3. v \in All
  <2>1. Adoption.stack \in Seq(All) /\ Adoption.stack # <<>>
    BY TailSeen DEF Activations, Sound
  <2>2. Front(Adoption.stack) \in Seq(All)
    BY <2>1, FrontOf
  <2>3. \A i \in DOMAIN Front(Adoption.stack) : Front(Adoption.stack)[i] \in All
    BY <2>2, LenProperties, ElementOfSeq
  <2> QED BY <2>3 DEF ToSet
<1>4. r \in HostRecords
  <2>1. "rollback" \in Jobs /\ "check" \in Labels /\ "manual" \in Whys
    BY DEF Jobs, Labels, Whys
  <2> QED BY <1>3, <2>1, TailSeen, QuietUpdates
<1>5. r.at = "check" /\ r.base = Adoption /\ r.why = "manual" /\ r.version = v /\ r.tries = 0
  BY QuietIsAHost DEF HostRecords
<1> HIDE DEF r
<1>6. HostOK(r) /\ Unclaimed(r)
  <2>1. Seen(r)
    BY <1>5, TailSeen, CapabilitiesAssumption DEF Seen
  <2>2. Meant(r)
    BY <1>5 DEF Meant, None
  <2>3. Composes(r) /\ Published(r) /\ Settled(r) /\ Unclaimed(r)
    BY <1>5 DEF Composes, Published, Settled, Composed, Opening, Unclaimed
  <2> QED BY <2>1, <2>2, <2>3 DEF HostOK
<1> QED BY <1>2, <1>4, <1>6, Moves, Typed

LEMMA CloseSessionKeeps ==
  ASSUME ChainInv, NEW h \in Hosts, CloseSession(h)
  PROVE  ChainInv'
<1>1. Stays(h, host[h]) /\ UNCHANGED <<decisions, sessions>>
  BY Typed DEF CloseSession, Stays, files, ChainInv, CapabilitiesTypeOK
<1>2. running' \in [Hosts -> All \cup {None}]
  BY Typed DEF CloseSession
<1>3. host[h].at = "idle"
  BY DEF CloseSession, At
<1> QED BY <1>1, <1>2, <1>3, Moves, Typed DEF Unclaimed

LEMMA ReadChainKeeps ==
  ASSUME ChainInv, NEW h \in Hosts, ReadChain(h)
  PROVE  ChainInv'
<1>1. CASE host[h].tries = MaxAttempts
  <2>1. Stays(h, Quiet) /\ UNCHANGED <<decisions, sessions, running>>
    BY <1>1 DEF ReadChain, Done, Stays, files
  <2> QED BY <2>1, QuietIsAHost, AtRest, Moves, Typed DEF Looked, Opening, Unclaimed
<1>2. CASE host[h].tries # MaxAttempts
  <2> DEFINE r == [host[h] EXCEPT !.at = "judge", !.base = Adoption, !.problem = Problem]
  <2>1. host[h] \in HostRecords
    BY Typed
  <2>2. Stays(h, r) /\ UNCHANGED <<decisions, sessions, running>>
    BY <1>2, Typed DEF ReadChain, Stays, files, CapabilitiesTypeOK
  <2>3. r \in HostRecords
    <3>1. "judge" \in Labels /\ Problem \in BOOLEAN
      BY DEF Labels, Problem
    <3> QED BY <2>1, <3>1, TailSeen, HostUpdates
  <2>4. r.at = "judge" /\ r.base = Adoption /\ r.tries = host[h].tries
    BY <2>1 DEF HostRecords
  <2>5. r.tries < MaxAttempts
    BY <1>2, <2>1, <2>4, CapabilitiesAssumption DEF HostRecords
  <2> HIDE DEF r
  <2>6. Seen(r)
    BY <2>4, <2>5, TailSeen DEF Seen
  <2>7. HostOK(r) /\ Unclaimed(r)
    BY <2>4, <2>6 DEF HostOK, Meant, Composes, Published, Settled, Composed, Opening, Unclaimed
  <2> QED BY <2>2, <2>3, <2>7, Moves, Typed
<1> QED BY <1>1, <1>2

LEMMA SettleKeeps ==
  ASSUME ChainInv, NEW h \in Hosts, NEW v \in All, Settle(h, v), v = host[h].base.version \/ host[h].problem,
         UNCHANGED <<files, sessions, running>>
  PROVE  ChainInv'
<1> DEFINE r == [Quiet EXCEPT !.job = host[h].job, !.at = "record", !.base = host[h].base,
                              !.problem = host[h].problem, !.version = v]
<1>1. Stays(h, r)
  BY DEF Settle, Stays, files
<1>2. host[h] \in HostRecords /\ "record" \in Labels
  BY Typed DEF Labels
<1>3. r \in HostRecords
  <2>1. /\ host[h].job \in Jobs
        /\ host[h].base \in Activations /\ host[h].problem \in BOOLEAN
    BY <1>2 DEF HostRecords
  <2> QED BY <1>2, <2>1, QuietUpdates
<1>4. r.at = "record" /\ r.base = host[h].base /\ r.version = v /\ r.problem = host[h].problem
  BY QuietIsAHost DEF HostRecords
<1> HIDE DEF r
<1>5. HostOK(r) /\ Unclaimed(r)
  BY <1>4 DEF HostOK, Seen, Meant, Composes, Published, Settled, Looked, Composed, Opening, Unclaimed
<1> QED BY <1>1, <1>3, <1>5, Moves, Typed DEF files

LEMMA JudgeTailKeeps ==
  ASSUME ChainInv, NEW h \in Hosts, JudgeTail(h)
  PROVE  ChainInv'
<1> DEFINE v == host[h].base.version
<1>1. host[h] \in HostRecords /\ v \in All /\ Baseline \in All /\ host[h].at = "judge"
      /\ UNCHANGED <<files, sessions, running>>
  BY Typed DEF HostRecords, Activations, All, JudgeTail, At
<1>2. CASE Usable(v)
  BY <1>1, <1>2, SettleKeeps DEF JudgeTail
<1>3. CASE ~Usable(v) /\ host[h].problem
  BY <1>1, <1>3, SettleKeeps DEF JudgeTail
<1>4. CASE ~Usable(v) /\ ~host[h].problem
  <2> DEFINE w == IF Loads(v) THEN "components" ELSE "load"
             r == [host[h] EXCEPT !.at = "check", !.why = w]
  <2>1. Stays(h, r)
    BY <1>1, <1>4, Typed DEF JudgeTail, Stays, files, CapabilitiesTypeOK
  <2>2. r \in HostRecords
    <3>1. "check" \in Labels /\ w \in Whys
      BY DEF Labels, Whys
    <3> QED BY <1>1, <3>1, HostUpdates
  <2>3. /\ r.at = "check" /\ r.base = host[h].base /\ r.why \in {"components", "load"} /\ r.tries = host[h].tries
    BY <1>1 DEF HostRecords
  <2> HIDE DEF r
  <2>4. Seen(r)
    BY <1>1, <2>3, Typed DEF HostOK, Seen, Looked
  <2>5. Meant(r)
    BY <1>4, <2>3 DEF Meant, None
  <2>6. HostOK(r) /\ Unclaimed(r)
    BY <2>3, <2>4, <2>5 DEF HostOK, Composes, Published, Settled, Composed, Opening, Unclaimed
  <2> QED BY <1>1, <2>1, <2>2, <2>6, Moves, Typed DEF files
<1> QED BY <1>2, <1>3, <1>4

LEMMA DoneKeeps ==
  ASSUME ChainInv, NEW h \in Hosts, Done(h), UNCHANGED <<files, sessions>>,
         running' \in [Hosts -> All \cup {None}]
  PROVE  ChainInv'
<1>1. Stays(h, Quiet)
  BY DEF Done, Stays, files
<1> QED BY <1>1, QuietIsAHost, AtRest, Moves, Typed DEF Looked, Opening, Unclaimed, files

(* A process that starts over has an attempt left to count.                *)
LEMMA AgainKeeps ==
  ASSUME ChainInv, NEW h \in Hosts, host[h].at \in Looked, Again(h), UNCHANGED <<files, sessions, running>>
  PROVE  ChainInv'
<1> DEFINE n == IF host[h].why = "load" THEN host[h].tries + 1 ELSE 0
           r == [Quiet EXCEPT !.job = host[h].job, !.at = "chain", !.tries = n]
<1>1. Stays(h, r)
  BY DEF Again, Stays, files
<1>2. host[h] \in HostRecords /\ "chain" \in Labels
  BY Typed DEF Labels
<1>3. n \in 0..MaxAttempts
  <2>1. host[h].tries < MaxAttempts
    BY Typed DEF HostOK, Seen
  <2>2. host[h].tries \in 0..MaxAttempts
    BY <1>2 DEF HostRecords
  <2> QED BY <2>1, <2>2, CapabilitiesAssumption
<1>4. r \in HostRecords /\ r.at = "chain"
  <2> HIDE DEF n
  <2>1. r \in HostRecords
    <3>1. host[h].job \in Jobs
      BY <1>2 DEF HostRecords
    <3> QED BY <1>2, <1>3, <3>1, QuietUpdates
  <2>2. r.at = "chain"
    BY QuietIsAHost DEF HostRecords
  <2> QED BY <2>1, <2>2
<1> HIDE DEF r
<1>5. HostOK(r) /\ Unclaimed(r)
  BY <1>4, AtRest DEF Looked, Opening, Unclaimed
<1> QED BY <1>1, <1>4, <1>5, Moves, Typed DEF files

LEMMA TooLateKeeps ==
  ASSUME ChainInv, NEW h \in Hosts, host[h].at \in Looked, TooLate(h), UNCHANGED <<files, sessions, running>>
  PROVE  ChainInv'
BY AgainKeeps, DoneKeeps, Typed DEF TooLate

(* A decision that nobody names can be chosen.                             *)
LEMMA ImageIsFinite ==
  ASSUME NEW S, IsFiniteSet(S), NEW f, DOMAIN f = S
  PROVE  IsFiniteSet({f[x] : x \in S})
<1> DEFINE T == {f[x] : x \in S}
           g == [x \in S |-> f[x]]
<1>1. g \in Surjection(S, T)
  BY DEF Surjection
<1> QED BY <1>1, FS_Surjection

LEMMA SomeNatIsFree ==
  ASSUME NEW D, IsFiniteSet(D)
  PROVE  \E d \in 1..Cardinality(D) + 1 : d \in Nat /\ d > 0 /\ d \notin D
<1> DEFINE n == Cardinality(D) + 1
<1>1. Cardinality(D) \in Nat
  BY FS_CardinalityType
<1>2. IsFiniteSet(1..n) /\ Cardinality(1..n) = n
  BY <1>1, FS_Interval
<1>3. CASE 1..n \subseteq D
  <2>1. Cardinality(1..n) <= Cardinality(D)
    BY <1>3, FS_Subset
  <2> QED BY <1>1, <1>2, <2>1
<1>4. CASE ~(1..n \subseteq D)
  <2>1. PICK d \in 1..n : d \notin D
    BY <1>4
  <2> QED BY <1>1, <2>1
<1> QED BY <1>3, <1>4

LEMMA FreshDecisionIsFree ==
  ASSUME ChainInv
  PROVE  /\ FreshDecision \in Nat /\ FreshDecision > 0
         /\ \A n \in DOMAIN chain : chain[n].rev.decision # FreshDecision
         /\ \A h \in Hosts : host[h].rev.decision # FreshDecision
<1> DEFINE A == {chain[i].rev.decision : i \in DOMAIN chain}
           B == {host[h].base.digest : h \in Hosts}
           C == {host[h].rev.decision : h \in Hosts}
<1>1. IsFiniteSet(A)
  <2> DEFINE f == [i \in DOMAIN chain |-> chain[i].rev.decision]
  <2>1. IsFiniteSet(DOMAIN chain)
    BY Typed, ChainIsASequence, FS_Interval
  <2>2. IsFiniteSet({f[i] : i \in DOMAIN chain})
    <3>1. DOMAIN f = DOMAIN chain
      OBVIOUS
    <3> HIDE DEF f
    <3> QED BY <2>1, <3>1, ImageIsFinite
  <2> QED BY <2>2
<1>2. IsFiniteSet(B)
  <2> DEFINE f == [h \in Hosts |-> host[h].base.digest]
  <2>1. IsFiniteSet({f[h] : h \in Hosts})
    <3>1. DOMAIN f = Hosts
      OBVIOUS
    <3> HIDE DEF f
    <3> QED BY <3>1, ImageIsFinite, CapabilitiesAssumption
  <2> QED BY <2>1
<1>3. IsFiniteSet(C)
  <2> DEFINE f == [h \in Hosts |-> host[h].rev.decision]
  <2>1. IsFiniteSet({f[h] : h \in Hosts})
    <3>1. DOMAIN f = Hosts
      OBVIOUS
    <3> HIDE DEF f
    <3> QED BY <3>1, ImageIsFinite, CapabilitiesAssumption
  <2> QED BY <2>1
<1>4. UsedDecisions = ((decisions \cup A) \cup B) \cup C
  BY DEF UsedDecisions
<1>5. IsFiniteSet(UsedDecisions)
  <2> HIDE DEF A, B, C
  <2>1. IsFiniteSet(decisions)
    BY Typed
  <2>2. IsFiniteSet(decisions \cup A)
    BY <1>1, <2>1, FS_Union
  <2>3. IsFiniteSet((decisions \cup A) \cup B)
    BY <1>2, <2>2, FS_Union
  <2> QED BY <1>3, <1>4, <2>3, FS_Union
<1>6. \E d \in 1..Cardinality(UsedDecisions) + 1 : d \in Nat /\ d > 0 /\ d \notin UsedDecisions
  BY <1>5, SomeNatIsFree
<1>7. FreshDecision \in 1..Cardinality(UsedDecisions) + 1 /\ FreshDecision \notin UsedDecisions
  BY <1>6 DEF FreshDecision
<1>8. FreshDecision \in Nat /\ FreshDecision > 0
  <2>1. Cardinality(UsedDecisions) \in Nat
    BY <1>5, FS_CardinalityType
  <2> QED BY <1>7, <2>1
<1> QED BY <1>4, <1>7, <1>8

(* A tail that has the digest of what was looked at is what was looked at. *)
LEMMA CheckTailKeeps ==
  ASSUME ChainInv, NEW h \in Hosts, CheckTail(h)
  PROVE  ChainInv'
<1>1. host[h].at = "check" /\ host[h] \in HostRecords /\ UNCHANGED <<files, sessions, running>>
  BY Typed DEF CheckTail, At
<1>2. CASE Problem
  BY <1>1, <1>2, DoneKeeps, Typed DEF CheckTail
<1>3. CASE ~Problem /\ Adoption.digest # host[h].base.digest
  BY <1>1, <1>3, TooLateKeeps DEF CheckTail, Looked
<1>4. CASE ~Problem /\ Adoption.digest = host[h].base.digest
  <2> DEFINE a == Adoption
             v == RollbackRevision(h, a)
             r == [host[h] EXCEPT !.at = "publish", !.rev = v]
  <2>1. Stays(h, r)
    BY <1>1, <1>4, Typed DEF CheckTail, Stays, files, CapabilitiesTypeOK
  <2>2. /\ Seen(host[h]) /\ Meant(host[h])
        /\ host[h].tries < MaxAttempts /\ host[h].base.revision <= Len(chain)
        /\ host[h].base = After(host[h].base.revision) /\ host[h].base.revision \in Nat /\ Len(chain) \in Nat
    BY <1>1, Typed, ChainIsASequence DEF HostOK, Seen, Looked, HostRecords, Activations
  <2>3. host[h].base = a /\ a.revision = Len(chain)
    <3>1. a.revision = Len(chain) /\ a = After(a.revision) /\ a.revision \in 0..Len(chain)
      BY <1>4, TailSeen
    <3>2. host[h].base.revision \in 0..Len(chain)
      BY <2>2
    <3>3. host[h].base.revision = a.revision
      BY <1>4, <2>2, <3>1, <3>2, Typed, ActivationsOfTheChain
    <3> QED BY <2>2, <3>1, <3>3
  <2>4. /\ a \in Activations /\ Sound(a) /\ a.stack \in Seq(All) /\ a.stack # <<>> /\ Len(a.stack) \in Nat \ {0}
        /\ a.version \in All /\ a.digest \in Nat /\ a.revision \in Nat
    BY TailSeen, EmptySeq DEF Activations, Sound
  <2>5. Len(a.stack) > 1
    <3>1. CASE host[h].why = "manual"
      <4>1. host[h].version \in ToSet(Front(a.stack))
        BY <1>1, <2>2, <2>3, <3>1 DEF Meant
      <4>2. PICK i \in DOMAIN Front(a.stack) : host[h].version = Front(a.stack)[i]
        BY <4>1 DEF ToSet
      <4>3. DOMAIN Front(a.stack) = 1..Len(a.stack) - 1
        BY <2>4, FrontOf, LenProperties
      <4> QED BY <2>4, <4>2, <4>3
    <3>2. CASE host[h].why # "manual"
      <4>1. ~Usable(a.version)
        BY <1>1, <2>2, <2>3, <3>2 DEF Meant
      <4>2. a.version # Baseline
        BY <4>1 DEF Usable, Loads, Validates
      <4>3. Len(a.stack) # 1
        BY <2>4, <4>2 DEF Sound, Last
      <4>4. \A n \in Nat \ {0} : n # 1 => n > 1
        OBVIOUS
      <4>5. Len(a.stack) \in Nat \ {0}
        BY <2>4
      <4> QED BY <4>3, <4>4, <4>5
    <3> QED BY <3>1, <3>2
  <2>6. RollbackTarget(a) \in All
    <3>1. Len(a.stack) - 1 \in 1..Len(a.stack)
      BY <2>4, <2>5
    <3> QED BY <2>4, <3>1, ElementOfSeq DEF RollbackTarget
  <2>7. /\ v.number = a.revision + 1 /\ v.previous = a.digest /\ v.from = a.version /\ v.version = RollbackTarget(a)
        /\ v.type = "rollback" /\ v.trigger = (IF host[h].why = "manual" THEN "manual" ELSE "load-failure")
        /\ v.decision = FreshDecision
    BY DEF RollbackRevision
  <2>8. v \in Revisions
    <3>1. a.revision + 1 \in Nat
      BY <2>4
    <3> QED BY <2>4, <2>6, <3>1, FreshDecisionIsFree DEF RollbackRevision, Revisions
  <2> HIDE DEF v
  <2>9. r \in HostRecords
    <3>1. "publish" \in Labels
      BY DEF Labels
    <3> QED BY <1>1, <2>8, <3>1, HostUpdates
  <2>10. /\ r.at = "publish" /\ r.rev = v /\ r.base = a /\ r.why = host[h].why /\ r.version = host[h].version
         /\ r.tries = host[h].tries
    BY <1>1, <2>3 DEF HostRecords
  <2> HIDE DEF r, a
  <2>11. Seen(r) /\ Meant(r)
    BY <1>1, <2>2, <2>3, <2>10 DEF Seen, Meant, Composed, Looked
  <2>12. Composes(r)
    BY <2>3, <2>5, <2>7, <2>8, <2>10, FreshDecisionIsFree DEF Composes
  <2>13. HostOK(r)
    BY <2>10, <2>11, <2>12 DEF HostOK, Published, Settled, Opening
  <2>14. Unclaimed(r)
    BY <2>7, <2>10, FreshDecisionIsFree DEF Unclaimed
  <2> QED BY <1>1, <2>1, <2>9, <2>13, <2>14, Moves, Typed DEF files
<1> QED BY <1>2, <1>3, <1>4

(* The chain may grow at its end, files and bundles may be damaged, and    *)
(* what a process has looked at is still there.                            *)
Kept ==
  /\ Len(chain) <= Len(chain)'
  /\ \A n \in 1..Len(chain) : chain[n].rev' = chain[n].rev /\ chain[n].before' = chain[n].before
  /\ \A v \in All : ~Usable(v) => ~Usable(v)'
LEMMA Unmoved ==
  ASSUME ChainInv, CapabilitiesTypeOK', Kept, NEW h \in Hosts, host'[h] = host[h]
  PROVE  HostOK(host[h])'
<1>1. /\ Len(chain) \in Nat /\ DOMAIN chain = 1..Len(chain) /\ Len(chain)' \in Nat /\ Len(chain) <= Len(chain)'
      /\ \A n \in 1..Len(chain) : chain'[n].rev = chain[n].rev /\ chain'[n].before = chain[n].before
  <2>1. chain' \in Seq(ChainFiles)
    BY DEF CapabilitiesTypeOK
  <2>2. Len(chain)' \in Nat
    BY <2>1, LenProperties
  <2> QED BY <2>2, Typed, ChainIsASequence DEF Kept
<1>2. host[h] \in HostRecords /\ HostOK(host[h]) /\ host'[h] = host[h]
  BY Typed
<1>3. PICK r : r = host[h]
  OBVIOUS
<1>4. r \in HostRecords /\ r.base \in Activations /\ HostOK(r) /\ r = host'[h]
  BY <1>2, <1>3 DEF HostRecords
<1>5. Seen(r)'
  <2> SUFFICES ASSUME r.at \in Looked
               PROVE  r.tries < MaxAttempts /\ r.base.revision <= Len(chain)' /\ r.base = After(r.base.revision)'
    BY DEF Seen
  <2>1. r.tries < MaxAttempts /\ r.base.revision <= Len(chain) /\ r.base = After(r.base.revision)
    BY <1>4 DEF HostOK, Seen
  <2>2. r.base.revision \in 0..Len(chain)
    BY <1>1, <1>4, <2>1 DEF Activations
  <2>3. After(r.base.revision)' = After(r.base.revision)
    BY <1>1, <2>2 DEF After
  <2> QED BY <1>1, <2>1, <2>2, <2>3
<1>6. Meant(r)'
  <2>1. Meant(r) /\ r.base.version \in All
    BY <1>4 DEF HostOK, Activations
  <2> QED BY <2>1 DEF Meant, Kept
<1>7. Composes(r)'
  BY <1>4 DEF HostOK, Composes
<1>8. Published(r)'
  <2> SUFFICES ASSUME r.at \in {"decide", "ledger"}
               PROVE  /\ r.rev.number <= Len(chain)' /\ chain'[r.rev.number].rev = r.rev
                      /\ chain'[r.rev.number].before = r.base
    BY DEF Published
  <2>1. /\ r.rev.number <= Len(chain) /\ chain[r.rev.number].rev = r.rev /\ chain[r.rev.number].before = r.base
        /\ r.rev.number = r.base.revision + 1
    BY <1>4 DEF HostOK, Published, Composes, Composed
  <2>2. r.rev.number \in 1..Len(chain)
    BY <1>1, <1>4, <2>1 DEF Activations
  <2> QED BY <1>1, <2>1, <2>2
<1>9. Settled(r)'
  BY <1>4 DEF HostOK, Settled
<1>10. HostOK(r)'
  BY <1>5, <1>6, <1>7, <1>8, <1>9 DEF HostOK
<1> QED BY <1>4, <1>10

LEMMA PublishKeeps ==
  ASSUME ChainInv, NEW h \in Hosts, Publish(h)
  PROVE  ChainInv'
<1> DEFINE L == Len(chain)
           v == host[h].rev
           b == host[h].base
           f == File(v, After(L))
<1>1. /\ host[h].at = "publish" /\ host[h] \in HostRecords /\ host \in [Hosts -> HostRecords]
      /\ UNCHANGED <<bundle, decisions, sessions, running>>
  BY Typed DEF Publish, At, CapabilitiesTypeOK
<1>2. CASE v.number <= L
  BY <1>1, <1>2, TooLateKeeps DEF Publish, Looked, files
<1>3. CASE ~(v.number <= L)
  <2>1. chain' = Append(chain, f) /\ host' = [host EXCEPT ![h].at = "decide"]
    BY <1>3 DEF Publish, Goto
  <2>2. /\ L \in Nat /\ DOMAIN chain = 1..L /\ chain \in Seq(ChainFiles) /\ \A n \in 1..L : chain[n] \in ChainFiles
    BY Typed, ChainIsASequence DEF CapabilitiesTypeOK
  <2>3. Seen(host[h]) /\ Meant(host[h]) /\ Composes(host[h]) /\ Fresh(h)
    BY Typed DEF HostOK
  <2>4. /\ b.revision <= L /\ b = After(b.revision) /\ b \in Activations
        /\ v \in Revisions /\ v.decision > 0 /\ Len(b.stack) > 1
        /\ v.number = b.revision + 1 /\ v.previous = b.digest /\ v.from = b.version
        /\ v.version = RollbackTarget(b) /\ v.type = "rollback"
    BY <1>1, <2>3 DEF Seen, Composes, Looked, Composed, HostRecords
  <2>5. b.revision = L /\ v.number = L + 1
    <3>1. b.revision \in Nat
      BY <2>4 DEF Activations
    <3> HIDE DEF L, b, v
    <3> QED BY <1>3, <2>2, <2>4, <3>1
  <2>6. Sound(b) /\ b = After(L)
    <3>1. L \in 0..L
      BY <2>2
    <3> QED BY <2>4, <2>5, <3>1, Typed, ActivationsOfTheChain
  <2>7. Follows(b, v)
    <3>1. b.stack \in Seq(All) /\ Len(b.stack) \in Nat
      BY <2>4, LenProperties DEF Activations
    <3>2. b.stack[Len(b.stack) - 1] # b.stack[Len(b.stack)]
      <4>1. Len(b.stack) - 1 \in 1..Len(b.stack) - 1 /\ (Len(b.stack) - 1) + 1 = Len(b.stack)
        BY <2>4, <3>1
      <4> QED BY <2>6, <4>1 DEF Sound
    <3>3. v.version # b.version
      BY <2>4, <2>6, <3>2 DEF RollbackTarget, Sound, Last
    <3> QED BY <2>4, <3>3 DEF Follows
  <2>8. f \in ChainFiles /\ f.rev = v /\ f.before = b
    BY <2>4, <2>6 DEF File, ChainFiles
  <2> HIDE DEF f
  <2>9. /\ chain' \in Seq(ChainFiles) /\ Len(chain') = L + 1 /\ chain'[L + 1] = f /\ \A n \in 1..L : chain'[n] = chain[n]
    BY <2>1, <2>2, <2>8, AppendProperties
  <2>10. DOMAIN chain' = 1..L + 1
    BY <2>9, LenProperties
  <2>11. host' \in [Hosts -> HostRecords]
    <3>1. "decide" \in Labels
      BY DEF Labels
    <3> QED BY <1>1, <2>1, <3>1 DEF HostRecords
  <2>12. CapabilitiesTypeOK'
    BY <1>1, <2>9, <2>11, Typed DEF CapabilitiesTypeOK
  <2>13. Kept
    <3>1. \A u : Usable(u)' = Usable(u)
      BY <1>1 DEF Usable, Loads, Validates
    <3> QED BY <2>2, <2>9, <3>1 DEF Kept
  <2>14. ASSUME NEW g \in Hosts PROVE HostOK(host[g])'
    <3>1. CASE g # h
      BY <1>1, <2>1, <2>12, <2>13, <3>1, Unmoved
    <3>2. CASE g = h
      <4>1. PICK r : r = host'[h]
        OBVIOUS
      <4>2. /\ r.at = "decide" /\ r.base = b /\ r.rev = v /\ r.why = host[h].why /\ r.version = host[h].version
            /\ r.tries = host[h].tries
        BY <1>1, <2>1, <4>1 DEF HostRecords
      <4>3. Seen(r)'
        <5>1. After(r.base.revision)' = After(r.base.revision)
          BY <2>2, <2>5, <2>9, <4>2 DEF After
        <5>2. b.revision <= Len(chain)' /\ host[h].tries < MaxAttempts
          BY <1>1, <2>2, <2>3, <2>5, <2>9 DEF Seen, Looked
        <5> QED BY <2>4, <4>2, <5>1, <5>2 DEF Seen
      <4>4. Meant(r)'
        <5>1. \A u : Usable(u)' = Usable(u)
          BY <1>1 DEF Usable, Loads, Validates
        <5> QED BY <1>1, <2>3, <4>2, <5>1 DEF Meant, Composed
      <4>5. Composes(r)'
        BY <1>1, <2>3, <4>2 DEF Composes, Composed
      <4>6. Published(r)'
        BY <2>2, <2>5, <2>8, <2>9, <4>2 DEF Published
      <4>7. HostOK(r)'
        BY <4>2, <4>3, <4>4, <4>5, <4>6 DEF HostOK, Settled, Opening
      <4> QED BY <3>2, <4>1, <4>7
    <3> QED BY <3>1, <3>2
  <2>15. Linked'
    <3> SUFFICES ASSUME NEW n \in 1..L + 1
                 PROVE  /\ chain'[n].before = After(n - 1)' /\ Sound(chain'[n].before)
                        /\ Follows(chain'[n].before, chain'[n].rev) /\ chain'[n].rev.number = n
                        /\ chain'[n].rev.decision > 0
      BY <2>10 DEF Linked
    <3>1. After(n - 1)' = After(n - 1)
      <4>1. n - 1 = 0 \/ n - 1 \in 1..L
        BY <2>2
      <4> QED BY <2>9, <4>1 DEF After
    <3>2. CASE n \in 1..L
      BY <2>2, <2>9, <3>1, <3>2, Typed DEF Linked
    <3>3. CASE n = L + 1
      <4>1. n - 1 = L
        BY <2>2, <3>3
      <4> QED BY <2>4, <2>5, <2>6, <2>7, <2>8, <2>9, <3>1, <3>3, <4>1
    <3> QED BY <2>2, <3>2, <3>3
  <2>16. OwnDecision'
    <3>1. \A i \in 1..L : chain[i].rev.decision # v.decision
      BY <1>1, <2>2, <2>3 DEF Fresh
    <3>2. \A i, j \in 1..L : i # j => chain[i].rev.decision # chain[j].rev.decision
      BY <2>2, Typed DEF ChainOK, OwnDecision
    <3>3. \A i \in 1..L + 1 : i \in 1..L \/ i = L + 1
      BY <2>2
    <3> QED BY <2>8, <2>9, <2>10, <3>1, <3>2, <3>3 DEF OwnDecision
  <2>17. OnlyBadFall'
    <3>1. \A u : Usable(u)' = Usable(u)
      BY <1>1 DEF Usable, Loads, Validates
    <3>2. v.trigger = "load-failure" => ~Usable(v.from)
      BY <1>1, <2>3, <2>4 DEF Composes, Meant, Composed
    <3>3. \A n \in 1..L : chain[n].rev.trigger = "load-failure" => ~Usable(chain[n].rev.from)
      BY <2>2, Typed DEF ChainOK, OnlyBadFall
    <3>4. \A i \in 1..L + 1 : i \in 1..L \/ i = L + 1
      BY <2>2
    <3> QED BY <2>8, <2>9, <2>10, <3>1, <3>2, <3>3, <3>4 DEF OnlyBadFall
  <2>18. ASSUME NEW g \in Hosts PROVE Fresh(g)'
    <3> SUFFICES ASSUME host'[g].at = "publish"
                 PROVE  /\ \A n \in 1..L + 1 : chain'[n].rev.decision # host'[g].rev.decision
                        /\ \A k \in Hosts \ {g} : host'[k].at = "publish" => host'[k].rev.decision # host'[g].rev.decision
      BY <2>10 DEF Fresh
    <3>1. g # h /\ host'[g] = host[g] /\ host[g].at = "publish"
      BY <1>1, <2>1 DEF HostRecords
    <3>2. Fresh(g)
      BY Typed
    <3>3. \A k \in Hosts : host'[k].at = "publish" => k # h /\ host'[k] = host[k]
      BY <1>1, <2>1 DEF HostRecords
    <3>4. \A k \in Hosts \ {g} : host'[k].at = "publish" => host'[k].rev.decision # host'[g].rev.decision
      BY <3>1, <3>2, <3>3 DEF Fresh
    <3>5. v.decision # host[g].rev.decision
      BY <1>1, <3>1, <3>2 DEF Fresh
    <3>6. \A n \in 1..L : chain[n].rev.decision # host[g].rev.decision
      BY <2>2, <3>1, <3>2 DEF Fresh
    <3>7. \A i \in 1..L + 1 : i \in 1..L \/ i = L + 1
      BY <2>2
    <3> QED BY <2>8, <2>9, <3>1, <3>4, <3>5, <3>6, <3>7
  <2> QED BY <2>12, <2>14, <2>15, <2>16, <2>17, <2>18 DEF ChainInv, ChainOK
<1> QED BY <1>2, <1>3

LEMMA PublishDecisionKeeps ==
  ASSUME ChainInv, NEW h \in Hosts, PublishDecision(h)
  PROVE  ChainInv'
<1> DEFINE r == [host[h] EXCEPT !.at = "ledger"]
<1>1. host[h].at = "decide" /\ host[h] \in HostRecords /\ UNCHANGED <<bundle, chain, sessions, running>>
  BY Typed DEF PublishDecision, At
<1>2. Stays(h, r)
  BY <1>1, Typed DEF PublishDecision, Goto, Stays, CapabilitiesTypeOK
<1>3. IsFiniteSet(decisions')
  BY Typed, FS_AddElement DEF PublishDecision
<1>4. r \in HostRecords
  <2>1. "ledger" \in Labels
    BY DEF Labels
  <2> QED BY <1>1, <2>1, HostUpdates
<1>5. /\ r.at = "ledger" /\ r.base = host[h].base /\ r.rev = host[h].rev /\ r.why = host[h].why
      /\ r.version = host[h].version /\ r.tries = host[h].tries
  BY <1>1 DEF HostRecords
<1> HIDE DEF r
<1>6. HostOK(host[h])
  BY Typed
<1>7. HostOK(r) /\ Unclaimed(r)
  BY <1>1, <1>5, <1>6 DEF HostOK, Seen, Meant, Composes, Published, Settled, Looked, Composed, Opening, Unclaimed
<1> QED BY <1>1, <1>2, <1>3, <1>4, <1>7, Moves, Typed

(* The user goes on from what he wrote, which is the tail then.            *)
LEMMA AppendLedgerKeeps ==
  ASSUME ChainInv, NEW h \in Hosts, AppendLedger(h)
  PROVE  ChainInv'
<1> DEFINE v == host[h].rev
           b == host[h].base
           c == Advance(b, v)
<1>1. host[h].at = "ledger" /\ host[h] \in HostRecords /\ UNCHANGED <<files, sessions, running>>
  BY Typed DEF AppendLedger, At
<1>2. HostOK(host[h])
  BY Typed
<1>3. CASE UNCHANGED host
  <2>1. Stays(h, host[h])
    BY <1>1, <1>3, Typed DEF Stays, files, CapabilitiesTypeOK
  <2> QED BY <1>1, <1>2, <2>1, Moves, Typed DEF Unclaimed, files
<1>4. CASE RolledBack(h, c) /\ ~(host[h].why = "manual" /\ c.version # host[h].version)
  BY <1>1, <1>4, AgainKeeps DEF RolledBack, Looked
<1>5. CASE RolledBack(h, c) /\ host[h].why = "manual" /\ c.version # host[h].version
  <2> DEFINE r == [host[h] EXCEPT !.at = "check", !.base = c, !.rev = NoRevision]
  <2>1. Stays(h, r)
    BY <1>1, <1>5, Typed DEF RolledBack, Stays, files, CapabilitiesTypeOK
  <2>2. Len(chain) \in Nat /\ DOMAIN chain = 1..Len(chain)
    BY Typed, ChainIsASequence
  <2>3. /\ v \in Revisions /\ v.number \in 1..Len(chain) /\ chain[v.number].rev = v /\ chain[v.number].before = b
        /\ v.type = "rollback" /\ host[h].tries < MaxAttempts
        /\ host[h].version \in ToSet(Front(b.stack))
    <3>1. /\ v \in Revisions /\ v.number <= Len(chain) /\ chain[v.number].rev = v /\ chain[v.number].before = b
          /\ v.type = "rollback" /\ host[h].tries < MaxAttempts /\ v.number = b.revision + 1
          /\ host[h].version \in ToSet(Front(b.stack))
      BY <1>1, <1>2, <1>5 DEF HostOK, Seen, Meant, Composes, Published, Looked, Composed
    <3>2. b.revision \in Nat
      BY <1>1 DEF HostRecords, Activations
    <3> QED BY <2>2, <3>1, <3>2
  <2>4. c = After(v.number)
    BY <2>2, <2>3 DEF After
  <2>5. c \in Activations /\ Sound(c) /\ c.revision = v.number
    BY <2>2, <2>3, <2>4, Typed, ActivationsOfTheChain
  <2>6. c.stack = Front(b.stack)
    BY <2>3 DEF Advance
  <2>7. host[h].version \in ToSet(Front(c.stack))
    <3>1. c.stack \in Seq(All) /\ c.stack # <<>> /\ c.version = c.stack[Len(c.stack)]
      BY <2>5 DEF Activations, Sound, Last
    <3> HIDE DEF c
    <3>2. PICK i \in DOMAIN c.stack : host[h].version = c.stack[i]
      BY <2>3, <2>6 DEF ToSet
    <3>3. Len(c.stack) \in Nat \ {0} /\ DOMAIN c.stack = 1..Len(c.stack)
      BY <3>1, EmptySeq, LenProperties
    <3>4. i \in 1..Len(c.stack) - 1
      BY <1>5, <3>1, <3>2, <3>3
    <3>5. DOMAIN Front(c.stack) = 1..Len(c.stack) - 1 /\ Front(c.stack)[i] = c.stack[i]
      BY <3>1, <3>4, FrontOf, LenProperties
    <3> QED BY <3>2, <3>4, <3>5 DEF ToSet
  <2> HIDE DEF c
  <2>8. r \in HostRecords
    <3>1. "check" \in Labels
      BY DEF Labels
    <3> QED BY <1>1, <2>5, <3>1, HostUpdates
  <2>9. /\ r.at = "check" /\ r.base = c /\ r.why = "manual" /\ r.version = host[h].version /\ r.tries = host[h].tries
    BY <1>1, <1>5 DEF HostRecords
  <2> HIDE DEF r
  <2>10. Seen(r)
    BY <2>2, <2>3, <2>4, <2>5, <2>9 DEF Seen
  <2>11. Meant(r)
    BY <2>7, <2>9 DEF Meant, None
  <2>12. HostOK(r) /\ Unclaimed(r)
    BY <2>9, <2>10, <2>11 DEF HostOK, Composes, Published, Settled, Composed, Opening, Unclaimed
  <2> QED BY <1>1, <2>1, <2>8, <2>12, Moves, Typed DEF files
<1>6. UNCHANGED host \/ RolledBack(h, c)
  BY DEF AppendLedger
<1> QED BY <1>3, <1>4, <1>5, <1>6

LEMMA GotoAt ==
  ASSUME ChainInv, NEW h \in Hosts, NEW label \in Labels, Goto(h, label), label \notin Looked, label # "record",
         label \in Opening => host[h].version \in All,
         UNCHANGED <<files, running>>, sessions' \in [Hosts -> Seq(All)]
  PROVE  ChainInv'
<1> DEFINE r == [host[h] EXCEPT !.at = label]
<1>1. host[h] \in HostRecords
  BY Typed
<1>2. Stays(h, r)
  BY Typed DEF Goto, Stays, files, CapabilitiesTypeOK
<1>3. r \in HostRecords
  BY <1>1, HostUpdates
<1>4. r.at = label /\ r.version = host[h].version
  BY <1>1 DEF HostRecords
<1> HIDE DEF r
<1>5. HostOK(r) /\ Unclaimed(r)
  BY <1>4 DEF HostOK, Seen, Meant, Composes, Published, Settled, Looked, Composed, Opening, Unclaimed
<1> QED BY <1>2, <1>3, <1>5, Moves, Typed DEF files

LEMMA AttachAt ==
  ASSUME ChainInv, NEW h \in Hosts, NEW v \in All,
         host' = [host EXCEPT ![h].at = "attach", ![h].version = v],
         UNCHANGED <<files, running>>, sessions' \in [Hosts -> Seq(All)]
  PROVE  ChainInv'
<1> DEFINE r == [host[h] EXCEPT !.at = "attach", !.version = v]
<1>1. host[h] \in HostRecords /\ "attach" \in Labels
  BY Typed DEF Labels
<1>2. Stays(h, r)
  BY Typed DEF Stays, files, CapabilitiesTypeOK
<1>3. r \in HostRecords
  BY <1>1, HostUpdates
<1>4. r.at = "attach" /\ r.version = v
  BY <1>1 DEF HostRecords
<1> HIDE DEF r
<1>5. HostOK(r) /\ Unclaimed(r)
  BY <1>4 DEF HostOK, Seen, Meant, Composes, Published, Settled, Looked, Composed, Opening, Unclaimed
<1> QED BY <1>2, <1>3, <1>5, Moves, Typed DEF files

LEMMA SessionAppends ==
  ASSUME ChainInv, NEW h \in Hosts, NEW v \in All, sessions' = [sessions EXCEPT ![h] = Append(@, v)]
  PROVE  sessions' \in [Hosts -> Seq(All)]
<1>1. sessions[h] \in Seq(All)
  BY Typed
<1>2. Append(sessions[h], v) \in Seq(All)
  BY <1>1, AppendProperties
<1> QED BY <1>2, Typed

LEMMA OpeningKeeps ==
  ASSUME ChainInv, SessionInv, NEW h \in Hosts, Verify(h) \/ RecordVersion(h) \/ Attach(h) \/ RecordLoadFailure(h)
  PROVE  ChainInv'
<1>1. {"chain", "attach", "fallback"} \subseteq Labels /\ "chain" \notin Looked \cup Opening
      /\ {"attach", "fallback"} \cap Looked = {} /\ Baseline \in All
  BY DEF Labels, Looked, Opening, All
<1>2. HostOK(host[h]) /\ host[h] \in HostRecords /\ sessions \in [Hosts -> Seq(All)] /\ running \in [Hosts -> All \cup {None}]
  BY Typed
<1>3. host[h].at \in Opening => host[h].version \in All
  BY <1>2 DEF HostOK, Settled
<1>4. CASE Verify(h)
  <2>1. UNCHANGED <<files, sessions, running>>
    BY <1>4 DEF Verify
  <2>2. CASE Goto(h, "chain")
    BY <1>1, <1>2, <2>1, <2>2, GotoAt
  <2>3. CASE host' = [host EXCEPT ![h].at = "attach", ![h].version = Last(sessions[h])] /\ Usable(Last(sessions[h]))
    <3>1. Last(sessions[h]) \in All
      <4>1. sessions[h] # <<>> /\ sessions[h] \in Seq(All)
        BY <1>2, <1>4 DEF SessionInv, SessionOK, Verify, At
      <4> QED BY <4>1, FrontOf
    <3> QED BY <1>2, <2>1, <2>3, <3>1, AttachAt
  <2> QED BY <1>4, <2>2, <2>3 DEF Verify
<1>5. CASE RecordVersion(h)
  <2>1. host[h].at = "record" /\ UNCHANGED <<files, running>> /\ host[h].version \in All
    BY <1>3, <1>5 DEF RecordVersion, At, Opening
  <2>2. CASE sessions' = [sessions EXCEPT ![h] = Append(@, host[h].version)] /\ Goto(h, "attach")
    BY <1>1, <2>1, <2>2, SessionAppends, GotoAt
  <2>3. CASE Done(h) /\ UNCHANGED sessions
    BY <1>2, <2>1, <2>3, DoneKeeps
  <2> QED BY <1>5, <2>2, <2>3 DEF RecordVersion
<1>6. CASE Attach(h)
  <2>1. host[h].at = "attach" /\ UNCHANGED <<files, sessions>> /\ host[h].version \in All
    BY <1>3, <1>6 DEF Attach, At, Opening
  <2>2. CASE running' = [running EXCEPT ![h] = host[h].version] /\ Done(h)
    <3>1. running' \in [Hosts -> All \cup {None}]
      BY <1>2, <2>1, <2>2
    <3> QED BY <2>1, <2>2, <3>1, DoneKeeps
  <2>3. CASE Goto(h, "fallback") /\ UNCHANGED running
    BY <1>1, <1>2, <2>1, <2>3, GotoAt
  <2> QED BY <1>6, <2>2, <2>3 DEF Attach
<1>7. CASE RecordLoadFailure(h)
  <2>1. sessions' \in [Hosts -> Seq(All)]
    BY <1>1, <1>7, SessionAppends DEF RecordLoadFailure
  <2> QED BY <1>1, <1>7, <2>1, AttachAt DEF RecordLoadFailure
<1> QED BY <1>4, <1>5, <1>6, <1>7

LEMMA DamageBundleKeeps ==
  ASSUME ChainInv, NEW u \in Versions, DamageBundle(u)
  PROVE  ChainInv'
<1>1. /\ bundle' = [bundle EXCEPT ![u] = "damaged"] /\ bundle \in [Versions -> {"good", "invalid", "damaged"}]
      /\ UNCHANGED <<chain, decisions, host, sessions, running>>
  BY Typed DEF DamageBundle, CapabilitiesTypeOK
<1>2. CapabilitiesTypeOK'
  BY <1>1, Typed DEF CapabilitiesTypeOK
<1>3. \A v \in All : ~Usable(v) => ~Usable(v)'
  BY <1>1 DEF All, Usable, Loads, Validates
<1>4. Len(chain) \in Nat /\ DOMAIN chain = 1..Len(chain) /\ \A n \in 1..Len(chain) : chain[n].rev.from \in All
  BY Typed, ChainIsASequence DEF ChainFiles, Revisions
<1>5. Kept
  BY <1>1, <1>3, <1>4 DEF Kept
<1>6. \A n : After(n)' = After(n)
  BY <1>1 DEF After
<1>7. ChainOK'
  BY <1>1, <1>3, <1>4, <1>6, Typed DEF ChainOK, Linked, OwnDecision, OnlyBadFall
<1>8. \A h \in Hosts : HostOK(host[h])'
  BY <1>1, <1>2, <1>5, Unmoved
<1>9. \A h \in Hosts : Fresh(h)'
  BY <1>1, Typed DEF Fresh
<1> QED BY <1>2, <1>7, <1>8, <1>9 DEF ChainInv

(* A damaged file is still the file it was.                                *)
LEMMA ReadabilityKeeps ==
  ASSUME ChainInv, NEW n \in DOMAIN chain, NEW b \in BOOLEAN, chain' = [chain EXCEPT ![n].readable = b],
         UNCHANGED <<bundle, decisions, host, sessions, running>>
  PROVE  ChainInv'
<1>1. /\ Len(chain) \in Nat /\ DOMAIN chain = 1..Len(chain) /\ chain \in Seq(ChainFiles)
      /\ \A i \in 1..Len(chain) : chain[i] \in ChainFiles
  BY Typed, ChainIsASequence DEF CapabilitiesTypeOK
<1>2. [chain[n] EXCEPT !.readable = b] \in ChainFiles
  BY <1>1 DEF ChainFiles
<1>3. chain' = [chain EXCEPT ![n] = [chain[n] EXCEPT !.readable = b]]
  OBVIOUS
<1>4. chain' \in Seq(ChainFiles) /\ Len(chain') = Len(chain)
  BY <1>1, <1>2, <1>3, ExceptSeq
<1>5. DOMAIN chain' = 1..Len(chain) /\ \A i \in 1..Len(chain) : chain'[i].rev = chain[i].rev /\ chain'[i].before = chain[i].before
  BY <1>1, <1>3 DEF ChainFiles
<1>6. CapabilitiesTypeOK'
  BY <1>4, Typed DEF CapabilitiesTypeOK
<1>7. \A v : Usable(v)' = Usable(v)
  BY DEF Usable, Loads, Validates
<1>8. Kept
  BY <1>1, <1>4, <1>5, <1>7 DEF Kept
<1>9. \A i \in 1..Len(chain) : After(i - 1)' = After(i - 1)
  <2> TAKE i \in 1..Len(chain)
  <2>1. i - 1 = 0 \/ i - 1 \in 1..Len(chain)
    BY <1>1
  <2> QED BY <1>5, <2>1 DEF After
<1>10. Linked'
  BY <1>1, <1>5, <1>9, Typed DEF Linked
<1>11. OwnDecision' /\ OnlyBadFall'
  BY <1>1, <1>5, <1>7, Typed DEF ChainOK, OwnDecision, OnlyBadFall
<1>12. \A h \in Hosts : HostOK(host[h])'
  BY <1>6, <1>8, Unmoved
<1>13. \A h \in Hosts : Fresh(h)'
  BY <1>1, <1>5, Typed DEF Fresh
<1> QED BY <1>6, <1>10, <1>11, <1>12, <1>13 DEF ChainInv, ChainOK

(* The last file is only taken away while nobody has looked at the chain.  *)
LEMMA RemovalKeeps ==
  ASSUME ChainInv, chain # <<>>, chain' = Front(chain), \A h \in Hosts : At(h, "idle"),
         UNCHANGED <<bundle, decisions, host, sessions, running>>
  PROVE  ChainInv'
<1>1. /\ Len(chain) \in Nat \ {0} /\ DOMAIN chain = 1..Len(chain) /\ chain \in Seq(ChainFiles)
  BY Typed, ChainIsASequence, EmptySeq DEF CapabilitiesTypeOK
<1>2. /\ chain' \in Seq(ChainFiles) /\ Len(chain') = Len(chain) - 1
      /\ \A i \in 1..Len(chain) - 1 : chain'[i] = chain[i]
  BY <1>1, FrontOf
<1>3. DOMAIN chain' = 1..Len(chain) - 1
  BY <1>2, LenProperties
<1>4. CapabilitiesTypeOK'
  BY <1>2, Typed DEF CapabilitiesTypeOK
<1>5. \A v : Usable(v)' = Usable(v)
  BY DEF Usable, Loads, Validates
<1>6. \A i \in 1..Len(chain) - 1 : After(i - 1)' = After(i - 1)
  <2> TAKE i \in 1..Len(chain) - 1
  <2>1. i - 1 = 0 \/ i - 1 \in 1..Len(chain) - 1
    BY <1>1
  <2> QED BY <1>2, <2>1 DEF After
<1>7. \A i \in DOMAIN chain' : i \in DOMAIN chain /\ chain'[i] = chain[i] /\ After(i - 1)' = After(i - 1)
  BY <1>1, <1>2, <1>3, <1>6
<1>8. Linked'
  <2>1. Linked
    BY Typed
  <2> QED BY <1>7, <2>1 DEF Linked
<1>9. OwnDecision' /\ OnlyBadFall'
  <2>1. OwnDecision /\ OnlyBadFall
    BY Typed DEF ChainOK
  <2>2. OwnDecision'
    BY <1>7, <2>1 DEF OwnDecision
  <2>3. OnlyBadFall'
    BY <1>5, <1>7, <2>1 DEF OnlyBadFall
  <2> QED BY <2>2, <2>3
<1>10. \A h \in Hosts : host'[h].at = "idle"
  BY DEF At
<1>11. \A h \in Hosts : HostOK(host[h])' /\ Fresh(h)'
  BY <1>10 DEF HostOK, Seen, Meant, Composes, Published, Settled, Looked, Composed, Opening, Fresh
<1> QED BY <1>4, <1>8, <1>9, <1>11 DEF ChainInv, ChainOK

LEMMA DiskKeeps ==
  ASSUME ChainInv, NEW n \in DOMAIN chain, DamageChain(n) \/ RepairChain(n)
  PROVE  ChainInv'
<1>1. UNCHANGED <<bundle, decisions, host, sessions, running>>
  BY DEF DamageChain, RepairChain
<1>2. CASE chain' = [chain EXCEPT ![n].readable = FALSE]
  BY <1>1, <1>2, ReadabilityKeeps
<1>3. CASE chain' = [chain EXCEPT ![n].readable = TRUE]
  BY <1>1, <1>3, ReadabilityKeeps
<1>4. CASE RepairChain(n) /\ chain' = Front(chain)
  <2>1. chain # <<>>
    OBVIOUS
  <2> QED BY <1>1, <1>4, <2>1, RemovalKeeps DEF RepairChain
<1> QED BY <1>2, <1>3, <1>4 DEF DamageChain, RepairChain

LEMMA DieKeeps ==
  ASSUME ChainInv, NEW h \in Hosts, Die(h)
  PROVE  ChainInv'
<1>1. running' \in [Hosts -> All \cup {None}]
  BY Typed DEF Die
<1> QED BY <1>1, DoneKeeps DEF Die

LEMMA NothingHappens ==
  ASSUME ChainInv, UNCHANGED <<files, host, sessions, running>>
  PROVE  ChainInv'
<1>1. UNCHANGED <<bundle, chain, decisions, host, sessions, running>>
  BY DEF files
<1>2. CapabilitiesTypeOK'
  BY <1>1, Typed DEF CapabilitiesTypeOK
<1>3. (\A n : After(n)' = After(n)) /\ \A v : Usable(v)' = Usable(v)
  BY <1>1 DEF After, Usable, Loads, Validates
<1>4. ChainOK'
  BY <1>1, <1>3, Typed DEF ChainOK, Linked, OwnDecision, OnlyBadFall
<1>5. Kept
  BY <1>1, <1>3, Typed, ChainIsASequence DEF Kept
<1>6. \A h \in Hosts : HostOK(host[h])'
  BY <1>1, <1>2, <1>5, Unmoved
<1>7. \A h \in Hosts : Fresh(h)'
  BY <1>1, Typed DEF Fresh
<1> QED BY <1>2, <1>4, <1>6, <1>7 DEF ChainInv

LEMMA ChainStep ==
  ASSUME ChainInv, SessionInv, [Next]_vars
  PROVE  ChainInv'
<1>1. ASSUME NEW h \in Hosts, Step(h) PROVE ChainInv'
  BY <1>1, ReadChainKeeps, JudgeTailKeeps, CheckTailKeeps, PublishKeeps, PublishDecisionKeeps, AppendLedgerKeeps,
     OpeningKeeps DEF Step
<1>2. ASSUME NEW h \in Hosts, CreateSession(h) \/ ResumeSession(h) \/ ViewCapabilities(h) PROVE ChainInv'
  BY <1>2, StartKeeps DEF CreateSession, ResumeSession, ViewCapabilities
<1>3. ASSUME NEW h \in Hosts, AskRollback(h) \/ CloseSession(h) \/ Die(h) PROVE ChainInv'
  BY <1>3, AskRollbackKeeps, CloseSessionKeeps, DieKeeps
<1>4. CASE UNCHANGED vars
  BY <1>4, NothingHappens DEF vars, files
<1> QED BY <1>1, <1>2, <1>3, <1>4, DamageBundleKeeps, DiskKeeps DEF Next
-----------------------------------------------------------------------------
(* The sessions.                                                           *)

(* A process that changes does not touch the sessions of the others.       *)
OthersRest(h) ==
  /\ \A g \in Hosts \ {h} : host'[g] = host[g] /\ sessions'[g] = sessions[g] /\ running'[g] = running[g]
LEMMA SessionMoves ==
  ASSUME SessionInv, NEW h \in Hosts, OthersRest(h), SessionOK(h)'
  PROVE  SessionInv'
<1>1. ASSUME NEW g \in Hosts PROVE SessionOK(g)'
  <2>1. CASE g = h
    BY <2>1
  <2>2. CASE g # h
    BY <2>2 DEF OthersRest, SessionInv, SessionOK
  <2> QED BY <2>1, <2>2
<1> QED BY <1>1 DEF SessionInv

LEMMA StartOpensNothing ==
  ASSUME ChainInv, SessionInv, NEW h \in Hosts,
         CreateSession(h) \/ ResumeSession(h) \/ ViewCapabilities(h)
  PROVE  SessionInv'
<1>1. PICK j \in {"create", "resume", "view"}, l \in {"chain", "verify"} :
        /\ Start(h, j, l) /\ (j \in {"create", "resume"} => running[h] = None)
        /\ l = "verify" => j = "resume" /\ sessions[h] # <<>>
  BY DEF CreateSession, ResumeSession, ViewCapabilities
<1> DEFINE r == [Quiet EXCEPT !.job = j, !.at = l]
<1>2. host' = [host EXCEPT ![h] = r] /\ UNCHANGED <<sessions, running>>
  BY <1>1 DEF Start
<1>3. r.at = l /\ r.job = j
  BY QuietIsAHost DEF HostRecords
<1> HIDE DEF r
<1>4. host'[h] = r /\ \A g \in Hosts \ {h} : host'[g] = host[g]
  BY <1>2, Typed DEF CapabilitiesTypeOK
<1>5. SessionOK(h)'
  BY <1>1, <1>2, <1>3, <1>4 DEF SessionInv, SessionOK
<1>6. OthersRest(h)
  BY <1>2, <1>4 DEF OthersRest
<1> QED BY <1>5, <1>6, SessionMoves

LEMMA DoneOpensNothing ==
  ASSUME ChainInv, SessionInv, NEW h \in Hosts, Done(h), UNCHANGED sessions,
         \A g \in Hosts \ {h} : running'[g] = running[g], running'[h] # None => running'[h] = Last(sessions[h])
  PROVE  SessionInv'
<1>1. host'[h] = Quiet /\ \A g \in Hosts \ {h} : host'[g] = host[g]
  BY Typed DEF Done, CapabilitiesTypeOK
<1>2. SessionOK(h)'
  BY <1>1, QuietIsAHost DEF SessionOK, None
<1>3. OthersRest(h)
  BY <1>1 DEF OthersRest
<1> QED BY <1>2, <1>3, SessionMoves

(* The steps of a rollback and of a reader.                                *)
LEMMA ReadersOpenNothing ==
  ASSUME ChainInv, SessionInv, NEW h \in Hosts,
         ReadChain(h) \/ JudgeTail(h) \/ CheckTail(h) \/ Publish(h) \/ PublishDecision(h) \/ AppendLedger(h)
           \/ AskRollback(h)
  PROVE  SessionInv'
<1>1. UNCHANGED <<sessions, running>>
  BY DEF ReadChain, JudgeTail, CheckTail, Publish, PublishDecision, AppendLedger, AskRollback
<1>2. host \in [Hosts -> HostRecords] /\ host[h] \in HostRecords /\ host' \in [Hosts -> HostRecords]
  <2>1. ChainInv'
    BY ReadChainKeeps, JudgeTailKeeps, CheckTailKeeps, PublishKeeps, PublishDecisionKeeps, AppendLedgerKeeps,
       AskRollbackKeeps
  <2> QED BY <2>1, Typed DEF ChainInv, CapabilitiesTypeOK
<1>3. /\ \A g \in Hosts \ {h} : host'[g] = host[g]
      /\ host'[h].at \notin {"verify", "attach", "fallback"} \/ host'[h] = host[h]
      /\ host'[h].job \in {host[h].job, None, "view", "rollback"}
  <2>1. CASE ReadChain(h)
    BY <1>2, <2>1, QuietIsAHost DEF ReadChain, Done, HostRecords
  <2>9. ASSUME NEW v, Settle(h, v)
        PROVE  /\ \A g \in Hosts \ {h} : host'[g] = host[g]
               /\ host'[h].at = "record" /\ host'[h].job = host[h].job
    <3>1. host'[h] = [Quiet EXCEPT !.job = host[h].job, !.at = "record", !.base = host[h].base,
                                   !.problem = host[h].problem, !.version = v]
          /\ \A g \in Hosts \ {h} : host'[g] = host[g]
      BY <1>2, <2>9 DEF Settle
    <3> QED BY <3>1, QuietIsAHost DEF HostRecords
  <2>2. CASE JudgeTail(h)
    <3>1. CASE \E v : Settle(h, v)
      BY <2>9, <3>1
    <3>2. CASE ~\E v : Settle(h, v)
      BY <1>2, <2>2, <3>2 DEF JudgeTail, HostRecords
    <3> QED BY <3>1, <3>2
  <2>10. ASSUME Again(h)
         PROVE  /\ \A g \in Hosts \ {h} : host'[g] = host[g]
                /\ host'[h].at = "chain" /\ host'[h].job = host[h].job
    <3>1. PICK n : host'[h] = [Quiet EXCEPT !.job = host[h].job, !.at = "chain", !.tries = n]
      BY <1>2, <2>10 DEF Again
    <3>2. \A g \in Hosts \ {h} : host'[g] = host[g]
      BY <1>2, <2>10 DEF Again
    <3> QED BY <3>1, <3>2, QuietIsAHost DEF HostRecords
  <2>3. CASE TooLate(h)
    BY <1>2, <2>3, <2>10, QuietIsAHost DEF TooLate, Done
  <2>4. CASE CheckTail(h)
    BY <1>2, <2>3, <2>4, QuietIsAHost DEF CheckTail, Done, HostRecords
  <2>5. CASE Publish(h)
    BY <1>2, <2>3, <2>5 DEF Publish, Goto, HostRecords
  <2>6. CASE PublishDecision(h)
    BY <1>2, <2>6 DEF PublishDecision, Goto, HostRecords
  <2>7. CASE AppendLedger(h)
    <3>1. CASE UNCHANGED host
      BY <3>1
    <3>2. CASE \E b : host' = [host EXCEPT ![h].at = "check", ![h].base = b, ![h].rev = NoRevision]
      BY <1>2, <3>2 DEF HostRecords
    <3> QED BY <2>7, <2>10, <3>1, <3>2 DEF AppendLedger, RolledBack
  <2>8. CASE AskRollback(h)
    <3>1. PICK v : host' = [host EXCEPT ![h] = [Quiet EXCEPT !.job = "rollback", !.at = "check", !.base = Adoption,
                                                             !.why = "manual", !.version = v]]
      BY <2>8 DEF AskRollback
    <3>2. /\ \A g \in Hosts \ {h} : host'[g] = host[g]
          /\ host'[h] = [Quiet EXCEPT !.job = "rollback", !.at = "check", !.base = Adoption, !.why = "manual",
                                      !.version = v]
      BY <1>2, <3>1
    <3> QED BY <3>2, QuietIsAHost DEF HostRecords
  <2> QED BY <2>1, <2>2, <2>4, <2>5, <2>6, <2>7, <2>8
<1>4. SessionOK(h)'
  BY <1>1, <1>3 DEF SessionInv, SessionOK, None
<1>5. OthersRest(h)
  BY <1>1, <1>3 DEF OthersRest
<1> QED BY <1>4, <1>5, SessionMoves

LEMMA LastOfLonger ==
  ASSUME NEW s \in Seq(All), NEW v \in All
  PROVE  Last(Append(s, v)) = v /\ Append(s, v) # <<>>
BY AppendProperties DEF Last

(* An opening goes on to what it has recorded, and runs on it.             *)
LEMMA OpeningRunsOnRecorded ==
  ASSUME ChainInv, SessionInv, NEW h \in Hosts,
         Verify(h) \/ RecordVersion(h) \/ Attach(h) \/ RecordLoadFailure(h)
  PROVE  SessionInv'
<1>1. host \in [Hosts -> HostRecords] /\ host[h] \in HostRecords /\ sessions \in [Hosts -> Seq(All)]
      /\ running \in [Hosts -> All \cup {None}] /\ Baseline \in All
  BY Typed DEF CapabilitiesTypeOK, All
<1>2. SessionOK(h) /\ HostOK(host[h])
  BY Typed DEF SessionInv
<1>3. CASE Verify(h)
  <2>1. /\ \A g \in Hosts \ {h} : host'[g] = host[g]
        /\ host'[h].at = "chain" \/ (host'[h].at = "attach" /\ host'[h].version = Last(sessions[h]))
        /\ host'[h].job = host[h].job /\ UNCHANGED <<sessions, running>> /\ host[h].at = "verify"
    BY <1>1, <1>3 DEF Verify, Goto, At, HostRecords
  <2>2. SessionOK(h)' /\ OthersRest(h)
    BY <1>2, <2>1 DEF SessionOK, OthersRest
  <2> QED BY <2>2, SessionMoves
<1>4. CASE RecordVersion(h) /\ host[h].job \notin {"create", "resume"}
  <2>1. Done(h) /\ UNCHANGED <<sessions, running>>
    BY <1>4 DEF RecordVersion
  <2> QED BY <1>2, <2>1, DoneOpensNothing DEF SessionOK
<1>5. CASE RecordVersion(h) /\ host[h].job \in {"create", "resume"}
  <2> DEFINE v == host[h].version
  <2>1. /\ host' = [host EXCEPT ![h].at = "attach"] /\ sessions' = [sessions EXCEPT ![h] = Append(@, v)]
        /\ running' = running /\ host[h].job \in {"create", "resume"} /\ host[h].at = "record"
    BY <1>5 DEF RecordVersion, Goto, At
  <2>2. v \in All
    BY <1>2, <2>1 DEF HostOK, Settled, Opening
  <2>3. /\ \A g \in Hosts \ {h} : host'[g] = host[g] /\ sessions'[g] = sessions[g]
        /\ host'[h].at = "attach" /\ host'[h].version = v /\ host'[h].job = host[h].job
        /\ sessions'[h] = Append(sessions[h], v)
    BY <1>1, <2>1 DEF HostRecords
  <2>4. Last(sessions'[h]) = v /\ sessions'[h] # <<>>
    BY <1>1, <2>2, <2>3, LastOfLonger
  <2>5. SessionOK(h)' /\ OthersRest(h)
    BY <1>2, <2>1, <2>3, <2>4 DEF SessionOK, OthersRest
  <2> QED BY <2>5, SessionMoves
<1>6. CASE Attach(h) /\ Done(h)
  <2>1. host[h].at = "attach" /\ (running' = [running EXCEPT ![h] = host[h].version] \/ running' = running)
    BY <1>6 DEF Attach, At
  <2>2. \A g \in Hosts \ {h} : running'[g] = running[g]
    BY <1>1, <2>1
  <2>3. running'[h] # None => running'[h] = Last(sessions[h])
    BY <1>1, <1>2, <2>1 DEF SessionOK
  <2> QED BY <1>6, <2>2, <2>3, DoneOpensNothing DEF Attach
<1>7. CASE Attach(h) /\ ~Done(h)
  <2>1. /\ \A g \in Hosts \ {h} : host'[g] = host[g]
        /\ host'[h].at = "fallback" /\ host'[h].job = host[h].job /\ UNCHANGED <<sessions, running>>
        /\ host[h].at = "attach"
    BY <1>1, <1>7 DEF Attach, Goto, At, HostRecords
  <2>2. SessionOK(h)' /\ OthersRest(h)
    BY <1>2, <2>1 DEF SessionOK, OthersRest
  <2> QED BY <2>2, SessionMoves
<1>8. CASE RecordLoadFailure(h)
  <2>1. /\ \A g \in Hosts \ {h} : host'[g] = host[g] /\ sessions'[g] = sessions[g]
        /\ host'[h].at = "attach" /\ host'[h].version = Baseline /\ host'[h].job = host[h].job
        /\ sessions'[h] = Append(sessions[h], Baseline) /\ running' = running /\ host[h].at = "fallback"
    BY <1>1, <1>8 DEF RecordLoadFailure, At, HostRecords
  <2>2. Last(sessions'[h]) = Baseline /\ sessions'[h] # <<>>
    BY <1>1, <2>1, LastOfLonger
  <2>3. SessionOK(h)' /\ OthersRest(h)
    BY <1>2, <2>1, <2>2 DEF SessionOK, OthersRest
  <2> QED BY <2>3, SessionMoves
<1> QED BY <1>3, <1>4, <1>5, <1>6, <1>7, <1>8

LEMMA SessionStep ==
  ASSUME ChainInv, SessionInv, [Next]_vars
  PROVE  SessionInv'
<1>1. ASSUME NEW h \in Hosts, Step(h) PROVE SessionInv'
  BY <1>1, ReadersOpenNothing, OpeningRunsOnRecorded DEF Step
<1>2. ASSUME NEW h \in Hosts, CreateSession(h) \/ ResumeSession(h) \/ ViewCapabilities(h) PROVE SessionInv'
  BY <1>2, StartOpensNothing
<1>3. ASSUME NEW h \in Hosts, AskRollback(h) PROVE SessionInv'
  BY <1>3, ReadersOpenNothing
<1>4. ASSUME NEW h \in Hosts, CloseSession(h) PROVE SessionInv'
  <2>1. /\ host' = host /\ sessions' = sessions /\ running' = [running EXCEPT ![h] = None]
        /\ running \in [Hosts -> All \cup {None}]
    BY <1>4, Typed DEF CloseSession
  <2>2. SessionOK(h)' /\ OthersRest(h)
    BY <2>1 DEF SessionInv, SessionOK, OthersRest
  <2> QED BY <2>2, SessionMoves
<1>5. ASSUME NEW h \in Hosts, Die(h) PROVE SessionInv'
  BY <1>5, DoneOpensNothing, Typed DEF Die
<1>6. ASSUME UNCHANGED <<host, sessions, running>> PROVE SessionInv'
  BY <1>6 DEF SessionInv, SessionOK
<1>7. ASSUME NEW u \in Versions, DamageBundle(u) PROVE SessionInv'
  BY <1>6, <1>7 DEF DamageBundle
<1>8. ASSUME NEW n \in DOMAIN chain, DamageChain(n) \/ RepairChain(n) PROVE SessionInv'
  BY <1>6, <1>8 DEF DamageChain, RepairChain
<1>9. CASE UNCHANGED vars
  BY <1>6, <1>9 DEF vars
<1> QED BY <1>1, <1>2, <1>3, <1>4, <1>5, <1>7, <1>8, <1>9 DEF Next

LEMMA SessionInitially == Init => SessionInv
<1>1. ASSUME Init, NEW h \in Hosts PROVE SessionOK(h)
  BY <1>1, QuietIsAHost DEF Init, SessionOK, None
<1> QED BY <1>1 DEF SessionInv
-----------------------------------------------------------------------------
(* The ledger.                                                             *)
LEMMA PutAtTheEnd ==
  ASSUME NEW f \in Seq(Seq(Pieces)), f # <<>>, NEW p \in Pieces
  PROVE  /\ Put(f, p) \in Seq(Seq(Pieces)) /\ Len(Put(f, p)) = Len(f) /\ Put(f, p) # <<>>
         /\ \A i \in 1..Len(f) - 1 : Put(f, p)[i] = f[i]
         /\ Put(f, p)[Len(f)] = Append(f[Len(f)], p)
<1>1. Len(f) \in Nat \ {0}
  BY EmptySeq
<1>2. f[Len(f)] \in Seq(Pieces)
  BY <1>1, ElementOfSeq
<1>3. Append(f[Len(f)], p) \in Seq(Pieces)
  BY <1>2, AppendProperties
<1>4. Put(f, p) = [f EXCEPT ![Len(f)] = Append(f[Len(f)], p)]
  BY DEF Put
<1>5. Len(f) \in 1..Len(f)
  BY <1>1
<1>6. /\ Put(f, p) \in Seq(Seq(Pieces)) /\ Len(Put(f, p)) = Len(f)
      /\ \A j \in 1..Len(f) : Put(f, p)[j] = IF j = Len(f) THEN Append(f[Len(f)], p) ELSE f[j]
  BY <1>3, <1>4, <1>5, ExceptSeq
<1>7. Put(f, p) # <<>>
  BY <1>1, <1>6, EmptySeq
<1>8. \A i \in 1..Len(f) - 1 : i \in 1..Len(f) /\ i # Len(f)
  BY <1>1
<1> QED BY <1>5, <1>6, <1>7, <1>8

LEMMA NewLineAtTheEnd ==
  ASSUME NEW f \in Seq(Seq(Pieces)), f # <<>>
  PROVE  /\ NewLine(f) \in Seq(Seq(Pieces)) /\ Len(NewLine(f)) = Len(f) + 1 /\ NewLine(f) # <<>>
         /\ \A i \in 1..Len(f) : NewLine(f)[i] = f[i]
         /\ NewLine(f)[Len(f) + 1] = <<>>
<1>1. <<>> \in Seq(Pieces)
  BY EmptySeq
<1> QED BY <1>1, AppendProperties DEF NewLine

(* What is written does not touch the lines there are.                     *)
Longer(f) ==
  /\ f \in Seq(Seq(Pieces)) /\ f # <<>> /\ Len(f) >= Len(ledger) /\ Len(f) \in Nat
  /\ \A i \in 1..Len(ledger) - 1 : f[i] = ledger[i]
LEMMA TextsOf ==
  ASSUME LedgerInv, NEW w \in Writers, NEW f \in Torn(w) \cup {Written(w), ledger}
  PROVE  Longer(f)
<1> DEFINE b == Begun(w)
           r == pen[w].rec
<1>1. /\ ledger \in Seq(Seq(Pieces)) /\ ledger # <<>> /\ Len(ledger) \in Nat \ {0} /\ r \in Nat
      /\ Whole(r) \in Pieces /\ Part(r) \in Pieces
  BY EmptySeq DEF LedgerInv, Whole, Part, Pieces
<1>2. b \in Seq(Seq(Pieces)) /\ b # <<>> /\ Len(b) \in Nat /\ Len(b) >= Len(ledger)
      /\ \A i \in 1..Len(ledger) - 1 : i \in 1..Len(b) - 1 /\ b[i] = ledger[i]
  <2>1. /\ NewLine(ledger) \in Seq(Seq(Pieces)) /\ Len(NewLine(ledger)) = Len(ledger) + 1 /\ NewLine(ledger) # <<>>
        /\ \A i \in 1..Len(ledger) : NewLine(ledger)[i] = ledger[i]
    BY <1>1, NewLineAtTheEnd
  <2>2. b = NewLine(ledger) \/ b = ledger
    BY DEF Begun
  <2>3. CASE b = ledger
    BY <1>1, <2>3
  <2>4. CASE b = NewLine(ledger)
    <3>1. \A i \in 1..Len(ledger) - 1 : i \in 1..Len(ledger) + 1 - 1 /\ i \in 1..Len(ledger)
      BY <1>1
    <3> QED BY <1>1, <2>1, <2>4, <3>1
  <2> QED BY <2>2, <2>3, <2>4
<1> HIDE DEF b, r
<1>3. Longer(b) /\ Longer(ledger)
  BY <1>1, <1>2 DEF Longer
<1>4. Longer(Put(b, Part(r)))
  BY <1>1, <1>2, PutAtTheEnd DEF Longer
<1>5. Longer(Put(b, Whole(r))) /\ Len(Put(b, Whole(r))) = Len(b)
  BY <1>1, <1>2, PutAtTheEnd DEF Longer
<1>6. Longer(NewLine(Put(b, Whole(r))))
  <2> DEFINE p == Put(b, Whole(r))
  <2>1. /\ p \in Seq(Seq(Pieces)) /\ p # <<>> /\ Len(p) \in Nat /\ Len(p) >= Len(ledger)
        /\ \A i \in 1..Len(ledger) - 1 : p[i] = ledger[i]
    BY <1>5 DEF Longer
  <2> HIDE DEF p
  <2>2. /\ NewLine(p) \in Seq(Seq(Pieces)) /\ Len(NewLine(p)) = Len(p) + 1 /\ NewLine(p) # <<>>
        /\ \A i \in 1..Len(p) : NewLine(p)[i] = p[i]
    BY <2>1, NewLineAtTheEnd
  <2>3. \A i \in 1..Len(ledger) - 1 : i \in 1..Len(p)
    BY <1>1, <2>1
  <2>4. Longer(NewLine(p))
    BY <1>1, <2>1, <2>2, <2>3 DEF Longer
  <2> QED BY <2>4 DEF p
<1> QED BY <1>3, <1>4, <1>5, <1>6 DEF Torn, Written, b, r

(* A whole append ends its line; it stands alone on it if the line before  *)
(* was complete, or was completed.                                         *)
LEMMA WrittenLine ==
  ASSUME LedgerInv, NEW w \in Writers, pen[w].at = "write"
  PROVE  /\ Last(Written(w)) = <<>>
         /\ pen[w].rec \notin excused => \E i \in 1..Len(Written(w)) - 1 : Written(w)[i] = <<Whole(pen[w].rec)>>
<1> DEFINE b == Begun(w)
           r == pen[w].rec
           p == Put(b, Whole(r))
<1>1. /\ ledger \in Seq(Seq(Pieces)) /\ ledger # <<>> /\ Len(ledger) \in Nat \ {0} /\ r \in Nat
      /\ Whole(r) \in Pieces /\ pen[w].prefix \in BOOLEAN
  BY EmptySeq DEF LedgerInv, Whole, Pieces
<1>2. /\ b \in Seq(Seq(Pieces)) /\ b # <<>> /\ Len(b) \in Nat \ {0}
      /\ r \notin excused => b[Len(b)] = <<>>
  <2>1. CASE pen[w].prefix
    <3>1. b = NewLine(ledger)
      BY <2>1 DEF Begun
    <3>2. /\ NewLine(ledger) \in Seq(Seq(Pieces)) /\ Len(NewLine(ledger)) = Len(ledger) + 1
          /\ NewLine(ledger) # <<>> /\ NewLine(ledger)[Len(ledger) + 1] = <<>>
      BY <1>1, NewLineAtTheEnd
    <3> HIDE DEF b
    <3> QED BY <1>1, <3>1, <3>2
  <2>2. CASE ~pen[w].prefix
    BY <1>1, <2>2 DEF Begun, LedgerInv, Last
  <2> QED BY <1>1, <2>1, <2>2
<1> HIDE DEF b
<1>3. /\ p \in Seq(Seq(Pieces)) /\ Len(p) = Len(b) /\ p # <<>> /\ p[Len(b)] = Append(b[Len(b)], Whole(r))
  BY <1>1, <1>2, PutAtTheEnd
<1>4. Append(<<>>, Whole(r)) = <<Whole(r)>>
  OBVIOUS
<1> HIDE DEF p
<1>5. /\ NewLine(p) \in Seq(Seq(Pieces)) /\ Len(NewLine(p)) = Len(b) + 1 /\ NewLine(p)[Len(b) + 1] = <<>>
      /\ NewLine(p)[Len(b)] = Append(b[Len(b)], Whole(r))
  <2>1. /\ NewLine(p) \in Seq(Seq(Pieces)) /\ Len(NewLine(p)) = Len(p) + 1 /\ NewLine(p)[Len(p) + 1] = <<>>
        /\ \A i \in 1..Len(p) : NewLine(p)[i] = p[i]
    BY <1>3, NewLineAtTheEnd
  <2>2. Len(b) \in 1..Len(p)
    BY <1>2, <1>3
  <2> QED BY <1>3, <2>1, <2>2
<1>6. Written(w) = NewLine(p)
  BY DEF Written, p, b
<1>7. Len(b) \in 1..Len(Written(w)) - 1
  BY <1>2, <1>5, <1>6
<1> QED BY <1>2, <1>4, <1>5, <1>6, <1>7 DEF Last

(* What stands on a line of the ledger still stands on it in a longer one. *)
LEMMA LinesKept ==
  ASSUME LedgerInv, NEW r, OnALine(r), Longer(ledger')
  PROVE  OnALine(r)'
<1>1. PICK i \in 1..Len(ledger) - 1 : ledger[i] = <<Whole(r)>>
  BY DEF OnALine
<1>2. Len(ledger) \in Nat
  BY LenProperties DEF LedgerInv
<1>3. i \in 1..Len(ledger') - 1 /\ ledger'[i] = <<Whole(r)>>
  BY <1>1, <1>2 DEF Longer
<1>4. Whole(r)' = Whole(r)
  BY DEF Whole
<1> QED BY <1>3, <1>4 DEF OnALine

PenRecords == [at : {"idle", "look", "write"}, rec : Nat, prefix : BOOLEAN]
LEMMA AppendKeeps ==
  ASSUME LedgerInv, NEW w \in Writers, AppendStep(w)
  PROVE  LedgerInv'
<1>1. pen \in [Writers -> PenRecords] /\ pen[w] \in PenRecords /\ pen[w].rec \in Nat /\ Idle \in PenRecords
      /\ Idle.at = "idle"
  BY DEF LedgerInv, PenRecords, Idle
<1>7. PICK q : q = pen[w].rec
  OBVIOUS
<1>2. CASE Look(w)
  <2>1. /\ pen' = [pen EXCEPT ![w].at = "write", ![w].prefix = (ledger[Len(ledger)] # <<>>)]
        /\ UNCHANGED <<ledger, accepted, excused>>
    BY <1>2 DEF Look
  <2>2. pen' \in [Writers -> PenRecords]
    BY <1>1, <2>1 DEF PenRecords
  <2>3. ~pen'[w].prefix => Last(ledger) = <<>>
    BY <1>1, <2>1 DEF PenRecords, Last
  <2>4. \A v \in Writers \ {w} : pen'[v] = pen[v]
    BY <1>1, <2>1
  <2>5. ASSUME NEW v \in Writers, pen'[v].at = "write", ~pen'[v].prefix, pen'[v].rec \notin excused
        PROVE  Last(ledger) = <<>>
    <3>1. CASE v = w
      BY <2>3, <2>5, <3>1
    <3>2. CASE v # w
      BY <2>4, <2>5, <3>2 DEF LedgerInv
    <3> QED BY <3>1, <3>2
  <2>6. \A r \in accepted \ excused : OnALine(r)'
    BY <2>1 DEF LedgerInv, OnALine, Whole
  <2> QED BY <2>1, <2>2, <2>5, <2>6 DEF LedgerInv, PenRecords
<1>3. ASSUME NEW f \in Torn(w) \cup {Written(w), ledger}, ledger' = f, pen' = [pen EXCEPT ![w] = Idle],
             excused \subseteq excused', accepted \subseteq accepted', accepted' \subseteq accepted \cup {q},
             q \in accepted' \ excused' => q \in accepted \/ OnALine(q)',
             Last(f) = <<>> \/ f = ledger \/ AtRisk(w) \subseteq excused'
      PROVE  LedgerInv'
  <2>1. Longer(ledger')
    BY <1>3, TextsOf
  <2>2. pen' \in [Writers -> PenRecords]
    BY <1>1, <1>3
  <2>3. ASSUME NEW r \in accepted' \ excused' PROVE OnALine(r)'
    <3>1. CASE r \in accepted
      <4>1. OnALine(r)
        BY <1>3, <2>3, <3>1 DEF LedgerInv
      <4> QED BY <2>1, <4>1, LinesKept
    <3>2. CASE r \notin accepted
      <4>1. r = q
        BY <1>3, <2>3, <3>2
      <4>2. OnALine(q)'
        BY <1>3, <2>3, <3>2, <4>1
      <4> QED BY <4>1, <4>2
    <3> QED BY <3>1, <3>2
  <2>4. ASSUME NEW v \in Writers, pen'[v].at = "write", ~pen'[v].prefix, pen'[v].rec \notin excused'
        PROVE  Last(ledger') = <<>>
    <3>1. v # w /\ pen'[v] = pen[v]
      BY <1>1, <1>3, <2>4
    <3>2. pen[v].rec \in AtRisk(w)
      BY <2>4, <3>1 DEF AtRisk
    <3>3. Last(ledger) = <<>>
      BY <1>3, <2>4, <3>1 DEF LedgerInv
    <3> QED BY <1>3, <2>4, <3>1, <3>2, <3>3
  <2> QED BY <2>1, <2>2, <2>3, <2>4 DEF LedgerInv, Longer, PenRecords
<1>4. CASE Write(w)
  <2>1. /\ pen[w].at = "write" /\ ledger' = Written(w) /\ accepted' = accepted \cup {pen[w].rec}
        /\ pen' = [pen EXCEPT ![w] = Idle] /\ excused' = excused
    BY <1>4 DEF Write
  <2>2. Last(Written(w)) = <<>>
    BY <2>1, WrittenLine
  <2>3. q \notin excused => OnALine(q)'
    <3>1. Whole(q)' = Whole(q)
      BY DEF Whole
    <3>2. q \notin excused => \E i \in 1..Len(ledger') - 1 : ledger'[i] = <<Whole(q)>>
      BY <1>7, <2>1, WrittenLine
    <3> QED BY <3>1, <3>2 DEF OnALine
  <2> QED BY <1>3, <1>7, <2>1, <2>2, <2>3
<1>5. CASE WriteShort(w)
  BY <1>3, <1>5, <1>7 DEF WriteShort
<1>6. CASE AppendFails(w)
  <2>1. ledger' = ledger \/ (ledger' = Written(w) /\ pen[w].at = "write")
    BY <1>6 DEF AppendFails
  <2>2. ledger' = ledger \/ Last(ledger') = <<>>
    BY <2>1, WrittenLine
  <2> QED BY <1>3, <1>6, <1>7, <2>1, <2>2 DEF AppendFails
<1> QED BY <1>2, <1>4, <1>5, <1>6 DEF AppendStep

LEMMA StartAppendKeeps ==
  ASSUME LedgerInv, NEW w \in Writers, NEW r \in Nat, StartAppend(w, r), UNCHANGED <<ledger, accepted, excused>>
  PROVE  LedgerInv'
<1>1. /\ pen' = [pen EXCEPT ![w] = [Idle EXCEPT !.at = "look", !.rec = r]] /\ pen \in [Writers -> PenRecords]
      /\ [Idle EXCEPT !.at = "look", !.rec = r] \in PenRecords /\ [Idle EXCEPT !.at = "look", !.rec = r].at = "look"
  BY DEF StartAppend, LedgerInv, PenRecords, Idle
<1>2. pen' \in [Writers -> PenRecords] /\ pen'[w].at = "look" /\ \A v \in Writers \ {w} : pen'[v] = pen[v]
  BY <1>1
<1>3. \A v \in Writers : pen'[v].at = "write" /\ ~pen'[v].prefix /\ pen'[v].rec \notin excused => Last(ledger) = <<>>
  BY <1>2 DEF LedgerInv
<1> QED BY <1>2, <1>3 DEF LedgerInv, OnALine, PenRecords

LEMMA WriterDiesKeeps ==
  ASSUME LedgerInv, NEW w \in Writers, WriterDies(w)
  PROVE  LedgerInv'
<1>1. /\ pen \in [Writers -> PenRecords] /\ pen' = [pen EXCEPT ![w] = Idle] /\ Idle \in PenRecords /\ Idle.at = "idle"
      /\ accepted' = accepted /\ excused \subseteq excused' /\ ledger' \in Torn(w) \cup {Written(w), ledger}
      /\ ledger' = ledger \/ AtRisk(w) \subseteq excused'
  BY DEF WriterDies, LedgerInv, PenRecords, Idle
<1>2. pen' \in [Writers -> PenRecords] /\ pen'[w].at = "idle" /\ \A v \in Writers \ {w} : pen'[v] = pen[v]
  BY <1>1
<1>3. Longer(ledger')
  BY <1>1, TextsOf
<1>4. ASSUME NEW r \in accepted' \ excused' PROVE OnALine(r)'
  <2>1. OnALine(r)
    BY <1>1, <1>4 DEF LedgerInv
  <2> QED BY <1>3, <2>1, LinesKept
<1>5. ASSUME NEW v \in Writers, pen'[v].at = "write", ~pen'[v].prefix, pen'[v].rec \notin excused'
      PROVE  Last(ledger') = <<>>
  <2>1. v # w /\ pen'[v] = pen[v]
    BY <1>2, <1>5
  <2>2. pen[v].rec \in AtRisk(w)
    BY <1>5, <2>1 DEF AtRisk
  <2>3. Last(ledger) = <<>>
    BY <1>1, <1>5, <2>1 DEF LedgerInv
  <2> QED BY <1>1, <1>5, <2>1, <2>2, <2>3
<1> QED BY <1>2, <1>3, <1>4, <1>5 DEF LedgerInv, Longer, PenRecords

LEMMA LedgerStep ==
  ASSUME ChainInv, LedgerInv, [Next]_vars
  PROVE  LedgerInv'
<1>1. Writers = Hosts
  BY CapabilitiesAssumption
<1>2. ASSUME UNCHANGED ledgerVars PROVE LedgerInv'
  BY <1>2 DEF ledgerVars, LedgerInv, OnALine
<1>3. ASSUME NEW h \in Hosts, Step(h) PROVE LedgerInv'
  <2>1. CASE PublishDecision(h)
    <3>1. host[h].rev.decision \in Nat
      <4>1. HostOK(host[h]) /\ host[h].at = "decide"
        BY <2>1, Typed DEF PublishDecision, At
      <4> QED BY <4>1 DEF HostOK, Composes, Composed, Revisions
    <3> QED BY <1>1, <2>1, <3>1, StartAppendKeeps DEF PublishDecision
  <2>2. CASE AppendLedger(h)
    BY <1>1, <2>2, AppendKeeps DEF AppendLedger
  <2>3. CASE ReadChain(h) \/ JudgeTail(h) \/ CheckTail(h) \/ Publish(h)
    BY <1>2, <2>3 DEF ReadChain, JudgeTail, CheckTail, Publish
  <2>4. CASE Verify(h) \/ RecordVersion(h) \/ Attach(h) \/ RecordLoadFailure(h)
    BY <1>2, <2>4 DEF Verify, RecordVersion, Attach, RecordLoadFailure
  <2> QED BY <1>3, <2>1, <2>2, <2>3, <2>4 DEF Step
<1>4. ASSUME NEW h \in Hosts,
             CreateSession(h) \/ ResumeSession(h) \/ ViewCapabilities(h) \/ AskRollback(h) \/ CloseSession(h)
      PROVE  LedgerInv'
  BY <1>2, <1>4 DEF CreateSession, ResumeSession, ViewCapabilities, Start, AskRollback, CloseSession
<1>5. ASSUME NEW h \in Hosts, Die(h) PROVE LedgerInv'
  BY <1>1, <1>5, WriterDiesKeeps DEF Die
<1>6. ASSUME NEW u \in Versions, DamageBundle(u) PROVE LedgerInv'
  BY <1>2, <1>6 DEF DamageBundle
<1>7. ASSUME NEW n \in DOMAIN chain, DamageChain(n) \/ RepairChain(n) PROVE LedgerInv'
  BY <1>2, <1>7 DEF DamageChain, RepairChain
<1>8. CASE UNCHANGED vars
  BY <1>2, <1>8 DEF vars
<1> QED BY <1>3, <1>4, <1>5, <1>6, <1>7, <1>8 DEF Next

LEMMA LedgerInitially == Init => LedgerInv
<1> SUFFICES ASSUME Init PROVE LedgerInv
  OBVIOUS
<1>1. ledger = <<<<>>>> /\ pen = [w \in Writers |-> Idle] /\ accepted = {}
  BY DEF Init, LedgerInit
<1>2. <<>> \in Seq(Pieces)
  BY EmptySeq
<1>3. ledger \in Seq(Seq(Pieces)) /\ ledger # <<>>
  BY <1>1, <1>2
<1>4. pen \in [Writers -> PenRecords] /\ \A w \in Writers : pen[w].at = "idle"
  BY <1>1 DEF Idle, PenRecords
<1> QED BY <1>1, <1>3, <1>4 DEF LedgerInv, PenRecords

-----------------------------------------------------------------------------
(* The invariant of the whole is inductive. *)
THEOREM CapabilitiesInvariant == Spec => [](ChainInv /\ SessionInv /\ LedgerInv)
<1>1. ChainInv /\ SessionInv /\ LedgerInv /\ [Next]_vars => (ChainInv /\ SessionInv /\ LedgerInv)'
  BY ChainStep, SessionStep, LedgerStep
<1>2. Init => ChainInv /\ SessionInv /\ LedgerInv
  BY ChainInitially, SessionInitially, LedgerInitially
<1> QED BY <1>1, <1>2, PTL DEF Spec

(* A race between processes that roll back never damages the chain: what   *)
(* commitActivation checks and publishExclusive publishes always follows   *)
(* the last file, and no two files name the same decision.                 *)
THEOREM ChainStaysWhole == Spec => []CapabilitiesInv
<1>1. ChainInv => CapabilitiesInv
  <2> SUFFICES ASSUME ChainInv PROVE CapabilitiesInv
    OBVIOUS
  <2>1. \A h \in Hosts : host[h].tries \in 0..MaxAttempts /\ running[h] \in Versions \cup {Baseline, None}
    BY Typed DEF HostRecords, All
  <2>2. (\A n \in DOMAIN chain : chain[n].readable) => ~Problem
    BY Typed, ReadersView
  <2>3. \A i, j \in DOMAIN chain : i # j => chain[i].rev.decision # chain[j].rev.decision
    BY Typed DEF ChainOK, OwnDecision
  <2> QED BY <2>1, <2>2, <2>3 DEF CapabilitiesInv
<1> QED BY <1>1, CapabilitiesInvariant, PTL

(* Only a version that does not pass its checks is taken back without the  *)
(* user, however many processes find it so and however far the chain has   *)
(* moved since; and the user's rollback stops at the version he asked for  *)
(* (CapabilityStore.rollback, rollback of sdk/capabilities.ts).            *)
THEOREM OnlyBadVersionsFall == Spec => []RollbacksAreMeant
<1>1. ChainInv => RollbacksAreMeant
  <2> SUFFICES ASSUME ChainInv PROVE RollbacksAreMeant
    OBVIOUS
  <2>1. \A n \in DOMAIN chain : chain[n].rev.trigger = "load-failure" => ~Usable(chain[n].rev.from)
    BY Typed DEF ChainOK, OnlyBadFall
  <2>2. ASSUME NEW h \in Hosts, host[h].at \in {"decide", "ledger"}, host[h].why = "manual"
        PROVE  host[h].version \in ToSet(Advance(host[h].base, host[h].rev).stack)
    <3>1. Meant(host[h]) /\ Composes(host[h])
      BY Typed DEF HostOK
    <3>2. host[h].version \in ToSet(Front(host[h].base.stack)) /\ host[h].rev.type = "rollback"
      BY <2>2, <3>1 DEF Meant, Composes, Composed
    <3> QED BY <3>2 DEF Advance
  <2> QED BY <2>1, <2>2 DEF RollbacksAreMeant
<1> QED BY <1>1, CapabilitiesInvariant, PTL

(* What is settled on is the tail of the chain, unless it has moved or was *)
(* damaged, and an open session runs on the version that it has recorded   *)
(* last, through failed loads, deaths and resumes (resolveVersion,         *)
(* resumeVersion, loadCapabilities).                                       *)
THEOREM SessionsRunOnRecorded == Spec => []SessionsOnAdopted
<1>1. ChainInv /\ SessionInv => SessionsOnAdopted
  <2> SUFFICES ASSUME ChainInv, SessionInv, NEW h \in Hosts
               PROVE  /\ At(h, "record") /\ host[h].base = Adoption /\ ~host[h].problem => host[h].version = Adoption.version
                      /\ running[h] # None => running[h] = Last(sessions[h])
    BY DEF SessionsOnAdopted
  <2>1. Settled(host[h])
    BY Typed DEF HostOK
  <2>2. SessionOK(h)
    BY DEF SessionInv
  <2> QED BY <2>1, <2>2 DEF Settled, SessionOK, At
<1> QED BY <1>1, CapabilitiesInvariant, PTL

(* A record whose append resolved is read back, whatever other processes   *)
(* append and whoever dies, but in the windows that Ledger names           *)
(* (JsonlLedger.write, read).                                              *)
THEOREM LedgerKeepsItsRecords == Spec => []LedgerKeepsRecords
<1>1. LedgerInv => LedgerKeepsRecords
  <2> SUFFICES ASSUME LedgerInv, NEW r \in accepted \ excused PROVE r \in Readable(ledger)
    BY DEF LedgerKeepsRecords
  <2>1. PICK i \in 1..Len(ledger) - 1 : ledger[i] = <<Whole(r)>>
    BY DEF LedgerInv, OnALine
  <2>2. ledger[i] # <<>> /\ ledger[i][1].rec = r
    BY <2>1 DEF Whole
  <2> QED BY <2>1, <2>2 DEF Readable
<1> QED BY <1>1, CapabilitiesInvariant, PTL
==============================================================================
