------------------------- MODULE StrategyTrialProofs -------------------------
(***************************************************************************)
(* Proofs about StrategyTrial: its types, that the lock is held by who is  *)
(* changing a live file and by nobody else, and that never are two changes *)
(* on trial, for any number of commands, changes, deaths and overlaps; and *)
(* what holds as long as commands do not overlap.                          *)
(*                                                                         *)
(* OneTrial is not inductive: that nothing is on trial is looked at when   *)
(* the lock is taken (Lock) and made use of when the history is written    *)
(* (LogApply).  LogClear says that it stays so in between, for which the   *)
(* lock must exclude (LockHeld).                                           *)
(*                                                                         *)
(* SoloInv, of commands that do not overlap: each application replaced a   *)
(* version that one below it left (Chained), what is live is on the stack  *)
(* (Recorded), and only the newest application of a kind can be on trial   *)
(* (NewestOnly); and what the command under way knows of it at each step   *)
(* (Written, Judged, Switched).                                            *)
(***************************************************************************)
EXTENDS StrategyTrial, SequenceTheorems, TLAPS

USE TrialAssumption

Jobs == [cmd : Commands \cup {None}, on : BOOLEAN, allow : BOOLEAN, change : {0} \cup Changes,
         kind : Kinds, extended : BOOLEAN, trial : [change : {0} \cup Changes, before : Versions]]
Entries == [change : Changes, before : Versions]

\* Everything but where the commands are.
FilesOK ==
    /\ day \in Days /\ {edits, deaths, overlaps} \subseteq 0..MaxFaults
    /\ sealed \in Seq([kind : Kinds, base : Versions, day : Days]) /\ Len(sealed) <= MaxChanges
    /\ latest \in {0} \cup Changes /\ waiting \in {0} \cup Changes
    /\ live \in [Kinds -> Versions]
    /\ stack \in [Kinds -> Seq(Entries)]
    /\ applied \in Seq([change : Changes, day : Days])
    /\ result \in [Changes -> Results \cup {None}]
    /\ extended \subseteq Changes /\ reverts \in Nat
    /\ auto \in BOOLEAN
    /\ lock \in Procs \cup {None}

JobsOK == pc \in [Procs -> Labels] /\ job \in [Procs -> Jobs]

\* What is waiting, applied or about to be was sealed.
KnownFiles ==
    /\ latest <= Len(sealed) /\ waiting <= Len(sealed)
    /\ \A k \in Kinds : \A i \in 1..Len(stack[k]) : stack[k][i].change <= Len(sealed)

InHand == {"check", "write", "log", "swap"}

KnownJobs == \A p \in Procs :
    /\ pc[p] \in InHand => job[p].change \in 1..Len(sealed)
    /\ pc[p] = "judge" => job[p].trial.change \in Changes

\* The lock is held by who is at work under it.
Critical == {"log", "swap", "undone"}
LockHeld == \A p \in Procs : pc[p] \in Critical <=> lock = p

\* Who is about to log an application finds nothing on trial.
LogClear == \A p \in Procs : pc[p] = "log" => OnTrial = {}

IInv == FilesOK /\ JobsOK /\ KnownFiles /\ KnownJobs /\ LockHeld /\ LogClear /\ OneTrial

-----------------------------------------------------------------------------
(* Facts about sequences and the changes on trial.                         *)

LEMMA SubSeqFacts ==
    ASSUME NEW S, NEW s \in Seq(S), NEW n \in 0..Len(s)
    PROVE  /\ SubSeq(s, 1, n) \in Seq(S) /\ Len(SubSeq(s, 1, n)) = n
           /\ \A i \in 1..n : SubSeq(s, 1, n)[i] = s[i]
<1>1. \A i \in 1..n : s[i] \in S
    OBVIOUS
<1> QED
    BY <1>1, SubSeqProperties

LEMMA FrontFacts ==
    ASSUME NEW S, NEW s \in Seq(S), s # <<>>
    PROVE  /\ Front(s) \in Seq(S) /\ Len(Front(s)) = Len(s) - 1
           /\ \A i \in 1..Len(Front(s)) : i \in 1..Len(s) /\ Front(s)[i] = s[i]
           /\ Last(s) \in S /\ Len(s) \in 1..Len(s) /\ Last(s) = s[Len(s)]
<1>1. Len(s) \in Nat /\ Len(s) # 0
    OBVIOUS
<1>2. Len(s) \in 1..Len(s) /\ Last(s) = s[Len(s)] /\ Last(s) \in S
    BY <1>1 DEF Last
<1>3. Len(s) - 1 \in 0..Len(s)
    BY <1>1
<1>4. Front(s) \in Seq(S) /\ Len(Front(s)) = Len(s) - 1
    BY <1>1, <1>3, SubSeqFacts DEF Front
<1>5. ASSUME NEW i \in 1..(Len(s) - 1)
      PROVE  i \in 1..Len(s) /\ Front(s)[i] = s[i]
    BY <1>1, <1>3, SubSeqFacts DEF Front
<1> QED
    BY <1>2, <1>4, <1>5

LEMMA AppendFacts ==
    ASSUME NEW S, NEW s \in Seq(S), NEW x \in S
    PROVE  /\ Append(s, x) \in Seq(S) /\ Len(Append(s, x)) = Len(s) + 1 /\ Len(s) \in Nat
           /\ \A i \in 1..Len(s) : Append(s, x)[i] = s[i]
           /\ Append(s, x)[Len(s) + 1] = x
           /\ \A i \in 1..Len(Append(s, x)) : i \in 1..Len(s) \/ i = Len(s) + 1
    OBVIOUS

LEMMA SealedLen == FilesOK => Len(sealed) \in Nat /\ Len(sealed) \in 0..MaxChanges
    BY DEF FilesOK

LEMMA StackType ==
    ASSUME FilesOK, NEW k \in Kinds
    PROVE  stack[k] \in Seq(Entries) /\ \A i \in 1..Len(stack[k]) : stack[k][i] \in Entries
<1>1. stack[k] \in Seq(Entries)
    BY DEF FilesOK
<1> QED
    BY <1>1

LEMMA OnTrialFacts ==
    ASSUME FilesOK, NEW e
    PROVE  e \in OnTrial <=> /\ \E k \in Kinds : \E i \in 1..Len(stack[k]) : e = stack[k][i]
                             /\ result[e.change] = None
    BY DEF OnTrial

LEMMA OnTrialType ==
    ASSUME FilesOK, KnownFiles, NEW e \in OnTrial
    PROVE  e \in Entries /\ e.change \in Changes /\ e.change \in 1..Len(sealed)
<1>0. PICK k \in Kinds : \E i \in 1..Len(stack[k]) : e = stack[k][i]
    BY OnTrialFacts
<1>1. PICK i \in 1..Len(stack[k]) : e = stack[k][i]
    BY <1>0
<1>2. stack[k][i] \in Entries
    BY <1>1, StackType
<1>3. e \in Entries /\ e.change \in Changes /\ Len(sealed) \in Nat
    BY <1>1, <1>2, SealedLen DEF Entries
<1>4. e.change <= Len(sealed)
    BY <1>1 DEF KnownFiles
<1> QED
    BY <1>1, <1>2, <1>3, <1>4 DEF Changes, TrialAssumption

LEMMA OnTrialSame ==
    ASSUME UNCHANGED <<stack, result>>
    PROVE  OnTrial' = OnTrial
    BY DEF OnTrial

\* Popping a stack and noting a result takes changes off trial only.
LEMMA PoppedFacts ==
    ASSUME FilesOK, NEW k \in Kinds
    PROVE  /\ Popped(k) \in [Kinds -> Seq(Entries)]
           /\ \A j \in Kinds : \A i \in 1..Len(Popped(k)[j]) : i \in 1..Len(stack[j]) /\ Popped(k)[j][i] = stack[j][i]
<1> DEFINE shorter == IF stack[k] = <<>> THEN stack[k] ELSE Front(stack[k])
<1>1. stack \in [Kinds -> Seq(Entries)] /\ stack[k] \in Seq(Entries)
    BY DEF FilesOK
<1>2. /\ shorter \in Seq(Entries)
      /\ \A i \in 1..Len(shorter) : i \in 1..Len(stack[k]) /\ shorter[i] = stack[k][i]
    BY <1>1, FrontFacts
<1>3. Popped(k) = [stack EXCEPT ![k] = shorter]
    BY DEF Popped
<1> HIDE DEF shorter
<1> QED
    BY <1>1, <1>2, <1>3

LEMMA TrialsEndOnly ==
    ASSUME FilesOK, FilesOK',
           \A j \in Kinds : \A i \in 1..Len(stack'[j]) : i \in 1..Len(stack[j]) /\ stack'[j][i] = stack[j][i],
           \A c \in Changes : result'[c] = None => result[c] = None
    PROVE  OnTrial' \subseteq OnTrial
<1> SUFFICES ASSUME NEW e \in OnTrial' PROVE e \in OnTrial
    OBVIOUS
<1>0. PICK k \in Kinds : \E i \in 1..Len(stack'[k]) : e = stack'[k][i] /\ result'[e.change] = None
    BY DEF OnTrial
<1>1. PICK i \in 1..Len(stack'[k]) : e = stack'[k][i] /\ result'[e.change] = None
    BY <1>0
<1>2. e = stack[k][i] /\ i \in 1..Len(stack[k])
    BY <1>1
<1>3. stack[k][i] \in Entries
    BY <1>2, StackType
<1> QED
    BY <1>1, <1>2, <1>3, OnTrialFacts DEF Entries

LEMMA RecordFacts ==
    ASSUME FilesOK, NEW c, NEW res \in Results, Record(c, res)
    PROVE  /\ result' \in [Changes -> Results \cup {None}] /\ reverts' \in Nat
           /\ \A d \in Changes : result'[d] = None => result[d] = None
<1>1. res # None
    BY DEF TrialAssumption
<1>2. result \in [Changes -> Results \cup {None}] /\ reverts \in Nat
    BY DEF FilesOK
<1>3. result' = [result EXCEPT ![c] = res] /\ reverts' = IF res = "reverted" THEN reverts + 1 ELSE 0
    BY DEF Record
<1>4. \A d \in Changes : result'[d] = IF d = c THEN res ELSE result[d]
    BY <1>2, <1>3
<1>5. result' \in [Changes -> Results \cup {None}]
    BY <1>2, <1>3
<1> QED
    BY <1>1, <1>2, <1>3, <1>4, <1>5

-----------------------------------------------------------------------------
(* What a step of a command must keep.                                     *)

\* Only p moves.
Only(p) == JobsOK' /\ \A q \in Procs \ {p} : pc'[q] = pc[q] /\ job'[q] = job[q]

LEMMA MoveFacts ==
    ASSUME JobsOK, NEW p \in Procs, NEW label \in Labels, NEW j \in Jobs, Goto(p, label), Remember(p, j)
    PROVE  Only(p) /\ pc'[p] = label /\ job'[p] = j
    BY DEF JobsOK, Goto, Remember, Only

LEMMA KeepFacts ==
    ASSUME JobsOK, NEW p \in Procs, NEW label \in Labels, Keep(p, label)
    PROVE  Only(p) /\ pc'[p] = label /\ job'[p] = job[p]
    BY DEF JobsOK, Goto, Keep, Only

\* Where p goes and what it remembers there.
LEMMA JobStep ==
    ASSUME IInv, NEW p \in Procs, Only(p),
           Len(sealed) <= Len(sealed'), Len(sealed') \in Nat, Len(sealed) \in Nat,
           pc'[p] \in InHand => job'[p].change \in 1..Len(sealed'),
           pc'[p] = "judge" => job'[p].trial.change \in Changes,
           pc'[p] \in Critical <=> lock' = p,
           \A q \in Procs \ {p} : lock' = q <=> lock = q,
           \A q \in Procs \ {p} : pc[q] = "log" => OnTrial' = {},
           pc'[p] = "log" => OnTrial' = {}
    PROVE  JobsOK' /\ KnownJobs' /\ LockHeld' /\ LogClear'
<1>1. JobsOK'
    BY DEF Only
<1>2. KnownJobs'
    <2> SUFFICES ASSUME NEW q \in Procs
                 PROVE  /\ pc'[q] \in InHand => job'[q].change \in 1..Len(sealed')
                        /\ pc'[q] = "judge" => job'[q].trial.change \in Changes
        BY DEF KnownJobs
    <2>1. CASE q = p
        BY <2>1
    <2>2. CASE q # p
        BY <2>2 DEF Only, KnownJobs, IInv
    <2> QED
        BY <2>1, <2>2
<1>3. LockHeld'
    BY DEF LockHeld, Only, IInv
<1>4. LogClear'
    BY DEF LogClear, Only, IInv
<1> QED
    BY <1>1, <1>2, <1>3, <1>4

\* Nothing but the place of p changes, and it neither takes nor gives up the lock.
LEMMA QuietStep ==
    ASSUME IInv, NEW p \in Procs, Only(p), FilesOK',
           UNCHANGED <<sealed, stack, result, lock>>,
           latest' <= Len(sealed), waiting' <= Len(sealed),
           pc[p] \notin Critical, pc'[p] \notin Critical,
           pc'[p] \in InHand => job'[p].change \in 1..Len(sealed),
           pc'[p] = "judge" => job'[p].trial.change \in Changes
    PROVE  IInv'
<1>1. OnTrial' = OnTrial
    BY OnTrialSame
<1>2. lock # p
    BY DEF IInv, LockHeld
<1>3. KnownFiles' /\ OneTrial'
    BY <1>1 DEF IInv, KnownFiles, OneTrial
<1>4. \A q \in Procs \ {p} : pc[q] = "log" => OnTrial' = {}
    BY <1>1 DEF IInv, LogClear
<1>5. pc'[p] # "log"
    BY DEF Critical
<1>6. (pc'[p] \in Critical <=> lock' = p) /\ \A q \in Procs \ {p} : lock' = q <=> lock = q
    BY <1>2
<1>7. Len(sealed) \in Nat /\ Len(sealed') = Len(sealed)
    BY SealedLen DEF IInv
<1>8. JobsOK' /\ KnownJobs' /\ LockHeld' /\ LogClear'
    BY <1>4, <1>5, <1>6, <1>7, JobStep
<1> QED
    BY <1>3, <1>8 DEF IInv

\* Trials may end, and p may give up the lock.
LEMMA EndingStep ==
    ASSUME IInv, NEW p \in Procs, Only(p), FilesOK', UNCHANGED <<sealed, latest, waiting>>,
           \A k \in Kinds : \A i \in 1..Len(stack'[k]) : i \in 1..Len(stack[k]) /\ stack'[k][i] = stack[k][i],
           \A c \in Changes : result'[c] = None => result[c] = None,
           (lock' = lock /\ lock # p) \/ (lock = p /\ lock' = None),
           pc'[p] \notin Critical, pc'[p] \notin InHand, pc'[p] # "judge"
    PROVE  IInv'
<1>1. OnTrial' \subseteq OnTrial
    BY TrialsEndOnly DEF IInv
<1>2. KnownFiles'
    BY DEF IInv, KnownFiles
<1>3. OneTrial'
    BY <1>1 DEF IInv, OneTrial
<1>4. \A q \in Procs \ {p} : pc[q] = "log" => OnTrial' = {}
    BY <1>1 DEF IInv, LogClear
<1>5. (pc'[p] \in Critical <=> lock' = p) /\ \A q \in Procs \ {p} : lock' = q <=> lock = q
    BY DEF TrialAssumption
<1>6. Len(sealed) \in Nat /\ Len(sealed') = Len(sealed)
    BY SealedLen DEF IInv
<1>7. pc'[p] # "log"
    BY DEF InHand
<1>8. JobsOK' /\ KnownJobs' /\ LockHeld' /\ LogClear'
    BY <1>4, <1>5, <1>6, <1>7, JobStep
<1> QED
    BY <1>2, <1>3, <1>8 DEF IInv

-----------------------------------------------------------------------------
(* Where a command goes.                                                   *)

LEMMA NoJobType ==
    /\ NoJob \in Jobs /\ NoJob.change = 0 /\ NoJob.trial.change = 0
    /\ Entry(0, 0) \in [change : {0} \cup Changes, before : Versions]
    BY DEF NoJob, NoEntry, Entry, Jobs, Kinds, Versions, TrialAssumption

LEMMA EndFacts ==
    ASSUME JobsOK, NEW p \in Procs, End(p)
    PROVE  Only(p) /\ pc'[p] = "idle"
    BY NoJobType, MoveFacts DEF End, Labels

LEMMA OnwardFacts ==
    ASSUME JobsOK, NEW p \in Procs, NEW label \in Labels, NEW on \in BOOLEAN, Onward(p, label, on)
    PROVE  Only(p) /\ pc'[p] = label
<1> DEFINE j == [NoJob EXCEPT !.cmd = job[p].cmd, !.on = on, !.allow = job[p].allow]
<1>1. job[p].cmd \in Commands \cup {None} /\ job[p].allow \in BOOLEAN
    BY DEF JobsOK, Jobs
<1>2. j \in Jobs
    BY <1>1, NoJobType DEF Jobs
<1>3. Goto(p, label) /\ Remember(p, j)
    BY DEF Onward
<1> QED
    BY <1>2, <1>3, MoveFacts

LEMMA JobFacts ==
    ASSUME JobsOK, NEW p \in Procs
    PROVE  /\ job[p] \in Jobs /\ job[p].on \in BOOLEAN /\ job[p].kind \in Kinds
           /\ job[p].trial \in [change : {0} \cup Changes, before : Versions]
           /\ job[p].change \in {0} \cup Changes
    BY DEF JobsOK, Jobs

\* What no action of a command disturbs when it leaves the files alone.
LEMMA StutterFacts ==
    ASSUME IInv, Stutter
    PROVE  /\ FilesOK' /\ UNCHANGED <<sealed, stack, result, lock>>
           /\ latest' <= Len(sealed) /\ waiting' <= Len(sealed)
    BY DEF IInv, Stutter, FilesOK, KnownFiles, files, history, ghosts

\* No command moves.
LEMMA OuterStep ==
    ASSUME IInv, FilesOK', UNCHANGED <<sealed, stack, result, lock, pc, job>>,
           latest' <= Len(sealed), waiting' <= Len(sealed)
    PROVE  IInv'
<1>1. OnTrial' = OnTrial
    BY OnTrialSame
<1>2. JobsOK' /\ KnownFiles' /\ KnownJobs'
    BY DEF IInv, JobsOK, KnownFiles, KnownJobs
<1>3. LockHeld' /\ LogClear' /\ OneTrial'
    BY <1>1 DEF IInv, LockHeld, LogClear, OneTrial
<1> QED
    BY <1>2, <1>3 DEF IInv

-----------------------------------------------------------------------------
(* The clock, and by hand.                                                 *)

LEMMA TickStep ==
    ASSUME IInv, Tick
    PROVE  IInv'
<1>1. FilesOK'
    BY DEF IInv, Tick, FilesOK, Days, files, history
<1> QED
    BY <1>1, OuterStep DEF IInv, Tick, KnownFiles, files, history

LEMMA BoundFacts ==
    ASSUME NEW a \in Nat, NEW b \in Nat, NEW c \in Nat, NEW n \in Nat, a + b + c <= n
    PROVE  a \in 0..n /\ b \in 0..n /\ c \in 0..n
    OBVIOUS

LEMMA OverlapFacts ==
    ASSUME FilesOK, Overlap, deaths' = deaths, edits' \in {edits, edits + 1}
    PROVE  {edits', deaths', overlaps'} \subseteq 0..MaxFaults
<1>1. edits \in Nat /\ deaths \in Nat /\ overlaps \in Nat
    BY DEF FilesOK
<1>2. edits' \in Nat /\ deaths' \in Nat /\ overlaps' \in Nat
    BY <1>1 DEF Overlap
<1>3. edits' + deaths' + overlaps' <= MaxFaults
    BY DEF Overlap, Bounded
<1> QED
    <2>1. MaxFaults \in Nat
        BY DEF TrialAssumption
    <2>2. edits' \in 0..MaxFaults /\ deaths' \in 0..MaxFaults /\ overlaps' \in 0..MaxFaults
        BY <1>2, <1>3, <2>1, BoundFacts
    <2> QED
        BY <2>2

LEMMA EditStep ==
    ASSUME IInv, NEW k \in Kinds, Edit(k)
    PROVE  IInv'
<1>1. {edits', deaths', overlaps'} \subseteq 0..MaxFaults
    BY OverlapFacts DEF IInv, Edit
<1>2. MaxChanges + edits' \in Versions
    BY <1>1 DEF Versions, TrialAssumption
<1>3. live' \in [Kinds -> Versions]
    BY <1>2 DEF Edit, IInv, FilesOK
<1>4. FilesOK'
    BY <1>1, <1>3 DEF IInv, Edit, FilesOK, history
<1> QED
    BY <1>4, OuterStep DEF IInv, Edit, KnownFiles, history

LEMMA SwitchStep ==
    ASSUME IInv, SetSwitch
    PROVE  IInv'
<1>1. {edits', deaths', overlaps'} \subseteq 0..MaxFaults
    BY OverlapFacts DEF IInv, SetSwitch
<1>2. FilesOK'
    BY <1>1 DEF IInv, SetSwitch, FilesOK, history
<1> QED
    BY <1>2, OuterStep DEF IInv, SetSwitch, KnownFiles, history

LEMMA ObserveStep ==
    ASSUME IInv, NEW p \in Procs, ObserveOnly(p)
    PROVE  IInv'
<1>1. FilesOK'
    BY DEF IInv, ObserveOnly, FilesOK, history, ghosts
<1>2. latest' <= Len(sealed) /\ waiting' <= Len(sealed)
    BY SealedLen DEF IInv, ObserveOnly, KnownFiles
<1> QED
    BY <1>1, <1>2, OuterStep DEF ObserveOnly, history

-----------------------------------------------------------------------------
(* A command begins, and what a reflection seals.                          *)

LEMMA BeginStep ==
    ASSUME IInv, NEW p \in Procs, NEW label \in Labels, NEW j \in Jobs, Begin(p, label, j),
           label \notin Critical, label # "judge", label \in InHand => j.change \in 1..Len(sealed)
    PROVE  IInv'
<1>1. Only(p) /\ pc'[p] = label /\ job'[p] = j
    BY MoveFacts DEF Begin, IInv
<1>2. {edits', deaths', overlaps'} \subseteq 0..MaxFaults
    BY OverlapFacts DEF IInv, Begin
<1>3. FilesOK'
    BY <1>2 DEF IInv, Begin, FilesOK, files, history
<1>4. pc[p] \notin Critical
    BY DEF Begin, Critical
<1> QED
    BY <1>1, <1>3, <1>4, QuietStep DEF Begin, IInv, KnownFiles, files, history

LEMMA AllowanceType == Allowances \subseteq BOOLEAN
<1>1. (Risky # {}) \in BOOLEAN
    OBVIOUS
<1> QED
    BY <1>1 DEF Allowances

LEMMA BeginPendingStep ==
    ASSUME IInv, NEW p \in Procs, BeginPending(p)
    PROVE  IInv'
<1>1. PICK allow \in Allowances :
          Begin(p, "settle", [NoJob EXCEPT !.cmd = "pending", !.on = auto, !.allow = allow])
    BY DEF BeginPending
<1> DEFINE j == [NoJob EXCEPT !.cmd = "pending", !.on = auto, !.allow = allow]
<1>2. "pending" \in Commands /\ auto \in BOOLEAN /\ allow \in BOOLEAN
    BY <1>1, AllowanceType DEF Begin, NoJob, IInv, FilesOK
<1>3. j \in Jobs
    BY <1>2, NoJobType DEF Jobs
<1> QED
    BY <1>1, <1>3, BeginStep DEF Labels, Critical, InHand

LEMMA BeginApplyStep ==
    ASSUME IInv, NEW p \in Procs, BeginApply(p)
    PROVE  IInv'
<1>0. PICK c \in 1..Len(sealed) : \E allow \in Allowances :
          Begin(p, "check", [NoJob EXCEPT !.cmd = "apply", !.allow = allow, !.change = c])
    BY DEF BeginApply
<1>1. PICK allow \in Allowances :
          Begin(p, "check", [NoJob EXCEPT !.cmd = "apply", !.allow = allow, !.change = c])
    BY <1>0
<1> DEFINE j == [NoJob EXCEPT !.cmd = "apply", !.allow = allow, !.change = c]
<1>2. "apply" \in Commands /\ allow \in BOOLEAN
    BY <1>1, AllowanceType DEF Begin, NoJob
<1>3. c \in Changes
    BY SealedLen DEF IInv, Changes, TrialAssumption
<1>4. j \in Jobs /\ j.change = c
    BY <1>2, <1>3, NoJobType DEF Jobs
<1> HIDE DEF j
<1>5. Begin(p, "check", j)
    BY <1>1 DEF j
<1> QED
    BY <1>4, <1>5, BeginStep DEF Labels, Critical

LEMMA BeginRollbackStep ==
    ASSUME IInv, NEW p \in Procs, BeginRollback(p)
    PROVE  IInv'
<1>1. PICK k \in Kinds : Begin(p, "undo", [NoJob EXCEPT !.cmd = "rollback", !.kind = k])
    BY DEF BeginRollback
<1> DEFINE j == [NoJob EXCEPT !.cmd = "rollback", !.kind = k]
<1>2. "rollback" \in Commands
    BY <1>1 DEF Begin, NoJob
<1>3. j \in Jobs
    BY <1>2, NoJobType DEF Jobs
<1> QED
    BY <1>1, <1>3, BeginStep DEF Labels, Critical, InHand

LEMMA BeginAutoStep ==
    ASSUME IInv, NEW p \in Procs, BeginAuto(p)
    PROVE  IInv'
<1> DEFINE j == [NoJob EXCEPT !.cmd = "auto", !.on = auto, !.trial = Entry(0, live["knobs"])]
<1>1. "auto" \in Commands /\ auto \in BOOLEAN
    BY DEF BeginAuto, Begin, NoJob, IInv, FilesOK
<1>2. Entry(0, live["knobs"]) \in [change : {0} \cup Changes, before : Versions]
    BY DEF IInv, FilesOK, Kinds, Entry
<1>3. j \in Jobs
    BY <1>1, <1>2, NoJobType DEF Jobs
<1> HIDE DEF j
<1>4. Begin(p, "reflect", j)
    BY DEF BeginAuto, j
<1> QED
    BY <1>3, <1>4, BeginStep DEF Labels, Critical, InHand

\* One more change is sealed; nothing goes on trial by it.
LEMMA SealStep ==
    ASSUME IInv, NEW p \in Procs, NEW kind \in Kinds, Seal(p, kind), Only(p),
           latest' \in {latest, Len(sealed')}, waiting' \in {waiting, Len(sealed')},
           pc'[p] \in {"reflect", "idle", "check"},
           pc'[p] = "check" => job'[p].change = Len(sealed')
    PROVE  IInv'
<1> DEFINE new == [kind |-> kind, base |-> job[p].trial.before, day |-> day]
<1>1. new \in [kind : Kinds, base : Versions, day : Days]
    BY JobFacts DEF IInv, FilesOK
<1> HIDE DEF new
<1>2. sealed' = Append(sealed, new)
    BY DEF Seal, new
<1>3. sealed \in Seq([kind : Kinds, base : Versions, day : Days]) /\ Len(sealed) < MaxChanges
    BY DEF Seal, IInv, FilesOK
<1>4. /\ sealed' \in Seq([kind : Kinds, base : Versions, day : Days])
      /\ Len(sealed') = Len(sealed) + 1 /\ Len(sealed) \in Nat
    BY <1>1, <1>2, <1>3, AppendFacts
<1>5. Len(sealed') \in Changes /\ Len(sealed') <= MaxChanges
    BY <1>3, <1>4 DEF Changes, TrialAssumption
<1>6. UNCHANGED <<live, auto, stack, applied, result, extended, reverts, lock, day, edits, deaths, overlaps>>
    BY DEF Seal, history, ghosts
<1>7. latest' \in {0} \cup Changes /\ waiting' \in {0} \cup Changes
    BY <1>5 DEF IInv, FilesOK
<1>8. FilesOK'
    BY <1>4, <1>5, <1>6, <1>7 DEF IInv, FilesOK
<1>9. OnTrial' = OnTrial
    BY <1>6, OnTrialSame
<1>10. \A k \in Kinds : \A i \in 1..Len(stack[k]) : stack[k][i].change \in Nat
    <2>1. \A k \in Kinds : \A i \in 1..Len(stack[k]) : stack[k][i] \in Entries
        BY StackType DEF IInv
    <2>2. Changes \subseteq Nat
        BY DEF Changes, TrialAssumption
    <2> QED
        BY <2>1, <2>2 DEF Entries
<1>11. latest <= Len(sealed') /\ waiting <= Len(sealed')
    <2>1. latest \in Nat /\ waiting \in Nat
        BY DEF IInv, FilesOK, Changes, TrialAssumption
    <2> QED
        BY <1>4, <2>1 DEF IInv, KnownFiles
<1>12. \A k \in Kinds : \A i \in 1..Len(stack'[k]) : stack'[k][i].change <= Len(sealed')
    BY <1>4, <1>6, <1>10 DEF IInv, KnownFiles
<1>13. KnownFiles' /\ OneTrial'
    BY <1>4, <1>9, <1>11, <1>12 DEF IInv, KnownFiles, OneTrial
<1>14. pc[p] \notin Critical /\ pc'[p] \notin Critical /\ pc'[p] # "log" /\ pc'[p] # "judge"
    BY DEF Seal, Critical
<1>15. lock # p
    BY <1>14 DEF IInv, LockHeld
<1>16. (pc'[p] \in Critical <=> lock' = p) /\ \A q \in Procs \ {p} : lock' = q <=> lock = q
    BY <1>6, <1>14, <1>15
<1>17. pc'[p] \in InHand => job'[p].change \in 1..Len(sealed')
    BY <1>4 DEF InHand
<1>18. \A q \in Procs \ {p} : pc[q] = "log" => OnTrial' = {}
    BY <1>9 DEF IInv, LogClear
<1>19. JobsOK' /\ KnownJobs' /\ LockHeld' /\ LogClear'
    BY <1>4, <1>14, <1>16, <1>17, <1>18, JobStep
<1> QED
    BY <1>8, <1>13, <1>19 DEF IInv

LEMMA SealSteps ==
    ASSUME IInv, NEW p \in Procs, SealLessons(p) \/ SealKnobs(p)
    PROVE  IInv'
<1>1. CASE SealLessons(p)
    <2> DEFINE j == [job[p] EXCEPT !.kind = "lessons"]
    <2>1. j \in Jobs
        BY JobFacts DEF IInv, Jobs, Kinds
    <2>2. JobsOK /\ pc[p] = "reflect" /\ pc' = pc /\ job' = [job EXCEPT ![p] = j]
        BY <1>1 DEF IInv, SealLessons, Seal, Remember
    <2> HIDE DEF j
    <2>3. Only(p) /\ pc'[p] = "reflect"
        BY <2>1, <2>2 DEF JobsOK, Only
    <2>4. Seal(p, "lessons") /\ waiting' = Len(sealed') /\ latest' = latest /\ "lessons" \in Kinds
        BY <1>1 DEF SealLessons, Kinds
    <2> QED
        BY <2>3, <2>4, SealStep
<1>2. CASE SealKnobs(p)
    <2>1. Seal(p, "knobs") /\ waiting' = waiting /\ latest' = Len(sealed') /\ "knobs" \in Kinds
        BY <1>2 DEF SealKnobs, Kinds
    <2>2. CASE End(p)
        BY <2>1, <2>2, EndFacts, SealStep DEF IInv
    <2>3. CASE Goto(p, "check") /\ Remember(p, [job[p] EXCEPT !.change = Len(sealed'), !.kind = "knobs"])
        <3> DEFINE j == [job[p] EXCEPT !.change = Len(sealed'), !.kind = "knobs"]
        <3>1. Len(sealed') \in Changes
            BY <2>1, SealedLen DEF Seal, IInv, FilesOK, Changes, TrialAssumption
        <3>2. j \in Jobs /\ j.change = Len(sealed')
            BY <3>1, JobFacts DEF IInv, Jobs, Kinds
        <3> HIDE DEF j
        <3>3. Goto(p, "check") /\ Remember(p, j)
            BY <2>3 DEF j
        <3>4. Only(p) /\ pc'[p] = "check" /\ job'[p] = j
            BY <3>2, <3>3, MoveFacts DEF IInv, Labels
        <3> QED
            BY <2>1, <3>2, <3>4, SealStep
    <2> QED
        BY <1>2, <2>2, <2>3 DEF SealKnobs
<1> QED
    BY <1>1, <1>2

LEMMA SealNothingStep ==
    ASSUME IInv, NEW p \in Procs, SealNothing(p)
    PROVE  IInv'
<1>1. Only(p) /\ pc'[p] = "idle"
    BY EndFacts DEF IInv, SealNothing
<1>2. FilesOK'
    BY DEF IInv, SealNothing, FilesOK, history, ghosts
<1>3. UNCHANGED <<sealed, stack, result, lock>> /\ latest' <= Len(sealed) /\ waiting' <= Len(sealed)
    BY SealedLen DEF IInv, SealNothing, KnownFiles, history
<1>4. pc[p] \notin Critical
    BY DEF SealNothing, Critical
<1> QED
    BY <1>1, <1>2, <1>3, <1>4, QuietStep DEF Critical, InHand

-----------------------------------------------------------------------------
(* Steps that leave the files alone.                                       *)

\* p goes on, to where it needs no change in hand.
LEMMA IdleStep ==
    ASSUME IInv, NEW p \in Procs, Stutter, Only(p), pc[p] \notin Critical,
           pc'[p] \in Labels \ (Critical \cup InHand \cup {"judge"})
    PROVE  IInv'
    BY StutterFacts, QuietStep

LEMMA NotAppliedFacts ==
    ASSUME IInv, NEW p \in Procs, NotApplied(p)
    PROVE  Only(p) /\ pc'[p] \in {"idle", "lessons"}
    BY EndFacts, OnwardFacts DEF NotApplied, IInv, Labels

LEMMA ResultlessSteps ==
    ASSUME IInv, NEW p \in Procs,
           NoTrial(p) \/ Deferred(p) \/ ChooseNone(p) \/ NoLessons(p) \/ Rejected(p) \/ Refused(p) \/ NotLocked(p)
    PROVE  IInv'
<1>1. CASE NoTrial(p)
    <2>1. Only(p) /\ pc'[p] = "choose"
        BY <1>1, JobFacts, OnwardFacts DEF NoTrial, IInv, Labels
    <2> QED
        BY <1>1, <2>1, IdleStep DEF NoTrial, Critical, InHand, Labels
<1>2. CASE Deferred(p) \/ NoLessons(p) \/ Rejected(p)
    <2>1. Only(p) /\ pc'[p] = "idle"
        BY <1>2, EndFacts DEF Deferred, NoLessons, Rejected, IInv
    <2> QED
        BY <1>2, <2>1, IdleStep DEF Deferred, NoLessons, Rejected, Critical, InHand, Labels
<1>3. CASE ChooseNone(p) \/ Refused(p)
    <2>1. Only(p) /\ pc'[p] \in {"idle", "lessons"}
        BY <1>3, NotAppliedFacts DEF ChooseNone, Refused
    <2> QED
        BY <1>3, <2>1, IdleStep DEF ChooseNone, Refused, Critical, InHand, Labels
<1>4. CASE NotLocked(p)
    <2>1. Only(p) /\ pc'[p] \in {"idle", "lessons"}
        BY <1>4, NotAppliedFacts, EndFacts DEF NotLocked, IInv
    <2> QED
        BY <1>4, <2>1, IdleStep DEF NotLocked, Critical, InHand, Labels
<1> QED
    BY <1>1, <1>2, <1>3, <1>4

LEMMA FindTrialStep ==
    ASSUME IInv, NEW p \in Procs, FindTrial(p)
    PROVE  IInv'
<1>1. PICK newest \in OnTrial :
          Remember(p, [job[p] EXCEPT !.trial = newest, !.kind = KindOf(newest.change),
                                     !.extended = newest.change \in extended])
    BY DEF FindTrial
<1>2. newest \in Entries /\ newest.change \in Changes /\ newest.change \in 1..Len(sealed)
    BY OnTrialType DEF IInv
<1>3. KindOf(newest.change) \in Kinds
    <2>1. sealed \in Seq([kind : Kinds, base : Versions, day : Days])
        BY DEF IInv, FilesOK
    <2>2. sealed[newest.change] \in [kind : Kinds, base : Versions, day : Days]
        BY <1>2, <2>1, ElementOfSeq
    <2> QED
        BY <2>2 DEF KindOf
<1>4. newest \in [change : {0} \cup Changes, before : Versions] /\ (newest.change \in extended) \in BOOLEAN
    BY <1>2 DEF Entries
<1> DEFINE j == [job[p] EXCEPT !.trial = newest, !.kind = KindOf(newest.change),
                               !.extended = newest.change \in extended]
<1>5. j \in Jobs /\ j.trial = newest
    BY <1>3, <1>4, JobFacts DEF IInv, Jobs
<1> HIDE DEF j
<1>6. Goto(p, "judge") /\ Remember(p, j) /\ Stutter /\ pc[p] = "settle"
    BY <1>1 DEF FindTrial, j
<1>7. Only(p) /\ pc'[p] = "judge" /\ job'[p] = j
    BY <1>5, <1>6, MoveFacts DEF IInv, Labels
<1> QED
    BY <1>2, <1>5, <1>6, <1>7, StutterFacts, QuietStep DEF Critical, InHand

\* What is taken in hand was sealed.
LEMMA ChooseSteps ==
    ASSUME IInv, NEW p \in Procs, NEW label \in {"check", "write"}, NEW c, NEW k \in Kinds,
           c \in {latest, waiting}, c # 0, pc[p] \in {"choose", "lessons"}, Stutter,
           Goto(p, label), Remember(p, [job[p] EXCEPT !.change = c, !.kind = k])
    PROVE  IInv'
<1> DEFINE j == [job[p] EXCEPT !.change = c, !.kind = k]
<1>1. c \in Changes /\ c <= Len(sealed)
    BY DEF IInv, FilesOK, KnownFiles
<1>2. c \in 1..Len(sealed)
    BY <1>1, SealedLen DEF IInv, Changes, TrialAssumption
<1>3. j \in Jobs /\ j.change = c
    BY <1>1, JobFacts DEF IInv, Jobs
<1> HIDE DEF j
<1>4. Only(p) /\ pc'[p] = label /\ job'[p] = j
    <2>1. Remember(p, j) /\ label \in Labels
        BY DEF j, Labels
    <2> QED
        BY <1>3, <2>1, MoveFacts DEF IInv
<1> QED
    BY <1>2, <1>3, <1>4, StutterFacts, QuietStep DEF Critical

LEMMA ChooseStep ==
    ASSUME IInv, NEW p \in Procs, ChooseKnobs(p) \/ ChooseLessons(p)
    PROVE  IInv'
    BY ChooseSteps DEF ChooseKnobs, ChooseLessons, MayApply, Due, Kinds

LEMMA PassedStep ==
    ASSUME IInv, NEW p \in Procs, Passed(p)
    PROVE  IInv'
<1>1. Only(p) /\ pc'[p] = "write" /\ job'[p] = job[p]
    BY KeepFacts DEF Passed, IInv, Labels
<1>2. job[p].change \in 1..Len(sealed)
    BY DEF Passed, IInv, KnownJobs, InHand
<1> QED
    BY <1>1, <1>2, StutterFacts, QuietStep DEF Passed, Critical

-----------------------------------------------------------------------------
(* Steps that end trials.                                                  *)

\* The result of a trial is noted.
LEMMA RecordStep ==
    ASSUME IInv, NEW p \in Procs, NEW c, NEW res \in Results, Record(c, res),
           UNCHANGED <<stack, applied, extended, files, lock, ghosts>>, Only(p), pc[p] \notin Critical,
           pc'[p] \in Labels \ (Critical \cup InHand \cup {"judge"})
    PROVE  IInv'
<1>1. /\ result' \in [Changes -> Results \cup {None}] /\ reverts' \in Nat
      /\ \A d \in Changes : result'[d] = None => result[d] = None
    BY RecordFacts DEF IInv
<1>2. FilesOK'
    BY <1>1 DEF IInv, FilesOK, files, ghosts
<1>3. lock' = lock /\ lock # p
    BY DEF IInv, LockHeld
<1> QED
    BY <1>1, <1>2, <1>3, EndingStep DEF files

LEMMA ResultSteps ==
    ASSUME IInv, NEW p \in Procs,
           Orphaned(p) \/ TimedOut(p) \/ Kept(p) \/ RevertFails(p) \/ Reverted(p)
    PROVE  IInv'
<1> USE DEF Critical, InHand, Labels, Results
<1>1. CASE Orphaned(p)
    <2>1. Only(p) /\ pc'[p] = "choose"
        BY <1>1, JobFacts, OnwardFacts DEF Orphaned, IInv
    <2> QED
        BY <1>1, <2>1, RecordStep DEF Orphaned
<1>2. CASE TimedOut(p) \/ Kept(p)
    <2>1. Close(p) /\ Judging(p)
        BY <1>2 DEF TimedOut, Kept
    <2>2. Only(p) /\ pc'[p] = "choose"
        BY <2>1, JobFacts, OnwardFacts DEF Close, IInv
    <2> QED
        BY <2>1, <2>2, RecordStep DEF Close, Judging
<1>3. CASE RevertFails(p)
    <2>1. Only(p) /\ pc'[p] = "idle"
        BY <1>3, EndFacts DEF RevertFails, IInv
    <2> QED
        BY <1>3, <2>1, RecordStep DEF RevertFails
<1>4. CASE Reverted(p)
    <2>1. Only(p) /\ pc'[p] \in {"switch", "choose"}
        BY <1>4, JobFacts, OnwardFacts DEF Reverted, IInv
    <2> QED
        BY <1>4, <2>1, RecordStep DEF Reverted
<1> QED
    BY <1>1, <1>2, <1>3, <1>4

\* An application is taken off the history.
LEMMA PopStep ==
    ASSUME IInv, NEW p \in Procs, NEW k \in Kinds, stack' = Popped(k),
           UNCHANGED <<applied, result, extended, reverts, files, ghosts>>, Only(p),
           (lock' = lock /\ pc[p] \notin Critical) \/ (lock' = None /\ pc[p] \in Critical),
           pc'[p] \in Labels \ (Critical \cup InHand \cup {"judge"})
    PROVE  IInv'
<1>1. /\ stack' \in [Kinds -> Seq(Entries)]
      /\ \A j \in Kinds : \A i \in 1..Len(stack'[j]) : i \in 1..Len(stack[j]) /\ stack'[j][i] = stack[j][i]
    BY PoppedFacts DEF IInv
<1>2. (lock' = lock /\ lock # p) \/ (lock = p /\ lock' = None)
    BY DEF IInv, LockHeld
<1>3. lock' \in Procs \cup {None}
    BY <1>2 DEF IInv, FilesOK
<1>4. FilesOK'
    BY <1>1, <1>3 DEF IInv, FilesOK, files, ghosts
<1> QED
    BY <1>1, <1>2, <1>4, EndingStep DEF files

LEMMA PopSteps ==
    ASSUME IInv, NEW p \in Procs, NeverLanded(p) \/ LogUndo(p) \/ SwapFails(p)
    PROVE  IInv'
<1> USE DEF Critical, InHand, Labels
<1>1. CASE NeverLanded(p)
    <2>1. Only(p) /\ pc'[p] = "orphan" /\ "knobs" \in Kinds
        BY <1>1, KeepFacts DEF NeverLanded, IInv, Kinds
    <2> QED
        BY <1>1, <2>1, PopStep DEF NeverLanded, Judging
<1>2. CASE LogUndo(p)
    <2>1. Only(p) /\ pc'[p] \in {"record", "idle"} /\ job[p].kind \in Kinds
        BY <1>2, KeepFacts, EndFacts, JobFacts DEF LogUndo, IInv
    <2> QED
        BY <1>2, <2>1, PopStep DEF LogUndo
<1>3. CASE SwapFails(p)
    <2>1. Only(p) /\ pc'[p] = "idle" /\ job[p].kind \in Kinds
        BY <1>3, EndFacts, JobFacts DEF SwapFails, IInv
    <2> QED
        BY <1>3, <2>1, PopStep DEF SwapFails
<1> QED
    BY <1>1, <1>2, <1>3

LEMMA PendingStep ==
    ASSUME IInv, NEW p \in Procs, Pending(p)
    PROVE  IInv'
<1>1. Only(p) /\ pc'[p] = "idle"
    BY EndFacts DEF Pending, IInv
<1> QED
    BY <1>1, IdleStep DEF Pending, Judging, Stutter, Critical, InHand, Labels

LEMMA ExtendedStep ==
    ASSUME IInv, NEW p \in Procs, Extended(p)
    PROVE  IInv'
<1>1. Only(p) /\ pc'[p] = "idle" /\ pc[p] = "judge"
    BY EndFacts DEF Extended, Judging, IInv
<1>2. trialOf(p) \in Changes
    BY <1>1 DEF IInv, KnownJobs, trialOf
<1>3. FilesOK'
    BY <1>2 DEF IInv, FilesOK, Extended, Judging, files, ghosts
<1>4. UNCHANGED <<sealed, stack, result, lock>> /\ latest' <= Len(sealed) /\ waiting' <= Len(sealed)
    BY DEF IInv, KnownFiles, Extended, Judging, files
<1> QED
    BY <1>1, <1>3, <1>4, QuietStep DEF Critical, InHand

LEMMA WorseStep ==
    ASSUME IInv, NEW p \in Procs, Worse(p)
    PROVE  IInv'
<1>1. Only(p) /\ pc'[p] = "revert"
    BY KeepFacts DEF Worse, IInv, Labels
<1> QED
    BY <1>1, IdleStep DEF Worse, Judging, Stutter, Critical, InHand, Labels

LEMMA SwitchedSteps ==
    ASSUME IInv, NEW p \in Procs, DisableAuto(p) \/ LogDisabled(p)
    PROVE  IInv'
<1>1. Only(p) /\ pc'[p] \in {"disabled", "choose"}
    <2>1. auto \in BOOLEAN
        BY DEF IInv, FilesOK
    <2> QED
        BY <2>1, KeepFacts, OnwardFacts DEF DisableAuto, LogDisabled, IInv, Labels
<1>2. FilesOK'
    <2>1. CASE DisableAuto(p)
        BY <2>1 DEF IInv, FilesOK, DisableAuto, history, ghosts
    <2>2. CASE LogDisabled(p)
        BY <2>2 DEF IInv, FilesOK, LogDisabled, files, ghosts
    <2> QED
        BY <2>1, <2>2
<1>3. UNCHANGED <<sealed, stack, result, lock>> /\ latest' <= Len(sealed) /\ waiting' <= Len(sealed)
    BY DEF IInv, KnownFiles, DisableAuto, LogDisabled, files, history
<1>4. pc[p] \notin Critical
    BY DEF DisableAuto, LogDisabled, Critical
<1> QED
    BY <1>1, <1>2, <1>3, <1>4, QuietStep DEF Critical, InHand

-----------------------------------------------------------------------------
(* Under the lock.                                                         *)

LEMMA UndoStep ==
    ASSUME IInv, NEW p \in Procs, Undo(p)
    PROVE  IInv'
<1>1. PICK e \in Target(p) : TakeBack(p, e)
    BY DEF Undo
<1>2. e.before \in Versions /\ e.change \in {0} \cup Changes /\ job[p].kind \in Kinds
    <2>1. CASE e = job[p].trial
        BY <2>1, JobFacts DEF IInv
    <2>2. CASE stack[job[p].kind] # <<>> /\ e = Last(stack[job[p].kind])
        <3>1. e \in Entries /\ job[p].kind \in Kinds
            BY <2>2, JobFacts, StackType, FrontFacts DEF IInv
        <3> QED
            BY <3>1 DEF Entries
    <2> QED
        BY <1>1, <2>1, <2>2 DEF Target
<1> DEFINE j == [job[p] EXCEPT !.change = e.change]
<1>3. j \in Jobs
    BY <1>2, JobFacts DEF IInv, Jobs
<1> HIDE DEF j
<1>4. /\ Goto(p, "undone") /\ Remember(p, j) /\ lock = None /\ lock' = p
      /\ live' = [live EXCEPT ![job[p].kind] = e.before]
      /\ UNCHANGED <<sealed, latest, waiting, auto, history, ghosts>>
    BY <1>1 DEF TakeBack, j
<1>5. Only(p) /\ pc'[p] = "undone"
    BY <1>3, <1>4, MoveFacts DEF IInv, Labels
<1>6. live' \in [Kinds -> Versions]
    BY <1>2, <1>4 DEF IInv, FilesOK
<1>7. FilesOK'
    BY <1>4, <1>6 DEF IInv, FilesOK, history, ghosts
<1>8. OnTrial' = OnTrial
    BY <1>4, OnTrialSame DEF history
<1>9. KnownFiles' /\ OneTrial'
    BY <1>4, <1>8 DEF IInv, KnownFiles, OneTrial, history
<1>10. \A q \in Procs \ {p} : pc[q] = "log" => OnTrial' = {}
    BY <1>8 DEF IInv, LogClear
<1>11. (pc'[p] \in Critical <=> lock' = p) /\ \A q \in Procs \ {p} : lock' = q <=> lock = q
    BY <1>4, <1>5 DEF Critical, TrialAssumption
<1>12. Len(sealed) \in Nat /\ Len(sealed') = Len(sealed)
    BY <1>4, SealedLen DEF IInv
<1>13. JobsOK' /\ KnownJobs' /\ LockHeld' /\ LogClear'
    BY <1>5, <1>10, <1>11, <1>12, JobStep DEF InHand
<1> QED
    BY <1>7, <1>9, <1>13 DEF IInv

LEMMA LockStep ==
    ASSUME IInv, NEW p \in Procs, Lock(p)
    PROVE  IInv'
<1>1. /\ Only(p) /\ pc[p] = "write" /\ pc'[p] = "log" /\ job'[p] = job[p]
      /\ lock = None /\ lock' = p /\ OnTrial = {}
      /\ UNCHANGED <<files, history, ghosts>>
    BY KeepFacts DEF Lock, StillMeant, IInv, Labels
<1>2. FilesOK'
    BY <1>1 DEF IInv, FilesOK, files, history, ghosts
<1>3. OnTrial' = {}
    BY <1>1, OnTrialSame DEF history
<1>4. KnownFiles' /\ OneTrial'
    BY <1>1, <1>3 DEF IInv, KnownFiles, OneTrial, files, history
<1>5. (pc'[p] \in Critical <=> lock' = p) /\ \A q \in Procs \ {p} : lock' = q <=> lock = q
    BY <1>1 DEF Critical, TrialAssumption
<1>6. Len(sealed) \in Nat /\ Len(sealed') = Len(sealed)
    BY <1>1, SealedLen DEF IInv, files
<1>7. job'[p].change \in 1..Len(sealed')
    BY <1>1, <1>6 DEF IInv, KnownJobs, InHand
<1>8. JobsOK' /\ KnownJobs' /\ LockHeld' /\ LogClear'
    BY <1>1, <1>3, <1>5, <1>6, <1>7, JobStep
<1> QED
    BY <1>2, <1>4, <1>8 DEF IInv

\* What is logged is the one change on trial.
LEMMA LogApplyStep ==
    ASSUME IInv, NEW p \in Procs, LogApply(p)
    PROVE  IInv'
<1> DEFINE c == job[p].change
           k == job[p].kind
           new == Entry(c, live[k])
<1>1. /\ pc[p] = "log" /\ Only(p) /\ pc'[p] = "swap" /\ job'[p] = job[p]
      /\ stack' = [stack EXCEPT ![k] = Append(stack[k], new)]
      /\ applied' = Append(applied, [change |-> c, day |-> day])
      /\ UNCHANGED <<result, extended, reverts, files, lock, ghosts>>
    BY KeepFacts DEF LogApply, IInv, Labels
<1>2. k \in Kinds /\ c \in 1..Len(sealed)
    BY <1>1, JobFacts DEF IInv, KnownJobs, InHand
<1>3. c \in Changes /\ Len(sealed) \in Nat
    BY <1>2, SealedLen DEF IInv, Changes, TrialAssumption
<1>4. new \in Entries /\ new.change = c
    BY <1>2, <1>3 DEF Entry, Entries, IInv, FilesOK
<1>5. stack \in [Kinds -> Seq(Entries)] /\ stack[k] \in Seq(Entries)
    BY <1>2 DEF IInv, FilesOK
<1> HIDE DEF new, c, k
<1>6. /\ Append(stack[k], new) \in Seq(Entries)
      /\ \A i \in 1..Len(Append(stack[k], new)) :
            \/ i \in 1..Len(stack[k]) /\ Append(stack[k], new)[i] = stack[k][i]
            \/ Append(stack[k], new)[i] = new
    BY <1>4, <1>5, AppendFacts
<1>7. /\ stack' \in [Kinds -> Seq(Entries)]
      /\ \A j \in Kinds : \A i \in 1..Len(stack'[j]) :
            \/ i \in 1..Len(stack[j]) /\ stack'[j][i] = stack[j][i]
            \/ stack'[j][i] = new
    BY <1>1, <1>2, <1>5, <1>6
<1>8. applied' \in Seq([change : Changes, day : Days])
    <2>1. applied \in Seq([change : Changes, day : Days]) /\ day \in Days
        BY DEF IInv, FilesOK
    <2>2. [change |-> c, day |-> day] \in [change : Changes, day : Days]
        BY <1>3, <2>1
    <2> QED
        BY <1>1, <2>1, <2>2, AppendFacts
<1>9. FilesOK'
    BY <1>1, <1>7, <1>8 DEF IInv, FilesOK, files, ghosts
<1>10. OnTrial = {}
    BY <1>1 DEF IInv, LogClear
<1>11. \A e \in OnTrial' : e = new
    <2> SUFFICES ASSUME NEW e \in OnTrial' PROVE e = new
        OBVIOUS
    <2>1. PICK j \in Kinds : \E i \in 1..Len(stack'[j]) : e = stack'[j][i] /\ result'[e.change] = None
        BY DEF OnTrial
    <2>2. PICK i \in 1..Len(stack'[j]) : e = stack'[j][i] /\ result'[e.change] = None
        BY <2>1
    <2>3. result[e.change] = None
        BY <1>1, <2>2
    <2>4. CASE i \in 1..Len(stack[j]) /\ stack'[j][i] = stack[j][i]
        BY <1>10, <2>2, <2>3, <2>4, OnTrialFacts DEF IInv
    <2> QED
        BY <1>7, <2>2, <2>4
<1>12. OneTrial'
    BY <1>11 DEF OneTrial
<1>13. KnownFiles'
    BY <1>1, <1>2, <1>3, <1>4, <1>7 DEF IInv, KnownFiles, files
<1>14. \A q \in Procs \ {p} : pc[q] # "log"
    BY <1>1 DEF IInv, LockHeld, Critical
<1>15. (pc'[p] \in Critical <=> lock' = p) /\ \A q \in Procs \ {p} : lock' = q <=> lock = q
    BY <1>1 DEF IInv, LockHeld, Critical
<1>16. Len(sealed') = Len(sealed) /\ job'[p].change \in 1..Len(sealed')
    BY <1>1, <1>2 DEF files, c
<1>17. JobsOK' /\ KnownJobs' /\ LockHeld' /\ LogClear'
    BY <1>1, <1>3, <1>14, <1>15, <1>16, JobStep
<1> QED
    BY <1>9, <1>12, <1>13, <1>17 DEF IInv

LEMMA SwapStep ==
    ASSUME IInv, NEW p \in Procs, Swap(p)
    PROVE  IInv'
<1>1. Only(p) /\ pc'[p] = "idle" /\ pc[p] = "swap" /\ lock' = None
    BY EndFacts DEF Swap, IInv
<1>2. job[p].kind \in Kinds /\ job[p].change \in Versions
    <2>1. job[p].kind \in Kinds /\ job[p].change \in {0} \cup Changes
        BY JobFacts DEF IInv
    <2>2. {0} \cup Changes \subseteq Versions
        BY DEF Changes, Versions, TrialAssumption
    <2> QED
        BY <2>1, <2>2
<1>3. live' \in [Kinds -> Versions]
    BY <1>2 DEF Swap, IInv, FilesOK
<1>4. FilesOK'
    BY <1>1, <1>3 DEF IInv, FilesOK, Swap, history, ghosts
<1>5. lock = p
    BY <1>1 DEF IInv, LockHeld, Critical
<1>6. UNCHANGED <<sealed, latest, waiting, stack, result>>
    BY DEF Swap, history
<1> QED
    BY <1>1, <1>4, <1>5, <1>6, EndingStep DEF Critical, InHand

LEMMA DieStep ==
    ASSUME IInv, NEW p \in Procs, Die(p)
    PROVE  IInv'
<1>1. Only(p) /\ pc'[p] = "idle"
    BY EndFacts DEF Die, IInv
<1>2. (lock' = lock /\ lock # p) \/ (lock = p /\ lock' = None)
    BY DEF Die
<1>3. edits' \in 0..MaxFaults /\ deaths' \in 0..MaxFaults /\ overlaps' \in 0..MaxFaults
    <2>1. edits' \in Nat /\ deaths' \in Nat /\ overlaps' \in Nat
        BY DEF Die, IInv, FilesOK
    <2>2. MaxFaults \in Nat /\ edits' + deaths' + overlaps' <= MaxFaults
        BY DEF Die, Bounded, TrialAssumption
    <2> QED
        BY <2>1, <2>2, BoundFacts
<1>4. lock' \in Procs \cup {None}
    BY <1>2 DEF IInv, FilesOK
<1>5. FilesOK'
    BY <1>3, <1>4 DEF IInv, FilesOK, Die, files, history
<1>6. UNCHANGED <<sealed, latest, waiting, stack, result>>
    BY DEF Die, files, history
<1> QED
    BY <1>1, <1>2, <1>5, <1>6, EndingStep DEF Critical, InHand

-----------------------------------------------------------------------------
(* The theorems.                                                           *)

LEMMA Initially ==
    Init => IInv
<1> SUFFICES ASSUME Init PROVE IInv
    OBVIOUS
<1>1. FilesOK
    BY DEF Init, FilesOK, Days, Versions, Changes, Entries, TrialAssumption
<1>2. JobsOK
    BY NoJobType DEF Init, JobsOK, Labels
<1>3. KnownFiles /\ KnownJobs
    BY DEF Init, KnownFiles, KnownJobs, InHand
<1>4. LockHeld
    BY DEF Init, LockHeld, Critical, TrialAssumption
<1>5. OnTrial = {}
    BY DEF Init, OnTrial
<1> QED
    BY <1>1, <1>2, <1>3, <1>4, <1>5 DEF IInv, LogClear, OneTrial

LEMMA Inductive ==
    IInv /\ [Next]_vars => IInv'
<1> SUFFICES ASSUME IInv, [Next]_vars PROVE IInv'
    OBVIOUS
<1>1. CASE Tick
    BY <1>1, TickStep
<1>2. CASE ByHand
    BY <1>2, SwitchStep, EditStep DEF ByHand
<1>3. ASSUME NEW p \in Procs, Command(p)
      PROVE  IInv'
    <2>1. CASE BeginPending(p) \/ BeginApply(p) \/ BeginRollback(p) \/ BeginAuto(p) \/ ObserveOnly(p)
        BY <2>1, BeginPendingStep, BeginApplyStep, BeginRollbackStep, BeginAutoStep, ObserveStep
    <2>2. CASE SealLessons(p) \/ SealKnobs(p) \/ SealNothing(p)
        BY <2>2, SealSteps, SealNothingStep
    <2>3. CASE \/ NoTrial(p) \/ Deferred(p) \/ ChooseNone(p) \/ NoLessons(p)
               \/ Rejected(p) \/ Refused(p) \/ NotLocked(p)
        BY <2>3, ResultlessSteps
    <2>4. CASE FindTrial(p) \/ ChooseKnobs(p) \/ ChooseLessons(p) \/ Passed(p)
        BY <2>4, FindTrialStep, ChooseStep, PassedStep
    <2>5. CASE Orphaned(p) \/ TimedOut(p) \/ Kept(p) \/ RevertFails(p) \/ Reverted(p)
        BY <2>5, ResultSteps
    <2>6. CASE NeverLanded(p) \/ LogUndo(p) \/ SwapFails(p)
        BY <2>6, PopSteps
    <2>7. CASE Pending(p) \/ Extended(p) \/ Worse(p) \/ DisableAuto(p) \/ LogDisabled(p)
        BY <2>7, PendingStep, ExtendedStep, WorseStep, SwitchedSteps
    <2>8. CASE Undo(p) \/ Lock(p) \/ LogApply(p) \/ Swap(p) \/ Die(p)
        BY <2>8, UndoStep, LockStep, LogApplyStep, SwapStep, DieStep
    <2> QED
        BY <1>3, <2>1, <2>2, <2>3, <2>4, <2>5, <2>6, <2>7, <2>8 DEF Command, Step
<1>4. CASE UNCHANGED vars
    <2>1. FilesOK' /\ UNCHANGED <<sealed, stack, result, lock, pc, job, latest, waiting>>
        BY <1>4 DEF IInv, FilesOK, vars, files, history, ghosts
    <2> QED
        BY <2>1, OuterStep DEF IInv, KnownFiles
<1> QED
    BY <1>1, <1>2, <1>3, <1>4 DEF Next

\* How the files on disk, the trial's history and what a process remembers fit
\* together, for any number of processes, kills and days.
THEOREM TrialInvariant == Spec => []IInv
    BY Initially, Inductive, PTL DEF Spec

\* Every variable keeps to its type, for any number of commands and changes.
THEOREM TrialTypes == Spec => []TypeOK
<1>1. IInv => TypeOK
    BY DEF IInv, FilesOK, JobsOK, Jobs, Entries, TypeOK
<1> QED
    BY <1>1, TrialInvariant, PTL

\* Never are two changes on trial (service.py:469, 831), however the
\* commands overlap, wherever they die and whatever is edited meanwhile.
THEOREM TrialIsOne == Spec => []OneTrial
<1>1. IInv => OneTrial
    BY DEF IInv
<1> QED
    BY <1>1, TrialInvariant, PTL

\* The lock of the daily run is held by exactly the command that is changing a
\* live file and its history: no two commands do so at a time (service.py:459).
THEOREM LockExcludes ==
    Spec => [](\A p, q \in Procs : pc[p] \in Critical /\ pc[q] \in Critical => p = q)
<1>1. IInv => \A p, q \in Procs : pc[p] \in Critical /\ pc[q] \in Critical => p = q
    BY DEF IInv, LockHeld
<1> QED
    BY <1>1, TrialInvariant, PTL

-----------------------------------------------------------------------------
(* What holds of commands that do not overlap.                             *)

\* A version of a live file came from one of the first n changes of the stack.
Within(k, v, n) == v \in Changes => \E i \in 1..n : stack[k][i].change = v

\* No two commands are under way.
Alone == \A p, q \in Procs : pc[p] # "idle" /\ pc[q] # "idle" => p = q

\* What is sealed, proposed, waiting and applied is of its kind.
KindsKept ==
    /\ latest # 0 => KindOf(latest) = "knobs"
    /\ waiting # 0 => KindOf(waiting) = "lessons"
    /\ \A k \in Kinds : \A i \in 1..Len(stack[k]) : KindOf(stack[k][i].change) = k

\* What an application replaced was applied before it and not undone.
Chained == \A k \in Kinds : \A i \in 1..Len(stack[k]) : Within(k, stack[k][i].before, i - 1)
Recorded == \A k \in Kinds : Within(k, live[k], Len(stack[k]))

\* Only the newest application can be on trial.
NewestOnly == \A k \in Kinds : \A i \in 1..(Len(stack[k]) - 1) : result[stack[k][i].change] # None

\* Where a command is, and what that says of the files.
Written(p) ==
    /\ pc[p] \in {"swap", "undone"} => LET k == job[p].kind
                                      IN  stack[k] # <<>> /\ Within(k, live[k], Len(stack[k]) - 1)
    /\ pc[p] = "swap" => Last(stack[job[p].kind]).change = job[p].change
    /\ pc[p] \in InHand => KindOf(job[p].change) = job[p].kind

OnIt(p) ==
    \/ pc[p] \in {"judge", "orphan", "revert", "record"}
    \/ pc[p] = "undone" /\ job[p].cmd = "pending"

Judged(p) ==
    /\ pc[p] \in {"judge", "revert"} => /\ stack[job[p].kind] # <<>>
                                        /\ job[p].trial = Last(stack[job[p].kind])
    /\ OnIt(p) => \A e \in OnTrial : e.change = trialOf(p)
    /\ pc[p] \in {"choose", "lessons", "switch", "disabled", "write"} => OnTrial = {}
    /\ pc[p] = "undo" => job[p].cmd # "pending"

Switched(p) ==
    /\ pc[p] \notin {"idle", "disabled"} /\ job[p].on => auto
    /\ pc[p] \in InHand /\ job[p].cmd # "apply" => job[p].on \/ job[p].allow
    /\ pc[p] = "lessons" => job[p].on

Solo(p) == Written(p) /\ Judged(p) /\ Switched(p)

Orderly == KindsKept /\ Chained /\ Recorded /\ NewestOnly

SoloInv == overlaps = 0 => Alone /\ Orderly /\ \A p \in Procs : Solo(p)

USE DEF InHand, Labels

\* What a command that is not under way is about to do is nothing.
LEMMA IdleSolo ==
    ASSUME NEW p \in Procs, pc[p] = "idle"
    PROVE  Solo(p)
    BY DEF Solo, Written, Judged, Switched, OnIt

LEMMA IdleSoloNext ==
    ASSUME NEW p \in Procs, pc'[p] = "idle"
    PROVE  Solo(p)'
    BY DEF Solo, Written, Judged, Switched, OnIt

LEMMA WithinMore ==
    ASSUME NEW k \in Kinds, NEW v, NEW m \in Nat, NEW n \in Nat, m <= n, Within(k, v, m)
    PROVE  Within(k, v, n)
    BY DEF Within

\* A command that is alone and under way takes a step.
LEMMA SoloStep ==
    ASSUME SoloInv, NEW p \in Procs, pc[p] # "idle", Only(p), overlaps' = overlaps,
           overlaps = 0 /\ Orderly /\ Solo(p) => Orderly' /\ Solo(p)'
    PROVE  SoloInv'
<1> SUFFICES ASSUME overlaps = 0
             PROVE  Alone' /\ Orderly' /\ \A q \in Procs : Solo(q)'
    BY DEF SoloInv
<1>1. Orderly' /\ Solo(p)'
    BY DEF SoloInv
<1>2. \A q \in Procs \ {p} : pc'[q] = "idle"
    BY DEF SoloInv, Alone, Only
<1>3. \A q \in Procs : Solo(q)'
    BY <1>1, <1>2, IdleSoloNext
<1> QED
    BY <1>1, <1>2, <1>3 DEF Alone

LEMMA OrderlySame ==
    ASSUME Orderly, UNCHANGED <<sealed, stack, result, live>>, latest' \in {0, latest}, waiting' = waiting
    PROVE  Orderly'
<1>1. KindsKept'
    BY DEF Orderly, KindsKept, KindOf
<1>2. Chained' /\ Recorded' /\ NewestOnly'
    BY DEF Orderly, Chained, Recorded, NewestOnly, Within
<1> QED
    BY <1>1, <1>2 DEF Orderly

\* Where a command goes and what it remembers there.
LEMMA OnwardJob ==
    ASSUME JobsOK, NEW p \in Procs, NEW label \in Labels, NEW on \in BOOLEAN, Onward(p, label, on)
    PROVE  /\ Only(p) /\ pc'[p] = label /\ job'[p].cmd = job[p].cmd
           /\ job'[p].on = on /\ job'[p].allow = job[p].allow
<1> DEFINE j == [NoJob EXCEPT !.cmd = job[p].cmd, !.on = on, !.allow = job[p].allow]
<1>1. j.cmd = job[p].cmd /\ j.on = on /\ j.allow = job[p].allow
    BY DEF NoJob
<1>2. job' = [job EXCEPT ![p] = j]
    BY DEF Onward, Remember
<1>3. job'[p] = j
    BY <1>2 DEF JobsOK
<1> QED
    BY <1>1, <1>3, OnwardFacts

LEMMA NotAppliedJob ==
    ASSUME JobsOK, NEW p \in Procs, NotApplied(p)
    PROVE  /\ Only(p)
           /\ pc'[p] = "idle" \/ (pc'[p] = "lessons" /\ job'[p].on /\ job[p].on)
    BY EndFacts, OnwardJob DEF NotApplied

\* A step that leaves the files alone.
LEMMA QuietSolo ==
    ASSUME IInv, SoloInv, NEW p \in Procs, pc[p] # "idle", Only(p),
           UNCHANGED <<sealed, stack, result, live, waiting, overlaps>>, latest' \in {0, latest},
           Orderly /\ Solo(p) => Solo(p)'
    PROVE  SoloInv'
    BY SoloStep, OrderlySame

LEMMA EndSolo ==
    ASSUME IInv, SoloInv, NEW p \in Procs, pc[p] # "idle", End(p),
           UNCHANGED <<sealed, stack, result, live, waiting, overlaps>>, latest' \in {0, latest}
    PROVE  SoloInv'
<1>1. Only(p) /\ pc'[p] = "idle"
    BY EndFacts DEF IInv
<1> QED
    BY <1>1, IdleSoloNext, QuietSolo

LEMMA EndSteps ==
    ASSUME IInv, SoloInv, NEW p \in Procs,
           \/ Pending(p) \/ Extended(p) \/ Deferred(p) \/ NoLessons(p) \/ Rejected(p) \/ SealNothing(p) \/ Die(p)
    PROVE  SoloInv'
    BY EndSolo DEF Pending, Extended, Judging, Deferred, NoLessons, Rejected, SealNothing, Die, Stutter,
                   files, history, ghosts

LEMMA NoTrialSolo ==
    ASSUME IInv, SoloInv, NEW p \in Procs, NoTrial(p)
    PROVE  SoloInv'
<1>1. /\ Only(p) /\ pc[p] = "settle" /\ pc'[p] = "choose" /\ OnTrial = {} /\ job'[p].on = job[p].on
      /\ UNCHANGED <<sealed, stack, result, live, waiting, overlaps, latest, auto>>
    BY JobFacts, OnwardJob DEF NoTrial, IInv, Stutter, files, history, ghosts
<1>2. OnTrial' = {}
    BY <1>1, OnTrialSame
<1>3. Solo(p) => Solo(p)'
    BY <1>1, <1>2 DEF Solo, Written, Judged, Switched, OnIt
<1> QED
    BY <1>1, <1>3, QuietSolo

\* What is on trial is the newest application of its kind.
LEMMA NewestFacts ==
    ASSUME IInv, Orderly, NEW e \in OnTrial
    PROVE  /\ KindOf(e.change) \in Kinds /\ stack[KindOf(e.change)] # <<>>
           /\ e = Last(stack[KindOf(e.change)])
<1>1. PICK k \in Kinds : \E i \in 1..Len(stack[k]) : e = stack[k][i]
    BY OnTrialFacts DEF IInv
<1>2. PICK i \in 1..Len(stack[k]) : e = stack[k][i]
    BY <1>1
<1>3. result[e.change] = None
    BY OnTrialFacts DEF IInv
<1>4. stack[k] \in Seq(Entries)
    BY StackType DEF IInv
<1>5. i \notin 1..(Len(stack[k]) - 1)
    BY <1>2, <1>3 DEF Orderly, NewestOnly
<1>6. i = Len(stack[k]) /\ stack[k] # <<>>
    BY <1>2, <1>4, <1>5
<1>7. e = Last(stack[k])
    BY <1>2, <1>6 DEF Last
<1>8. KindOf(e.change) = k
    BY <1>2 DEF Orderly, KindsKept
<1> QED
    BY <1>6, <1>7, <1>8

LEMMA FindTrialSolo ==
    ASSUME IInv, SoloInv, NEW p \in Procs, FindTrial(p)
    PROVE  SoloInv'
<1>1. PICK newest \in OnTrial :
          Remember(p, [job[p] EXCEPT !.trial = newest, !.kind = KindOf(newest.change),
                                     !.extended = newest.change \in extended])
    BY DEF FindTrial
<1> DEFINE j == [job[p] EXCEPT !.trial = newest, !.kind = KindOf(newest.change),
                               !.extended = newest.change \in extended]
<1>2. j.trial = newest /\ j.kind = KindOf(newest.change) /\ j.on = job[p].on
    BY JobFacts DEF IInv, Jobs
<1> HIDE DEF j
<1>3. /\ pc[p] = "settle" /\ pc' = [pc EXCEPT ![p] = "judge"] /\ job' = [job EXCEPT ![p] = j]
      /\ UNCHANGED <<sealed, stack, result, live, waiting, overlaps, latest, auto>>
    BY <1>1 DEF FindTrial, Goto, Remember, Stutter, files, history, ghosts, j
<1>4. IInv'
    BY FindTrialStep
<1>5. Only(p) /\ pc'[p] = "judge" /\ job'[p] = j
    BY <1>3, <1>4 DEF IInv, JobsOK, Only
<1>6. OnTrial' = OnTrial
    BY <1>3, OnTrialSame
<1>7. \A e \in OnTrial : e = newest
    BY DEF IInv, OneTrial
<1>8. ASSUME Orderly, Solo(p)
      PROVE  Solo(p)'
  <2>1. stack[j.kind] # <<>> /\ newest = Last(stack[j.kind])
      BY <1>2, <1>8, NewestFacts
  <2>2. Judged(p)'
      BY <1>2, <1>3, <1>5, <1>6, <1>7, <2>1 DEF Judged, OnIt, trialOf
  <2>3. Written(p)' /\ Switched(p)'
      BY <1>2, <1>3, <1>5, <1>8 DEF Solo, Written, Switched
  <2> QED
      BY <2>2, <2>3 DEF Solo
<1> QED
    BY <1>3, <1>5, <1>8, QuietSolo

LEMMA WorseSolo ==
    ASSUME IInv, SoloInv, NEW p \in Procs, Worse(p)
    PROVE  SoloInv'
<1>1. /\ Only(p) /\ pc[p] = "judge" /\ pc'[p] = "revert" /\ job'[p] = job[p]
      /\ UNCHANGED <<sealed, stack, result, live, waiting, overlaps, latest, auto>>
    BY KeepFacts DEF Worse, Judging, IInv, files, history, ghosts
<1>2. OnTrial' = OnTrial
    BY <1>1, OnTrialSame
<1>3. Solo(p) => Solo(p)'
    BY <1>1, <1>2 DEF Solo, Written, Judged, Switched, OnIt, trialOf
<1> QED
    BY <1>1, <1>3, QuietSolo

LEMMA SwitchSolo ==
    ASSUME IInv, SoloInv, NEW p \in Procs, DisableAuto(p) \/ LogDisabled(p)
    PROVE  SoloInv'
<1>1. /\ Only(p) /\ pc[p] \in {"switch", "disabled"}
      /\ pc'[p] = "disabled" \/ (pc'[p] = "choose" /\ job'[p].on = auto /\ auto' = auto)
      /\ UNCHANGED <<sealed, stack, result, live, waiting, overlaps, latest>>
  <2>1. auto \in BOOLEAN
      BY DEF IInv, FilesOK
  <2> QED
      BY <2>1, KeepFacts, OnwardJob DEF DisableAuto, LogDisabled, IInv, files, history, ghosts
<1>2. OnTrial' = OnTrial
    BY <1>1, OnTrialSame
<1>3. Solo(p) => Solo(p)'
    BY <1>1, <1>2 DEF Solo, Written, Judged, Switched, OnIt
<1> QED
    BY <1>1, <1>3, QuietSolo

LEMMA ChooseSolo ==
    ASSUME IInv, SoloInv, NEW p \in Procs, ChooseKnobs(p) \/ ChooseLessons(p)
    PROVE  SoloInv'
<1>1. PICK c, k, label :
          /\ pc[p] \in {"choose", "lessons"} /\ Stutter
          /\ Goto(p, label) /\ Remember(p, [job[p] EXCEPT !.change = c, !.kind = k])
          /\ \/ c = latest /\ c # 0 /\ k = "knobs" /\ label = "check" /\ (job[p].on \/ job[p].allow)
             \/ c = waiting /\ c # 0 /\ k = "lessons" /\ label = "write" /\ pc[p] = "lessons"
    BY DEF ChooseKnobs, ChooseLessons, MayApply, Due
<1> DEFINE j == [job[p] EXCEPT !.change = c, !.kind = k]
<1>2. /\ j.change = c /\ j.kind = k /\ j.on = job[p].on /\ j.allow = job[p].allow /\ j.cmd = job[p].cmd
    BY JobFacts DEF IInv, Jobs
<1> HIDE DEF j
<1>3. /\ pc' = [pc EXCEPT ![p] = label] /\ job' = [job EXCEPT ![p] = j]
      /\ UNCHANGED <<sealed, stack, result, live, waiting, overlaps, latest, auto>>
    BY <1>1 DEF Goto, Remember, Stutter, files, history, ghosts, j
<1>4. IInv'
    BY ChooseStep
<1>5. Only(p) /\ pc'[p] = label /\ job'[p] = j
    BY <1>3, <1>4 DEF IInv, JobsOK, Only
<1>6. OnTrial' = OnTrial
    BY <1>3, OnTrialSame
<1>7. ASSUME Orderly, Solo(p)
      PROVE  Solo(p)'
  <2>1. KindOf(c) = k
      BY <1>1, <1>7 DEF Orderly, KindsKept
  <2>2. KindOf(c)' = KindOf(c)
      BY <1>3 DEF KindOf
  <2>3. Written(p)'
      BY <1>1, <1>2, <1>5, <2>1, <2>2, <1>3 DEF Written, KindOf
  <2>4. Judged(p)'
      BY <1>1, <1>5, <1>6, <1>7 DEF Solo, Judged, OnIt
  <2>5. Switched(p)'
      BY <1>1, <1>2, <1>3, <1>5, <1>7 DEF Solo, Switched
  <2> QED
      BY <2>3, <2>4, <2>5 DEF Solo
<1> QED
    BY <1>1, <1>3, <1>5, <1>7, QuietSolo

LEMMA NotAppliedSolo ==
    ASSUME IInv, SoloInv, NEW p \in Procs, pc[p] # "idle", NotApplied(p), Stutter,
           Solo(p) => OnTrial = {}, pc[p] # "disabled"
    PROVE  SoloInv'
<1>1. /\ Only(p)
      /\ pc'[p] = "idle" \/ (pc'[p] = "lessons" /\ job'[p].on /\ job[p].on)
      /\ UNCHANGED <<sealed, stack, result, live, waiting, overlaps, latest, auto>>
    BY NotAppliedJob DEF Stutter, IInv, files, history, ghosts
<1>2. OnTrial' = OnTrial
    BY <1>1, OnTrialSame
<1>3. Solo(p) => Solo(p)'
    BY <1>1, <1>2 DEF Solo, Written, Judged, Switched, OnIt
<1> QED
    BY <1>1, <1>3, QuietSolo, NotAppliedJob DEF IInv

LEMMA NotAppliedSteps ==
    ASSUME IInv, SoloInv, NEW p \in Procs, ChooseNone(p) \/ Refused(p) \/ NotLocked(p)
    PROVE  SoloInv'
<1>1. CASE ChooseNone(p)
    BY <1>1, NotAppliedSolo DEF ChooseNone, Solo, Judged
<1>2. CASE Refused(p)
    BY <1>2, NotAppliedSolo DEF Refused, Valid
<1>3. CASE NotLocked(p) /\ NotApplied(p)
    BY <1>3, NotAppliedSolo DEF NotLocked, Solo, Judged
<1>4. CASE NotLocked(p) /\ End(p)
    BY <1>4, EndSolo DEF NotLocked, Stutter, files, history, ghosts
<1> QED
    BY <1>1, <1>2, <1>3, <1>4 DEF NotLocked

LEMMA PassedSolo ==
    ASSUME IInv, SoloInv, NEW p \in Procs, Passed(p) \/ Lock(p)
    PROVE  SoloInv'
<1>1. /\ Only(p) /\ pc[p] \in {"check", "write"} /\ pc'[p] \in {"write", "log"} /\ job'[p] = job[p]
      /\ OnTrial = {}
      /\ UNCHANGED <<sealed, stack, result, live, waiting, overlaps, latest, auto>>
    BY KeepFacts DEF Passed, Lock, Valid, StillMeant, IInv, Stutter, files, history, ghosts
<1>2. OnTrial' = OnTrial
    BY <1>1, OnTrialSame
<1>3. Solo(p) => Solo(p)'
    BY <1>1, <1>2 DEF Solo, Written, Judged, Switched, OnIt, KindOf
<1> QED
    BY <1>1, <1>3, QuietSolo

-----------------------------------------------------------------------------
(* A command that is alone seals, notes results, takes back and applies.   *)

LEMMA SealedKinds ==
    ASSUME IInv, NEW p \in Procs, NEW kind \in Kinds, Seal(p, kind)
    PROVE  /\ Len(sealed') = Len(sealed) + 1 /\ Len(sealed) \in Nat /\ Len(sealed') # 0
           /\ sealed'[Len(sealed')].kind = kind
           /\ \A c \in 1..Len(sealed) : sealed'[c].kind = KindOf(c)
<1> DEFINE new == [kind |-> kind, base |-> job[p].trial.before, day |-> day]
<1>1. new \in [kind : Kinds, base : Versions, day : Days] /\ new.kind = kind
    BY JobFacts DEF IInv, FilesOK
<1> HIDE DEF new
<1>2. sealed' = Append(sealed, new)
    BY DEF Seal, new
<1>3. sealed \in Seq([kind : Kinds, base : Versions, day : Days])
    BY DEF IInv, FilesOK
<1>4. /\ Len(sealed') = Len(sealed) + 1 /\ Len(sealed) \in Nat
      /\ \A c \in 1..Len(sealed) : sealed'[c] = sealed[c]
      /\ sealed'[Len(sealed) + 1] = new
    BY <1>1, <1>2, <1>3, AppendFacts
<1> QED
    BY <1>1, <1>4 DEF KindOf

LEMMA SealOrderly ==
    ASSUME IInv, Orderly, NEW p \in Procs, NEW kind \in Kinds, Seal(p, kind),
           \/ kind = "knobs" /\ latest' = Len(sealed') /\ waiting' = waiting
           \/ kind = "lessons" /\ waiting' = Len(sealed') /\ latest' = latest
    PROVE  Orderly'
<1>1. /\ Len(sealed') = Len(sealed) + 1 /\ Len(sealed) \in Nat
      /\ sealed'[Len(sealed')].kind = kind
      /\ \A c \in 1..Len(sealed) : sealed'[c].kind = KindOf(c)
    BY SealedKinds
<1>2. UNCHANGED <<live, stack, result>>
    BY DEF Seal, history
<1>3. /\ latest # 0 => latest \in 1..Len(sealed)
      /\ waiting # 0 => waiting \in 1..Len(sealed)
    BY <1>1 DEF IInv, FilesOK, KnownFiles, Changes, TrialAssumption
<1>4. ASSUME NEW k \in Kinds, NEW i \in 1..Len(stack[k])
      PROVE  KindOf(stack[k][i].change)' = k
  <2>1. stack[k][i] \in Entries /\ stack[k][i].change <= Len(sealed)
      BY StackType DEF IInv, KnownFiles
  <2>2. stack[k][i].change \in 1..Len(sealed)
      BY <1>1, <2>1 DEF Entries, Changes, TrialAssumption
  <2>3. KindOf(stack[k][i].change) = k
      BY DEF Orderly, KindsKept
  <2>4. sealed'[stack[k][i].change].kind = k
      BY <1>1, <2>2, <2>3
  <2> QED
      BY <1>2, <2>4 DEF KindOf
<1>5. latest' # 0 => sealed'[latest'].kind = "knobs"
  <2>1. CASE latest' = Len(sealed') /\ kind = "knobs"
      BY <1>1, <2>1
  <2>2. CASE latest' = latest
      BY <1>1, <1>3, <2>2 DEF Orderly, KindsKept
  <2> QED
      BY <2>1, <2>2
<1>6. waiting' # 0 => sealed'[waiting'].kind = "lessons"
  <2>1. CASE waiting' = Len(sealed') /\ kind = "lessons"
      BY <1>1, <2>1
  <2>2. CASE waiting' = waiting
      BY <1>1, <1>3, <2>2 DEF Orderly, KindsKept
  <2> QED
      BY <2>1, <2>2
<1>7. KindsKept'
    BY <1>2, <1>4, <1>5, <1>6 DEF KindsKept, KindOf
<1>8. Chained' /\ Recorded' /\ NewestOnly'
    BY <1>2 DEF Orderly, Chained, Recorded, NewestOnly, Within
<1> QED
    BY <1>7, <1>8 DEF Orderly

LEMMA SealSolo ==
    ASSUME IInv, SoloInv, NEW p \in Procs, SealLessons(p) \/ SealKnobs(p)
    PROVE  SoloInv'
<1>1. CASE SealLessons(p)
  <2> DEFINE j == [job[p] EXCEPT !.kind = "lessons"]
  <2>1. j.on = job[p].on /\ j \in Jobs
      BY JobFacts DEF IInv, Jobs, Kinds
  <2>2. /\ pc[p] = "reflect" /\ pc' = pc /\ job' = [job EXCEPT ![p] = j]
        /\ UNCHANGED <<live, stack, result, overlaps, latest, auto>>
        /\ Seal(p, "lessons") /\ waiting' = Len(sealed')
      BY <1>1 DEF SealLessons, Seal, Remember, history, ghosts
  <2> HIDE DEF j
  <2>3. Only(p) /\ job'[p] = j
      BY <2>1, <2>2 DEF IInv, JobsOK, Only
  <2>4. Solo(p) => Solo(p)'
      BY <2>1, <2>2, <2>3 DEF Solo, Written, Judged, Switched, OnIt
  <2>5. Orderly => Orderly'
      BY <2>2, SealOrderly DEF Kinds
  <2> QED
      BY <2>2, <2>3, <2>4, <2>5, SoloStep
<1>2. CASE SealKnobs(p)
  <2>1. /\ pc[p] = "reflect" /\ Seal(p, "knobs") /\ latest' = Len(sealed') /\ waiting' = waiting
        /\ UNCHANGED <<live, stack, result, overlaps, auto>>
      BY <1>2 DEF SealKnobs, Seal, history, ghosts
  <2>2. Orderly => Orderly'
      BY <2>1, SealOrderly DEF Kinds
  <2>3. CASE End(p)
    <3>1. Only(p) /\ pc'[p] = "idle"
        BY <2>3, EndFacts DEF IInv
    <3> QED
        BY <2>1, <2>2, <3>1, IdleSoloNext, SoloStep
  <2>4. CASE job[p].on /\ Goto(p, "check") /\ Remember(p, [job[p] EXCEPT !.change = Len(sealed'), !.kind = "knobs"])
    <3> DEFINE j == [job[p] EXCEPT !.change = Len(sealed'), !.kind = "knobs"]
    <3>1. j.change = Len(sealed') /\ j.kind = "knobs" /\ j.on = job[p].on
        BY JobFacts DEF IInv, Jobs
    <3>2. pc' = [pc EXCEPT ![p] = "check"] /\ job' = [job EXCEPT ![p] = j]
        BY <2>4 DEF Goto, Remember
    <3> HIDE DEF j
    <3>3. Only(p) /\ pc'[p] = "check" /\ job'[p] = j
      <4>1. JobsOK'
          BY <1>2, SealSteps DEF IInv
      <4> QED
          BY <3>2, <4>1 DEF IInv, JobsOK, Only
    <3>4. KindOf(job[p].change)' = "knobs"
      <4>1. sealed'[Len(sealed')].kind = "knobs"
          BY <2>1, SealedKinds DEF Kinds
      <4> QED
          BY <3>1, <3>3, <4>1 DEF KindOf
    <3>5. Solo(p) => Solo(p)'
        BY <2>1, <2>4, <3>1, <3>3, <3>4 DEF Solo, Written, Judged, Switched, OnIt
    <3> QED
        BY <2>1, <2>2, <3>3, <3>5, SoloStep
  <2> QED
      BY <1>2, <2>3, <2>4 DEF SealKnobs
<1> QED
    BY <1>1, <1>2

LEMMA RecordOrderly ==
    ASSUME IInv, Orderly, NEW c, NEW res \in Results, Record(c, res),
           UNCHANGED <<sealed, stack, live, latest, waiting>>
    PROVE  Orderly'
<1>1. \A d \in Changes : result'[d] = None => result[d] = None
    BY RecordFacts DEF IInv
<1>2. ASSUME NEW k \in Kinds, NEW i \in 1..(Len(stack[k]) - 1)
      PROVE  result'[stack[k][i].change] # None
  <2>1. stack[k][i] \in Entries
      BY StackType, SealedLen DEF IInv
  <2>2. stack[k][i].change \in Changes
      BY <2>1 DEF Entries
  <2> QED
      BY <1>1, <2>2 DEF Orderly, NewestOnly
<1>3. NewestOnly'
    BY <1>2 DEF NewestOnly
<1>4. KindsKept' /\ Chained' /\ Recorded'
    BY DEF Orderly, KindsKept, KindOf, Chained, Recorded, Within
<1> QED
    BY <1>3, <1>4 DEF Orderly

\* With the result of the trial in hand noted, nothing is on trial.
LEMMA RecordClears ==
    ASSUME IInv, NEW c, NEW res \in Results, Record(c, res), stack' = stack, IInv',
           \A e \in OnTrial : e.change = c
    PROVE  OnTrial' = {}
<1>1. \A d \in Changes : result'[d] = None => result[d] = None
    BY RecordFacts DEF IInv
<1>2. OnTrial' \subseteq OnTrial
    BY <1>1, TrialsEndOnly DEF IInv
<1> SUFFICES ASSUME NEW e \in OnTrial'
             PROVE  FALSE
    OBVIOUS
<1>3. e.change = c /\ e.change \in Changes
    BY <1>2, OnTrialType DEF IInv
<1>4. result'[c] = res /\ res # None
    BY <1>3 DEF Record, IInv, FilesOK, TrialAssumption
<1>5. result'[e.change] = None
    BY DEF OnTrial
<1> QED
    BY <1>3, <1>4, <1>5

LEMMA RecordSolo ==
    ASSUME IInv, SoloInv, NEW p \in Procs,
           Orphaned(p) \/ TimedOut(p) \/ Kept(p) \/ RevertFails(p) \/ Reverted(p)
    PROVE  SoloInv'
<1>1. PICK res \in Results :
          /\ Record(trialOf(p), res) /\ UNCHANGED <<sealed, stack, live, latest, waiting, overlaps, auto>>
          /\ pc[p] \in {"judge", "orphan", "revert", "record"}
          /\ End(p) \/ Onward(p, "choose", job[p].on) \/ Onward(p, "switch", job[p].on)
    BY DEF Orphaned, TimedOut, Kept, Close, Judging, RevertFails, Reverted, Results, files, ghosts
<1>2. Only(p) /\ (pc'[p] = "idle" \/ (pc'[p] \in {"choose", "switch"} /\ job'[p].on = job[p].on))
    BY <1>1, EndFacts, OnwardJob, JobFacts DEF IInv
<1>3. IInv'
    BY ResultSteps
<1>4. ASSUME Orderly, Solo(p)
      PROVE  Orderly' /\ Solo(p)'
  <2>1. Orderly'
      BY <1>1, <1>4, RecordOrderly
  <2>2. \A e \in OnTrial : e.change = trialOf(p)
      BY <1>1, <1>4 DEF Solo, Judged, OnIt
  <2>3. OnTrial' = {}
      BY <1>1, <1>3, <2>2, RecordClears
  <2>4. Solo(p)'
      BY <1>1, <1>2, <1>4, <2>3 DEF Solo, Written, Judged, Switched, OnIt
  <2> QED
      BY <2>1, <2>4
<1> QED
    BY <1>1, <1>2, <1>4, SoloStep

LEMMA PoppedTop ==
    ASSUME FilesOK, NEW k \in Kinds, stack[k] # <<>>
    PROVE  /\ Popped(k)[k] \in Seq(Entries) /\ Len(Popped(k)[k]) = Len(stack[k]) - 1
           /\ \A i \in 1..(Len(stack[k]) - 1) : Popped(k)[k][i] = stack[k][i]
           /\ \A j \in Kinds : j # k => Popped(k)[j] = stack[j]
<1>1. stack \in [Kinds -> Seq(Entries)] /\ stack[k] \in Seq(Entries)
    BY DEF FilesOK
<1>2. Popped(k)[k] = Front(stack[k]) /\ \A j \in Kinds : j # k => Popped(k)[j] = stack[j]
    BY <1>1 DEF Popped
<1>3. PICK s \in Seq(Entries) : s = stack[k] /\ s # <<>>
    BY <1>1
<1>4. /\ Front(s) \in Seq(Entries) /\ Len(Front(s)) = Len(s) - 1
      /\ \A i \in 1..Len(Front(s)) : Front(s)[i] = s[i]
    BY <1>3, FrontFacts
<1>5. \A i \in 1..(Len(s) - 1) : Front(s)[i] = s[i]
    BY <1>4
<1> QED
    BY <1>2, <1>3, <1>4, <1>5

\* What the live file came from is below the top of the stack.
LEMMA PopOrderly ==
    ASSUME IInv, Orderly, NEW k \in Kinds, stack[k] # <<>>, stack' = Popped(k),
           UNCHANGED <<sealed, result, live, latest, waiting>>, Within(k, live[k], Len(stack[k]) - 1)
    PROVE  Orderly'
<1>1. /\ Len(stack'[k]) = Len(stack[k]) - 1 /\ Len(stack[k]) \in Nat
      /\ \A i \in 1..(Len(stack[k]) - 1) : stack'[k][i] = stack[k][i]
      /\ \A j \in Kinds : j # k => stack'[j] = stack[j]
  <2>1. stack[k] \in Seq(Entries)
      BY StackType DEF IInv
  <2> QED
      BY <2>1, PoppedTop DEF IInv
<1>2. ASSUME NEW j \in Kinds
      PROVE  /\ Len(stack'[j]) \in Nat /\ Len(stack'[j]) <= Len(stack[j]) /\ Len(stack[j]) \in Nat
             /\ \A i \in 1..Len(stack'[j]) : i \in 1..Len(stack[j]) /\ stack'[j][i] = stack[j][i]
  <2>1. CASE j = k
    <3>1. Len(stack'[k]) \in Nat
        BY PoppedTop DEF IInv
    <3>2. PICK m, n : m = Len(stack'[k]) /\ n = Len(stack[k])
        OBVIOUS
    <3>3. m \in Nat /\ n \in Nat /\ m = n - 1 /\ \A i \in 1..(n - 1) : stack'[k][i] = stack[k][i]
        BY <1>1, <3>1, <3>2
    <3>4. m <= n /\ \A i \in 1..m : i \in 1..n /\ stack'[k][i] = stack[k][i]
        BY <3>3
    <3> QED
        BY <2>1, <3>2, <3>3, <3>4, Zenon
  <2>2. CASE j # k
    <3>1. stack'[j] = stack[j] /\ stack[j] \in Seq(Entries)
        BY <1>1, <2>2, StackType DEF IInv
    <3> QED
        BY <3>1
  <2> QED
      BY <2>1, <2>2
<1>3. ASSUME NEW j \in Kinds, NEW i \in 1..Len(stack'[j])
      PROVE  i \in 1..Len(stack[j]) /\ stack'[j][i] = stack[j][i]
    BY <1>2
<1>4. ASSUME NEW j \in Kinds, NEW v, NEW n \in Nat, n <= Len(stack'[j]), Within(j, v, n)
      PROVE  v \in Changes => \E i \in 1..n : stack'[j][i].change = v
  <2> SUFFICES ASSUME v \in Changes
               PROVE  \E i \in 1..n : stack'[j][i].change = v
      OBVIOUS
  <2>1. PICK m \in 1..n : stack[j][m].change = v
      BY <1>4 DEF Within
  <2>2. m \in 1..Len(stack'[j])
      BY <1>2, <1>4
  <2>3. stack'[j][m] = stack[j][m]
      BY <1>3, <2>2
  <2> QED
      BY <2>1, <2>3
<1>5. KindsKept'
  <2>1. ASSUME NEW j \in Kinds, NEW i \in 1..Len(stack'[j])
        PROVE  sealed'[stack'[j][i].change].kind = j
    <3>1. sealed[stack[j][i].change].kind = j
        BY <1>3 DEF Orderly, KindsKept, KindOf
    <3> QED
        BY <1>3, <3>1
  <2>2. (latest' # 0 => sealed'[latest'].kind = "knobs") /\ (waiting' # 0 => sealed'[waiting'].kind = "lessons")
      BY DEF Orderly, KindsKept, KindOf
  <2> QED
      BY <2>1, <2>2 DEF KindsKept, KindOf
<1>6. ASSUME NEW j \in Kinds, NEW i \in 1..Len(stack'[j])
      PROVE  stack'[j][i].before \in Changes => \E m \in 1..(i - 1) : stack'[j][m].change = stack'[j][i].before
  <2>1. Within(j, stack[j][i].before, i - 1) /\ stack'[j][i] = stack[j][i]
      BY <1>3 DEF Orderly, Chained
  <2>2. i - 1 \in Nat /\ i - 1 <= Len(stack'[j])
      BY <1>2
  <2> QED
      BY <1>4, <2>1, <2>2
<1>7. Chained'
    BY <1>6 DEF Chained, Within
<1>8. ASSUME NEW j \in Kinds
      PROVE  live[j] \in Changes => \E m \in 1..Len(stack'[j]) : stack'[j][m].change = live[j]
  <2>1. Within(j, live[j], Len(stack'[j]))
    <3>1. CASE j = k
        BY <1>1, <3>1
    <3>2. CASE j # k
        BY <1>1, <3>2 DEF Orderly, Recorded
    <3> QED
        BY <3>1, <3>2
  <2>2. PICK n \in Nat : n = Len(stack'[j]) /\ n <= Len(stack'[j])
      BY <1>2
  <2> QED
      BY <1>4, <2>1, <2>2
<1>9. Recorded'
    BY <1>8 DEF Recorded, Within
<1>10. NewestOnly'
  <2>1. ASSUME NEW j \in Kinds, NEW i \in 1..(Len(stack'[j]) - 1)
        PROVE  result'[stack'[j][i].change] # None
    <3>1. i \in 1..Len(stack'[j]) /\ i \in 1..(Len(stack[j]) - 1)
        BY <1>2
    <3>2. stack'[j][i] = stack[j][i] /\ result[stack[j][i].change] # None
        BY <1>3, <3>1 DEF Orderly, NewestOnly
    <3> QED
        BY <3>2
  <2> QED
      BY <2>1 DEF NewestOnly
<1> QED
    BY <1>5, <1>7, <1>9, <1>10 DEF Orderly

\* What the newest application replaced was applied before it.
LEMMA BeforeTop ==
    ASSUME IInv, Orderly, NEW k \in Kinds, stack[k] # <<>>
    PROVE  /\ Within(k, Last(stack[k]).before, Len(stack[k]) - 1) /\ Len(stack[k]) \in Nat /\ Len(stack[k]) - 1 \in Nat
           /\ Last(stack[k]) = stack[k][Len(stack[k])] /\ Len(stack[k]) \in 1..Len(stack[k])
<1>1. stack[k] \in Seq(Entries)
    BY StackType DEF IInv
<1>2. Last(stack[k]) = stack[k][Len(stack[k])] /\ Len(stack[k]) \in 1..Len(stack[k])
    BY <1>1, FrontFacts
<1>3. Within(k, stack[k][Len(stack[k])].before, Len(stack[k]) - 1)
    BY <1>2 DEF Orderly, Chained
<1> QED
    BY <1>1, <1>2, <1>3

LEMMA PopSolo ==
    ASSUME IInv, SoloInv, NEW p \in Procs, NeverLanded(p) \/ LogUndo(p) \/ SwapFails(p)
    PROVE  SoloInv'
<1> DEFINE k == job[p].kind
<1>1. /\ stack' = Popped(k) /\ k \in Kinds
      /\ UNCHANGED <<sealed, result, live, latest, waiting, overlaps, auto>>
      /\ \/ /\ pc[p] = "judge" /\ live[k] = job[p].trial.before
            /\ pc'[p] = "orphan" /\ job'[p] = job[p]
         \/ /\ pc[p] = "undone"
            /\ pc'[p] = "idle" \/ (pc'[p] = "record" /\ job'[p] = job[p] /\ job[p].cmd = "pending")
         \/ pc[p] = "swap" /\ pc'[p] = "idle"
      /\ Only(p)
    BY JobFacts, KeepFacts, EndFacts DEF NeverLanded, Judging, LogUndo, SwapFails, IInv, files, ghosts
<1> HIDE DEF k
<1>2. IInv'
    BY PopSteps
<1>3. ASSUME Orderly, Solo(p)
      PROVE  Orderly' /\ Solo(p)'
  <2>1. stack[k] # <<>> /\ Within(k, live[k], Len(stack[k]) - 1)
    <3>1. CASE pc[p] = "judge" /\ live[k] = job[p].trial.before
      <4>1. stack[k] # <<>> /\ job[p].trial = Last(stack[k])
          BY <1>3, <3>1 DEF Solo, Judged, k
      <4> QED
          BY <1>1, <1>3, <3>1, <4>1, BeforeTop
    <3>2. CASE pc[p] \in {"undone", "swap"}
        BY <1>3, <3>2 DEF Solo, Written, k
    <3> QED
        BY <1>1, <3>1, <3>2
  <2>2. Orderly'
      BY <1>1, <1>3, <2>1, PopOrderly
  <2>3. OnTrial' \subseteq OnTrial
      BY <1>1, <1>2, PoppedFacts, TrialsEndOnly DEF IInv
  <2>4. Solo(p)'
      BY <1>1, <1>3, <2>3 DEF Solo, Written, Judged, Switched, OnIt, trialOf
  <2> QED
      BY <2>2, <2>4
<1> QED
    BY <1>1, <1>3, SoloStep

LEMMA UndoSolo ==
    ASSUME IInv, SoloInv, NEW p \in Procs, Undo(p)
    PROVE  SoloInv'
<1>1. PICK e \in Target(p) : TakeBack(p, e)
    BY DEF Undo
<1> DEFINE k == job[p].kind
           j == [job[p] EXCEPT !.change = e.change]
<1>2. j.kind = k /\ j.cmd = job[p].cmd /\ j.on = job[p].on /\ j.trial = job[p].trial
    BY JobFacts DEF IInv, Jobs
<1>3. k \in Kinds
    BY JobFacts DEF IInv
<1>4. /\ pc[p] \in {"undo", "revert"} /\ pc' = [pc EXCEPT ![p] = "undone"] /\ job' = [job EXCEPT ![p] = j]
      /\ live' = [live EXCEPT ![k] = e.before]
      /\ UNCHANGED <<sealed, latest, waiting, auto, stack, result, overlaps>>
    BY <1>1 DEF Undo, TakeBack, Goto, Remember, history, ghosts
<1> HIDE DEF j
<1>5. IInv'
    BY UndoStep
<1>6. Only(p) /\ pc'[p] = "undone" /\ job'[p] = j
    BY <1>4, <1>5 DEF IInv, JobsOK, Only
<1>7. live'[k] = e.before /\ \A i \in Kinds : i # k => live'[i] = live[i]
    BY <1>3, <1>4 DEF IInv, FilesOK
<1>8. OnTrial' = OnTrial
    BY <1>4, OnTrialSame
<1>9. ASSUME Orderly, Solo(p)
      PROVE  Orderly' /\ Solo(p)'
  <2>1. stack[k] # <<>> /\ e = Last(stack[k])
    <3>1. CASE pc[p] = "undo"
        BY <1>1, <1>9, <3>1 DEF Solo, Judged, Target
    <3>2. CASE pc[p] = "revert"
        BY <1>1, <1>9, <3>2 DEF Solo, Judged, Target
    <3> QED
        BY <1>4, <3>1, <3>2
  <2>2. Within(k, e.before, Len(stack[k]) - 1) /\ Len(stack[k]) \in Nat /\ Len(stack[k]) - 1 \in Nat
      BY <1>3, <1>9, <2>1, BeforeTop
  <2>3. Within(k, e.before, Len(stack[k]))
      BY <1>3, <2>2, WithinMore
  <2>4. Recorded'
      BY <1>4, <1>7, <1>9, <2>3 DEF Orderly, Recorded, Within
  <2>5. KindsKept' /\ Chained' /\ NewestOnly'
      BY <1>4, <1>9 DEF Orderly, KindsKept, KindOf, Chained, NewestOnly, Within
  <2>6. Written(p)'
    <3>1. job'[p].kind = k /\ stack'[k] = stack[k]
        BY <1>2, <1>4, <1>6
    <3>2. stack'[k] # <<>> /\ (live'[k] \in Changes => \E i \in 1..(Len(stack'[k]) - 1) : stack'[k][i].change = live'[k])
        BY <1>4, <1>7, <2>1, <2>2 DEF Within
    <3> HIDE DEF k
    <3> QED
        BY <1>6, <3>1, <3>2 DEF Written, Within
  <2>7. Judged(p)'
      BY <1>2, <1>4, <1>6, <1>8, <1>9 DEF Solo, Judged, OnIt, trialOf
  <2>8. Switched(p)'
      BY <1>2, <1>4, <1>6, <1>9 DEF Solo, Switched
  <2> QED
      BY <2>4, <2>5, <2>6, <2>7, <2>8 DEF Orderly, Solo
<1> QED
    BY <1>4, <1>6, <1>9, SoloStep

\* An application is put on top of the stack; nothing below it is on trial.
LEMMA PushOrderly ==
    ASSUME IInv, Orderly, NEW k \in Kinds, NEW c \in Changes, KindOf(c) = k, OnTrial = {},
           stack' = [stack EXCEPT ![k] = Append(stack[k], Entry(c, live[k]))],
           UNCHANGED <<sealed, result, live, latest, waiting>>
    PROVE  /\ Orderly' /\ stack'[k] # <<>> /\ Last(stack'[k]).change = c
           /\ live'[k] \in Changes => \E i \in 1..(Len(stack'[k]) - 1) : stack'[k][i].change = live'[k]
<1> DEFINE new == Entry(c, live[k])
<1>1. new \in Entries /\ new.change = c /\ new.before = live[k]
    BY DEF Entry, Entries, IInv, FilesOK
<1> HIDE DEF new
<1>2. stack \in [Kinds -> Seq(Entries)] /\ stack[k] \in Seq(Entries)
    BY DEF IInv, FilesOK
<1>3. stack'[k] = Append(stack[k], new) /\ \A j \in Kinds : j # k => stack'[j] = stack[j]
    BY <1>2 DEF new
<1>4. PICK n \in Nat : /\ n = Len(stack[k]) /\ Len(stack'[k]) = n + 1
                       /\ \A i \in 1..n : stack'[k][i] = stack[k][i]
                       /\ stack'[k][n + 1] = new /\ stack'[k] # <<>> /\ Last(stack'[k]) = new
  <2>1. PICK s \in Seq(Entries) : s = stack[k]
      BY <1>2
  <2>2. /\ Append(s, new) \in Seq(Entries) /\ Len(Append(s, new)) = Len(s) + 1 /\ Len(s) \in Nat
        /\ \A i \in 1..Len(s) : Append(s, new)[i] = s[i]
        /\ Append(s, new)[Len(s) + 1] = new
      BY <1>1, AppendFacts
  <2>3. Append(s, new) # <<>> /\ Last(Append(s, new)) = new
      BY <2>2 DEF Last
  <2> QED
      BY <1>3, <2>1, <2>2, <2>3
<1>5. ASSUME NEW j \in Kinds
      PROVE  /\ Len(stack[j]) \in Nat /\ Len(stack[j]) <= Len(stack'[j])
             /\ \A i \in 1..Len(stack[j]) : stack'[j][i] = stack[j][i]
  <2>1. CASE j = k
    <3>1. n \in Nat /\ n <= n + 1
        OBVIOUS
    <3> QED
        BY <1>4, <2>1, <3>1, Zenon
  <2>2. CASE j # k
    <3>1. stack'[j] = stack[j] /\ Len(stack[j]) \in Nat
        BY <1>2, <1>3, <2>2
    <3> QED
        BY <3>1
  <2> QED
      BY <2>1, <2>2
<1>6. ASSUME NEW j \in Kinds, NEW i \in 1..Len(stack'[j])
      PROVE  \/ i \in 1..Len(stack[j]) /\ stack'[j][i] = stack[j][i]
             \/ j = k /\ i = n + 1 /\ stack'[j][i] = new
  <2>1. CASE j = k
    <3>1. i \in 1..(n + 1)
        BY <1>4, <2>1
    <3>2. i \in 1..n \/ i = n + 1
        BY <3>1
    <3> QED
        BY <1>4, <2>1, <3>2, Zenon
  <2>2. CASE j # k
      BY <1>3, <1>6, <2>2
  <2> QED
      BY <2>1, <2>2
<1>7. Within(k, live[k], n)
    BY <1>4 DEF Orderly, Recorded
<1>8. ASSUME live[k] \in Changes
      PROVE  \E i \in 1..n : stack'[k][i].change = live[k]
  <2>1. PICK i \in 1..n : stack[k][i].change = live[k]
      BY <1>7, <1>8 DEF Within
  <2>2. stack'[k][i] = stack[k][i]
      BY <1>4
  <2> QED
      BY <2>1, <2>2
<1>9. live[k] \in Changes => \E i \in 1..n : stack'[k][i].change = live[k]
    BY <1>8
<1>10. KindsKept'
  <2>1. ASSUME NEW j \in Kinds, NEW i \in 1..Len(stack'[j])
        PROVE  sealed'[stack'[j][i].change].kind = j
    <3>1. CASE i \in 1..Len(stack[j]) /\ stack'[j][i] = stack[j][i]
        BY <3>1 DEF Orderly, KindsKept, KindOf
    <3>2. CASE j = k /\ stack'[j][i] = new
        BY <1>1, <3>2 DEF KindOf
    <3> QED
        BY <1>6, <3>1, <3>2
  <2>2. (latest' # 0 => sealed'[latest'].kind = "knobs") /\ (waiting' # 0 => sealed'[waiting'].kind = "lessons")
      BY DEF Orderly, KindsKept, KindOf
  <2> QED
      BY <2>1, <2>2 DEF KindsKept, KindOf
<1>11. ASSUME NEW j \in Kinds, NEW i \in 1..Len(stack'[j])
       PROVE  stack'[j][i].before \in Changes => \E m \in 1..(i - 1) : stack'[j][m].change = stack'[j][i].before
  <2>1. CASE i \in 1..Len(stack[j]) /\ stack'[j][i] = stack[j][i]
    <3>1. i - 1 \in Nat /\ i - 1 <= Len(stack[j])
        BY <1>5, <2>1
    <3>2. Within(j, stack[j][i].before, i - 1)
        BY <2>1 DEF Orderly, Chained
    <3>3. ASSUME stack[j][i].before \in Changes
          PROVE  \E m \in 1..(i - 1) : stack'[j][m].change = stack[j][i].before
      <4>1. PICK m \in 1..(i - 1) : stack[j][m].change = stack[j][i].before
          BY <3>2, <3>3 DEF Within
      <4>2. stack'[j][m] = stack[j][m]
          BY <1>5, <3>1
      <4> QED
          BY <4>1, <4>2
    <3> QED
        BY <2>1, <3>3
  <2>2. CASE j = k /\ i = n + 1 /\ stack'[j][i] = new
    <3>1. i - 1 = n
        BY <2>2
    <3> QED
        BY <1>1, <1>9, <2>2, <3>1
  <2> QED
      BY <1>6, <2>1, <2>2
<1>12. Chained'
    BY <1>11 DEF Chained, Within
<1>13. ASSUME NEW j \in Kinds
       PROVE  live[j] \in Changes => \E i \in 1..Len(stack'[j]) : stack'[j][i].change = live[j]
  <2>1. PICK m \in Nat : m = Len(stack[j]) /\ m <= Len(stack[j]) /\ 1..m \subseteq 1..Len(stack'[j])
    <3>1. Len(stack'[j]) \in Nat
        BY <1>3, <1>4, <1>5
    <3> QED
        BY <1>5, <3>1
  <2>2. Within(j, live[j], m)
      BY <2>1 DEF Orderly, Recorded
  <2>3. ASSUME live[j] \in Changes
        PROVE  \E i \in 1..m : stack'[j][i].change = live[j]
    <3>1. PICK i \in 1..m : stack[j][i].change = live[j]
        BY <2>2, <2>3 DEF Within
    <3>2. stack'[j][i] = stack[j][i]
        BY <1>5, <2>1
    <3> QED
        BY <3>1, <3>2
  <2> QED
      BY <2>1, <2>3
<1>14. Recorded'
    BY <1>13 DEF Recorded, Within
<1>15. NewestOnly'
  <2>1. ASSUME NEW j \in Kinds, NEW i \in 1..(Len(stack'[j]) - 1)
        PROVE  result'[stack'[j][i].change] # None
    <3>1. i \in 1..Len(stack[j])
      <4>1. CASE j = k
          BY <1>4, <4>1
      <4>2. CASE j # k
        <5>1. stack'[j] = stack[j] /\ Len(stack[j]) \in Nat
            BY <1>3, <1>5, <4>2
        <5> QED
            BY <5>1
      <4> QED
          BY <4>1, <4>2
    <3>2. stack'[j][i] = stack[j][i]
        BY <1>5, <3>1
    <3>3. stack[j][i] \notin OnTrial
        OBVIOUS
    <3>4. result[stack[j][i].change] # None
        BY <3>1, <3>3, OnTrialFacts DEF IInv
    <3> QED
        BY <3>2, <3>4
  <2> QED
      BY <2>1 DEF NewestOnly
<1>16. live'[k] \in Changes => \E i \in 1..(Len(stack'[k]) - 1) : stack'[k][i].change = live'[k]
  <2>1. Len(stack'[k]) - 1 = n
      BY <1>4
  <2> QED
      BY <1>9, <2>1
<1> QED
    BY <1>1, <1>4, <1>10, <1>12, <1>14, <1>15, <1>16 DEF Orderly

LEMMA LogApplySolo ==
    ASSUME IInv, SoloInv, NEW p \in Procs, LogApply(p)
    PROVE  SoloInv'
<1>1. PICK c, k : /\ c = job[p].change /\ k = job[p].kind
                  /\ stack' = [stack EXCEPT ![k] = Append(stack[k], Entry(c, live[k]))]
    BY DEF LogApply
<1>2. /\ pc[p] = "log" /\ Only(p) /\ pc'[p] = "swap" /\ job'[p] = job[p]
      /\ UNCHANGED <<sealed, result, live, latest, waiting, auto, overlaps>>
    BY KeepFacts DEF LogApply, IInv, files, ghosts
<1>3. k \in Kinds /\ c \in Changes
  <2>1. c \in 1..Len(sealed) /\ k \in Kinds
      BY <1>1, <1>2, JobFacts DEF IInv, KnownJobs
  <2> QED
      BY <2>1, SealedLen DEF IInv, Changes, TrialAssumption
<1>4. OnTrial = {}
    BY <1>2 DEF IInv, LogClear
<1>5. ASSUME Orderly, Solo(p)
      PROVE  Orderly' /\ Solo(p)'
  <2>1. KindOf(c) = k
      BY <1>1, <1>2, <1>5 DEF Solo, Written
  <2>2. /\ Orderly' /\ stack'[k] # <<>> /\ Last(stack'[k]).change = c
        /\ live'[k] \in Changes => \E i \in 1..(Len(stack'[k]) - 1) : stack'[k][i].change = live'[k]
      BY <1>1, <1>2, <1>3, <1>4, <1>5, <2>1, PushOrderly
  <2>3. job'[p].kind = k /\ job'[p].change = c
      BY <1>1, <1>2
  <2>4. Written(p)'
      BY <1>2, <2>1, <2>2, <2>3 DEF Written, Within, KindOf
  <2>5. Judged(p)' /\ Switched(p)'
      BY <1>2, <1>5 DEF Solo, Judged, OnIt, Switched
  <2> QED
      BY <2>2, <2>4, <2>5 DEF Solo
<1> QED
    BY <1>2, <1>5, SoloStep

LEMMA SwapSolo ==
    ASSUME IInv, SoloInv, NEW p \in Procs, Swap(p)
    PROVE  SoloInv'
<1>1. PICK c, k : /\ c = job[p].change /\ k = job[p].kind
                  /\ live' = [live EXCEPT ![k] = c]
    BY DEF Swap
<1>2. /\ pc[p] = "swap" /\ Only(p) /\ pc'[p] = "idle" /\ k \in Kinds
      /\ UNCHANGED <<sealed, stack, result, latest, waiting, overlaps>>
    BY <1>1, JobFacts, EndFacts DEF Swap, IInv, history, ghosts
<1>3. live'[k] = c /\ \A j \in Kinds : j # k => live'[j] = live[j]
    BY <1>1, <1>2 DEF IInv, FilesOK
<1>4. ASSUME Orderly, Solo(p)
      PROVE  Orderly'
  <2>1. stack[k] # <<>> /\ Last(stack[k]).change = c
      BY <1>1, <1>2, <1>4 DEF Solo, Written
  <2>2. Last(stack[k]) = stack[k][Len(stack[k])] /\ Len(stack[k]) \in 1..Len(stack[k])
      BY <1>2, <1>4, <2>1, BeforeTop
  <2>3. Recorded'
      BY <1>2, <1>3, <1>4, <2>1, <2>2 DEF Orderly, Recorded, Within
  <2>4. KindsKept' /\ Chained' /\ NewestOnly'
      BY <1>2, <1>4 DEF Orderly, KindsKept, KindOf, Chained, NewestOnly, Within
  <2> QED
      BY <2>3, <2>4 DEF Orderly
<1> QED
    BY <1>2, <1>4, IdleSoloNext, SoloStep

-----------------------------------------------------------------------------
(* What is begun or done while no command is under way.                    *)

\* What is begun while a command is under way counts as an overlap.
LEMMA BeginSolo ==
    ASSUME IInv, SoloInv, NEW p \in Procs, NEW label \in Labels, NEW j \in Jobs, Begin(p, label, j),
           job'[p] = j /\ pc'[p] = label => Solo(p)'
    PROVE  SoloInv'
<1>1. /\ Only(p) /\ pc'[p] = label /\ job'[p] = j
      /\ UNCHANGED <<sealed, stack, result, live, latest, waiting>>
      /\ overlaps' = IF Idle THEN overlaps ELSE overlaps + 1
    BY MoveFacts DEF Begin, Overlap, IInv, files, history
<1>2. overlaps \in Nat
    BY DEF IInv, FilesOK
<1> SUFFICES ASSUME overlaps' = 0
             PROVE  Alone' /\ Orderly' /\ \A q \in Procs : Solo(q)'
    BY DEF SoloInv
<1>3. Idle /\ overlaps = 0
    BY <1>1, <1>2
<1>4. Orderly'
    BY <1>1, <1>3, OrderlySame DEF SoloInv
<1>5. \A q \in Procs \ {p} : pc'[q] = "idle"
    BY <1>1, <1>3 DEF Idle, Only
<1>6. \A q \in Procs : Solo(q)'
    BY <1>1, <1>5, IdleSoloNext
<1> QED
    BY <1>4, <1>5, <1>6 DEF Alone

\* A command that has done nothing yet remembers the switch as it is.
LEMMA FreshSolo ==
    ASSUME IInv, SoloInv, NEW p \in Procs, NEW label \in {"settle", "reflect"}, NEW j \in Jobs,
           Begin(p, label, j), j.on = auto
    PROVE  SoloInv'
<1>1. auto' = auto
    BY DEF Begin, files
<1>2. label \in Labels
    BY DEF Labels
<1>3. job'[p] = j /\ pc'[p] = label => Solo(p)'
    BY <1>1 DEF Solo, Written, Judged, Switched, OnIt
<1> QED
    BY <1>2, <1>3, BeginSolo

LEMMA BeginPendingSolo ==
    ASSUME IInv, SoloInv, NEW p \in Procs, BeginPending(p)
    PROVE  SoloInv'
<1>1. PICK allow \in Allowances :
          Begin(p, "settle", [NoJob EXCEPT !.cmd = "pending", !.on = auto, !.allow = allow])
    BY DEF BeginPending
<1> DEFINE new == [NoJob EXCEPT !.cmd = "pending", !.on = auto, !.allow = allow]
<1>2. "pending" \in Commands /\ allow \in BOOLEAN /\ auto \in BOOLEAN
    BY <1>1, AllowanceType DEF Begin, NoJob, IInv, FilesOK
<1>3. new \in Jobs /\ new.on = auto
    BY <1>2, NoJobType DEF Jobs
<1>4. Begin(p, "settle", new)
    BY <1>1
<1> HIDE DEF new
<1> QED
    BY <1>3, <1>4, FreshSolo

LEMMA BeginAutoSolo ==
    ASSUME IInv, SoloInv, NEW p \in Procs, BeginAuto(p)
    PROVE  SoloInv'
<1> DEFINE new == [NoJob EXCEPT !.cmd = "auto", !.on = auto, !.trial = Entry(0, live["knobs"])]
<1>1. "auto" \in Commands /\ auto \in BOOLEAN /\ live["knobs"] \in Versions
    BY DEF BeginAuto, Begin, NoJob, IInv, FilesOK, Kinds
<1>2. Entry(0, live["knobs"]) \in [change : {0} \cup Changes, before : Versions]
    BY <1>1 DEF Entry
<1>3. new \in Jobs /\ new.on = auto
    BY <1>1, <1>2, NoJobType DEF Jobs
<1>4. Begin(p, "reflect", new)
    BY DEF BeginAuto
<1> HIDE DEF new
<1> QED
    BY <1>3, <1>4, FreshSolo

LEMMA BeginApplySolo ==
    ASSUME IInv, SoloInv, NEW p \in Procs, BeginApply(p)
    PROVE  SoloInv'
<1>0. PICK c \in 1..Len(sealed) : \E allow \in Allowances :
          /\ KindOf(c) = "knobs"
          /\ Begin(p, "check", [NoJob EXCEPT !.cmd = "apply", !.allow = allow, !.change = c])
    BY DEF BeginApply
<1>1. PICK allow \in Allowances :
          /\ KindOf(c) = "knobs"
          /\ Begin(p, "check", [NoJob EXCEPT !.cmd = "apply", !.allow = allow, !.change = c])
    BY <1>0
<1> DEFINE j == [NoJob EXCEPT !.cmd = "apply", !.allow = allow, !.change = c]
<1>2. "apply" \in Commands /\ allow \in BOOLEAN
    BY <1>1, AllowanceType DEF Begin, NoJob
<1>3. c \in Changes
    BY SealedLen DEF IInv, Changes, TrialAssumption
<1>4. j \in Jobs /\ j.change = c /\ j.kind = "knobs" /\ j.cmd = "apply" /\ ~j.on
    BY <1>2, <1>3, NoJobType DEF Jobs, NoJob
<1> HIDE DEF j
<1>5. Begin(p, "check", j) /\ sealed' = sealed
    BY <1>1 DEF Begin, files, j
<1>6. job'[p] = j /\ pc'[p] = "check" => Solo(p)'
    BY <1>1, <1>4, <1>5 DEF Solo, Written, Judged, Switched, OnIt, KindOf
<1> QED
    BY <1>4, <1>5, <1>6, BeginSolo

LEMMA BeginRollbackSolo ==
    ASSUME IInv, SoloInv, NEW p \in Procs, BeginRollback(p)
    PROVE  SoloInv'
<1>1. PICK k \in Kinds : Begin(p, "undo", [NoJob EXCEPT !.cmd = "rollback", !.kind = k])
    BY DEF BeginRollback
<1> DEFINE j == [NoJob EXCEPT !.cmd = "rollback", !.kind = k]
<1>2. "rollback" \in Commands
    BY <1>1 DEF Begin, NoJob
<1>3. j \in Jobs /\ j.cmd = "rollback" /\ ~j.on
    BY <1>2, NoJobType DEF Jobs, NoJob
<1> HIDE DEF j
<1>4. Begin(p, "undo", j)
    BY <1>1 DEF j
<1>5. job'[p] = j /\ pc'[p] = "undo" => Solo(p)'
    BY <1>3 DEF Solo, Written, Judged, Switched, OnIt
<1> QED
    BY <1>3, <1>4, <1>5, BeginSolo

\* No command moves, and nothing that a command relies on changes.
LEMMA SameSolo ==
    ASSUME SoloInv, UNCHANGED <<sealed, stack, result, live, waiting, overlaps, auto, pc, job>>,
           latest' \in {0, latest}
    PROVE  SoloInv'
<1> SUFFICES ASSUME overlaps = 0
             PROVE  Alone' /\ Orderly' /\ \A q \in Procs : Solo(q)'
    BY DEF SoloInv
<1>1. Alone' /\ Orderly'
    BY OrderlySame DEF SoloInv, Alone
<1>2. OnTrial' = OnTrial
    BY OnTrialSame
<1>3. ASSUME NEW q \in Procs
      PROVE  Solo(q)'
    BY <1>2 DEF SoloInv, Solo, Written, Judged, Switched, OnIt, KindOf, Within, trialOf
<1> QED
    BY <1>1, <1>3

LEMMA OuterSolo ==
    ASSUME IInv, SoloInv, Tick \/ UNCHANGED vars \/ \E p \in Procs : ObserveOnly(p)
    PROVE  SoloInv'
    BY SameSolo DEF Tick, ObserveOnly, vars, files, history, ghosts

\* An edit by hand comes from no change.
LEMMA ByHandSolo ==
    ASSUME IInv, SoloInv, ByHand
    PROVE  SoloInv'
<1>1. /\ UNCHANGED <<sealed, stack, result, latest, waiting, pc, job>>
      /\ overlaps' = IF Idle THEN overlaps ELSE overlaps + 1
      /\ live' = live \/ \E k \in Kinds : live' = [live EXCEPT ![k] = MaxChanges + edits'] /\ edits' = edits + 1
    BY DEF ByHand, SetSwitch, Edit, Overlap, history
<1>2. overlaps \in Nat /\ edits \in Nat /\ MaxChanges \in Nat
    BY DEF IInv, FilesOK, TrialAssumption
<1> SUFFICES ASSUME overlaps' = 0
             PROVE  Alone' /\ Orderly' /\ \A q \in Procs : Solo(q)'
    BY DEF SoloInv
<1>3. Idle /\ overlaps = 0
    BY <1>1, <1>2
<1>4. \A q \in Procs : pc'[q] = "idle"
    BY <1>1, <1>3 DEF Idle
<1>5. Orderly
    BY <1>3 DEF SoloInv
<1>6. \A k \in Kinds : live'[k] \in Changes => live'[k] = live[k]
  <2>1. CASE live' = live
      BY <2>1
  <2>2. CASE \E k \in Kinds : live' = [live EXCEPT ![k] = MaxChanges + edits'] /\ edits' = edits + 1
    <3>1. PICK k \in Kinds : live' = [live EXCEPT ![k] = MaxChanges + edits'] /\ edits' = edits + 1
        BY <2>2
    <3>2. MaxChanges + edits' \notin Changes
        BY <1>2, <3>1 DEF Changes
    <3> QED
        BY <3>1, <3>2 DEF IInv, FilesOK
  <2> QED
      BY <1>1, <2>1, <2>2
<1>7. Recorded'
    BY <1>1, <1>5, <1>6 DEF Orderly, Recorded, Within
<1>8. KindsKept' /\ Chained' /\ NewestOnly'
    BY <1>1, <1>5 DEF Orderly, KindsKept, KindOf, Chained, NewestOnly, Within
<1> QED
    BY <1>4, <1>7, <1>8, IdleSoloNext DEF Orderly, Alone

LEMMA InitSolo ==
    Init => SoloInv
<1> SUFFICES ASSUME Init
             PROVE  Alone /\ Orderly /\ \A p \in Procs : Solo(p)
    BY DEF SoloInv
<1>1. \A p \in Procs : pc[p] = "idle"
    BY DEF Init
<1>2. Orderly
    BY DEF Init, Orderly, KindsKept, Chained, Recorded, NewestOnly, Within, Changes
<1> QED
    BY <1>1, <1>2, IdleSolo DEF Alone

LEMMA NextSolo ==
    IInv /\ SoloInv /\ [Next]_vars => SoloInv'
<1> SUFFICES ASSUME IInv, SoloInv, [Next]_vars PROVE SoloInv'
    OBVIOUS
<1>1. CASE Tick \/ ByHand \/ UNCHANGED vars
    BY <1>1, OuterSolo, ByHandSolo
<1>2. ASSUME NEW p \in Procs, Command(p)
      PROVE  SoloInv'
    <2>1. CASE BeginPending(p) \/ BeginApply(p) \/ BeginRollback(p) \/ BeginAuto(p) \/ ObserveOnly(p)
        BY <2>1, BeginPendingSolo, BeginAutoSolo, BeginApplySolo, BeginRollbackSolo, OuterSolo
    <2>2. CASE SealLessons(p) \/ SealKnobs(p)
        BY <2>2, SealSolo
    <2>3. CASE \/ Pending(p) \/ Extended(p) \/ Deferred(p) \/ NoLessons(p) \/ Rejected(p)
               \/ SealNothing(p) \/ Die(p)
        BY <2>3, EndSteps
    <2>4. CASE NoTrial(p) \/ FindTrial(p) \/ Worse(p) \/ DisableAuto(p) \/ LogDisabled(p)
        BY <2>4, NoTrialSolo, FindTrialSolo, WorseSolo, SwitchSolo
    <2>5. CASE \/ ChooseKnobs(p) \/ ChooseLessons(p) \/ ChooseNone(p) \/ Refused(p) \/ NotLocked(p)
               \/ Passed(p) \/ Lock(p)
        BY <2>5, ChooseSolo, NotAppliedSteps, PassedSolo
    <2>6. CASE Orphaned(p) \/ TimedOut(p) \/ Kept(p) \/ RevertFails(p) \/ Reverted(p)
        BY <2>6, RecordSolo
    <2>7. CASE NeverLanded(p) \/ LogUndo(p) \/ SwapFails(p) \/ Undo(p)
        BY <2>7, PopSolo, UndoSolo
    <2>8. CASE LogApply(p) \/ Swap(p)
        BY <2>8, LogApplySolo, SwapSolo
    <2> QED
        BY <1>2, <2>1, <2>2, <2>3, <2>4, <2>5, <2>6, <2>7, <2>8 DEF Command, Step
<1> QED
    BY <1>1, <1>2 DEF Next

\* What commands that do not overlap rely on (service.py, apply_pending and
\* what it calls) holds wherever they are killed.
THEOREM SoloInvariant == Spec => []SoloInv
    BY TrialInvariant, InitSolo, NextSolo, PTL DEF Spec

\* A change that is live is in the history as applied and not undone
\* (service.py:481).
THEOREM LiveChangesAreRecorded == Spec => []LiveIsRecorded
<1>1. SoloInv => LiveIsRecorded
    BY DEF SoloInv, Orderly, Recorded, Within, LiveIsRecorded
<1> QED
    BY <1>1, SoloInvariant, PTL

\* A change that apply-pending goes on to apply finds no trial open
\* (service.py:626).
THEOREM SettledTrialsAreOver == Spec => []SettledMeansOver
<1>1. SoloInv => SettledMeansOver
    BY DEF SoloInv, Solo, Judged, SettledMeansOver
<1> QED
    BY <1>1, SoloInvariant, PTL

\* With the automatic mode off nothing is applied but what a human asked for
\* (service.py:759).
THEOREM OffAppliesNothing == Spec => []OffMeansOff
<1>1. SoloInv => OffMeansOff
    BY DEF SoloInv, Solo, Switched, OffMeansOff
<1> QED
    BY <1>1, SoloInvariant, PTL
=============================================================================
