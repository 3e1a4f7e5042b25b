------------------- MODULE VirtualAccountRepositoryProofs -------------------
(***************************************************************************)
(* Proofs about VirtualAccountRepository: its types and its lock; then,    *)
(* for run ids that are stamped, that latest names a chain of states that  *)
(* leads to genesis, that the repository implements AccountChain, and, for *)
(* a single publisher, that a publication happens as a whole or not at all.*)
(*                                                                         *)
(* IInv says what is sealed, and what the holder of the lock knows of the  *)
(* disk at each step; PublishInv says it of the account output, which is   *)
(* no part of the chain and is read before the lock is taken.              *)
(***************************************************************************)
EXTENDS VirtualAccountRepository, TLAPS

-----------------------------------------------------------------------------
(* Histories and jobs.                                                     *)

LEMMA EmptyHistory == NoState \in State /\ Len(NoState) = 0
BY DEF NoState, State

LEMMA EmptyJob == NoJob \in Jobs
BY EmptyHistory, SMTT(30) DEF NoJob, Jobs

\* An entry at the end of a history: the front is the old history.
LEMMA AppendEntry ==
    ASSUME NEW s \in State, NEW e \in Entry
    PROVE  /\ Append(s, e) \in State
           /\ Append(s, e) # NoState
           /\ Len(Append(s, e)) = Len(s) + 1
           /\ Append(s, e)[Len(s) + 1] = e
           /\ \A k \in 1..Len(s) : Append(s, e)[k] = s[k]
BY DEF State, NoState

LEMMA PrefixIsState ==
    ASSUME NEW s \in State, NEW n \in 0..Len(s)
    PROVE  /\ Prefix(s, n) \in State
           /\ Len(Prefix(s, n)) = n
           /\ \A k \in 1..n : Prefix(s, n)[k] = s[k]
BY DEF State, Prefix

LEMMA ParentParts ==
    ASSUME NEW s \in State, Len(s) > 0
    PROVE  /\ Parent(s) = Prefix(s, Len(s) - 1)
           /\ Parent(s) \in State
           /\ Len(Parent(s)) = Len(s) - 1
           /\ \A k \in 1..(Len(s) - 1) : Parent(s)[k] = s[k]
BY PrefixIsState DEF Parent, State

LEMMA ParentIsState ==
    ASSUME NEW s \in State
    PROVE  Parent(s) \in State
<1>1. CASE Len(s) = 0
  BY <1>1 DEF State, Parent, Prefix
<1>2. CASE Len(s) # 0
  BY <1>2, ParentParts DEF State
<1> QED BY <1>1, <1>2

LEMMA LengthIsNat == ASSUME NEW s \in State PROVE Len(s) \in Nat /\ (s = NoState <=> Len(s) = 0)
BY DEF State, NoState

LEMMA SameHistory ==
    ASSUME NEW s \in State, NEW t \in State, Len(s) = Len(t),
           \A k \in 1..Len(s) : s[k] = t[k]
    PROVE  s = t
BY DEF State

-----------------------------------------------------------------------------
(* Type correctness.                                                       *)

Labels == Outside \cup Critical
Places == RunIds \cup {None}

LEMMA LabelNames ==
    {"idle", "staged", "ready", "locked", "placed", "restored", "publishing",
     "undoLatest", "undoOutput", "undoRuns", "release"} = Labels
BY DEF Labels, Outside, Critical

LEMMA TypeParts ==
    TypeOK <=> /\ runs \in [RunIds -> State]
               /\ latest \in Places
               /\ rolledBack \subseteq RunIds
               /\ output \in Places
               /\ lockFile \in BOOLEAN
               /\ pc \in [Writers -> Labels]
               /\ job \in [Writers -> Jobs]
               /\ made \in [Writers -> 0..3]
               /\ old \in [Writers -> Places]
               /\ restored \in [Writers -> BOOLEAN]
               /\ result \in [Writers -> Results]
BY DEF TypeOK, Labels, Places

LEMMA JobParts ==
    ASSUME NEW j \in Jobs
    PROVE  j.run \in Places /\ j.first \in Places /\ j.base \in Places /\ j.state \in State
BY DEF Jobs, Places

\* A writer goes to a known step, and what it keeps of its own stays typed.
LEMMA GotoTyped ==
    ASSUME NEW w \in Writers, NEW label \in Labels, pc \in [Writers -> Labels], Goto(w, label)
    PROVE  pc' \in [Writers -> Labels]
BY DEF Goto

LEMMA FinishTyped ==
    ASSUME NEW w \in Writers, NEW how \in Results, Finish(w, how), TypeOK
    PROVE  /\ pc' \in [Writers -> Labels] /\ result' \in [Writers -> Results]
           /\ UNCHANGED <<lockFile, job, made, old, restored>>
BY LabelNames, TypeParts, GotoTyped DEF Finish

LEMMA LeaveTyped ==
    ASSUME NEW w \in Writers, Leave(w), TypeOK
    PROVE  /\ pc' \in [Writers -> Labels] /\ job' \in [Writers -> Jobs]
           /\ made' \in [Writers -> 0..3] /\ old' \in [Writers -> Places]
           /\ restored' \in [Writers -> BOOLEAN] /\ result' \in [Writers -> Results]
<1>1. pc' \in [Writers -> Labels]
  BY LabelNames, TypeParts, GotoTyped DEF Leave
<1>2. job' \in [Writers -> Jobs]
  BY TypeParts, EmptyJob DEF Leave
<1> QED BY <1>1, <1>2, TypeParts DEF Leave, Places, Results

\* What a request puts into a job.
LEMMA RequestTyped ==
    ASSUME TypeOK, NEW w \in Writers, Request(w)
    PROVE  /\ pc[w] = "idle"
           /\ \E j \in Jobs, label \in {"staged", "ready"} :
                  j.run \in RunIds /\ Begin(w, label, j)
<1> DEFINE Begun == /\ pc[w] = "idle"
                    /\ \E j \in Jobs, label \in {"staged", "ready"} :
                           j.run \in RunIds /\ Begin(w, label, j)
<1> USE TypeParts
<1>1. ASSUME NEW p \in Payloads, Initialize(w, p)
      PROVE  Begun
  <2> DEFINE s == << [parent |-> None, payload |-> p] >>
  <2>1. s \in State
    BY DEF State, Entry
  <2> HIDE DEF s
  <2>2. [op |-> "save", run |-> Genesis, first |-> None, base |-> None, state |-> s] \in Jobs
    BY <2>1, RepositoryAssumption DEF Jobs
  <2> QED BY <1>1, <2>2, RepositoryAssumption DEF Initialize, s
<1>2. ASSUME NEW r \in RunIds, NEW p \in Payloads, ComputeNext(w, r, p)
      PROVE  Begun
  <2> DEFINE s == Append(runs[latest], [parent |-> latest, payload |-> p])
  <2>1. latest \in RunIds /\ runs[latest] \in State
    BY <1>2 DEF ComputeNext, Places
  <2>2. [parent |-> latest, payload |-> p] \in Entry
    BY <2>1 DEF Entry
  <2>3. s \in State
    BY <2>1, <2>2, AppendEntry
  <2> HIDE DEF s
  <2>4. [op |-> "save", run |-> r, first |-> None, base |-> latest, state |-> s] \in Jobs
    BY <2>1, <2>3 DEF Jobs
  <2> QED BY <1>2, <2>4 DEF ComputeNext, s
<1>3. ASSUME NEW r \in RunIds, RequestRollback(w, r)
      PROVE  Begun
  <2>1. [op |-> "rollback", run |-> latest, first |-> None, base |-> r, state |-> NoState] \in Jobs
    BY EmptyHistory DEF Jobs, Places
  <2> QED BY <1>3, <2>1 DEF RequestRollback, Places
<1>4. ASSUME NEW r1 \in RunIds, NEW r2 \in RunIds, NEW p1 \in Payloads, NEW p2 \in Payloads,
             StageChain(w, r1, r2, p1, p2)
      PROVE  Begun
  <2> DEFINE s1 == Append(runs[latest], [parent |-> latest, payload |-> p1])
             s2 == Append(s1, [parent |-> r1, payload |-> p2])
  <2>1. latest \in RunIds /\ runs[latest] \in State
    BY <1>4 DEF StageChain, Places
  <2>2. [parent |-> latest, payload |-> p1] \in Entry /\ [parent |-> r1, payload |-> p2] \in Entry
    BY <2>1 DEF Entry
  <2>3. s1 \in State
    BY <2>1, <2>2, AppendEntry
  <2> HIDE DEF s1
  <2>4. s2 \in State
    BY <2>2, <2>3, AppendEntry
  <2> HIDE DEF s2
  <2>5. [op |-> "publish", run |-> r2, first |-> r1, base |-> latest, state |-> s2] \in Jobs
    BY <2>1, <2>4 DEF Jobs
  <2> QED BY <1>4, <2>5 DEF StageChain, s1, s2
<1> QED BY <1>1, <1>2, <1>3, <1>4 DEF Request

\* A writer at work has a run to work on; TypeOK alone would let a rollback
\* move "no run" under rolled_back/.
AtWork == \A w \in Writers : pc[w] # "idle" => job[w].run \in RunIds

LEMMA WorkTyped ==
    ASSUME TypeOK, AtWork, NEW w \in Writers, Work(w)
    PROVE  TypeOK'
<1> DEFINE j == job[w]
<1>0. /\ runs \in [RunIds -> State]
      /\ latest \in Places
      /\ rolledBack \subseteq RunIds
      /\ output \in Places
      /\ lockFile \in BOOLEAN
      /\ pc \in [Writers -> Labels]
      /\ job \in [Writers -> Jobs]
      /\ made \in [Writers -> 0..3]
      /\ old \in [Writers -> Places]
      /\ restored \in [Writers -> BOOLEAN]
      /\ result \in [Writers -> Results]
  BY TypeParts
<1>a. j.run \in Places /\ j.first \in Places /\ j.base \in Places /\ j.state \in State
  BY <1>0, JobParts
<1>b. {"none", "done", "refused", "undone", "broken"} = Results
  BY DEF Results
<1> HIDE DEF j
<1> SUFFICES /\ runs' \in [RunIds -> State]
             /\ latest' \in Places
             /\ rolledBack' \subseteq RunIds
             /\ output' \in Places
             /\ lockFile' \in BOOLEAN
             /\ pc' \in [Writers -> Labels]
             /\ job' \in [Writers -> Jobs]
             /\ made' \in [Writers -> 0..3]
             /\ old' \in [Writers -> Places]
             /\ restored' \in [Writers -> BOOLEAN]
             /\ result' \in [Writers -> Results]
  BY DEF TypeOK, Labels, Places
<1> USE <1>0, LabelNames DEF disk, local
<1>1. CASE BeginPublish(w)
  BY <1>1, GotoTyped DEF BeginPublish
<1>2. CASE AcquireLock(w)
  BY <1>2, GotoTyped DEF AcquireLock
<1>3. CASE LockBusy(w) \/ ReleaseLock(w)
  BY <1>3, LeaveTyped DEF LockBusy, ReleaseLock
<1>4. CASE SavePlace(w)
  BY <1>4, <1>a, GotoTyped DEF SavePlace, j
<1>5. CASE SaveExisting(w)
  BY <1>5, <1>b, FinishTyped DEF SaveExisting
<1>6. CASE SaveRefused(w)
  BY <1>6, <1>b, FinishTyped DEF SaveRefused
<1>7. CASE SaveAdvance(w)
  BY <1>7, <1>a, <1>b, FinishTyped DEF SaveAdvance, j
<1>8. CASE RollbackRestore(w)
  BY <1>8, <1>a, GotoTyped DEF RollbackRestore, j
<1>9. CASE RollbackRefused(w)
  BY <1>9, <1>b, FinishTyped DEF RollbackRefused
<1>10. CASE RollbackMove(w)
  <2>1. job[w].run \in RunIds
    BY <1>10 DEF RollbackMove, AtWork
  <2>2. runs' \in [RunIds -> State] /\ rolledBack' \subseteq RunIds
    BY <1>10, <2>1, EmptyHistory DEF RollbackMove
  <2> QED BY <1>10, <2>2, <1>b, FinishTyped DEF RollbackMove
<1>11. CASE PublishFirst(w)
  <2>1. Parent(j.state) \in State
    BY <1>a, ParentIsState
  <2>2. runs' \in [RunIds -> State]
    BY <1>11, <2>1 DEF PublishFirst, j
  <2> QED BY <1>11, <2>2, GotoTyped DEF PublishFirst
<1>12. CASE PublishSecond(w)
  <2>1. runs' \in [RunIds -> State]
    BY <1>12, <1>a DEF PublishSecond, j
  <2>2. made' \in [Writers -> 0..3]
    BY <1>12 DEF PublishSecond
  <2> QED BY <1>12, <2>1, <2>2 DEF PublishSecond
<1>13. CASE PublishOutput(w)
  BY <1>13, <1>a DEF PublishOutput, j
<1>14. CASE PublishLatest(w)
  BY <1>14, <1>a, <1>b, FinishTyped DEF PublishLatest, j
<1>15. CASE PublishRefused(w)
  BY <1>15, GotoTyped DEF PublishRefused
<1>16. CASE UndoLatest(w)
  <2>1. restored' \in [Writers -> BOOLEAN] /\ result' \in [Writers -> Results]
    BY <1>16, <1>b DEF UndoLatest
  <2> QED BY <1>16, <2>1, <1>a, GotoTyped DEF UndoLatest, j
<1>17. CASE UndoOutput(w)
  BY <1>17, <1>a, GotoTyped DEF UndoOutput
<1>18. CASE UndoRun(w)
  <2>1. runs' \in [RunIds -> State]
    BY <1>18, EmptyHistory DEF UndoRun
  <2>2. made' \in [Writers -> 0..3]
    BY <1>18 DEF UndoRun, UndoneTo
  <2> QED BY <1>18, <2>1, <2>2 DEF UndoRun
<1>19. CASE UndoDone(w)
  BY <1>19, GotoTyped DEF UndoDone
<1> QED BY <1>1, <1>2, <1>3, <1>4, <1>5, <1>6, <1>7, <1>8, <1>9, <1>10, <1>11, <1>12, <1>13,
           <1>14, <1>15, <1>16, <1>17, <1>18, <1>19 DEF Work

LEMMA FailureTyped ==
    ASSUME TypeOK, NEW w \in Writers, Failure(w)
    PROVE  TypeOK' /\ UNCHANGED disk
<1>0. /\ pc \in [Writers -> Labels] /\ result \in [Writers -> Results]
      /\ made \in [Writers -> 0..3] /\ lockFile \in BOOLEAN
  BY TypeParts
<1>1. CASE Fault(w)
  BY <1>1, FinishTyped, TypeParts DEF Fault, disk, TypeOK, Labels, Results
<1>2. CASE PublishFault(w)
  BY <1>2, <1>0, LabelNames, GotoTyped DEF PublishFault, disk, local, TypeOK, Labels
<1>3. CASE UndoFault(w)
  <2>1. pc' \in [Writers -> Labels] /\ result' \in [Writers -> Results]
    BY <1>3, <1>0, LabelNames, GotoTyped DEF UndoFault, Results
  <2> QED BY <1>3, <2>1 DEF UndoFault, disk, local, TypeOK, Labels
<1>4. CASE UndoRunFault(w)
  <2>1. made' \in [Writers -> 0..3] /\ result' \in [Writers -> Results]
    BY <1>4, <1>0 DEF UndoRunFault, UndoneTo, Results
  <2> QED BY <1>4, <2>1 DEF UndoRunFault, disk, local, TypeOK
<1>5. CASE Interrupt(w) \/ Crash(w)
  <2>1. Leave(w) /\ UNCHANGED disk /\ lockFile' \in BOOLEAN
    BY <1>5, <1>0 DEF Interrupt, Crash
  <2> QED BY <2>1, LeaveTyped DEF disk, TypeOK, Labels, Places
<1> QED BY <1>1, <1>2, <1>3, <1>4, <1>5 DEF Failure

LEMMA StepTyped == TypeOK /\ AtWork /\ [Next]_vars => TypeOK'
<1> SUFFICES ASSUME TypeOK, AtWork, [Next]_vars PROVE TypeOK'
  OBVIOUS
<1>1. ASSUME NEW w \in Writers, Request(w) PROVE TypeOK'
  <2>1. PICK j \in Jobs, label \in Labels : Begin(w, label, j)
    BY <1>1, RequestTyped, LabelNames
  <2>2. pc' \in [Writers -> Labels] /\ job' \in [Writers -> Jobs]
    BY <2>1, TypeParts, GotoTyped DEF Begin
  <2> QED BY <2>1, <2>2 DEF Begin, disk, TypeOK, Labels
<1>2. CASE RemoveStaleLock
  BY <1>2 DEF RemoveStaleLock, disk, local, TypeOK
<1>3. CASE UNCHANGED vars
  BY <1>3 DEF vars, TypeOK
<1> QED BY <1>1, <1>2, <1>3, WorkTyped, FailureTyped DEF Next

-----------------------------------------------------------------------------
(* What a step does to the writer that takes it and to the others.         *)

-----------------------------------------------------------------------------
(* What a step does to the lock, to the writer that takes it and to the    *)
(* others.                                                                 *)

Step(w) == Request(w) \/ Work(w) \/ Failure(w)

StaysOut(w) == lockFile' = lockFile /\ (pc'[w] \in Critical => pc[w] \in Critical)
Enters(w) == ~lockFile /\ lockFile' /\ pc'[w] \in Critical
Exits(w) == pc[w] \in Critical /\ ~lockFile' /\ pc'[w] \notin Critical

\* Only the writer that holds the lock changes the disk, and nobody's step
\* touches what another writer remembers.
Shape(w) ==
    /\ \A v \in Writers \ {w} : pc'[v] = pc[v] /\ job'[v] = job[v] /\ made'[v] = made[v]
    /\ UNCHANGED disk \/ pc[w] \in Critical
    /\ StaysOut(w) \/ Enters(w) \/ Exits(w)
    /\ \/ pc'[w] = "idle"
       \/ pc[w] # "idle" /\ job'[w] = job[w]
       \/ pc[w] = "idle" /\ job'[w].run \in RunIds

LEMMA GotoOthers ==
    ASSUME NEW w \in Writers, NEW label, TypeOK, Goto(w, label)
    PROVE  pc'[w] = label /\ \A v \in Writers \ {w} : pc'[v] = pc[v]
BY TypeParts DEF Goto

LEMMA LeaveOthers ==
    ASSUME NEW w \in Writers, TypeOK, Leave(w)
    PROVE  /\ pc'[w] = "idle"
           /\ \A v \in Writers \ {w} : pc'[v] = pc[v] /\ job'[v] = job[v] /\ made'[v] = made[v]
<1>1. pc'[w] = "idle" /\ \A v \in Writers \ {w} : pc'[v] = pc[v]
  BY GotoOthers DEF Leave
<1>2. \A v \in Writers \ {w} : job'[v] = job[v]
  BY TypeParts DEF Leave
<1>3. \A v \in Writers \ {w} : made'[v] = made[v]
  BY TypeParts DEF Leave
<1> QED BY <1>1, <1>2, <1>3

LEMMA FinishOthers ==
    ASSUME NEW w \in Writers, NEW how, TypeOK, Finish(w, how)
    PROVE  /\ pc'[w] = "release" /\ UNCHANGED <<lockFile, job, made>>
           /\ \A v \in Writers \ {w} : pc'[v] = pc[v]
BY GotoOthers DEF Finish

LEMMA RequestShape == ASSUME TypeOK, NEW w \in Writers, Request(w) PROVE Shape(w)
<1>1. PICK j \in Jobs, label \in {"staged", "ready"} : j.run \in RunIds /\ Begin(w, label, j)
  BY RequestTyped
<1>2. pc'[w] = label /\ \A v \in Writers \ {w} : pc'[v] = pc[v]
  BY <1>1, GotoOthers DEF Begin
<1>3. job'[w] = j /\ \A v \in Writers \ {w} : job'[v] = job[v]
  BY <1>1, TypeParts DEF Begin
<1>4. pc[w] = "idle" /\ UNCHANGED <<disk, lockFile, made>>
  BY <1>1, RequestTyped DEF Begin
<1> QED BY <1>1, <1>2, <1>3, <1>4 DEF Shape, StaysOut, Critical

LEMMA WorkShape == ASSUME TypeOK, NEW w \in Writers, Work(w) PROVE Shape(w)
<1> USE DEF Shape, StaysOut, Enters, Exits, Critical, disk, local
<1>1. CASE BeginPublish(w) \/ AcquireLock(w)
  <2>1. \E label \in {"ready", "locked"} : Goto(w, label) /\ pc[w] \in {"staged", "ready"}
    BY <1>1 DEF BeginPublish, AcquireLock
  <2> QED BY <1>1, <2>1, GotoOthers DEF BeginPublish, AcquireLock
<1>2. CASE LockBusy(w) \/ ReleaseLock(w)
  BY <1>2, LeaveOthers DEF LockBusy, ReleaseLock
<1>3. CASE SavePlace(w) \/ RollbackRestore(w) \/ PublishRefused(w)
  BY <1>3, GotoOthers DEF SavePlace, RollbackRestore, PublishRefused, Saving, RollingBack, Publishing
<1>4. CASE SaveExisting(w) \/ SaveRefused(w) \/ RollbackRefused(w)
  BY <1>4, FinishOthers DEF SaveExisting, SaveRefused, RollbackRefused, Saving, RollingBack
<1>5. CASE SaveAdvance(w) \/ RollbackMove(w) \/ PublishLatest(w)
  BY <1>5, FinishOthers DEF SaveAdvance, RollbackMove, PublishLatest
<1>6. CASE PublishFirst(w)
  <2>1. \A v \in Writers \ {w} : made'[v] = made[v]
    BY <1>6, TypeParts DEF PublishFirst
  <2> QED BY <1>6, <2>1, GotoOthers DEF PublishFirst, Publishing
<1>7. CASE PublishSecond(w) \/ PublishOutput(w) \/ UndoRun(w)
  <2>1. \A v \in Writers \ {w} : made'[v] = made[v]
    BY <1>7, TypeParts DEF PublishSecond, PublishOutput, UndoRun
  <2> QED BY <1>7, <2>1 DEF PublishSecond, PublishOutput, UndoRun
<1>8. CASE UndoLatest(w) \/ UndoOutput(w) \/ UndoDone(w)
  BY <1>8, GotoOthers DEF UndoLatest, UndoOutput, UndoDone
<1> QED BY <1>1, <1>2, <1>3, <1>4, <1>5, <1>6, <1>7, <1>8 DEF Work

LEMMA FailureShape == ASSUME TypeOK, NEW w \in Writers, Failure(w) PROVE Shape(w)
<1> USE DEF Shape, StaysOut, Enters, Exits, Critical, disk, local
<1>1. CASE Fault(w)
  BY <1>1, FinishOthers DEF Fault, Saving, RollingBack
<1>2. CASE PublishFault(w)
  BY <1>2, GotoOthers DEF PublishFault, Publishing
<1>3. CASE UndoFault(w)
  BY <1>3, GotoOthers DEF UndoFault
<1>4. CASE UndoRunFault(w)
  BY <1>4, TypeParts DEF UndoRunFault
<1>5. CASE Interrupt(w) \/ Crash(w)
  BY <1>5, LeaveOthers, TypeParts DEF Interrupt, Crash
<1> QED BY <1>1, <1>2, <1>3, <1>4, <1>5 DEF Failure

LEMMA StepShape == ASSUME TypeOK, NEW w \in Writers, Step(w) PROVE Shape(w)
BY RequestShape, WorkShape, FailureShape DEF Step

LEMMA StepAtWork == TypeOK /\ AtWork /\ [Next]_vars => AtWork'
<1> SUFFICES ASSUME TypeOK, AtWork, [Next]_vars PROVE AtWork'
  OBVIOUS
<1>1. ASSUME NEW w \in Writers, Step(w) PROVE AtWork'
  BY <1>1, StepShape DEF Shape, AtWork
<1>2. CASE RemoveStaleLock
  BY <1>2 DEF RemoveStaleLock, local, AtWork
<1>3. CASE UNCHANGED vars
  BY <1>3 DEF vars, AtWork
<1> QED BY <1>1, <1>2, <1>3 DEF Next, Step

LEMMA StepOneWriter == TypeOK /\ OneWriter /\ [Next]_vars => OneWriter'
<1> SUFFICES ASSUME TypeOK, OneWriter, [Next]_vars PROVE OneWriter'
  OBVIOUS
<1>1. ASSUME NEW w \in Writers, Step(w) PROVE OneWriter'
  <2>1. Shape(w)
    BY <1>1, StepShape
  <2>2. CASE StaysOut(w)
    BY <2>1, <2>2 DEF Shape, StaysOut, OneWriter
  <2>3. CASE Enters(w)
    BY <2>1, <2>3 DEF Shape, Enters, OneWriter
  <2>4. CASE Exits(w)
    BY <2>1, <2>4 DEF Shape, Exits, OneWriter
  <2> QED BY <2>1, <2>2, <2>3, <2>4 DEF Shape
<1>2. CASE RemoveStaleLock
  BY <1>2 DEF RemoveStaleLock, local, OneWriter, Critical
<1>3. CASE UNCHANGED vars
  BY <1>3 DEF vars, OneWriter
<1> QED BY <1>1, <1>2, <1>3 DEF Next, Step

LEMMA InitTyped == Init => TypeOK /\ AtWork /\ OneWriter
<1> SUFFICES ASSUME Init PROVE TypeOK /\ AtWork /\ OneWriter
  OBVIOUS
<1>1. TypeOK
  <2>1. runs \in [RunIds -> State] /\ job \in [Writers -> Jobs]
    BY EmptyHistory, EmptyJob DEF Init
  <2>2. /\ latest \in Places /\ rolledBack \subseteq RunIds /\ output \in Places
        /\ lockFile \in BOOLEAN /\ old \in [Writers -> Places]
        /\ restored \in [Writers -> BOOLEAN]
    BY DEF Init, Places
  <2>3. /\ pc \in [Writers -> Labels] /\ result \in [Writers -> Results]
        /\ made \in [Writers -> 0..3]
    BY LabelNames DEF Init, Results
  <2> QED BY <2>1, <2>2, <2>3, TypeParts
<1>2. AtWork /\ OneWriter
  BY DEF Init, AtWork, OneWriter, Critical
<1> QED BY <1>1, <1>2

\* Every action keeps every variable within its type: a run directory only
\* ever receives a well-formed state, a writer is always at a known step
\* (VirtualAccountRepository, service.py:75-366).
THEOREM TypeCorrect == Spec => []TypeOK
BY InitTyped, StepTyped, StepAtWork, PTL DEF Spec

\* Two writers never work on the account at once, and whoever does holds the
\* lock file, however operations fail, die or are interrupted and whenever a
\* left-over lock is removed (_write_lock, service.py:84-99).
THEOREM MutualExclusion == Spec => []OneWriter
BY InitTyped, StepTyped, StepAtWork, StepOneWriter, PTL DEF Spec

-----------------------------------------------------------------------------
(* The strengthening: what is sealed in a run carries the name of the run. *)

\* Every entry of the history names the run that the entry before it, by its
\* content, was saved under.
Sealed(s) ==
    \A k \in 2..Len(s) :
        s[k].parent \in RunIds /\ s[k - 1].payload \in MayCarry[s[k].parent]

Named(r, s) == r \in RunIds /\ Len(s) > 0 /\ s[Len(s)].payload \in MayCarry[r]

RunsSealed == \A r \in RunIds : Exists(r) => Sealed(runs[r]) /\ Named(r, runs[r])

\* What a writer remembers, wherever it is.
JobSound(w) ==
    LET j == job[w] IN
    /\ pc[w] = "placed" => j.op = "save"
    /\ pc[w] = "restored" => j.op = "rollback"
    /\ pc[w] \in {"staged", "publishing", "undoLatest", "undoOutput", "undoRuns"} =>
           j.op = "publish"
    /\ pc[w] \in {"idle", "staged", "ready", "locked"} => made[w] = 0
    /\ j.op = "save" => Sealed(j.state) /\ Named(j.run, j.state) /\ j.run \in IdsOf[w]
    /\ j.op = "rollback" => j.run \in RunIds /\ j.base \in RunIds
    /\ j.op = "publish" =>
           /\ Sealed(j.state) /\ Len(j.state) > 2
           /\ Named(j.run, j.state) /\ Named(j.first, Parent(j.state))
           /\ {j.first, j.run} \subseteq IdsOf[w] \ {Genesis}
           /\ j.first # j.run /\ j.base \in RunIds

\* The runs of a publication that has moved none are not there.
Fresh(w) ==
    /\ job[w].op = "publish"
    /\ made[w] = 0 /\ pc[w] \in {"staged", "ready", "locked", "undoLatest"}
    => ~Exists(job[w].first) /\ ~Exists(job[w].run)

\* What the holder of the lock knows of the disk.
Holding(w) ==
    LET j == job[w] IN
    /\ pc[w] = "placed" =>
           runs[j.run] = j.state /\ Walkable(j.state) /\ FollowsLatest(j.state)
    /\ pc[w] = "restored" =>
           latest = j.base /\ Exists(j.run) /\ Parent(runs[j.run]) = runs[j.base]
    /\ pc[w] = "publishing" => made[w] > 0
    /\ pc[w] \in {"publishing", "undoLatest"} /\ made[w] = 1 => ~Exists(j.run)
    /\ pc[w] \in {"publishing", "undoLatest", "undoOutput", "undoRuns"} /\ made[w] > 0 =>
           /\ latest = j.base
           /\ runs[latest] = Prefix(j.state, Len(j.state) - 2)
           /\ runs[j.first] = Parent(j.state)
           /\ made[w] > 1 => runs[j.run] = j.state

Sound(w) == JobSound(w) /\ Fresh(w) /\ Holding(w)

LatestSound == LatestVerified /\ ChainWalkable

IInv ==
    /\ TypeOK /\ AtWork /\ OneWriter
    /\ LatestSound /\ RunsSealed
    /\ \A w \in Writers : Sound(w)

-----------------------------------------------------------------------------
(* Histories that are sealed or walkable.                                  *)

LEMMA SealedParent ==
    ASSUME NEW s \in State, Len(s) > 0, Sealed(s)
    PROVE  Sealed(Parent(s))
<1> SUFFICES ASSUME NEW k \in 2..Len(Parent(s))
             PROVE  /\ Parent(s)[k].parent \in RunIds
                    /\ Parent(s)[k - 1].payload \in MayCarry[Parent(s)[k].parent]
  BY DEF Sealed
<1>1. Len(s) \in Nat /\ Len(Parent(s)) = Len(s) - 1
  BY ParentParts, LengthIsNat
<1>2. Parent(s)[k] = s[k] /\ Parent(s)[k - 1] = s[k - 1]
  BY <1>1, ParentParts
<1> QED BY <1>1, <1>2 DEF Sealed

LEMMA SealedAppend ==
    ASSUME NEW l \in RunIds, NEW s \in State, Sealed(s), Named(l, s),
           NEW p \in Payloads, NEW r \in RunIds, p \in MayCarry[r]
    PROVE  LET t == Append(s, [parent |-> l, payload |-> p])
           IN  t \in State /\ Sealed(t) /\ Named(r, t) /\ Parent(t) = s
<1> DEFINE e == [parent |-> l, payload |-> p]
           t == Append(s, e)
<1>1. e \in Entry /\ e.parent = l /\ e.payload = p
  BY DEF Entry
<1> HIDE DEF e
<1>2. /\ t \in State /\ Len(t) = Len(s) + 1 /\ t[Len(s) + 1] = e
      /\ \A k \in 1..Len(s) : t[k] = s[k]
  BY <1>1, AppendEntry
<1> HIDE DEF t
<1>3. Sealed(t)
  BY <1>1, <1>2, LengthIsNat DEF Sealed, Named
<1>4. Named(r, t)
  BY <1>1, <1>2, LengthIsNat DEF Named
<1>5. Parent(t) = s
  BY <1>2, ParentParts, LengthIsNat, SameHistory
<1> QED BY <1>2, <1>3, <1>4, <1>5 DEF t, e

LEMMA WalkableParent ==
    ASSUME NEW s \in State, Len(s) > 0, Walkable(s)
    PROVE  Walkable(Parent(s))
<1> SUFFICES ASSUME NEW k \in 2..Len(Parent(s))
             PROVE  /\ Parent(s)[k].parent \in RunIds
                    /\ runs[Parent(s)[k].parent] = Prefix(Parent(s), k - 1)
  BY DEF Walkable
<1>1. k \in 2..(Len(s) - 1) /\ Parent(s)[k] = s[k]
  BY ParentParts, LengthIsNat
<1>2. Prefix(Parent(s), k - 1) = Prefix(s, k - 1)
  BY <1>1, ParentParts, LengthIsNat DEF Prefix
<1> QED BY <1>1, <1>2, LengthIsNat DEF Walkable

\* A history stays walkable as long as only runs change that were not there
\* or whose own history is at least as long.
LEMMA WalkableKept ==
    ASSUME NEW CONSTANT s, s \in State, Walkable(s),
           \A r \in RunIds : \/ runs'[r] = runs[r]
                             \/ runs[r] = NoState
                             \/ Len(runs[r]) >= Len(s)
    PROVE  Walkable(s)'
<1> SUFFICES ASSUME NEW k \in 2..Len(s)
             PROVE  s[k].parent \in RunIds /\ runs'[s[k].parent] = Prefix(s, k - 1)
  BY DEF Walkable
<1>1. s[k].parent \in RunIds /\ runs[s[k].parent] = Prefix(s, k - 1)
  BY DEF Walkable
<1>2. Prefix(s, k - 1) \in State /\ Len(Prefix(s, k - 1)) = k - 1
  BY PrefixIsState, LengthIsNat
<1>3. k - 1 > 0 /\ k - 1 < Len(s)
  BY LengthIsNat
<1>4. runs'[s[k].parent] = runs[s[k].parent]
  BY <1>1, <1>2, <1>3, LengthIsNat
<1> QED BY <1>1, <1>4

\* The state that follows a run is walkable if the run's own state is: the run
\* its last entry names can only be the one its front was saved under.
LEMMA WalkableNext ==
    ASSUME Stamped, TypeOK, RunsSealed, NEW l \in RunIds, NEW s \in State, Len(s) > 1,
           Sealed(s), Parent(s) = runs[l], Walkable(runs[l])
    PROVE  Walkable(s)
<1>1. /\ Parent(s) \in State /\ Len(Parent(s)) = Len(s) - 1 /\ Len(s) \in Nat
      /\ Parent(s) = Prefix(s, Len(s) - 1)
      /\ \A k \in 1..(Len(s) - 1) : Parent(s)[k] = s[k]
  <2>1. Len(s) \in Nat /\ Len(s) > 0
    BY LengthIsNat
  <2> QED BY <2>1, ParentParts
<1>2. Exists(l)
  <2>1. Len(runs[l]) # 0
    BY <1>1
  <2> QED BY <2>1, EmptyHistory DEF Exists
<1>3. s[Len(s) - 1].payload \in MayCarry[l]
  <2>1. Parent(s)[Len(s) - 1].payload \in MayCarry[l]
    BY <1>1, <1>2 DEF RunsSealed, Named
  <2> QED BY <2>1, <1>1
<1>4. s[Len(s)].parent \in RunIds /\ s[Len(s) - 1].payload \in MayCarry[s[Len(s)].parent]
  BY <1>1 DEF Sealed
<1>5. s[Len(s)].parent = l
  BY <1>3, <1>4 DEF Stamped
<1> SUFFICES ASSUME NEW k \in 2..Len(s)
             PROVE  s[k].parent \in RunIds /\ runs[s[k].parent] = Prefix(s, k - 1)
  BY DEF Walkable
<1>6. CASE k = Len(s)
  BY <1>1, <1>5, <1>6
<1>7. CASE k < Len(s)
  <2>1. Parent(s)[k].parent \in RunIds /\ runs[Parent(s)[k].parent] = Prefix(Parent(s), k - 1)
    BY <1>1, <1>7 DEF Walkable
  <2>2. Prefix(Parent(s), k - 1) = Prefix(s, k - 1)
    BY <1>1, <1>7 DEF Prefix
  <2> QED BY <2>1, <2>2, <1>1, <1>7
<1> QED BY <1>1, <1>6, <1>7

-----------------------------------------------------------------------------
(* Every step keeps the strengthening: first what it leaves alone.         *)

\* A run that appears is the writer's own; one that disappears is longer than
\* the line of latest.
NewRuns(w) ==
    \A r \in RunIds :
        \/ runs'[r] = runs[r]
        \/ runs[r] = NoState /\ r \in IdsOf[w]
        \/ runs'[r] = NoState /\ (latest # None => Len(runs[r]) > Len(runs[latest]))

\* The line of states that readers see, and how it may move.
Line == IF latest = None THEN << >> ELSE runs[latest]
LineMoves == Line' = Line \/ Chain!Next

Kept(w) == LatestSound' /\ RunsSealed' /\ NewRuns(w) /\ LineMoves /\ Sound(w)'

LEMMA DiskKept ==
    ASSUME IInv, NEW w \in Writers, UNCHANGED <<runs, latest>>
    PROVE  LatestSound' /\ RunsSealed' /\ NewRuns(w) /\ LineMoves
<1>1. LatestSound' /\ RunsSealed'
  BY DEF IInv, LatestSound, LatestVerified, ChainWalkable, Walkable, Exists, RunsSealed
<1>2. NewRuns(w) /\ LineMoves
  BY DEF NewRuns, LineMoves, Line
<1> QED BY <1>1, <1>2

LEMMA LineOpens ==
    ASSUME NEW CONSTANT s, s \in State, Len(s) = 1, latest = None,
           latest' # None, runs'[latest'] = s
    PROVE  LineMoves
<1>1. Line = << >> /\ Line' = s
  BY DEF Line
<1> QED BY <1>1 DEF LineMoves, Line, Chain!Next, Chain!Open, State

LEMMA LineExtends ==
    ASSUME NEW CONSTANT s, s \in State, NEW CONSTANT t, t \in State, t # NoState,
           Len(s) > Len(t), \A k \in 1..Len(t) : s[k] = t[k],
           latest # None, runs[latest] = t, latest' # None, runs'[latest'] = s
    PROVE  LineMoves
<1>1. Line = t /\ Line' = s
  BY DEF Line
<1> QED BY <1>1 DEF LineMoves, Line, Chain!Next, Chain!Extend, State, NoState

LEMMA LineTakesBack ==
    ASSUME NEW CONSTANT s, s \in State, Len(s) > 1,
           latest # None, runs[latest] = s, latest' # None, runs'[latest'] = Parent(s)
    PROVE  LineMoves
<1>1. Line = s /\ Line' = Parent(s)
  BY DEF Line
<1> QED BY <1>1 DEF LineMoves, Line, Chain!Next, Chain!TakeBack, Parent, Prefix

\* Another writer is outside the lock, or it alone is inside.
LEMMA OtherSound ==
    ASSUME Stamped, IInv, NEW w \in Writers, Step(w), NewRuns(w), NEW v \in Writers \ {w}
    PROVE  Sound(v)'
<1>1. pc'[v] = pc[v] /\ job'[v] = job[v] /\ made'[v] = made[v]
  BY StepShape DEF IInv, Shape
<1>2. JobSound(v) /\ Fresh(v) /\ Holding(v)
  BY DEF IInv, Sound
<1>3. JobSound(v)'
  BY <1>1, <1>2 DEF JobSound
<1>4. Fresh(v)'
  <2> SUFFICES ASSUME job[v].op = "publish", made[v] = 0,
                      pc[v] \in {"staged", "ready", "locked", "undoLatest"}
               PROVE  runs'[job[v].first] = NoState /\ runs'[job[v].run] = NoState
    BY <1>1 DEF Fresh, Exists
  <2>1. runs[job[v].first] = NoState /\ runs[job[v].run] = NoState
    BY <1>2 DEF Fresh, Exists
  <2>2. {job[v].first, job[v].run} \subseteq IdsOf[v] \ {Genesis}
    BY <1>2 DEF JobSound
  <2>3. job[v].first \in RunIds \ IdsOf[w] /\ job[v].run \in RunIds \ IdsOf[w]
    BY <2>2, RepositoryAssumption DEF Stamped
  <2> QED BY <2>1, <2>3 DEF NewRuns
<1>5. Holding(v)'
  <2>1. CASE UNCHANGED disk
    BY <2>1, <1>1, <1>2 DEF disk, Holding, Exists, Walkable, FollowsLatest
  <2>2. CASE pc[w] \in Critical
    <3>1. pc[v] \notin Critical
      BY <2>2 DEF IInv, OneWriter
    <3> QED BY <1>1, <3>1 DEF Holding, Critical
  <2> QED BY <2>1, <2>2, StepShape DEF IInv, Shape
<1> QED BY <1>3, <1>4, <1>5 DEF Sound

LEMMA StepKept ==
    ASSUME Stamped, IInv, NEW w \in Writers, Step(w), Kept(w), TypeOK', AtWork', OneWriter'
    PROVE  IInv'
<1>1. \A v \in Writers \ {w} : Sound(v)'
  BY OtherSound DEF Kept
<1> QED BY <1>1 DEF Kept, IInv

\* A writer that is idle, and one that is about to release the lock.
LEMMA IdleSound ==
    ASSUME NEW w \in Writers, pc'[w] = "idle", job'[w] = NoJob, made'[w] = 0
    PROVE  Sound(w)'
BY DEF Sound, JobSound, Fresh, Holding, NoJob

LEMMA LeaveSound ==
    ASSUME TypeOK, NEW w \in Writers, Leave(w)
    PROVE  Sound(w)'
<1>1. pc'[w] = "idle" /\ job'[w] = NoJob /\ made'[w] = 0
  BY TypeParts DEF Leave, Goto
<1> QED BY <1>1, IdleSound

LEMMA FinishSound ==
    ASSUME TypeOK, NEW w \in Writers, NEW how, Finish(w, how), JobSound(w)
    PROVE  Sound(w)'
<1>1. pc'[w] = "release" /\ job' = job /\ made' = made
  BY FinishOthers
<1> QED BY <1>1 DEF Sound, JobSound, Fresh, Holding

-----------------------------------------------------------------------------
(* Then each kind of step.                                                 *)

LEMMA RequestKept ==
    ASSUME Stamped, IInv, NEW w \in Writers, Request(w)
    PROVE  Kept(w)
<1>0. /\ TypeOK /\ RunsSealed /\ Sound(w)
      /\ runs \in [RunIds -> State] /\ latest \in Places /\ pc \in [Writers -> Labels]
      /\ job \in [Writers -> Jobs]
  BY TypeParts DEF IInv
<1>1. LatestSound' /\ RunsSealed' /\ NewRuns(w) /\ LineMoves /\ UNCHANGED <<runs, made>> /\ pc[w] = "idle"
  <2>1. pc[w] = "idle" /\ UNCHANGED <<disk, made>>
    BY <1>0, RequestTyped DEF Begin
  <2> QED BY <2>1, DiskKept DEF disk
<1>2. made[w] = 0
  BY <1>0, <1>1 DEF Sound, JobSound
<1>3. ASSUME NEW p \in Payloads, Initialize(w, p) PROVE Sound(w)'
  <2> DEFINE s == << [parent |-> None, payload |-> p] >>
  <2>1. Sealed(s) /\ Named(Genesis, s)
    BY <1>3, RepositoryAssumption DEF Initialize, Sealed, Named
  <2>2. pc'[w] = "ready" /\ job'[w].op = "save" /\ job'[w].run = Genesis /\ job'[w].state = s
    BY <1>3, <1>0 DEF Initialize, Begin, Goto
  <2>3. Genesis \in IdsOf[w]
    BY <1>3 DEF Initialize
  <2> HIDE DEF s
  <2> QED BY <2>1, <2>2, <2>3, <1>1, <1>2 DEF Sound, JobSound, Fresh, Holding
<1>4. ASSUME NEW r \in RunIds, NEW p \in Payloads, ComputeNext(w, r, p) PROVE Sound(w)'
  <2> DEFINE s == Append(runs[latest], [parent |-> latest, payload |-> p])
  <2>1. latest \in RunIds /\ Sealed(runs[latest]) /\ Named(latest, runs[latest])
    BY <1>4, <1>0 DEF ComputeNext, Places, RunsSealed
  <2>2. r \in IdsOf[w] /\ p \in MayCarry[r] /\ runs[latest] \in State
    BY <1>4, <1>0, <2>1 DEF ComputeNext
  <2>3. Sealed(s) /\ Named(r, s)
    BY <2>1, <2>2, SealedAppend
  <2>4. pc'[w] = "ready" /\ job'[w].op = "save" /\ job'[w].run = r /\ job'[w].state = s
    BY <1>4, <1>0 DEF ComputeNext, Begin, Goto
  <2> HIDE DEF s
  <2> QED BY <2>2, <2>3, <2>4, <1>1, <1>2 DEF Sound, JobSound, Fresh, Holding
<1>5. ASSUME NEW r \in RunIds, RequestRollback(w, r) PROVE Sound(w)'
  <2>1. /\ pc'[w] = "ready" /\ job'[w].op = "rollback" /\ job'[w].run = latest
        /\ job'[w].base = r /\ latest \in RunIds
    BY <1>5, <1>0 DEF RequestRollback, Begin, Goto, Places
  <2> QED BY <2>1, <1>1, <1>2 DEF Sound, JobSound, Fresh, Holding
<1>6. ASSUME NEW r1 \in RunIds, NEW r2 \in RunIds, NEW p1 \in Payloads, NEW p2 \in Payloads,
             StageChain(w, r1, r2, p1, p2)
      PROVE  Sound(w)'
  <2> DEFINE s1 == Append(runs[latest], [parent |-> latest, payload |-> p1])
             s2 == Append(s1, [parent |-> r1, payload |-> p2])
  <2>1. latest \in RunIds /\ Sealed(runs[latest]) /\ Named(latest, runs[latest])
    BY <1>6, <1>0 DEF StageChain, Places, RunsSealed
  <2>2. /\ p1 \in MayCarry[r1] /\ p2 \in MayCarry[r2] /\ runs[latest] \in State
        /\ {r1, r2} \subseteq IdsOf[w] \ {Genesis} /\ r1 # r2 /\ ~Exists(r1) /\ ~Exists(r2)
    BY <1>6, <1>0, <2>1 DEF StageChain
  <2>3. s1 \in State /\ Sealed(s1) /\ Named(r1, s1) /\ Parent(s1) = runs[latest]
    BY <2>1, <2>2, SealedAppend
  <2>4. /\ pc'[w] = "staged" /\ job'[w].op = "publish"
        /\ job'[w].first = r1 /\ job'[w].run = r2 /\ job'[w].state = s2
        /\ job'[w].base = latest
    BY <1>6, <1>0 DEF StageChain, Begin, Goto
  <2> HIDE DEF s1
  <2>5. s2 \in State /\ Sealed(s2) /\ Named(r2, s2) /\ Parent(s2) = s1
    BY <2>2, <2>3, SealedAppend
  <2> HIDE DEF s2
  <2>6. Len(s2) > 2
    <3>1. Len(s2) > 0 /\ Len(s1) > 0 /\ Len(runs[latest]) > 0
      BY <2>1, <2>3, <2>5 DEF Named
    <3>2. Len(s1) = Len(s2) - 1 /\ Len(runs[latest]) = Len(s1) - 1
      BY <3>1, <2>3, <2>5, ParentParts
    <3> QED BY <3>1, <3>2, <2>2, <2>3, <2>5, LengthIsNat
  <2>7. JobSound(w)'
    BY <2>1, <2>2, <2>3, <2>4, <2>5, <2>6, <1>1, <1>2 DEF JobSound
  <2>8. Fresh(w)'
    BY <2>2, <2>4, <1>1 DEF Fresh, Exists
  <2>9. Holding(w)'
    BY <2>4 DEF Holding
  <2> QED BY <2>7, <2>8, <2>9 DEF Sound
<1> QED BY <1>1, <1>3, <1>4, <1>5, <1>6 DEF Kept, Request

\* Steps that leave the runs and latest alone and remember their job.
LEMMA QuietKept ==
    ASSUME IInv, NEW w \in Writers, UNCHANGED <<runs, latest>>, Sound(w)'
    PROVE  Kept(w)
BY DiskKept DEF Kept

LEMMA LockKept ==
    ASSUME IInv, NEW w \in Writers,
           BeginPublish(w) \/ AcquireLock(w) \/ LockBusy(w) \/ ReleaseLock(w)
    PROVE  Kept(w)
<1>0. TypeOK /\ JobSound(w) /\ Fresh(w)
  BY DEF IInv, Sound
<1> USE DEF disk, local
<1>1. CASE BeginPublish(w)
  <2>1. /\ pc[w] = "staged" /\ pc'[w] = "ready" /\ UNCHANGED <<runs, latest, job, made>>
    BY <1>1, <1>0, GotoOthers DEF BeginPublish
  <2>2. Sound(w)'
    BY <1>0, <2>1 DEF Sound, JobSound, Fresh, Holding, Exists
  <2> QED BY <2>1, <2>2, QuietKept
<1>2. CASE AcquireLock(w)
  <2>1. /\ pc[w] = "ready" /\ pc'[w] = "locked" /\ UNCHANGED <<runs, latest, job, made>>
    BY <1>2, <1>0, GotoOthers DEF AcquireLock
  <2>2. Sound(w)'
    BY <1>0, <2>1 DEF Sound, JobSound, Fresh, Holding, Exists
  <2> QED BY <2>1, <2>2, QuietKept
<1>3. CASE LockBusy(w) \/ ReleaseLock(w)
  BY <1>3, <1>0, LeaveSound, QuietKept DEF LockBusy, ReleaseLock
<1> QED BY <1>1, <1>2, <1>3

LEMMA QuietFinishKept ==
    ASSUME IInv, NEW w \in Writers,
           SaveExisting(w) \/ SaveRefused(w) \/ RollbackRefused(w) \/ Fault(w)
    PROVE  Kept(w)
<1>1. TypeOK /\ JobSound(w)
  BY DEF IInv, Sound
<1>2. UNCHANGED disk /\ \E how : Finish(w, how)
  BY DEF SaveExisting, SaveRefused, RollbackRefused, Fault
<1>3. Sound(w)'
  BY <1>1, <1>2, FinishSound
<1> QED BY <1>2, <1>3, QuietKept DEF disk

LEMMA SavePlaceKept ==
    ASSUME Stamped, IInv, NEW w \in Writers, SavePlace(w)
    PROVE  Kept(w)
<1>1. /\ TypeOK /\ RunsSealed /\ LatestSound
      /\ runs \in [RunIds -> State] /\ latest \in Places /\ job[w].state \in State
  BY TypeParts, JobParts DEF IInv
<1>2. PICK r \in RunIds, s \in State : r = job[w].run /\ s = job[w].state
  BY <1>1 DEF IInv, Sound, JobSound, SavePlace, Saving, Named
<1>3. /\ Sealed(s) /\ Named(r, s) /\ r \in IdsOf[w] /\ job[w].op = "save" /\ made[w] = 0
  BY <1>2 DEF IInv, Sound, JobSound, SavePlace, Saving
<1>4. /\ runs[r] = NoState /\ FollowsLatest(s) /\ runs' = [runs EXCEPT ![r] = s]
      /\ pc'[w] = "placed" /\ UNCHANGED <<latest, job, made>>
  BY <1>1, <1>2, GotoOthers DEF SavePlace, Exists, local
<1>5. /\ runs'[r] = s /\ s # NoState
      /\ \A x \in RunIds : runs'[x] = runs[x] \/ (x = r /\ runs[x] = NoState)
  BY <1>1, <1>3, <1>4, LengthIsNat DEF Named
<1>6. NewRuns(w)
  BY <1>3, <1>5 DEF NewRuns
<1>7. RunsSealed'
  <2> SUFFICES ASSUME NEW x \in RunIds, runs'[x] # NoState
               PROVE  Sealed(runs'[x]) /\ Named(x, runs'[x])
    BY DEF RunsSealed, Exists, Sealed, Named
  <2> QED BY <1>1, <1>3, <1>5 DEF RunsSealed, Exists
<1>8. FollowsLatest(s)' /\ Walkable(s)' /\ LatestSound'
  <2>1. CASE latest = None
    <3>1. Len(s) = 1
      BY <1>4, <2>1 DEF FollowsLatest
    <3> QED BY <3>1, <1>4, <2>1
            DEF FollowsLatest, Walkable, LatestSound, LatestVerified, ChainWalkable
  <2>2. CASE latest # None
    <3>1. PICK l \in RunIds, t \in State :
              l = latest /\ t = runs[l] /\ t # NoState /\ Walkable(t)
      BY <1>1, <2>2 DEF LatestSound, LatestVerified, ChainWalkable, Exists, Places
    <3>2. runs'[l] = t
      BY <1>5, <3>1
    <3>3. Len(s) = Len(t) + 1 /\ Parent(s) = t
      BY <1>4, <2>2, <3>1 DEF FollowsLatest
    <3>4. Len(s) > 1
      BY <3>1, <3>3, LengthIsNat
    <3>5. Walkable(s)
      BY <1>1, <1>3, <3>1, <3>3, <3>4, WalkableNext
    <3>6. Walkable(s)' /\ Walkable(t)'
      BY <1>5, <3>1, <3>5, WalkableKept
    <3>7. FollowsLatest(s)'
      BY <1>4, <3>1, <3>2, <3>3 DEF FollowsLatest, Exists
    <3>8. LatestSound'
      BY <1>4, <3>1, <3>2, <3>6 DEF LatestSound, LatestVerified, ChainWalkable, Walkable, Exists
    <3> QED BY <3>6, <3>7, <3>8
  <2> QED BY <2>1, <2>2
<1>12. LineMoves
  BY <1>1, <1>4, <1>5, RepositoryAssumption
     DEF LineMoves, Line, LatestSound, LatestVerified, Exists, Places
<1>9. job'[w].state = s /\ job'[w].run = r
  BY <1>2, <1>4
<1>10. Holding(w)'
  BY <1>4, <1>5, <1>8, <1>9 DEF Holding, Walkable, FollowsLatest, Exists
<1>11. JobSound(w)' /\ Fresh(w)'
  BY <1>3, <1>4, <1>9 DEF JobSound, Fresh
<1> QED BY <1>6, <1>7, <1>8, <1>10, <1>11, <1>12 DEF Kept, Sound

LEMMA SaveAdvanceKept ==
    ASSUME IInv, NEW w \in Writers, SaveAdvance(w)
    PROVE  Kept(w)
<1>1. /\ TypeOK /\ JobSound(w) /\ LatestSound /\ RunsSealed /\ runs' = runs
      /\ pc[w] = "placed" /\ Finish(w, "done")
  BY DEF IInv, Sound, SaveAdvance
<1>2. PICK r \in RunIds : r = job[w].run
  BY <1>1 DEF JobSound, Named
<1>3. runs[r] = job[w].state /\ Walkable(runs[r]) /\ runs[r] # NoState
  <2>1. runs[r] = job[w].state /\ Walkable(job[w].state)
    BY <1>1, <1>2 DEF IInv, Sound, Holding
  <2>2. Len(runs[r]) > 0 /\ runs[r] \in State
    BY <1>1, <2>1, TypeParts DEF JobSound, Named
  <2> QED BY <2>1, <2>2, LengthIsNat
<1>4. latest' = latest \/ latest' = r
  BY <1>2 DEF SaveAdvance
<1>5. LatestSound'
  BY <1>1, <1>3, <1>4 DEF LatestSound, LatestVerified, ChainWalkable, Walkable, Exists
<1>6. RunsSealed' /\ NewRuns(w)
  BY <1>1 DEF RunsSealed, NewRuns, Exists
<1>7. Sound(w)'
  BY <1>1, FinishSound
<1>8. LineMoves
  <2>1. PICK s \in State : s = job[w].state /\ runs[r] = s /\ Len(s) > 0
    BY <1>1, <1>3, TypeParts, JobParts DEF JobSound, Named
  <2>2. FollowsLatest(s)
    BY <1>1, <2>1 DEF IInv, Sound, Holding
  <2>3. CASE latest = None
    <3>1. Len(s) = 1
      BY <2>2, <2>3 DEF FollowsLatest
    <3>2. latest' = r
      BY <1>2, <2>3 DEF SaveAdvance
    <3> QED BY <1>1, <2>1, <2>3, <3>1, <3>2, RepositoryAssumption, LineOpens
  <2>4. CASE latest # None
    <3>1. PICK t \in State : t = runs[latest] /\ t # NoState
      BY <1>1, <2>4, TypeParts DEF LatestSound, LatestVerified, Exists, Places
    <3>2. Len(s) = Len(t) + 1 /\ Parent(s) = t
      BY <2>2, <2>4, <3>1 DEF FollowsLatest
    <3>3. Len(t) = Len(s) - 1 /\ \A k \in 1..Len(t) : s[k] = t[k]
      BY <2>1, <3>1, <3>2, ParentParts, LengthIsNat
    <3>4. Len(s) > Len(t)
      BY <3>1, <3>2, LengthIsNat
    <3>5. CASE latest' = latest
      BY <1>1, <2>4, <3>5 DEF LineMoves, Line
    <3>6. CASE latest' = r
      <4>1. r # None /\ runs'[latest'] = s
        BY <1>1, <2>1, <3>6, RepositoryAssumption
      <4> QED BY <2>1, <2>4, <3>1, <3>3, <3>4, <3>6, <4>1, LineExtends
    <3> QED BY <1>4, <3>5, <3>6
  <2> QED BY <2>3, <2>4
<1> QED BY <1>5, <1>6, <1>7, <1>8 DEF Kept

LEMMA RollbackRestoreKept ==
    ASSUME IInv, NEW w \in Writers, RollbackRestore(w)
    PROVE  Kept(w)
<1>1. /\ TypeOK /\ JobSound(w) /\ LatestSound /\ RunsSealed /\ runs \in [RunIds -> State]
      /\ pc[w] = "locked" /\ job[w].op = "rollback" /\ RollbackAllowed(job[w])
      /\ latest' = job[w].base /\ UNCHANGED <<runs, job, made>>
  BY TypeParts DEF IInv, Sound, RollbackRestore, RollingBack, local
<1>2. PICK r \in RunIds, b \in RunIds : r = job[w].run /\ b = job[w].base
  BY <1>1 DEF JobSound
<1>3. /\ latest = r /\ runs[r] # NoState /\ runs[b] # NoState /\ Parent(runs[r]) = runs[b]
      /\ Walkable(runs[r])
  BY <1>1, <1>2, RepositoryAssumption
     DEF RollbackAllowed, Exists, LatestSound, ChainWalkable
<1>4. Walkable(runs[b])
  <2>1. Len(runs[r]) > 0
    BY <1>1, <1>3, LengthIsNat
  <2>2. Walkable(Parent(runs[r]))
    BY <1>1, <1>3, <2>1, WalkableParent
  <2> QED BY <1>3, <2>2
<1>5. LatestSound'
  BY <1>1, <1>2, <1>3, <1>4 DEF LatestSound, LatestVerified, ChainWalkable, Walkable, Exists
<1>6. RunsSealed' /\ NewRuns(w)
  BY <1>1 DEF RunsSealed, NewRuns, Exists
<1>7. pc'[w] = "restored"
  BY <1>1, GotoOthers DEF RollbackRestore
<1>8. JobSound(w)' /\ Fresh(w)'
  BY <1>1, <1>7 DEF JobSound, Fresh
<1>9. Holding(w)'
  BY <1>1, <1>2, <1>3, <1>7 DEF Holding, Exists
<1>10. LineMoves
  <2>1. PICK s \in State : s = runs[r]
    BY <1>1
  <2>2. Parent(s) \in State /\ Len(Parent(s)) = Len(s) - 1 /\ Len(s) \in Nat
    <3>1. Len(s) > 0
      BY <1>3, <2>1, LengthIsNat
    <3> QED BY <3>1, ParentParts, LengthIsNat
  <2>3. Len(s) > 1
    BY <1>3, <2>1, <2>2, LengthIsNat
  <2> QED BY <1>1, <1>2, <1>3, <2>1, <2>3, RepositoryAssumption, LineTakesBack
<1> QED BY <1>5, <1>6, <1>8, <1>9, <1>10 DEF Kept, Sound

\* A removed run whose history is longer than that of latest is on nobody's
\* way back to the genesis state.
LEMMA RemovalKeepsHead ==
    ASSUME TypeOK, LatestSound, RunsSealed, NEW w \in Writers, NEW x \in RunIds,
           runs' = [runs EXCEPT ![x] = NoState], latest' = latest,
           latest # None => Len(runs[x]) > Len(runs[latest])
    PROVE  LatestSound' /\ RunsSealed' /\ NewRuns(w) /\ LineMoves
<1>1. /\ runs \in [RunIds -> State] /\ latest \in Places
      /\ \A r \in RunIds : runs'[r] = runs[r] \/ (r = x /\ runs'[r] = NoState)
  BY TypeParts
<1>2. LatestSound'
  <2>1. CASE latest = None
    BY <2>1 DEF LatestSound, LatestVerified, ChainWalkable
  <2>2. CASE latest # None
    <3>1. PICK l \in RunIds, t \in State :
              l = latest /\ t = runs[l] /\ t # NoState /\ Walkable(t)
      BY <1>1, <2>2 DEF LatestSound, LatestVerified, ChainWalkable, Exists, Places
    <3>2. l # x /\ Len(runs[x]) >= Len(t)
      BY <2>2, <3>1, <1>1, LengthIsNat
    <3>3. runs'[l] = t /\ Walkable(t)'
      BY <1>1, <3>1, <3>2, WalkableKept
    <3> QED BY <3>1, <3>3 DEF LatestSound, LatestVerified, ChainWalkable, Walkable, Exists
  <2> QED BY <2>1, <2>2
<1>3. RunsSealed'
  <2> SUFFICES ASSUME NEW r \in RunIds, runs'[r] # NoState
               PROVE  Sealed(runs'[r]) /\ Named(r, runs'[r])
    BY DEF RunsSealed, Exists, Sealed, Named
  <2> QED BY <1>1 DEF RunsSealed, Exists
<1>4. LineMoves
  BY <1>1, LengthIsNat DEF LineMoves, Line, Places
<1> QED BY <1>1, <1>2, <1>3, <1>4 DEF NewRuns

LEMMA RollbackMoveKept ==
    ASSUME IInv, NEW w \in Writers, RollbackMove(w)
    PROVE  Kept(w)
<1>1. /\ TypeOK /\ JobSound(w) /\ LatestSound /\ RunsSealed /\ runs \in [RunIds -> State]
      /\ pc[w] = "restored" /\ latest' = latest /\ Finish(w, "done")
  BY TypeParts DEF IInv, Sound, RollbackMove
<1>2. PICK r \in RunIds, b \in RunIds : r = job[w].run /\ b = job[w].base
  BY <1>1 DEF JobSound
<1>3. latest = b /\ runs[r] # NoState /\ Parent(runs[r]) = runs[b]
  BY <1>1, <1>2 DEF IInv, Sound, Holding, Exists
<1>4. Len(runs[r]) > Len(runs[latest])
  <2>1. Len(runs[r]) > 0
    BY <1>1, <1>3, LengthIsNat
  <2>2. Len(runs[b]) = Len(runs[r]) - 1
    BY <1>1, <1>3, <2>1, ParentParts
  <2> QED BY <1>1, <1>3, <2>1, <2>2, LengthIsNat
<1>5. runs' = [runs EXCEPT ![r] = NoState]
  BY <1>2 DEF RollbackMove
<1>6. LatestSound' /\ RunsSealed' /\ NewRuns(w) /\ LineMoves
  BY <1>1, <1>4, <1>5, RemovalKeepsHead
<1>7. Sound(w)'
  BY <1>1, FinishSound
<1> QED BY <1>6, <1>7 DEF Kept

\* A new run disturbs no history.
LEMMA AdditionKeepsHead ==
    ASSUME TypeOK, LatestSound, RunsSealed, NEW w \in Writers, NEW x \in RunIds, NEW CONSTANT s,
           s \in State, x \in IdsOf[w], runs[x] = NoState, Sealed(s), Named(x, s),
           runs' = [runs EXCEPT ![x] = s], latest' = latest
    PROVE  LatestSound' /\ RunsSealed' /\ NewRuns(w) /\ LineMoves
<1>1. /\ runs \in [RunIds -> State] /\ latest \in Places
      /\ \A r \in RunIds : runs'[r] = runs[r] \/ (r = x /\ runs'[r] = s /\ runs[r] = NoState)
  BY TypeParts
<1>2. LatestSound'
  <2>1. CASE latest = None
    BY <2>1 DEF LatestSound, LatestVerified, ChainWalkable
  <2>2. CASE latest # None
    <3>1. PICK l \in RunIds, t \in State :
              l = latest /\ t = runs[l] /\ t # NoState /\ Walkable(t)
      BY <1>1, <2>2 DEF LatestSound, LatestVerified, ChainWalkable, Exists, Places
    <3>2. runs'[l] = t /\ Walkable(t)'
      BY <1>1, <3>1, WalkableKept
    <3> QED BY <3>1, <3>2 DEF LatestSound, LatestVerified, ChainWalkable, Walkable, Exists
  <2> QED BY <2>1, <2>2
<1>3. RunsSealed'
  <2> SUFFICES ASSUME NEW r \in RunIds, runs'[r] # NoState
               PROVE  Sealed(runs'[r]) /\ Named(r, runs'[r])
    BY DEF RunsSealed, Exists, Sealed, Named
  <2> QED BY <1>1 DEF RunsSealed, Exists
<1>4. LineMoves
  BY <1>1 DEF LineMoves, Line, Places, LatestSound, LatestVerified, Exists
<1> QED BY <1>1, <1>2, <1>3, <1>4 DEF NewRuns

LEMMA TwoParents ==
    ASSUME NEW s \in State, Len(s) > 2
    PROVE  /\ Len(s) \in Nat
           /\ Parent(s) \in State /\ Len(Parent(s)) = Len(s) - 1
           /\ Parent(Parent(s)) = Prefix(s, Len(s) - 2)
           /\ Prefix(s, Len(s) - 2) \in State /\ Len(Prefix(s, Len(s) - 2)) = Len(s) - 2
<1>1. Len(s) \in Nat /\ Len(s) > 0
  BY LengthIsNat
<1>2. /\ Parent(s) \in State /\ Len(Parent(s)) = Len(s) - 1
      /\ \A k \in 1..(Len(s) - 1) : Parent(s)[k] = s[k]
  BY <1>1, ParentParts
<1>3. /\ Prefix(s, Len(s) - 2) \in State /\ Len(Prefix(s, Len(s) - 2)) = Len(s) - 2
      /\ \A k \in 1..(Len(s) - 2) : Prefix(s, Len(s) - 2)[k] = s[k]
  <2>1. Len(s) - 2 \in 0..Len(s)
    BY <1>1
  <2> QED BY <2>1, PrefixIsState
<1>4. Len(Parent(s)) > 0
  BY <1>1, <1>2
<1>5. /\ Parent(Parent(s)) \in State /\ Len(Parent(Parent(s))) = Len(s) - 2
      /\ \A k \in 1..(Len(s) - 2) : Parent(Parent(s))[k] = s[k]
  BY <1>1, <1>2, <1>4, ParentParts
<1>6. Parent(Parent(s)) = Prefix(s, Len(s) - 2)
  BY <1>1, <1>3, <1>5, SameHistory
<1> QED BY <1>1, <1>2, <1>3, <1>6

\* The job of a publication.
LEMMA PublishJob ==
    ASSUME IInv, NEW w \in Writers, job[w].op = "publish"
    PROVE  \E f, r \in RunIds, s \in State :
               /\ f = job[w].first /\ r = job[w].run /\ s = job[w].state
               /\ f # r /\ {f, r} \subseteq IdsOf[w] \ {Genesis}
               /\ Len(s) > 2 /\ Sealed(s) /\ Named(r, s)
               /\ Named(f, Parent(s)) /\ Sealed(Parent(s))
<1>1. JobSound(w) /\ job[w].state \in State
  BY TypeParts, JobParts DEF IInv, Sound
<1>2. Len(job[w].state) > 2 /\ Sealed(job[w].state)
  BY <1>1 DEF JobSound
<1>3. Sealed(Parent(job[w].state))
  <2>1. Len(job[w].state) > 0
    BY <1>1, <1>2, LengthIsNat
  <2> QED BY <1>1, <1>2, <2>1, SealedParent
<1> QED BY <1>1, <1>3 DEF JobSound, Named

LEMMA PublishFirstKept ==
    ASSUME IInv, NEW w \in Writers, PublishFirst(w)
    PROVE  Kept(w)
<1>1. /\ TypeOK /\ JobSound(w) /\ Fresh(w) /\ LatestSound /\ RunsSealed /\ runs \in [RunIds -> State]
      /\ pc[w] = "locked" /\ job[w].op = "publish" /\ PublishAllowed(job[w])
      /\ latest' = latest /\ job' = job /\ made[w] = 0 /\ made' = [made EXCEPT ![w] = 1]
      /\ Goto(w, "publishing")
  BY TypeParts DEF IInv, Sound, JobSound, PublishFirst, Publishing
<1>2. PICK f, r \in RunIds, s \in State :
          /\ f = job[w].first /\ r = job[w].run /\ s = job[w].state
          /\ f # r /\ {f, r} \subseteq IdsOf[w] \ {Genesis}
          /\ Len(s) > 2 /\ Sealed(s) /\ Named(r, s)
          /\ Named(f, Parent(s)) /\ Sealed(Parent(s))
  BY <1>1, PublishJob
<1>3. PICK t \in State : t = Parent(s)
  BY ParentIsState
<1>4. /\ runs[f] = NoState /\ runs[r] = NoState /\ runs[latest] # NoState
      /\ latest = job[w].base /\ Prefix(s, Len(s) - 2) = runs[latest]
      /\ runs' = [runs EXCEPT ![f] = t]
  BY <1>1, <1>2, <1>3 DEF PublishFirst, PublishAllowed, Exists
<1>5. LatestSound' /\ RunsSealed' /\ NewRuns(w) /\ LineMoves
  BY <1>1, <1>2, <1>3, <1>4, AdditionKeepsHead
<1>6. pc'[w] = "publishing" /\ made'[w] = 1
  BY <1>1, GotoOthers, TypeParts
<1>7. runs'[f] = t /\ runs'[r] = NoState /\ runs'[latest] = runs[latest]
  BY <1>1, <1>2, <1>4
<1>8. JobSound(w)' /\ Fresh(w)'
  BY <1>1, <1>6 DEF JobSound, Fresh
<1>9. Holding(w)'
  BY <1>1, <1>2, <1>3, <1>4, <1>6, <1>7 DEF Holding, Exists
<1> QED BY <1>5, <1>8, <1>9 DEF Kept, Sound

LEMMA PublishSecondKept ==
    ASSUME IInv, NEW w \in Writers, PublishSecond(w)
    PROVE  Kept(w)
<1>1. /\ TypeOK /\ JobSound(w) /\ Holding(w) /\ LatestSound /\ RunsSealed /\ runs \in [RunIds -> State]
      /\ pc[w] = "publishing" /\ job[w].op = "publish"
      /\ UNCHANGED <<latest, job, pc>> /\ made[w] = 1 /\ made' = [made EXCEPT ![w] = 2]
  BY TypeParts DEF IInv, Sound, JobSound, PublishSecond
<1>2. PICK f, r \in RunIds, s \in State :
          /\ f = job[w].first /\ r = job[w].run /\ s = job[w].state
          /\ f # r /\ {f, r} \subseteq IdsOf[w] \ {Genesis}
          /\ Len(s) > 2 /\ Sealed(s) /\ Named(r, s)
          /\ Named(f, Parent(s)) /\ Sealed(Parent(s))
  BY <1>1, PublishJob
<1>3. /\ runs[r] = NoState /\ latest = job[w].base /\ runs[latest] = Prefix(s, Len(s) - 2)
      /\ runs[f] = Parent(s) /\ runs' = [runs EXCEPT ![r] = s]
  BY <1>1, <1>2 DEF PublishSecond, Holding, Exists
<1>4. LatestSound' /\ RunsSealed' /\ NewRuns(w) /\ LineMoves
  BY <1>1, <1>2, <1>3, AdditionKeepsHead
<1>5. made'[w] = 2
  BY <1>1, TypeParts
<1>6. latest # r
  BY <1>2, <1>3, TwoParents, EmptyHistory
<1>7. runs'[r] = s /\ runs'[f] = runs[f] /\ runs'[latest] = runs[latest]
  BY <1>1, <1>2, <1>3, <1>6
<1>8. JobSound(w)' /\ Fresh(w)'
  BY <1>1, <1>5 DEF JobSound, Fresh
<1>9. Holding(w)'
  BY <1>1, <1>2, <1>3, <1>5, <1>7 DEF Holding, Exists
<1> QED BY <1>4, <1>8, <1>9 DEF Kept, Sound

LEMMA PublishOutputKept ==
    ASSUME IInv, NEW w \in Writers, PublishOutput(w)
    PROVE  Kept(w)
<1>1. /\ Sound(w) /\ UNCHANGED <<runs, latest, job, pc>> /\ pc[w] = "publishing"
      /\ made[w] = 2 /\ made'[w] = 3
  BY TypeParts DEF IInv, PublishOutput
<1>2. Sound(w)'
  BY <1>1 DEF Sound, JobSound, Fresh, Holding, Exists
<1> QED BY <1>1, <1>2, QuietKept

LEMMA PublishLatestKept ==
    ASSUME Stamped, IInv, NEW w \in Writers, PublishLatest(w)
    PROVE  Kept(w)
<1>1. /\ TypeOK /\ JobSound(w) /\ Holding(w) /\ LatestSound /\ RunsSealed /\ runs \in [RunIds -> State]
      /\ latest \in Places /\ pc[w] = "publishing" /\ job[w].op = "publish" /\ made[w] = 3
      /\ latest' = job[w].run /\ runs' = runs /\ Finish(w, "done")
  BY TypeParts DEF IInv, Sound, JobSound, PublishLatest
<1>2. PICK f, r \in RunIds, s \in State :
          /\ f = job[w].first /\ r = job[w].run /\ s = job[w].state
          /\ f # r /\ {f, r} \subseteq IdsOf[w] \ {Genesis}
          /\ Len(s) > 2 /\ Sealed(s) /\ Named(r, s)
          /\ Named(f, Parent(s)) /\ Sealed(Parent(s))
  BY <1>1, PublishJob
<1>3. /\ runs[r] = s /\ runs[f] = Parent(s) /\ latest = job[w].base
      /\ runs[latest] = Parent(Parent(s))
  BY <1>1, <1>2, TwoParents DEF Holding
<1>4. latest \in RunIds /\ Walkable(runs[latest])
  <2>1. latest \in RunIds
    BY <1>1, <1>3 DEF JobSound
  <2> QED BY <2>1, <1>1, RepositoryAssumption DEF LatestSound, ChainWalkable
<1>5. Walkable(Parent(s))
  <2>1. Len(Parent(s)) > 1 /\ Parent(s) \in State
    BY <1>2, TwoParents
  <2> QED BY <1>1, <1>2, <1>3, <1>4, <2>1, WalkableNext
<1>6. Walkable(s)
  <2>1. Len(s) > 1
    BY <1>2, TwoParents
  <2> QED BY <1>1, <1>2, <1>3, <1>5, <2>1, WalkableNext
<1>7. s # NoState
  BY <1>2, LengthIsNat
<1>8. LatestSound'
  BY <1>1, <1>2, <1>3, <1>6, <1>7 DEF LatestSound, LatestVerified, ChainWalkable, Walkable, Exists
<1>9. RunsSealed' /\ NewRuns(w)
  BY <1>1 DEF RunsSealed, NewRuns, Exists
<1>10. Sound(w)'
  BY <1>1, FinishSound
<1>11. LineMoves
  <2>1. PICK t \in State : t = Prefix(s, Len(s) - 2) /\ runs[latest] = t
    BY <1>2, <1>3, TwoParents
  <2>2. Len(s) \in Nat /\ Len(t) = Len(s) - 2 /\ \A k \in 1..Len(t) : s[k] = t[k]
    <3>1. Len(s) \in Nat /\ Len(s) - 2 \in 0..Len(s)
      BY <1>2, LengthIsNat
    <3> QED BY <2>1, <3>1, PrefixIsState
  <2>3. t # NoState /\ Len(s) > Len(t)
    BY <1>2, <2>2, LengthIsNat
  <2> QED BY <1>1, <1>2, <1>3, <1>4, <2>1, <2>2, <2>3, RepositoryAssumption, LineExtends
<1> QED BY <1>8, <1>9, <1>10, <1>11 DEF Kept

\* Into the undo, and through those of its steps that touch neither the runs
\* nor latest.
LEMMA IntoUndoKept ==
    ASSUME IInv, NEW w \in Writers, PublishRefused(w) \/ PublishFault(w)
    PROVE  Kept(w)
<1>1. /\ Sound(w) /\ TypeOK /\ UNCHANGED <<runs, latest, job, made>> /\ job[w].op = "publish"
      /\ pc[w] \in {"locked", "publishing"} /\ Goto(w, "undoLatest")
  BY DEF IInv, Sound, JobSound, PublishRefused, PublishFault, Publishing, disk, local
<1>2. pc'[w] = "undoLatest"
  BY <1>1, GotoOthers
<1>3. Sound(w)'
  BY <1>1, <1>2 DEF Sound, JobSound, Fresh, Holding, Exists
<1> QED BY <1>1, <1>3, QuietKept

LEMMA UndoLatestKept ==
    ASSUME IInv, NEW w \in Writers, UndoLatest(w)
    PROVE  Kept(w)
<1>1. /\ Sound(w) /\ TypeOK /\ LatestSound /\ UNCHANGED <<runs, job, made>> /\ pc[w] = "undoLatest"
      /\ job[w].op = "publish" /\ latest \in Places /\ made[w] \in 0..3
      /\ latest' = (IF latest = job[w].run THEN job[w].base ELSE latest)
      /\ Goto(w, "undoOutput")
  BY TypeParts DEF IInv, Sound, JobSound, UndoLatest
<1>2. PICK f, r \in RunIds, s \in State :
          /\ f = job[w].first /\ r = job[w].run /\ s = job[w].state
          /\ f # r /\ {f, r} \subseteq IdsOf[w] \ {Genesis}
          /\ Len(s) > 2 /\ Sealed(s) /\ Named(r, s)
          /\ Named(f, Parent(s)) /\ Sealed(Parent(s))
  BY <1>1, PublishJob
<1>3. latest # r
  <2>1. CASE made[w] = 0
    <3>1. runs[r] = NoState
      BY <1>1, <1>2, <2>1 DEF Sound, Fresh, Exists
    <3> QED BY <3>1, <1>1, RepositoryAssumption DEF LatestSound, LatestVerified, Exists
  <2>2. CASE made[w] = 1
    <3>1. runs[r] = NoState
      BY <1>1, <1>2, <2>2 DEF Sound, Holding, Exists
    <3> QED BY <3>1, <1>1, RepositoryAssumption DEF LatestSound, LatestVerified, Exists
  <2>3. CASE made[w] > 1
    <3>1. runs[r] = s /\ runs[latest] = Prefix(s, Len(s) - 2)
      BY <1>1, <1>2, <2>3 DEF Sound, Holding
    <3> QED BY <3>1, <1>2, TwoParents
  <2> QED BY <1>1, <2>1, <2>2, <2>3
<1>4. latest' = latest
  BY <1>1, <1>2, <1>3
<1>5. pc'[w] = "undoOutput"
  BY <1>1, GotoOthers
<1>6. Sound(w)'
  BY <1>1, <1>4, <1>5 DEF Sound, JobSound, Fresh, Holding, Exists
<1> QED BY <1>1, <1>4, <1>6, QuietKept

LEMMA UndoQuietKept ==
    ASSUME IInv, NEW w \in Writers, UndoOutput(w) \/ UndoDone(w) \/ UndoFault(w)
    PROVE  Kept(w)
<1>1. /\ Sound(w) /\ TypeOK /\ UNCHANGED <<runs, latest, job, made>> /\ job[w].op = "publish"
      /\ pc[w] \in {"undoLatest", "undoOutput", "undoRuns"}
      /\ \E label \in {"undoOutput", "undoRuns", "release"} : Goto(w, label)
  BY DEF IInv, Sound, JobSound, UndoOutput, UndoDone, UndoFault, disk, local
<1>2. pc'[w] \in {"undoOutput", "undoRuns", "release"}
  BY <1>1, GotoOthers
<1>3. Sound(w)'
  BY <1>1, <1>2 DEF Sound, JobSound, Fresh, Holding, Exists
<1> QED BY <1>1, <1>3, QuietKept

LEMMA UndoRunFaultKept ==
    ASSUME IInv, NEW w \in Writers, UndoRunFault(w)
    PROVE  Kept(w)
<1>1. /\ Sound(w) /\ UNCHANGED <<runs, latest, job, pc>> /\ pc[w] = "undoRuns"
      /\ made[w] \in 0..3 /\ made[w] > 0 /\ made'[w] = UndoneTo(w)
  BY TypeParts DEF IInv, UndoRunFault, disk
<1>2. made'[w] = 0 \/ (made'[w] = 1 /\ made[w] > 1)
  BY <1>1 DEF UndoneTo
<1>3. Sound(w)'
  BY <1>1, <1>2 DEF Sound, JobSound, Fresh, Holding, Exists
<1> QED BY <1>1, <1>3, QuietKept

LEMMA UndoRunKept ==
    ASSUME IInv, NEW w \in Writers, UndoRun(w)
    PROVE  Kept(w)
<1>1. /\ JobSound(w) /\ Holding(w) /\ TypeOK /\ LatestSound /\ RunsSealed /\ runs \in [RunIds -> State]
      /\ UNCHANGED <<latest, job, pc>> /\ pc[w] = "undoRuns" /\ job[w].op = "publish"
      /\ made[w] \in 0..3 /\ made[w] > 0 /\ made'[w] = UndoneTo(w)
      /\ runs' = [runs EXCEPT ![MovedRun(w)] = NoState]
  BY TypeParts DEF IInv, Sound, JobSound, UndoRun
<1>2. PICK f, r \in RunIds, s \in State :
          /\ f = job[w].first /\ r = job[w].run /\ s = job[w].state
          /\ f # r /\ {f, r} \subseteq IdsOf[w] \ {Genesis}
          /\ Len(s) > 2 /\ Sealed(s) /\ Named(r, s)
          /\ Named(f, Parent(s)) /\ Sealed(Parent(s))
  BY <1>1, PublishJob
<1>3. /\ latest = job[w].base /\ runs[latest] = Prefix(s, Len(s) - 2)
      /\ runs[f] = Parent(s) /\ (made[w] > 1 => runs[r] = s)
  BY <1>1, <1>2 DEF Holding
<1>4. /\ Len(s) \in Nat /\ Len(runs[latest]) = Len(s) - 2 /\ Len(Parent(s)) = Len(s) - 1
  BY <1>2, <1>3, TwoParents
<1>5. PICK x \in RunIds : /\ x = MovedRun(w)
                          /\ Len(runs[x]) > Len(runs[latest])
                          /\ (x = f \/ (x = r /\ made[w] > 1))
                          /\ (x = f => made'[w] = 0)
  <2>1. CASE made[w] >= 2
    <3>1. MovedRun(w) = r /\ Len(runs[r]) > Len(runs[latest])
      BY <1>1, <1>2, <1>3, <1>4, <2>1 DEF MovedRun
    <3> QED BY <3>1, <1>1, <1>2, <2>1
  <2>2. CASE made[w] = 1
    <3>1. MovedRun(w) = f /\ Len(runs[f]) > Len(runs[latest]) /\ UndoneTo(w) = 0
      BY <1>1, <1>2, <1>3, <1>4, <2>2 DEF MovedRun, UndoneTo
    <3> QED BY <3>1, <1>1, <1>2
  <2> QED BY <1>1, <2>1, <2>2
<1>6. LatestSound' /\ RunsSealed' /\ NewRuns(w) /\ LineMoves
  BY <1>1, <1>5, RemovalKeepsHead
<1>7. made'[w] \in {0, 1}
  BY <1>1 DEF UndoneTo
<1>8. JobSound(w)' /\ Fresh(w)'
  BY <1>1 DEF JobSound, Fresh
<1>9. Holding(w)'
  <2>1. CASE made'[w] = 0
    BY <1>1, <2>1 DEF Holding
  <2>2. CASE made'[w] # 0
    <3>1. x # f /\ x # latest
      BY <1>5, <2>2
    <3>2. runs'[f] = runs[f] /\ runs'[latest] = runs[latest]
      BY <1>1, <1>2, <1>5, <3>1, <1>3 DEF JobSound
    <3> QED BY <1>1, <1>2, <1>3, <1>7, <2>2, <3>2 DEF Holding
  <2> QED BY <2>1, <2>2
<1> QED BY <1>6, <1>8, <1>9 DEF Kept, Sound

LEMMA DeathKept ==
    ASSUME IInv, NEW w \in Writers, Interrupt(w) \/ Crash(w)
    PROVE  Kept(w)
BY LeaveSound, QuietKept DEF IInv, Interrupt, Crash, disk

-----------------------------------------------------------------------------
(* The invariant.                                                          *)

LEMMA WorkKept == ASSUME Stamped, IInv, NEW w \in Writers, Work(w) PROVE Kept(w)
BY LockKept, QuietFinishKept, SavePlaceKept, SaveAdvanceKept, RollbackRestoreKept,
   RollbackMoveKept, PublishFirstKept, PublishSecondKept, PublishOutputKept,
   PublishLatestKept, IntoUndoKept, UndoLatestKept, UndoQuietKept, UndoRunKept DEF Work

LEMMA FailureKept == ASSUME Stamped, IInv, NEW w \in Writers, Failure(w) PROVE Kept(w)
BY QuietFinishKept, IntoUndoKept, UndoQuietKept, UndoRunFaultKept, DeathKept DEF Failure

LEMMA InitInvariant == Init => IInv
<1> SUFFICES ASSUME Init PROVE IInv
  OBVIOUS
<1>1. TypeOK /\ AtWork /\ OneWriter
  BY InitTyped
<1>2. LatestSound /\ RunsSealed
  BY DEF Init, LatestSound, LatestVerified, ChainWalkable, RunsSealed, Exists
<1>3. \A w \in Writers : Sound(w)
  BY DEF Init, Sound, JobSound, Fresh, Holding, NoJob
<1> QED BY <1>1, <1>2, <1>3 DEF IInv

LEMMA StepInvariant == Stamped /\ IInv /\ [Next]_vars => IInv'
<1> SUFFICES ASSUME Stamped, IInv, [Next]_vars PROVE IInv'
  OBVIOUS
<1>1. TypeOK' /\ AtWork' /\ OneWriter'
  BY StepTyped, StepAtWork, StepOneWriter DEF IInv
<1>2. ASSUME NEW w \in Writers, Step(w) PROVE IInv'
  <2>1. Kept(w)
    BY <1>2, RequestKept, WorkKept, FailureKept DEF Step
  <2> QED BY <1>1, <1>2, <2>1, StepKept
<1>3. CASE UNCHANGED <<disk, local, pc>>
  <2>1. LatestSound' /\ RunsSealed'
    BY <1>3 DEF disk, IInv, LatestSound, LatestVerified, ChainWalkable, Walkable, Exists, RunsSealed
  <2>2. \A w \in Writers : Sound(w)'
    BY <1>3 DEF disk, local, IInv, Sound, JobSound, Fresh, Holding, Exists, Walkable, FollowsLatest
  <2> QED BY <1>1, <2>1, <2>2 DEF IInv
<1>4. CASE RemoveStaleLock
  BY <1>3, <1>4 DEF RemoveStaleLock
<1>5. CASE UNCHANGED vars
  BY <1>3, <1>5 DEF vars, disk, local
<1> QED BY <1>2, <1>4, <1>5 DEF Next, Step

\* Under time-stamped run ids, latest.json never names a run that is not
\* there, whatever fails or dies between two steps (service.py:74-75, 232-366).
THEOREM LatestAlwaysVerified ==
    ASSUME Stamped
    PROVE  Spec => []LatestVerified
<1>1. IInv /\ [Next]_vars => IInv'
  BY StepInvariant
<1>2. IInv => LatestVerified
  BY DEF IInv, LatestSound
<1> QED BY <1>1, <1>2, InitInvariant, PTL DEF Spec

\* Under time-stamped run ids, the parent run ids always lead from latest back
\* to the genesis state (nav_history and applied_decision_run_ids,
\* service.py:369-400).
THEOREM ChainAlwaysWalkable ==
    ASSUME Stamped
    PROVE  Spec => []ChainWalkable
<1>1. IInv /\ [Next]_vars => IInv'
  BY StepInvariant
<1>2. IInv => ChainWalkable
  BY DEF IInv, LatestSound
<1> QED BY <1>1, <1>2, InitInvariant, PTL DEF Spec

LEMMA StepRuns ==
    ASSUME Stamped, IInv, [Next]_vars
    PROVE  /\ LineMoves
           /\ \A r \in RunIds : Exists(r) /\ runs'[r] # runs[r] => runs'[r] = NoState /\ r \notin Live
<1>1. ASSUME NEW w \in Writers, Step(w)
      PROVE  /\ LineMoves
             /\ \A r \in RunIds : Exists(r) /\ runs'[r] # runs[r] => runs'[r] = NoState /\ r \notin Live
  <2>1. NewRuns(w) /\ LineMoves
    BY <1>1, RequestKept, WorkKept, FailureKept DEF Step, Kept
  <2> SUFFICES ASSUME NEW r \in RunIds, Exists(r), runs'[r] # runs[r]
               PROVE  runs'[r] = NoState /\ r \notin Live
    BY <2>1
  <2>2. runs'[r] = NoState /\ (latest # None => Len(runs[r]) > Len(runs[latest]))
    BY <2>1 DEF NewRuns, Exists
  <2>3. runs[r] \in State /\ (latest # None => runs[latest] \in State)
    BY TypeParts DEF IInv, Places
  <2> QED BY <2>2, <2>3, LengthIsNat DEF Live
<1>2. CASE UNCHANGED <<runs, latest>>
  BY <1>2 DEF LineMoves, Line
<1>3. CASE RemoveStaleLock \/ UNCHANGED vars
  BY <1>2, <1>3 DEF RemoveStaleLock, disk, vars
<1> QED BY <1>1, <1>3 DEF Next, Step

\* Under time-stamped run ids, no step rewrites a sealed run, and none removes
\* a run that latest reaches: what a rollback or an undo takes away always lies
\* beyond latest (rollback_latest and publish_staged_chain, service.py:137-267).
THEOREM LiveRunsAlwaysStay ==
    ASSUME Stamped
    PROVE  Spec => LiveRunsStay
<1>1. IInv /\ [Next]_vars => IInv'
  BY StepInvariant
<1>2. IInv /\ [Next]_vars =>
          [\A r \in RunIds : Exists(r) /\ runs'[r] # runs[r] =>
               runs'[r] = NoState /\ r \notin Live]_vars
  BY StepRuns
<1> QED BY <1>1, <1>2, InitInvariant, PTL DEF Spec, LiveRunsStay

\* Under time-stamped run ids, the account directory with its lock, renames,
\* failures and undo implements one line of states that only opens, extends
\* and takes back its last state (VirtualAccountRepository, service.py:75-400).
THEOREM RepositoryImplementsChain ==
    ASSUME Stamped
    PROVE  Spec => ImplementsChain
<1>1. IInv /\ [Next]_vars => IInv'
  BY StepInvariant
<1>2. Init => Chain!Init
  BY DEF Init, Chain!Init
<1>3. IInv /\ [Next]_vars => [Chain!Next]_(IF latest = None THEN << >> ELSE runs[latest])
  <2> SUFFICES ASSUME IInv, [Next]_vars
               PROVE  [Chain!Next]_(IF latest = None THEN << >> ELSE runs[latest])
    OBVIOUS
  <2>1. LineMoves
    BY StepRuns
  <2> QED BY <2>1 DEF LineMoves, Line
<1> QED BY <1>1, <1>2, <1>3, InitInvariant, PTL DEF Spec, ImplementsChain, Chain!Spec

-----------------------------------------------------------------------------
(* A publication happens as a whole or not at all.                         *)

\* rebase_account_to_datapack is called by the daily run, which holds the lock
\* of the daily run: there is one publisher at a time (run_daily_pipeline.py:915).
SinglePublisher == \A v, w \in Writers : "publish" \in Does[v] \cap Does[w] => v = w

\* How far a publication got, as seen from what it remembers: the output, and
\* what the undo has still to do.
Publication(w) ==
    LET j == job[w] IN
    /\ "publish" \in Does[w]
    /\ pc[w] \in {"ready", "locked", "publishing", "undoLatest", "undoOutput"} =>
           output = IF made[w] = 3 THEN j.run ELSE old[w]
    /\ pc[w] \in {"undoOutput", "undoRuns"} => result[w] \in {"undone", "broken"}
    /\ pc[w] \in {"undoOutput", "undoRuns"} /\ result[w] = "undone" =>
           /\ latest \notin {j.run, j.first}
           /\ made[w] < 2 => ~Exists(j.run)
           /\ IF made[w] = 0 THEN ~Exists(j.first) ELSE restored[w]
           /\ pc[w] = "undoRuns" => output = old[w]
    /\ pc[w] = "release" /\ result[w] = "done" =>
           /\ latest = j.run /\ output = j.run
           /\ runs[j.run] = j.state /\ runs[j.first] = Parent(j.state)
    /\ pc[w] = "release" /\ result[w] = "undone" =>
           /\ latest \notin {j.run, j.first} /\ output = old[w]
           /\ ~Exists(j.run) /\ ~Exists(j.first)

Published(w) == job[w].op = "publish" => Publication(w)

\* A step of a writer touches neither what another remembers nor, unless it is
\* one of two steps of a publication, the output.
Apart(w) ==
    /\ \A v \in Writers \ {w} :
           /\ pc'[v] = pc[v] /\ job'[v] = job[v] /\ made'[v] = made[v]
           /\ old'[v] = old[v] /\ restored'[v] = restored[v] /\ result'[v] = result[v]
    /\ output' = output \/ PublishOutput(w) \/ UndoOutput(w)
    /\ UNCHANGED disk \/ pc[w] \in Critical

LEMMA StepApart ==
    ASSUME IInv, NEW w \in Writers, Step(w)
    PROVE  Apart(w)
<1>1. TypeOK /\ Shape(w)
  BY StepShape DEF IInv
<1>2. \A v \in Writers \ {w} :
          old'[v] = old[v] /\ restored'[v] = restored[v] /\ result'[v] = result[v]
  <2> USE <1>1, TypeParts
  <2>1. CASE UNCHANGED <<old, restored, result>>
    BY <2>1
  <2>2. CASE Leave(w)
    BY <2>2 DEF Leave
  <2>3. CASE \E how : Finish(w, how)
    BY <2>3 DEF Finish
  <2>4. CASE Request(w)
    BY <2>1, <2>4, RequestTyped DEF Begin
  <2>5. CASE Work(w)
    <3>1. CASE BeginPublish(w) \/ UndoLatest(w)
      BY <3>1 DEF BeginPublish, UndoLatest
    <3>2. CASE LockBusy(w) \/ ReleaseLock(w)
      BY <3>2, <2>2 DEF LockBusy, ReleaseLock
    <3>3. CASE SaveExisting(w) \/ SaveRefused(w) \/ SaveAdvance(w) \/ RollbackRefused(w)
               \/ RollbackMove(w) \/ PublishLatest(w)
      BY <3>3, <2>3 DEF SaveExisting, SaveRefused, SaveAdvance, RollbackRefused, RollbackMove, PublishLatest
    <3>4. CASE AcquireLock(w) \/ SavePlace(w) \/ RollbackRestore(w) \/ PublishFirst(w) \/ PublishSecond(w)
               \/ PublishOutput(w) \/ PublishRefused(w) \/ UndoOutput(w) \/ UndoRun(w) \/ UndoDone(w)
      BY <3>4, <2>1 DEF AcquireLock, SavePlace, RollbackRestore, PublishFirst, PublishSecond,
                        PublishOutput, PublishRefused, UndoOutput, UndoRun, UndoDone, local
    <3> QED BY <2>5, <3>1, <3>2, <3>3, <3>4 DEF Work
  <2>6. CASE Failure(w)
    <3>1. CASE Fault(w)
      BY <3>1, <2>3 DEF Fault
    <3>2. CASE PublishFault(w)
      BY <3>2, <2>1 DEF PublishFault, local
    <3>3. CASE UndoFault(w) \/ UndoRunFault(w)
      BY <3>3 DEF UndoFault, UndoRunFault
    <3>4. CASE Interrupt(w) \/ Crash(w)
      BY <3>4, <2>2 DEF Interrupt, Crash
    <3> QED BY <2>6, <3>1, <3>2, <3>3, <3>4 DEF Failure
  <2> QED BY <2>4, <2>5, <2>6 DEF Step
<1>3. output' = output \/ PublishOutput(w) \/ UndoOutput(w)
  <2>1. CASE UNCHANGED disk
    BY <2>1 DEF disk
  <2>2. CASE Request(w)
    BY <1>1, <2>1, <2>2, RequestTyped DEF Begin
  <2>3. CASE Work(w)
    BY <2>1, <2>3 DEF Work, BeginPublish, AcquireLock, LockBusy, ReleaseLock, SavePlace, SaveExisting,
       SaveRefused, SaveAdvance, RollbackRestore, RollbackRefused, RollbackMove, PublishFirst,
       PublishSecond, PublishLatest, PublishRefused, UndoLatest, UndoRun, UndoDone, disk
  <2>4. CASE Failure(w)
    BY <2>1, <2>4 DEF Failure, Fault, PublishFault, UndoFault, UndoRunFault, Interrupt, Crash
  <2> QED BY <2>2, <2>3, <2>4 DEF Step
<1> QED BY <1>1, <1>2, <1>3 DEF Apart, Shape

\* Whoever is at the output is the publisher; and who is past the lock finds the
\* disk as it left it.
LEMMA OtherPublished ==
    ASSUME SinglePublisher, IInv, NEW w \in Writers, Step(w), Published(w),
           NEW v \in Writers \ {w}, Published(v)
    PROVE  Published(v)'
<1> SUFFICES ASSUME job'[v].op = "publish"
             PROVE  Publication(v)'
  BY DEF Published
<1>1. /\ pc'[v] = pc[v] /\ job'[v] = job[v] /\ made'[v] = made[v]
      /\ old'[v] = old[v] /\ restored'[v] = restored[v] /\ result'[v] = result[v]
      /\ output' = output \/ PublishOutput(w) \/ UndoOutput(w)
      /\ UNCHANGED disk \/ pc[w] \in Critical
  BY StepApart DEF Apart
<1>2. Publication(v)
  BY <1>1 DEF Published
<1>3. output' = output
  <2>1. CASE PublishOutput(w) \/ UndoOutput(w)
    <3>1. pc[w] \in {"publishing", "undoOutput"}
      BY <2>1 DEF PublishOutput, UndoOutput
    <3>2. job[w].op = "publish"
      BY <3>1 DEF IInv, Sound, JobSound
    <3>3. "publish" \in Does[w] /\ "publish" \in Does[v]
      BY <3>2, <1>2 DEF Published, Publication
    <3> QED BY <3>3 DEF SinglePublisher
  <2> QED BY <1>1, <2>1
<1>4. CASE UNCHANGED disk
  BY <1>1, <1>2, <1>4 DEF disk, Publication, Exists
<1>5. CASE pc[w] \in Critical
  <2>1. pc[v] \notin Critical
    BY <1>5 DEF IInv, OneWriter
  <2>2. pc[v] \notin {"locked", "publishing", "undoLatest", "undoOutput", "undoRuns", "release"}
    BY <2>1 DEF Critical
  <2> QED BY <1>1, <1>2, <1>3, <2>2 DEF Publication
<1> QED BY <1>1, <1>4, <1>5

\* A writer that has no publication in hand, or none any more.
LEMMA NonePublished ==
    ASSUME NEW w \in Writers, job'[w].op # "publish"
    PROVE  Published(w)'
BY DEF Published

LEMMA LeftPublished ==
    ASSUME TypeOK, NEW w \in Writers, Leave(w)
    PROVE  Published(w)'
<1>1. job'[w] = NoJob
  BY TypeParts DEF Leave
<1> QED BY <1>1, NonePublished DEF NoJob

LEMMA RequestPublished ==
    ASSUME IInv, NEW w \in Writers, Request(w)
    PROVE  Published(w)'
<1>1. TypeOK /\ pc \in [Writers -> Labels] /\ job \in [Writers -> Jobs]
  BY TypeParts DEF IInv
<1>2. ASSUME NEW p \in Payloads, Initialize(w, p) PROVE Published(w)'
  <2>1. job'[w].op = "save"
    BY <1>1, <1>2 DEF Initialize, Begin
  <2> QED BY <2>1, NonePublished
<1>3. ASSUME NEW r \in RunIds, NEW p \in Payloads, ComputeNext(w, r, p) PROVE Published(w)'
  <2>1. job'[w].op = "save"
    BY <1>1, <1>3 DEF ComputeNext, Begin
  <2> QED BY <2>1, NonePublished
<1>4. ASSUME NEW r \in RunIds, RequestRollback(w, r) PROVE Published(w)'
  <2>1. job'[w].op = "rollback"
    BY <1>1, <1>4 DEF RequestRollback, Begin
  <2> QED BY <2>1, NonePublished
<1>5. ASSUME NEW r1 \in RunIds, NEW r2 \in RunIds, NEW p1 \in Payloads, NEW p2 \in Payloads,
             StageChain(w, r1, r2, p1, p2)
      PROVE  Published(w)'
  <2>1. pc'[w] = "staged" /\ "publish" \in Does[w]
    BY <1>1, <1>5 DEF StageChain, Begin, Goto
  <2> QED BY <2>1 DEF Published, Publication
<1> QED BY <1>2, <1>3, <1>4, <1>5 DEF Request

\* Before the undo.
LEMMA ForwardPublished ==
    ASSUME IInv, NEW w \in Writers, job[w].op = "publish", Publication(w),
           \/ BeginPublish(w) \/ AcquireLock(w) \/ PublishFirst(w) \/ PublishSecond(w)
           \/ PublishOutput(w) \/ PublishRefused(w) \/ PublishFault(w)
    PROVE  Publication(w)'
<1>1. TypeOK /\ JobSound(w) /\ "publish" \in Does[w]
  BY DEF IInv, Sound, Publication
<1>2. /\ pc'[w] \in {"ready", "locked", "publishing", "undoLatest"} /\ job' = job
      /\ output' = IF made'[w] = 3 THEN job[w].run ELSE old'[w]
  <2>1. CASE BeginPublish(w)
    <3>1. pc[w] = "staged" /\ pc'[w] = "ready" /\ UNCHANGED <<output, job, made>> /\ made[w] = 0
      BY <1>1, <2>1, GotoOthers DEF BeginPublish, disk, JobSound
    <3>2. old'[w] = output
      BY <1>1, <2>1, TypeParts DEF BeginPublish
    <3> QED BY <3>1, <3>2
  <2>2. CASE AcquireLock(w)
    <3>1. pc[w] = "ready" /\ pc'[w] = "locked" /\ UNCHANGED <<output, job, made, old>>
      BY <1>1, <2>2, GotoOthers DEF AcquireLock, disk, local
    <3> QED BY <3>1 DEF Publication
  <2>3. CASE PublishFirst(w)
    <3>1. /\ pc[w] = "locked" /\ pc'[w] = "publishing" /\ UNCHANGED <<output, job, old>>
          /\ made[w] = 0
      BY <1>1, <2>3, GotoOthers DEF PublishFirst, Publishing, JobSound
    <3>2. made'[w] = 1
      BY <1>1, <2>3, TypeParts DEF PublishFirst
    <3> QED BY <3>1, <3>2 DEF Publication
  <2>4. CASE PublishSecond(w)
    <3>1. made[w] = 1 /\ made'[w] = 2 /\ pc[w] = "publishing" /\ UNCHANGED <<output, job, old, pc>>
      BY <1>1, <2>4, TypeParts DEF PublishSecond
    <3> QED BY <3>1 DEF Publication
  <2>5. CASE PublishOutput(w)
    <3>1. made'[w] = 3 /\ output' = job[w].run /\ pc[w] = "publishing" /\ UNCHANGED <<job, pc>>
      BY <1>1, <2>5, TypeParts DEF PublishOutput
    <3> QED BY <3>1
  <2>6. CASE PublishRefused(w) \/ PublishFault(w)
    <3>1. /\ pc[w] \in {"locked", "publishing"} /\ pc'[w] = "undoLatest"
          /\ UNCHANGED <<output, job, made, old>>
      BY <1>1, <2>6, GotoOthers DEF PublishRefused, PublishFault, Publishing, disk, local
    <3> QED BY <3>1 DEF Publication
  <2> QED BY <2>1, <2>2, <2>3, <2>4, <2>5, <2>6
<1> QED BY <1>1, <1>2 DEF Publication

\* What a publication moved lies beyond latest.
LEMMA MovedBeyondLatest ==
    ASSUME IInv, NEW w \in Writers, job[w].op = "publish", pc[w] \in {"publishing", "undoLatest"}
    PROVE  /\ latest \notin {job[w].run, job[w].first}
           /\ made[w] < 2 => ~Exists(job[w].run)
           /\ made[w] = 0 => ~Exists(job[w].first)
           /\ made[w] > 0 => latest = job[w].base
<1>1. /\ JobSound(w) /\ Fresh(w) /\ Holding(w) /\ LatestVerified /\ made[w] \in 0..3
      /\ latest \in Places /\ runs \in [RunIds -> State]
  BY TypeParts DEF IInv, Sound, LatestSound
<1>2. PICK f, r \in RunIds, s \in State :
          /\ f = job[w].first /\ r = job[w].run /\ s = job[w].state
          /\ f # r /\ {f, r} \subseteq IdsOf[w] \ {Genesis}
          /\ Len(s) > 2 /\ Sealed(s) /\ Named(r, s)
          /\ Named(f, Parent(s)) /\ Sealed(Parent(s))
  BY PublishJob
<1>3. None # f /\ None # r
  BY RepositoryAssumption
<1>4. CASE made[w] = 0
  <2>1. pc[w] = "undoLatest"
    BY <1>1, <1>4 DEF Holding
  <2>2. ~Exists(f) /\ ~Exists(r)
    BY <1>1, <1>2, <1>4, <2>1 DEF Fresh
  <2>3. latest # f /\ latest # r
    BY <1>1, <1>3, <2>2 DEF LatestVerified
  <2> QED BY <1>2, <1>4, <2>2, <2>3
<1>5. CASE made[w] # 0
  <2>1. /\ latest = job[w].base /\ runs[latest] = Prefix(s, Len(s) - 2) /\ runs[f] = Parent(s)
        /\ made[w] > 1 => runs[r] = s
        /\ made[w] = 1 => ~Exists(r)
    BY <1>1, <1>2, <1>5 DEF Holding
  <2>2. Len(s) \in Nat /\ Len(runs[latest]) = Len(s) - 2 /\ Len(Parent(s)) = Len(s) - 1
    BY <1>2, <2>1, TwoParents
  <2>3. latest # f
    BY <2>1, <2>2
  <2>4. latest # r
    <3>1. CASE made[w] = 1
      BY <1>1, <1>3, <2>1, <3>1 DEF LatestVerified
    <3>2. CASE made[w] > 1
      BY <2>1, <2>2, <3>2
    <3> QED BY <1>1, <1>5, <3>1, <3>2
  <2>5. made[w] < 2 => made[w] = 1
    BY <1>1, <1>5
  <2> QED BY <1>2, <1>5, <2>1, <2>3, <2>4, <2>5
<1> QED BY <1>4, <1>5

LEMMA LatestPublished ==
    ASSUME IInv, NEW w \in Writers, job[w].op = "publish", Publication(w), PublishLatest(w)
    PROVE  Publication(w)'
<1>1. TypeOK /\ Holding(w) /\ "publish" \in Does[w]
  BY DEF IInv, Sound, Publication
<1>2. /\ pc[w] = "publishing" /\ made[w] = 3 /\ latest' = job[w].run /\ Finish(w, "done")
      /\ UNCHANGED <<runs, output>>
  BY DEF PublishLatest
<1>3. pc'[w] = "release" /\ job' = job
  BY <1>1, <1>2, FinishOthers
<1>4. result'[w] = "done"
  BY <1>1, <1>2, TypeParts DEF Finish
<1>5. output = job[w].run /\ runs[job[w].run] = job[w].state /\ runs[job[w].first] = Parent(job[w].state)
  BY <1>1, <1>2 DEF Publication, Holding
<1> QED BY <1>1, <1>2, <1>3, <1>4, <1>5 DEF Publication

\* The undo: latest, the output, the runs.
LEMMA UndoLatestPublished ==
    ASSUME IInv, NEW w \in Writers, job[w].op = "publish", Publication(w), UndoLatest(w)
    PROVE  Publication(w)'
<1>1. TypeOK /\ "publish" \in Does[w] /\ made[w] \in 0..3
  BY TypeParts DEF IInv, Publication
<1>2. /\ pc[w] = "undoLatest" /\ UNCHANGED <<runs, output, job, made, old>> /\ Goto(w, "undoOutput")
      /\ latest' = IF latest = job[w].run THEN job[w].base ELSE latest
  BY DEF UndoLatest
<1>3. pc'[w] = "undoOutput"
  BY <1>1, <1>2, GotoOthers
<1>4. result'[w] = "undone" /\ restored'[w] = (latest \in {job[w].base, job[w].run})
  BY <1>1, TypeParts DEF UndoLatest
<1>5. /\ latest' = latest /\ latest \notin {job[w].run, job[w].first}
      /\ made[w] < 2 => ~Exists(job[w].run)
      /\ made[w] = 0 => ~Exists(job[w].first)
      /\ made[w] > 0 => restored'[w]
  BY <1>2, <1>4, MovedBeyondLatest
<1>6. output = IF made[w] = 3 THEN job[w].run ELSE old[w]
  BY <1>2 DEF Publication
<1>7. made[w] = 0 \/ made[w] > 0
  BY <1>1
<1> QED BY <1>1, <1>2, <1>3, <1>4, <1>5, <1>6, <1>7 DEF Publication, Exists

LEMMA UndoOutputPublished ==
    ASSUME IInv, NEW w \in Writers, job[w].op = "publish", Publication(w), UndoOutput(w) \/ UndoFault(w)
    PROVE  Publication(w)'
<1>1. TypeOK /\ "publish" \in Does[w]
  BY DEF IInv, Publication
<1>2. CASE UndoOutput(w)
  <2>1. /\ pc[w] = "undoOutput" /\ pc'[w] = "undoRuns"
        /\ UNCHANGED <<runs, latest, job, made, old, restored, result>>
        /\ output' = IF made[w] = 3 THEN old[w] ELSE output
    BY <1>1, <1>2, GotoOthers DEF UndoOutput, local
  <2>2. output' = old[w]
    BY <2>1 DEF Publication
  <2> QED BY <2>1, <2>2 DEF Publication, Exists
<1>3. CASE UndoFault(w)
  <2>1. UNCHANGED <<runs, latest, output, job, made, old>>
    BY <1>3 DEF UndoFault, disk
  <2>2. result'[w] = "broken"
    BY <1>1, <1>3, TypeParts DEF UndoFault
  <2>3. \/ pc[w] = "undoLatest" /\ pc'[w] = "undoOutput"
        \/ pc[w] = "undoOutput" /\ pc'[w] = "undoRuns"
    BY <1>1, <1>3, GotoOthers DEF UndoFault
  <2> QED BY <1>1, <2>1, <2>2, <2>3 DEF Publication
<1> QED BY <1>2, <1>3

LEMMA UndoRunsPublished ==
    ASSUME IInv, NEW w \in Writers, job[w].op = "publish", Publication(w),
           UndoRun(w) \/ UndoRunFault(w) \/ UndoDone(w)
    PROVE  Publication(w)'
<1>1. /\ TypeOK /\ "publish" \in Does[w] /\ pc[w] = "undoRuns" /\ made[w] \in 0..3
      /\ runs \in [RunIds -> State] /\ made \in [Writers -> 0..3]
  BY TypeParts DEF IInv, Publication, UndoRun, UndoRunFault, UndoDone
<1>2. PICK f, r \in RunIds : f = job[w].first /\ r = job[w].run /\ f # r
  BY PublishJob
<1>3. CASE UndoRun(w)
  <2>1. /\ UNCHANGED <<latest, output, pc, job, old, restored, result>>
        /\ runs' = [runs EXCEPT ![MovedRun(w)] = NoState] /\ made[w] > 0 /\ restored[w]
        /\ made'[w] = IF made[w] >= 2 THEN 1 ELSE 0
    BY <1>1, <1>3 DEF UndoRun, UndoneTo
  <2>2. /\ result[w] = "undone" => runs'[r] = NoState
        /\ made'[w] = 0 => runs'[f] = NoState
    <3>1. CASE made[w] >= 2
      <4>1. runs' = [runs EXCEPT ![r] = NoState]
        BY <1>2, <2>1, <3>1 DEF MovedRun
      <4> QED BY <1>1, <2>1, <3>1, <4>1
    <3>2. CASE made[w] = 1
      <4>1. runs' = [runs EXCEPT ![f] = NoState]
        BY <1>2, <2>1, <3>2 DEF MovedRun
      <4>2. runs'[f] = NoState /\ runs'[r] = runs[r] /\ made'[w] = 0
        BY <1>1, <1>2, <2>1, <3>2, <4>1
      <4>3. result[w] = "undone" => runs[r] = NoState
        BY <1>1, <1>2, <3>2 DEF Publication, Exists
      <4> QED BY <4>2, <4>3
    <3> QED BY <1>1, <2>1, <3>1, <3>2
  <2> QED BY <1>1, <1>2, <2>1, <2>2 DEF Publication, Exists
<1>4. CASE UndoRunFault(w)
  <2>1. /\ UNCHANGED <<pc, job>>
    BY <1>4 DEF UndoRunFault
  <2>2. result'[w] = "broken"
    BY <1>1, <1>4, TypeParts DEF UndoRunFault
  <2> QED BY <1>1, <2>1, <2>2 DEF Publication
<1>5. CASE UndoDone(w)
  <2>1. /\ UNCHANGED <<runs, latest, output, job, made, old, result>> /\ pc'[w] = "release"
        /\ ~(restored[w] /\ made[w] > 0)
    BY <1>1, <1>5, GotoOthers DEF UndoDone, disk, local
  <2>2. result[w] \in {"undone", "broken"}
    BY <1>1 DEF Publication
  <2>3. result[w] = "undone" => made[w] = 0
    BY <1>1, <2>1 DEF Publication
  <2> QED BY <1>1, <2>1, <2>2, <2>3 DEF Publication, Exists
<1> QED BY <1>3, <1>4, <1>5

LEMMA OwnPublished ==
    ASSUME IInv, NEW w \in Writers, Step(w), Published(w)
    PROVE  Published(w)'
<1>1. TypeOK /\ JobSound(w)
  BY DEF IInv, Sound
<1>2. CASE Request(w)
  BY <1>2, RequestPublished
<1>3. CASE LockBusy(w) \/ ReleaseLock(w) \/ Interrupt(w) \/ Crash(w)
  BY <1>1, <1>3, LeftPublished DEF LockBusy, ReleaseLock, Interrupt, Crash
<1>4. CASE job[w].op # "publish" /\ job' = job
  BY <1>4, NonePublished
<1>5. CASE \/ SavePlace(w) \/ SaveExisting(w) \/ SaveRefused(w) \/ SaveAdvance(w) \/ Fault(w)
           \/ RollbackRestore(w) \/ RollbackRefused(w) \/ RollbackMove(w)
  BY <1>1, <1>4, <1>5 DEF JobSound, SavePlace, SaveExisting, SaveRefused, SaveAdvance, Fault, Saving,
     RollbackRestore, RollbackRefused, RollbackMove, RollingBack, Finish, local
<1>6. CASE job[w].op = "publish" /\ job' = job
  <2>1. Publication(w)
    BY <1>6 DEF Published
  <2>2. CASE \/ BeginPublish(w) \/ AcquireLock(w) \/ PublishFirst(w) \/ PublishSecond(w)
             \/ PublishOutput(w) \/ PublishRefused(w) \/ PublishFault(w)
    BY <1>6, <2>1, <2>2, ForwardPublished DEF Published
  <2>3. CASE PublishLatest(w)
    BY <1>6, <2>1, <2>3, LatestPublished DEF Published
  <2>4. CASE UndoLatest(w) \/ UndoOutput(w) \/ UndoFault(w)
    BY <1>6, <2>1, <2>4, UndoLatestPublished, UndoOutputPublished DEF Published
  <2>5. CASE UndoRun(w) \/ UndoRunFault(w) \/ UndoDone(w)
    BY <1>6, <2>1, <2>5, UndoRunsPublished DEF Published
  <2> QED BY <2>2, <2>3, <2>4, <2>5, <1>2, <1>3, <1>5 DEF Step, Work, Failure
<1>7. job' = job \/ Request(w) \/ LockBusy(w) \/ ReleaseLock(w) \/ Interrupt(w) \/ Crash(w)
  BY DEF Step, Work, Failure, BeginPublish, AcquireLock, SavePlace, SaveExisting, SaveRefused,
     SaveAdvance, RollbackRestore, RollbackRefused, RollbackMove, PublishFirst, PublishSecond,
     PublishOutput, PublishLatest, PublishRefused, UndoLatest, UndoOutput, UndoRun, UndoDone,
     Fault, PublishFault, UndoFault, UndoRunFault, Finish, local
<1> QED BY <1>2, <1>3, <1>4, <1>6, <1>7

PublishInv == \A w \in Writers : Published(w)

LEMMA StepPublish == SinglePublisher /\ IInv /\ PublishInv /\ [Next]_vars => PublishInv'
<1> SUFFICES ASSUME SinglePublisher, IInv, PublishInv, [Next]_vars PROVE PublishInv'
  OBVIOUS
<1>1. ASSUME NEW w \in Writers, Step(w) PROVE PublishInv'
  <2>1. Published(w)'
    BY <1>1, OwnPublished DEF PublishInv
  <2>2. \A v \in Writers \ {w} : Published(v)'
    BY <1>1, OtherPublished DEF PublishInv
  <2> QED BY <2>1, <2>2 DEF PublishInv
<1>2. CASE UNCHANGED <<disk, local, pc>>
  BY <1>2 DEF PublishInv, Published, Publication, Exists, disk, local
<1>3. CASE RemoveStaleLock \/ UNCHANGED vars
  BY <1>2, <1>3 DEF RemoveStaleLock, vars, disk, local
<1> QED BY <1>1, <1>3 DEF Next, Step

\* Under time-stamped run ids and with the one publisher that the lock of the
\* daily run allows, a publication that ended has happened as a whole or not at
\* all: its runs, latest and the account output go together, wherever it failed,
\* unless the undo itself did (publish_staged_chain, service.py:137-229).
THEOREM PublicationsAreWhole ==
    ASSUME Stamped, SinglePublisher
    PROVE  Spec => []PublishAllOrNothing
<1>1. IInv /\ [Next]_vars => IInv'
  BY StepInvariant
<1>2. Init => PublishInv
  BY DEF Init, PublishInv, Published, NoJob
<1>3. IInv /\ PublishInv /\ [Next]_vars => PublishInv'
  BY StepPublish
<1>4. PublishInv => PublishAllOrNothing
  BY DEF PublishInv, Published, Publication, PublishAllOrNothing
<1> QED BY <1>1, <1>2, <1>3, <1>4, InitInvariant, PTL DEF Spec
=============================================================================
