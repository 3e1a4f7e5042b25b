--------------------------- MODULE AgentStageProofs ---------------------------
(***************************************************************************)
(* Proofs about AgentStage.                                                *)
(*                                                                         *)
(* Staged: what the tasks, the directory and the memory have to do with    *)
(* one another while a stage runs under staging: tasks only call agents    *)
(* when all outputs are kept in memory, and then there was no output in    *)
(* the directory when the stage began.                                     *)
(*                                                                         *)
(* Numbered: the raw outputs of a task, in the directory and in memory,    *)
(* have the numbers from 1 on without a gap, however runs fail or are      *)
(* killed between; so the count of files gives the next task a number that *)
(* is free.                                                                *)
(*                                                                         *)
(* InTime: a retry starts as soon as its wait is over.                     *)
(***************************************************************************)
EXTENDS AgentStage, FiniteSetTheorems, TLAPS

USE StageAssumption

Working == main \in {"jobs", "cancelling"}
Ats == {"queued", "call", "agent", "sleep", "save", "done", "failed", "cancelled"}
Calling == {"call", "agent", "sleep", "save"}
Outputs == [Tasks -> [Numbers -> Int]]
Records == [at : Ats, attempt : 1..MaxAttempts, retry : Nat, since : Int, lasted : Int,
            offset : Nat, answer : Int]

TypeOK ==
    /\ now \in Nat /\ inputs \in Nat \ {0}
    /\ raws \in Outputs /\ before \in Outputs /\ memory \in Outputs
    /\ lastRun \in 0..MaxRuns
    /\ staging \in BOOLEAN /\ holding \in BOOLEAN /\ torn \in BOOLEAN /\ abort \in BOOLEAN
    /\ main \in {"idle", "jobs", "cancelling", "saving", "failed", "done"}
    /\ task \in [Tasks -> Records]

\* Outputs are in memory only during a stage; tasks are, too.
Remembered ==
    /\ memory # NoRaws => holding \/ main = "saving"
    /\ holding => Working /\ staging
    /\ main = "saving" => \A t \in Tasks : task[t].at = "done"
    /\ ~Working /\ main # "saving" => \A t \in Tasks : task[t].at = "queued"
    /\ Working \/ main = "saving" => lastRun > 0
    /\ \A t \in Tasks : task[t].at = "queued" => task[t].attempt = 1 /\ task[t].retry = 0

\* The wait is over when a task has failed or all are done, and stays so.
WaitOver ==
    /\ main = "jobs" => \A t \in Tasks : task[t].at # "cancelled"
    /\ main = "cancelling" =>
          (\E t \in Tasks : task[t].at = "failed") \/ (\A t \in Tasks : task[t].at = "done")

\* While tasks run under staging, the directory is as it was; and either
\* nothing is in it, or something of every task, and no agent is called.
Staged ==
    Working /\ staging =>
        /\ raws = before
        /\ holding => \A t \in Tasks : Files(t) = {}
        /\ ~holding => \A t \in Tasks : Files(t) # {} /\ task[t].at \notin Calling

\* The answer of a task that is done is in the directory or in memory.
HasAnswer(t) == \E n \in Numbers : raws[t][n] = inputs \/ memory[t][n] = inputs

Answered == \A t \in Tasks : task[t].at = "done" \/ main = "done" => HasAnswer(t)

\* The numbers of a task's outputs, wherever they are.
Taken(t) == {n \in Numbers : raws[t][n] # Nothing \/ memory[t][n] # Nothing}
Upto(S, bound) == \E k \in Nat : S = 1..k /\ k <= bound

NumbersOf(t) ==
    /\ Upto(Taken(t), lastRun * MaxAttempts)
    /\ Upto(Files(t), lastRun * MaxAttempts)
    /\ \A n \in Files(t) : memory[t][n] = Nothing
    /\ Working /\ task[t].at = "queued" =>
          Taken(t) = Files(t) /\ Upto(Files(t), (lastRun - 1) * MaxAttempts)
    /\ task[t].at \in Calling =>
          /\ Taken(t) = 1..(task[t].offset + task[t].attempt - 1)
          /\ task[t].offset <= (lastRun - 1) * MaxAttempts

Numbered == \A t \in Tasks : NumbersOf(t)

\* A retry begins when its wait ends, and the wait left it time.
TaskInTime(t) ==
    /\ task[t].at = "sleep" => now <= task[t].since /\ task[t].since + task[t].lasted < Deadline
    /\ task[t].at = "call" /\ task[t].retry > 0 => now + task[t].lasted < Deadline
    /\ task[t].at = "agent" /\ task[t].retry > 0 => task[t].since + task[t].lasted < Deadline

InTime == \A t \in Tasks : TaskInTime(t)

StageInv == TypeOK /\ Remembered /\ WaitOver /\ Staged /\ AllOrNothing /\ Answered /\ Numbered /\ InTime

-----------------------------------------------------------------------------
(* Types.                                                                  *)

LEMMA Constants ==
    /\ MaxRuns \in Nat /\ MaxAttempts \in Nat /\ MaxAttempts >= 1 /\ Delay \in Nat /\ Deadline \in Nat
    /\ Tasks \subseteq Nat /\ NoRaws \in Outputs
    /\ \A t \in Tasks, n \in Numbers : NoRaws[t][n] = Nothing
    /\ Queued \in Records
    BY DEF NoRaws, Outputs, Nothing, Queued, Records, Ats

LEMMA LabelFacts ==
    /\ "queued" \in Ats /\ "call" \in Ats /\ "agent" \in Ats /\ "sleep" \in Ats /\ "save" \in Ats
    /\ "done" \in Ats /\ "failed" \in Ats /\ "cancelled" \in Ats
    BY DEF Ats

\* The records a step gives a task.
Started(t, k) == [Moved(t, "call") EXCEPT !.offset = k]
Called(t) == [Moved(t, "agent") EXCEPT !.since = now]
Told(t, w) == [Moved(t, "save") EXCEPT !.answer = w, !.since = 0, !.lasted = 0]
Asleep(t) == [Moved(t, "sleep") EXCEPT !.since = now + Delay, !.lasted = now - task[t].since]
Retried(t) == [Moved(t, "call") EXCEPT !.retry = @ + 1]

LEMMA RecordOf ==
    ASSUME NEW at \in Ats, NEW a \in 1..MaxAttempts, NEW r \in Nat, NEW s \in Int, NEW l \in Int,
           NEW o \in Nat, NEW w \in Int, NEW x,
           x = [at |-> at, attempt |-> a, retry |-> r, since |-> s, lasted |-> l, offset |-> o, answer |-> w]
    PROVE  /\ x \in Records /\ x.at = at /\ x.attempt = a /\ x.retry = r /\ x.since = s /\ x.lasted = l
           /\ x.offset = o /\ x.answer = w
    BY DEF Records

LEMMA RecordFacts ==
    ASSUME TypeOK, NEW t \in Tasks
    PROVE  /\ task[t] \in Records /\ task[t].at \in Ats /\ task[t].attempt \in 1..MaxAttempts
           /\ task[t].retry \in Nat /\ task[t].since \in Int /\ task[t].lasted \in Int
           /\ task[t].offset \in Nat /\ task[t].answer \in Int
    BY DEF TypeOK, Records

LEMMA EndedFacts ==
    ASSUME NEW label \in Ats, NEW x, x = Ended(label)
    PROVE  x \in Records /\ x.at = label /\ x.attempt = 1 /\ x.retry = 0
<1>1. x = [at |-> label, attempt |-> 1, retry |-> 0, since |-> 0, lasted |-> 0, offset |-> 0, answer |-> 0]
    BY DEF Ended, Queued, Nothing
<1> QED
    BY <1>1, RecordOf, Constants

LEMMA CancelRecord ==
    ASSUME TypeOK, NEW t \in Tasks, NEW label \in Ats, NEW x, x = Moved(t, label)
    PROVE  /\ x \in Records /\ x.at = label /\ x.attempt = task[t].attempt /\ x.retry = task[t].retry
           /\ x.since = task[t].since /\ x.lasted = task[t].lasted /\ x.offset = task[t].offset
<1>1. x = [at |-> label, attempt |-> task[t].attempt, retry |-> task[t].retry, since |-> task[t].since,
           lasted |-> task[t].lasted, offset |-> task[t].offset, answer |-> task[t].answer]
    BY RecordFacts DEF Moved, Records
<1> QED
    BY <1>1, RecordFacts, RecordOf

LEMMA StartRecord ==
    ASSUME TypeOK, NEW t \in Tasks, NEW k \in Nat, NEW x, x = Started(t, k)
    PROVE  /\ x \in Records /\ x.at = "call" /\ x.attempt = task[t].attempt /\ x.retry = task[t].retry
           /\ x.offset = k
<1>1. x = [at |-> "call", attempt |-> task[t].attempt, retry |-> task[t].retry, since |-> task[t].since,
           lasted |-> task[t].lasted, offset |-> k, answer |-> task[t].answer]
    BY RecordFacts DEF Moved, Records, Started
<1> QED
    BY <1>1, RecordFacts, LabelFacts DEF Records

LEMMA CallRecord ==
    ASSUME TypeOK, NEW t \in Tasks, NEW x, x = Called(t)
    PROVE  /\ x \in Records /\ x.at = "agent" /\ x.attempt = task[t].attempt /\ x.retry = task[t].retry
           /\ x.since = now /\ x.lasted = task[t].lasted /\ x.offset = task[t].offset
<1>1. x = [at |-> "agent", attempt |-> task[t].attempt, retry |-> task[t].retry, since |-> now,
           lasted |-> task[t].lasted, offset |-> task[t].offset, answer |-> task[t].answer]
    BY RecordFacts DEF Moved, Records, Called
<1>2. now \in Int
    BY DEF TypeOK
<1> QED
    BY <1>1, <1>2, RecordFacts, LabelFacts DEF Records

LEMMA AnswerRecord ==
    ASSUME TypeOK, NEW t \in Tasks, NEW w \in Int,
           NEW x, x = Told(t, w)
    PROVE  /\ x \in Records /\ x.at = "save" /\ x.attempt = task[t].attempt /\ x.offset = task[t].offset
<1>1. x = [at |-> "save", attempt |-> task[t].attempt, retry |-> task[t].retry, since |-> 0,
           lasted |-> 0, offset |-> task[t].offset, answer |-> w]
    BY RecordFacts DEF Moved, Records, Told
<1> QED
    BY <1>1, RecordFacts, LabelFacts, SMTT(60) DEF Records

LEMMA SleepRecord ==
    ASSUME TypeOK, NEW t \in Tasks,
           NEW x, x = Asleep(t)
    PROVE  /\ x \in Records /\ x.at = "sleep" /\ x.attempt = task[t].attempt
           /\ x.since = now + Delay /\ x.lasted = now - task[t].since /\ x.offset = task[t].offset
<1>1. x = [at |-> "sleep", attempt |-> task[t].attempt, retry |-> task[t].retry, since |-> now + Delay,
           lasted |-> now - task[t].since, offset |-> task[t].offset, answer |-> task[t].answer]
    BY RecordFacts DEF Moved, Records, Asleep
<1>2. now + Delay \in Int /\ now - task[t].since \in Int
    BY RecordFacts, Constants DEF TypeOK
<1> QED
    BY <1>1, <1>2, RecordFacts, LabelFacts DEF Records

LEMMA RetryRecord ==
    ASSUME TypeOK, NEW t \in Tasks, NEW x, x = Retried(t)
    PROVE  /\ x \in Records /\ x.at = "call" /\ x.attempt = task[t].attempt
           /\ x.lasted = task[t].lasted /\ x.offset = task[t].offset
<1>1. x = [at |-> "call", attempt |-> task[t].attempt, retry |-> task[t].retry + 1, since |-> task[t].since,
           lasted |-> task[t].lasted, offset |-> task[t].offset, answer |-> task[t].answer]
    BY RecordFacts DEF Moved, Records, Retried
<1>2. task[t].retry + 1 \in Nat
    BY RecordFacts
<1> QED
    BY <1>1, <1>2, RecordFacts, LabelFacts, SMTT(60) DEF Records

LEMMA NextRecord ==
    ASSUME TypeOK, NEW t \in Tasks, AttemptLeft(t), NEW x, x = NextAttempt(t)
    PROVE  /\ x \in Records /\ x.at = "call" /\ x.attempt = task[t].attempt + 1 /\ x.retry = 0
           /\ x.offset = task[t].offset
<1>1. x = [at |-> "call", attempt |-> task[t].attempt + 1, retry |-> 0, since |-> task[t].since,
           lasted |-> task[t].lasted, offset |-> task[t].offset, answer |-> Nothing]
    BY RecordFacts DEF Moved, Records, NextAttempt
<1>2. task[t].attempt + 1 \in 1..MaxAttempts
    BY RecordFacts, Constants DEF AttemptLeft
<1> QED
    BY <1>1, <1>2, RecordFacts, LabelFacts DEF Records, Nothing

LEMMA StepType ==
    ASSUME TypeOK, NEW t \in Tasks, NEW new \in Records, Step(t, new),
           raws' \in Outputs, memory' \in Outputs
    PROVE  TypeOK'
    BY DEF TypeOK, Step

LEMMA KeepType ==
    ASSUME NEW files \in Outputs, NEW t \in Tasks, NEW n \in Nat, NEW answer \in Int
    PROVE  [files EXCEPT ![t][n] = answer] \in Outputs
    BY DEF Outputs

LEMMA NumberType ==
    ASSUME TypeOK, NEW t \in Tasks
    PROVE  Number(t) \in Nat /\ task[t].answer \in Int
    BY Constants DEF TypeOK, Records, Number

LEMMA FilesFinite ==
    ASSUME NEW t \in Tasks
    PROVE  IsFiniteSet(Files(t)) /\ Cardinality(Files(t)) \in Nat
<1>1. MaxRuns * MaxAttempts \in Int
    BY Constants
<1>2. IsFiniteSet(Numbers)
    BY <1>1, FS_Interval DEF Numbers
<1> QED
    BY <1>2, FS_Subset, FS_CardinalityType DEF Files

LEMMA SaveType ==
    ASSUME TypeOK, NEW t \in Tasks, Save(t)
    PROVE  raws' \in Outputs /\ memory' \in Outputs
    BY KeepType, NumberType DEF Save, TypeOK

\* What a step of a thread is.
LEMMA StartCases ==
    ASSUME NEW t \in Tasks, Start(t)
    PROVE  /\ Working /\ task[t].at = "queued" /\ UNCHANGED <<raws, memory>>
           /\ \/ Step(t, Ended("done")) /\ Reusable(t)
              \/ Step(t, Ended("failed"))
              \/ Step(t, Started(t, Cardinality(Files(t)))) /\ (staging => holding \/ Files(t) = {})
<1>1. Working /\ task[t].at = "queued" /\ UNCHANGED <<raws, memory>>
    BY DEF Start, Working, At
<1> DEFINE new == IF Reusable(t) THEN Ended("done")
                  ELSE IF Files(t) # {} /\ staging /\ ~holding THEN Ended("failed")
                  ELSE [Moved(t, "call") EXCEPT !.offset = Cardinality(Files(t))]
<1>2. Step(t, new)
    BY Zenon DEF Start
<1>3. CASE Reusable(t)
  <2>1. new = Ended("done")
      BY <1>3, Zenon
  <2> QED
      BY <1>1, <1>2, <1>3, <2>1, Zenon
<1>4. CASE ~Reusable(t) /\ Files(t) # {} /\ staging /\ ~holding
  <2>1. new = Ended("failed")
      BY <1>4, Zenon
  <2> QED
      BY <1>1, <1>2, <2>1, Zenon
<1>5. CASE ~Reusable(t) /\ ~(Files(t) # {} /\ staging /\ ~holding)
  <2>1. new = Started(t, Cardinality(Files(t)))
      BY <1>5, Zenon DEF Started
  <2> QED
      BY <1>1, <1>2, <1>5, <2>1, Zenon
<1> QED
    BY <1>3, <1>4, <1>5

LEMMA CallCases ==
    ASSUME NEW t \in Tasks, Call(t)
    PROVE  /\ task[t].at = "call" /\ UNCHANGED <<raws, memory>>
           /\ Step(t, Ended("failed")) \/ Step(t, Called(t))
<1>1. CASE staging /\ ~holding
    BY <1>1, Zenon DEF Call, At
<1>2. CASE ~(staging /\ ~holding)
    BY <1>2, Zenon DEF Call, Called, At
<1> QED
    BY <1>1, <1>2

LEMMA AnswerCases ==
    ASSUME NEW t \in Tasks, NEW answer, Answer(t, answer)
    PROVE  task[t].at = "agent" /\ UNCHANGED <<raws, memory>> /\ Step(t, Told(t, answer))
    BY Zenon DEF Answer, Told, At

LEMMA TransientCases ==
    ASSUME NEW t \in Tasks, Transient(t)
    PROVE  /\ task[t].at = "agent" /\ UNCHANGED <<raws, memory>>
           /\ Step(t, Ended("failed")) \/ (Step(t, Asleep(t)) /\ ~RetryBlocked(t))
<1>1. CASE RetryBlocked(t)
    BY <1>1, Zenon DEF Transient, At
<1>2. CASE ~RetryBlocked(t)
    BY <1>2, Zenon DEF Transient, Asleep, At
<1> QED
    BY <1>1, <1>2

LEMMA WakeUpCases ==
    ASSUME NEW t \in Tasks, WakeUp(t)
    PROVE  /\ task[t].at = "sleep" /\ UNCHANGED <<raws, memory>>
           /\ Step(t, Ended("failed")) \/ (Step(t, Retried(t)) /\ now >= task[t].since)
<1>1. CASE abort
    BY <1>1, Zenon DEF WakeUp, At
<1>2. CASE ~abort
    BY <1>2, Zenon DEF WakeUp, Retried, At
<1> QED
    BY <1>1, <1>2

LEMMA TaskType ==
    ASSUME TypeOK, NEW t \in Tasks, TaskStep(t)
    PROVE  TypeOK'
<1>1. Ended("done") \in Records /\ Ended("failed") \in Records
    BY EndedFacts DEF Ats
<1>2. CASE Start(t)
    BY <1>1, <1>2, FilesFinite, StartCases, StartRecord, StepType DEF TypeOK
<1>3. CASE Call(t)
    BY <1>1, <1>3, CallCases, CallRecord, StepType DEF TypeOK
<1>4. CASE \E answer \in {inputs, Unusable} : Answer(t, answer)
  <2>1. PICK answer \in {inputs, Unusable} : Answer(t, answer)
      BY <1>4
  <2>2. answer \in Int
      BY DEF TypeOK, Unusable
  <2> QED
      BY <2>1, <2>2, AnswerCases, AnswerRecord, StepType DEF TypeOK
<1>5. CASE AgentRefused(t)
    BY <1>1, <1>5, StepType DEF AgentRefused, TypeOK
<1>6. CASE Transient(t)
    BY <1>1, <1>6, TransientCases, SleepRecord, StepType DEF TypeOK
<1>7. CASE WakeUp(t)
    BY <1>1, <1>7, WakeUpCases, RetryRecord, StepType DEF TypeOK
<1>8. CASE Accepted(t) \/ Rejected(t) \/ Malformed(t)
    BY <1>1, <1>8, NextRecord, SaveType, StepType DEF Accepted, Rejected, Malformed
<1>9. CASE SaveFails(t)
  <2>1. Number(t) \in Nat /\ Unusable \in Int /\ raws \in Outputs
      BY NumberType DEF Unusable, TypeOK
  <2>2. [raws EXCEPT ![t][Number(t)] = Unusable] \in Outputs
      BY <2>1, KeepType
  <2> QED
      BY <1>1, <1>9, <2>1, <2>2, StepType DEF SaveFails, Cut, TypeOK
<1> QED
    BY <1>2, <1>3, <1>4, <1>5, <1>6, <1>7, <1>8, <1>9 DEF TaskStep

LEMMA EndType ==
    ASSUME TypeOK, NEW label \in {"idle", "failed", "done"}, End(label), now' = now,
           raws' \in Outputs, torn' \in BOOLEAN
    PROVE  TypeOK'
    BY Constants DEF TypeOK, End

\* The stage ends; the directory gains at most one output.
Closes ==
    \/ CloseFailed \/ CloseDone \/ AllSaved \/ Crash
    \/ \E t \in Tasks, n \in Numbers : SaveKeptFails(t, n)

\* Of which output a run that is killed leaves a part.
CutAt(t, n) ==
    /\ \/ task[t].at = "save" /\ ~holding /\ n = Number(t)
       \/ main = "saving" /\ NextKept(t, n)
    /\ raws' = [raws EXCEPT ![t][n] = Unusable]

LEMMA CloseFacts ==
    ASSUME Closes
    PROVE  /\ \E label \in {"idle", "failed", "done"} : End(label)
           /\ Working \/ main = "saving"
           /\ \/ raws' = raws
              \/ \E t \in Tasks, n \in Numbers :
                    (main = "saving" /\ NextKept(t, n)) /\ raws' = [raws EXCEPT ![t][n] = Unusable]
              \/ \E t \in Tasks : task[t].at = "save" /\ ~holding
                                  /\ raws' = [raws EXCEPT ![t][Number(t)] = Unusable]
           /\ torn' = torn \/ torn' = TRUE
<1>1. CASE CloseFailed \/ CloseDone \/ AllSaved
    BY <1>1 DEF CloseFailed, CloseDone, AllSaved, Closing, Working
<1>2. CASE Crash
    BY <1>2, Zenon DEF Crash, Cut, At, Working
<1>3. CASE \E t \in Tasks, n \in Numbers : SaveKeptFails(t, n)
    BY <1>3, Zenon DEF SaveKeptFails, Cut
<1> QED
    BY <1>1, <1>2, <1>3 DEF Closes

LEMMA CloseType ==
    ASSUME TypeOK, Closes
    PROVE  TypeOK'
<1>1. raws' \in Outputs
  <2>1. raws \in Outputs /\ Unusable \in Int /\ Numbers \subseteq Nat
      BY DEF TypeOK, Unusable, Numbers
  <2>2. CASE raws' = raws
      BY <2>1, <2>2
  <2>3. ASSUME NEW t \in Tasks, NEW n \in Numbers, raws' = [raws EXCEPT ![t][n] = Unusable]
        PROVE  raws' \in Outputs
      BY <2>1, <2>3, KeepType
  <2>4. ASSUME NEW t \in Tasks, raws' = [raws EXCEPT ![t][Number(t)] = Unusable]
        PROVE  raws' \in Outputs
      BY <2>1, <2>4, KeepType, NumberType
  <2> QED
      BY <2>2, <2>3, <2>4, CloseFacts
<1>2. torn' \in BOOLEAN
    BY CloseFacts DEF TypeOK
<1>3. PICK label \in {"idle", "failed", "done"} : End(label)
    BY CloseFacts
<1>4. now' = now
    BY <1>3 DEF End
<1> QED
    BY <1>1, <1>2, <1>3, <1>4, EndType

LEMMA BeginType ==
    ASSUME TypeOK, NEW s \in BOOLEAN, NEW version \in {inputs, inputs + 1}, Begin(s, version)
    PROVE  TypeOK'
<1>1. version \in Nat \ {0}
    BY DEF TypeOK
<1>2. lastRun' \in 0..MaxRuns
    BY Constants DEF TypeOK, Begin
<1>3. main' \in {"failed", "jobs"} /\ holding' \in BOOLEAN
    BY DEF Begin
<1>4. task' \in [Tasks -> Records]
    BY Constants DEF Begin
<1> QED
    BY <1>1, <1>2, <1>3, <1>4, Constants DEF TypeOK, Begin

LEMMA SaveKeptFacts ==
    ASSUME TypeOK, NEW t \in Tasks, NEW n \in Numbers, SaveKept(t, n)
    PROVE  /\ main = "saving" /\ NextKept(t, n) /\ raws' \in Outputs /\ memory' \in Outputs
           /\ raws'[t][n] = memory[t][n] /\ memory'[t][n] = Nothing
           /\ \A u \in Tasks, m \in Numbers :
                 u # t \/ m # n => raws'[u][m] = raws[u][m] /\ memory'[u][m] = memory[u][m]
           /\ UNCHANGED <<now, inputs, before, lastRun, staging, holding, torn, main, task, abort>>
<1>1. /\ main = "saving" /\ NextKept(t, n)
      /\ raws' = [raws EXCEPT ![t][n] = memory[t][n]] /\ memory' = [memory EXCEPT ![t][n] = Nothing]
      /\ UNCHANGED <<now, inputs, before, lastRun, staging, holding, torn, main, task, abort>>
    BY DEF SaveKept
<1>2. raws \in Outputs /\ memory \in Outputs /\ Nothing \in Int
    BY DEF TypeOK, Nothing
<1> QED
    BY <1>1, <1>2 DEF Outputs

\* The main thread goes on; no output is written.
Waits == Wake \/ CloseStaged \/ Tick \/ \E t \in Tasks : Cancel(t)

LEMMA WaitsType ==
    ASSUME TypeOK, Waits
    PROVE  TypeOK'
<1>1. CASE Wake \/ CloseStaged
    BY <1>1 DEF TypeOK, Wake, CloseStaged, disk, staged
<1>2. CASE Tick
    BY <1>2 DEF TypeOK, Tick, disk, staged
<1>3. ASSUME NEW t \in Tasks, Cancel(t)
      PROVE  TypeOK'
  <2>1. task' = [task EXCEPT ![t] = Moved(t, "cancelled")] /\ Moved(t, "cancelled") \in Records
      BY <1>3, CancelRecord, LabelFacts DEF Cancel, Moved
  <2> QED
      BY <1>3, <2>1 DEF TypeOK, Cancel, disk, staged
<1> QED
    BY <1>1, <1>2, <1>3 DEF Waits

LEMMA NextCases ==
    ASSUME [Next]_vars
    PROVE  \/ \E s \in BOOLEAN, version \in {inputs, inputs + 1} : Begin(s, version)
           \/ Waits \/ Closes \/ (\E t \in Tasks, n \in Numbers : SaveKept(t, n))
           \/ (\E t \in Tasks : TaskStep(t)) \/ UNCHANGED vars
    BY Zenon DEF Next, MainStep, Waits, Closes

LEMMA NextType ==
    ASSUME TypeOK, [Next]_vars
    PROVE  TypeOK'
<1>1. CASE \E t \in Tasks, n \in Numbers : SaveKept(t, n)
    BY <1>1, SaveKeptFacts DEF TypeOK
<1>2. CASE UNCHANGED vars
    BY <1>2 DEF TypeOK, vars, disk, staged
<1> QED
    BY <1>1, <1>2, NextCases, BeginType, WaitsType, CloseType, TaskType

-----------------------------------------------------------------------------
(* What the steps of one kind do.                                          *)

LEMMA RunningFacts ==
    ASSUME TypeOK, Remembered, NEW t \in Tasks, task[t].at \in Calling \cup {"failed", "cancelled"}
    PROVE  Working /\ main # "saving" /\ main # "done"
    BY DEF Remembered, Calling, Working

\* A thread moves its task, saves in memory or in the directory, and calls
\* for a task whose outputs are there only without staging.
LEMMA TaskFacts ==
    ASSUME TypeOK, Remembered, NEW t \in Tasks, TaskStep(t)
    PROVE  /\ Working /\ main # "saving" /\ task[t].at \in Calling \cup {"queued"}
           /\ UNCHANGED <<now, inputs, before, lastRun, staging, holding, torn, main, abort>>
           /\ task'[t].at \in Calling \cup {"done", "failed"}
           /\ \A u \in Tasks : u # t => task'[u] = task[u]
           /\ memory' # memory => holding
           /\ raws' # raws => ~holding /\ task[t].at \in Calling
           /\ task[t].at = "queued" => raws' = raws /\ memory' = memory
           /\ task[t].at = "queued" /\ staging /\ ~holding /\ Files(t) # {} => task'[t].at \notin Calling
<1>1. PICK new : Step(t, new) /\ new.at \in Calling \cup {"done", "failed"}
  <2>1. Ended("done").at = "done" /\ Ended("failed").at = "failed"
      BY EndedFacts, LabelFacts
  <2>2. CASE Start(t)
    <3>1. Started(t, Cardinality(Files(t))).at = "call"
        BY StartRecord, FilesFinite
    <3> QED
        BY <2>1, <2>2, <3>1, StartCases DEF Calling
  <2>3. CASE Call(t)
    <3>1. Called(t).at = "agent"
        BY CallRecord
    <3> QED
        BY <2>1, <2>3, <3>1, CallCases DEF Calling
  <2>4. CASE \E answer \in {inputs, Unusable} : Answer(t, answer)
    <3>1. PICK answer \in {inputs, Unusable} : Answer(t, answer)
        BY <2>4
    <3>2. Told(t, answer).at = "save"
        BY <3>1, AnswerRecord DEF TypeOK, Unusable
    <3> QED
        BY <3>1, <3>2, AnswerCases DEF Calling
  <2>5. CASE Transient(t)
    <3>1. Asleep(t).at = "sleep"
        BY SleepRecord
    <3> QED
        BY <2>1, <2>5, <3>1, TransientCases DEF Calling
  <2>6. CASE WakeUp(t)
    <3>1. Retried(t).at = "call"
        BY RetryRecord
    <3> QED
        BY <2>1, <2>6, <3>1, WakeUpCases DEF Calling
  <2>7. CASE AgentRefused(t) \/ Accepted(t) \/ Rejected(t) \/ Malformed(t) \/ SaveFails(t)
    <3>1. AttemptLeft(t) => NextAttempt(t).at = "call"
        BY NextRecord
    <3> QED
        BY <2>1, <2>7, <3>1 DEF AgentRefused, Accepted, Rejected, Malformed, SaveFails, Calling
  <2> QED
      BY <2>2, <2>3, <2>4, <2>5, <2>6, <2>7 DEF TaskStep
<1>2. task' = [task EXCEPT ![t] = new]
      /\ UNCHANGED <<now, inputs, before, lastRun, staging, holding, torn, main, abort>>
    BY <1>1 DEF Step
<1>3. task'[t] = new /\ \A u \in Tasks : u # t => task'[u] = task[u]
    BY <1>2 DEF TypeOK
<1>4. /\ task[t].at \in Calling \/ Start(t)
      /\ memory' # memory => holding
      /\ raws' # raws => ~holding /\ task[t].at \in Calling
      /\ Start(t) => raws' = raws /\ memory' = memory
  <2>1. CASE Start(t)
      BY <2>1, StartCases
  <2>2. CASE Call(t) \/ (\E answer \in {inputs, Unusable} : Answer(t, answer)) \/ Transient(t) \/ WakeUp(t)
      BY <2>2, CallCases, AnswerCases, TransientCases, WakeUpCases, StartCases DEF Calling
  <2>3. CASE AgentRefused(t) \/ Accepted(t) \/ Rejected(t) \/ Malformed(t) \/ SaveFails(t)
      BY <2>3, StartCases DEF AgentRefused, Accepted, Rejected, Malformed, SaveFails, Save, At, Calling
  <2> QED
      BY <2>1, <2>2, <2>3 DEF TaskStep
<1>5. Start(t) => task[t].at = "queued" /\ Working
    BY StartCases
<1>6. task[t].at = "queued" => Start(t)
    BY <1>4 DEF Calling
<1>7. task[t].at = "queued" /\ staging /\ ~holding /\ Files(t) # {} => task'[t].at \notin Calling
  <2>1. Ended("done").at = "done" /\ Ended("failed").at = "failed"
      BY EndedFacts, LabelFacts
  <2>2. \A x : Step(t, x) => task'[t] = x
      BY DEF Step, TypeOK
  <2> QED
      BY <1>6, <2>1, <2>2, StartCases DEF Calling
<1> QED
    BY <1>1, <1>2, <1>3, <1>4, <1>5, <1>6, <1>7, RunningFacts DEF Working

LEMMA WaitsFacts ==
    ASSUME TypeOK, WaitOver, Waits
    PROVE  /\ UNCHANGED <<inputs, raws, before, lastRun, staging, memory, torn>>
           /\ \/ /\ main = "jobs" /\ main' = "cancelling" /\ UNCHANGED <<now, task, holding>>
                 /\ (\E t \in Tasks : task[t].at = "failed") \/ (\A t \in Tasks : task[t].at = "done")
              \/ /\ main = "cancelling" /\ main' = "saving" /\ UNCHANGED <<now, task>>
                 /\ holding /\ ~holding' /\ \A t \in Tasks : task[t].at = "done"
              \/ /\ now' = now + 1 /\ UNCHANGED <<main, task, holding>>
                 /\ \A t \in Tasks : task[t].at # "call" /\ (task[t].at = "sleep" => now < task[t].since)
              \/ /\ main = "cancelling" /\ UNCHANGED <<now, main, holding>>
                 /\ \E t \in Tasks : /\ task[t].at = "queued" /\ task'[t].at = "cancelled"
                                     /\ \A u \in Tasks : u # t => task'[u] = task[u]
<1>1. CASE Wake
    BY <1>1 DEF Wake, disk, staged, At
<1>2. CASE CloseStaged
  <2>1. /\ main = "cancelling" /\ main' = "saving" /\ holding /\ ~holding'
        /\ UNCHANGED <<now, inputs, raws, before, lastRun, staging, memory, torn, task>>
        /\ \A t \in Tasks : task[t].at # "failed"
      BY <1>2 DEF CloseStaged, Closing, disk, At
  <2> QED
      BY <2>1 DEF WaitOver
<1>3. CASE Tick
    BY <1>3 DEF Tick, disk, staged, At
<1>4. ASSUME NEW t \in Tasks, Cancel(t)
      PROVE  /\ UNCHANGED <<inputs, raws, before, lastRun, staging, memory, torn>>
             /\ main = "cancelling" /\ UNCHANGED <<now, main, holding>>
             /\ task[t].at = "queued" /\ task'[t].at = "cancelled"
             /\ \A u \in Tasks : u # t => task'[u] = task[u]
  <2>1. task' = [task EXCEPT ![t] = Moved(t, "cancelled")] /\ Moved(t, "cancelled").at = "cancelled"
      BY <1>4, CancelRecord, LabelFacts DEF Cancel, Moved
  <2> QED
      BY <1>4, <2>1 DEF TypeOK, Cancel, disk, staged, At
<1> QED
    BY <1>1, <1>2, <1>3, <1>4 DEF Waits

LEMMA BeginFacts ==
    ASSUME TypeOK, NEW s \in BOOLEAN, NEW version \in {inputs, inputs + 1}, Begin(s, version)
    PROVE  /\ main \in {"idle", "failed", "done"} /\ lastRun' = lastRun + 1 /\ lastRun \in Nat
           /\ raws' = raws /\ before' = raws /\ memory' = NoRaws /\ ~torn' /\ now' = now /\ staging' = s
           /\ \A t \in Tasks : task'[t] = Queued
           /\ main' \in {"jobs", "failed"} /\ (holding' => s /\ main' = "jobs" /\ \A t \in Tasks : Files(t) = {})
           /\ main' = "jobs" /\ s /\ ~holding' => \A t \in Tasks : Files(t) # {}
<1>1. /\ main \in {"idle", "failed", "done"} /\ lastRun' = lastRun + 1 /\ lastRun \in Nat
      /\ raws' = raws /\ before' = raws /\ memory' = NoRaws /\ ~torn' /\ now' = now /\ staging' = s
      /\ task' = [t \in Tasks |-> Queued]
      /\ main' = IF Refused(s) THEN "failed" ELSE "jobs"
      /\ holding' = (s /\ ~Refused(s) /\ Present # Tasks)
    BY DEF Begin, TypeOK
<1>2. s /\ ~Refused(s) => Present = {} \/ Present = Tasks
    BY DEF Refused
<1> QED
    BY <1>1, <1>2 DEF Present

LEMMA ClosedFacts ==
    ASSUME TypeOK, Closes
    PROVE  /\ main' \in {"idle", "failed", "done"} /\ ~holding' /\ memory' = NoRaws
           /\ \A t \in Tasks : task'[t] = Queued
           /\ UNCHANGED <<now, inputs, before, lastRun, staging>>
           /\ Working \/ main = "saving"
    BY CloseFacts DEF End

-----------------------------------------------------------------------------
(* Remembered and WaitOver.                                                *)

LEMMA QueuedFacts ==
    /\ Queued.at = "queued" /\ Queued.attempt = 1 /\ Queued.retry = 0
    BY DEF Queued

LEMMA NextRemembered ==
    ASSUME TypeOK, Remembered, WaitOver, [Next]_vars
    PROVE  Remembered' /\ WaitOver'
<1>1. ASSUME NEW s \in BOOLEAN, NEW version \in {inputs, inputs + 1}, Begin(s, version)
      PROVE  Remembered' /\ WaitOver'
    BY <1>1, BeginFacts, QueuedFacts DEF Remembered, WaitOver, Working
<1>2. CASE Closes
    BY <1>2, ClosedFacts, QueuedFacts DEF Remembered, WaitOver, Working
<1>3. CASE Waits
    BY <1>3, WaitsFacts DEF Remembered, WaitOver, Working
<1>4. ASSUME NEW t \in Tasks, NEW n \in Numbers, SaveKept(t, n)
      PROVE  Remembered' /\ WaitOver'
    BY <1>4, SaveKeptFacts DEF Remembered, WaitOver, Working
<1>5. ASSUME NEW t \in Tasks, TaskStep(t)
      PROVE  Remembered' /\ WaitOver'
    BY <1>5, TaskFacts DEF Remembered, WaitOver, Working, Calling
<1>6. CASE UNCHANGED vars
    BY <1>6 DEF Remembered, WaitOver, Working, vars, disk, staged
<1> QED
    BY <1>1, <1>2, <1>3, <1>4, <1>5, <1>6, NextCases

-----------------------------------------------------------------------------
(* Staged and AllOrNothing.                                                *)

LEMMA NextStaged ==
    ASSUME TypeOK, Remembered, WaitOver, Staged, AllOrNothing, [Next]_vars
    PROVE  Staged' /\ AllOrNothing'
<1>1. ASSUME NEW s \in BOOLEAN, NEW version \in {inputs, inputs + 1}, Begin(s, version)
      PROVE  Staged' /\ AllOrNothing'
    BY <1>1, BeginFacts, QueuedFacts DEF Staged, AllOrNothing, Working, Files, Calling
<1>2. CASE Closes
  <2>1. main' # "jobs" /\ main' # "cancelling" /\ UNCHANGED <<before, staging>>
      BY <1>2, ClosedFacts
  <2>2. main' = "failed" /\ staging /\ ~torn' => raws' = before
    <3>1. CASE CloseFailed
      <4>1. Working /\ raws' = raws
          BY <3>1 DEF CloseFailed, Closing, Working
      <4> QED
          BY <4>1 DEF Staged
    <3>2. CASE CloseDone \/ AllSaved \/ Crash
        BY <3>2 DEF CloseDone, AllSaved, Crash, End
    <3>3. CASE \E t \in Tasks, n \in Numbers : SaveKeptFails(t, n)
        BY <3>3 DEF SaveKeptFails
    <3> QED
        BY <1>2, <3>1, <3>2, <3>3 DEF Closes
  <2> QED
      BY <2>1, <2>2 DEF Staged, AllOrNothing, Working
<1>3. CASE Waits
    BY <1>3, WaitsFacts DEF Staged, AllOrNothing, Working, Files, Calling
<1>4. ASSUME NEW t \in Tasks, NEW n \in Numbers, SaveKept(t, n)
      PROVE  Staged' /\ AllOrNothing'
    BY <1>4, SaveKeptFacts DEF Staged, AllOrNothing, Working
<1>5. ASSUME NEW t \in Tasks, TaskStep(t)
      PROVE  Staged' /\ AllOrNothing'
  <2>1. staging => raws' = raws
      BY <1>5, TaskFacts DEF Staged
  <2> QED
      BY <1>5, <2>1, TaskFacts DEF Staged, AllOrNothing, Working, Files
<1>6. CASE UNCHANGED vars
    BY <1>6 DEF Staged, AllOrNothing, Working, Files, vars, disk, staged
<1> QED
    BY <1>1, <1>2, <1>3, <1>4, <1>5, <1>6, NextCases

-----------------------------------------------------------------------------
(* Numbered.                                                               *)

\* The numbers there are last for all runs.
LEMMA Budget ==
    ASSUME NEW r \in 1..MaxRuns
    PROVE  /\ (r - 1) * MaxAttempts \in Nat /\ r * MaxAttempts \in Nat /\ MaxRuns * MaxAttempts \in Nat
           /\ (r - 1) * MaxAttempts + MaxAttempts = r * MaxAttempts
           /\ r * MaxAttempts <= MaxRuns * MaxAttempts
<1>1. r \in Nat /\ r - 1 \in Nat /\ MaxRuns - r \in Nat /\ MaxRuns \in Nat /\ MaxAttempts \in Nat
    BY Constants
<1>2. /\ (r - 1) * MaxAttempts \in Nat /\ r * MaxAttempts \in Nat /\ MaxRuns * MaxAttempts \in Nat
      /\ (MaxRuns - r) * MaxAttempts \in Nat
    BY <1>1
<1>3. (r - 1) * MaxAttempts + MaxAttempts = r * MaxAttempts
    BY <1>1
<1>4. (MaxRuns - r) * MaxAttempts + r * MaxAttempts = MaxRuns * MaxAttempts
    BY <1>1
<1> QED
    BY <1>2, <1>3, <1>4

LEMMA UptoFacts ==
    ASSUME NEW S, NEW b \in Int, NEW c \in Int, b <= c, Upto(S, b)
    PROVE  Upto(S, c)
    BY DEF Upto

LEMMA CountFacts ==
    ASSUME NEW k \in Nat
    PROVE  Cardinality(1..k) = k
    BY FS_Interval

LEMMA LastRunFacts ==
    ASSUME TypeOK, Remembered, Working \/ main = "saving"
    PROVE  lastRun \in 1..MaxRuns
    BY DEF TypeOK, Remembered

\* The number of an answer is free, and the next one.
LEMMA NumberFree ==
    ASSUME TypeOK, Remembered, NEW t \in Tasks, NumbersOf(t), task[t].at \in Calling
    PROVE  /\ Number(t) \in Numbers /\ Number(t) \in Nat /\ Number(t) <= lastRun * MaxAttempts
           /\ Number(t) \notin Taken(t) /\ Taken(t) = 1..(Number(t) - 1)
           /\ Taken(t) \cup {Number(t)} = 1..Number(t)
           /\ lastRun * MaxAttempts \in Nat
<1>1. lastRun \in 1..MaxRuns
    BY LastRunFacts, RunningFacts
<1>2. /\ task[t].offset \in Nat /\ task[t].attempt \in Nat
      /\ task[t].attempt >= 1 /\ task[t].attempt <= MaxAttempts
    BY RecordFacts, Constants
<1>3. /\ Taken(t) = 1..(task[t].offset + task[t].attempt - 1)
      /\ task[t].offset <= (lastRun - 1) * MaxAttempts
    BY DEF NumbersOf
<1>4. Number(t) = task[t].offset + task[t].attempt /\ Number(t) \in Nat /\ Number(t) >= 1
    BY <1>2 DEF Number
<1>5. Number(t) <= lastRun * MaxAttempts /\ Number(t) <= MaxRuns * MaxAttempts
      /\ lastRun * MaxAttempts \in Nat
  <2>1. PICK a, b, c : a = (lastRun - 1) * MaxAttempts /\ b = lastRun * MaxAttempts /\ c = MaxRuns * MaxAttempts
      OBVIOUS
  <2>2. a \in Nat /\ b \in Nat /\ c \in Nat /\ a + MaxAttempts = b /\ b <= c /\ MaxAttempts \in Nat
      BY <1>1, <2>1, Budget, Constants
  <2>3. task[t].offset <= a
      BY <1>3, <2>1
  <2>4. Number(t) <= b /\ Number(t) <= c
      BY <1>2, <1>4, <2>2, <2>3
  <2> QED
      BY <2>1, <2>2, <2>4
<1>6. Taken(t) = 1..(Number(t) - 1)
    BY <1>2, <1>3, <1>4
<1>7. Taken(t) \cup {Number(t)} = 1..Number(t) /\ Number(t) \notin Taken(t)
    BY <1>4, <1>6
<1>8. MaxRuns * MaxAttempts \in Int
    BY <1>1, Budget
<1> QED
    BY <1>4, <1>5, <1>6, <1>7, <1>8 DEF Numbers

\* What is in memory is written down in the order of its numbers.
LEMMA NextIsFree ==
    ASSUME TypeOK, NEW t \in Tasks, NumbersOf(t), NEW n \in Numbers, NextKept(t, n), lastRun \in 1..MaxRuns
    PROVE  \E k \in Nat : /\ Files(t) = 1..k /\ n = k + 1 /\ n <= lastRun * MaxAttempts
                          /\ n \in Taken(t) /\ n \notin Files(t)
<1>1. lastRun * MaxAttempts \in Nat
    BY Budget
<1>2. PICK k \in Nat : Files(t) = 1..k
    BY DEF NumbersOf, Upto
<1>3. PICK m \in Nat : Taken(t) = 1..m /\ m <= lastRun * MaxAttempts
    BY DEF NumbersOf, Upto
<1>4. memory[t][n] # Nothing /\ n \in Nat /\ n >= 1
  <2>1. MaxRuns * MaxAttempts \in Int
      BY Budget
  <2> QED
      BY <2>1 DEF NextKept, Kept, Numbers
<1>5. n \in Taken(t) /\ n \notin Files(t)
    BY <1>4 DEF Taken, NumbersOf
<1>6. n <= m /\ n > k
    BY <1>2, <1>3, <1>4, <1>5
<1>7. k + 1 \in Taken(t) /\ k + 1 \notin Files(t)
    BY <1>2, <1>3, <1>4, <1>6
<1>8. k + 1 \in Numbers /\ memory[t][k + 1] # Nothing
    BY <1>7 DEF Taken, Files
<1>9. n <= k + 1
  <2>1. ~(NameRank[t] < NameRank[t])
      BY DEF StageAssumption
  <2> QED
      BY <1>8, <2>1 DEF NextKept, Kept
<1> QED
    BY <1>1, <1>2, <1>3, <1>4, <1>5, <1>6, <1>9

LEMMA NumbersSame ==
    ASSUME NEW u \in Tasks, NumbersOf(u), lastRun' = lastRun, raws'[u] = raws[u], memory'[u] = memory[u],
           Working' => Working,
           Working' /\ task'[u].at = "queued" => task[u].at = "queued",
           task'[u].at \in Calling => task[u].at \in Calling /\ task'[u].offset = task[u].offset
                                      /\ task'[u].attempt = task[u].attempt
    PROVE  NumbersOf(u)'
<1>1. Taken(u)' = Taken(u) /\ Files(u)' = Files(u)
    BY DEF Taken, Files
<1> QED
    BY <1>1 DEF NumbersOf, Upto

LEMMA WriteFacts ==
    ASSUME NEW files \in Outputs, NEW t \in Tasks, NEW n \in Numbers, NEW w
    PROVE  /\ [files EXCEPT ![t][n] = w][t][n] = w
           /\ \A u \in Tasks, m \in Numbers :
                 u # t \/ m # n => [files EXCEPT ![t][n] = w][u][m] = files[u][m]
           /\ \A u \in Tasks : u # t => [files EXCEPT ![t][n] = w][u] = files[u]
    BY DEF Outputs

\* Without staging nothing is in memory.
LEMMA NoMemory ==
    ASSUME TypeOK, Remembered, ~holding, main # "saving", NEW t \in Tasks
    PROVE  Taken(t) = Files(t) /\ \A n \in Numbers : memory[t][n] = Nothing
<1>1. \A n \in Numbers : memory[t][n] = Nothing
    BY Constants DEF Remembered
<1> QED
    BY <1>1 DEF Taken, Files

\* An output is written under the number that is free.
LEMMA Written ==
    ASSUME TypeOK, Remembered, NEW t \in Tasks, NumbersOf(t), task[t].at \in Calling, NEW w, w # Nothing,
           lastRun' = lastRun,
           \/ ~holding /\ memory' = memory /\ raws' = [raws EXCEPT ![t][Number(t)] = w]
           \/ holding /\ raws' = raws /\ memory' = [memory EXCEPT ![t][Number(t)] = w]
    PROVE  /\ Taken(t)' = 1..Number(t) /\ Number(t) \in Nat
           /\ Upto(Taken(t), lastRun * MaxAttempts)' /\ Upto(Files(t), lastRun * MaxAttempts)'
           /\ \A n \in Files(t)' : memory'[t][n] = Nothing
           /\ \A u \in Tasks : u # t => raws'[u] = raws[u] /\ memory'[u] = memory[u]
           /\ \A u \in Tasks : \A n \in Files(u) : raws'[u][n] = raws[u][n]
<1>1. PICK n \in Numbers : n = Number(t)
    BY NumberFree
<1>2. /\ n \in Nat /\ n <= lastRun * MaxAttempts /\ n \notin Taken(t) /\ Taken(t) = 1..(n - 1)
      /\ Taken(t) \cup {n} = 1..n
    BY <1>1, NumberFree
<1>3. raws \in Outputs /\ memory \in Outputs
    BY DEF TypeOK
<1>4. main # "saving"
    BY RunningFacts
<1>write. /\ raws'[t][n] = w \/ memory'[t][n] = w
          /\ \A u \in Tasks, m \in Numbers :
                u # t \/ m # n => raws'[u][m] = raws[u][m] /\ memory'[u][m] = memory[u][m]
          /\ \A u \in Tasks : u # t => raws'[u] = raws[u] /\ memory'[u] = memory[u]
  <2>1. CASE ~holding /\ memory' = memory /\ raws' = [raws EXCEPT ![t][n] = w]
      BY <1>3, <2>1 DEF Outputs
  <2>2. CASE holding /\ raws' = raws /\ memory' = [memory EXCEPT ![t][n] = w]
      BY <1>3, <2>2 DEF Outputs
  <2> QED
      BY <1>1, <2>1, <2>2
<1>5. Taken(t)' = Taken(t) \cup {n}
    BY <1>write DEF Taken
<1>6. \A u \in Tasks : u # t => raws'[u] = raws[u] /\ memory'[u] = memory[u]
    BY <1>write
<1>7. n \notin Files(t)
    BY <1>2 DEF Taken, Files
<1>8. \A u \in Tasks : \A m \in Files(u) : raws'[u][m] = raws[u][m]
    BY <1>7, <1>write DEF Files
<1>9. Upto(Files(t), lastRun * MaxAttempts)' /\ \A m \in Files(t)' : memory'[t][m] = Nothing
  <2>1. CASE ~holding
    <3>1. memory' = memory /\ \A m \in Numbers : memory[t][m] = Nothing
        BY <1>4, <2>1, NoMemory
    <3>2. Files(t)' = Taken(t)'
        BY <3>1 DEF Taken, Files
    <3>3. Files(t)' = 1..n
        BY <1>2, <1>5, <3>2
    <3> QED
        BY <1>2, <3>1, <3>3 DEF Upto, Files
  <2>2. CASE holding
    <3>1. raws' = raws /\ memory' = [memory EXCEPT ![t][n] = w]
        BY <1>1, <2>2
    <3>2. Files(t)' = Files(t)
        BY <3>1 DEF Files
    <3>3. \A m \in Files(t) : memory'[t][m] = Nothing
        BY <1>3, <1>7, <3>1, WriteFacts DEF NumbersOf, Files
    <3> QED
        BY <3>2, <3>3 DEF NumbersOf, Upto
  <2> QED
      BY <2>1, <2>2
<1>10. Upto(Taken(t), lastRun * MaxAttempts)'
    BY <1>2, <1>5 DEF Upto
<1> QED
    BY <1>1, <1>2, <1>5, <1>6, <1>8, <1>9, <1>10

LEMMA StepFacts ==
    ASSUME TypeOK, NEW t \in Tasks, NEW new, Step(t, new)
    PROVE  task'[t] = new /\ (\A u \in Tasks : u # t => task'[u] = task[u])
           /\ UNCHANGED <<now, inputs, before, lastRun, staging, holding, torn, main, abort>>
    BY DEF Step, TypeOK

LEMMA SaveNumbers ==
    ASSUME TypeOK, Remembered, NEW t \in Tasks, NumbersOf(t), Accepted(t) \/ Rejected(t) \/ Malformed(t)
    PROVE  /\ NumbersOf(t)'
           /\ \A u \in Tasks : u # t => raws'[u] = raws[u] /\ memory'[u] = memory[u]
           /\ \A u \in Tasks : \A n \in Files(u) : raws'[u][n] = raws[u][n]
<1>1. PICK w : w = task[t].answer
    OBVIOUS
<1>2. /\ task[t].at = "save" /\ w # Nothing
      /\ raws' = IF holding THEN raws ELSE [raws EXCEPT ![t][Number(t)] = w]
      /\ memory' = IF holding THEN [memory EXCEPT ![t][Number(t)] = w] ELSE memory
    BY <1>1 DEF Accepted, Rejected, Malformed, Save, At, TypeOK, Nothing, Unusable
<1>3. \/ ~holding /\ memory' = memory /\ raws' = [raws EXCEPT ![t][Number(t)] = w]
      \/ holding /\ raws' = raws /\ memory' = [memory EXCEPT ![t][Number(t)] = w]
    BY <1>2 DEF TypeOK
<1>4. PICK new : /\ Step(t, new)
                 /\ (new = NextAttempt(t) /\ AttemptLeft(t)) \/ new.at \in {"done", "failed"}
  <2>1. Ended("done").at = "done" /\ Ended("failed").at = "failed"
      BY EndedFacts, LabelFacts
  <2> QED
      BY <2>1 DEF Accepted, Rejected, Malformed
<1>5. lastRun' = lastRun /\ task'[t] = new
    BY <1>4, StepFacts
<1>6. /\ Taken(t)' = 1..Number(t) /\ Number(t) \in Nat
      /\ Upto(Taken(t), lastRun * MaxAttempts)' /\ Upto(Files(t), lastRun * MaxAttempts)'
      /\ \A n \in Files(t)' : memory'[t][n] = Nothing
      /\ \A u \in Tasks : u # t => raws'[u] = raws[u] /\ memory'[u] = memory[u]
      /\ \A u \in Tasks : \A n \in Files(u) : raws'[u][n] = raws[u][n]
    BY <1>2, <1>3, <1>5, Written DEF Calling
<1>7. CASE new = NextAttempt(t) /\ AttemptLeft(t)
  <2>1. /\ task'[t].at = "call" /\ task'[t].attempt = task[t].attempt + 1
        /\ task'[t].offset = task[t].offset
      BY <1>5, <1>7, NextRecord
  <2>2. task'[t].offset + task'[t].attempt - 1 = Number(t)
      BY <2>1, RecordFacts DEF Number
  <2>3. task[t].offset <= (lastRun - 1) * MaxAttempts
      BY <1>2 DEF NumbersOf, Calling
  <2> QED
      BY <1>5, <1>6, <2>1, <2>2, <2>3 DEF NumbersOf
<1>8. CASE new.at \in {"done", "failed"}
    BY <1>5, <1>6, <1>8 DEF NumbersOf, Calling
<1> QED
    BY <1>4, <1>6, <1>7, <1>8

\* What the directory holds stays as it is.
FilesKept == \A u \in Tasks : \A n \in Files(u) : raws'[u][n] = raws[u][n]

LEMMA SaveFailsNumbers ==
    ASSUME TypeOK, Remembered, NEW t \in Tasks, NumbersOf(t), SaveFails(t)
    PROVE  /\ NumbersOf(t)' /\ FilesKept
           /\ \A u \in Tasks : u # t => raws'[u] = raws[u] /\ memory'[u] = memory[u]
<1>1. /\ task[t].at = "save" /\ ~holding /\ memory' = memory /\ Step(t, Ended("failed"))
      /\ raws' = raws \/ raws' = [raws EXCEPT ![t][Number(t)] = Unusable]
    BY DEF SaveFails, Cut, At
<1>2. lastRun' = lastRun /\ task'[t].at = "failed"
    BY <1>1, StepFacts, EndedFacts, LabelFacts
<1>3. CASE raws' = raws
    BY <1>1, <1>2, <1>3, NumbersSame, RunningFacts DEF FilesKept, Calling
<1>4. CASE raws' = [raws EXCEPT ![t][Number(t)] = Unusable]
  <2>1. /\ Upto(Taken(t), lastRun * MaxAttempts)' /\ Upto(Files(t), lastRun * MaxAttempts)'
        /\ \A n \in Files(t)' : memory'[t][n] = Nothing
        /\ \A u \in Tasks : u # t => raws'[u] = raws[u] /\ memory'[u] = memory[u]
        /\ FilesKept
    <3>1. Unusable # Nothing /\ task[t].at \in Calling
        BY <1>1 DEF Unusable, Nothing, Calling
    <3> QED
        BY <1>1, <1>2, <1>4, <3>1, Written DEF FilesKept
  <2> QED
      BY <1>2, <2>1 DEF NumbersOf, Calling
<1> QED
    BY <1>1, <1>3, <1>4

LEMMA StartNumbers ==
    ASSUME TypeOK, Remembered, NEW t \in Tasks, NumbersOf(t), Start(t)
    PROVE  NumbersOf(t)'
<1>1. /\ Working /\ task[t].at = "queued" /\ UNCHANGED <<raws, memory>>
      /\ \/ Step(t, Ended("done")) \/ Step(t, Ended("failed"))
         \/ Step(t, Started(t, Cardinality(Files(t))))
    BY StartCases
<1>2. lastRun' = lastRun
    BY <1>1, StepFacts
<1>3. CASE Step(t, Ended("done")) \/ Step(t, Ended("failed"))
  <2>1. task'[t].at \in {"done", "failed"}
      BY <1>3, StepFacts, EndedFacts, LabelFacts
  <2> QED
      BY <1>1, <1>2, <2>1, NumbersSame DEF Calling
<1>4. CASE Step(t, Started(t, Cardinality(Files(t))))
  <2>1. PICK k \in Nat : Files(t) = 1..k /\ k <= (lastRun - 1) * MaxAttempts
      BY <1>1 DEF NumbersOf, Upto
  <2>2. Cardinality(Files(t)) = k
      BY <2>1, CountFacts
  <2>3. task'[t].at = "call" /\ task'[t].attempt = 1 /\ task'[t].offset = k
    <3>1. task'[t] = Started(t, k)
        BY <1>4, <2>2, StepFacts
    <3>2. task'[t].at = "call" /\ task'[t].attempt = task[t].attempt /\ task'[t].offset = k
        BY <3>1, StartRecord
    <3>3. task[t].attempt = 1
        BY <1>1 DEF Remembered
    <3> QED
        BY <3>2, <3>3
  <2>4. Taken(t) = 1..(task'[t].offset + task'[t].attempt - 1)
      BY <1>1, <2>1, <2>3 DEF NumbersOf
  <2>5. Taken(t)' = Taken(t) /\ Files(t)' = Files(t)
      BY <1>1 DEF Taken, Files
  <2> QED
      BY <1>1, <1>2, <2>1, <2>3, <2>4, <2>5 DEF NumbersOf, Upto
<1> QED
    BY <1>1, <1>3, <1>4

LEMMA TaskNumbers ==
    ASSUME TypeOK, Remembered, Numbered, NEW t \in Tasks, TaskStep(t)
    PROVE  Numbered' /\ FilesKept
<1>1. NumbersOf(t)' /\ FilesKept /\ \A u \in Tasks : u # t => raws'[u] = raws[u] /\ memory'[u] = memory[u]
  <2>1. NumbersOf(t)
      BY DEF Numbered
  <2>2. CASE Start(t)
      BY <2>1, <2>2, StartNumbers, StartCases DEF FilesKept
  <2>3. CASE Accepted(t) \/ Rejected(t) \/ Malformed(t)
      BY <2>1, <2>3, SaveNumbers DEF FilesKept
  <2>4. CASE SaveFails(t)
      BY <2>1, <2>4, SaveFailsNumbers
  <2>5. CASE AgentRefused(t) \/ Call(t) \/ Transient(t) \/ WakeUp(t)
             \/ \E answer \in {inputs, Unusable} : Answer(t, answer)
    <3>1. UNCHANGED <<raws, memory>> /\ task[t].at \in Calling
        BY <2>5, CallCases, TransientCases, WakeUpCases, AnswerCases DEF AgentRefused, At, Calling
    <3>2. task'[t].at \in {"failed"} \/ (task'[t].offset = task[t].offset /\ task'[t].attempt = task[t].attempt
                                          /\ task'[t].at \in Calling)
      <4>1. CASE AgentRefused(t)
          BY <4>1, StepFacts, EndedFacts, LabelFacts DEF AgentRefused
      <4>2. CASE Call(t)
        <5>1. task'[t] = Ended("failed") \/ task'[t] = Called(t)
            BY <4>2, CallCases, StepFacts
        <5>2. CASE task'[t] = Called(t)
            BY <5>2, CallRecord DEF Calling
        <5> QED
            BY <5>1, <5>2, EndedFacts, LabelFacts
      <4>3. CASE Transient(t)
        <5>1. task'[t] = Ended("failed") \/ task'[t] = Asleep(t)
            BY <4>3, TransientCases, StepFacts
        <5>2. CASE task'[t] = Asleep(t)
            BY <5>2, SleepRecord DEF Calling
        <5> QED
            BY <5>1, <5>2, EndedFacts, LabelFacts
      <4>4. CASE WakeUp(t)
        <5>1. task'[t] = Ended("failed") \/ task'[t] = Retried(t)
            BY <4>4, WakeUpCases, StepFacts
        <5>2. CASE task'[t] = Retried(t)
            BY <5>2, RetryRecord DEF Calling
        <5> QED
            BY <5>1, <5>2, EndedFacts, LabelFacts
      <4>5. ASSUME NEW answer \in {inputs, Unusable}, Answer(t, answer)
            PROVE  task'[t].offset = task[t].offset /\ task'[t].attempt = task[t].attempt
                   /\ task'[t].at \in Calling
        <5>1. answer \in Int
            BY DEF TypeOK, Unusable
        <5> QED
            BY <4>5, <5>1, AnswerCases, StepFacts, AnswerRecord DEF Calling
      <4> QED
          BY <2>5, <4>1, <4>2, <4>3, <4>4, <4>5
    <3>3. lastRun' = lastRun /\ main' = main
        BY TaskFacts
    <3> QED
        BY <2>1, <3>1, <3>2, <3>3, NumbersSame DEF FilesKept, Calling, Working
  <2> QED
      BY <2>2, <2>3, <2>4, <2>5 DEF TaskStep
<1>2. ASSUME NEW u \in Tasks, u # t
      PROVE  NumbersOf(u)'
  <2>1. task'[u] = task[u] /\ lastRun' = lastRun /\ main' = main
      BY <1>2, TaskFacts
  <2> QED
      BY <1>1, <1>2, <2>1, NumbersSame DEF Numbered, Working
<1> QED
    BY <1>1, <1>2 DEF Numbered

\* A file more: the next number.
LEMMA OneMore ==
    ASSUME TypeOK, Numbered, lastRun' = lastRun, NEW t \in Tasks, NEW n \in Numbers,
           NEW k \in Nat, Files(t) = 1..k, n = k + 1, n <= lastRun * MaxAttempts,
           NEW w, w # Nothing, raws' = [raws EXCEPT ![t][n] = w]
    PROVE  FilesKept /\ \A u \in Tasks : Upto(Files(u), lastRun * MaxAttempts)'
<1>1. raws \in Outputs
    BY DEF TypeOK
<1>2. /\ raws'[t][n] = w
      /\ \A u \in Tasks, m \in Numbers : u # t \/ m # n => raws'[u][m] = raws[u][m]
    BY <1>1 DEF Outputs
<1>3. n \notin Files(t) /\ Files(t)' = Files(t) \cup {n}
    BY <1>2 DEF Files
<1>4. Files(t)' = 1..n /\ n \in Nat
    BY <1>3
<1>5. \A u \in Tasks : u # t => Files(u)' = Files(u)
    BY <1>2 DEF Files
<1>6. FilesKept
    BY <1>2, <1>3 DEF FilesKept, Files
<1>7. ASSUME NEW u \in Tasks
      PROVE  Upto(Files(u), lastRun * MaxAttempts)'
  <2>1. CASE u = t
      BY <1>4, <2>1 DEF Upto
  <2>2. CASE u # t
      BY <1>5, <2>2 DEF Numbered, NumbersOf, Upto
  <2> QED
      BY <2>1, <2>2
<1> QED
    BY <1>6, <1>7

LEMMA CloseNumbers ==
    ASSUME TypeOK, Remembered, Numbered, Closes
    PROVE  Numbered' /\ FilesKept
<1>1. lastRun' = lastRun /\ memory' = NoRaws /\ ~Working' /\ lastRun \in 1..MaxRuns
      /\ \A t \in Tasks : task'[t] = Queued
    BY ClosedFacts, LastRunFacts DEF Working
<1>2. FilesKept /\ \A u \in Tasks : Upto(Files(u), lastRun * MaxAttempts)'
  <2>1. CASE raws' = raws
      BY <1>1, <2>1 DEF FilesKept, Numbered, NumbersOf, Files, Upto
  <2>2. ASSUME NEW t \in Tasks, NEW n \in Numbers, main = "saving" /\ NextKept(t, n),
               raws' = [raws EXCEPT ![t][n] = Unusable]
        PROVE  FilesKept /\ \A u \in Tasks : Upto(Files(u), lastRun * MaxAttempts)'
    <3>1. PICK k \in Nat : Files(t) = 1..k /\ n = k + 1 /\ n <= lastRun * MaxAttempts
        BY <1>1, <2>2, NextIsFree DEF Numbered
    <3>2. Unusable # Nothing
        BY DEF Unusable, Nothing
    <3> QED
        BY <1>1, <2>2, <3>1, <3>2, OneMore
  <2>3. ASSUME NEW t \in Tasks, task[t].at = "save" /\ ~holding,
               raws' = [raws EXCEPT ![t][Number(t)] = Unusable]
        PROVE  FilesKept /\ \A u \in Tasks : Upto(Files(u), lastRun * MaxAttempts)'
    <3>1. PICK n \in Numbers : n = Number(t) /\ n \in Nat /\ n <= lastRun * MaxAttempts
                               /\ Taken(t) = 1..(n - 1)
        BY <2>3, NumberFree DEF Numbered, Calling
    <3>2. main # "saving"
        BY <2>3, RunningFacts DEF Calling
    <3>3. Files(t) = 1..(n - 1)
        BY <2>3, <3>1, <3>2, NoMemory
    <3>4. n - 1 \in Nat /\ n = (n - 1) + 1
        BY <1>1, <3>1, Budget DEF Numbers
    <3>5. Unusable # Nothing /\ raws' = [raws EXCEPT ![t][n] = Unusable]
        BY <2>3, <3>1 DEF Unusable, Nothing
    <3> QED
        BY <1>1, <3>1, <3>3, <3>4, <3>5, OneMore
  <2> QED
      BY <2>1, <2>2, <2>3, CloseFacts
<1>3. \A u \in Tasks : Taken(u)' = Files(u)' /\ \A n \in Numbers : memory'[u][n] = Nothing
    BY <1>1, Constants DEF Taken, Files
<1>4. \A u \in Tasks : task'[u].at \notin Calling
    BY <1>1, QueuedFacts DEF Calling
<1> QED
    BY <1>1, <1>2, <1>3, <1>4 DEF Numbered, NumbersOf, Files

LEMMA SaveKeptNumbers ==
    ASSUME TypeOK, Remembered, Numbered, NEW t \in Tasks, NEW n \in Numbers, SaveKept(t, n)
    PROVE  Numbered' /\ FilesKept
<1>1. /\ main = "saving" /\ main' = "saving" /\ lastRun' = lastRun /\ task' = task /\ lastRun \in 1..MaxRuns
      /\ NextKept(t, n) /\ raws'[t][n] = memory[t][n] /\ memory'[t][n] = Nothing
      /\ \A u \in Tasks, m \in Numbers :
            u # t \/ m # n => raws'[u][m] = raws[u][m] /\ memory'[u][m] = memory[u][m]
    BY SaveKeptFacts, LastRunFacts
<1>2. PICK k \in Nat : /\ Files(t) = 1..k /\ n = k + 1 /\ n <= lastRun * MaxAttempts
                       /\ n \in Taken(t) /\ n \notin Files(t)
    BY <1>1, NextIsFree DEF Numbered
<1>3. memory[t][n] # Nothing
    BY <1>1 DEF NextKept, Kept
<1>4. Files(t)' = Files(t) \cup {n} /\ \A u \in Tasks : u # t => Files(u)' = Files(u)
    BY <1>1, <1>3 DEF Files
<1>5. Taken(t)' = Taken(t) /\ \A u \in Tasks : u # t => Taken(u)' = Taken(u)
  <2>1. \A m \in Numbers : m # n => (m \in Taken(t)' <=> m \in Taken(t))
      BY <1>1 DEF Taken
  <2>2. n \in Taken(t)'
      BY <1>1, <1>3 DEF Taken
  <2>3. Taken(t)' \subseteq Numbers /\ Taken(t) \subseteq Numbers
      BY DEF Taken
  <2>4. Taken(t)' = Taken(t)
    <3> DEFINE new == Taken(t)'
               old == Taken(t)
    <3>1. \A m : m \in new <=> m \in old
        BY <1>2, <2>1, <2>2, <2>3
    <3> HIDE DEF new, old
    <3>2. new = old
        BY <3>1
    <3> QED
        BY <3>2 DEF new, old
  <2>5. ASSUME NEW u \in Tasks, u # t
        PROVE  Taken(u)' = Taken(u)
      BY <1>1, <2>5 DEF Taken
  <2> QED
      BY <2>4, <2>5
<1>6. Files(t)' = 1..n /\ n \in Nat
    BY <1>2, <1>4
<1>7. FilesKept
    BY <1>1, <1>2 DEF FilesKept, Files
<1>8. \A u \in Tasks : task'[u].at \notin Calling
    BY <1>1 DEF Remembered, Calling
<1>9. ~Working'
    BY <1>1 DEF Working
<1>10. ASSUME NEW u \in Tasks
       PROVE  NumbersOf(u)'
  <2>1. CASE u = t
    <3>1. Upto(Taken(t), lastRun * MaxAttempts)' /\ Upto(Files(t), lastRun * MaxAttempts)'
        BY <1>1, <1>2, <1>5, <1>6 DEF Upto, Numbered, NumbersOf
    <3>2. ASSUME NEW m \in Files(t)'
          PROVE  memory'[t][m] = Nothing
      <4>1. m = n \/ (m \in Files(t) /\ m \in Numbers /\ m # n)
          BY <1>2, <1>4, <3>2 DEF Files
      <4>2. \A i \in Files(t) : memory[t][i] = Nothing
          BY DEF Numbered, NumbersOf
      <4>3. CASE m # n
        <5>1. memory'[t][m] = memory[t][m]
            BY <1>1, <4>1, <4>3
        <5> QED
            BY <4>1, <4>2, <4>3, <5>1
      <4> QED
          BY <1>1, <4>3
    <3> QED
        BY <1>8, <1>9, <2>1, <3>1, <3>2 DEF NumbersOf
  <2>2. CASE u # t
    <3>1. ASSUME NEW m \in Files(u)'
          PROVE  memory'[u][m] = Nothing
      <4>1. m \in Files(u) /\ m \in Numbers
          BY <1>4, <2>2, <3>1 DEF Files
      <4>2. memory[u][m] = Nothing
          BY <4>1 DEF Numbered, NumbersOf
      <4>3. memory'[u][m] = memory[u][m]
          BY <1>1, <2>2, <4>1
      <4> QED
          BY <4>2, <4>3
    <3>2. Upto(Taken(u), lastRun * MaxAttempts)' /\ Upto(Files(u), lastRun * MaxAttempts)'
        BY <1>1, <1>4, <1>5, <2>2 DEF Upto, Numbered, NumbersOf
    <3> QED
        BY <1>8, <1>9, <3>1, <3>2 DEF NumbersOf
  <2> QED
      BY <2>1, <2>2
<1> QED
    BY <1>7, <1>10 DEF Numbered

LEMMA BeginNumbers ==
    ASSUME TypeOK, Remembered, Numbered,
           NEW s \in BOOLEAN, NEW version \in {inputs, inputs + 1}, Begin(s, version)
    PROVE  Numbered' /\ FilesKept
<1>1. /\ main \in {"idle", "failed", "done"} /\ lastRun' = lastRun + 1 /\ lastRun \in Nat
      /\ raws' = raws /\ memory' = NoRaws /\ \A t \in Tasks : task'[t] = Queued
    BY BeginFacts
<1>2. lastRun' \in 1..MaxRuns
    BY <1>1, BeginType DEF TypeOK
<1>3. FilesKept
    BY <1>1 DEF FilesKept
<1>4. ASSUME NEW u \in Tasks
      PROVE  NumbersOf(u)'
  <2>1. Files(u)' = Files(u) /\ Taken(u)' = Files(u) /\ \A n \in Numbers : memory'[u][n] = Nothing
      BY <1>1, Constants DEF Files, Taken
  <2>2. Upto(Files(u), lastRun * MaxAttempts)
      BY DEF Numbered, NumbersOf
  <2>3. lastRun' - 1 = lastRun
      BY <1>1
  <2>4. PICK a, b : a = lastRun * MaxAttempts /\ b = lastRun' * MaxAttempts
      OBVIOUS
  <2>5. a \in Int /\ b \in Int /\ a <= b
      BY <1>2, <2>3, <2>4, Budget, Constants
  <2>6. Upto(Files(u), b)
      BY <2>2, <2>4, <2>5, UptoFacts
  <2>7. task'[u].at \notin Calling
      BY <1>1, QueuedFacts DEF Calling
  <2>8. Upto(Files(u), lastRun * MaxAttempts)' /\ Upto(Taken(u), lastRun * MaxAttempts)'
      BY <2>1, <2>4, <2>6 DEF Upto
  <2>9. Upto(Files(u), (lastRun - 1) * MaxAttempts)'
      BY <2>1, <2>2, <2>3 DEF Upto
  <2> QED
      BY <2>1, <2>7, <2>8, <2>9 DEF NumbersOf, Files
<1> QED
    BY <1>3, <1>4 DEF Numbered

LEMMA WaitsNumbers ==
    ASSUME TypeOK, WaitOver, Numbered, Waits
    PROVE  Numbered' /\ FilesKept
<1>1. UNCHANGED <<raws, memory, lastRun>>
    BY WaitsFacts
<1>2. ASSUME NEW u \in Tasks
      PROVE  NumbersOf(u)'
  <2>1. Working' => Working
      BY WaitsFacts DEF Working
  <2>2. task'[u] = task[u] \/ task'[u].at = "cancelled"
      BY WaitsFacts
  <2> QED
      BY <1>1, <2>1, <2>2, NumbersSame DEF Numbered, Calling
<1> QED
    BY <1>1, <1>2 DEF Numbered, FilesKept

LEMMA NextNumbered ==
    ASSUME TypeOK, Remembered, WaitOver, Numbered, [Next]_vars
    PROVE  Numbered' /\ FilesKept
<1>1. CASE UNCHANGED vars
    BY <1>1 DEF Numbered, NumbersOf, Upto, Taken, Files, FilesKept, Working, vars, disk, staged
<1> QED
    BY <1>1, NextCases, BeginNumbers, WaitsNumbers, CloseNumbers, SaveKeptNumbers, TaskNumbers

-----------------------------------------------------------------------------
(* Answered.                                                               *)

MemoryKept == \A u \in Tasks, n \in Numbers : memory[u][n] # Nothing => memory'[u][n] = memory[u][n]

LEMMA AnswerStays ==
    ASSUME TypeOK, FilesKept, MemoryKept, inputs' = inputs, NEW t \in Tasks, HasAnswer(t)
    PROVE  HasAnswer(t)'
<1>1. PICK n \in Numbers : raws[t][n] = inputs \/ memory[t][n] = inputs
    BY DEF HasAnswer
<1>2. inputs # Nothing
    BY DEF TypeOK, Nothing
<1>3. raws'[t][n] = inputs \/ memory'[t][n] = inputs
  <2>1. CASE raws[t][n] = inputs
    <3>1. n \in Files(t)
        BY <1>2, <2>1 DEF Files
    <3> QED
        BY <2>1, <3>1 DEF FilesKept
  <2>2. CASE memory[t][n] = inputs
      BY <1>2, <2>2 DEF MemoryKept
  <2> QED
      BY <1>1, <2>1, <2>2
<1> QED
    BY <1>3 DEF HasAnswer

LEMMA TaskMemory ==
    ASSUME TypeOK, Remembered, Numbered, NEW t \in Tasks, TaskStep(t)
    PROVE  MemoryKept
<1>1. CASE memory' = memory
    BY <1>1 DEF MemoryKept
<1>2. CASE memory' # memory
  <2>1. Save(t)
    <3>1. ~SaveFails(t) /\ ~AgentRefused(t)
        BY <1>2 DEF SaveFails, AgentRefused
    <3> QED
        BY <1>2, <3>1, StartCases, CallCases, AnswerCases, TransientCases, WakeUpCases
        DEF TaskStep, Accepted, Rejected, Malformed
  <2>2. task[t].at \in Calling /\ memory' = [memory EXCEPT ![t][Number(t)] = task[t].answer]
      BY <1>2, <2>1 DEF Save, At, Calling
  <2>3. PICK n \in Numbers : n = Number(t) /\ n \notin Taken(t)
      BY <2>2, NumberFree DEF Numbered
  <2>4. memory[t][n] = Nothing
      BY <2>3 DEF Taken
  <2> QED
      BY <2>2, <2>3, <2>4 DEF MemoryKept, TypeOK, Outputs
<1> QED
    BY <1>1, <1>2

LEMMA DoneCases ==
    ASSUME TypeOK, NEW t \in Tasks, TaskStep(t), task'[t].at = "done"
    PROVE  (raws' = raws /\ Reusable(t)) \/ Accepted(t)
<1> DEFINE failed == Ended("failed")
<1>1. failed.at = "failed"
    BY EndedFacts, LabelFacts
<1>2. \A x : Step(t, x) => task'[t] = x
    BY StepFacts
<1> HIDE DEF failed
<1>3. CASE Start(t)
  <2>1. ~Step(t, failed)
      BY <1>1, <1>2
  <2>2. ~Step(t, Started(t, Cardinality(Files(t))))
    <3>1. Started(t, Cardinality(Files(t))).at = "call"
        BY FilesFinite, StartRecord
    <3> QED
        BY <1>2, <3>1
  <2> QED
      BY <1>3, <2>1, <2>2, StartCases DEF failed
<1>4. CASE Call(t)
  <2>1. Called(t).at = "agent"
      BY CallRecord
  <2>2. task'[t] = failed \/ task'[t] = Called(t)
      BY <1>2, <1>4, CallCases DEF failed
  <2> QED
      BY <1>1, <2>1, <2>2
<1>5. ASSUME NEW answer \in {inputs, Unusable}, Answer(t, answer)
      PROVE  FALSE
  <2>1. Told(t, answer).at = "save"
      BY AnswerRecord DEF TypeOK, Unusable
  <2>2. task'[t] = Told(t, answer)
      BY <1>2, <1>5, AnswerCases
  <2> QED
      BY <2>1, <2>2
<1>6. CASE Transient(t)
  <2>1. Asleep(t).at = "sleep"
      BY SleepRecord
  <2>2. task'[t] = failed \/ task'[t] = Asleep(t)
      BY <1>2, <1>6, TransientCases DEF failed
  <2> QED
      BY <1>1, <2>1, <2>2
<1>7. CASE WakeUp(t)
  <2>1. Retried(t).at = "call"
      BY RetryRecord
  <2>2. task'[t] = failed \/ task'[t] = Retried(t)
      BY <1>2, <1>7, WakeUpCases DEF failed
  <2> QED
      BY <1>1, <2>1, <2>2
<1>8. CASE Rejected(t)
  <2>1. (AttemptLeft(t) /\ task'[t] = NextAttempt(t)) \/ task'[t] = failed
      BY <1>2, <1>8 DEF Rejected, failed
  <2>2. AttemptLeft(t) => NextAttempt(t).at = "call"
      BY NextRecord
  <2> QED
      BY <1>1, <2>1, <2>2
<1>9. CASE AgentRefused(t) \/ Malformed(t) \/ SaveFails(t)
  <2>1. task'[t] = failed
      BY <1>2, <1>9 DEF AgentRefused, Malformed, SaveFails, failed
  <2> QED
      BY <1>1, <2>1
<1> QED
    BY <1>3, <1>4, <1>5, <1>6, <1>7, <1>8, <1>9 DEF TaskStep

LEMMA TaskAnswered ==
    ASSUME TypeOK, Remembered, Numbered, FilesKept, NEW t \in Tasks, TaskStep(t), task'[t].at = "done"
    PROVE  HasAnswer(t)'
<1>1. inputs' = inputs
    BY TaskFacts
<1>2. CASE raws' = raws /\ Reusable(t)
    BY <1>1, <1>2 DEF Reusable, Files, HasAnswer
<1>3. CASE Accepted(t)
  <2>1. task[t].at \in Calling /\ task[t].answer = inputs
        /\ raws' = (IF holding THEN raws ELSE [raws EXCEPT ![t][Number(t)] = task[t].answer])
        /\ memory' = (IF holding THEN [memory EXCEPT ![t][Number(t)] = task[t].answer] ELSE memory)
      BY <1>3 DEF Accepted, Save, At, Calling
  <2>2. PICK n \in Numbers : n = Number(t)
      BY <2>1, NumberFree DEF Numbered
  <2>3. raws'[t][n] = inputs \/ memory'[t][n] = inputs
      BY <2>1, <2>2 DEF TypeOK, Outputs
  <2> QED
      BY <1>1, <2>3 DEF HasAnswer
<1> QED
    BY <1>2, <1>3, DoneCases

LEMMA NextAnswered ==
    ASSUME TypeOK, Remembered, WaitOver, Numbered, Answered, FilesKept, [Next]_vars
    PROVE  Answered'
<1> SUFFICES ASSUME NEW u \in Tasks, (task[u].at = "done" \/ main = "done")'
             PROVE  HasAnswer(u)'
    BY DEF Answered
<1>1. task[u].at = "done" \/ main = "done" => HasAnswer(u)
    BY DEF Answered
<1>2. ASSUME NEW s \in BOOLEAN, NEW version \in {inputs, inputs + 1}, Begin(s, version)
      PROVE  FALSE
    BY <1>2, BeginFacts, QueuedFacts
<1>3. CASE Closes
  <2>1. main' = "done"
      BY <1>3, ClosedFacts, QueuedFacts
  <2>2. (CloseDone \/ AllSaved) /\ raws' = raws
      BY <1>3, <2>1 DEF Closes, CloseFailed, CloseDone, AllSaved, Crash, SaveKeptFails, End
  <2>3. task[u].at = "done" /\ memory = NoRaws
      BY <2>2 DEF CloseDone, AllSaved, Closing, At, WaitOver, Remembered
  <2>4. inputs' = inputs /\ inputs # Nothing
      BY <1>3, ClosedFacts DEF TypeOK, Nothing
  <2> QED
      BY <1>1, <2>2, <2>3, <2>4, Constants DEF HasAnswer
<1>4. CASE Waits
  <2>1. inputs' = inputs /\ MemoryKept
      BY <1>4, WaitsFacts DEF MemoryKept
  <2>2. task[u].at = "done" \/ main = "done"
      BY <1>4, WaitsFacts
  <2> QED
      BY <1>1, <2>1, <2>2, AnswerStays
<1>5. ASSUME NEW t \in Tasks, NEW n \in Numbers, SaveKept(t, n)
      PROVE  HasAnswer(u)'
  <2>1. /\ inputs' = inputs /\ task' = task /\ main' = main /\ raws'[t][n] = memory[t][n]
        /\ \A v \in Tasks, i \in Numbers : v # t \/ i # n => memory'[v][i] = memory[v][i]
      BY <1>5, SaveKeptFacts
  <2>2. PICK m \in Numbers : raws[u][m] = inputs \/ memory[u][m] = inputs
      BY <1>1, <2>1 DEF HasAnswer
  <2>3. inputs # Nothing
      BY DEF TypeOK, Nothing
  <2>4. raws'[u][m] = inputs \/ memory'[u][m] = inputs
    <3>1. CASE raws[u][m] = inputs
        BY <2>3, <3>1 DEF FilesKept, Files
    <3>2. CASE memory[u][m] = inputs
      <4>1. CASE u = t /\ m = n
          BY <2>1, <3>2, <4>1
      <4>2. CASE ~(u = t /\ m = n)
        <5>1. memory'[u][m] = memory[u][m]
            BY <2>1, <4>2
        <5> QED
            BY <3>2, <5>1
      <4> QED
          BY <4>1, <4>2
    <3> QED
        BY <2>2, <3>1, <3>2
  <2> QED
      BY <2>1, <2>4 DEF HasAnswer
<1>6. ASSUME NEW t \in Tasks, TaskStep(t)
      PROVE  HasAnswer(u)'
  <2>1. inputs' = inputs /\ main' = main /\ MemoryKept
      BY <1>6, TaskFacts, TaskMemory
  <2>2. CASE u = t /\ task'[t].at = "done"
      BY <1>6, <2>2, TaskAnswered
  <2>3. CASE ~(u = t /\ task'[t].at = "done")
    <3>1. task[u].at = "done" \/ main = "done"
        BY <1>6, <2>1, <2>3, TaskFacts
    <3> QED
        BY <1>1, <2>1, <3>1, AnswerStays
  <2> QED
      BY <2>2, <2>3
<1>7. CASE UNCHANGED vars
    BY <1>1, <1>7 DEF HasAnswer, vars, disk, staged
<1> QED
    BY <1>2, <1>3, <1>4, <1>5, <1>6, <1>7, NextCases

-----------------------------------------------------------------------------
(* InTime.                                                                 *)

LEMMA TaskTiming ==
    ASSUME TypeOK, Remembered, NEW t \in Tasks, TaskInTime(t), TaskStep(t)
    PROVE  TaskInTime(t)'
<1>1. now' = now
    BY TaskFacts
<1>2. \A x : Step(t, x) => task'[t] = x
    BY StepFacts
<1>3. ASSUME NEW label \in {"done", "failed"}, Step(t, Ended(label))
      PROVE  TaskInTime(t)'
  <2>1. task'[t].at = label
      BY <1>2, <1>3, EndedFacts, LabelFacts
  <2> QED
      BY <2>1 DEF TaskInTime
<1>4. CASE Start(t)
  <2>1. CASE Step(t, Started(t, Cardinality(Files(t))))
    <3>1. task[t].retry = 0
        BY <1>4, StartCases DEF Remembered
    <3>2. task'[t].at = "call" /\ task'[t].retry = 0
      <4>1. PICK k \in Nat : k = Cardinality(Files(t))
          BY FilesFinite
      <4>2. task'[t] = Started(t, k)
          BY <1>2, <2>1, <4>1
      <4>3. task'[t].at = "call" /\ task'[t].retry = task[t].retry
          BY <4>1, <4>2, StartRecord
      <4> QED
          BY <3>1, <4>3
    <3> QED
        BY <3>2 DEF TaskInTime
  <2> QED
      BY <1>3, <1>4, <2>1, StartCases
<1>5. CASE Call(t)
  <2>1. CASE Step(t, Called(t))
    <3>1. /\ task'[t].at = "agent" /\ task'[t].retry = task[t].retry
          /\ task'[t].since = now /\ task'[t].lasted = task[t].lasted
        BY <1>2, <2>1, CallRecord
    <3>2. task[t].at = "call"
        BY <1>5, CallCases
    <3> QED
        BY <3>1, <3>2 DEF TaskInTime
  <2> QED
      BY <1>3, <1>5, <2>1, CallCases
<1>6. ASSUME NEW answer \in {inputs, Unusable}, Answer(t, answer)
      PROVE  TaskInTime(t)'
  <2>1. task'[t].at = "save"
    <3>1. task'[t] = Told(t, answer)
        BY <1>2, <1>6, AnswerCases
    <3>2. answer \in Int
        BY DEF TypeOK, Unusable
    <3> QED
        BY <3>1, <3>2, AnswerRecord
  <2> QED
      BY <2>1 DEF TaskInTime
<1>7. CASE Transient(t)
  <2>1. CASE Step(t, Asleep(t)) /\ ~RetryBlocked(t)
    <3>1. /\ task'[t].at = "sleep" /\ task'[t].since = now + Delay
          /\ task'[t].lasted = now - task[t].since
        BY <1>2, <2>1, SleepRecord
    <3>2. now \in Nat /\ Delay \in Nat /\ Deadline \in Nat /\ task[t].since \in Int
        BY RecordFacts, Constants DEF TypeOK
    <3>3. now + Delay + (now - task[t].since) < Deadline
        BY <2>1, <3>2 DEF RetryBlocked
    <3> QED
        BY <1>1, <3>1, <3>2, <3>3 DEF TaskInTime
  <2> QED
      BY <1>3, <1>7, <2>1, TransientCases
<1>8. CASE WakeUp(t)
  <2>1. CASE Step(t, Retried(t)) /\ now >= task[t].since
    <3>1. task'[t].at = "call" /\ task'[t].lasted = task[t].lasted
        BY <1>2, <2>1, RetryRecord
    <3>2. task[t].at = "sleep" /\ now \in Nat /\ task[t].since \in Int
        BY <1>8, WakeUpCases, RecordFacts DEF TypeOK
    <3>3. now = task[t].since /\ task[t].since + task[t].lasted < Deadline
        BY <2>1, <3>2 DEF TaskInTime
    <3> QED
        BY <1>1, <3>1, <3>3 DEF TaskInTime
  <2> QED
      BY <1>3, <1>8, <2>1, WakeUpCases
<1>9. CASE Rejected(t)
  <2>1. CASE AttemptLeft(t) /\ Step(t, NextAttempt(t))
    <3>1. task'[t].at = "call" /\ task'[t].retry = 0
        BY <1>2, <2>1, NextRecord
    <3> QED
        BY <3>1 DEF TaskInTime
  <2> QED
      BY <1>3, <1>9, <2>1 DEF Rejected
<1>10. CASE AgentRefused(t) \/ Accepted(t) \/ Malformed(t) \/ SaveFails(t)
    BY <1>3, <1>10 DEF AgentRefused, Accepted, Malformed, SaveFails
<1> QED
    BY <1>4, <1>5, <1>6, <1>7, <1>8, <1>9, <1>10 DEF TaskStep

LEMMA NextInTime ==
    ASSUME TypeOK, Remembered, WaitOver, InTime, [Next]_vars
    PROVE  InTime'
<1> SUFFICES ASSUME NEW u \in Tasks
             PROVE  TaskInTime(u)'
    BY DEF InTime
<1>1. TaskInTime(u)
    BY DEF InTime
<1>2. CASE task'[u].at \in {"queued", "cancelled"}
    BY <1>2 DEF TaskInTime
<1>3. ASSUME NEW s \in BOOLEAN, NEW version \in {inputs, inputs + 1}, Begin(s, version)
      PROVE  TaskInTime(u)'
    BY <1>2, <1>3, BeginFacts, QueuedFacts
<1>4. CASE Closes
    BY <1>2, <1>4, ClosedFacts, QueuedFacts
<1>5. CASE Waits
  <2>1. CASE now' = now /\ task'[u] = task[u]
      BY <1>1, <2>1 DEF TaskInTime
  <2>2. CASE /\ now' = now + 1 /\ task' = task
             /\ \A t \in Tasks : task[t].at # "call" /\ (task[t].at = "sleep" => now < task[t].since)
    <3>1. now \in Nat /\ task[u].since \in Int
        BY RecordFacts DEF TypeOK
    <3> QED
        BY <1>1, <2>2, <3>1 DEF TaskInTime
  <2> QED
      BY <1>2, <1>5, <2>1, <2>2, WaitsFacts
<1>6. ASSUME NEW t \in Tasks, NEW n \in Numbers, SaveKept(t, n)
      PROVE  TaskInTime(u)'
    BY <1>1, <1>6, SaveKeptFacts DEF TaskInTime
<1>7. ASSUME NEW t \in Tasks, TaskStep(t)
      PROVE  TaskInTime(u)'
  <2>1. CASE u = t
      BY <1>1, <1>7, <2>1, TaskTiming
  <2>2. CASE u # t
    <3>1. now' = now /\ task'[u] = task[u]
        BY <1>7, <2>2, TaskFacts
    <3> QED
        BY <1>1, <3>1 DEF TaskInTime
  <2> QED
      BY <2>1, <2>2
<1>8. CASE UNCHANGED vars
    BY <1>1, <1>8 DEF TaskInTime, vars
<1> QED
    BY <1>3, <1>4, <1>5, <1>6, <1>7, <1>8, NextCases

-----------------------------------------------------------------------------
(* The stage.                                                              *)

LEMMA InitStage ==
    ASSUME Init
    PROVE  StageInv
<1>1. TypeOK
  <2>1. task \in [Tasks -> Records] /\ lastRun \in 0..MaxRuns
      BY Constants DEF Init
  <2>2. /\ now = 0 /\ inputs = 1 /\ main = "idle"
        /\ ~staging /\ ~holding /\ ~torn /\ ~abort
        /\ staging \in BOOLEAN /\ holding \in BOOLEAN /\ torn \in BOOLEAN /\ abort \in BOOLEAN
      BY DEF Init
  <2>3. raws \in Outputs /\ before \in Outputs /\ memory \in Outputs
      BY Constants DEF Init
  <2> QED
      BY <2>1, <2>2, <2>3 DEF TypeOK
<1>2. Remembered /\ WaitOver /\ Staged /\ AllOrNothing /\ Answered /\ InTime
    BY QueuedFacts DEF Init, Remembered, WaitOver, Staged, AllOrNothing, Answered, InTime, TaskInTime, Working
<1>3. ASSUME NEW t \in Tasks
      PROVE  NumbersOf(t)
  <2>1. Files(t) = 1..0 /\ Taken(t) = 1..0
      BY Constants DEF Init, Files, Taken
  <2>2. lastRun * MaxAttempts = 0
      BY Constants DEF Init
  <2>3. task[t].at \notin Calling /\ ~Working
      BY QueuedFacts DEF Init, Calling, Working
  <2>4. \A n \in Files(t) : memory[t][n] = Nothing
      BY Constants DEF Init, Files
  <2>5. Upto(1..0, 0)
      BY DEF Upto
  <2> QED
      BY <2>1, <2>2, <2>3, <2>4, <2>5 DEF NumbersOf
<1> QED
    BY <1>1, <1>2, <1>3 DEF StageInv, Numbered

LEMMA NextStage ==
    ASSUME StageInv, [Next]_vars
    PROVE  StageInv' /\ FilesKept
<1>1. TypeOK' /\ Remembered' /\ WaitOver' /\ Staged' /\ AllOrNothing'
    BY NextType, NextRemembered, NextStaged DEF StageInv
<1>2. Numbered' /\ FilesKept
    BY NextNumbered DEF StageInv
<1>3. Answered' /\ InTime'
    BY <1>2, NextAnswered, NextInTime DEF StageInv
<1> QED
    BY <1>1, <1>2, <1>3 DEF StageInv

\* The stage keeps its inductive invariant (run_research_team,
\* team_stages.py; _run_jobs and agent_step, pipeline_base.py).
THEOREM StageInvariant == Spec => []StageInv
<1>1. Init => StageInv
    BY InitStage
<1>2. StageInv /\ [Next]_vars => StageInv'
    BY NextStage
<1> QED
    BY <1>1, <1>2, PTL DEF Spec

\* While an agent that could read the directory works, no output of the other
\* side is in it (_staged_research_outputs, pipeline_base.py:246-249).
THEOREM SidesAreIsolated == Spec => []Isolation
<1>1. StageInv => Isolation
  <2> SUFFICES ASSUME StageInv, staging, NEW t \in At("agent"), NEW u \in Tasks
               PROVE  Files(u) = {}
      BY DEF Isolation
  <2>1. t \in Tasks /\ task[t].at = "agent" /\ task[t].at \in Calling
      BY DEF At, Calling
  <2>2. Working
      BY <2>1, RunningFacts DEF StageInv
  <2> QED
      BY <2>1, <2>2 DEF StageInv, Staged, TypeOK
<1> QED
    BY <1>1, StageInvariant, PTL

\* A staged stage that failed in a task left the directory as it was
\* (pipeline_base.py:247).
THEOREM FailedStageLeavesNothing == Spec => []AllOrNothing
<1>1. StageInv => AllOrNothing
    BY DEF StageInv
<1> QED
    BY <1>1, StageInvariant, PTL

\* What a stage that is done hands on is in the directory, for these inputs.
THEOREM DoneStageIsKept == Spec => []DoneIsKept
<1>1. StageInv => DoneIsKept
  <2> SUFFICES ASSUME StageInv, main = "done", NEW t \in Tasks
               PROVE  \E n \in Numbers : raws[t][n] = inputs
      BY DEF DoneIsKept
  <2>1. PICK n \in Numbers : raws[t][n] = inputs \/ memory[t][n] = inputs
      BY DEF StageInv, Answered, HasAnswer
  <2>2. memory = NoRaws /\ inputs # Nothing
      BY DEF StageInv, Remembered, Working, TypeOK, Nothing
  <2> QED
      BY <2>1, <2>2, Constants
<1> QED
    BY <1>1, StageInvariant, PTL

\* A retry that takes no longer than the call before is over in time
\* (_retry_blocker, pipeline_base.py:414-418).
THEOREM RetriesFit == Spec => []RetryFits
<1>1. StageInv => RetryFits
  <2> SUFFICES ASSUME StageInv, NEW t \in At("agent"), task[t].retry > 0,
                      now - task[t].since <= task[t].lasted
               PROVE  now < Deadline
      BY DEF RetryFits
  <2>1. t \in Tasks /\ task[t].at = "agent"
      BY DEF At
  <2>2. now \in Int /\ task[t].since \in Int /\ task[t].lasted \in Int /\ Deadline \in Int
      BY <2>1, RecordFacts, Constants DEF StageInv, TypeOK
  <2>3. task[t].since + task[t].lasted < Deadline
      BY <2>1 DEF StageInv, InTime, TaskInTime
  <2> QED
      BY <2>2, <2>3
<1> QED
    BY <1>1, StageInvariant, PTL

\* A raw output in the directory is never written over nor removed, however
\* many runs fail, are killed and resume (agent_step, pipeline_base.py:332-333).
THEOREM RawsStay == Spec => RawsKept
<1>1. StageInv /\ [Next]_vars => [\A t \in Tasks : \A n \in Files(t) : raws'[t][n] = raws[t][n]]_vars
    BY NextStage DEF FilesKept
<1> QED
    BY <1>1, StageInvariant, PTL DEF Spec, RawsKept
=============================================================================
