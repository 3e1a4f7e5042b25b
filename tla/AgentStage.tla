------------------------------ MODULE AgentStage ------------------------------
(***************************************************************************)
(* One stage of agent tasks in the decision chain                          *)
(* (src/src/etf_agent/automation/pipeline_base.py, as run_research_team of *)
(* team_stages.py uses it).                                                *)
(*                                                                         *)
(* The bull and the bear researchers each answer for every batch of        *)
(* symbols; the tasks run in a pool of threads.  A task calls an agent,    *)
(* keeps its raw output in the run directory, validates it, and calls      *)
(* again with the errors; a call that fails for a moment is tried again    *)
(* while the deadline allows.  The first task that fails ends the stage.   *)
(*                                                                         *)
(* The two sides must not read each other.  An executor that cannot forbid *)
(* reading is kept apart in time: raw outputs stay in memory until every   *)
(* task is done (staging).  A later run may resume in the same directory,  *)
(* with the other kind of executor, or with inputs that have changed.      *)
(***************************************************************************)
EXTENDS Integers, FiniteSetsExt

CONSTANTS
    Tasks,              \* 1..n, in the order they are submitted
    Role,               \* the side of each task
    NameRank,           \* where its name comes in the order of names
    Workers,            \* max_workers
    MaxAttempts,        \* answers a task may give until one is valid
    TransientRetries,   \* further calls after one that failed for a moment
    Delay,              \* retry_delay_seconds
    Deadline,           \* retry_deadline
    LastTime,           \* bound: the clock
    MaxRuns             \* bound: the runs in one directory

ASSUME StageAssumption ==
    /\ Tasks \subseteq Nat \ {0} /\ IsFiniteSet(Tasks)
    /\ \A t \in Tasks : NameRank[t] \in Nat
    /\ \A t, u \in Tasks : NameRank[t] = NameRank[u] => t = u
    /\ Workers \in Nat \ {0} /\ MaxAttempts \in Nat \ {0}
    /\ TransientRetries \in Nat /\ Delay \in Nat
    /\ Deadline \in Nat /\ LastTime \in Nat /\ Deadline <= LastTime
    /\ MaxRuns \in Nat

\* A raw output is the version of the inputs it is valid for, or unusable.
Nothing == 0
Unusable == -1
Numbers == 1..(MaxRuns * MaxAttempts)
NoRaws == [t \in Tasks |-> [n \in Numbers |-> Nothing]]

VARIABLES
    now,        \* the clock
    inputs,     \* the version of what the agents read
    raws,       \* <task>_raw_<number>.json in the run directory
    before,     \* what was there when the stage began
    lastRun,    \* how many runs there were
    staging,    \* the executor cannot forbid reading
    holding,    \* raw outputs are kept in memory (_staged_raw is a list)
    memory,     \* those that are
    torn,       \* writing them down failed half way
    main,       \* the thread that waits for the tasks
    task,       \* each task
    abort       \* the event that stops retries

disk == <<raws, before>>
staged == <<holding, memory, torn>>
vars == <<now, inputs, disk, lastRun, staging, staged, main, task, abort>>

\* Where a task is; since when it calls, or when it wakes; how long the call
\* before a retry took; the raw outputs before its own; its last answer.
Queued == [at |-> "queued", attempt |-> 1, retry |-> 0, since |-> 0, lasted |-> 0,
           offset |-> 0, answer |-> Nothing]

Init ==
    /\ now = 0 /\ inputs = 1
    /\ raws = NoRaws /\ before = NoRaws
    /\ lastRun = 0
    /\ staging = FALSE /\ holding = FALSE /\ memory = NoRaws /\ torn = FALSE
    /\ main = "idle"
    /\ task = [t \in Tasks |-> Queued]
    /\ abort = FALSE

At(label) == {t \in Tasks : task[t].at = label}
Active == At("call") \cup At("agent") \cup At("sleep") \cup At("save")

Files(t) == {n \in Numbers : raws[t][n] # Nothing}
Present == {t \in Tasks : Files(t) # {}}

-----------------------------------------------------------------------------
(* The stage.                                                              *)

\* Mutant: what is there already is left to the tasks.
RefusedNever(s) == FALSE

\* _staged_research_outputs: one side alone on the disk is refused.
Refused(s) == s /\ Present \notin {{}, Tasks}

\* A run of the stage, resuming whatever the directory holds.
Begin(s, version) ==
    /\ main \in {"idle", "failed", "done"} /\ lastRun < MaxRuns
    /\ lastRun' = lastRun + 1
    /\ inputs' = version
    /\ staging' = s
    /\ holding' = (s /\ ~Refused(s) /\ Present # Tasks)
    /\ main' = IF Refused(s) THEN "failed" ELSE "jobs"
    /\ memory' = NoRaws /\ torn' = FALSE
    /\ before' = raws
    /\ task' = [t \in Tasks |-> Queued]
    /\ abort' = FALSE
    /\ UNCHANGED <<now, raws>>

\* _run_jobs: the wait ends with the first failure or the last success.
Wake ==
    /\ main = "jobs"
    /\ At("failed") # {} \/ At("done") = Tasks
    /\ abort' = (At("failed") # {} /\ Workers > 1)
    /\ main' = "cancelling"
    /\ UNCHANGED <<now, inputs, disk, lastRun, staging, staged, task>>

\* A task that no thread has taken is cancelled, one after the other.
Cancel(t) ==
    /\ main = "cancelling"
    /\ t \in At("queued") /\ t = Min(At("queued"))
    /\ task' = [task EXCEPT ![t].at = "cancelled"]
    /\ UNCHANGED <<now, inputs, disk, lastRun, staging, staged, main, abort>>

\* The stage is over: nothing of the tasks is remembered.
End(label) ==
    /\ main' = label
    /\ holding' = FALSE /\ memory' = NoRaws
    /\ task' = [t \in Tasks |-> Queued]
    /\ abort' = FALSE
    /\ UNCHANGED <<now, inputs, before, lastRun, staging>>

Closing == main = "cancelling" /\ At("queued") \cup Active = {}

\* Mutant: what is in memory is written down however the stage ended.
CloseSaving ==
    /\ Closing
    /\ At("failed") # {}
    /\ raws' = [t \in Tasks |-> [n \in Numbers |->
                   IF memory[t][n] # Nothing THEN memory[t][n] ELSE raws[t][n]]]
    /\ End("failed")
    /\ UNCHANGED torn

\* The pool has ended.  After a failure the staged outputs are dropped.
CloseFailed ==
    /\ Closing
    /\ At("failed") # {}
    /\ End("failed")
    /\ UNCHANGED <<raws, torn>>

CloseDone ==
    /\ Closing
    /\ At("failed") = {} /\ ~holding
    /\ End("done")
    /\ UNCHANGED <<raws, torn>>

CloseStaged ==
    /\ Closing
    /\ At("failed") = {} /\ holding
    /\ main' = "saving"
    /\ holding' = FALSE
    /\ UNCHANGED <<now, inputs, disk, lastRun, staging, memory, torn, task, abort>>

\* The outputs are written down one by one, in the order of their names.
Kept(t, n) == memory[t][n] # Nothing

NextKept(t, n) ==
    /\ Kept(t, n)
    /\ \A u \in Tasks, m \in Numbers :
          Kept(u, m) => NameRank[t] < NameRank[u] \/ (t = u /\ n <= m)

SaveKept(t, n) ==
    /\ main = "saving" /\ NextKept(t, n)
    /\ raws' = [raws EXCEPT ![t][n] = memory[t][n]]
    /\ memory' = [memory EXCEPT ![t][n] = Nothing]
    /\ UNCHANGED <<now, inputs, before, lastRun, staging, holding, torn, main, task, abort>>

AllSaved ==
    /\ main = "saving" /\ memory = NoRaws
    /\ End("done")
    /\ UNCHANGED <<raws, torn>>

\* A file that is written when the disk is full, or the process dies, may be
\* there and be no JSON.
Cut(t, n) == raws' \in {raws, [raws EXCEPT ![t][n] = Unusable]}

SaveKeptFails(t, n) ==
    /\ main = "saving" /\ NextKept(t, n)
    /\ Cut(t, n)
    /\ End("failed")
    /\ torn' = TRUE

-----------------------------------------------------------------------------
(* A task (agent_step).                                                    *)

\* A thread goes on with task t, which is changed to new.
Step(t, new) ==
    /\ task' = [task EXCEPT ![t] = new]
    /\ UNCHANGED <<now, inputs, before, lastRun, staging, holding, torn, main, abort>>

Moved(t, label) == [task[t] EXCEPT !.at = label]

\* A task that has ended remembers nothing else.
Ended(label) == [Queued EXCEPT !.at = label]

\* Mutant: any old output is good enough.
AnyFile(t) == Files(t) # {}

\* An output that is there and still passes the validator is used again.
Reusable(t) == \E n \in Files(t) : raws[t][n] = inputs

\* A free thread takes the next task.  Under staging a task is not run again
\* when the other side's outputs are on the disk; one thread stops at once.
Start(t) ==
    /\ main \in {"jobs", "cancelling"}
    /\ t \in At("queued") /\ t = Min(At("queued"))
    /\ Cardinality(Active) < Workers
    /\ Workers = 1 => At("failed") = {}
    /\ Step(t, IF Reusable(t) THEN Ended("done")
               ELSE IF Files(t) # {} /\ staging /\ ~holding THEN Ended("failed")
               ELSE [Moved(t, "call") EXCEPT !.offset = Cardinality(Files(t))])
    /\ UNCHANGED <<raws, memory>>

\* An executor that cannot forbid reading only runs under staging.
Call(t) ==
    /\ t \in At("call")
    /\ Step(t, IF staging /\ ~holding THEN Ended("failed")
               ELSE [Moved(t, "agent") EXCEPT !.since = now])
    /\ UNCHANGED <<raws, memory>>

Answer(t, answer) ==
    /\ t \in At("agent")
    /\ answer \in {inputs, Unusable}
    /\ Step(t, [Moved(t, "save") EXCEPT !.answer = answer, !.since = 0, !.lasted = 0])
    /\ UNCHANGED <<raws, memory>>

\* A refusal for safety, or any other error, is not tried again.
AgentRefused(t) ==
    /\ t \in At("agent")
    /\ Step(t, Ended("failed"))
    /\ UNCHANGED <<raws, memory>>

\* Mutant: a retry is thought to take no time.
RetryBlockedByDelay(t) ==
    \/ task[t].retry >= TransientRetries
    \/ abort
    \/ now + Delay >= Deadline

\* _retry_blocker: the wait, and as long again as the call took, must be over
\* before the deadline.
RetryBlocked(t) ==
    \/ task[t].retry >= TransientRetries
    \/ abort
    \/ now + Delay + (now - task[t].since) >= Deadline

Transient(t) ==
    /\ t \in At("agent")
    /\ Step(t, IF RetryBlocked(t) THEN Ended("failed")
               ELSE [Moved(t, "sleep") EXCEPT !.since = now + Delay,
                                            !.lasted = now - task[t].since])
    /\ UNCHANGED <<raws, memory>>

\* The wait before a retry ends early when the stage is given up.
WakeUp(t) ==
    /\ t \in At("sleep")
    /\ abort \/ now >= task[t].since
    /\ Step(t, IF abort THEN Ended("failed")
               ELSE [Moved(t, "call") EXCEPT !.retry = @ + 1])
    /\ UNCHANGED <<raws, memory>>

\* Mutant: the numbers begin anew in every run.
NumberOfAttempt(t) == task[t].attempt

Number(t) == task[t].offset + task[t].attempt

AttemptLeft(t) == task[t].attempt < MaxAttempts

\* Mutant: the attempts are not counted.
AskAgain(t) == [Moved(t, "call") EXCEPT !.retry = 0, !.answer = Nothing]

NextAttempt(t) ==
    [Moved(t, "call") EXCEPT !.attempt = @ + 1, !.retry = 0, !.answer = Nothing]

\* _save_raw, and what becomes of the answer.
Save(t) ==
    LET keep(files) == [files EXCEPT ![t][Number(t)] = task[t].answer] IN
    /\ t \in At("save")
    /\ raws' = IF holding THEN raws ELSE keep(raws)
    /\ memory' = IF holding THEN keep(memory) ELSE memory

Accepted(t) ==
    /\ Save(t)
    /\ task[t].answer = inputs
    /\ Step(t, Ended("done"))

Rejected(t) ==
    /\ Save(t)
    /\ task[t].answer = Unusable
    /\ Step(t, IF AttemptLeft(t) THEN NextAttempt(t) ELSE Ended("failed"))

\* An answer that lacks a field raises where a rejected one is sent back.
Malformed(t) ==
    /\ Save(t)
    /\ task[t].answer = Unusable
    /\ Step(t, Ended("failed"))

SaveFails(t) ==
    /\ t \in At("save") /\ ~holding
    /\ Cut(t, Number(t))
    /\ Step(t, Ended("failed"))
    /\ UNCHANGED memory

-----------------------------------------------------------------------------
\* Time passes while agents work and tasks sleep.  What a thread does on its own
\* takes no time: a sleeper wakes when it is due, and calls when it is awake.
Tick ==
    /\ now < LastTime
    /\ At("call") = {} /\ \A t \in At("sleep") : now < task[t].since
    /\ now' = now + 1
    /\ UNCHANGED <<inputs, disk, lastRun, staging, staged, main, task, abort>>

\* The process is killed, perhaps while it writes a file.
Crash ==
    /\ main \in {"jobs", "cancelling", "saving"}
    /\ \/ UNCHANGED raws
       \/ \E t \in At("save") : ~holding /\ Cut(t, Number(t))
       \/ \E t \in Tasks, n \in Numbers : main = "saving" /\ NextKept(t, n) /\ Cut(t, n)
    /\ End("idle")
    /\ UNCHANGED torn

TaskStep(t) ==
    \/ Start(t) \/ Call(t) \/ \E answer \in {inputs, Unusable} : Answer(t, answer)
    \/ AgentRefused(t) \/ Transient(t) \/ WakeUp(t)
    \/ Accepted(t) \/ Rejected(t) \/ Malformed(t) \/ SaveFails(t)

MainStep ==
    \/ Wake \/ CloseFailed \/ CloseDone \/ CloseStaged \/ AllSaved
    \/ \E t \in Tasks : Cancel(t)
    \/ \E t \in Tasks, n \in Numbers : SaveKept(t, n) \/ SaveKeptFails(t, n)

Next ==
    \/ \E s \in BOOLEAN, version \in {inputs, inputs + 1} : Begin(s, version)
    \/ MainStep
    \/ \E t \in Tasks : TaskStep(t)
    \/ Tick \/ Crash

\* The threads go on, agents answer or are stopped by their time limit, and
\* time passes.
Spec == Init /\ [][Next]_vars /\ WF_vars(MainStep) /\ WF_vars(Tick)
             /\ \A t \in Tasks : WF_vars(TaskStep(t))

-----------------------------------------------------------------------------
(* Properties.                                                             *)

\* While a researcher runs whose executor cannot forbid reading, no output of
\* the other side is on the disk: not of this run, nor of one that failed, was
\* killed while it wrote, or ran with another executor
\* (_staged_research_outputs, pipeline_base.py:246-249).
Isolation ==
    staging => \A t \in At("agent"), u \in Tasks : Role[t] # Role[u] => Files(u) = {}

\* A raw output, once in the directory, is never written over nor removed, in
\* whatever order runs fail and resume (agent_step, pipeline_base.py:332-333).
RawsKept ==
    [][\A t \in Tasks : \A n \in Files(t) : raws'[t][n] = raws[t][n]]_vars

\* A staged stage that failed in one of its tasks has left the directory as
\* it was (pipeline_base.py:247).
AllOrNothing == main = "failed" /\ staging /\ ~torn => raws = before

\* What a stage that is done hands on is on the disk, valid for the inputs of
\* this run: so that it can be audited and resumed from.
DoneIsKept == main = "done" => \A t \in Tasks : \E n \in Numbers : raws[t][n] = inputs

\* A retry that takes no longer than the call it repeats is over before the
\* deadline (_retry_blocker, pipeline_base.py:414-418).
RetryFits ==
    \A t \in At("agent") :
        task[t].retry > 0 /\ now - task[t].since <= task[t].lasted => now < Deadline

\* A stage that was begun ends, whichever of its tasks fail, sleep before a
\* retry or have not begun when it is given up.
StageEnds == main \in {"jobs", "cancelling", "saving"} ~> main \in {"idle", "failed", "done"}
=============================================================================
