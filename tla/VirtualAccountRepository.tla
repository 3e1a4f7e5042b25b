---------------------- MODULE VirtualAccountRepository ----------------------
(***************************************************************************)
(* The hash-chained account ledger on disk                                 *)
(* (src/src/etf_agent/virtual_account/service.py).                         *)
(*                                                                         *)
(* An account is a directory: runs/<run id>/ holds one sealed account      *)
(* state per run, latest.json names the newest verified one, rolled_back/  *)
(* keeps what was taken off the chain, .write.lock is there while a writer *)
(* works.  Several processes may work on the same account; each operation  *)
(* is a series of file-system steps, and between any two of them the       *)
(* operation may fail, be interrupted or die with its process.             *)
(*                                                                         *)
(* A state names its parent by a hash of the parent's whole content, so a  *)
(* state is modelled by its history: the sequence of the entries from the  *)
(* genesis entry to its own.  state_id is that sequence, sequence its      *)
(* length less one, parent_state_id its front.  The entry keeps the other  *)
(* link a state has, the run id of the parent (provenance.parent_run_id),  *)
(* which is what nav_history and applied_decision_run_ids walk along.      *)
(***************************************************************************)
EXTENDS Naturals, Sequences

CONSTANTS
    RunIds,     \* directory names under runs/
    Genesis,    \* the run id every account starts with
    Payloads,   \* what distinguishes one state's own content from another's
    None,       \* no run
    Writers,    \* processes that may write to the account
    MayCarry,   \* the payloads a run id may be saved with
    IdsOf,      \* the run ids a writer may choose
    Does        \* the operations a writer runs: the daily pipeline all of them,
                \* cli/virtual_account.py only saves

ASSUME RepositoryAssumption ==
    /\ Genesis \in RunIds
    /\ None \notin RunIds
    /\ MayCarry \in [RunIds -> SUBSET Payloads]
    /\ IdsOf \in [Writers -> SUBSET RunIds]
    /\ Does \in [Writers -> SUBSET {"save", "rollback", "publish"}]

(***************************************************************************)
(* What the daily pipeline sees to and the repository does not enforce: a  *)
(* run id carries the time stamp of the run that makes it, so two run ids  *)
(* never carry the same content and two writers never choose the same id.  *)
(***************************************************************************)
Stamped ==
    /\ \A r, s \in RunIds : r # s => MayCarry[r] \cap MayCarry[s] = {}
    /\ \A v, w \in Writers : v # w => IdsOf[v] \cap IdsOf[w] \subseteq {Genesis}

Entry == [parent : RunIds \cup {None}, payload : Payloads]
State == Seq(Entry)
NoState == << >>        \* the directory of the run does not exist

\* The first n entries of a history: what its states said n entries ago.
Prefix(s, n) == [k \in 1..n |-> s[k]]
Parent(s) == Prefix(s, Len(s) - 1)

VARIABLES
    runs,       \* runs/: the state sealed in each run directory
    latest,     \* the run id in latest.json, None before the file exists
    rolledBack, \* the run ids under rolled_back/
    output,     \* the run whose account snapshot is in the account output file
    lockFile,   \* .write.lock exists
    pc,         \* where each writer is
    job,        \* what each writer has set out to do
    made,       \* how far its publication got: runs moved, then the output
    old,        \* the output as it was when the publication began
    restored,   \* the undo knows that latest names none of the moved runs
    result      \* how its operation ended

disk == <<runs, latest, rolledBack, output>>
local == <<job, made, old, restored, result>>
vars == <<runs, latest, rolledBack, output, lockFile,
          pc, job, made, old, restored, result>>

Outside == {"idle", "staged", "ready"}
Critical == {"locked", "placed", "restored", "publishing",
             "undoLatest", "undoOutput", "undoRuns", "release"}
Results == {"none", "done", "refused", "undone", "broken"}

\* A save of state under run; a rollback of run to base; or the publication of
\* the staged runs first and run, the last of which ends in state.
Jobs == [op : {"none", "save", "rollback", "publish"},
         run : RunIds \cup {None}, first : RunIds \cup {None},
         base : RunIds \cup {None}, state : State]

NoJob == [op |-> "none", run |-> None, first |-> None, base |-> None, state |-> NoState]

Init ==
    /\ runs = [r \in RunIds |-> NoState]
    /\ latest = None
    /\ rolledBack = {}
    /\ output = None
    /\ lockFile = FALSE
    /\ pc = [w \in Writers |-> "idle"]
    /\ job = [w \in Writers |-> NoJob]
    /\ made = [w \in Writers |-> 0]
    /\ old = [w \in Writers |-> None]
    /\ restored = [w \in Writers |-> FALSE]
    /\ result = [w \in Writers |-> "none"]

Goto(w, label) == pc' = [pc EXCEPT ![w] = label]

\* Set out on a job.
Begin(w, label, j) ==
    /\ Goto(w, label)
    /\ job' = [job EXCEPT ![w] = j]
    /\ UNCHANGED <<disk, lockFile, made, old, restored, result>>

\* Leave the body of the write lock with a result.
Finish(w, how) ==
    /\ Goto(w, "release")
    /\ result' = [result EXCEPT ![w] = how]
    /\ UNCHANGED <<lockFile, job, made, old, restored>>

\* The operation is over: nothing of it is remembered.
Leave(w) ==
    /\ Goto(w, "idle")
    /\ job' = [job EXCEPT ![w] = NoJob]
    /\ made' = [made EXCEPT ![w] = 0]
    /\ old' = [old EXCEPT ![w] = None]
    /\ restored' = [restored EXCEPT ![w] = FALSE]
    /\ result' = [result EXCEPT ![w] = "none"]

Exists(r) == runs[r] # NoState

-----------------------------------------------------------------------------
(* Deciding what to write, before the lock is taken.                       *)

\* VirtualAccountService.initialize: the genesis state of a new account.
Initialize(w, p) ==
    /\ pc[w] = "idle" /\ "save" \in Does[w]
    /\ latest = None
    /\ Genesis \in IdsOf[w] /\ p \in MayCarry[Genesis]
    /\ Begin(w, "ready", [op |-> "save", run |-> Genesis, first |-> None, base |-> None,
                          state |-> << [parent |-> None, payload |-> p] >>])

\* prepare_day, rebase and apply_decision: the state that follows latest,
\* computed from a latest that was read without the lock.
ComputeNext(w, r, p) ==
    /\ pc[w] = "idle" /\ "save" \in Does[w]
    /\ latest # None /\ Exists(latest)
    /\ r \in IdsOf[w] \ {Genesis} /\ p \in MayCarry[r]
    /\ Begin(w, "ready", [op |-> "save", run |-> r, first |-> None, base |-> latest,
                          state |-> Append(runs[latest], [parent |-> latest, payload |-> p])])

\* restore_superseded_decision asks to take the latest it has just read back
\* to a run it remembers.
RequestRollback(w, restore) ==
    /\ pc[w] = "idle" /\ "rollback" \in Does[w]
    /\ latest # None /\ Exists(restore)
    /\ Begin(w, "ready", [op |-> "rollback", run |-> latest, first |-> None,
                          base |-> restore, state |-> NoState])

\* rebase_account_to_datapack: staging_copy copies the account while it holds
\* the lock, then a rebase and a prepare are played on the copy.
StageChain(w, r1, r2, p1, p2) ==
    /\ pc[w] = "idle" /\ "publish" \in Does[w]
    /\ ~lockFile
    /\ latest # None /\ Exists(latest)
    /\ {r1, r2} \subseteq IdsOf[w] \ {Genesis} /\ r1 # r2
    /\ ~Exists(r1) /\ ~Exists(r2)
    /\ p1 \in MayCarry[r1] /\ p2 \in MayCarry[r2]
    /\ Begin(w, "staged", [op |-> "publish", run |-> r2, first |-> r1, base |-> latest,
                           state |-> Append(Append(runs[latest], [parent |-> latest, payload |-> p1]),
                                            [parent |-> r1, payload |-> p2])])

\* publish_staged_chain reads the old output before it takes the lock.
BeginPublish(w) ==
    /\ pc[w] = "staged"
    /\ old' = [old EXCEPT ![w] = output]
    /\ Goto(w, "ready")
    /\ UNCHANGED <<disk, lockFile, job, made, restored, result>>

-----------------------------------------------------------------------------
(* The write lock: a file that must not exist yet.                         *)

\* Mutant: the lock file is opened without O_EXCL.
AcquireLockShared(w) ==
    /\ pc[w] = "ready"
    /\ lockFile' = TRUE
    /\ Goto(w, "locked")
    /\ UNCHANGED <<disk, local>>

AcquireLock(w) ==
    /\ pc[w] = "ready"
    /\ ~lockFile
    /\ lockFile' = TRUE
    /\ Goto(w, "locked")
    /\ UNCHANGED <<disk, local>>

\* Someone else's lock file, or one a dead process left: the write is refused.
LockBusy(w) ==
    /\ pc[w] = "ready"
    /\ lockFile
    /\ Leave(w)
    /\ UNCHANGED <<disk, lockFile>>

ReleaseLock(w) ==
    /\ pc[w] = "release"
    /\ lockFile' = FALSE
    /\ Leave(w)
    /\ UNCHANGED disk

-----------------------------------------------------------------------------
(* save                                                                    *)

Saving(w) == pc[w] = "locked" /\ job[w].op = "save"

\* Mutant: only the sequence number is compared with latest.
FollowsSequence(s) ==
    IF latest = None THEN Len(s) = 1 ELSE Len(s) = Len(runs[latest]) + 1

\* The genesis rule for an empty account, else the direct successor of latest.
FollowsLatest(s) ==
    IF latest = None THEN Len(s) = 1
    ELSE Exists(latest) /\ Len(s) = Len(runs[latest]) + 1 /\ Parent(s) = runs[latest]

\* The temporary directory becomes runs/<run id> in one rename.
SavePlace(w) ==
    /\ Saving(w)
    /\ ~Exists(job[w].run)
    /\ FollowsLatest(job[w].state)
    /\ runs' = [runs EXCEPT ![job[w].run] = job[w].state]
    /\ Goto(w, "placed")
    /\ UNCHANGED <<latest, rolledBack, output, lockFile, local>>

\* The run is already there with this very content: returned as it is.
SaveExisting(w) ==
    /\ Saving(w)
    /\ runs[job[w].run] = job[w].state
    /\ Finish(w, "done")
    /\ UNCHANGED disk

\* Other content under the run id, or latest has moved since it was read.
SaveRefused(w) ==
    /\ Saving(w)
    /\ IF Exists(job[w].run) THEN runs[job[w].run] # job[w].state
                             ELSE ~FollowsLatest(job[w].state)
    /\ Finish(w, "refused")
    /\ UNCHANGED disk

SaveAdvance(w) ==
    /\ pc[w] = "placed"
    /\ latest' = IF latest = None \/ Len(job[w].state) > Len(runs[latest])
                   THEN job[w].run ELSE latest
    /\ Finish(w, "done")
    /\ UNCHANGED <<runs, rolledBack, output>>

-----------------------------------------------------------------------------
(* rollback_latest                                                         *)

RollingBack(w) == pc[w] = "locked" /\ job[w].op = "rollback"

\* Mutant: latest is not compared with the run to take back.
RollbackAnyRun(j) ==
    /\ Exists(j.run)
    /\ Exists(j.base)
    /\ Parent(runs[j.run]) = runs[j.base]
    /\ j.run \notin rolledBack

RollbackAllowed(j) ==
    /\ latest = j.run
    /\ Exists(j.run)
    /\ Exists(j.base)
    /\ Parent(runs[j.run]) = runs[j.base]
    /\ j.run \notin rolledBack

\* Mutant: the run is moved away before latest is written.
RollbackMoveFirst(w) ==
    /\ RollingBack(w)
    /\ RollbackAllowed(job[w])
    /\ Goto(w, "restored")
    /\ UNCHANGED <<disk, lockFile, local>>

RollbackRestore(w) ==
    /\ RollingBack(w)
    /\ RollbackAllowed(job[w])
    /\ latest' = job[w].base
    /\ Goto(w, "restored")
    /\ UNCHANGED <<runs, rolledBack, output, lockFile, local>>

RollbackRefused(w) ==
    /\ RollingBack(w)
    /\ ~RollbackAllowed(job[w])
    /\ Finish(w, "refused")
    /\ UNCHANGED disk

RollbackMove(w) ==
    /\ pc[w] = "restored"
    /\ runs' = [runs EXCEPT ![job[w].run] = NoState]
    /\ rolledBack' = rolledBack \cup {job[w].run}
    /\ Finish(w, "done")
    /\ UNCHANGED <<latest, output>>

-----------------------------------------------------------------------------
(* publish_staged_chain                                                    *)

Publishing(w) == pc[w] = "locked" /\ job[w].op = "publish"

PublishAllowed(j) ==
    /\ latest = j.base
    /\ Exists(latest)
    /\ ~Exists(j.first) /\ ~Exists(j.run)
    /\ Prefix(j.state, Len(j.state) - 2) = runs[latest]

\* The checks under the lock, and the rename of the first staged run.
PublishFirst(w) ==
    /\ Publishing(w)
    /\ PublishAllowed(job[w])
    /\ runs' = [runs EXCEPT ![job[w].first] = Parent(job[w].state)]
    /\ made' = [made EXCEPT ![w] = 1]
    /\ Goto(w, "publishing")
    /\ UNCHANGED <<latest, rolledBack, output, lockFile, job, old, restored, result>>

PublishSecond(w) ==
    /\ pc[w] = "publishing" /\ made[w] = 1
    /\ runs' = [runs EXCEPT ![job[w].run] = job[w].state]
    /\ made' = [made EXCEPT ![w] = 2]
    /\ UNCHANGED <<latest, rolledBack, output, lockFile, pc, job, old, restored, result>>

PublishOutput(w) ==
    /\ pc[w] = "publishing" /\ made[w] = 2
    /\ output' = job[w].run
    /\ made' = [made EXCEPT ![w] = 3]
    /\ UNCHANGED <<runs, latest, rolledBack, lockFile, pc, job, old, restored, result>>

PublishLatest(w) ==
    /\ pc[w] = "publishing" /\ made[w] = 3
    /\ latest' = job[w].run
    /\ Finish(w, "done")
    /\ UNCHANGED <<runs, rolledBack, output>>

\* A failed check raises inside the try, so it runs the same undo as a fault.
PublishRefused(w) ==
    /\ Publishing(w)
    /\ ~PublishAllowed(job[w])
    /\ Goto(w, "undoLatest")
    /\ UNCHANGED <<disk, lockFile, local>>

\* Undo, still under the lock: latest first, if it names the last staged run.
UndoLatest(w) ==
    LET j == job[w] IN
    /\ pc[w] = "undoLatest"
    /\ latest = j.run => Exists(j.base)
    /\ latest' = IF latest = j.run THEN j.base ELSE latest
    /\ restored' = [restored EXCEPT ![w] = latest \in {j.base, j.run}]
    /\ result' = [result EXCEPT ![w] = "undone"]
    /\ Goto(w, "undoOutput")
    /\ UNCHANGED <<runs, rolledBack, output, lockFile, job, made, old>>

UndoOutput(w) ==
    /\ pc[w] = "undoOutput"
    /\ output' = IF made[w] = 3 THEN old[w] ELSE output
    /\ Goto(w, "undoRuns")
    /\ UNCHANGED <<runs, latest, rolledBack, lockFile, local>>

\* The runs moved so far, the last first.
MovedRun(w) == IF made[w] >= 2 THEN job[w].run ELSE job[w].first

UndoneTo(w) == IF made[w] >= 2 THEN 1 ELSE 0

\* They are removed only if latest is known not to name one of them.
UndoRun(w) ==
    /\ pc[w] = "undoRuns" /\ restored[w] /\ made[w] > 0
    /\ runs' = [runs EXCEPT ![MovedRun(w)] = NoState]
    /\ made' = [made EXCEPT ![w] = UndoneTo(w)]
    /\ UNCHANGED <<latest, rolledBack, output, lockFile, pc, job, old, restored, result>>

\* Mutant: the moved runs are left behind.
UndoWithoutRuns(w) ==
    /\ pc[w] = "undoRuns"
    /\ Goto(w, "release")
    /\ UNCHANGED <<disk, lockFile, local>>

UndoDone(w) ==
    /\ pc[w] = "undoRuns" /\ ~(restored[w] /\ made[w] > 0)
    /\ Goto(w, "release")
    /\ UNCHANGED <<disk, lockFile, local>>

-----------------------------------------------------------------------------
(* What may go wrong.                                                      *)

\* An OSError at a file-system step of save or rollback: the lock is released
\* and what was done so far stays.
Fault(w) ==
    /\ Saving(w) \/ RollingBack(w) \/ pc[w] \in {"placed", "restored"}
    /\ Finish(w, "broken")
    /\ UNCHANGED disk

\* An OSError while publishing starts the undo.
PublishFault(w) ==
    /\ Publishing(w) \/ pc[w] = "publishing"
    /\ Goto(w, "undoLatest")
    /\ UNCHANGED <<disk, lockFile, local>>

\* An OSError in the undo itself: without latest no run is removed; without
\* the output the runs still are.
UndoFault(w) ==
    /\ pc[w] \in {"undoLatest", "undoOutput"}
    /\ result' = [result EXCEPT ![w] = "broken"]
    /\ Goto(w, IF pc[w] = "undoLatest" THEN "undoOutput" ELSE "undoRuns")
    /\ UNCHANGED <<disk, lockFile, job, made, old, restored>>

\* rmtree ignores its errors: the run stays and nobody is told.
UndoRunFault(w) ==
    /\ pc[w] = "undoRuns" /\ restored[w] /\ made[w] > 0
    /\ made' = [made EXCEPT ![w] = UndoneTo(w)]
    /\ result' = [result EXCEPT ![w] = "broken"]
    /\ UNCHANGED <<disk, lockFile, pc, job, old, restored>>

\* KeyboardInterrupt passes every "except Exception" but not the finally of
\* the lock: nothing is undone and the lock is released.
Interrupt(w) ==
    /\ pc[w] # "idle"
    /\ Leave(w)
    /\ lockFile' = (lockFile /\ pc[w] \notin Critical)
    /\ UNCHANGED disk

\* The process is killed: the lock file stays.
Crash(w) ==
    /\ pc[w] # "idle"
    /\ Leave(w)
    /\ UNCHANGED <<disk, lockFile>>

\* The operator deletes a left-over lock file after checking that no program
\* is running (docs/runtime-artifacts.md:73).
RemoveStaleLock ==
    /\ lockFile
    /\ \A w \in Writers : pc[w] = "idle"
    /\ lockFile' = FALSE
    /\ UNCHANGED <<disk, pc, local>>

-----------------------------------------------------------------------------
Request(w) ==
    \/ \E p \in Payloads : Initialize(w, p)
    \/ \E r \in RunIds, p \in Payloads : ComputeNext(w, r, p)
    \/ \E r \in RunIds : RequestRollback(w, r)
    \/ \E r1, r2 \in RunIds, p1, p2 \in Payloads : StageChain(w, r1, r2, p1, p2)

\* The steps of a writer that runs on without a failure.
Work(w) ==
    \/ BeginPublish(w) \/ AcquireLock(w) \/ LockBusy(w) \/ ReleaseLock(w)
    \/ SavePlace(w) \/ SaveExisting(w) \/ SaveRefused(w) \/ SaveAdvance(w)
    \/ RollbackRestore(w) \/ RollbackRefused(w) \/ RollbackMove(w)
    \/ PublishFirst(w) \/ PublishSecond(w) \/ PublishOutput(w) \/ PublishLatest(w)
    \/ PublishRefused(w) \/ UndoLatest(w) \/ UndoOutput(w) \/ UndoRun(w) \/ UndoDone(w)

Failure(w) ==
    \/ Fault(w) \/ PublishFault(w) \/ UndoFault(w) \/ UndoRunFault(w)
    \/ Interrupt(w) \/ Crash(w)

Next ==
    \/ \E w \in Writers : Request(w) \/ Work(w) \/ Failure(w)
    \/ RemoveStaleLock

Spec == Init /\ [][Next]_vars

-----------------------------------------------------------------------------
(* Properties.                                                             *)

\* The type invariant.
TypeOK ==
    /\ runs \in [RunIds -> State]
    /\ latest \in RunIds \cup {None}
    /\ rolledBack \subseteq RunIds
    /\ output \in RunIds \cup {None}
    /\ lockFile \in BOOLEAN
    /\ pc \in [Writers -> Outside \cup Critical]
    /\ job \in [Writers -> Jobs]
    /\ made \in [Writers -> 0..3]
    /\ old \in [Writers -> RunIds \cup {None}]
    /\ restored \in [Writers -> BOOLEAN]
    /\ result \in [Writers -> Results]

\* At most one writer is past the lock, and only while the lock file exists:
\* neither a refused writer nor a left-over file lets a second one in
\* (_write_lock, service.py:84-99).
OneWriter ==
    /\ \A w \in Writers : pc[w] \in Critical => lockFile
    /\ \A v, w \in Writers : pc[v] \in Critical /\ pc[w] \in Critical => v = w

\* latest.json only ever names a run that is there, whatever failed or died
\* in the middle of a save, a rollback or a publication
\* (VirtualAccountRepository, service.py:74-75).
LatestVerified == latest # None => Exists(latest)

\* From latest the parent run ids lead back to the genesis state, through runs
\* that are still there and hold the very states that were hashed in: so
\* nav_history and applied_decision_run_ids (service.py:369-400) neither stop
\* at a missing run nor go round in a circle.
Walkable(s) ==
    \A k \in 2..Len(s) :
        /\ s[k].parent \in RunIds
        /\ runs[s[k].parent] = Prefix(s, k - 1)

ChainWalkable == latest # None => Walkable(runs[latest])

\* A publication that ended has happened as a whole or not at all: its two
\* runs, latest and the account output go together, unless the undo itself
\* failed (publish_staged_chain, service.py:146-149).
PublishAllOrNothing ==
    \A w \in Writers :
        LET j == job[w] IN
        pc[w] = "release" /\ j.op = "publish" =>
            /\ result[w] = "done" =>
                  /\ latest = j.run /\ output = j.run
                  /\ runs[j.run] = j.state /\ runs[j.first] = Parent(j.state)
            /\ result[w] = "undone" =>
                  /\ latest \notin {j.run, j.first} /\ (output # j.run \/ output = old[w])
                  /\ ~Exists(j.run) /\ ~Exists(j.first)

\* The runs whose states make up the chain of latest.
Live == {r \in RunIds : /\ latest # None
                        /\ Exists(r)
                        /\ Len(runs[r]) <= Len(runs[latest])
                        /\ runs[r] = Prefix(runs[latest], Len(runs[r]))}

\* A sealed run is never rewritten, and a run of the chain never disappears
\* while it is one: a rollback moves latest off a run before it moves the run,
\* and the undo of a publication only removes what latest does not reach.
LiveRunsStay ==
    [][\A r \in RunIds : Exists(r) /\ runs'[r] # runs[r] =>
           runs'[r] = NoState /\ r \notin Live]_vars

\* The repository implements the abstract line of states.
Chain == INSTANCE AccountChain
             WITH chain <- IF latest = None THEN << >> ELSE runs[latest]
ImplementsChain == Chain!Spec
=============================================================================
