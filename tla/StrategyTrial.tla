---------------------------- MODULE StrategyTrial ----------------------------
(***************************************************************************)
(* A change of the strategy and its trial (strategy_reflection/service.py, *)
(* trial.py, lessons.py, validator.py and cli/strategy_reflection.py).     *)
(*                                                                         *)
(* A weekly reflection seals a change: new settings of some knobs of       *)
(* config/decision_policy.json, or lessons for config/strategy_lessons.json*)
(* A change is logged in the history, put in place of the live file, and   *)
(* is then on trial: once a week the command apply-pending judges it by    *)
(* the days since, keeps it, waits longer, or takes it back.  Only one     *)
(* change may be on trial at a time.  A human may apply and roll back by   *)
(* hand, edit the live files and turn the automatic mode on and off.       *)
(*                                                                         *)
(* Every command is a process of its own that may die at any point, and    *)
(* two of them may overlap: they share the lock of the daily run, which    *)
(* they take without waiting and only for the change of the live file.     *)
(*                                                                         *)
(* The history is kept as what its readers make of it: the stack of the    *)
(* changes that are not undone, the applications in their order, the       *)
(* results of the trials and the number of reverts in a row.  A version of *)
(* a live file is the change it came from, 0 for the one of the beginning  *)
(* (no file, for lessons), more than MaxChanges for an edit by hand, which *)
(* has a policy_id of its own (config/README.md).                          *)
(***************************************************************************)
EXTENDS Integers, Sequences, SequencesExt

CONSTANTS
    Procs,          \* the commands that may run at a time
    Commands,       \* those of the CLI that are used
    MaxChanges,     \* bound: changes that are sealed
    KnobOf,         \* the knob each knob change is about
    Risky,          \* the changes that increase the risk
    LastDay,        \* bound: the clock, in days scaled down with the terms below
    TrialDays,      \* days a trial needs, with and without extension, and at most
    ExtendedDays,
    MaxTrialDays,
    PendingAge,     \* how old a sealed change may be when it is applied
    Cooldown,       \* decision days between two changes of a knob
    AutoDisable,    \* reverts in a row that end the automatic mode
    MaxFaults,      \* bound: edits by hand, commands killed, and what is begun or
                    \* done while a command is under way
    None

Kinds == {"knobs", "lessons"}
Changes == 1..MaxChanges
Versions == 0..(MaxChanges + MaxFaults)
Days == 0..LastDay
Results == {"closed", "reverted"}
Labels == {"idle", "reflect", "settle", "judge", "orphan", "revert", "undo", "undone", "record", "switch",
           "disabled", "choose", "lessons", "check", "write", "log", "swap"}

ASSUME TrialAssumption ==
    /\ MaxChanges \in Nat /\ LastDay \in Nat /\ MaxFaults \in Nat
    /\ {TrialDays, ExtendedDays, MaxTrialDays, PendingAge, Cooldown, AutoDisable} \subseteq Nat
    /\ Risky \subseteq Changes
    /\ KnobOf \in [Changes -> Nat]
    /\ None \notin Procs \cup Results

VARIABLES
    day,        \* the date
    sealed,     \* the changes that were sealed: kind, policy it is based on, day
    latest,     \* the knob change of the latest reflection, if it proposes one
    waiting,    \* lessons/pending.json
    live,       \* the live files
    stack,      \* history: the changes not undone, each with what it replaced
    applied,    \* history: every application, with its day
    result,     \* history: how a trial ended: reverted, or closed in another way
    extended,   \* history: the trials that were extended
    reverts,    \* history: consecutive_reverts
    auto,       \* auto_apply of config/strategy_reflection.json
    lock,       \* who holds artifacts/daily/.lock
    pc,         \* where a command is
    job,        \* what it remembers
    edits, deaths,
    overlaps    \* what was begun or done while a command was under way

history == <<stack, applied, result, extended, reverts>>
files == <<sealed, latest, waiting, live, auto>>
ghosts == <<day, edits, deaths, overlaps>>
vars == <<files, history, lock, pc, job, ghosts>>

Entry(c, v) == [change |-> c, before |-> v]
NoEntry == Entry(0, 0)
NoJob == [cmd |-> None, on |-> FALSE, allow |-> FALSE, change |-> 0, kind |-> "knobs",
          trial |-> NoEntry, extended |-> FALSE]

Init ==
    /\ day = 0 /\ edits = 0 /\ deaths = 0 /\ overlaps = 0
    /\ sealed = <<>> /\ latest = 0 /\ waiting = 0
    /\ live = [k \in Kinds |-> 0]
    /\ stack = [k \in Kinds |-> <<>>]
    /\ applied = <<>>
    /\ result = [c \in Changes |-> None]
    /\ extended = {} /\ reverts = 0
    /\ auto \in BOOLEAN
    /\ lock = None
    /\ pc = [p \in Procs |-> "idle"]
    /\ job = [p \in Procs |-> NoJob]

Idle == \A p \in Procs : pc[p] = "idle"

\* open_trial: applied, not undone, without a final result.
OnTrial ==
    {e \in UNION {{stack[k][i] : i \in 1..Len(stack[k])} : k \in Kinds} : result[e.change] = None}

KindOf(c) == sealed[c].kind
Applications(c) == {i \in 1..Len(applied) : applied[i].change = c}
DayApplied(c) == applied[CHOOSE i \in Applications(c) : \A j \in Applications(c) : j <= i].day
AppliedToday == \E i \in 1..Len(applied) : applied[i].day = day /\ KindOf(applied[i].change) = "knobs"

Goto(p, label) == pc' = [pc EXCEPT ![p] = label]
Remember(p, j) == job' = [job EXCEPT ![p] = j]
Keep(p, label) == Goto(p, label) /\ UNCHANGED job
End(p) == Goto(p, "idle") /\ Remember(p, NoJob)

\* From one part of apply-pending to the next.
Onward(p, label, on) == Goto(p, label) /\ Remember(p, [NoJob EXCEPT !.cmd = job[p].cmd, !.on = on, !.allow = job[p].allow])

\* An undo entry takes the newest application of its kind off, whatever it names.
Popped(k) == [stack EXCEPT ![k] = IF @ = <<>> THEN @ ELSE Front(@)]

\* A result entry; consecutive_reverts counts back to the last that is no revert.
Record(c, res) ==
    /\ result' = [result EXCEPT ![c] = res]
    /\ reverts' = IF res = "reverted" THEN reverts + 1 ELSE 0

Bounded == edits' + deaths' + overlaps' <= MaxFaults

Overlap ==
    /\ overlaps' = IF Idle THEN overlaps ELSE overlaps + 1
    /\ Bounded

\* The cool-down of a knob between two changes of it, doubled after a trial of
\* it was reverted.  A change that was applied is never applied again.
SameKnob(c) == {i \in 1..Len(applied) : /\ KindOf(applied[i].change) = "knobs"
                                         /\ KnobOf[applied[i].change] = KnobOf[c]}
LastOfKnob(c) == applied[CHOOSE i \in SameKnob(c) : \A j \in SameKnob(c) : j <= i].change
LastReverted(c) == SameKnob(c) # {} /\ result[LastOfKnob(c)] = "reverted"
CooledDown(c, on) ==
    SameKnob(c) # {} => on - sealed[LastOfKnob(c)].day >= IF LastReverted(c) THEN 2 * Cooldown ELSE Cooldown

-----------------------------------------------------------------------------
(* By hand, and the clock.                                                 *)

\* A command ends on the day it began (bound).
Tick ==
    /\ Idle /\ day < LastDay
    /\ day' = day + 1
    /\ UNCHANGED <<files, history, lock, pc, job, edits, deaths, overlaps>>

\* An edit is made while no command holds the lock (bound).
Edit(k) ==
    /\ lock = None
    /\ edits' = edits + 1
    /\ UNCHANGED <<sealed, latest, waiting, auto, history, lock, pc, job, day, deaths>>
    /\ Overlap
    /\ live' = [live EXCEPT ![k] = MaxChanges + edits']

SetSwitch ==
    /\ edits' = edits + 1
    /\ auto' = ~auto
    /\ UNCHANGED <<sealed, latest, waiting, live, history, lock, pc, job, day, deaths>>
    /\ Overlap

-----------------------------------------------------------------------------
(* cli/strategy_reflection.py: a command begins.                           *)

\* Commands are all alike: while none is under way the same place is taken.
First == CHOOSE p \in Procs : TRUE

Begin(p, label, j) ==
    /\ pc[p] = "idle" /\ j.cmd \in Commands
    /\ Idle => p = First
    /\ Goto(p, label)
    /\ Remember(p, j)
    /\ UNCHANGED <<files, history, lock, day, edits, deaths>>
    /\ Overlap

\* --allow-risk-increase is only given where it matters.
Allowances == {FALSE, Risky # {}}

\* The switch is read when the command begins.
BeginPending(p) == \E allow \in Allowances :
    Begin(p, "settle", [NoJob EXCEPT !.cmd = "pending", !.on = auto, !.allow = allow])

\* Any sealed change, by hand and whatever the switch says.
BeginApply(p) == \E c \in 1..Len(sealed), allow \in Allowances :
    /\ KindOf(c) = "knobs"
    /\ Begin(p, "check", [NoJob EXCEPT !.cmd = "apply", !.allow = allow, !.change = c])

BeginRollback(p) == \E k \in Kinds :
    Begin(p, "undo", [NoJob EXCEPT !.cmd = "rollback", !.kind = k])

\* run_auto remembers the policy it reflects on.  Nothing is proposed during a trial.
BeginAuto(p) ==
    /\ OnTrial = {} /\ Len(sealed) < MaxChanges
    /\ Begin(p, "reflect", [NoJob EXCEPT !.cmd = "auto", !.on = auto, !.trial = Entry(0, live["knobs"])])

ObserveOnly(p) ==
    /\ pc[p] = "idle" /\ "auto" \in Commands
    /\ Idle => p = First
    /\ OnTrial # {}
    /\ latest' = 0
    /\ UNCHANGED <<sealed, waiting, live, auto, history, lock, pc, job, ghosts>>

-----------------------------------------------------------------------------
(* run_auto: what is sealed is based on the policy that was read.          *)

Seal(p, kind) ==
    /\ pc[p] = "reflect" /\ Len(sealed) < MaxChanges
    /\ sealed' = Append(sealed, [kind |-> kind, base |-> job[p].trial.before, day |-> day])
    /\ UNCHANGED <<live, auto, history, lock, ghosts>>

SealLessons(p) ==
    /\ job[p].on /\ job[p].kind = "knobs"
    /\ Seal(p, "lessons")
    /\ waiting' = Len(sealed')
    /\ Remember(p, [job[p] EXCEPT !.kind = "lessons"])
    /\ UNCHANGED <<latest, pc>>

\* The proposal is validated again with the history as it is now; with
\* --no-apply the command ends here.
SealKnobs(p) ==
    /\ Seal(p, "knobs")
    /\ OnTrial = {} /\ CooledDown(Len(sealed'), day)
    /\ latest' = Len(sealed')
    /\ \/ job[p].on /\ Goto(p, "check") /\ Remember(p, [job[p] EXCEPT !.change = Len(sealed'), !.kind = "knobs"])
       \/ End(p)
    /\ UNCHANGED waiting

\* No proposal, or one that is refused and not saved.
SealNothing(p) ==
    /\ pc[p] = "reflect"
    /\ latest' \in {0, latest}
    /\ End(p)
    /\ UNCHANGED <<sealed, waiting, live, auto, history, lock, ghosts>>

-----------------------------------------------------------------------------
(* settle_open_trial.                                                      *)

Stutter == UNCHANGED <<files, history, lock, ghosts>>

NoTrial(p) ==
    /\ pc[p] = "settle" /\ OnTrial = {}
    /\ Onward(p, "choose", job[p].on)
    /\ Stutter

FindTrial(p) ==
    /\ pc[p] = "settle"
    /\ \E newest \in OnTrial :
        /\ \A e \in OnTrial : DayApplied(e.change) <= DayApplied(newest.change)
        /\ Remember(p, [job[p] EXCEPT !.trial = newest, !.kind = KindOf(newest.change),
                                      !.extended = newest.change \in extended])
    /\ Goto(p, "judge")
    /\ Stutter

trialOf(p) == job[p].trial.change
Judging(p) == pc[p] = "judge" /\ UNCHANGED <<files, lock, ghosts>>
Intact(p) == live[job[p].kind] = trialOf(p)

\* _applied_mismatch: the live file is not what the change made of it.  Of a
\* policy that is still the one before, the application is taken off.
NeverLanded(p) ==
    /\ Judging(p) /\ job[p].kind = "knobs"
    /\ ~Intact(p) /\ live["knobs"] = job[p].trial.before
    /\ stack' = Popped("knobs")
    /\ Keep(p, "orphan")
    /\ UNCHANGED <<applied, result, extended, reverts>>

\* Mutant: the result is noted, but not as final.
OrphanedForNow(p) ==
    /\ \/ pc[p] = "orphan"
       \/ pc[p] = "judge" /\ ~Intact(p) /\ ~(job[p].kind = "knobs" /\ live["knobs"] = job[p].trial.before)
    /\ Onward(p, "choose", job[p].on)
    /\ UNCHANGED <<history, files, lock, ghosts>>

Orphaned(p) ==
    /\ \/ pc[p] = "orphan"
       \/ pc[p] = "judge" /\ ~Intact(p) /\ ~(job[p].kind = "knobs" /\ live["knobs"] = job[p].trial.before)
    /\ Record(trialOf(p), "closed")
    /\ Onward(p, "choose", job[p].on)
    /\ UNCHANGED <<stack, applied, extended, files, lock, ghosts>>

\* evaluate_trial: enough days since, or the days cannot be compared yet.
Waited(p) == day - DayApplied(trialOf(p))
Enough(p) == Waited(p) >= IF job[p].extended THEN ExtendedDays ELSE TrialDays

\* Mutant: a trial that cannot be judged goes on.
PendingForEver(p) ==
    /\ Judging(p) /\ Intact(p)
    /\ End(p)
    /\ UNCHANGED history

Pending(p) ==
    /\ Judging(p) /\ Intact(p) /\ Waited(p) < MaxTrialDays
    /\ End(p)
    /\ UNCHANGED history

Close(p) ==
    /\ Record(trialOf(p), "closed")
    /\ Onward(p, "choose", job[p].on)
    /\ UNCHANGED <<stack, applied, extended>>

TimedOut(p) ==
    /\ Judging(p) /\ Intact(p) /\ Waited(p) >= MaxTrialDays
    /\ Close(p)

\* Kept: better, or no difference for the second time in what a replay verified.
Kept(p) ==
    /\ Judging(p) /\ Intact(p) /\ Enough(p)
    /\ Close(p)

\* No difference: extended once.
Extended(p) ==
    /\ Judging(p) /\ Intact(p) /\ Enough(p)
    /\ ~job[p].extended
    /\ extended' = extended \cup {trialOf(p)}
    /\ End(p)
    /\ UNCHANGED <<stack, applied, result, reverts>>

\* Clearly worse, or no difference for the second time in what no replay verifies.
Worse(p) ==
    /\ Judging(p) /\ Intact(p) /\ Enough(p)
    /\ Keep(p, "revert")
    /\ UNCHANGED history

-----------------------------------------------------------------------------
(* rollback, rollback_lessons, revert_lessons: under the lock, the live    *)
(* file goes back and then the history says so.                            *)

\* A policy must be what the change made of it; a missing lessons file is no edit.
Replaceable(e, k) == live[k] = e.change \/ (k = "lessons" /\ live[k] = 0)

TakeBack(p, e) ==
    /\ lock = None
    /\ Replaceable(e, job[p].kind)
    /\ lock' = p
    /\ live' = [live EXCEPT ![job[p].kind] = e.before]
    /\ Remember(p, [job[p] EXCEPT !.change = e.change])
    /\ Goto(p, "undone")
    /\ UNCHANGED <<sealed, latest, waiting, auto, history, ghosts>>

\* rollback takes the newest application, revert_lessons the one it is given.
Target(p) ==
    LET k == job[p].kind
    IN  IF k = "lessons" /\ job[p].cmd = "pending" THEN {job[p].trial}
        ELSE IF stack[k] = <<>> THEN {} ELSE {Last(stack[k])}

Undo(p) ==
    /\ pc[p] \in {"undo", "revert"}
    /\ \E e \in Target(p) : TakeBack(p, e)

\* The daily run holds the lock, it is too late in the day, or there is
\* nothing to take back by hand.
Deferred(p) ==
    /\ pc[p] \in {"undo", "revert"}
    /\ End(p)
    /\ Stutter

RevertFails(p) ==
    /\ pc[p] = "revert" /\ lock = None
    /\ \A e \in Target(p) : ~Replaceable(e, job[p].kind)
    /\ Record(trialOf(p), "closed")
    /\ End(p)
    /\ UNCHANGED <<stack, applied, extended, files, lock, ghosts>>

LogUndo(p) ==
    /\ pc[p] = "undone"
    /\ stack' = Popped(job[p].kind)
    /\ lock' = None
    /\ IF job[p].cmd = "pending" THEN Keep(p, "record") ELSE End(p)
    /\ UNCHANGED <<applied, result, extended, reverts, files, ghosts>>

Reverted(p) ==
    /\ pc[p] = "record"
    /\ Record(trialOf(p), "reverted")
    /\ Onward(p, IF reverts' >= AutoDisable THEN "switch" ELSE "choose", job[p].on)
    /\ UNCHANGED <<stack, applied, extended, files, lock, ghosts>>

DisableAuto(p) ==
    /\ pc[p] = "switch"
    /\ auto' = FALSE
    /\ Keep(p, "disabled")
    /\ UNCHANGED <<sealed, latest, waiting, live, history, lock, ghosts>>

\* Mutant: the command goes by the switch as it was when it began.
LogDisabledOnly(p) ==
    /\ pc[p] = "disabled"
    /\ reverts' = 0
    /\ Onward(p, "choose", job[p].on)
    /\ UNCHANGED <<stack, applied, result, extended, files, lock, ghosts>>

LogDisabled(p) ==
    /\ pc[p] = "disabled"
    /\ reverts' = 0
    /\ Onward(p, "choose", auto)
    /\ UNCHANGED <<stack, applied, result, extended, files, lock, ghosts>>

-----------------------------------------------------------------------------
(* apply_pending: the knobs of the latest reflection, or else the lessons. *)

Fresh(c) == day - sealed[c].day <= PendingAge

\* To be applied now: not before, and not too old.
Due(c) == c # 0 /\ Applications(c) = {} /\ Fresh(c)
MayApply(p) == (job[p].on \/ job[p].allow) /\ Due(latest)

ChooseKnobs(p) ==
    /\ pc[p] = "choose" /\ MayApply(p)
    /\ Goto(p, "check")
    /\ Remember(p, [job[p] EXCEPT !.change = latest, !.kind = "knobs"])
    /\ Stutter

\* Where a command goes that did not apply the knobs.
NotApplied(p) == IF job[p].cmd = "pending" /\ job[p].on THEN Onward(p, "lessons", TRUE) ELSE End(p)

ChooseNone(p) ==
    /\ pc[p] = "choose" /\ ~MayApply(p)
    /\ NotApplied(p)
    /\ Stutter

ChooseLessons(p) ==
    /\ pc[p] = "lessons"
    /\ Due(waiting)
    /\ Goto(p, "write")
    /\ Remember(p, [job[p] EXCEPT !.change = waiting, !.kind = "lessons"])
    /\ Stutter

NoLessons(p) ==
    /\ pc[p] = "lessons"
    /\ End(p)
    /\ Stutter

-----------------------------------------------------------------------------
(* apply_reflection: validation and the replays, without the lock.         *)

Valid(c) == sealed[c].base = live["knobs"] /\ OnTrial = {} /\ CooledDown(c, sealed[c].day)

\* Not valid, or in the direction that was reverted last: the command ends.
Rejected(p) ==
    /\ pc[p] = "check"
    /\ LET c == job[p].change
       IN  Valid(c) => LastReverted(c)
    /\ End(p)
    /\ Stutter

\* Left to a human (the note of it in the history is read by nobody), applied
\* today already, or a replay that shows no gain.
Refused(p) ==
    /\ pc[p] = "check" /\ Valid(job[p].change)
    /\ NotApplied(p)
    /\ Stutter

Passed(p) ==
    /\ pc[p] = "check" /\ Valid(job[p].change)
    /\ job[p].change \in Risky => job[p].allow
    /\ ~AppliedToday
    /\ Keep(p, "write")
    /\ Stutter

-----------------------------------------------------------------------------
(* The change goes live: under the lock what was checked is checked again, *)
(* the history is written first and then the live file.                    *)

\* Mutant: no second look whether a change is on trial.
StillMeantByFile(p) ==
    IF job[p].kind = "knobs" THEN sealed[job[p].change].base = live["knobs"] /\ ~AppliedToday
    ELSE waiting = job[p].change /\ Applications(waiting) = {}

StillMeant(p) ==
    /\ OnTrial = {}
    /\ IF job[p].kind = "knobs" THEN sealed[job[p].change].base = live["knobs"] /\ ~AppliedToday
       ELSE waiting = job[p].change /\ Applications(waiting) = {}

Lock(p) ==
    /\ pc[p] = "write" /\ lock = None
    /\ StillMeant(p)
    /\ lock' = p
    /\ Keep(p, "log")
    /\ UNCHANGED <<files, history, ghosts>>

\* Or the lock is taken, it is too late in the day.
NotLocked(p) ==
    /\ pc[p] = "write"
    /\ IF job[p].kind = "knobs" THEN NotApplied(p) ELSE End(p)
    /\ Stutter

\* Mutant: the live file is written, and the history not yet.
SwapFirst(p) ==
    /\ pc[p] = "log"
    /\ live' = [live EXCEPT ![job[p].kind] = job[p].change]
    /\ Keep(p, "swap")
    /\ UNCHANGED <<sealed, latest, waiting, auto, history, lock, ghosts>>

LogApply(p) ==
    /\ pc[p] = "log"
    /\ LET c == job[p].change k == job[p].kind
       IN  /\ stack' = [stack EXCEPT ![k] = Append(@, Entry(c, live[k]))]
           /\ applied' = Append(applied, [change |-> c, day |-> day])
    /\ Keep(p, "swap")
    /\ UNCHANGED <<result, extended, reverts, files, lock, ghosts>>

Swap(p) ==
    /\ pc[p] = "swap"
    /\ live' = [live EXCEPT ![job[p].kind] = job[p].change]
    /\ lock' = None
    /\ End(p)
    /\ UNCHANGED <<sealed, latest, waiting, auto, history, ghosts>>

\* The live file cannot be written: the history says so.
SwapFails(p) ==
    /\ pc[p] = "swap"
    /\ stack' = Popped(job[p].kind)
    /\ lock' = None
    /\ End(p)
    /\ UNCHANGED <<applied, result, extended, reverts, files, ghosts>>

\* A command is killed; its lock goes with it.
Die(p) ==
    /\ pc[p] # "idle"
    /\ deaths' = deaths + 1
    /\ lock' = IF lock = p THEN None ELSE lock
    /\ End(p)
    /\ UNCHANGED <<files, history, day, edits, overlaps>>
    /\ Bounded

-----------------------------------------------------------------------------
Step(p) ==
    \/ SealLessons(p) \/ SealKnobs(p) \/ SealNothing(p)
    \/ NoTrial(p) \/ FindTrial(p) \/ NeverLanded(p) \/ Orphaned(p)
    \/ Pending(p) \/ TimedOut(p) \/ Kept(p) \/ Extended(p) \/ Worse(p)
    \/ Undo(p) \/ Deferred(p) \/ RevertFails(p) \/ LogUndo(p)
    \/ Reverted(p) \/ DisableAuto(p) \/ LogDisabled(p)
    \/ ChooseKnobs(p) \/ ChooseNone(p) \/ ChooseLessons(p) \/ NoLessons(p)
    \/ Rejected(p) \/ Refused(p) \/ Passed(p)
    \/ Lock(p) \/ NotLocked(p) \/ LogApply(p) \/ Swap(p) \/ SwapFails(p)

ByHand == SetSwitch \/ \E k \in Kinds : Edit(k)

Command(p) ==
    \/ BeginPending(p) \/ BeginApply(p) \/ BeginRollback(p) \/ BeginAuto(p) \/ ObserveOnly(p)
    \/ Step(p) \/ Die(p)

Next == Tick \/ ByHand \/ \E p \in Procs : Command(p)

Spec == Init /\ [][Next]_vars

\* The clock goes on, a command that was begun comes to its end, apply-pending
\* is begun every week, and is not for ever too late or kept from the lock.
Fairness ==
    /\ WF_vars(\E p \in Procs : Step(p))
    /\ SF_vars(\E p \in Procs : BeginPending(p)) /\ SF_vars(\E p \in Procs : Undo(p))

FairSpec == Spec /\ Fairness

-----------------------------------------------------------------------------
(* Properties.                                                             *)

\* Every variable keeps to its type; a sealed change has a number of its own.
TypeOK ==
    /\ day \in Days /\ {edits, deaths, overlaps} \subseteq 0..MaxFaults
    /\ sealed \in Seq([kind : Kinds, base : Versions, day : Days]) /\ Len(sealed) <= MaxChanges
    /\ latest \in {0} \cup Changes /\ waiting \in {0} \cup Changes
    /\ live \in [Kinds -> Versions]
    /\ stack \in [Kinds -> Seq([change : Changes, before : Versions])]
    /\ applied \in Seq([change : Changes, day : Days])
    /\ result \in [Changes -> Results \cup {None}]
    /\ extended \subseteq Changes /\ reverts \in Nat
    /\ auto \in BOOLEAN
    /\ lock \in Procs \cup {None}
    /\ pc \in [Procs -> Labels]
    /\ job \in [Procs -> [cmd : Commands \cup {None}, on : BOOLEAN, allow : BOOLEAN, change : {0} \cup Changes,
                           kind : Kinds, extended : BOOLEAN,
                           trial : [change : {0} \cup Changes, before : Versions]]]

\* Never are two changes on trial: whatever commands overlap or die, and though
\* knobs and lessons are applied by different code, what a trial shows is the
\* work of one change (service.py:469, 831).
OneTrial == \A e, f \in OnTrial : e = f

\* A change that is live is in the history as applied and not undone, wherever
\* a command was killed: it can be judged and taken back (service.py:481).
\* Only of commands that do not overlap.
LiveIsRecorded ==
    overlaps = 0 => \A k \in Kinds : live[k] \in Changes =>
        \E i \in 1..Len(stack[k]) : stack[k][i].change = live[k]

\* A change that apply-pending goes on to apply finds no trial open: each way a
\* trial may end but "wait" is final (service.py:626).
SettledMeansOver ==
    overlaps = 0 => \A p \in Procs : pc[p] \in {"choose", "lessons"} => OnTrial = {}

\* With the automatic mode off nothing is applied but what a human asked for, and
\* this holds for the very command that turned it off (service.py:759).
OffMeansOff ==
    overlaps = 0 => \A p \in Procs :
        pc[p] \in {"check", "write", "log", "swap"} /\ job[p].cmd # "apply" /\ ~job[p].allow => auto

\* A trial comes to an end, though nothing can be compared, the command that
\* judges it was killed or the file was edited (service.py:626).
TrialEnds ==
    (\E e \in OnTrial : day - DayApplied(e.change) >= MaxTrialDays) ~> OnTrial = {}
=============================================================================
