-------------------------- MODULE DecisionLifecycle --------------------------
(***************************************************************************)
(* One decision from the data it is made on to the session that settles it *)
(* (src/scripts/run_daily_pipeline.py, virtual_account/daily.py and the    *)
(* account binding of competition/service.py).                             *)
(*                                                                         *)
(* A daily run builds a new Snapshot, advances the account - it settles    *)
(* the decision of a session whose close is published, voids the decision  *)
(* of a session that turned out closed, sets aside a decision whose        *)
(* session has not started - makes a decision, puts it in the store and    *)
(* exports its D-Plan, the file that is uploaded for the session.  A run   *)
(* that set a decision aside and exported nothing puts everything back.    *)
(* The run lock lets one run work at a time, but a run is many steps: time *)
(* passes between them, a step may fail, and the process may be killed.    *)
(*                                                                         *)
(* The account is its line of states, as AccountChain promises it and      *)
(* VirtualAccountRepository keeps it; a decision is named after the run    *)
(* that made it, a state after the run that prepared it.  A run without a  *)
(* data stage (--skip-data, --resume) works on the Snapshot and the        *)
(* account snapshot that are there.                                        *)
(***************************************************************************)
EXTENDS Integers, Sequences, SequencesExt, FiniteSetsExt

CONSTANTS
    LastSession,    \* bound: the sessions that are played
    LastTime,       \* bound: the clock
    MaxRuns,        \* bound: the daily runs
    Skips,          \* {FALSE}, or {FALSE, TRUE} with runs without a data stage
    Rebases,        \* {FALSE}, or {FALSE, TRUE} with --rebase-to-datapack
    None

ASSUME LifecycleAssumption ==
    /\ LastSession \in Nat /\ LastTime \in Nat /\ MaxRuns \in Nat
    /\ Skips \subseteq BOOLEAN /\ Rebases \subseteq BOOLEAN
    /\ None \notin Nat

Runs == 1..MaxRuns
Sessions == 1..LastSession

\* The deadline of session s passes at 3 * s - 1, its market closes by 3 * s.
Deadline(s) == 3 * s - 1
CloseTime(s) == 3 * s

VARIABLES
    now,        \* the clock
    published,  \* the sessions whose official closing prices are in the database
    closed,     \* the sessions the calendar says were cancelled
    chain,      \* the account: its states from genesis to latest
    store,      \* artifacts/decisions: the decisions in it
    archive,    \* artifacts/archive/superseded_decisions
    voided,     \* artifacts/archive/voided_closed_sessions
    facts,      \* what is sealed in each decision: account run, session; was it late
    plan,       \* the D-Plan main file of each session: the decision it was made from
    snapshot,   \* research_snapshot_latest.json: the run that built it, its cutoff
    output,     \* account_snapshot_latest.json: the account run it was written from
    lastRun,    \* how many daily runs there were
    pc,         \* where the run is
    pending,    \* the decision and account run it found waiting when it began
    backup,     \* the Snapshot it keeps for putting back
    superseded, \* it set the pending decision aside
    session,    \* the session it decides for
    bound,      \* the account run its D-Plan is bound to
    ready,      \* its D-Plan is written
    byHand,     \* putting back failed: the account needs a human
    killed      \* a run was killed

world == <<now, published, closed>>
decisions == <<store, archive, voided, facts>>
books == <<chain, decisions, plan, snapshot, output>>
local == <<pending, backup, superseded, session, bound, ready>>
vars == <<world, books, lastRun, pc, local, byHand, killed>>

NoPending == [decision |-> None, account |-> None]
NoFacts == [account |-> None, session |-> None, late |-> FALSE]
NoSnapshot == [run |-> None, cutoff |-> None]

\* States: their kind, the run that made them; of a prepared one the Snapshot,
\* of a close the decision it settles and its session.
StateOf(kind, r) == [kind |-> kind, run |-> r, snapshot |-> None, decision |-> None, session |-> None]
Prepared(r, snap) == [StateOf("prepared", r) EXCEPT !.snapshot = snap]
Closed(r, d, s) == [StateOf("close", r) EXCEPT !.decision = d, !.session = s]

\* The account run of the prepare that follows a rebase in run r.
AfterRebase(r) == MaxRuns + r
AccountRuns == 0..(2 * MaxRuns)

Init ==
    /\ now = 0 /\ published = {} /\ closed = {}
    /\ chain = <<StateOf("genesis", 0)>>
    /\ store = {} /\ archive = {} /\ voided = {}
    /\ facts = [d \in Runs |-> NoFacts]
    /\ plan = [s \in Sessions |-> None]
    /\ snapshot = NoSnapshot
    /\ output = None
    /\ lastRun = 0
    /\ pc = "idle"
    /\ pending = NoPending /\ backup = NoSnapshot /\ superseded = FALSE
    /\ session = None /\ bound = None /\ ready = FALSE
    /\ byHand = FALSE /\ killed = FALSE

me == lastRun
head == Last(chain)

\* calendar.next_trading_session: the first session whose deadline is to come.
Target(time) ==
    LET open == {s \in Sessions \ closed : time < Deadline(s)}
    IN  IF open = {} THEN None ELSE Min(open)

\* session_deadline_passed; a missing session counts as past.
DeadlinePassed(s) == IF s = None THEN TRUE ELSE now >= Deadline(s)

\* find_decision_run: the decisions made on the account snapshot of a prepare.
DecisionsOf(account) == {d \in store : facts[d].account = account}

-----------------------------------------------------------------------------
(* The world around the program.                                           *)

Tick ==
    /\ now < LastTime
    /\ now' = now + 1
    /\ UNCHANGED <<published, closed, books, lastRun, pc, local, byHand>>

\* The closing prices arrive some time after the close.
Publish(s) ==
    /\ s \notin published \cup closed
    /\ now >= CloseTime(s)
    /\ published' = published \cup {s}
    /\ UNCHANGED <<now, closed, books, lastRun, pc, local, byHand>>

\* A session is cancelled (a typhoon), as late as the day itself; bound: one.
CallOff(s) ==
    /\ closed = {} /\ s \notin published
    /\ now < CloseTime(s)
    /\ closed' = closed \cup {s}
    /\ UNCHANGED <<now, published, books, lastRun, pc, local, byHand>>

-----------------------------------------------------------------------------
(* The data stage.                                                         *)

Goto(label) == pc' = label

\* The process has ended: nothing of the run is remembered.
End ==
    /\ pc' = "idle"
    /\ pending' = NoPending /\ backup' = NoSnapshot /\ superseded' = FALSE
    /\ session' = None /\ bound' = None /\ ready' = FALSE

\* Leave the rest of the run for its end; what is saved stays.
Fail(label) ==
    /\ pc = label
    /\ Goto("ended")
    /\ UNCHANGED <<world, books, lastRun, local, byHand>>

\* Mutant: the newest decision is the one that waits.
NewestWaits == IF head.kind = "prepared" /\ store # {} THEN {Max(store)} ELSE {}

\* The decisions that wait for their session.
Waiting == IF head.kind = "prepared" THEN DecisionsOf(head.run) ELSE {}

\* A new run.  pending_decision remembers what it finds waiting, unless two
\* decisions were made on one account snapshot; a run without a data stage
\* does not look.
Begin(skips) ==
    /\ pc = "idle" /\ lastRun < MaxRuns
    /\ skips => snapshot # NoSnapshot /\ output # None
    /\ lastRun' = lastRun + 1
    /\ pending' = IF ~skips /\ Cardinality(Waiting) = 1
                    THEN [decision |-> Min(Waiting), account |-> head.run] ELSE NoPending
    /\ backup' = IF pending' # NoPending THEN snapshot ELSE NoSnapshot
    /\ Goto(IF skips THEN "check" ELSE IF Cardinality(Waiting) > 1 THEN "ended" ELSE "data")
    /\ UNCHANGED <<world, books, superseded, session, bound, ready, byHand>>

\* The new Snapshot, and DailyAccountRunner.settle, which only looks at what
\* was published by its cutoff.
Advance ==
    /\ pc = "data"
    /\ snapshot' = [run |-> me, cutoff |-> now]
    /\ UNCHANGED <<world, facts, plan, output, lastRun, local, byHand>>

NothingToSettle ==
    /\ Advance
    /\ Waiting = {}
    /\ Goto("prepare")
    /\ UNCHANGED <<chain, store, archive, voided>>

SettleDecision(d) ==
    /\ Advance
    /\ Waiting = {d}
    /\ facts[d].session \in published
    /\ chain' = Append(chain, Closed(me, d, facts[d].session))
    /\ Goto("prepare")
    /\ UNCHANGED <<store, archive, voided>>

VoidDecision(d) ==
    /\ Advance
    /\ Waiting = {d}
    /\ facts[d].session \in closed
    /\ store' = store \ {d}
    /\ voided' = voided \cup {d}
    /\ Goto("prepare")
    /\ UNCHANGED <<chain, archive>>

\* supersede_unstarted_decision.
Unstarted(d) ==
    /\ facts[d].session \notin published \cup closed
    /\ now < Deadline(facts[d].session)

SupersedeUnstarted(d) ==
    /\ Advance
    /\ Waiting = {d}
    /\ Unstarted(d)
    /\ store' = store \ {d}
    /\ archive' = archive \cup {d}
    /\ Goto("prepare")
    /\ UNCHANGED <<chain, voided>>

\* Mutant: a run that failed does not look what it had set aside.
SetAsideIfDone == pc = "output" /\ pending # NoPending /\ pending.decision \notin store \cup voided

\* The finally of the data stage: is the pending decision gone from the store,
\* and not because it was voided?
SetAside == pending # NoPending /\ pending.decision \notin store \cup voided

\* The session is over but its prices are not there: no new prepare.
HeldUp ==
    /\ Advance
    /\ \E d \in Waiting : ~Unstarted(d) /\ facts[d].session \notin published \cup closed
    /\ Goto("ended")
    /\ UNCHANGED <<chain, store, archive, voided>>

Prepare ==
    /\ pc = "prepare"
    /\ chain' = Append(chain, Prepared(me, me))
    /\ Goto("output")
    /\ UNCHANGED <<world, decisions, plan, snapshot, output, lastRun, local, byHand>>

WriteOutput ==
    /\ pc = "output"
    /\ output' = me
    /\ superseded' = SetAside
    /\ Goto("check")
    /\ UNCHANGED <<world, chain, decisions, plan, snapshot, lastRun, pending, backup,
                   session, bound, ready, byHand>>

\* Any step of it may fail, with the Snapshot built or not.
DataStageFails ==
    /\ pc \in {"data", "prepare", "output"}
    /\ snapshot' \in {snapshot, IF pc = "data" THEN [run |-> me, cutoff |-> now] ELSE snapshot}
    /\ superseded' = SetAside
    /\ Goto("ended")
    /\ UNCHANGED <<world, chain, decisions, plan, output, lastRun, pending, backup,
                   session, bound, ready, byHand>>

-----------------------------------------------------------------------------
(* The decision.                                                           *)

\* The trading-status bundle gives the Snapshot its session; none that is past
\* its deadline is decided for.
InSession(target) ==
    /\ pc = "check"
    /\ ~DeadlinePassed(target)
    /\ session' = target
    /\ Goto("decide")
    /\ UNCHANGED <<world, decisions, plan, snapshot, lastRun, pending, backup, superseded,
                   ready, byHand>>

\* datapack_gate: the account agrees with the organiser's.
Reconciled ==
    /\ InSession(Target(snapshot.cutoff))
    /\ bound' = head.run
    /\ UNCHANGED <<chain, output>>

\* Or the account is rebuilt from the organiser's, unless a decision waits on
\* it: a rebase and a prepare, published together with the account snapshot.
RebaseToDatapack ==
    /\ InSession(Target(snapshot.cutoff))
    /\ TRUE \in Rebases /\ head.kind = "prepared" /\ Waiting = {}
    /\ chain' = chain \o <<StateOf("rebase", AfterRebase(me)),
                          Prepared(AfterRebase(me), snapshot.run)>>
    /\ output' = AfterRebase(me)
    /\ bound' = AfterRebase(me)

\* The decision chain seals its decision, made on the account snapshot that
\* lies there.
Seal ==
    /\ pc = "decide"
    /\ store' = store \cup {me}
    /\ facts' = [facts EXCEPT ![me] = [account |-> output, session |-> session,
                                      late |-> DeadlinePassed(session)]]
    /\ Goto("sealed")
    /\ UNCHANGED <<world, chain, archive, voided, plan, snapshot, output,
                   lastRun, local, byHand>>

InTime ==
    /\ pc = "sealed"
    /\ ~DeadlinePassed(session)
    /\ Goto("fresh")
    /\ UNCHANGED <<world, books, lastRun, local, byHand>>

\* Mutant: the late decision is only refused.
RefuseOnly ==
    /\ pc = "sealed"
    /\ DeadlinePassed(session)
    /\ Goto("ended")
    /\ UNCHANGED <<world, books, lastRun, local, byHand>>

\* refuse_late_decision: with a decision to put back, the putting back will
\* also archive the new one; without, it is archived here.
RefuseLate ==
    /\ pc = "sealed"
    /\ DeadlinePassed(session)
    /\ store' = IF superseded THEN store ELSE store \ {me}
    /\ archive' = IF superseded THEN archive ELSE archive \cup {me}
    /\ Goto("ended")
    /\ UNCHANGED <<world, chain, voided, facts, plan, snapshot, output,
                   lastRun, local, byHand>>

\* supersede_decision_runs: the older decisions on the same account snapshot
\* go to the archive, with a look of its own at the clock: if one of them may
\* have been uploaded, the new one goes instead.
Older == DecisionsOf(facts[me].account) \ {me}

\* Mutant: the older decisions are left where they are.
KeepOlder ==
    /\ pc = "fresh"
    /\ Goto("export")
    /\ UNCHANGED <<world, books, lastRun, local, byHand>>

\* Mutant: the older decisions go, whatever the clock says.
SupersedeAnyway ==
    /\ pc = "fresh"
    /\ store' = store \ Older
    /\ archive' = archive \cup Older
    /\ Goto("export")
    /\ UNCHANGED <<world, chain, voided, facts, plan, snapshot, output,
                   lastRun, local, byHand>>

SupersedeOlder ==
    /\ pc = "fresh"
    /\ \A d \in Older : ~DeadlinePassed(facts[d].session)
    /\ store' = store \ Older
    /\ archive' = archive \cup Older
    /\ Goto("export")
    /\ UNCHANGED <<world, chain, voided, facts, plan, snapshot, output,
                   lastRun, local, byHand>>

KeepUploaded ==
    /\ pc = "fresh"
    /\ \E d \in Older : DeadlinePassed(facts[d].session)
    /\ store' = store \ {me}
    /\ archive' = archive \cup {me}
    /\ Goto("ended")
    /\ UNCHANGED <<world, chain, voided, facts, plan, snapshot, output,
                   lastRun, local, byHand>>

\* DPlanExportService.export, with verify_account_binding: the account run is
\* latest, prepared, and the one the decision was made on.
Binding ==
    /\ head.kind = "prepared" /\ head.run = bound
    /\ facts[me].account = bound /\ head.snapshot = snapshot.run

Export ==
    /\ pc = "export"
    /\ Binding
    /\ plan' = [plan EXCEPT ![session] = me]
    /\ ready' = TRUE
    /\ Goto("ended")
    /\ UNCHANGED <<world, chain, store, archive, voided, facts, snapshot, output,
                   lastRun, pending, backup, superseded, session, bound, byHand>>

\* A rejected decision, a delivery or an export that fails, leaves no D-Plan.
ExportBlocked ==
    /\ pc = "export"
    /\ Goto("ended")
    /\ UNCHANGED <<world, books, lastRun, local, byHand>>

-----------------------------------------------------------------------------
(* The end of a run, and putting back what it set aside.                   *)

Finish ==
    /\ pc = "ended"
    /\ ~(superseded /\ ~ready)
    /\ End
    /\ UNCHANGED <<world, books, lastRun, byHand>>

\* restore_superseded_decision: the account must stand where the run found it
\* or one state further.
LedgerMoved == head.run # pending.account
Restorable ==
    /\ pending.decision \in archive \ store
    /\ LedgerMoved => chain[Len(chain) - 1].run = pending.account

\* Mutant: the account goes back however far it went.
RestoreAnyDepth ==
    /\ pc = "ended" /\ superseded /\ ~ready
    /\ pending.decision \in archive \ store
    /\ chain' = IF LedgerMoved
                  THEN SelectSeq(chain, LAMBDA e : e.run <= pending.account) ELSE chain
    /\ Goto("discard")
    /\ UNCHANGED <<world, store, archive, voided, facts, plan, snapshot, output,
                   lastRun, local, byHand>>

RestoreLedger ==
    /\ pc = "ended" /\ superseded /\ ~ready
    /\ Restorable
    /\ chain' = IF LedgerMoved THEN Front(chain) ELSE chain
    /\ Goto("discard")
    /\ UNCHANGED <<world, store, archive, voided, facts, plan, snapshot, output,
                   lastRun, local, byHand>>

\* roll_back_superseded reports that it could not, and the run ends.
RestoreFails ==
    /\ \/ pc = "ended" /\ superseded /\ ~ready
       \/ pc \in {"discard", "putBack", "putOutput"}
    /\ byHand' = TRUE
    /\ End
    /\ UNCHANGED <<world, books, lastRun>>

DiscardNew ==
    /\ pc = "discard"
    /\ store' = store \ {me}
    /\ archive' = IF me \in store THEN archive \cup {me} ELSE archive
    /\ Goto("putBack")
    /\ UNCHANGED <<world, chain, voided, facts, plan, snapshot, output,
                   lastRun, local, byHand>>

PutBack ==
    /\ pc = "putBack"
    /\ store' = store \cup {pending.decision}
    /\ archive' = archive \ {pending.decision}
    /\ Goto("putOutput")
    /\ UNCHANGED <<world, chain, voided, facts, plan, snapshot, output,
                   lastRun, local, byHand>>

PutOutput ==
    /\ pc = "putOutput"
    /\ output' = head.run
    /\ snapshot' = backup
    /\ End
    /\ UNCHANGED <<world, chain, decisions, plan, lastRun, byHand>>

\* The process is killed, or the machine goes down: the run lock is free
\* again and nobody remembers the run.
Crash ==
    /\ pc # "idle"
    /\ killed' = TRUE
    /\ End
    /\ UNCHANGED <<world, books, lastRun, byHand>>

-----------------------------------------------------------------------------
World == Tick \/ \E s \in Sessions : Publish(s) \/ CallOff(s)

Run ==
    \/ \E skips \in Skips : Begin(skips)
    \/ NothingToSettle \/ HeldUp
    \/ \E d \in Runs : SettleDecision(d) \/ VoidDecision(d) \/ SupersedeUnstarted(d)
    \/ Prepare \/ WriteOutput \/ DataStageFails
    \/ Reconciled \/ RebaseToDatapack \/ Fail("check") \/ Fail("decide")
    \/ Seal \/ InTime \/ RefuseLate \/ SupersedeOlder \/ KeepUploaded
    \/ Export \/ ExportBlocked \/ Finish
    \/ RestoreLedger \/ RestoreFails \/ DiscardNew \/ PutBack \/ PutOutput

Next ==
    \/ (World \/ Run) /\ UNCHANGED killed
    \/ Crash

Spec == Init /\ [][Next]_vars

-----------------------------------------------------------------------------
(* Properties.                                                             *)

States == [kind : {"genesis", "prepared", "close", "rebase"}, run : AccountRuns,
           snapshot : Runs \cup {None}, decision : Runs \cup {None}, session : Sessions \cup {None}]

\* The decision of every close stays in the store and is nowhere else, for the
\* audit and the next decisions read it there: no later run, whatever account
\* snapshot it finds, takes it for one it may set aside
\* (supersede_decision_runs, daily.py:133-169).
SettledStays ==
    \A k \in 1..Len(chain) :
        chain[k].kind = "close" => chain[k].decision \in store \ (archive \cup voided)

\* No two decisions are settled for the same session.
OneClosePerSession ==
    \A j, k \in 1..Len(chain) :
        chain[j].kind = "close" /\ chain[k].kind = "close" /\ chain[j].session = chain[k].session
            => j = k

\* Between runs every account snapshot has at most one decision, else
\* find_decision_run refuses each later run (daily.py:118-120); unless a run was
\* killed between sealing its decision and setting the older one aside.
OneDecision ==
    pc = "idle" /\ ~killed => \A d, e \in store : facts[d].account = facts[e].account => d = e

\* Between runs no decision is in the store that was finished after the
\* deadline of its session: nothing is settled that was made with hindsight
\* (refuse_late_decision, run_daily_pipeline.py:696-707), as far as no run was
\* killed before it looked at the clock.
NoHindsight ==
    pc = "idle" /\ ~byHand /\ ~killed =>
        \A d \in store : ~facts[d].late

\* Between runs the D-Plan main file of a session is the plan of the decision
\* the ledger will settle, or has settled, for it: a run that set the decision
\* aside and wrote no plan has put it back, with its account state
\* ("upload the D-Plan main file that is there, it agrees with the ledger",
\* docs/operations.md:97).
PlanStands ==
    pc = "idle" /\ ~byHand /\ ~killed =>
        \A s \in Sessions \ closed : plan[s] # None =>
            /\ plan[s] \in store
            /\ \/ head.kind = "prepared" /\ head.run = facts[plan[s]].account
               \/ \E k \in 1..Len(chain) : chain[k].decision = plan[s]

\* And it is, if every decision was made on the account of its own run.
PlanStandsWithData ==
    (\A d \in store \cup archive \cup voided : facts[d].account \in {d, AfterRebase(d)}) => PlanStands

\* The account only ever moves along the line of states AccountChain promises.
Chain == INSTANCE AccountChain WITH chain <- chain, Entry <- States
ImplementsChain == [][Chain!Next]_chain
=============================================================================
