-------------------------- MODULE DecisionDelivery --------------------------
(***************************************************************************)
(* Delivery of the daily run's result (decision_delivery/repository.py,    *)
(* service.py, core/artifact_store.py, and the parts of                    *)
(* scripts/run_daily_pipeline.py that begin, resume and end a run).        *)
(*                                                                         *)
(* A daily run ends in a report of its decision, or in a diagnosis.  Either *)
(* is a delivery: it is stored under the hash of its content, a copy to    *)
(* read is laid beside it, and it is published: artifacts/latest/          *)
(* latest.json and then latest.md tell of it.  Attempts follow one another *)
(* under the lock of the daily run, but not in the order of the runs: a    *)
(* run that failed or was killed is resumed under its own name and time of *)
(* start, and the report of any older run may be delivered again.  What is *)
(* published goes by the time of start.  An attempt may be killed between  *)
(* any two writes, and any write may fail.                                 *)
(*                                                                         *)
(* Runs are numbered by their time of start.  A report is a function of    *)
(* the decision it tells of, a diagnosis of its run and its message.       *)
(***************************************************************************)
EXTENDS Integers

CONSTANTS
    MaxRuns,        \* bound: runs that are started
    MaxAttempts,    \* bound: attempts in all
    MaxFaults,      \* bound: kills, failed writes, decisions moved between attempts
    Messages,       \* of what went wrong
    None

Runs == 1..MaxRuns
Statuses == {"approved", "rejected"}
Decisions == [no : 1..MaxAttempts, status : Statuses]

Reports == [run : Runs, kind : {"ready"}, of : Decisions]
Diagnoses == [run : Runs, kind : {"blocked", "failed"}, of : Messages]
Deliveries == Reports \cup Diagnoses

Modes == {"run", "deliver", "calendar"}
Steps == {"idle", "work", "build", "save", "view", "dated", "publish", "copy", "diagnose"}

ASSUME DeliveryAssumption ==
    /\ MaxRuns \in Nat /\ MaxAttempts \in Nat /\ MaxFaults \in Nat
    /\ None \notin Deliveries /\ None \notin Decisions /\ None \notin Statuses

VARIABLES
    runs,       \* how many were started
    summary,    \* pipeline.json of each: status, decision_status, whether Agents answered
    decision,   \* the decision last sealed for each
    there,      \* the runs whose decision is in artifacts/decisions
    stored,     \* artifacts/reports/runs
    views,      \* artifacts/reports/views
    dated,      \* artifacts/reports/dated
    index,      \* what latest.json tells of
    copy,       \* what latest.md tells of
    step,       \* where the attempt under way is
    cur,        \* its run, its mode, its delivery, whether it has failed
    published,  \* how the last attempt ended: it published, or not
    told,       \* the runs of which an attempt delivered
    good,       \* the last report delivered of each run, unless found blocked since
    attempts, faults

artifacts == <<stored, views, dated, index, copy>>
decisions == <<decision, there>>
ghosts == <<published, told, good>>
counts == <<runs, attempts, faults>>
vars == <<summary, decisions, artifacts, step, cur, ghosts, counts>>

NoSummary == [status |-> "none", decision |-> None, outputs |-> FALSE]
Nothing == [run |-> 0, mode |-> "run", failing |-> FALSE, agents |-> FALSE, delivery |-> None]

Init ==
    /\ runs = 0 /\ attempts = 0 /\ faults = 0
    /\ summary = [r \in Runs |-> NoSummary]
    /\ decision = [r \in Runs |-> None]
    /\ there = {} /\ stored = {} /\ views = {} /\ dated = {}
    /\ index = None /\ copy = None
    /\ step = "idle" /\ cur = Nothing
    /\ published = FALSE /\ told = {}
    /\ good = [r \in Runs |-> None]

Ready(d) == d.kind = "ready"
Failed(r, m) == [run |-> r, kind |-> "failed", of |-> m]
Blocked(r, m) == [run |-> r, kind |-> "blocked", of |-> m]
Report(r) == [run |-> r, kind |-> "ready", of |-> decision[r]]

-----------------------------------------------------------------------------
(* An attempt begins.                                                      *)

Begin(r, mode, agents, first, d) ==
    /\ step = "idle" /\ attempts < MaxAttempts
    /\ attempts' = attempts + 1
    /\ step' = first
    /\ cur' = [run |-> r, mode |-> mode, failing |-> d # None, agents |-> agents, delivery |-> d]
    /\ published' = FALSE
    /\ UNCHANGED <<decisions, artifacts, told, good, faults>>

\* A new run: it may come as far as the Agents, or not.
Start(agents) ==
    /\ runs < MaxRuns
    /\ Begin(runs + 1, "run", agents, "work", None)
    /\ runs' = runs + 1
    /\ summary' = [summary EXCEPT ![runs + 1] = [status |-> "running", decision |-> None, outputs |-> agents]]

\* latest_resumable_run, named_resumable_run: not a run that is completed,
\* but for one whose decision was rejected.
Resumable(r) ==
    /\ summary[r].status # "none" /\ summary[r].outputs
    /\ summary[r].status = "completed" => summary[r].decision = "rejected"

\* The run keeps its name, its time of start and the name of its decision.
Resume(r) ==
    /\ Resumable(r)
    /\ Begin(r, "run", TRUE, "work", None)
    /\ summary' = [summary EXCEPT ![r].status = "running", ![r].decision = None]
    /\ UNCHANGED runs

\* deliver_saved_run, of any run that has planned a decision.
Redeliver(r) ==
    /\ summary[r].status # "none"
    /\ Begin(r, "deliver", FALSE, "build", None)
    /\ UNCHANGED <<summary, runs>>

\* Nobody knows whether it is a trading day: a diagnosis, and no run.
NoCalendar(m) ==
    /\ runs < MaxRuns
    /\ Begin(runs + 1, "calendar", FALSE, "save", Failed(runs + 1, m))
    /\ runs' = runs + 1
    /\ UNCHANGED summary

-----------------------------------------------------------------------------
(* The run comes to a decision, or fails.                                  *)

Unsaved == UNCHANGED <<summary, artifacts, ghosts, counts>>

\* The decision is sealed; the same one again is no change, another one in its
\* place is refused (as a failure).  Those on the same account are superseded.
Seal(status) ==
    /\ step = "work" /\ cur.agents
    /\ LET r == cur.run
       IN  /\ IF r \in there THEN decision[r].status = status /\ UNCHANGED decision
              ELSE decision' = [decision EXCEPT ![r] = [no |-> attempts, status |-> status]]
           /\ there' \in {there \cup {r}, {r}}
    /\ step' = "build"
    /\ UNCHANGED cur
    /\ Unsaved

Diagnose(m) ==
    /\ step' = "save"
    /\ cur' = [cur EXCEPT !.failing = TRUE, !.delivery = Failed(cur.run, m)]

\* Something fails, or it is too late for the decision, which is set aside.
Fail(m) ==
    /\ cur.mode = "run" /\ step \in {"work", "build", "diagnose"}
    /\ Diagnose(m)
    /\ there' \in IF step = "build" THEN {there, there \ {cur.run}} ELSE {there}
    /\ UNCHANGED decision
    /\ Unsaved

\* build_delivery: the decision is loaded and rebuilt, and the report with it.
BuildReport ==
    /\ step = "build" /\ cur.run \in there
    /\ step' = "save"
    /\ cur' = [cur EXCEPT !.delivery = Report(cur.run)]
    /\ UNCHANGED decisions
    /\ Unsaved

\* It is not there any more, or does not verify.
BuildBlocked(m) ==
    /\ step = "build"
    /\ step' = "save"
    /\ cur' = [cur EXCEPT !.delivery = Blocked(cur.run, m)]
    /\ good' = [good EXCEPT ![cur.run] = None]
    /\ UNCHANGED <<summary, decisions, artifacts, counts, published, told>>

-----------------------------------------------------------------------------
(* save_delivery: store, lay the copy, then publish.                       *)

Go(next) == step' = next /\ UNCHANGED <<summary, decisions, cur, ghosts, counts>>

\* ImmutableRunStore.save: what is stored under this name has this content.
Save ==
    /\ step = "save"
    /\ stored' = stored \cup {cur.delivery}
    /\ Go("view")
    /\ UNCHANGED <<views, dated, index, copy>>

\* Mutant: the copy to read is left to the end.
ViewLater ==
    /\ step = "view"
    /\ Go(IF Ready(cur.delivery) THEN "dated" ELSE "publish")
    /\ UNCHANGED artifacts

View ==
    /\ step = "view"
    /\ views' = views \cup {cur.delivery}
    /\ Go(IF Ready(cur.delivery) THEN "dated" ELSE "publish")
    /\ UNCHANGED <<stored, dated, index, copy>>

\* publish_dated_copy: one file for a decision and its status.
SameFile(d, e) == d.run = e.run /\ d.of.status = e.of.status

Dated ==
    /\ step = "dated"
    /\ dated' = {d \in dated : ~SameFile(d, cur.delivery)} \cup {cur.delivery}
    /\ Go("publish")
    /\ UNCHANGED <<stored, views, index, copy>>

\* publish: another delivery of the same run is what latest.json tells of.
Rival == index # None /\ index.run = cur.run /\ index # cur.delivery
Invalidated == cur.delivery.kind = "blocked"

\* Mutant: a run that is resumed counts as later than any.
OutdatedByOrder ==
    /\ Rival
    /\ Ready(index) /\ ~Ready(cur.delivery) /\ ~Invalidated

\* Mutant: a late diagnosis replaces the report.
OutdatedByTime == index # None /\ index.run > cur.run

Outdated ==
    \/ index # None /\ index.run > cur.run
    \/ Rival /\ Ready(index) /\ ~Ready(cur.delivery) /\ ~Invalidated

Refused == ~Outdated /\ Rival /\ Ready(index) = Ready(cur.delivery)

-----------------------------------------------------------------------------
(* An attempt ends.                                                        *)

Summarised(status) ==
    summary' = [summary EXCEPT ![cur.run].status = status,
                               ![cur.run].decision = IF status = "completed" THEN decision[cur.run].status ELSE None]

\* save_delivery has returned.
Finish(done) ==
    /\ step' = "idle" /\ cur' = Nothing
    /\ published' = done
    /\ told' = told \cup {cur.run}
    /\ good' = IF Ready(cur.delivery) THEN [good EXCEPT ![cur.run] = cur.delivery] ELSE good
    /\ IF cur.mode = "calendar" THEN UNCHANGED summary
       ELSE Summarised(IF Ready(cur.delivery) THEN "completed" ELSE "failed")
    /\ UNCHANGED <<decisions, runs, attempts, faults>>

\* It has raised: a run saves a diagnosis instead, but once.
Raise ==
    /\ IF cur.mode = "run" /\ ~cur.failing
       THEN step' = "diagnose" /\ UNCHANGED <<cur, summary>>
       ELSE /\ step' = "idle" /\ cur' = Nothing
            /\ IF cur.mode = "run" THEN Summarised("failed") ELSE UNCHANGED summary
    /\ UNCHANGED <<decisions, ghosts, runs, attempts>>

Skip ==
    /\ step = "publish" /\ Outdated
    /\ Finish(FALSE)
    /\ UNCHANGED artifacts

Refuse ==
    /\ step = "publish" /\ Refused
    /\ Raise
    /\ UNCHANGED <<artifacts, faults>>

\* Mutant: what latest.json tells of already is not written again.
PublishOnce ==
    /\ step = "publish" /\ ~Outdated /\ ~Refused
    /\ IF index = cur.delivery THEN Finish(TRUE) /\ UNCHANGED index
       ELSE index' = cur.delivery /\ Go("copy")
    /\ UNCHANGED <<stored, views, dated, copy>>

Publish ==
    /\ step = "publish" /\ ~Outdated /\ ~Refused
    /\ index' = cur.delivery
    /\ Go("copy")
    /\ UNCHANGED <<stored, views, dated, copy>>

PublishCopy ==
    /\ step = "copy"
    /\ copy' = cur.delivery
    /\ Finish(TRUE)
    /\ UNCHANGED <<stored, views, dated, index>>

-----------------------------------------------------------------------------
(* What goes wrong, and what happens between attempts.                     *)

Fault == faults < MaxFaults /\ faults' = faults + 1

\* A write fails, or someone else holds the lock of what is published.
CannotWrite ==
    /\ step \in {"save", "view", "dated", "publish", "copy"}
    /\ Fault /\ Raise
    /\ UNCHANGED artifacts

Die ==
    /\ step # "idle"
    /\ Fault
    /\ step' = "idle" /\ cur' = Nothing
    /\ UNCHANGED <<summary, decisions, artifacts, ghosts, runs, attempts>>

\* A decision is set aside (superseded, void, rolled back, by hand) or comes back.
Move(r) ==
    /\ step = "idle" /\ decision[r] # None
    /\ Fault
    /\ there' = IF r \in there THEN there \ {r} ELSE there \cup {r}
    /\ UNCHANGED <<summary, decision, artifacts, step, cur, ghosts, runs, attempts>>

Next ==
    \/ \E agents \in BOOLEAN : Start(agents)
    \/ \E r \in Runs : Resume(r) \/ Redeliver(r) \/ Move(r)
    \/ \E m \in Messages : NoCalendar(m) \/ Fail(m) \/ BuildBlocked(m)
    \/ \E status \in Statuses : Seal(status)
    \/ BuildReport \/ Save \/ View \/ Dated \/ Skip \/ Refuse \/ Publish \/ PublishCopy
    \/ CannotWrite \/ Die

Spec == Init /\ [][Next]_vars

-----------------------------------------------------------------------------
(* Properties.                                                             *)

\* Every variable keeps to its type; a report is in the dated folder only as such.
TypeOK ==
    /\ runs \in 0..MaxRuns /\ attempts \in 0..MaxAttempts /\ faults \in 0..MaxFaults
    /\ summary \in [Runs -> [status : {"none", "running", "failed", "completed"},
                             decision : Statuses \cup {None}, outputs : BOOLEAN]]
    /\ decision \in [Runs -> Decisions \cup {None}]
    /\ there \subseteq Runs
    /\ stored \subseteq Deliveries /\ views \subseteq Deliveries /\ dated \subseteq Reports
    /\ index \in Deliveries \cup {None} /\ copy \in Deliveries \cup {None}
    /\ step \in Steps
    /\ cur \in [run : {0} \cup Runs, mode : Modes, failing : BOOLEAN, agents : BOOLEAN,
                delivery : Deliveries \cup {None}]
    /\ published \in BOOLEAN /\ told \subseteq Runs
    /\ good \in [Runs -> Reports \cup {None}]

\* What latest.json and latest.md tell of is stored and can be read, wherever an
\* attempt was killed (service.py:39): they never name what is not there.
Backed == \A d \in {index, copy} \ {None} : d \in stored \cap views

\* Once an attempt of a run has delivered, latest.json tells of that run or of a
\* newer one; and if of that run, then of its last report, which no diagnosis of
\* the run hides unless the decision was found blocked since (repository.py:143).
ShowsResult ==
    \A r \in told :
        /\ index # None /\ index.run >= r
        /\ index.run = r /\ good[r] # None => index = good[r]

\* After an attempt that says it published, latest.md is the copy of what
\* latest.json tells of, also where an earlier one was killed in between
\* (repository.py:164).
Repaired == step = "idle" /\ published => copy = index

\* Neither latest.json nor latest.md ever goes back to an older run, whatever is
\* resumed or delivered again and wherever it is killed (repository.py:143).
NeverBack ==
    [][/\ index # None => index' # None /\ index'.run >= index.run
       /\ copy # None => copy' # None /\ copy'.run >= copy.run]_vars

\* A run whose decision was rejected may be resumed once the rules are mended
\* (run_daily_pipeline.py:481): the report of what it then decides is not
\* refused for the one of what was rejected.
ResumedIsDelivered == step = "publish" /\ Ready(cur.delivery) => ~Refused
=============================================================================
