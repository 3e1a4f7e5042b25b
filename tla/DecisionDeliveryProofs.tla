----------------------- MODULE DecisionDeliveryProofs -----------------------
(***************************************************************************)
(* Proofs about DecisionDelivery: its types, that latest.json and          *)
(* latest.md never name what is not there, never go back to an older run,  *)
(* tell of the last report of the newest run that delivered, and agree     *)
(* after a publication.  All follow from one inductive invariant, IInv: it *)
(* adds what an attempt has in hand at each of its steps.                  *)
(***************************************************************************)
EXTENDS DecisionDelivery, TLAPS

USE DeliveryAssumption

Active == {"work", "build", "diagnose"}
Stored == {"view", "dated", "publish", "copy"}
Viewed == {"dated", "publish", "copy"}
Handing == {"save"} \cup Stored
Summaries == [status : {"none", "running", "failed", "completed"},
              decision : Statuses \cup {None}, outputs : BOOLEAN]

\* What the attempt under way has in hand.
InHand ==
    /\ step # "idle" => cur.run \in Runs /\ ~published /\ attempts >= 1
    /\ step \in Handing => cur.delivery \in Deliveries /\ cur.delivery.run = cur.run
    /\ step \in Stored => cur.delivery \in stored
    /\ step \in Viewed => cur.delivery \in views
    /\ step = "dated" => Ready(cur.delivery)
    /\ step = "copy" => index = cur.delivery

\* A decision that is there, or is reported, was sealed.
Sealed ==
    /\ \A r \in there : decision[r] # None
    /\ step \in Handing /\ Ready(cur.delivery) => decision[cur.run] # None

\* What was found blocked is no good report; a good report was delivered.
GoodStands ==
    /\ step \in Handing /\ cur.delivery.kind = "blocked" => good[cur.run] = None
    /\ \A r \in Runs : good[r] # None => r \in told

\* latest.md lags behind latest.json.
CopyLags == copy # None => index # None /\ copy.run <= index.run

IInv == TypeOK /\ InHand /\ Sealed /\ GoodStands /\ CopyLags /\ Backed /\ ShowsResult /\ Repaired

-----------------------------------------------------------------------------
(* What a delivery is.                                                     *)

LEMMA DeliveryFacts ==
    ASSUME NEW d \in Deliveries
    PROVE  /\ d.run \in Runs /\ d.run \in Int
           /\ d.kind \in {"ready", "blocked", "failed"}
           /\ Ready(d) => d \in Reports /\ d.of.status \in Statuses
           /\ d # None
    BY DEF Deliveries, Reports, Diagnoses, Ready, Decisions, Runs

LEMMA DiagnosisIsDelivery ==
    ASSUME NEW r \in Runs, NEW m \in Messages
    PROVE  /\ Failed(r, m) \in Deliveries /\ Failed(r, m).run = r /\ Failed(r, m).kind = "failed"
           /\ Blocked(r, m) \in Deliveries /\ Blocked(r, m).run = r /\ Blocked(r, m).kind = "blocked"
    BY DEF Failed, Blocked, Deliveries, Diagnoses

LEMMA ReportIsDelivery ==
    ASSUME TypeOK, NEW r \in Runs, decision[r] # None
    PROVE  Report(r) \in Deliveries /\ Report(r).run = r /\ Report(r).kind = "ready"
    BY DEF TypeOK, Report, Deliveries, Reports

-----------------------------------------------------------------------------
(* It holds in the beginning.                                              *)

LEMMA InitIInv == Init => IInv
<1> SUFFICES ASSUME Init PROVE IInv
    OBVIOUS
<1>1. TypeOK
    <2>1. /\ 0 \in 0..MaxRuns /\ 0 \in 0..MaxAttempts /\ 0 \in 0..MaxFaults
          /\ NoSummary \in Summaries
          /\ "run" \in Modes /\ "idle" \in Steps
        BY DEF NoSummary, Summaries, Modes, Steps
    <2>2. Nothing \in [run : {0} \cup Runs, mode : Modes, failing : BOOLEAN, agents : BOOLEAN,
                       delivery : Deliveries \cup {None}]
        BY <2>1 DEF Nothing
    <2> QED
        BY <2>1, <2>2 DEF Init, TypeOK, Summaries
<1>2. InHand /\ Sealed /\ GoodStands /\ CopyLags /\ Backed /\ ShowsResult /\ Repaired
    BY DEF Init, InHand, Sealed, GoodStands, CopyLags, Backed, ShowsResult, Repaired, Handing, Stored, Viewed
<1> QED
    BY <1>1, <1>2 DEF IInv

-----------------------------------------------------------------------------
(* An attempt begins.                                                      *)

LEMMA BeginStep ==
    ASSUME IInv, NEW r \in Runs, NEW mode \in Modes, NEW agents \in BOOLEAN, NEW first \in Steps,
           NEW d \in Deliveries \cup {None}, Begin(r, mode, agents, first, d),
           first \in {"work", "build", "save"},
           first = "save" => d \in Deliveries /\ d.run = r /\ d.kind = "failed",
           runs' \in 0..MaxRuns, summary' \in [Runs -> Summaries]
    PROVE  IInv'
<1> USE DEF IInv, Begin, artifacts, decisions
<1>1. TypeOK'
    <2>1. cur' \in [run : {0} \cup Runs, mode : Modes, failing : BOOLEAN, agents : BOOLEAN,
                    delivery : Deliveries \cup {None}]
        <3>1. (d # None) \in BOOLEAN
            OBVIOUS
        <3> QED
            BY <3>1
    <2>2. attempts' \in 0..MaxAttempts
        BY DEF TypeOK
    <2> QED
        BY <2>1, <2>2 DEF TypeOK, Summaries
<1>2. InHand'
    BY DEF InHand, Handing, Stored, Viewed, TypeOK
<1>3. Sealed' /\ GoodStands'
    BY DEF Sealed, GoodStands, Handing, Stored, Ready
<1>4. CopyLags' /\ Backed' /\ ShowsResult' /\ Repaired'
    BY DEF CopyLags, Backed, ShowsResult, Repaired
<1> QED
    BY <1>1, <1>2, <1>3, <1>4

LEMMA BeginsStep ==
    ASSUME IInv,
           \/ \E agents \in BOOLEAN : Start(agents)
           \/ \E r \in Runs : Resume(r) \/ Redeliver(r)
           \/ \E m \in Messages : NoCalendar(m)
    PROVE  IInv'
<1>0. /\ summary \in [Runs -> Summaries] /\ runs \in 0..MaxRuns
      /\ runs < MaxRuns => runs + 1 \in Runs /\ runs + 1 \in 0..MaxRuns
    BY DEF IInv, TypeOK, Runs, Summaries
<1>00. /\ {"run", "deliver", "calendar"} \subseteq Modes /\ {"work", "build", "save"} \subseteq Steps
       /\ None \in Deliveries \cup {None}
    BY DEF Modes, Steps
<1>1. ASSUME NEW agents \in BOOLEAN, Start(agents) PROVE IInv'
    <2>1. summary' \in [Runs -> Summaries] /\ runs + 1 \in Runs /\ runs' \in 0..MaxRuns
        BY <1>0, <1>1 DEF Start, Summaries
    <2>2. Begin(runs + 1, "run", agents, "work", None)
        BY <1>1 DEF Start
    <2> QED
        BY <1>00, <2>1, <2>2, BeginStep
<1>2. ASSUME NEW r \in Runs, Resume(r) PROVE IInv'
    <2>1. summary' \in [Runs -> Summaries] /\ runs' \in 0..MaxRuns
        BY <1>0, <1>2 DEF Resume, Summaries
    <2>2. Begin(r, "run", TRUE, "work", None)
        BY <1>2 DEF Resume
    <2> QED
        BY <1>00, <2>1, <2>2, BeginStep
<1>3. ASSUME NEW r \in Runs, Redeliver(r) PROVE IInv'
    <2>1. summary' \in [Runs -> Summaries] /\ runs' \in 0..MaxRuns
        BY <1>0, <1>3 DEF Redeliver, Summaries
    <2>2. Begin(r, "deliver", FALSE, "build", None)
        BY <1>3 DEF Redeliver
    <2> QED
        BY <1>00, <2>1, <2>2, BeginStep
<1>4. ASSUME NEW m \in Messages, NoCalendar(m) PROVE IInv'
    <2>1. summary' \in [Runs -> Summaries] /\ runs + 1 \in Runs /\ runs' \in 0..MaxRuns
        BY <1>0, <1>4 DEF NoCalendar, Summaries
    <2>2. Begin(runs + 1, "calendar", FALSE, "save", Failed(runs + 1, m))
        BY <1>4 DEF NoCalendar
    <2> QED
        <3>1. Failed(runs + 1, m) \in Deliveries /\ Failed(runs + 1, m).run = runs + 1 /\ Failed(runs + 1, m).kind = "failed"
            BY <2>1, DiagnosisIsDelivery
        <3> QED
            BY <1>00, <2>1, <2>2, <3>1, BeginStep
<1> QED
    BY <1>1, <1>2, <1>3, <1>4

-----------------------------------------------------------------------------
(* The run comes to a decision, or fails.                                  *)

LEMMA SealStep ==
    ASSUME IInv, NEW status \in Statuses, Seal(status)
    PROVE  IInv'
<1> USE DEF IInv, Seal, Unsaved, artifacts, ghosts, counts
<1>0. cur.run \in Runs /\ attempts \in 1..MaxAttempts /\ step = "work" /\ step' = "build"
    BY DEF InHand, TypeOK
<1>1. decision' \in [Runs -> Decisions \cup {None}] /\ there' \subseteq Runs /\ decision'[cur.run] # None
    <2>1. CASE cur.run \in there
        BY <1>0, <2>1 DEF TypeOK, Sealed
    <2>2. CASE cur.run \notin there
        <3>1. [no |-> attempts, status |-> status] \in Decisions
            BY <1>0 DEF Decisions, TypeOK
        <3> QED
            BY <1>0, <2>2, <3>1 DEF TypeOK
    <2> QED
        BY <2>1, <2>2
<1>2. TypeOK'
    BY <1>0, <1>1 DEF TypeOK, Steps
<1>3. InHand'
    BY <1>0 DEF InHand, Handing, Stored, Viewed
<1>4. \A r \in there' : decision'[r] # None
    <2>1. CASE cur.run \in there
        BY <1>1, <2>1 DEF Sealed
    <2>2. CASE cur.run \notin there
        BY <1>0, <1>1, <2>2 DEF Sealed, TypeOK
    <2> QED
        BY <2>1, <2>2
<1>5. Sealed' /\ GoodStands'
    BY <1>0, <1>4 DEF Sealed, GoodStands, Handing, Stored
<1>6. CopyLags' /\ Backed' /\ ShowsResult' /\ Repaired'
    BY <1>0 DEF CopyLags, Backed, ShowsResult, Repaired
<1> QED
    BY <1>2, <1>3, <1>5, <1>6

LEMMA FailStep ==
    ASSUME IInv, NEW m \in Messages, Fail(m)
    PROVE  IInv'
<1> USE DEF IInv, Fail, Diagnose, Unsaved, artifacts, ghosts, counts
<1>0. /\ cur.run \in Runs /\ step # "idle" /\ step' = "save" /\ cur'.run = cur.run
      /\ cur' = [cur EXCEPT !.failing = TRUE, !.delivery = Failed(cur.run, m)]
      /\ there' \subseteq there
    BY DEF InHand, TypeOK
<1>1. Failed(cur.run, m) \in Deliveries /\ Failed(cur.run, m).run = cur.run /\ Failed(cur.run, m).kind = "failed"
    BY <1>0, DiagnosisIsDelivery
<1>2. cur'.delivery = Failed(cur.run, m)
    BY <1>0 DEF TypeOK
<1>3. TypeOK'
    BY <1>0, <1>1 DEF TypeOK, Steps
<1>4. InHand'
    BY <1>0, <1>1, <1>2 DEF InHand, Handing, Stored, Viewed
<1>5. Sealed' /\ GoodStands'
    BY <1>0, <1>1, <1>2 DEF Sealed, GoodStands, Ready
<1>6. CopyLags' /\ Backed' /\ ShowsResult' /\ Repaired'
    BY <1>0 DEF CopyLags, Backed, ShowsResult, Repaired
<1> QED
    BY <1>3, <1>4, <1>5, <1>6

LEMMA BuildReportStep ==
    ASSUME IInv, BuildReport
    PROVE  IInv'
<1> USE DEF IInv, BuildReport, Unsaved, decisions, artifacts, ghosts, counts
<1>0. /\ cur.run \in Runs /\ step = "build" /\ step' = "save" /\ decision[cur.run] # None
      /\ cur' = [cur EXCEPT !.delivery = Report(cur.run)]
    BY DEF InHand, Sealed
<1>1. Report(cur.run) \in Deliveries /\ Report(cur.run).run = cur.run /\ Report(cur.run).kind = "ready"
    BY <1>0, ReportIsDelivery
<1>2. cur'.delivery = Report(cur.run) /\ cur'.run = cur.run
    BY <1>0 DEF TypeOK
<1>3. TypeOK'
    BY <1>0, <1>1 DEF TypeOK, Steps
<1>4. InHand'
    BY <1>0, <1>1, <1>2 DEF InHand, Handing, Stored, Viewed
<1>5. Sealed' /\ GoodStands'
    BY <1>0, <1>1, <1>2 DEF Sealed, GoodStands
<1>6. CopyLags' /\ Backed' /\ ShowsResult' /\ Repaired'
    BY <1>0 DEF CopyLags, Backed, ShowsResult, Repaired
<1> QED
    BY <1>3, <1>4, <1>5, <1>6

LEMMA BuildBlockedStep ==
    ASSUME IInv, NEW m \in Messages, BuildBlocked(m)
    PROVE  IInv'
<1> USE DEF IInv, BuildBlocked, decisions, artifacts, counts
<1>0. /\ cur.run \in Runs /\ step = "build" /\ step' = "save"
      /\ cur' = [cur EXCEPT !.delivery = Blocked(cur.run, m)]
      /\ good' = [good EXCEPT ![cur.run] = None]
    BY DEF InHand
<1>1. Blocked(cur.run, m) \in Deliveries /\ Blocked(cur.run, m).run = cur.run /\ Blocked(cur.run, m).kind = "blocked"
    BY <1>0, DiagnosisIsDelivery
<1>2. cur'.delivery = Blocked(cur.run, m) /\ cur'.run = cur.run
    BY <1>0 DEF TypeOK
<1>3. \A r \in Runs : good'[r] = None \/ good'[r] = good[r]
    BY <1>0 DEF TypeOK
<1>4. good'[cur.run] = None
    BY <1>0 DEF TypeOK
<1>5. TypeOK'
    BY <1>0, <1>1 DEF TypeOK, Steps
<1>6. InHand'
    BY <1>0, <1>1, <1>2 DEF InHand, Handing, Stored, Viewed
<1>7. Sealed' /\ GoodStands'
    BY <1>0, <1>1, <1>2, <1>3, <1>4 DEF Sealed, GoodStands, Ready
<1>8. ShowsResult'
    BY <1>0, <1>3 DEF ShowsResult, TypeOK
<1>9. CopyLags' /\ Backed' /\ Repaired'
    BY <1>0 DEF CopyLags, Backed, Repaired
<1> QED
    BY <1>5, <1>6, <1>7, <1>8, <1>9

-----------------------------------------------------------------------------
(* save_delivery: store, lay the copy, then publish.                       *)

LEMMA SaveStep ==
    ASSUME IInv, Save \/ View \/ Dated
    PROVE  IInv'
<1> USE DEF IInv, Go, decisions, ghosts, counts
<1>0. /\ cur.run \in Runs /\ cur.delivery \in Deliveries /\ cur.delivery.run = cur.run
      /\ UNCHANGED <<summary, decision, there, cur, index, copy, published, told, good, runs, attempts, faults>>
      /\ stored \subseteq stored' /\ views \subseteq views'
      /\ step \in Handing /\ step' \in {"view", "dated", "publish"} /\ ~published /\ attempts >= 1
    BY DEF InHand, Handing, Stored, Save, View, Dated
<1>1. /\ stored' \subseteq Deliveries /\ views' \subseteq Deliveries
      /\ cur.delivery \in stored'
      /\ step' \in Viewed => cur.delivery \in views'
      /\ step' = "dated" => Ready(cur.delivery)
    BY <1>0 DEF InHand, Stored, Viewed, Save, View, Dated, TypeOK
<1>2. dated' \subseteq Reports
    <2>1. CASE Dated
        <3>1. cur.delivery \in Reports
            BY <1>0, <2>1, DeliveryFacts DEF Dated, InHand
        <3> QED
            BY <2>1, <3>1 DEF Dated, TypeOK
    <2>2. CASE Save \/ View
        BY <2>2 DEF Save, View, TypeOK
    <2> QED
        BY <2>1, <2>2
<1>3. TypeOK'
    BY <1>0, <1>1, <1>2 DEF TypeOK, Steps
<1>4. InHand'
    BY <1>0, <1>1 DEF InHand, Handing, Stored
<1>5. Sealed' /\ GoodStands'
    BY <1>0 DEF Sealed, GoodStands, Handing, Stored
<1>6. CopyLags' /\ Backed' /\ ShowsResult' /\ Repaired'
    BY <1>0 DEF CopyLags, Backed, ShowsResult, Repaired
<1> QED
    BY <1>3, <1>4, <1>5, <1>6

\* What publish may replace: an older run's delivery, or a worse one of this run.
LEMMA PublishReplaces ==
    ASSUME IInv, step = "publish", ~Outdated, ~Refused
    PROVE  /\ cur.run \in Runs /\ cur.delivery \in Deliveries /\ cur.delivery.run = cur.run
           /\ cur.delivery \in stored \cap views /\ cur.delivery # None
           /\ index # None => index \in Deliveries /\ index.run \in Runs /\ index.run <= cur.run
           /\ index # None /\ index.run = cur.run /\ index # cur.delivery =>
                ~Ready(index) \/ cur.delivery.kind = "blocked"
<1>1. /\ cur.run \in Runs /\ cur.delivery \in Deliveries /\ cur.delivery.run = cur.run
      /\ cur.delivery \in stored \cap views
    BY DEF IInv, InHand, Handing, Stored, Viewed
<1>2. index # None => index \in Deliveries /\ index.run \in Runs
    BY DeliveryFacts DEF IInv, TypeOK
<1>3. index # None => index.run <= cur.run
    BY <1>1, <1>2 DEF Outdated, Runs
<1>4. index # None /\ index.run = cur.run /\ index # cur.delivery =>
        ~Ready(index) \/ cur.delivery.kind = "blocked"
    BY DEF Outdated, Refused, Rival, Invalidated
<1> QED
    BY <1>1, <1>2, <1>3, <1>4, DeliveryFacts

LEMMA PublishStep ==
    ASSUME IInv, Publish
    PROVE  IInv'
<1> USE DEF IInv, Go, decisions, ghosts, counts
<1>0. /\ step = "publish" /\ step' = "copy" /\ index' = cur.delivery
      /\ UNCHANGED <<summary, decision, there, cur, stored, views, dated, copy, published, told, good,
                     runs, attempts, faults>>
      /\ ~Outdated /\ ~Refused
    BY DEF Publish
<1>1. /\ cur.run \in Runs /\ cur.delivery \in Deliveries /\ cur.delivery.run = cur.run
      /\ cur.delivery \in stored \cap views /\ cur.delivery # None
      /\ index # None => index \in Deliveries /\ index.run \in Runs /\ index.run <= cur.run
    BY <1>0, PublishReplaces
<1>2. TypeOK'
    BY <1>0, <1>1 DEF TypeOK, Steps
<1>3. InHand'
    BY <1>0, <1>1 DEF InHand, Handing, Stored, Viewed
<1>4. Sealed' /\ GoodStands' /\ Repaired'
    BY <1>0 DEF Sealed, GoodStands, Handing, Stored, Repaired
<1>5. CopyLags'
    <2>1. copy # None => copy.run \in Runs
        BY DeliveryFacts DEF TypeOK
    <2> QED
        BY <1>0, <1>1, <2>1 DEF CopyLags, Runs
<1>6. Backed'
    BY <1>0, <1>1 DEF Backed
<1>7. ShowsResult'
    <2> SUFFICES ASSUME NEW r \in told
                 PROVE  /\ cur.delivery.run >= r
                        /\ cur.run = r /\ good[r] # None => cur.delivery = good[r]
        BY <1>0, <1>1 DEF ShowsResult
    <2>1. r \in Runs /\ index # None /\ index.run >= r /\ (index.run = r /\ good[r] # None => index = good[r])
        BY DEF TypeOK, ShowsResult
    <2>2. cur.delivery.run >= r
        BY <1>1, <2>1 DEF Runs
    <2>3. ASSUME cur.run = r, good[r] # None PROVE cur.delivery = good[r]
        <3>1. index.run = r
            BY <1>1, <2>1, <2>3 DEF Runs
        <3>2. index = good[r] /\ Ready(index)
            BY <2>1, <2>3, <3>1 DEF TypeOK, Reports, Ready
        <3>3. cur.delivery.kind # "blocked"
            BY <1>0, <2>3 DEF GoodStands, Handing, Stored
        <3> QED
            BY <1>0, <2>1, <2>3, <3>1, <3>2, <3>3, PublishReplaces
    <2> QED
        BY <2>2, <2>3
<1> QED
    BY <1>2, <1>3, <1>4, <1>5, <1>6, <1>7

-----------------------------------------------------------------------------
(* An attempt ends.                                                        *)

LEMMA NothingInHand == Nothing \in [run : {0} \cup Runs, mode : Modes, failing : BOOLEAN,
                                    agents : BOOLEAN, delivery : Deliveries \cup {None}]
    BY DEF Nothing, Modes

LEMMA SummaryKept ==
    ASSUME TypeOK, cur.run \in Runs, NEW status \in {"completed", "failed"}, Summarised(status),
           status = "completed" => decision[cur.run] # None
    PROVE  summary' \in [Runs -> Summaries]
<1>1. IF status = "completed" THEN decision[cur.run].status \in Statuses ELSE TRUE
    BY DEF TypeOK, Decisions
<1> QED
    BY <1>1 DEF TypeOK, Summarised, Summaries

\* What both ways publish may return have in common.
LEMMA FinishStep ==
    ASSUME IInv, NEW done \in BOOLEAN, Finish(done), step \in {"publish", "copy"},
           UNCHANGED <<stored, views, dated>>
    PROVE  /\ index' \in Deliveries \cup {None} /\ copy' \in Deliveries \cup {None} => TypeOK'
           /\ InHand' /\ Sealed' /\ GoodStands'
<1> USE DEF IInv, Finish, decisions
<1>0. /\ cur.run \in Runs /\ cur.delivery \in Deliveries /\ step' = "idle" /\ cur' = Nothing
      /\ UNCHANGED <<decision, there, runs, attempts, faults>>
    BY DEF InHand, Handing, Stored
<1>1. summary' \in [Runs -> Summaries]
    <2>1. CASE cur.mode = "calendar"
        BY <2>1 DEF TypeOK, Summaries
    <2>2. CASE cur.mode # "calendar"
        <3>1. Ready(cur.delivery) => decision[cur.run] # None
            BY DEF Sealed, Handing, Stored
        <3>2. CASE Ready(cur.delivery)
            BY <1>0, <2>2, <3>1, <3>2, SummaryKept
        <3>3. CASE ~Ready(cur.delivery)
            BY <1>0, <2>2, <3>3, SummaryKept
        <3> QED
            BY <3>2, <3>3
    <2> QED
        BY <2>1, <2>2
<1>2. /\ good' \in [Runs -> Reports \cup {None}]
      /\ \A r \in Runs : good'[r] # None => r = cur.run \/ good[r] # None
    <2>1. CASE Ready(cur.delivery)
        <3>1. cur.delivery \in Reports
            BY <1>0, <2>1, DeliveryFacts
        <3> QED
            BY <1>0, <2>1, <3>1 DEF TypeOK
    <2>2. CASE ~Ready(cur.delivery)
        BY <2>2 DEF TypeOK
    <2> QED
        BY <2>1, <2>2
<1>3. told' = told \cup {cur.run} /\ told' \subseteq Runs
    BY <1>0 DEF TypeOK
<1>4. index' \in Deliveries \cup {None} /\ copy' \in Deliveries \cup {None} => TypeOK'
    BY <1>0, <1>1, <1>2, <1>3, NothingInHand DEF TypeOK, Summaries, Steps
<1>5. InHand' /\ Sealed'
    BY <1>0 DEF InHand, Sealed, Handing, Stored, Viewed
<1>6. GoodStands'
    BY <1>0, <1>2, <1>3 DEF GoodStands, Handing, Stored
<1> QED
    BY <1>4, <1>5, <1>6

\* The rest: what latest.json tells of is the delivery or outdates it.
LEMMA FinishShows ==
    ASSUME IInv, NEW done \in BOOLEAN, Finish(done), step \in {"publish", "copy"}, UNCHANGED index,
           index = cur.delivery \/ Outdated
    PROVE  ShowsResult'
<1> USE DEF IInv, Finish
<1>0. cur.run \in Runs /\ cur.delivery \in Deliveries /\ cur.delivery.run = cur.run
    BY DEF InHand, Handing, Stored
<1>1. /\ index # None /\ index.run \in Runs /\ index.run >= cur.run
      /\ index.run = cur.run => index = cur.delivery \/ ~Ready(cur.delivery)
    BY <1>0, DeliveryFacts DEF Outdated, Rival, Runs, TypeOK
<1> SUFFICES ASSUME NEW r \in told'
             PROVE  index.run >= r /\ (index.run = r /\ good'[r] # None => index = good'[r])
    BY <1>1 DEF ShowsResult
<1>2. CASE r # cur.run
    BY <1>0, <1>2 DEF ShowsResult, TypeOK
<1>3. CASE r = cur.run /\ Ready(cur.delivery)
    <2>1. good'[r] = cur.delivery
        BY <1>0, <1>3 DEF TypeOK
    <2> QED
        BY <1>1, <1>3, <2>1
<1>4. CASE r = cur.run /\ ~Ready(cur.delivery)
    <2>1. good' = good
        BY <1>4
    <2>2. index.run = r /\ good[r] # None => index = good[r]
        BY <1>0, <1>4 DEF ShowsResult, GoodStands
    <2> QED
        BY <1>1, <1>4, <2>1, <2>2
<1> QED
    BY <1>2, <1>3, <1>4

LEMMA SkipStep ==
    ASSUME IInv, Skip
    PROVE  IInv'
<1>0. step = "publish" /\ Outdated /\ Finish(FALSE) /\ UNCHANGED <<stored, views, dated, index, copy>>
    BY DEF Skip, artifacts
<1>1. TypeOK' /\ InHand' /\ Sealed' /\ GoodStands'
    BY <1>0, FinishStep DEF IInv, TypeOK
<1>2. ShowsResult'
    BY <1>0, FinishShows
<1>3. CopyLags' /\ Backed' /\ Repaired'
    BY <1>0 DEF IInv, CopyLags, Backed, Repaired, Finish
<1> QED
    BY <1>1, <1>2, <1>3 DEF IInv

LEMMA PublishCopyStep ==
    ASSUME IInv, PublishCopy
    PROVE  IInv'
<1>0. /\ step = "copy" /\ Finish(TRUE) /\ UNCHANGED <<stored, views, dated, index>>
      /\ copy' = cur.delivery /\ index = cur.delivery /\ cur.delivery \in Deliveries
      /\ cur.delivery \in stored \cap views
    BY DEF PublishCopy, IInv, InHand, Handing, Stored, Viewed
<1>1. TypeOK' /\ InHand' /\ Sealed' /\ GoodStands'
    BY <1>0, FinishStep DEF IInv, TypeOK
<1>2. ShowsResult'
    BY <1>0, FinishShows
<1>3. CopyLags' /\ Backed' /\ Repaired'
    BY <1>0, DeliveryFacts DEF IInv, CopyLags, Backed, Repaired, Runs
<1> QED
    BY <1>1, <1>2, <1>3 DEF IInv

-----------------------------------------------------------------------------
(* What goes wrong, and what happens between attempts.                     *)

\* Whatever stops an attempt leaves what is stored and published alone.
LEMMA StoppedStep ==
    ASSUME IInv, step # "idle", UNCHANGED <<decisions, artifacts, ghosts, runs, attempts>>,
           (step' = "diagnose" /\ cur' = cur) \/ (step' = "idle" /\ cur' = Nothing),
           summary' \in [Runs -> Summaries], faults' \in 0..MaxFaults
    PROVE  IInv'
<1> USE DEF IInv, decisions, artifacts, ghosts
<1>1. TypeOK'
    BY NothingInHand DEF TypeOK, Summaries, Steps
<1>2. InHand' /\ Sealed' /\ GoodStands'
    BY DEF InHand, Sealed, GoodStands, Handing, Stored, Viewed
<1>3. CopyLags' /\ Backed' /\ ShowsResult' /\ Repaired'
    BY DEF CopyLags, Backed, ShowsResult, Repaired, InHand
<1> QED
    BY <1>1, <1>2, <1>3

LEMMA RaiseStep ==
    ASSUME IInv, Raise, step \in Handing, UNCHANGED artifacts, faults' \in 0..MaxFaults
    PROVE  IInv'
<1>0. cur.run \in Runs /\ step # "idle"
    BY DEF IInv, InHand, Handing, Stored
<1>1. summary' \in [Runs -> Summaries]
    <2>1. CASE UNCHANGED summary
        BY <2>1 DEF IInv, TypeOK, Summaries
    <2>2. CASE Summarised("failed")
        BY <1>0, <2>2, SummaryKept DEF IInv
    <2> QED
        BY <2>1, <2>2 DEF Raise
<1>2. (step' = "diagnose" /\ cur' = cur) \/ (step' = "idle" /\ cur' = Nothing)
    BY DEF Raise
<1> QED
    BY <1>0, <1>1, <1>2, StoppedStep DEF Raise

LEMMA RefuseStep ==
    ASSUME IInv, Refuse
    PROVE  IInv'
    BY RaiseStep DEF Refuse, IInv, TypeOK, Handing, Stored

LEMMA FaultStep ==
    ASSUME IInv, CannotWrite \/ Die
    PROVE  IInv'
<1>0. faults' \in 0..MaxFaults
    BY DEF IInv, TypeOK, CannotWrite, Die, Fault
<1>1. CASE CannotWrite
    BY <1>0, <1>1, RaiseStep DEF CannotWrite, Handing, Stored
<1>2. CASE Die
    <2>1. summary' \in [Runs -> Summaries]
        BY <1>2 DEF Die, IInv, TypeOK, Summaries
    <2> QED
        BY <1>0, <1>2, <2>1, StoppedStep DEF Die
<1> QED
    BY <1>1, <1>2

LEMMA MoveStep ==
    ASSUME IInv, NEW r \in Runs, Move(r)
    PROVE  IInv'
<1> USE DEF IInv, Move, Fault, artifacts, ghosts
<1>1. TypeOK'
    BY DEF TypeOK
<1>2. InHand' /\ Sealed' /\ GoodStands'
    BY DEF InHand, Sealed, GoodStands, Handing, Stored, Viewed
<1>3. CopyLags' /\ Backed' /\ ShowsResult' /\ Repaired'
    BY DEF CopyLags, Backed, ShowsResult, Repaired
<1> QED
    BY <1>1, <1>2, <1>3

LEMMA StutterStep ==
    ASSUME IInv, UNCHANGED vars
    PROVE  IInv'
<1> USE DEF IInv, vars, decisions, artifacts, ghosts, counts
<1>1. TypeOK' /\ InHand' /\ Sealed' /\ GoodStands'
    BY DEF TypeOK, InHand, Sealed, GoodStands
<1>2. CopyLags' /\ Backed' /\ ShowsResult' /\ Repaired'
    BY DEF CopyLags, Backed, ShowsResult, Repaired
<1> QED
    BY <1>1, <1>2

-----------------------------------------------------------------------------
(* The theorems.                                                           *)

LEMMA NextIInv ==
    ASSUME IInv, [Next]_vars
    PROVE  IInv'
<1>1. CASE \/ \E agents \in BOOLEAN : Start(agents)
           \/ \E r \in Runs : Resume(r) \/ Redeliver(r)
           \/ \E m \in Messages : NoCalendar(m)
    BY <1>1, BeginsStep
<1>2. CASE \E r \in Runs : Move(r)
    BY <1>2, MoveStep
<1>3. CASE \E m \in Messages : Fail(m) \/ BuildBlocked(m)
    BY <1>3, FailStep, BuildBlockedStep
<1>4. CASE \E status \in Statuses : Seal(status)
    BY <1>4, SealStep
<1>5. CASE BuildReport \/ Save \/ View \/ Dated \/ Skip \/ Refuse \/ Publish \/ PublishCopy
    BY <1>5, BuildReportStep, SaveStep, SkipStep, RefuseStep, PublishStep, PublishCopyStep
<1>6. CASE CannotWrite \/ Die
    BY <1>6, FaultStep
<1>7. CASE UNCHANGED vars
    BY <1>7, StutterStep
<1> QED
    BY <1>1, <1>2, <1>3, <1>4, <1>5, <1>6, <1>7 DEF Next

\* The invariant holds in every state of every attempt at delivery, for any
\* number of runs, attempts, kills and failed writes.
THEOREM DeliveryInvariant == Spec => []IInv
    BY InitIInv, NextIInv, PTL DEF Spec

\* Every variable of the delivery keeps to its type.
THEOREM DeliveryTypes == Spec => []TypeOK
    BY DeliveryInvariant, PTL DEF IInv

\* latest.json and latest.md never name a delivery that is not stored and readable.
THEOREM LatestIsBacked == Spec => []Backed
    BY DeliveryInvariant, PTL DEF IInv

\* latest.json tells of the newest run that delivered, and of that run's report
\* whatever diagnosis comes after it.
THEOREM LatestShowsResult == Spec => []ShowsResult
    BY DeliveryInvariant, PTL DEF IInv

\* After an attempt that says it published, latest.md agrees with latest.json.
THEOREM LatestIsRepaired == Spec => []Repaired
    BY DeliveryInvariant, PTL DEF IInv

LEMMA LatestStep ==
    ASSUME IInv, [Next]_vars
    PROVE  /\ index # None => index' # None /\ index'.run >= index.run
           /\ copy # None => copy' # None /\ copy'.run >= copy.run
<1>0. /\ index # None => index.run \in Int
      /\ copy # None => copy.run \in Int
    BY DeliveryFacts DEF IInv, TypeOK
<1>1. CASE Publish
    BY <1>0, <1>1, PublishReplaces DEF Publish, Go
<1>2. CASE PublishCopy
    <2>1. cur.delivery = index /\ copy' = index /\ index' = index /\ index # None
        BY <1>2, DeliveryFacts DEF PublishCopy, IInv, InHand, Handing, Stored
    <2> QED
        BY <1>0, <2>1 DEF IInv, CopyLags
<1>3. CASE ~Publish /\ ~PublishCopy
    <2>1. UNCHANGED <<index, copy>>
        BY <1>3 DEF Next, vars, artifacts, Start, Resume, Redeliver, Move, NoCalendar, Begin, Fail, BuildBlocked,
            Seal, Unsaved, BuildReport, Save, View, Dated, Skip, Refuse, CannotWrite, Die
    <2> QED
        BY <1>0, <2>1
<1> QED
    BY <1>1, <1>2, <1>3

\* Neither latest.json nor latest.md ever goes back to an older run.
THEOREM LatestNeverBack == Spec => NeverBack
<1>1. ASSUME IInv, [Next]_vars
      PROVE  [/\ index # None => index' # None /\ index'.run >= index.run
              /\ copy # None => copy' # None /\ copy'.run >= copy.run]_vars
    BY <1>1, LatestStep
<1> QED
    BY <1>1, DeliveryInvariant, PTL DEF Spec, NeverBack
=============================================================================
