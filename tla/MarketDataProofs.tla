-------------------------- MODULE MarketDataProofs --------------------------
(***************************************************************************)
(* Proofs about MarketData: a snapshot can be read again, a usable one is  *)
(* whole, the newest version is what was heard last, and collecting leaves *)
(* the universe alone.  What all of them rest on is which stamps a step    *)
(* can bring into the store (StepEnters): those of the future, and those   *)
(* of the responses on their way, which a quiet cutoff is earlier than.    *)
(***************************************************************************)
EXTENDS MarketData, FiniteSetTheorems, TLAPS

USE MarketAssumption

\* A response stamped when it came, which is still to be stored.
OnItsWay(j) == jobs[j].pc = "store" /\ jobs[j].kind # "yahoo"

\* No response carries a stamp of the future, and its rows are of symbols of the
\* list it was asked with.
JobFits(job) ==
    /\ job.pc \in {"idle", "store", "done"}
    /\ job.pc = "store" =>
        /\ job.at \in Nat /\ job.at <= now
        /\ job.kind \in AllKinds /\ job.content \in Contents
        /\ job.list \in DOMAIN Lists
        /\ \A r \in job.rows : r.symbol \in Lists[job.list] /\ r.src = job.kind
        /\ \A q, r \in job.rows : q.symbol = r.symbol /\ q.day = r.day => q = r

ProbeFits == probe.pc # "idle" =>
    probe.list \in DOMAIN Lists /\ probe.at \in Nat /\ probe.at <= now

Tables == [Symbols -> [in : BOOLEAN, date : Int]]

TablesFit ==
    /\ now \in Nat /\ edition \in DOMAIN Lists
    /\ instruments \in Tables
    /\ papers \in Seq([at : Nat, content : Contents])
    /\ ProbeFits
    /\ DOMAIN jobs = Jobs
    /\ \A j \in Jobs : JobFits(jobs[j])

-----------------------------------------------------------------------------
(* What a step changes.                                                    *)

\* What is stored in a step is stamped in the future or was on its way.
Enters(at) == at \in Nat /\ (at > now \/ \E j \in Jobs : OnItsWay(j) /\ jobs[j].at = at)

NewVersions == versions \subseteq versions' /\ \A v \in versions' \ versions : Enters(v.at)
NewPapers == \/ papers' = papers
             \/ \E p \in [at : Nat, content : Contents] : Enters(p.at) /\ papers' = Append(papers, p)
NewOnTheWay == \A j \in Jobs : OnItsWay(j)' =>
                   \/ OnItsWay(j) /\ jobs'[j].at = jobs[j].at
                   \/ jobs'[j].at \in Nat /\ jobs'[j].at > now
StepEnters == now' \in Nat /\ now' >= now /\ NewVersions /\ NewPapers /\ NewOnTheWay

\* What is downloaded is stamped in the future or, when it comes from an unofficial
\* source, not yet.
LEMMA DownloadEffect ==
    ASSUME TablesFit, NEW j \in Jobs, NEW kind \in AllKinds, NEW days, NEW at,
           Download(j, kind, days, at)
    PROVE  /\ jobs[j] = Idle
           /\ \A i \in Jobs \ {j} : jobs'[i] = jobs[i]
           /\ jobs'[j].pc = "store" /\ jobs'[j].kind = kind /\ jobs'[j].at = at
           /\ jobs'[j].list = edition
           /\ \A r \in jobs'[j].rows : r.symbol \in Lists[edition] /\ r.src = kind
           /\ \A q, r \in jobs'[j].rows : q.symbol = r.symbol /\ q.day = r.day => q = r
           /\ jobs'[j].content \in Contents
           /\ DOMAIN jobs' = Jobs
           /\ UNCHANGED <<versions, papers, edition, seen, heard, inOrder, snaps, checks, probe>>
<1>1. PICK content \in Contents, missing \in {{}} \cup {{s} : s \in Gaps \cap Lists[edition]} :
        jobs' = [jobs EXCEPT ![j] =
            [pc |-> "store", kind |-> kind, list |-> edition, at |-> at, content |-> content,
             rows |-> Response(kind, content, Lists[edition] \ missing, days)]]
    BY Zenon DEF Download
<1>2. \A r \in Response(kind, content, Lists[edition] \ missing, days) :
        r.symbol \in Lists[edition] /\ r.src = kind
    BY DEF Response
<1>6. \A q, r \in Response(kind, content, Lists[edition] \ missing, days) :
        q.symbol = r.symbol /\ q.day = r.day => q = r
    BY DEF Response
<1>3. UNCHANGED <<versions, papers, edition, seen, heard, inOrder, snaps, checks, probe>>
    BY Zenon DEF Download, prices, documents
<1>4. jobs[j] = Idle
    BY Zenon DEF Download
<1>5. DOMAIN jobs = Jobs
    BY Zenon DEF TablesFit
<1> QED
    BY <1>1, <1>2, <1>3, <1>4, <1>5, <1>6 DEF Download


LEMMA AppendType ==
    ASSUME NEW S, NEW s \in Seq(S), NEW e \in S
    PROVE  Append(s, e) \in Seq(S)
    OBVIOUS

LEMMA UpsertType ==
    ASSUME NEW table \in Tables, NEW symbols, NEW date \in Int, NEW member \in BOOLEAN
    PROVE  Upsert(table, symbols, date, member) \in Tables
    BY DEF Upsert, Tables

LEMMA FetchEffect ==
    ASSUME TablesFit, NEW j \in Jobs, NEW kind \in AllKinds, NEW days,
           NEW at \in Nat, Download(j, kind, days, at),
           \/ kind = "yahoo" /\ at = 0 /\ now' = now
           \/ at = now + 1 /\ now' = now + 1,
           instruments' \in Tables
    PROVE  TablesFit' /\ StepEnters
<1>1. /\ \A i \in Jobs \ {j} : jobs'[i] = jobs[i]
      /\ jobs'[j].pc = "store" /\ jobs'[j].kind = kind /\ jobs'[j].at = at
      /\ jobs'[j].list = edition
      /\ \A r \in jobs'[j].rows : r.symbol \in Lists[edition] /\ r.src = kind
      /\ \A q, r \in jobs'[j].rows : q.symbol = r.symbol /\ q.day = r.day => q = r
      /\ jobs'[j].content \in Contents
      /\ DOMAIN jobs' = Jobs
    BY DownloadEffect
<1>2. UNCHANGED <<versions, papers, edition, probe>>
    BY DownloadEffect
<1>3. now \in Nat /\ now' \in Nat /\ now' >= now /\ at <= now'
    BY DEF TablesFit
<1>4. \A i \in Jobs : JobFits(jobs[i])'
  <2>1. JobFits(jobs[j])'
      BY <1>1, <1>2, <1>3 DEF JobFits, TablesFit
  <2>2. ASSUME NEW i \in Jobs \ {j}
        PROVE  JobFits(jobs[i])'
      BY <1>1, <1>3, <2>2 DEF JobFits, TablesFit
  <2> QED
      BY <2>1, <2>2
<1>5. TablesFit'
  <2>1. ProbeFits'
      BY <1>2, <1>3 DEF ProbeFits, TablesFit
  <2> QED
      BY <1>1, <1>2, <1>3, <1>4, <2>1 DEF TablesFit
<1>6. NewOnTheWay
  <2>1. OnItsWay(j)' => jobs'[j].at \in Nat /\ jobs'[j].at > now
      BY <1>1, <1>3 DEF OnItsWay
  <2>2. \A i \in Jobs \ {j} : OnItsWay(i)' => OnItsWay(i) /\ jobs'[i].at = jobs[i].at
      BY <1>1 DEF OnItsWay
  <2> QED
      BY <2>1, <2>2 DEF NewOnTheWay
<1> QED
    BY <1>2, <1>3, <1>5, <1>6 DEF StepEnters, NewVersions, NewPapers

\* A job that ends leaves nothing on its way.
LEMMA StoringEffect ==
    ASSUME TablesFit, NEW j \in Jobs, NEW kind, Storing(j, kind), now' \in Nat, now' >= now
    PROVE  /\ \A i \in Jobs : JobFits(jobs[i])'
           /\ DOMAIN jobs' = Jobs /\ edition' = edition /\ ProbeFits'
           /\ NewOnTheWay
           /\ jobs[j].pc = "store" /\ jobs[j].kind = kind /\ jobs'[j] = Done
           /\ \A i \in Jobs \ {j} : jobs'[i] = jobs[i]
<1>1. jobs' = [jobs EXCEPT ![j] = Done] /\ edition' = edition
    BY DEF Storing
<1>2. /\ DOMAIN jobs' = Jobs /\ jobs'[j] = Done
      /\ \A i \in Jobs \ {j} : jobs'[i] = jobs[i]
    BY <1>1 DEF TablesFit
<1>3. Done.pc = "done"
    BY DEF Done
<1>4. \A i \in Jobs : JobFits(jobs[i])'
    BY <1>1, <1>2, <1>3 DEF JobFits, TablesFit
<1>5. NewOnTheWay
    BY <1>2, <1>3 DEF NewOnTheWay, OnItsWay
<1>6. ProbeFits'
    BY DEF ProbeFits, TablesFit, Storing
<1> QED
    BY <1>1, <1>2, <1>4, <1>5, <1>6 DEF Storing

LEMMA StampedRows ==
    ASSUME NEW rows, NEW at
    PROVE  \A v \in Stamped(rows, at) : v.at = at
    BY DEF Stamped

LEMMA StoreAllEffect ==
    ASSUME TablesFit, NEW rows, NEW table \in Tables, StoreAll(rows, table),
           \A r \in rows : Enters(r.at)
    PROVE  NewVersions /\ instruments' \in Tables
    BY DEF StoreAll, StorePrices, Instruments, NewVersions, prices, TablesFit

LEMMA StepTypes ==
    ASSUME TablesFit, Next
    PROVE  TablesFit' /\ StepEnters
<1> USE DEF Stamp
<1>0. /\ now \in Nat /\ Len(Lists) + 1 \in Int /\ edition \in DOMAIN Lists /\ DOMAIN Lists \subseteq Int
      /\ instruments \in Tables /\ now + 1 > now /\ now + 1 \in Nat
    BY DEF TablesFit
<1>1. ASSUME UNCHANGED <<edition, jobs, versions, papers>>, now' \in {now, now + 1},
             instruments' \in Tables, ProbeFits'
      PROVE  TablesFit' /\ StepEnters
  <2>1. now' \in Nat /\ now' >= now
      BY <1>0, <1>1
  <2>2. \A j \in Jobs : JobFits(jobs[j])'
      BY <1>0, <1>1, <2>1 DEF TablesFit, JobFits
  <2> QED
      BY <1>0, <1>1, <2>1, <2>2
         DEF TablesFit, StepEnters, NewVersions, NewPapers, NewOnTheWay, OnItsWay
<1>2. CASE EditList
  <2>1. edition' \in DOMAIN Lists
      BY <1>2, <1>0 DEF EditList
  <2>2. \A j \in Jobs : JobFits(jobs[j])'
      BY <1>0, <1>2 DEF TablesFit, JobFits, EditList
  <2>3. ProbeFits'
      BY <1>2 DEF ProbeFits, TablesFit, EditList
  <2> QED
      BY <1>0, <1>2, <2>1, <2>2, <2>3
         DEF TablesFit, EditList, prices, documents, StepEnters, NewVersions, NewPapers,
             NewOnTheWay, OnItsWay
<1>3. ASSUME NEW j \in Jobs, FetchYahoo(j) PROVE TablesFit' /\ StepEnters
  <2>1. instruments' \in Tables
      BY <1>0, <1>3, UpsertType DEF FetchYahoo, EnterList, Instruments
  <2> QED
      BY <1>0, <1>3, <2>1, FetchEffect DEF FetchYahoo, AllKinds, PriceKinds
<1>4. ASSUME NEW j \in Jobs, FetchHistory(j) PROVE TablesFit' /\ StepEnters
  <2>1. instruments' \in Tables
      BY <1>0, <1>4, UpsertType DEF FetchHistory, EnterList, Instruments
  <2> QED
      BY <1>0, <1>4, <2>1, FetchEffect DEF FetchHistory, AllKinds, PriceKinds
<1>5. ASSUME NEW j \in Jobs, FetchDaily(j) PROVE TablesFit' /\ StepEnters
    BY <1>0, <1>5, FetchEffect DEF FetchDaily, AllKinds, PriceKinds
<1>6. ASSUME NEW j \in Jobs, FetchCorporate(j) PROVE TablesFit' /\ StepEnters
    BY <1>0, <1>6, FetchEffect DEF FetchCorporate, AllKinds
<1>7. ASSUME NEW j \in Jobs, StoreYahoo(j) PROVE TablesFit' /\ StepEnters
  <2>1. Enters(now + 1)
      BY <1>0 DEF Enters
  <2>2. NewVersions /\ instruments' \in Tables
      BY <1>0, <1>7, <2>1, StampedRows, StoreAllEffect DEF StoreYahoo
  <2>3. Storing(j, "yahoo") /\ now' = now + 1 /\ papers' = papers
      BY <1>7 DEF StoreYahoo, documents
  <2> QED
      BY <1>0, <2>2, <2>3, StoringEffect DEF TablesFit, StepEnters, NewPapers
<1>8. ASSUME NEW j \in Jobs, StoreHistory(j) \/ StoreDaily(j) PROVE TablesFit' /\ StepEnters
  <2>1. Enters(jobs[j].at)
      BY <1>8 DEF Enters, OnItsWay, StoreHistory, StoreDaily, Storing, TablesFit, JobFits
  <2>2. Observed(jobs[j]) \in Tables
    <3>1. jobs[j].list \in Int
        BY <1>0, <1>8 DEF StoreHistory, StoreDaily, Storing, TablesFit, JobFits
    <3>2. Listed(jobs[j]) \in Tables
        BY <1>0, <3>1, UpsertType DEF Listed
    <3> QED
        BY <1>0, <3>2, UpsertType DEF Observed
  <2>3. NewVersions /\ instruments' \in Tables
    <3>1. \A r \in Stamped(jobs[j].rows, jobs[j].at) : Enters(r.at)
        BY <2>1, StampedRows
    <3>2. PICK table \in Tables : StoreAll(Stamped(jobs[j].rows, jobs[j].at), table)
        BY <1>0, <1>8, <2>2 DEF StoreHistory, StoreDaily
    <3> QED
        BY <3>1, <3>2, StoreAllEffect
  <2>4. /\ Storing(j, "history") \/ Storing(j, "daily")
        /\ now' = now /\ papers' = papers
      BY <1>8 DEF StoreHistory, StoreDaily, documents
  <2>5. /\ \A i \in Jobs : JobFits(jobs[i])'
        /\ DOMAIN jobs' = Jobs /\ edition' = edition /\ ProbeFits' /\ NewOnTheWay
      BY <1>0, <2>4, StoringEffect
  <2> QED
      BY <1>0, <2>3, <2>4, <2>5 DEF TablesFit, StepEnters, NewPapers
<1>9. ASSUME NEW j \in Jobs, StoreCorporate(j) PROVE TablesFit' /\ StepEnters
  <2>1. /\ Enters(jobs[j].at) /\ jobs[j].content \in Contents
        /\ jobs[j].list \in DOMAIN Lists
      BY <1>9 DEF Enters, OnItsWay, StoreCorporate, Storing, TablesFit, JobFits
  <2>2. instruments' \in Tables
      BY <1>0, <1>9, <2>1, UpsertType DEF StoreCorporate, Instruments, Listed
  <2>3. NewPapers /\ papers' \in Seq([at : Nat, content : Contents])
    <3>1. [at |-> jobs[j].at, content |-> jobs[j].content] \in [at : Nat, content : Contents]
        BY <2>1 DEF Enters
    <3>2. \/ papers' = papers
          \/ papers' = Append(papers, [at |-> jobs[j].at, content |-> jobs[j].content])
        BY <1>9, Zenon DEF StoreCorporate, StorePaper
    <3>3. papers \in Seq([at : Nat, content : Contents])
        BY DEF TablesFit
    <3>4. papers' \in Seq([at : Nat, content : Contents])
      <4> DEFINE S == [at : Nat, content : Contents]
                 e == [at |-> jobs[j].at, content |-> jobs[j].content]
      <4>1. e \in S /\ papers \in Seq(S) /\ (papers' = papers \/ papers' = Append(papers, e))
          BY <3>1, <3>2, <3>3
      <4> HIDE DEF S, e
      <4>2. Append(papers, e) \in Seq(S)
          BY <4>1, AppendType, Zenon
      <4>3. papers' \in Seq(S)
          BY <4>1, <4>2, Zenon
      <4> QED
          BY <4>3 DEF S
    <3>5. NewPapers
        BY <2>1, <3>1, <3>2 DEF NewPapers
    <3> QED
        BY <3>4, <3>5
  <2>4. Storing(j, "corporate") /\ now' = now /\ versions' = versions
      BY <1>9 DEF StoreCorporate, prices
  <2> QED
      BY <1>0, <2>2, <2>3, <2>4, StoringEffect DEF TablesFit, StepEnters, NewVersions
<1>10. CASE ProbeList \/ ProbeRecord \/ ProbeDies
  <2>1. ProbeFits'
      BY <1>0, <1>10 DEF ProbeFits, ProbeList, ProbeRecord, ProbeDies, Idle
  <2> QED
      BY <1>0, <1>1, <1>10, <2>1 DEF ProbeList, ProbeRecord, ProbeDies, prices, documents
<1>11. CASE ProbeReplace
  <2>1. ReplaceUniverse(probe.list) \in Tables
    <3>1. probe.list \in Int
        BY <1>0, <1>11 DEF ProbeReplace, ProbeFits, TablesFit
    <3>2. [s \in Symbols |-> [instruments[s] EXCEPT !.in = FALSE]] \in Tables
        BY <1>0 DEF Tables
    <3> QED
        BY <3>1, <3>2, UpsertType DEF ReplaceUniverse
  <2>2. ProbeFits'
    <3>1. /\ probe.pc = "record" => probe'.list = probe.list
          /\ probe' = [probe EXCEPT !.pc = "record"] /\ probe.pc = "replace" /\ now' = now
        BY <1>11 DEF ProbeReplace
    <3> QED
        BY <3>1 DEF ProbeFits, TablesFit
  <2> QED
      BY <1>0, <1>1, <1>11, <2>1, <2>2 DEF ProbeReplace, Instruments, prices, documents
<1>12. CASE BuildUniverse \/ BuildCheck \/ BuildCoverage \/ BuildSave
  <2>1. /\ UNCHANGED <<edition, jobs, versions, papers, probe, instruments>>
        /\ now' \in {now, now + 1}
      BY <1>12 DEF BuildUniverse, BuildCheck, BuildCoverage, BuildSave, prices, documents
  <2> QED
      BY <1>0, <1>1, <2>1 DEF ProbeFits, TablesFit
<1> QED
    BY <1>2, <1>3, <1>4, <1>5, <1>6, <1>7, <1>8, <1>9, <1>10, <1>11, <1>12
       DEF Next

LEMMA StutterTypes ==
    ASSUME TablesFit, UNCHANGED vars
    PROVE  TablesFit' /\ StepEnters
    BY DEF TablesFit, JobFits, ProbeFits, vars, prices, documents, StepEnters, NewVersions,
           NewPapers, NewOnTheWay, OnItsWay

LEMMA InitTypes == Init => TablesFit
    BY DEF Init, TablesFit, JobFits, ProbeFits, Idle, Tables

LEMMA TypesInductive == TablesFit /\ [Next]_vars => TablesFit' /\ StepEnters
    BY StepTypes, StutterTypes

\* The tables and the responses have the types the proofs need.
THEOREM TablesAlwaysFit == Spec => []TablesFit
    BY InitTypes, TypesInductive, PTL DEF Spec

-----------------------------------------------------------------------------
(* What is read at a cutoff stays.                                         *)

\* Whatever is on its way was stamped after the cutoff.
Past(c) == \A j \in Jobs : OnItsWay(j) => jobs[j].at > c

LEMMA PastKept ==
    ASSUME TablesFit, StepEnters, NEW c \in Nat, c <= now, Past(c)
    PROVE  /\ Past(c)' /\ Visible(c)' = Visible(c) /\ PaperAt(c)' = PaperAt(c)
           /\ \A D, S : PricesAt(D, S, c)' = PricesAt(D, S, c)
<1>0. now \in Nat /\ papers \in Seq([at : Nat, content : Contents])
    BY DEF TablesFit
<1>1. Past(c)'
  <2>1. SUFFICES ASSUME NEW j \in Jobs, OnItsWay(j)' PROVE jobs'[j].at > c
      BY DEF Past
  <2>2. CASE OnItsWay(j) /\ jobs'[j].at = jobs[j].at
      BY <2>2 DEF Past
  <2>3. CASE jobs'[j].at \in Nat /\ jobs'[j].at > now
      BY <1>0, <2>3
  <2> QED
      BY <2>1, <2>2, <2>3 DEF StepEnters, NewOnTheWay
<1>2. \A at : Enters(at) => at \in Nat /\ at > c
    BY <1>0 DEF Enters, Past
<1>3. Visible(c)' = Visible(c)
    BY <1>2 DEF StepEnters, NewVersions, Visible, Final
<1>4. PaperAt(c)' = PaperAt(c)
  <2> DEFINE Eligible == {n \in DOMAIN papers : papers[n].at <= c}
  <2>1. CASE papers' = papers
      BY <2>1 DEF PaperAt
  <2>2. ASSUME NEW p, Enters(p.at), papers' = Append(papers, p)
        PROVE  Eligible' = Eligible
    <3>1. p.at \in Nat /\ p.at > c
        BY <1>2, <2>2
    <3>2. /\ DOMAIN papers = 1..Len(papers) /\ Len(papers) \in Nat
          /\ DOMAIN papers' = 1..(Len(papers) + 1)
          /\ papers'[Len(papers) + 1] = p
          /\ \A n \in 1..Len(papers) : papers'[n] = papers[n]
        BY <1>0, <2>2
    <3> QED
        BY <3>1, <3>2
  <2>3. Eligible' = Eligible => PaperAt(c)' = PaperAt(c)
      BY DEF PaperAt
  <2> QED
      BY <2>1, <2>2, <2>3 DEF StepEnters, NewPapers
<1>5. \A S, D : RowsOf(S, D, c)' = RowsOf(S, D, c)
    BY <1>3 DEF RowsOf
<1>6. \A D, S : PricesAt(D, S, c)' = PricesAt(D, S, c)
    BY <1>5 DEF PricesAt
<1> QED
    BY <1>1, <1>3, <1>4, <1>6

\* The snapshot under way and the saved ones have a cutoff that has been, and
\* quiet ones are later than nothing that is still to come.
BuildReads == build.pc # "idle" =>
    /\ build.cutoff \in Nat /\ build.cutoff <= now
    /\ build.quiet => Past(build.cutoff)
SnapsRead == \A s \in snaps :
    /\ s.cutoff \in Nat /\ s.cutoff <= now
    /\ s.quiet => Past(s.cutoff)

ReadsInv == TablesFit /\ BuildReads /\ SnapsRead /\ ReadsTheSame

\* Whoever writes the instruments leaves the rest of the snapshot under way.
BuildKept == build'.pc # "idle" =>
    build.pc # "idle" /\ build'.cutoff = build.cutoff /\ build'.quiet = build.quiet

LEMMA InstrumentsKeep ==
    ASSUME NEW table, Instruments(table)
    PROVE  BuildKept
    BY DEF Instruments, BuildKept, Idle

\* Steps that neither begin nor go on with a snapshot.
LEMMA OtherStep ==
    ASSUME ReadsInv, TablesFit', StepEnters, BuildKept, snaps' = snaps
    PROVE  ReadsInv'
<1>0. now \in Nat /\ now' \in Nat /\ now' >= now
    BY DEF ReadsInv, TablesFit, StepEnters
<1>1. BuildReads'
  <2> SUFFICES ASSUME build'.pc # "idle"
               PROVE  /\ build'.cutoff \in Nat /\ build'.cutoff <= now'
                      /\ build'.quiet => Past(build.cutoff)'
      BY DEF BuildReads
  <2>1. /\ build.cutoff \in Nat /\ build.cutoff <= now
        /\ build'.cutoff = build.cutoff /\ build'.quiet = build.quiet
        /\ build.quiet => Past(build.cutoff)
      BY DEF ReadsInv, BuildReads, BuildKept
  <2>2. PICK c \in Nat : c = build.cutoff
      BY <2>1
  <2>3. build.quiet => Past(c)'
      BY <2>1, <2>2, PastKept DEF ReadsInv
  <2> QED
      BY <1>0, <2>1, <2>2, <2>3 DEF Past
<1>2. SnapsRead'
    BY <1>0, PastKept DEF ReadsInv, SnapsRead
<1>3. ReadsTheSame'
  <2> SUFFICES ASSUME NEW s \in snaps, s.quiet
               PROVE  /\ s.paper = PaperAt(s.cutoff)'
                      /\ s.rows = PricesAt({s.day} \cap Days, s.asked, s.cutoff)'
      BY DEF ReadsInv, ReadsTheSame
  <2>1. /\ s.paper = PaperAt(s.cutoff)
        /\ s.rows = PricesAt({s.day} \cap Days, s.asked, s.cutoff)
      BY DEF ReadsInv, ReadsTheSame
  <2>2. s.cutoff \in Nat /\ s.cutoff <= now /\ Past(s.cutoff)
      BY DEF ReadsInv, SnapsRead
  <2> QED
      BY <2>1, <2>2, PastKept DEF ReadsInv
<1> QED
    BY <1>1, <1>2, <1>3 DEF ReadsInv

LEMMA ReadsStep ==
    ASSUME ReadsInv, Next
    PROVE  ReadsInv'
<1>0. TablesFit' /\ StepEnters
    BY TypesInductive DEF ReadsInv
<1>1. now \in Nat /\ now' \in Nat /\ now' >= now
    BY <1>0 DEF ReadsInv, TablesFit, StepEnters
<1>2. ASSUME BuildKept, snaps' = snaps PROVE ReadsInv'
    BY <1>0, <1>2, OtherStep
<1>3. CASE EditList \/ ProbeList \/ ProbeRecord \/ ProbeDies
    BY <1>2, <1>3 DEF BuildKept, EditList, ProbeList, ProbeRecord, ProbeDies
<1>4. ASSUME NEW j \in Jobs, FetchYahoo(j) \/ FetchHistory(j) PROVE ReadsInv'
    BY <1>2, <1>4, InstrumentsKeep DEF FetchYahoo, FetchHistory, EnterList, Download
<1>5. ASSUME NEW j \in Jobs, FetchDaily(j) \/ FetchCorporate(j) PROVE ReadsInv'
    BY <1>2, <1>5 DEF BuildKept, FetchDaily, FetchCorporate, Download
<1>6. ASSUME NEW j \in Jobs, StoreYahoo(j) \/ StoreHistory(j) \/ StoreDaily(j) PROVE ReadsInv'
  <2>1. PICK rows, table : StoreAll(rows, table)
      BY <1>6 DEF StoreYahoo, StoreHistory, StoreDaily
  <2>2. snaps' = snaps
      BY <1>6 DEF StoreYahoo, StoreHistory, StoreDaily, Storing
  <2>3. BuildKept
      BY <2>1, InstrumentsKeep DEF StoreAll, BuildKept
  <2> QED
      BY <1>2, <2>2, <2>3
<1>7. ASSUME NEW j \in Jobs, StoreCorporate(j) PROVE ReadsInv'
    BY <1>2, <1>7, InstrumentsKeep DEF StoreCorporate, Storing
<1>8. CASE ProbeReplace
    BY <1>2, <1>8, InstrumentsKeep DEF ProbeReplace
<1>9. CASE BuildUniverse
  <2>1. UNCHANGED <<jobs, snaps, prices, documents>> /\ build'.cutoff \in Nat
        /\ build'.cutoff <= now' /\ build'.quiet = Quiet(build'.cutoff)
      BY <1>1, <1>9 DEF BuildUniverse, Stamp
  <2>2. BuildReads'
      BY <2>1 DEF BuildReads, Quiet, Past, OnItsWay
  <2>3. SnapsRead' /\ ReadsTheSame'
    <3>1. \A s \in snaps : s.quiet =>
            /\ Past(s.cutoff)' /\ PaperAt(s.cutoff)' = PaperAt(s.cutoff)
            /\ \A D, S : PricesAt(D, S, s.cutoff)' = PricesAt(D, S, s.cutoff)
        BY <1>0, PastKept DEF ReadsInv, SnapsRead
    <3>2. SnapsRead'
        BY <1>1, <2>1, <3>1 DEF ReadsInv, SnapsRead
    <3>3. ReadsTheSame'
        BY <2>1, <3>1 DEF ReadsInv, ReadsTheSame
    <3> QED
        BY <3>2, <3>3
  <2> QED
      BY <1>0, <2>2, <2>3 DEF ReadsInv
<1>10. CASE BuildCheck \/ BuildCoverage
  <2>1. snaps' = snaps /\ build.pc # "idle"
      BY <1>10 DEF BuildCheck, BuildCoverage
  <2>2. ASSUME BuildCheck PROVE BuildKept
    <3>1. PICK x : build' = [build EXCEPT !.pc = "coverage", !.check = x]
        BY <2>2, Zenon DEF BuildCheck
    <3>2. build'.cutoff = build.cutoff
        BY <3>1
    <3>3. build'.quiet = build.quiet
        BY <3>1
    <3> QED
        BY <2>1, <3>2, <3>3 DEF BuildKept
  <2>3. ASSUME BuildCoverage PROVE BuildKept
    <3>1. PICK x : build' = [build EXCEPT !.pc = "prices", !.day = x]
        BY <2>3, Zenon DEF BuildCoverage
    <3>2. build'.cutoff = build.cutoff
        BY <3>1
    <3>3. build'.quiet = build.quiet
        BY <3>1
    <3> QED
        BY <2>1, <3>2, <3>3 DEF BuildKept
  <2>4. BuildKept
      BY <1>10, <2>2, <2>3
  <2> QED
      BY <1>2, <2>1, <2>4
<1>11. CASE BuildSave
  <2>1. /\ UNCHANGED <<now, jobs, versions, papers>> /\ build' = Idle
        /\ build.pc = "prices"
      BY <1>11 DEF BuildSave, prices, documents
  <2>2. \A c : /\ Past(c)' = Past(c) /\ PaperAt(c)' = PaperAt(c)
               /\ \A D, S : PricesAt(D, S, c)' = PricesAt(D, S, c)
    <3>1. \A c : Past(c)' = Past(c) /\ PaperAt(c)' = PaperAt(c)
        BY <2>1 DEF Past, OnItsWay, PaperAt
    <3>2. \A c : Visible(c)' = Visible(c)
        BY <2>1 DEF Visible
    <3>3. \A c, S, D : RowsOf(S, D, c)' = RowsOf(S, D, c)
        BY <3>2 DEF RowsOf
    <3>4. \A c, D, S : PricesAt(D, S, c)' = PricesAt(D, S, c)
        BY <3>3 DEF PricesAt
    <3> QED
        BY <3>1, <3>4
  <2>3. BuildReads'
      BY <2>1 DEF BuildReads, Idle
  <2>4. PICK s : /\ snaps' = snaps \cup {s}
                 /\ s.cutoff = build.cutoff /\ s.quiet = build.quiet
                 /\ s.paper = PaperAt(s.cutoff)
                 /\ s.rows = PricesAt({s.day} \cap Days, s.asked, s.cutoff)
    <3> DEFINE asked == Members(Universe)
               rows == PricesAt({build.day} \cap Days, asked, build.cutoff)
               s == [cutoff |-> build.cutoff, universe |-> build.universe,
                     check |-> build.check, day |-> build.day, asked |-> asked,
                     rows |-> rows, paper |-> PaperAt(build.cutoff),
                     usable |-> Usable(build, rows), quiet |-> build.quiet,
                     moved |-> build.moved]
    <3>1. snaps' = snaps \cup {s}
        BY <1>11, Zenon DEF BuildSave
    <3>2. /\ s.cutoff = build.cutoff /\ s.quiet = build.quiet
          /\ s.paper = PaperAt(s.cutoff)
          /\ s.rows = PricesAt({s.day} \cap Days, s.asked, s.cutoff)
        OBVIOUS
    <3> HIDE DEF s
    <3> QED
        BY <3>1, <3>2, Zenon
  <2>5. SnapsRead'
      BY <2>1, <2>2, <2>4 DEF ReadsInv, SnapsRead, BuildReads
  <2>6. ReadsTheSame'
      BY <2>1, <2>2, <2>4 DEF ReadsInv, ReadsTheSame
  <2> QED
      BY <1>0, <2>3, <2>5, <2>6 DEF ReadsInv
<1> QED
    BY <1>3, <1>4, <1>5, <1>6, <1>7, <1>8, <1>9, <1>10, <1>11 DEF Next

LEMMA ReadsInductive == ReadsInv /\ [Next]_vars => ReadsInv'
<1>1. CASE UNCHANGED vars
    BY <1>1, TypesInductive, OtherStep DEF ReadsInv, vars, BuildKept
<1> QED
    BY <1>1, ReadsStep

\* Reading again at the cutoff of a quiet snapshot gives what it holds, however many
\* collectors have run since.
THEOREM SnapshotReadsTheSame == Spec => []ReadsTheSame
<1>1. Init => ReadsInv
    BY InitTypes DEF Init, ReadsInv, BuildReads, SnapsRead, ReadsTheSame, Idle
<1> QED
    BY <1>1, ReadsInductive, PTL DEF Spec, ReadsInv

-----------------------------------------------------------------------------
(* Collecting with the list in force changes nothing of the universe.      *)

\* What a universe that is an edition of the list says of each symbol.
LEMMA InForce ==
    ASSUME instruments \in Tables, NEW n \in DOMAIN Lists, Universe = VersionOf(n),
           NEW s \in Symbols
    PROVE  /\ instruments[s].in = (s \in Lists[n])
           /\ instruments[s].in => instruments[s].date = n
           /\ instruments[s] = [in |-> instruments[s].in, date |-> instruments[s].date]
<1>1. instruments[s] \in [in : BOOLEAN, date : Int]
    BY DEF Tables
<1>2. ASSUME instruments[s].in PROVE s \in Lists[n] /\ instruments[s].date = n
  <2>1. [symbol |-> s, date |-> instruments[s].date] \in VersionOf(n)
      BY <1>2 DEF Universe
  <2> QED
      BY <2>1 DEF VersionOf
<1>3. ASSUME s \in Lists[n] PROVE instruments[s].in
  <2>1. [symbol |-> s, date |-> n] \in Universe
      BY <1>3 DEF VersionOf
  <2> QED
      BY <2>1 DEF Universe
<1> QED
    BY <1>1, <1>2, <1>3

LEMMA CollectingInForce ==
    ASSUME TablesFit, NEW j \in Jobs, jobs[j].pc = "store",
           Universe = VersionOf(jobs[j].list)
    PROVE  Listed(jobs[j]) = instruments /\ Observed(jobs[j]) = instruments
<1> DEFINE n == jobs[j].list
<1>1. /\ n \in DOMAIN Lists /\ instruments \in Tables
      /\ \A r \in jobs[j].rows : r.symbol \in Lists[n]
    BY DEF TablesFit, JobFits
<1>2. instruments = [s \in Symbols |-> instruments[s]]
    BY <1>1 DEF Tables
<1>3. Listed(jobs[j]) = instruments
  <2>1. \A s \in Symbols : Listed(jobs[j])[s] = instruments[s]
      BY <1>1, InForce DEF Listed, Upsert
  <2> QED
      BY <1>2, <2>1 DEF Listed, Upsert
<1>4. Observed(jobs[j]) = instruments
  <2> DEFINE symbols == {r.symbol : r \in jobs[j].rows}
  <2>1. symbols \subseteq Lists[n]
      BY <1>1
  <2>2. Observed(jobs[j]) = Upsert(instruments, symbols, Len(Lists) + 1, FALSE)
      BY <1>3 DEF Observed
  <2> HIDE DEF symbols
  <2>3. \A s \in Symbols :
            Upsert(instruments, symbols, Len(Lists) + 1, FALSE)[s] = instruments[s]
      BY <1>1, <2>1, InForce DEF Upsert
  <2> QED
      BY <1>2, <2>2, <2>3 DEF Upsert
<1> QED
    BY <1>3, <1>4

\* Who ends a job.
LEMMA WhoEnds ==
    ASSUME TablesFit, Next, NEW j \in Jobs, jobs[j].pc = "store", jobs'[j] = Done
    PROVE  StoreYahoo(j) \/ StoreHistory(j) \/ StoreDaily(j) \/ StoreCorporate(j)
<1>1. jobs'[j] # jobs[j]
    BY DEF Done
<1>2. ASSUME NEW i \in Jobs,
             FetchYahoo(i) \/ FetchHistory(i) \/ FetchDaily(i) \/ FetchCorporate(i)
      PROVE FALSE
  <2>1. jobs[i] = Idle /\ \E job : jobs' = [jobs EXCEPT ![i] = job]
      BY <1>2, Zenon DEF FetchYahoo, FetchHistory, FetchDaily, FetchCorporate, Download
  <2> QED
      BY <1>1, <2>1 DEF Idle, TablesFit
<1>3. ASSUME NEW i \in Jobs \ {j},
             StoreYahoo(i) \/ StoreHistory(i) \/ StoreDaily(i) \/ StoreCorporate(i)
      PROVE FALSE
  <2>1. jobs' = [jobs EXCEPT ![i] = Done]
      BY <1>3 DEF StoreYahoo, StoreHistory, StoreDaily, StoreCorporate, Storing
  <2> QED
      BY <1>1, <2>1 DEF TablesFit
<1>4. ASSUME \/ EditList \/ ProbeList \/ ProbeReplace \/ ProbeRecord \/ ProbeDies
             \/ BuildUniverse \/ BuildCheck \/ BuildCoverage \/ BuildSave
      PROVE FALSE
    BY <1>1, <1>4 DEF EditList, ProbeList, ProbeReplace, ProbeRecord, ProbeDies, BuildUniverse,
           BuildCheck, BuildCoverage, BuildSave
<1> QED
    BY <1>2, <1>3, <1>4 DEF Next

\* A collector that ends while its list is the universe leaves the universe as it is.
THEOREM CollectingKeepsUniverse == Spec => CollectKeepsUniverse
<1> DEFINE Keeps == \A j \in Jobs :
        (/\ jobs[j].pc = "store" /\ jobs'[j] = Done
         /\ Universe = VersionOf(jobs[j].list)) => Universe' = Universe
<1>1. TablesFit /\ [Next]_vars => [Keeps]_vars
  <2> SUFFICES ASSUME TablesFit, Next, NEW j \in Jobs, jobs[j].pc = "store",
                      jobs'[j] = Done, Universe = VersionOf(jobs[j].list)
               PROVE  instruments' = instruments
      BY DEF Universe
  <2>1. Listed(jobs[j]) = instruments /\ Observed(jobs[j]) = instruments
      BY CollectingInForce
  <2> QED
      BY <2>1, WhoEnds
         DEF StoreYahoo, StoreHistory, StoreDaily, StoreCorporate, StoreAll, Instruments
<1> QED
    BY <1>1, TablesAlwaysFit, PTL DEF Spec, CollectKeepsUniverse

-----------------------------------------------------------------------------
(* The newest version of a price.                                          *)

\* Of a price a response says one thing.
OneEach(rows) == /\ \A r \in rows : r.at \in Nat /\ r.at <= now' /\ r.src \in PriceKinds
                 /\ \A q, r \in rows : Same(q, r) => q = r

NewestPrices == inOrder => \A h \in heard :
    (\A o \in heard : Same(o, h) => o.at <= h.at) => LatestVersion(h).content = h.content
PricesInv == /\ versions \subseteq heard
             /\ \A h \in heard : h.at \in Nat /\ h.at <= now /\ h.src \in PriceKinds
             /\ NewestPrices

LEMMA StampedOnce ==
    ASSUME NEW rows, NEW at \in Nat, at <= now', \A r \in rows : r.src \in PriceKinds,
           \A q, r \in rows : q.symbol = r.symbol /\ q.day = r.day => q = r
    PROVE  OneEach(Stamped(rows, at))
    BY DEF Stamped, OneEach, Same

LEMMA StorePricesNewest ==
    ASSUME TablesFit, PricesInv, StepEnters, NEW rows, OneEach(rows), StorePrices(rows)
    PROVE  PricesInv'
<1> DEFINE new == {r \in rows : ~Unchanged(r)}
<1>1. /\ versions' = versions \cup new /\ heard' = heard \cup rows
      /\ inOrder' = (inOrder /\ \A r \in rows, h \in heard : Same(h, r) => h.at < r.at)
    BY DEF StorePrices
<1>2. /\ versions' \subseteq heard'
      /\ \A h \in heard' : h.at \in Nat /\ h.at <= now' /\ h.src \in PriceKinds
  <2>1. now \in Nat /\ now' \in Nat /\ now <= now'
      BY DEF TablesFit, StepEnters
  <2> QED
      BY <1>1, <2>1 DEF PricesInv, OneEach
<1>3. ASSUME inOrder', NEW h \in heard', \A o \in heard' : Same(o, h) => o.at <= h.at
      PROVE  LatestVersion(h)'.content = h.content
  <2> HIDE DEF new
  <2>0. /\ inOrder /\ \A r \in rows, o \in heard : Same(o, r) => o.at < r.at
        /\ new \subseteq rows
      BY <1>1, <1>3 DEF new
  <2>1. CASE h \notin rows
    <3>1. \A r \in rows : ~Same(h, r) /\ ~Same(r, h)
      <4> SUFFICES ASSUME NEW r \in rows, Same(h, r) PROVE FALSE
          BY DEF Same
      <4>1. h \in heard /\ r \in heard' /\ Same(r, h)
          BY <1>1, <1>3, <2>1 DEF Same
      <4>2. h.at < r.at /\ r.at <= h.at
          BY <1>3, <2>0, <4>1
      <4>3. h.at \in Int /\ r.at \in Int
          BY <1>2, <1>3, <4>1
      <4> QED
          BY <4>2, <4>3
    <3>2. Earlier(h)' = Earlier(h)
        BY <1>1, <2>0, <3>1 DEF Earlier
    <3>3. LatestVersion(h)' = LatestVersion(h)
        BY <3>2 DEF LatestVersion
    <3> QED
        BY <1>1, <1>3, <2>0, <2>1, <3>3 DEF PricesInv, NewestPrices
  <2>2. CASE h \in rows /\ Unchanged(h)
    <3>1. Earlier(h)' = Earlier(h)
        BY <1>1, <2>0, <2>2 DEF Earlier, new, OneEach
    <3>2. LatestVersion(h)' = LatestVersion(h)
        BY <3>1 DEF LatestVersion
    <3> QED
        BY <2>2, <3>2 DEF Unchanged
  <2>3. CASE h \in rows /\ ~Unchanged(h)
    <3>1. h \in Earlier(h)' /\ \A v \in Earlier(h)' : v.at \in Int /\ (v = h \/ v.at < h.at)
        BY <1>1, <1>2, <2>0, <2>3 DEF Earlier, new, OneEach, Same, PricesInv
    <3>2. ASSUME NEW v \in Earlier(h)' PROVE v.at <= h.at
      <4>1. v.at \in Int /\ h.at \in Int /\ (v = h \/ v.at < h.at)
          BY <3>1
      <4> QED
          BY <4>1
    <3>3. LatestVersion(h)' \in Earlier(h)' /\ h.at <= LatestVersion(h)'.at
        BY <3>1, <3>2 DEF LatestVersion
    <3> QED
        BY <3>1, <3>3
  <2> QED
      BY <2>1, <2>2, <2>3
<1> QED
    BY <1>2, <1>3 DEF PricesInv, NewestPrices

LEMMA PricesStep ==
    ASSUME TablesFit, PricesInv, Next
    PROVE  PricesInv'
<1>0. StepEnters /\ now \in Nat /\ now' \in Nat /\ now <= now'
    BY TypesInductive DEF TablesFit, StepEnters
<1>1. CASE UNCHANGED prices
  <2>0. versions' = versions /\ heard' = heard /\ inOrder' = inOrder
      BY <1>1 DEF prices
  <2>1. \A h : LatestVersion(h)' = LatestVersion(h)
      BY <2>0 DEF LatestVersion, Earlier
  <2>2. \A h \in heard' : h.at \in Nat /\ h.at <= now' /\ h.src \in PriceKinds
      BY <1>0, <2>0 DEF PricesInv
  <2> QED
      BY <2>0, <2>1, <2>2 DEF PricesInv, NewestPrices
<1>2. ASSUME NEW j \in Jobs, StoreYahoo(j) \/ StoreHistory(j) \/ StoreDaily(j)
      PROVE  PricesInv'
  <2>1. /\ \A q, r \in jobs[j].rows : q.symbol = r.symbol /\ q.day = r.day => q = r
        /\ \A r \in jobs[j].rows : r.src \in PriceKinds
        /\ jobs[j].at \in Nat /\ jobs[j].at <= now
      BY <1>2 DEF PriceKinds, StoreYahoo, StoreHistory, StoreDaily, Storing, TablesFit, JobFits
  <2>2. PICK rows, table : StoreAll(rows, table) /\ OneEach(rows)
    <3>1. CASE StoreYahoo(j)
      <4> DEFINE rows == {r \in jobs[j].rows : Finalized(r.day, now + 1)}
      <4>1. OneEach(Stamped(rows, now + 1))
        <5>1. now + 1 \in Nat /\ now + 1 <= now'
            BY <1>0, <3>1 DEF StoreYahoo, Stamp
        <5> QED
            BY <2>1, <5>1, StampedOnce
      <4> QED
          BY <3>1, <4>1 DEF StoreYahoo
    <3>2. CASE StoreHistory(j) \/ StoreDaily(j)
      <4>1. OneEach(Stamped(jobs[j].rows, jobs[j].at))
        <5>1. jobs[j].at <= now'
            BY <1>0, <2>1
        <5> QED
            BY <2>1, <5>1, StampedOnce
      <4> QED
          BY <3>2, <4>1 DEF StoreHistory, StoreDaily
    <3> QED
        BY <1>2, <3>1, <3>2
  <2> QED
      BY <1>0, <1>1, <2>2, StorePricesNewest DEF StoreAll
<1>3. ASSUME NEW j \in Jobs, FetchYahoo(j) \/ FetchHistory(j) \/ FetchDaily(j)
                             \/ FetchCorporate(j) \/ StoreCorporate(j)
      PROVE  UNCHANGED prices
    BY <1>3 DEF FetchYahoo, FetchHistory, FetchDaily, FetchCorporate, StoreCorporate,
                Download, prices
<1>4. ASSUME \/ EditList \/ ProbeList \/ ProbeReplace \/ ProbeRecord \/ ProbeDies
             \/ BuildUniverse \/ BuildCheck \/ BuildCoverage \/ BuildSave
      PROVE  UNCHANGED prices
    BY <1>4 DEF EditList, ProbeList, ProbeReplace, ProbeRecord, ProbeDies, BuildUniverse,
                BuildCheck, BuildCoverage, BuildSave, prices
<1> QED
    BY <1>1, <1>2, <1>3, <1>4 DEF Next

-----------------------------------------------------------------------------
(* The newest version of the document.                                     *)

\* No two responses bear the same stamp.
StampsDiffer ==
    /\ \A j \in Jobs, o \in seen : OnItsWay(j) => jobs[j].at # o.at
    /\ \A i, j \in Jobs : OnItsWay(i) /\ OnItsWay(j) /\ i # j => jobs[i].at # jobs[j].at

NewestPaper == \A o \in seen :
    (\A p \in seen : p.at <= o.at) => papers[Len(papers)].content = o.content
PapersInv == /\ \A o \in seen : o.at \in Int /\ o.at <= now
             /\ papers = <<>> => seen = {}
             /\ papers # <<>> => papers[Len(papers)] \in seen
             /\ StampsDiffer
             /\ NewestPaper

\* One look at the clock after the other.
LEMMA StampsStep ==
    ASSUME TablesFit, PapersInv, TablesFit', StepEnters, seen' = seen, papers' = papers,
           \A i, j \in Jobs : OnItsWay(i)' /\ OnItsWay(j)' /\ i # j =>
                (OnItsWay(i) /\ jobs'[i] = jobs[i]) \/ (OnItsWay(j) /\ jobs'[j] = jobs[j])
    PROVE  PapersInv'
<1>1. /\ now \in Int /\ now' \in Int /\ now <= now'
      /\ \A j \in Jobs : OnItsWay(j) => jobs[j].at \in Int /\ jobs[j].at <= now
    BY DEF TablesFit, JobFits, OnItsWay, StepEnters
<1>2. \A j \in Jobs : OnItsWay(j)' =>
        \/ OnItsWay(j) /\ jobs'[j].at = jobs[j].at
        \/ jobs'[j].at \in Int /\ jobs'[j].at > now
    BY DEF StepEnters, NewOnTheWay
<1>3. \A o \in seen : o.at \in Int /\ o.at <= now
    BY DEF PapersInv
<1>4. ASSUME NEW j \in Jobs, NEW o \in seen, OnItsWay(j)' PROVE jobs'[j].at # o.at
    BY <1>1, <1>2, <1>3, <1>4 DEF PapersInv, StampsDiffer
<1>5. ASSUME NEW i \in Jobs, NEW j \in Jobs, OnItsWay(i)', OnItsWay(j)', i # j
      PROVE  jobs'[i].at # jobs'[j].at
  <2>1. OnItsWay(i) /\ OnItsWay(j) => jobs[i].at # jobs[j].at
      BY <1>5 DEF PapersInv, StampsDiffer
  <2>2. (OnItsWay(i) /\ jobs'[i] = jobs[i]) \/ (OnItsWay(j) /\ jobs'[j] = jobs[j])
      BY <1>5
  <2> QED
      BY <1>1, <1>2, <1>5, <2>1, <2>2
<1>6. StampsDiffer'
    BY <1>4, <1>5 DEF StampsDiffer, OnItsWay
<1>7. \A o \in seen' : o.at \in Int /\ o.at <= now'
    BY <1>1, <1>3
<1>8. NewestPaper'
    BY DEF PapersInv, NewestPaper
<1> QED
    BY <1>6, <1>7, <1>8 DEF PapersInv

LEMMA PaperStored ==
    ASSUME TablesFit, PapersInv, TablesFit', StepEnters, NEW j \in Jobs, StoreCorporate(j)
    PROVE  PapersInv'
<1> DEFINE e == [at |-> jobs[j].at, content |-> jobs[j].content]
<1>1. /\ OnItsWay(j) /\ jobs[j].at \in Int /\ jobs[j].at <= now
      /\ now' = now /\ now \in Int
    BY DEF StoreCorporate, Storing, OnItsWay, TablesFit, JobFits
<1>2. /\ seen' = seen \cup {e}
      /\ papers' = IF IsNewPaper(jobs[j].content, jobs[j].at)
                   THEN Append(papers, e) ELSE papers
    BY DEF StoreCorporate, StorePaper
<1>3. \A o \in seen : o.at \in Int /\ o.at <= now /\ o.at # e.at
    BY <1>1 DEF PapersInv, StampsDiffer
<1>4. papers \in Seq([at : Nat, content : Contents])
    BY DEF TablesFit
<1>5. StampsDiffer'
  <2>1. jobs'[j].pc = "done" /\ \A i \in Jobs \ {j} : jobs'[i] = jobs[i]
      BY DEF StoreCorporate, Storing, Done, TablesFit
  <2>2. \A i \in Jobs : OnItsWay(i)' => i # j /\ OnItsWay(i) /\ jobs'[i] = jobs[i]
      BY <2>1 DEF OnItsWay
  <2>3. \A i \in Jobs \ {j} : OnItsWay(i) => jobs[i].at # e.at
      BY <1>1 DEF PapersInv, StampsDiffer
  <2>4. \A i \in Jobs, o \in seen' : OnItsWay(i)' => jobs'[i].at # o.at
      BY <1>2, <2>2, <2>3 DEF PapersInv, StampsDiffer
  <2>5. \A i, k \in Jobs : OnItsWay(i)' /\ OnItsWay(k)' /\ i # k => jobs'[i].at # jobs'[k].at
      BY <2>2 DEF PapersInv, StampsDiffer
  <2> QED
      BY <2>4, <2>5 DEF StampsDiffer
<1>6. ASSUME NEW o \in seen', \A p \in seen' : p.at <= o.at
      PROVE  papers'[Len(papers')].content = o.content
  <2> DEFINE last == papers[Len(papers)]
  <2> HIDE DEF e
  <2>0. e.at = jobs[j].at /\ e.content = jobs[j].content /\ e.at \in Int
      BY <1>1 DEF e
  <2>1. papers = <<>> => o = e
      BY <1>2 DEF PapersInv
  <2>2. o # e => o \in seen /\ last.content = o.content /\ e.at < o.at
      BY <1>2, <1>3, <1>6, <2>0 DEF PapersInv, NewestPaper
  <2>3. CASE IsNewPaper(e.content, e.at)
    <3>1. papers' = Append(papers, e)
        BY <1>2, <2>0, <2>3
    <3>2. papers'[Len(papers')] = e
        BY <1>4, <3>1
    <3>3. o = e
        BY <1>3, <2>0, <2>1, <2>2, <2>3 DEF IsNewPaper
    <3> QED
        BY <3>2, <3>3
  <2>4. CASE ~IsNewPaper(e.content, e.at)
    <3>1. papers' = papers /\ papers # <<>>
        BY <1>2, <2>0, <2>4 DEF IsNewPaper
    <3>2. \/ last.content = e.content
          \/ ~(e.at >= last.at)
          \/ \E q \in seen : q.content = last.content /\ ~(e.at >= q.at)
        BY <2>4 DEF IsNewPaper
    <3>3. last \in seen
        BY <3>1 DEF PapersInv
    <3>4. o = e => \A q \in seen : e.at >= q.at
        BY <1>2, <1>3, <1>6, <2>0
    <3> QED
        BY <2>2, <3>1, <3>2, <3>3, <3>4
  <2> QED
      BY <2>3, <2>4
<1>7. /\ papers' = <<>> => seen' = {}
      /\ papers' # <<>> => papers'[Len(papers')] \in seen'
    <2>1. CASE IsNewPaper(jobs[j].content, jobs[j].at)
      <3>1. papers' = Append(papers, e)
          BY <1>2, <2>1
      <3> HIDE DEF e
      <3>2. papers' # <<>> /\ papers'[Len(papers')] = e
          BY <1>4, <3>1
      <3> QED
          BY <1>2, <3>2
    <2>2. CASE ~IsNewPaper(jobs[j].content, jobs[j].at)
      <3>1. papers' = papers /\ papers # <<>>
          BY <1>2, <2>2 DEF IsNewPaper
      <3> QED
          BY <1>2, <3>1 DEF PapersInv
    <2> QED
        BY <2>1, <2>2
<1>8. \A o \in seen' : o.at \in Int /\ o.at <= now'
    BY <1>1, <1>2, <1>3
<1> QED
    BY <1>5, <1>6, <1>7, <1>8 DEF PapersInv, NewestPaper

LEMMA PapersStep ==
    ASSUME TablesFit, PapersInv, Next
    PROVE  PapersInv'
<1>0. TablesFit' /\ StepEnters
    BY TypesInductive
<1>1. ASSUME documents' = documents, NEW j \in Jobs, \A i \in Jobs \ {j} : jobs'[i] = jobs[i]
      PROVE  PapersInv'
  <2>1. \A i \in Jobs \ {j} : OnItsWay(i)' => OnItsWay(i) /\ jobs'[i] = jobs[i]
      BY <1>1 DEF OnItsWay
  <2>2. \A i, k \in Jobs : OnItsWay(i)' /\ OnItsWay(k)' /\ i # k =>
                (OnItsWay(i) /\ jobs'[i] = jobs[i]) \/ (OnItsWay(k) /\ jobs'[k] = jobs[k])
    <3> SUFFICES ASSUME NEW i \in Jobs, NEW k \in Jobs, OnItsWay(i)', OnItsWay(k)', i # k
                 PROVE  (OnItsWay(i) /\ jobs'[i] = jobs[i])
                        \/ (OnItsWay(k) /\ jobs'[k] = jobs[k])
        OBVIOUS
    <3>1. CASE i # j
        BY <2>1, <3>1
    <3>2. CASE k # j
        BY <2>1, <3>2
    <3> QED
        BY <3>1, <3>2
  <2> QED
      BY <1>0, <1>1, <2>2, StampsStep DEF documents
<1>2. ASSUME documents' = documents, jobs' = jobs
      PROVE  PapersInv'
  <2>1. \A i, k \in Jobs : OnItsWay(i)' /\ OnItsWay(k)' /\ i # k =>
                (OnItsWay(i) /\ jobs'[i] = jobs[i]) \/ (OnItsWay(k) /\ jobs'[k] = jobs[k])
      BY <1>2 DEF OnItsWay
  <2> QED
      BY <1>0, <1>2, <2>1, StampsStep DEF documents
<1>3. ASSUME NEW j \in Jobs,
             FetchYahoo(j) \/ FetchHistory(j) \/ FetchDaily(j) \/ FetchCorporate(j)
      PROVE  PapersInv'
  <2>1. documents' = documents /\ \E job : jobs' = [jobs EXCEPT ![j] = job]
      BY <1>3, Zenon DEF FetchYahoo, FetchHistory, FetchDaily, FetchCorporate, Download, documents
  <2> QED
      BY <1>1, <2>1 DEF TablesFit
<1>4. ASSUME NEW j \in Jobs, StoreYahoo(j) \/ StoreHistory(j) \/ StoreDaily(j)
      PROVE  PapersInv'
  <2>1. documents' = documents /\ jobs' = [jobs EXCEPT ![j] = Done]
      BY <1>4 DEF StoreYahoo, StoreHistory, StoreDaily, Storing
  <2> QED
      BY <1>1, <2>1 DEF TablesFit
<1>5. ASSUME \/ EditList \/ ProbeList \/ ProbeReplace \/ ProbeRecord \/ ProbeDies
             \/ BuildUniverse \/ BuildCheck \/ BuildCoverage \/ BuildSave
      PROVE  PapersInv'
    BY <1>2, <1>5 DEF EditList, ProbeList, ProbeReplace, ProbeRecord, ProbeDies, BuildUniverse,
                      BuildCheck, BuildCoverage, BuildSave
<1> QED
    BY <1>0, <1>3, <1>4, <1>5, PaperStored DEF Next

NewestInv == TablesFit /\ PricesInv /\ PapersInv

LEMMA NewestInductive == NewestInv /\ [Next]_vars => NewestInv'
<1> SUFFICES ASSUME NewestInv, [Next]_vars PROVE NewestInv'
    OBVIOUS
<1>1. CASE UNCHANGED vars
  <2>1. \A h : LatestVersion(h)' = LatestVersion(h)
      BY <1>1 DEF vars, prices, LatestVersion, Earlier
  <2>2. PricesInv'
    <3>1. versions' = versions /\ heard' = heard /\ inOrder' = inOrder /\ now' = now
        BY <1>1 DEF vars, prices
    <3> QED
        BY <2>1, <3>1 DEF NewestInv, PricesInv, NewestPrices
  <2>3. PapersInv'
    <3>1. now' = now /\ papers' = papers /\ seen' = seen /\ jobs' = jobs
        BY <1>1 DEF vars, documents
    <3>2. StampsDiffer'
        BY <3>1 DEF NewestInv, PapersInv, StampsDiffer, OnItsWay
    <3> QED
        BY <3>1, <3>2 DEF NewestInv, PapersInv, NewestPaper
  <2> QED
      BY <1>1, <2>2, <2>3, TypesInductive DEF NewestInv
<1> QED
    BY <1>1, TypesInductive, PricesStep, PapersStep DEF NewestInv

LEMMA InitNewest == Init => NewestInv
<1> SUFFICES ASSUME Init PROVE NewestInv
    OBVIOUS
<1>1. versions = {} /\ heard = {} /\ papers = <<>> /\ seen = {} /\ TablesFit
    BY InitTypes DEF Init
<1>2. \A j \in Jobs : ~OnItsWay(j)
    BY DEF Init, OnItsWay, Idle
<1> QED
    BY <1>1, <1>2 DEF NewestInv, PricesInv, NewestPrices, PapersInv, StampsDiffer, NewestPaper

\* The newest version of a price or a document is what the newest response said.
THEOREM NewestAlwaysWins == Spec => []NewestWins
<1>1. NewestInv => NewestWins
    BY DEF NewestInv, PricesInv, NewestPrices, PapersInv, NewestPaper, NewestWins
<1> QED
    BY <1>1, InitNewest, NewestInductive, PTL DEF Spec

-----------------------------------------------------------------------------
(* A usable snapshot is whole.                                             *)

LEMMA Greatest ==
    ASSUME NEW S \in SUBSET Nat, NEW n \in Nat, \A x \in S : x <= n, S # {}
    PROVE  \E m \in S : \A x \in S : x <= m
<1> DEFINE T == {n - x : x \in S}
<1>1. T \subseteq Nat /\ T # {}
    OBVIOUS
<1>2. PICK t \in T : \A y \in T : <<y, t>> \notin OpToRel(<, Nat)
    BY <1>1, NatLessThanWellFounded, WFMin, Zenon
<1>3. \A y \in T : ~(y < t)
    BY <1>1, <1>2 DEF OpToRel
<1>4. PICK m \in S : t = n - m
    OBVIOUS
<1>5. ASSUME NEW x \in S PROVE x <= m
  <2>1. ~(n - x < n - m)
      BY <1>3, <1>4
  <2> QED
      BY <2>1
<1> QED
    BY <1>5

VersionsFit == \A v \in versions : v.src \in PriceKinds /\ v.at \in Nat /\ v.at <= now

LEMMA BestIsRow ==
    ASSUME NEW rows, rows # {}, NEW n \in Nat,
           \A v \in rows : v.src \in PriceKinds /\ v.at \in Nat /\ v.at <= n
    PROVE  Best(rows) \in rows
<1>1. /\ Priority["yahoo"] = 1 /\ Priority["history"] = 2 /\ Priority["daily"] = 3
    BY DEF Priority, PriceKinds
<1>2. ASSUME NEW v \in rows PROVE Priority[v.src] \in Nat /\ Priority[v.src] <= 3
  <2>1. v.src = "yahoo" \/ v.src = "history" \/ v.src = "daily"
      BY DEF PriceKinds
  <2>2. CASE v.src = "yahoo"
      BY <1>1, <2>2
  <2>3. CASE v.src = "history"
      BY <1>1, <2>3
  <2>4. CASE v.src = "daily"
      BY <1>1, <2>4
  <2> QED
      BY <2>1, <2>2, <2>3, <2>4
<1>3. PICK first \in rows : \A v \in rows : Priority[first.src] <= Priority[v.src]
  <2> DEFINE S == {3 - Priority[v.src] : v \in rows}
  <2>1. S \in SUBSET Nat /\ S # {} /\ \A x \in S : x <= 3
      BY <1>2
  <2>2. PICK m \in S : \A x \in S : x <= m
      BY <2>1, Greatest
  <2>3. PICK first \in rows : m = 3 - Priority[first.src]
      OBVIOUS
  <2>4. ASSUME NEW v \in rows PROVE Priority[first.src] <= Priority[v.src]
    <3>1. 3 - Priority[v.src] <= 3 - Priority[first.src]
        BY <2>2, <2>3
    <3>2. Priority[v.src] \in Nat /\ Priority[first.src] \in Nat
        BY <1>2
    <3> QED
        BY <3>1, <3>2
  <2> QED
      BY <2>4
<1> DEFINE stamps == {v.at : v \in {w \in rows : w.src = first.src}}
<1>4. stamps \in SUBSET Nat /\ stamps # {} /\ \A x \in stamps : x <= n
    OBVIOUS
<1>5. PICK last \in stamps : \A x \in stamps : x <= last
    BY <1>4, Greatest
<1>6. PICK best \in rows : best.src = first.src /\ best.at = last
    OBVIOUS
<1>7. ASSUME NEW w \in rows PROVE ~Before(w, best)
  <2>1. ~(Priority[w.src] < Priority[best.src])
    <3>1. Priority[w.src] \in Int /\ Priority[first.src] \in Int
        BY <1>2
    <3> QED
        BY <1>3, <1>6, <3>1
  <2>2. ASSUME w.src = best.src PROVE ~(w.at > best.at)
    <3>1. w.at \in stamps
        BY <1>6, <2>2
    <3>2. w.at <= last /\ w.at \in Int /\ best.at \in Int
        BY <1>5, <3>1
    <3> QED
        BY <1>6, <3>2
  <2> QED
      BY <2>1, <2>2 DEF Before
<1> QED
    BY <1>7 DEF Best

LEMMA RowsWhole ==
    ASSUME VersionsFit, now \in Nat, NEW c, NEW u, IsFiniteSet(u), u # {}, NEW day,
           Cardinality(PricesAt({day} \cap Days, Members(u), c)) >= Cardinality(u)
    PROVE  {r.symbol : r \in PricesAt({day} \cap Days, Members(u), c)} = Members(u)
<1> DEFINE rows == PricesAt({day} \cap Days, Members(u), c)
           A == Members(u)
           K == {s \in A : RowsOf(s, day, c) # {}}
           best(s) == Best(RowsOf(s, day, c))
<1>1. IsFiniteSet(A) /\ Cardinality(A) <= Cardinality(u)
  <2>1. [e \in u |-> e.symbol] \in Surjection(u, A)
      BY DEF Surjection, Members
  <2> QED
      BY <2>1, FS_Surjection
<1>2. IsFiniteSet(K) /\ Cardinality(K) <= Cardinality(A) /\ (Cardinality(A) = Cardinality(K) => A = K)
    BY <1>1, FS_Subset
<1>3. day \in Days
  <2>1. day \notin Days => rows = {}
      BY DEF PricesAt
  <2>2. Cardinality(u) \in Nat /\ Cardinality(u) # 0 /\ Cardinality({}) = 0
      BY FS_EmptySet, FS_CardinalityType
  <2> QED
    <3> HIDE DEF rows
    <3>1. Cardinality(rows) >= Cardinality(u)
        BY DEF rows
    <3>2. ~(Cardinality(rows) = 0)
        BY <2>2, <3>1
    <3> QED
        BY <2>1, <2>2, <3>2
<1>4. rows = {best(s) : s \in K}
  <2>1. \A p \in A \X ({day} \cap Days) : p[1] \in A /\ p[2] = day
      OBVIOUS
  <2>2. \A s \in A : <<s, day>> \in A \X ({day} \cap Days)
      BY <1>3
  <2> QED
    <3> DEFINE P == {q \in A \X ({day} \cap Days) : RowsOf(q[1], q[2], c) # {}}
    <3>1. rows = {Best(RowsOf(p[1], p[2], c)) : p \in P}
        BY Zenon DEF PricesAt
    <3>2. \A p \in P : p[1] \in K /\ p[2] = day
        BY <2>1
    <3>3. \A s \in K : <<s, day>> \in P /\ <<s, day>>[1] = s /\ <<s, day>>[2] = day
        BY <2>2
    <3> HIDE DEF P, K, A, rows
    <3> QED
        BY <3>1, <3>2, <3>3
<1>5. IsFiniteSet(rows) /\ Cardinality(rows) <= Cardinality(K)
  <2> HIDE DEF best, rows, K
  <2>1. [s \in K |-> best(s)] \in Surjection(K, rows)
      BY <1>4 DEF Surjection
  <2> QED
      BY <1>2, <2>1, FS_Surjection
<1>6. K = A
  <2>1. /\ Cardinality(u) \in Nat /\ Cardinality(A) \in Nat /\ Cardinality(K) \in Nat
        /\ Cardinality(rows) \in Nat
      BY <1>1, <1>2, <1>5, FS_CardinalityType
  <2> QED
      BY <1>1, <1>2, <1>5, <2>1
<1>7. ASSUME NEW s \in K PROVE best(s).symbol = s
  <2>1. \A v \in RowsOf(s, day, c) : v.src \in PriceKinds /\ v.at \in Nat /\ v.at <= now
      BY DEF RowsOf, Visible, VersionsFit
  <2>2. best(s) \in RowsOf(s, day, c)
      BY <2>1, BestIsRow
  <2> QED
      BY <2>2 DEF RowsOf
<1> HIDE DEF best, rows, K
<1>8. {r.symbol : r \in rows} = K
    BY <1>4, <1>7
<1> QED
    BY <1>6, <1>8 DEF rows

\* A validation names an edition of the list, and no stamp of the future.
ChecksFit == \A c \in checks :
    /\ c.at \in Nat /\ c.at <= now
    /\ \E n \in DOMAIN Lists : c.version = VersionOf(n)

\* No validation begun before the cutoff is under way.
Validated(c) == probe.pc # "idle" => probe.at > c

\* The snapshot under way has read the universe that is in force, or knows that it
\* has not, and the validation.
BuildWhole ==
    \/ build = Idle
    \/ /\ build.pc \in {"check", "coverage", "prices"}
       /\ {"pc", "check", "day", "moved"} \subseteq DOMAIN build
       /\ build.cutoff \in Nat /\ build.cutoff <= now
       /\ build.quiet => Validated(build.cutoff)
       /\ ~build.moved => build.universe = Universe
       /\ \A c \in build.check : \E n \in DOMAIN Lists : c.version = VersionOf(n)
       /\ build.quiet /\ build.pc # "check" => build.check = CheckAt(build.cutoff)
SnapsWhole == \A s \in snaps :
    /\ s.cutoff \in Nat /\ s.cutoff <= now
    /\ s.quiet => Validated(s.cutoff)

WholeInv == ChecksFit /\ BuildWhole /\ SnapsWhole /\ UsableIsWhole

LEMMA CheckIsOne ==
    ASSUME ChecksFit, NEW c \in Nat
    PROVE  CheckAt(c) \subseteq checks
<1> DEFINE known == {k \in checks : k.at <= c}
           stamps == {k.at : k \in known}
<1>1. CASE known # {}
  <2>1. stamps \in SUBSET Nat /\ stamps # {} /\ \A x \in stamps : x <= c
      BY <1>1 DEF ChecksFit
  <2>2. PICK m \in stamps : \A x \in stamps : x <= m
      BY <2>1, Greatest
  <2>3. \E k \in known : \A o \in known : o.at <= k.at
      BY <2>2
  <2> QED
      BY <2>3 DEF CheckAt
<1>2. CASE known = {}
    BY <1>2 DEF CheckAt
<1> QED
    BY <1>1, <1>2

LEMMA UniverseFinite == IsFiniteSet(Universe)
<1> DEFINE members == {s \in Symbols : instruments[s].in}
<1>1. IsFiniteSet(members)
    BY FS_Subset
<1>2. [s \in members |-> [symbol |-> s, date |-> instruments[s].date]]
        \in Surjection(members, Universe)
    BY DEF Surjection, Universe
<1> QED
    BY <1>1, <1>2, FS_Surjection

\* What a step brings of validations.
NewChecks ==
    /\ now' \in Nat /\ now' >= now
    /\ \/ checks' = checks
       \/ /\ probe.pc # "idle"
          /\ \E k : /\ k.at = probe.at /\ k.version = VersionOf(probe.list)
                    /\ checks' = checks \cup {k}
    /\ probe'.pc # "idle" => \/ probe.pc # "idle" /\ probe'.at = probe.at
                             \/ probe'.at \in Nat /\ probe'.at > now

LEMMA ChecksStep ==
    ASSUME TablesFit, Next
    PROVE  NewChecks
<1>0. now' \in Nat /\ now' >= now /\ now \in Nat
    BY TypesInductive DEF StepEnters, TablesFit
<1>1. ASSUME checks' = checks, probe' = probe PROVE NewChecks
    BY <1>0, <1>1 DEF NewChecks
<1>2. CASE ProbeList
  <2>1. probe'.at = now + 1 /\ checks' = checks
      BY <1>2 DEF ProbeList
  <2> QED
      BY <1>0, <2>1 DEF NewChecks
<1>3. CASE ProbeReplace
  <2>1. /\ probe.pc # "idle" /\ checks' = checks
        /\ probe' = [probe EXCEPT !.pc = "record"]
      BY <1>3 DEF ProbeReplace
  <2>2. probe'.at = probe.at
      BY <2>1
  <2> QED
      BY <1>0, <2>1, <2>2 DEF NewChecks
<1>4. CASE ProbeRecord
  <2>1. PICK passed \in BOOLEAN : checks' = checks \cup
            {[at |-> probe.at, version |-> VersionOf(probe.list), usable |-> passed]}
      BY <1>4 DEF ProbeRecord
  <2>2. probe.pc # "idle" /\ probe'.pc = "idle"
      BY <1>4 DEF ProbeRecord, Idle
  <2> DEFINE k == [at |-> probe.at, version |-> VersionOf(probe.list), usable |-> passed]
  <2>3. k.at = probe.at /\ k.version = VersionOf(probe.list) /\ checks' = checks \cup {k}
      BY <2>1
  <2> HIDE DEF k
  <2> QED
      BY <1>0, <2>2, <2>3 DEF NewChecks
<1>5. CASE ProbeDies
    BY <1>0, <1>5 DEF ProbeDies, Idle, NewChecks
<1>6. ASSUME NEW j \in Jobs,
             \/ FetchYahoo(j) \/ FetchHistory(j) \/ FetchDaily(j) \/ FetchCorporate(j)
             \/ StoreYahoo(j) \/ StoreHistory(j) \/ StoreDaily(j) \/ StoreCorporate(j)
      PROVE  NewChecks
    BY <1>1, <1>6 DEF FetchYahoo, FetchHistory, FetchDaily, FetchCorporate, Download,
                      StoreYahoo, StoreHistory, StoreDaily, StoreCorporate, Storing
<1>7. CASE EditList \/ BuildUniverse \/ BuildCheck \/ BuildCoverage \/ BuildSave
    BY <1>1, <1>7 DEF EditList, BuildUniverse, BuildCheck, BuildCoverage, BuildSave
<1> QED
    BY <1>2, <1>3, <1>4, <1>5, <1>6, <1>7 DEF Next

LEMMA ChecksFitKept ==
    ASSUME TablesFit, ChecksFit, NewChecks
    PROVE  ChecksFit'
<1>1. now \in Nat /\ now' \in Nat /\ now <= now'
    BY DEF TablesFit, NewChecks
<1>2. probe.pc # "idle" => probe.list \in DOMAIN Lists /\ probe.at \in Nat /\ probe.at <= now
    BY DEF TablesFit, ProbeFits
<1>3. CASE checks' = checks
    BY <1>1, <1>3 DEF ChecksFit
<1>4. ASSUME probe.pc # "idle", NEW k, k.at = probe.at, k.version = VersionOf(probe.list),
             checks' = checks \cup {k}
      PROVE  ChecksFit'
    BY <1>1, <1>2, <1>4 DEF ChecksFit
<1> QED
    BY <1>3, <1>4 DEF NewChecks

LEMMA ValidatedKept ==
    ASSUME TablesFit, ChecksFit, NewChecks, NEW c \in Nat, c <= now, Validated(c)
    PROVE  Validated(c)' /\ CheckAt(c)' = CheckAt(c)
<1>1. now \in Nat /\ (probe.pc # "idle" => probe.at \in Nat /\ probe.at > c)
    BY DEF TablesFit, ProbeFits, Validated
<1>2. Validated(c)'
    BY <1>1 DEF NewChecks, Validated
<1>3. {k \in checks' : k.at <= c} = {k \in checks : k.at <= c}
  <2>1. CASE checks' = checks
      BY <2>1
  <2>2. ASSUME NEW k, k.at = probe.at, checks' = checks \cup {k}, probe.pc # "idle"
        PROVE  {x \in checks' : x.at <= c} = {x \in checks : x.at <= c}
    <3>1. ~(k.at <= c)
        BY <1>1, <2>2
    <3> QED
        BY <2>2, <3>1
  <2> QED
      BY <2>1, <2>2 DEF NewChecks
<1> QED
    BY <1>2, <1>3 DEF CheckAt

\* Whoever changes the instruments is noticed.
Noticed == \/ build' = build /\ (build # Idle => instruments' = instruments)
           \/ build # Idle /\ build' = [build EXCEPT !.moved = TRUE]

\* What was saved and validated stays.
LEMMA SavedWhole ==
    ASSUME TablesFit, WholeInv, NewChecks, snaps' = snaps
    PROVE  ChecksFit' /\ SnapsWhole' /\ UsableIsWhole'
<1>0. now \in Nat /\ now' \in Nat /\ now <= now'
    BY DEF TablesFit, NewChecks
<1>1. ChecksFit'
    BY ChecksFitKept DEF WholeInv
<1>2. SnapsWhole'
    BY <1>0, ValidatedKept DEF WholeInv, SnapsWhole
<1>3. UsableIsWhole'
  <2> SUFFICES ASSUME NEW s \in snaps, s.usable, ~s.moved
               PROVE  /\ {r.symbol : r \in s.rows} = Members(s.universe)
                      /\ \E n \in DOMAIN Lists : s.universe = VersionOf(n)
                      /\ s.check # {} /\ (s.quiet => s.check = CheckAt(s.cutoff)')
      BY DEF UsableIsWhole
  <2>1. s.quiet => CheckAt(s.cutoff)' = CheckAt(s.cutoff)
      BY ValidatedKept DEF WholeInv, SnapsWhole
  <2> QED
      BY <2>1 DEF WholeInv, UsableIsWhole
<1> QED
    BY <1>1, <1>2, <1>3

LEMMA OtherWhole ==
    ASSUME TablesFit, WholeInv, NewChecks, Noticed, snaps' = snaps
    PROVE  WholeInv'
<1>0. now \in Nat /\ now' \in Nat /\ now <= now'
    BY DEF TablesFit, NewChecks
<1>1. BuildWhole'
  <2>1. CASE build = Idle
      BY <2>1 DEF Noticed, BuildWhole
  <2>2. CASE build # Idle
    <3>1. /\ build.pc \in {"check", "coverage", "prices"}
          /\ {"pc", "check", "day", "moved"} \subseteq DOMAIN build
          /\ build.cutoff \in Nat /\ build.cutoff <= now
          /\ build.quiet => Validated(build.cutoff)
          /\ ~build.moved => build.universe = Universe
          /\ \A c \in build.check : \E n \in DOMAIN Lists : c.version = VersionOf(n)
          /\ build.quiet /\ build.pc # "check" => build.check = CheckAt(build.cutoff)
        BY <2>2 DEF WholeInv, BuildWhole
    <3>2. /\ build'.pc = build.pc /\ build'.cutoff = build.cutoff
          /\ build'.quiet = build.quiet /\ build'.universe = build.universe
          /\ build'.check = build.check /\ DOMAIN build' = DOMAIN build
      <4>1. CASE build' = build
          BY <4>1
      <4>2. CASE build' = [build EXCEPT !.moved = TRUE]
        <5>1. build'.pc = build.pc /\ build'.cutoff = build.cutoff
            BY <4>2
        <5>2. build'.quiet = build.quiet /\ build'.universe = build.universe
            BY <4>2
        <5>3. build'.check = build.check /\ DOMAIN build' = DOMAIN build
            BY <4>2
        <5> QED
            BY <5>1, <5>2, <5>3
      <4> QED
          BY <2>2, <4>1, <4>2 DEF Noticed
    <3>3. build'.moved \/ (instruments' = instruments /\ build'.moved = build.moved)
        BY <2>2, <3>1 DEF Noticed
    <3>4. ~build'.moved => build'.universe = Universe'
        BY <3>1, <3>2, <3>3 DEF Universe
    <3>5. PICK c \in Nat : c = build.cutoff
        BY <3>1
    <3>6. build.quiet => Validated(c)' /\ CheckAt(c)' = CheckAt(c)
        BY <3>1, <3>5, ValidatedKept DEF WholeInv
    <3>7. build'.quiet => Validated(build.cutoff)'
        BY <3>2, <3>5, <3>6 DEF Validated
    <3>8. build'.quiet /\ build'.pc # "check" => build'.check = CheckAt(build.cutoff)'
        BY <3>1, <3>2, <3>5, <3>6 DEF CheckAt
    <3> QED
        BY <1>0, <3>1, <3>2, <3>4, <3>7, <3>8 DEF BuildWhole
  <2> QED
      BY <2>1, <2>2
<1> QED
    BY <1>1, SavedWhole DEF WholeInv

LEMMA InstrumentsNotice ==
    ASSUME NEW table, Instruments(table)
    PROVE  Noticed
<1>1. CASE build # Idle /\ table # instruments
    BY <1>1 DEF Instruments, Noticed
<1>2. CASE ~(build # Idle /\ table # instruments)
    BY <1>2 DEF Instruments, Noticed
<1> QED
    BY <1>1, <1>2

\* The steps of collectors and of the validation.
LEMMA OthersNotice ==
    ASSUME Next, ~BuildUniverse, ~BuildCheck, ~BuildCoverage, ~BuildSave
    PROVE  Noticed /\ snaps' = snaps
<1>1. CASE EditList \/ ProbeList \/ ProbeRecord \/ ProbeDies
    BY <1>1 DEF Noticed, EditList, ProbeList, ProbeRecord, ProbeDies
<1>2. CASE ProbeReplace
    BY <1>2, InstrumentsNotice DEF ProbeReplace
<1>3. ASSUME NEW j \in Jobs, FetchYahoo(j) \/ FetchHistory(j)
      PROVE  Noticed /\ snaps' = snaps
    BY <1>3, InstrumentsNotice DEF FetchYahoo, FetchHistory, EnterList, Download
<1>4. ASSUME NEW j \in Jobs, FetchDaily(j) \/ FetchCorporate(j)
      PROVE  Noticed /\ snaps' = snaps
    BY <1>4 DEF Noticed, FetchDaily, FetchCorporate, Download
<1>5. ASSUME NEW j \in Jobs, StoreYahoo(j) \/ StoreHistory(j) \/ StoreDaily(j)
      PROVE  Noticed /\ snaps' = snaps
  <2>1. PICK rows, table : StoreAll(rows, table)
      BY <1>5 DEF StoreYahoo, StoreHistory, StoreDaily
  <2>2. snaps' = snaps
      BY <1>5 DEF StoreYahoo, StoreHistory, StoreDaily, Storing
  <2>3. Noticed
      BY <2>1, InstrumentsNotice DEF StoreAll, Noticed
  <2> QED
      BY <2>2, <2>3
<1>6. ASSUME NEW j \in Jobs, StoreCorporate(j)
      PROVE  Noticed /\ snaps' = snaps
    BY <1>6, InstrumentsNotice DEF StoreCorporate, Storing
<1> QED
    BY <1>1, <1>2, <1>3, <1>4, <1>5, <1>6 DEF Next

LEMMA WholeStep ==
    ASSUME TablesFit, PricesInv, WholeInv, Next
    PROVE  WholeInv'
<1>0. NewChecks /\ now \in Nat
    BY ChecksStep DEF TablesFit
<1>1. CASE ~BuildUniverse /\ ~BuildCheck /\ ~BuildCoverage /\ ~BuildSave
    BY <1>0, <1>1, OthersNotice, OtherWhole
<1>2. CASE BuildUniverse
  <2>1. PICK cutoff \in 1..(now + 1) :
          /\ IF cutoff > now THEN Stamp ELSE now' = now
          /\ build' = [pc |-> "check", cutoff |-> cutoff, universe |-> Universe,
                       check |-> {}, day |-> 0, quiet |-> Quiet(cutoff),
                       moved |-> FALSE]
      BY <1>2 DEF BuildUniverse
  <2>2. UNCHANGED <<probe, instruments, checks, snaps>>
      BY <1>2 DEF BuildUniverse
  <2>3. cutoff \in Nat /\ cutoff <= now'
      BY <1>0, <2>1 DEF Stamp
  <2>4. Quiet(cutoff) => Validated(cutoff)'
      BY <2>2 DEF Quiet, Validated, Idle
  <2>5. Universe' = Universe
      BY <2>2 DEF Universe
  <2>6. /\ build'.pc = "check" /\ build'.cutoff = cutoff /\ build'.universe = Universe
        /\ build'.check = {} /\ build'.quiet = Quiet(cutoff) /\ build'.moved = FALSE
        /\ DOMAIN build' = {"pc", "cutoff", "universe", "check", "day", "quiet", "moved"}
      BY <2>1
  <2>7. BuildWhole'
      BY <2>3, <2>4, <2>5, <2>6 DEF BuildWhole, Validated
  <2> QED
      BY <1>0, <2>2, <2>7, SavedWhole DEF WholeInv
<1>3. CASE BuildCheck \/ BuildCoverage
  <2>1. UNCHANGED <<now, probe, instruments, checks, snaps>>
      BY <1>3 DEF BuildCheck, BuildCoverage
  <2>2. /\ build # Idle /\ build.pc \in {"check", "coverage", "prices"}
        /\ {"pc", "check", "day", "moved"} \subseteq DOMAIN build
        /\ build.cutoff \in Nat /\ build.cutoff <= now
        /\ build.quiet => Validated(build.cutoff)
        /\ ~build.moved => build.universe = Universe
        /\ \A c \in build.check : \E n \in DOMAIN Lists : c.version = VersionOf(n)
        /\ build.quiet /\ build.pc # "check" => build.check = CheckAt(build.cutoff)
      BY <1>3 DEF WholeInv, BuildWhole, BuildCheck, BuildCoverage, Idle
  <2>3. \A c : Universe' = Universe /\ CheckAt(c)' = CheckAt(c) /\ Validated(c)' = Validated(c)
      BY <2>1 DEF Universe, CheckAt, Validated
  <2>4. ASSUME BuildCheck PROVE BuildWhole'
    <3>1. build' = [build EXCEPT !.pc = "coverage", !.check = CheckAt(build.cutoff)]
        BY <2>4 DEF BuildCheck
    <3>2. build'.pc = "coverage" /\ build'.check = CheckAt(build.cutoff)
        BY <2>2, <3>1
    <3>3. build'.cutoff = build.cutoff /\ build'.quiet = build.quiet
        BY <3>1
    <3>4. build'.universe = build.universe /\ build'.moved = build.moved
        BY <3>1
    <3>5. DOMAIN build' = DOMAIN build
        BY <3>1
    <3>6. \A c \in build'.check : \E n \in DOMAIN Lists : c.version = VersionOf(n)
        BY <2>2, <3>2, CheckIsOne DEF WholeInv, ChecksFit
    <3> QED
        BY <2>1, <2>2, <2>3, <3>2, <3>3, <3>4, <3>5, <3>6 DEF BuildWhole
  <2>5. ASSUME BuildCoverage PROVE BuildWhole'
    <3>1. PICK d : build' = [build EXCEPT !.pc = "prices", !.day = d]
        BY <2>5, Zenon DEF BuildCoverage
    <3>2. build'.pc = "prices" /\ build'.check = build.check /\ build.pc # "check"
        BY <2>2, <2>5, <3>1 DEF BuildCoverage
    <3>3. build'.cutoff = build.cutoff /\ build'.quiet = build.quiet
        BY <3>1
    <3>4. build'.universe = build.universe /\ build'.moved = build.moved
        BY <3>1
    <3>5. DOMAIN build' = DOMAIN build
        BY <3>1
    <3> QED
        BY <2>1, <2>2, <2>3, <3>2, <3>3, <3>4, <3>5 DEF BuildWhole
  <2> QED
      BY <1>0, <1>3, <2>1, <2>4, <2>5, SavedWhole DEF WholeInv
<1>4. CASE BuildSave
  <2>1. UNCHANGED <<now, probe, instruments, checks>> /\ build' = Idle /\ build.pc = "prices"
      BY <1>4 DEF BuildSave
  <2>2. /\ build.cutoff \in Nat /\ build.cutoff <= now
        /\ build.quiet => Validated(build.cutoff) /\ build.check = CheckAt(build.cutoff)
        /\ ~build.moved => build.universe = Universe
        /\ \A c \in build.check : \E n \in DOMAIN Lists : c.version = VersionOf(n)
      BY <2>1 DEF WholeInv, BuildWhole, Idle
  <2>3. \A c : CheckAt(c)' = CheckAt(c) /\ Validated(c)' = Validated(c)
      BY <2>1 DEF CheckAt, Validated
  <2>4. PICK s : /\ snaps' = snaps \cup {s}
                 /\ s.cutoff = build.cutoff /\ s.quiet = build.quiet
                 /\ s.universe = build.universe /\ s.check = build.check
                 /\ s.rows = PricesAt({build.day} \cap Days, Members(Universe), build.cutoff)
                 /\ s.moved = build.moved /\ s.usable = Usable(build, s.rows)
    <3> DEFINE asked == Members(Universe)
               rows == PricesAt({build.day} \cap Days, asked, build.cutoff)
               s == [cutoff |-> build.cutoff, universe |-> build.universe,
                     check |-> build.check, day |-> build.day, asked |-> asked,
                     rows |-> rows, paper |-> PaperAt(build.cutoff),
                     usable |-> Usable(build, rows), quiet |-> build.quiet,
                     moved |-> build.moved]
    <3>1. snaps' = snaps \cup {s}
        BY <1>4, Zenon DEF BuildSave
    <3>2. /\ s.cutoff = build.cutoff /\ s.quiet = build.quiet
          /\ s.universe = build.universe /\ s.check = build.check
        OBVIOUS
    <3>3. /\ s.rows = PricesAt({build.day} \cap Days, Members(Universe), build.cutoff)
          /\ s.moved = build.moved /\ s.usable = Usable(build, s.rows)
        BY Zenon
    <3> HIDE DEF s
    <3> QED
        BY <3>1, <3>2, <3>3, Zenon
  <2>5. ASSUME s.usable, ~s.moved
        PROVE  /\ {r.symbol : r \in s.rows} = Members(s.universe)
               /\ \E n \in DOMAIN Lists : s.universe = VersionOf(n)
               /\ s.check # {} /\ (s.quiet => s.check = CheckAt(s.cutoff))
    <3>1. /\ build.universe # {} /\ Cardinality(s.rows) >= Cardinality(build.universe)
          /\ \E c \in build.check : c.version = build.universe
        BY <2>4, <2>5 DEF Usable
    <3>2. build.universe = Universe /\ s.universe = Universe
        BY <2>2, <2>4, <2>5
    <3>3. {r.symbol : r \in s.rows} = Members(Universe)
      <4>1. VersionsFit
          BY DEF PricesInv, VersionsFit
      <4>2. Cardinality(PricesAt({build.day} \cap Days, Members(Universe), build.cutoff))
                >= Cardinality(Universe)
          BY <2>4, <3>1, <3>2
      <4>3. Universe # {}
          BY <3>1, <3>2
      <4>4. PICK u, c : u = Universe /\ c = build.cutoff
          OBVIOUS
      <4>5. {r.symbol : r \in PricesAt({build.day} \cap Days, Members(u), c)} = Members(u)
          BY <1>0, <4>1, <4>2, <4>3, <4>4, UniverseFinite, RowsWhole
      <4> QED
          BY <2>4, <4>4, <4>5
    <3> QED
        BY <2>2, <2>4, <3>1, <3>2, <3>3
  <2>6. UsableIsWhole'
      BY <2>3, <2>4, <2>5 DEF WholeInv, UsableIsWhole
  <2>7. SnapsWhole'
      BY <2>1, <2>2, <2>3, <2>4 DEF WholeInv, SnapsWhole
  <2>8. ChecksFit' /\ BuildWhole'
      BY <2>1 DEF WholeInv, ChecksFit, BuildWhole
  <2> QED
      BY <2>6, <2>7, <2>8 DEF WholeInv
<1> QED
    BY <1>1, <1>2, <1>3, <1>4

LEMMA WholeInductive == NewestInv /\ WholeInv /\ [Next]_vars => WholeInv'
<1> SUFFICES ASSUME NewestInv, WholeInv, [Next]_vars PROVE WholeInv'
    OBVIOUS
<1>1. CASE UNCHANGED vars
  <2>1. /\ now' = now /\ probe' = probe /\ checks' = checks /\ build' = build
        /\ instruments' = instruments /\ snaps' = snaps
      BY <1>1 DEF vars
  <2>2. NewChecks /\ Noticed
      BY <2>1 DEF NewestInv, TablesFit, NewChecks, Noticed
  <2> QED
      BY <2>1, <2>2, OtherWhole DEF NewestInv
<1> QED
    BY <1>1, WholeStep DEF NewestInv

\* A usable snapshot has a price whose stamp passes for final for every member of
\* the universe that was validated last, unless the instruments changed meanwhile.
THEOREM UsableSnapshotsAreWhole == Spec => []UsableIsWhole
<1>1. Init => NewestInv /\ WholeInv
    BY InitNewest DEF Init, WholeInv, ChecksFit, BuildWhole, SnapsWhole, UsableIsWhole
<1> QED
    BY <1>1, NewestInductive, WholeInductive, PTL DEF Spec, WholeInv

=============================================================================
