----------------------------- MODULE MarketData -----------------------------
(***************************************************************************)
(* The market data store and the research snapshots read from it           *)
(* (data/database.py, collector.py, historical_collector.py,               *)
(* yfinance_history.py, corporate_collector.py, snapshot_repository.py,    *)
(* snapshot.py, scripts/probe_data_sources.py).                            *)
(*                                                                         *)
(* Collectors are processes of their own: they download, stamp what came   *)
(* with the time it was fetched, and store it in one transaction.  Nothing *)
(* is ever written over: a price or a document that changed becomes a      *)
(* further version.  A snapshot has a cutoff and reads what was stamped no *)
(* later; its statements run outside a transaction, so that collectors may *)
(* commit between them.  The decision reads the history of prices later,   *)
(* at the same cutoff.                                                     *)
(*                                                                         *)
(* Time is the number of stamps taken so far: every look at the clock      *)
(* finds it later than the one before.  When the trading days close and    *)
(* when their prices are final is given as the last stamp before it.       *)
(* There is one document, for documents do not interact.  All rows of a    *)
(* response bear one stamp and, for a day, one content.                    *)
(***************************************************************************)
EXTENDS Integers, Sequences, FiniteSets, FiniteSetsExt

CONSTANTS
    Symbols,
    Days,           \* trading days 1..n
    ClosesAfter,    \* [Days -> Nat]: the last stamp before a day's close,
    FinalAfter,     \* and the last one before its prices are final
    Jobs,           \* collections, each of which runs at most once
    Lists,          \* the editions of data/official_universe.csv, a sequence of sets
    Mixes,          \* bound: how often each collector may run, of which one applies
    MaxStamps,      \* bound: looks at the clock
    Contents,       \* what a source may report
    Gaps,           \* symbols a source may have no price of
    MaxSnaps        \* bound: snapshots that are built

PriceKinds == {"yahoo", "history", "daily"}
AllKinds == PriceKinds \cup {"corporate"}
Interim == "interim"    \* what an unofficial source says before a day is final
ASSUME MarketAssumption ==
    /\ IsFiniteSet(Symbols)
    /\ IsFiniteSet(Days) /\ Days # {} /\ Days = 1..Cardinality(Days)
    /\ ClosesAfter \in [Days -> Nat] /\ FinalAfter \in [Days -> Nat]
    /\ \E d \in Days : ClosesAfter[d] = 0
    /\ \A mix \in Mixes : mix \in [AllKinds -> Nat]
    /\ Lists \in Seq((SUBSET Symbols) \ {{}}) /\ Lists # <<>>
    /\ Interim \notin Contents /\ Gaps \subseteq Symbols
    /\ MaxStamps \in Nat /\ MaxSnaps \in Nat

VARIABLES
    now,         \* the last stamp taken
    edition,     \* the edition of the list of instruments on the disk
    versions,    \* table daily_prices
    instruments, \* table instruments: membership and source_date
    checks,      \* table universe_validation_runs
    papers,      \* the versions of the document, table source_documents
    seen,        \* table source_document_observations
    jobs,        \* what each collector does
    ran,         \* how often each collector was run
    probe,       \* what scripts/probe_data_sources.py does
    build,       \* the snapshot being built
    snaps,       \* the snapshots that were saved
    heard,       \* the rows of every response that was stored or found unchanged
    inOrder      \* whether they came in the order of their stamps

vars == <<now, edition, versions, instruments,
          checks, papers, seen, jobs, ran, probe, build, snaps, heard, inOrder>>
prices == <<versions, heard, inOrder>>
documents == <<papers, seen>>

-----------------------------------------------------------------------------
\* market_close_at and price_finalized_at: whether a stamp was taken after them.
Closed(d, at) == at > ClosesAfter[d]
Finalized(d, at) == at > FinalAfter[d]

\* Only what an exchange publishes is final as soon as it is there.
RequiresFinalizedFetch(src) == src = "yahoo"
Final(v) == RequiresFinalizedFetch(v.src) => Finalized(v.day, v.at)

\* _SOURCE_PRIORITY_SQL.
Priority == [src \in PriceKinds |->
                CASE src = "yahoo" -> 1 [] src = "history" -> 2 [] src = "daily" -> 3]

\* The instruments of the competition universe, with the date their list bears.
Universe == {[symbol |-> s, date |-> instruments[s].date] :
                s \in {x \in Symbols : instruments[x].in}}
Members(u) == {e.symbol : e \in u}

\* compute_universe_version of a list; an edition is dated by its number.
VersionOf(n) == {[symbol |-> s, date |-> n] : s \in Lists[n]}

-----------------------------------------------------------------------------
(* What is read at a cutoff.                                               *)

\* _FINALIZED_SQL and the cutoff of every query.
Visible(cutoff) == {v \in versions : v.at <= cutoff /\ Final(v)}

\* _VERSION_ORDER_SQL: the source first, then the latest version of it.
Before(v, w) == \/ Priority[v.src] < Priority[w.src]
                \/ v.src = w.src /\ v.at > w.at
Best(rows) == CHOOSE v \in rows : \A w \in rows : ~Before(w, v)

RowsOf(s, d, cutoff) == {v \in Visible(cutoff) : v.symbol = s /\ v.day = d}

\* load_prices and load_price_history: the rows of the days asked for.
PricesAt(days, symbols, cutoff) ==
    {Best(RowsOf(p[1], p[2], cutoff)) : p \in
        {q \in symbols \X days : RowsOf(q[1], q[2], cutoff) # {}}}

\* latest_trade_date_coverage: the latest day with a price of every member, else
\* of any; 0 when there is none.
TradeDate(members, cutoff) ==
    LET days == {d \in Days : Closed(d, cutoff)}
        any == {d \in days : \E s \in members : RowsOf(s, d, cutoff) # {}}
        complete == {d \in any : \A s \in members : RowsOf(s, d, cutoff) # {}}
    IN  IF complete # {} THEN Max(complete)
        ELSE IF any # {} THEN Max(any) ELSE 0

\* load_documents: the highest version that was available; 0 when there is none.
PaperAt(cutoff) ==
    LET eligible == {n \in DOMAIN papers : papers[n].at <= cutoff}
    IN  IF eligible = {} THEN 0 ELSE Max(eligible)

\* load_validation.
CheckAt(cutoff) ==
    LET known == {c \in checks : c.at <= cutoff}
    IN  IF known = {} THEN {} ELSE {CHOOSE c \in known : \A o \in known : o.at <= c.at}

-----------------------------------------------------------------------------
(* What is written.                                                        *)

\* Mutant: the day of a price becomes the date of a member.
UpsertDates(table, symbols, date, member) ==
    [s \in Symbols |->
        IF s \notin symbols THEN table[s]
        ELSE [in |-> table[s].in \/ member, date |-> date]]

\* upsert_instruments: a member stays one, and one seen outside the list keeps
\* the date its list gave it.
Upsert(table, symbols, date, member) ==
    [s \in Symbols |->
        IF s \notin symbols THEN table[s]
        ELSE [in |-> table[s].in \/ member,
              date |-> IF table[s].in /\ ~member THEN table[s].date ELSE date]]

\* replace_competition_universe.
ReplaceUniverse(n) ==
    Upsert([s \in Symbols |-> [instruments[s] EXCEPT !.in = FALSE]], Lists[n], n, TRUE)

Same(v, r) == v.symbol = r.symbol /\ v.day = r.day /\ v.src = r.src
Earlier(r) == {v \in versions : Same(v, r)}

LatestVersion(r) == CHOOSE v \in Earlier(r) : \A w \in Earlier(r) : w.at <= v.at

\* A row that repeats the latest version adds none, unless it is the first one
\* fetched after the prices of an unofficial source were final.
ConfirmsFinality(r) ==
    /\ RequiresFinalizedFetch(r.src)
    /\ ~Finalized(r.day, LatestVersion(r).at) /\ Finalized(r.day, r.at)
Unchanged(r) ==
    Earlier(r) # {} /\ LatestVersion(r).content = r.content /\ ~ConfirmsFinality(r)

\* store_prices: one row that changed but is not later refuses the whole batch.
Refused(rows) ==
    \E r \in rows : /\ Earlier(r) # {} /\ ~Unchanged(r)
                    /\ r.at <= LatestVersion(r).at

\* Mutant: the latest version is written over, as the table did once.
StorePricesOver(rows) ==
    /\ ~Refused(rows)
    /\ versions' = {v \in versions : ~\E r \in rows : Same(v, r) /\ ~Unchanged(r)}
                    \cup {r \in rows : ~Unchanged(r)}
    /\ heard' = heard \cup rows
    /\ inOrder' = (inOrder /\ \A r \in rows, h \in heard : Same(h, r) => h.at < r.at)

StorePrices(rows) ==
    /\ ~Refused(rows)
    /\ versions' = versions \cup {r \in rows : ~Unchanged(r)}
    /\ heard' = heard \cup rows
    /\ inOrder' = (inOrder /\ \A r \in rows, h \in heard : Same(h, r) => h.at < r.at)

\* Mutant: only the stamp of the latest version is looked at, not that of a
\* later observation of the same content.
IsNewPaperUnseen(content, at) ==
    papers = <<>> \/
        LET previous == papers[Len(papers)]
        IN  previous.content # content /\ at >= previous.at

\* _store_record: whether what was observed is a further version.
IsNewPaper(content, at) ==
    papers = <<>> \/
        LET previous == papers[Len(papers)]
        IN  /\ previous.content # content
            /\ at >= previous.at
            /\ \A o \in seen : o.content = previous.content => at >= o.at

StorePaper(content, at) ==
    /\ papers' = IF IsNewPaper(content, at)
                 THEN Append(papers, [at |-> at, content |-> content]) ELSE papers
    /\ seen' = seen \cup {[at |-> at, content |-> content]}

-----------------------------------------------------------------------------
(* People edit the list of instruments.                                    *)

EditList ==
    /\ edition < Len(Lists)
    /\ edition' = edition + 1
    /\ UNCHANGED <<ran, now, instruments, checks, jobs, probe,
                   build, snaps, prices, documents>>

-----------------------------------------------------------------------------
(* Collectors.                                                             *)

Idle == [pc |-> "idle"]
Done == [pc |-> "done"]

\* The days that may be over, and those whose prices may not be final yet, before
\* the clock is looked at next.
Over == {d \in Days : now >= ClosesAfter[d]}
Unsettled == {d \in Days : now <= FinalAfter[d]}

\* A stamp is the time after the one before.
Stamp == now < MaxStamps /\ now' = now + 1

\* Whoever changes the instruments while a snapshot is built is noticed here.
Instruments(table) ==
    /\ instruments' = table
    /\ build' = IF build # Idle /\ table # instruments
                THEN [build EXCEPT !.moved = TRUE] ELSE build

\* Which collectors may run once more.
MayRun == {k \in AllKinds : \E mix \in Mixes :
                /\ ran[k] < mix[k] /\ \A o \in AllKinds : ran[o] <= mix[o]}

\* What a source says of some symbols and days.
Response(kind, content, symbols, days) ==
    {[symbol |-> s, day |-> d, src |-> kind,
      content |-> IF kind = "yahoo" /\ d \in Unsettled THEN Interim ELSE content] :
        s \in symbols, d \in days}

\* The list is read, and what is asked for is downloaded: it may be anything, with a
\* symbol missing.  A process that is killed never stores it.
Download(j, kind, days, at) ==
    /\ jobs[j] = Idle /\ kind \in MayRun
    /\ ran' = [ran EXCEPT ![kind] = @ + 1]
    /\ \E content \in Contents, missing \in {{}} \cup {{s} : s \in Gaps \cap Lists[edition]} :
        jobs' = [jobs EXCEPT ![j] =
            [pc |-> "store", kind |-> kind, list |-> edition, at |-> at, content |-> content,
             rows |-> Response(kind, content, Lists[edition] \ missing, days)]]
    /\ UNCHANGED <<checks, probe, snaps, edition, prices, documents>>

EnterList == Instruments(Upsert(instruments, Lists[edition], edition, TRUE))

\* The history of an unofficial source: not stamped before it is stored.
FetchYahoo(j) ==
    /\ Download(j, "yahoo", Over, 0)
    /\ EnterList
    /\ UNCHANGED now

\* The exchange's history comes a month, here a day, at a time, up to the newest day
\* the exchange published prices of.
FetchHistory(j) ==
    /\ Stamp
    /\ \E d \in Days : /\ \E v \in versions : v.src = "daily" /\ v.day >= d
                       /\ Download(j, "history", {d}, now + 1)
    /\ EnterList

\* The prices of the newest day.
FetchDaily(j) ==
    /\ Stamp
    /\ Download(j, "daily", {Max(Over)}, now + 1)
    /\ UNCHANGED <<instruments, build>>

FetchCorporate(j) ==
    /\ Stamp
    /\ Download(j, "corporate", {}, now + 1)
    /\ UNCHANGED <<instruments, build>>

\* One transaction: all of it and the instruments, or nothing when a row is refused.
StoreAll(rows, table) ==
    \/ StorePrices(rows) /\ Instruments(table)
    \/ Refused(rows) /\ UNCHANGED <<instruments, build, prices>>

Storing(j, kind) ==
    /\ jobs[j].pc = "store" /\ jobs[j].kind = kind
    /\ jobs' = [jobs EXCEPT ![j] = Done]
    /\ UNCHANGED <<ran, checks, probe, snaps, edition>>

Stamped(rows, at) ==
    {[symbol |-> r.symbol, day |-> r.day, src |-> r.src, content |-> r.content, at |-> at] :
        r \in rows}

\* The stamp is taken here, while storing, and _convert_frame leaves out what is
\* stamped before it is final.
StoreYahoo(j) ==
    /\ Storing(j, "yahoo") /\ Stamp
    /\ StoreAll(Stamped({r \in jobs[j].rows : Finalized(r.day, now + 1)}, now + 1),
                instruments)
    /\ UNCHANGED documents

StoreHistory(j) ==
    /\ Storing(j, "history")
    /\ StoreAll(Stamped(jobs[j].rows, jobs[j].at), instruments)
    /\ UNCHANGED <<now, documents>>

\* The instruments of a job: its list, and the symbols it saw a price of, which bear
\* the day of the price.
Listed(job) == Upsert(instruments, Lists[job.list], job.list, TRUE)
Observed(job) ==
    Upsert(Listed(job), {r.symbol : r \in job.rows}, Len(Lists) + 1, FALSE)

StoreDaily(j) ==
    /\ Storing(j, "daily")
    /\ jobs[j].rows # {}
    /\ StoreAll(Stamped(jobs[j].rows, jobs[j].at), Observed(jobs[j]))
    /\ UNCHANGED <<now, documents>>

StoreCorporate(j) ==
    /\ Storing(j, "corporate")
    /\ StorePaper(jobs[j].content, jobs[j].at)
    /\ Instruments(Listed(jobs[j]))
    /\ UNCHANGED <<now, prices>>

-----------------------------------------------------------------------------
(* scripts/probe_data_sources.py: validate the list, make it the universe,  *)
(* record the validation, in three steps; it may be killed between them.    *)

ProbeList ==
    /\ probe = Idle /\ Stamp
    /\ probe' = [pc |-> "replace", list |-> edition, at |-> now + 1]
    /\ UNCHANGED <<ran, instruments, checks, jobs, build, snaps, edition, prices, documents>>

ProbeReplace ==
    /\ probe.pc = "replace"
    /\ Instruments(ReplaceUniverse(probe.list))
    /\ probe' = [probe EXCEPT !.pc = "record"]
    /\ UNCHANGED <<ran, now, checks, jobs, snaps, edition, prices, documents>>

ProbeRecord ==
    /\ probe.pc = "record"
    /\ \E passed \in BOOLEAN :
        checks' = checks \cup
            {[at |-> probe.at, version |-> VersionOf(probe.list), usable |-> passed]}
    /\ probe' = Idle
    /\ UNCHANGED <<ran, now, instruments, jobs, build, snaps, edition, prices, documents>>

ProbeDies ==
    /\ probe.pc = "record"
    /\ probe' = Idle
    /\ UNCHANGED <<ran, now, instruments, checks, jobs, build, snaps, edition, prices, documents>>

-----------------------------------------------------------------------------
(* SnapshotBuilder.build: one statement after the other, none of which sees *)
(* what is committed later.                                                *)

\* Nothing that carries a stamp up to the cutoff is still to be stored.
Quiet(cutoff) ==
    /\ \A j \in Jobs : jobs[j].pc = "store" /\ jobs[j].kind # "yahoo" => jobs[j].at > cutoff
    /\ probe # Idle => probe.at > cutoff

\* The cutoff is the time at which it is built, or an earlier one.
BuildUniverse ==
    /\ build = Idle /\ Cardinality(snaps) < MaxSnaps
    /\ \E cutoff \in 1..(now + 1) :
        /\ IF cutoff > now THEN Stamp ELSE now' = now
        /\ build' = [pc |-> "check", cutoff |-> cutoff, universe |-> Universe,
                     check |-> {}, day |-> 0, quiet |-> Quiet(cutoff),
                     moved |-> FALSE]
    /\ UNCHANGED <<ran, instruments, checks, jobs, probe, snaps, edition, prices, documents>>

BuildCheck ==
    /\ build.pc = "check"
    /\ build' = [build EXCEPT !.pc = "coverage", !.check = CheckAt(build.cutoff)]
    /\ UNCHANGED <<ran, now, instruments, checks, jobs, probe, snaps, edition, prices, documents>>

BuildCoverage ==
    /\ build.pc = "coverage"
    /\ build' = [build EXCEPT !.pc = "prices",
                              !.day = TradeDate(Members(Universe), build.cutoff)]
    /\ UNCHANGED <<ran, now, instruments, checks, jobs, probe, snaps, edition, prices, documents>>

\* Mutant: the coverage of prices is not looked at.
UsableUncovered(b, rows) ==
    /\ b.universe # {}
    /\ \E c \in b.check : c.version = b.universe /\ c.usable
    /\ b.day # 0

\* SnapshotQualityPolicy: what blocks a snapshot.
Usable(b, rows) ==
    /\ b.universe # {}
    /\ \E c \in b.check : c.version = b.universe /\ c.usable
    /\ b.day # 0
    /\ Cardinality(rows) >= Cardinality(b.universe)

\* load_prices, load_documents and save_snapshot.
BuildSave ==
    /\ build.pc = "prices"
    /\ LET asked == Members(Universe)
           rows == PricesAt({build.day} \cap Days, asked, build.cutoff)
       IN  snaps' = snaps \cup
            {[cutoff |-> build.cutoff, universe |-> build.universe, check |-> build.check,
              day |-> build.day, asked |-> asked, rows |-> rows, paper |-> PaperAt(build.cutoff),
              usable |-> Usable(build, rows), quiet |-> build.quiet, moved |-> build.moved]}
    /\ build' = Idle
    /\ UNCHANGED <<ran, now, instruments, checks, jobs, probe, edition, prices, documents>>

-----------------------------------------------------------------------------
Init ==
    /\ now = 0 /\ edition = 1
    /\ versions = {} /\ heard = {} /\ inOrder = TRUE
    /\ instruments = [s \in Symbols |-> [in |-> FALSE, date |-> 0]]
    /\ checks = {} /\ papers = <<>> /\ seen = {}
    /\ jobs = [j \in Jobs |-> Idle] /\ ran = [k \in AllKinds |-> 0] /\ probe = Idle /\ build = Idle /\ snaps = {}

Next ==
    \/ EditList
    \/ \E j \in Jobs : \/ FetchYahoo(j) \/ FetchHistory(j) \/ FetchDaily(j) \/ FetchCorporate(j)
                      \/ StoreYahoo(j) \/ StoreHistory(j) \/ StoreDaily(j) \/ StoreCorporate(j)
    \/ ProbeList \/ ProbeReplace \/ ProbeRecord \/ ProbeDies
    \/ BuildUniverse \/ BuildCheck \/ BuildCoverage \/ BuildSave

Spec == Init /\ [][Next]_vars
-----------------------------------------------------------------------------
(* Properties.                                                             *)

\* Point in time: whatever is stored after a snapshot was built, reading the prices
\* and the document again at its cutoff gives what it holds, for the members and
\* the day that were asked for, as long as nothing stamped before the cutoff was on its way into the store.
\* The decision reads the history so, hours after the snapshot.
ReadsTheSame ==
    \A s \in snaps : s.quiet =>
        /\ s.paper = PaperAt(s.cutoff)
        /\ s.rows = PricesAt({s.day} \cap Days, s.asked, s.cutoff)

\* A usable snapshot has a price, all of one day and with a stamp that passes for
\* final, for every member of the universe that was validated last before its
\* cutoff, unless the table of instruments changed while it was built.
UsableIsWhole ==
    \A s \in snaps : s.usable /\ ~s.moved =>
        /\ {r.symbol : r \in s.rows} = Members(s.universe)
        /\ \E n \in DOMAIN Lists : s.universe = VersionOf(n)
        /\ s.check # {} /\ (s.quiet => s.check = CheckAt(s.cutoff))

\* The newest version is what the newest response said: of a price as long as
\* responses were stored in the order they were fetched, of a document always,
\* though an older one may arrive late or a newer one repeat an older content.
NewestWins ==
    /\ inOrder => \A h \in heard :
            (\A o \in heard : Same(o, h) => o.at <= h.at) => LatestVersion(h).content = h.content
    /\ \A o \in seen :
            (\A p \in seen : p.at <= o.at) => papers[Len(papers)].content = o.content

\* Collecting prices or documents with the list that is in force leaves the
\* universe as it was validated; else no snapshot would be usable until the next
\* validation.
CollectKeepsUniverse ==
    [][\A j \in Jobs :
        (/\ jobs[j].pc = "store" /\ jobs'[j] = Done
         /\ Universe = VersionOf(jobs[j].list)) => Universe' = Universe]_vars

=============================================================================
