----------------------- MODULE DecisionLifecycleProofs -----------------------
(***************************************************************************)
(* Proofs about DecisionLifecycle, in layers, each an invariant that the   *)
(* next one uses: Ledger, Memory, Order, Promises and Plans.               *)
(*                                                                         *)
(* Ledger: what the account's states, the three places of a decision and   *)
(* the run under way have to do with one another.  An account run prepares *)
(* one state, a close follows the state its decision was made on, and the  *)
(* run under way has settled nothing of its own making.  It gives that a   *)
(* settled decision stays and that the account is the line AccountChain    *)
(* promises.                                                               *)
(*                                                                         *)
(* Memory: what the run remembers of the decision it found waiting stays   *)
(* true while it works: which account run it was made on, where it is, and *)
(* that the account can be taken back to that run.                         *)
(*                                                                         *)
(* Order: the sessions of the closes grow along the account, since a run   *)
(* only decides for a session that is later than all it has settled; so    *)
(* none is settled twice.                                                  *)
(*                                                                         *)
(* Promises: as long as no run was killed, a run leaves one decision at    *)
(* most on an account snapshot, and none that was late: who set the older  *)
(* one aside has made the new one, and who made a late one takes it away.  *)
(*                                                                         *)
(* Plans: the D-Plan main file of a session is that of the decision the    *)
(* account settles for it.  Between runs this says that the decision       *)
(* stands: it is settled, or waits at the end of the line.  While a run    *)
(* works it may also have been set aside.  Then the run decides for the    *)
(* same session again, for it looks for the first session that is still to *)
(* come and no session comes before that of a decision that waits; so it   *)
(* writes the plan anew, or puts the decision back.                        *)
(***************************************************************************)
EXTENDS DecisionLifecycle, FiniteSetTheorems, NaturalsInduction, WellFoundedInduction,
        SequenceTheorems, TLAPS

USE LifecycleAssumption

Labels == {"idle", "data", "prepare", "output", "check", "decide", "sealed", "fresh", "export",
           "ended", "discard", "putBack", "putOutput"}

\* The run has made no decision yet; it has one; it has a session; it puts
\* things back.
Deciding == {"data", "prepare", "output", "check", "decide"}
Holding == {"sealed", "fresh", "export"}
InASession == {"decide", "sealed", "fresh", "export"}
Restoring == {"discard", "putBack", "putOutput"}

\* The daily run that prepared an account run.
RunOf(a) == IF a > MaxRuns THEN a - MaxRuns ELSE a

PreparedBy(k, a) == chain[k].kind = "prepared" /\ chain[k].run = a
Everywhere == store \cup archive \cup voided
Facts == [account : AccountRuns \cup {None}, session : Sessions \cup {None}, late : BOOLEAN]
Snapshots == [run : Runs \cup {None}, cutoff : Nat \cup {None}]
Waits == [decision : Runs \cup {None}, account : AccountRuns \cup {None}]

WorldOK == now \in Nat /\ published \subseteq Sessions /\ closed \subseteq Sessions

BooksOK ==
    /\ chain \in Seq(States) /\ chain # << >>
    /\ store \subseteq 1..lastRun /\ archive \subseteq 1..lastRun /\ voided \subseteq 1..lastRun
    /\ facts \in [Runs -> Facts]
    /\ plan \in [Sessions -> Runs \cup {None}]
    /\ snapshot \in Snapshots
    /\ output \in AccountRuns \cup {None}

RunOK ==
    /\ lastRun \in 0..MaxRuns
    /\ pc \in Labels /\ (pc # "idle" => lastRun # 0)
    /\ pending \in Waits /\ backup \in Snapshots /\ superseded \in BOOLEAN
    /\ session \in Sessions \cup {None} /\ bound \in AccountRuns \cup {None}
    /\ ready \in BOOLEAN /\ byHand \in BOOLEAN /\ killed \in BOOLEAN

TypeOK == WorldOK /\ BooksOK /\ RunOK

\* A decision is in one place; that of the run under way is not there yet.
Places ==
    /\ store \cap archive = {} /\ store \cap voided = {} /\ archive \cap voided = {}
    /\ pc \in Deciding => me \notin Everywhere
    /\ pc \in Holding => me \in store
    /\ pc # "idle" => me \notin voided
    /\ pc \in {"discard", "putBack"} => pending.decision \in archive

\* A run decides for a session, on a Snapshot of its own unless it skipped that.
InHand == pc \in InASession => session \in Sessions

\* The genesis state is the first; an account run prepared one state.
Line ==
    /\ chain[1].kind = "genesis"
    /\ \A k \in 2..Len(chain) : chain[k].kind # "genesis"
    /\ \A j, k \in 1..Len(chain) :
          chain[j].kind = "prepared" /\ PreparedBy(k, chain[j].run) => j = k

\* An account run there may be: the run that prepares it has come so far.
Known(a) ==
    /\ a \in AccountRuns /\ RunOf(a) \in 1..lastRun
    /\ a = me => pc \notin {"data", "prepare"}
    /\ a = AfterRebase(me) => pc \notin {"data", "prepare", "output", "check"}

PreparedKnown == \A k \in 1..Len(chain) : chain[k].kind = "prepared" => Known(chain[k].run)

\* A close follows the state its decision was made on, for its session, whose
\* prices are there; and it settles no decision of the run under way.
Linked ==
    \A k \in 1..Len(chain) : chain[k].kind = "close" =>
        /\ k > 1 /\ PreparedBy(k - 1, facts[chain[k].decision].account)
        /\ chain[k].session = facts[chain[k].decision].session
        /\ chain[k].session \in published
        /\ pc # "idle" => chain[k].decision # me

\* The account state that waited is still there when it is to be put back.
Found ==
    /\ superseded => pending # NoPending
    /\ pc = "idle" => pending = NoPending
    /\ pending # NoPending /\ pc \notin Restoring =>
          \E k \in 1..Len(chain) : PreparedBy(k, pending.account)

\* Closing prices come after the close.
PricesAfterClose == \A s \in published : now >= CloseTime(s)

Ledger == TypeOK /\ Places /\ InHand /\ Line /\ PreparedKnown /\ Linked /\ Found
          /\ PricesAfterClose /\ SettledStays

-----------------------------------------------------------------------------
(* The least of a set of numbers, sequences, states.                       *)

LEMMA Least ==
    ASSUME NEW S \in SUBSET Nat, S # {}
    PROVE  /\ Min(S) \in S /\ \A x \in S : Min(S) <= x
<1>1. PICK t \in S : \A y \in S : <<y, t>> \notin OpToRel(<, Nat)
    BY NatLessThanWellFounded, WFMin, Zenon
<1>2. \A y \in S : ~(y < t)
    BY <1>1 DEF OpToRel
<1>3. \A y \in S : t <= y
    BY <1>2
<1> QED
    BY <1>3 DEF Min

LEMMA OnlyOne ==
    ASSUME NEW S \in SUBSET Runs, Cardinality(S) = 1
    PROVE  S = {Min(S)} /\ Min(S) \in Runs
<1>1. IsFiniteSet(S)
  <2>1. IsFiniteSet(Runs)
      BY FS_Interval DEF Runs
  <2> QED
      BY <2>1, FS_Subset
<1>2. \E x : S = {x}
    BY <1>1, FS_Singleton
<1>3. S \in SUBSET Nat
    BY DEF Runs
<1> QED
    BY <1>2, <1>3, Least

LEMMA TargetFacts ==
    ASSUME NEW time \in Nat, Target(time) # None
    PROVE  /\ Target(time) \in Sessions \ closed /\ time < Deadline(Target(time))
           /\ \A s \in Sessions \ closed : time < Deadline(s) => Target(time) <= s
<1> DEFINE open == {s \in Sessions \ closed : time < Deadline(s)}
<1>1. open \in SUBSET Nat
    BY DEF Sessions
<1>2. Target(time) = IF open = {} THEN None ELSE Min(open)
    BY DEF Target
<1> HIDE DEF open
<1>3. open # {} /\ Target(time) = Min(open)
    BY <1>2
<1>4. Min(open) \in open /\ \A x \in open : Min(open) <= x
    BY <1>1, <1>3, Least
<1> QED
    BY <1>3, <1>4 DEF open

LEMMA TargetType ==
    ASSUME NEW time
    PROVE  Target(time) \in Sessions \cup {None}
<1> DEFINE open == {s \in Sessions \ closed : time < Deadline(s)}
<1>1. open \in SUBSET Nat /\ open \subseteq Sessions
    BY DEF Sessions
<1>2. Target(time) = IF open = {} THEN None ELSE Min(open)
    BY DEF Target
<1> HIDE DEF open
<1> QED
    BY <1>1, <1>2, Least

LEMMA DeadlineFacts ==
    ASSUME NEW s \in Sessions, now \in Nat
    PROVE  /\ DeadlinePassed(s) \in BOOLEAN /\ (DeadlinePassed(s) <=> now >= Deadline(s))
           /\ s \in Nat /\ s # None /\ Deadline(s) \in Int /\ CloseTime(s) \in Int
           /\ Deadline(s) < CloseTime(s)
<1>1. s \in Nat /\ s # None /\ Deadline(s) \in Int /\ CloseTime(s) \in Int /\ Deadline(s) < CloseTime(s)
    BY DEF Sessions, Deadline, CloseTime
<1>2. DeadlinePassed(s) = (now >= Deadline(s))
    BY <1>1 DEF DeadlinePassed
<1>3. (now >= Deadline(s)) \in BOOLEAN
    BY <1>1
<1>4. DeadlinePassed(s) \in BOOLEAN
    BY <1>2, <1>3, Zenon
<1>5. DeadlinePassed(s) <=> now >= Deadline(s)
    BY <1>2, Zenon
<1> QED
    BY <1>1, <1>4, <1>5, Zenon

LEMMA SubSeqFacts ==
    ASSUME NEW S, NEW s \in Seq(S), NEW n \in 0..Len(s)
    PROVE  /\ SubSeq(s, 1, n) \in Seq(S) /\ Len(SubSeq(s, 1, n)) = n
           /\ \A i \in 1..n : SubSeq(s, 1, n)[i] = s[i]
<1>1. \A i \in 1..n : s[i] \in S
    OBVIOUS
<1> QED
    BY <1>1, SubSeqProperties

LEMMA FrontFacts ==
    ASSUME NEW S, NEW s \in Seq(S), s # <<>>
    PROVE  /\ Front(s) \in Seq(S) /\ Len(Front(s)) = Len(s) - 1 /\ Len(s) \in Nat
           /\ \A i \in 1..Len(Front(s)) : i \in 1..Len(s) /\ Front(s)[i] = s[i]
           /\ Len(s) \in 1..Len(s)
<1>1. Len(s) \in Nat /\ Len(s) # 0
    OBVIOUS
<1>2. Len(s) - 1 \in 0..Len(s)
    BY <1>1
<1>3. Front(s) \in Seq(S) /\ Len(Front(s)) = Len(s) - 1
    BY <1>1, <1>2, SubSeqFacts DEF Front
<1>4. ASSUME NEW i \in 1..(Len(s) - 1)
      PROVE  i \in 1..Len(s) /\ Front(s)[i] = s[i]
    BY <1>1, <1>2, SubSeqFacts DEF Front
<1> QED
    BY <1>1, <1>3, <1>4

LEMMA AppendFacts ==
    ASSUME NEW S, NEW s \in Seq(S), NEW x \in S
    PROVE  /\ Append(s, x) \in Seq(S) /\ Append(s, x) # <<>>
           /\ Len(Append(s, x)) = Len(s) + 1 /\ Len(s) \in Nat
           /\ \A i \in 1..Len(s) : Append(s, x)[i] = s[i]
           /\ Append(s, x)[Len(s) + 1] = x
           /\ \A i \in 1..Len(Append(s, x)) : i \in 1..Len(s) \/ i = Len(s) + 1
    OBVIOUS

LEMMA PreparedFacts ==
    ASSUME NEW r \in AccountRuns, NEW w \in Runs \cup {None}
    PROVE  /\ Prepared(r, w) \in States /\ Prepared(r, w).kind = "prepared" /\ Prepared(r, w).run = r
           /\ Prepared(r, w).decision = None
           /\ StateOf("rebase", r) \in States /\ StateOf("rebase", r).kind = "rebase"
           /\ StateOf("rebase", r).run = r /\ StateOf("rebase", r).decision = None
    BY DEF Prepared, StateOf, States

LEMMA ClosedFacts ==
    ASSUME NEW r \in AccountRuns, NEW d \in Runs, NEW s \in Sessions \cup {None}
    PROVE  /\ Closed(r, d, s) \in States /\ Closed(r, d, s).kind = "close"
           /\ Closed(r, d, s).run = r /\ Closed(r, d, s).decision = d /\ Closed(r, d, s).session = s
    BY DEF Closed, StateOf, States

LEMMA ChainFacts ==
    ASSUME BooksOK
    PROVE  /\ Len(chain) \in Nat /\ Len(chain) >= 1 /\ Len(chain) \in 1..Len(chain)
           /\ 1 \in 1..Len(chain) /\ head = chain[Len(chain)] /\ head \in States
           /\ \A k \in 1..Len(chain) :
                 /\ chain[k] \in States /\ chain[k].run \in AccountRuns
                 /\ chain[k].decision \in Runs \cup {None}
                 /\ chain[k].session \in Sessions \cup {None}
                 /\ chain[k].snapshot \in Runs \cup {None}
<1>1. Len(chain) \in Nat /\ Len(chain) >= 1 /\ \A k \in 1..Len(chain) : chain[k] \in States
    BY DEF BooksOK
<1> QED
    BY <1>1 DEF States, head, Last

LEMMA AccountFacts ==
    ASSUME NEW r \in Runs
    PROVE  /\ r \in Nat /\ r \in AccountRuns /\ RunOf(r) = r
           /\ AfterRebase(r) \in AccountRuns /\ RunOf(AfterRebase(r)) = r /\ r # AfterRebase(r)
           /\ AfterRebase(r) \notin Runs /\ MaxRuns \in Nat
    BY DEF Runs, AccountRuns, AfterRebase, RunOf

-----------------------------------------------------------------------------
(* Ledger: what steps of one kind have in common.                          *)

LEMMA InitLedger == Init => Ledger
<1> SUFFICES ASSUME Init PROVE Ledger
    OBVIOUS
<1> USE DEF Init
<1>1. StateOf("genesis", 0) \in States /\ StateOf("genesis", 0).kind = "genesis"
    BY DEF StateOf, States, AccountRuns
<1>2. chain \in Seq(States) /\ Len(chain) = 1 /\ chain[1].kind = "genesis" /\ chain # << >>
    BY <1>1
<1>3. TypeOK
  <2>1. NoFacts \in Facts /\ NoSnapshot \in Snapshots /\ NoPending \in Waits
      BY DEF NoFacts, Facts, NoSnapshot, Snapshots, NoPending, Waits
  <2>2. WorldOK
      BY DEF WorldOK
  <2>3. BooksOK
      BY <1>2, <2>1 DEF BooksOK
  <2>4. RunOK
    <3>1. lastRun \in 0..MaxRuns
        OBVIOUS
    <3>2. pc \in Labels /\ pc = "idle"
        BY DEF Labels
    <3> QED
        BY <2>1, <3>1, <3>2, Zenon DEF RunOK
  <2> QED
      BY <2>2, <2>3, <2>4 DEF TypeOK
<1>4. Places /\ InHand /\ Found /\ PricesAfterClose
    BY DEF Places, InHand, Found, PricesAfterClose, Deciding, Holding, InASession, Restoring
<1>5. \A k \in 1..Len(chain) : k = 1
    BY <1>2
<1>6. Line /\ PreparedKnown /\ Linked /\ SettledStays
    BY <1>2, <1>5 DEF Line, PreparedKnown, Linked, SettledStays, PreparedBy
<1> QED
    BY <1>3, <1>4, <1>6 DEF Ledger

\* The run goes on, or the process ends.
Onward ==
    /\ lastRun' = lastRun
    /\ pc' \in {"data", "prepare"} => pc \in {"data", "prepare"}
    /\ pc' \in {"data", "prepare", "output", "check"} => pc \in {"data", "prepare", "output", "check"}
    /\ pc' \in Deciding => pc \in Deciding
    /\ pc' \in Holding => pc \in Holding \/ me \in store'
    /\ pc' # "idle" => pc # "idle"

LEMMA KnownOnward ==
    ASSUME Onward, NEW a, Known(a)
    PROVE  Known(a)'
    BY DEF Onward, Known, me, AfterRebase

\* Only the decision of the run under way is sealed.
FactsKept == \A d \in Runs : d # me \/ pc = "idle" => facts'[d] = facts[d]

LEMMA PlaceFacts ==
    ASSUME TypeOK
    PROVE  /\ store \subseteq Runs /\ archive \subseteq Runs /\ voided \subseteq Runs
           /\ lastRun \in Nat /\ lastRun <= MaxRuns /\ MaxRuns \in Nat
           /\ pc # "idle" => me \in Runs
<1>1. lastRun \in Nat /\ lastRun <= MaxRuns /\ MaxRuns \in Nat
    BY DEF TypeOK, RunOK
<1>2. 1..lastRun \subseteq Runs
    BY <1>1 DEF Runs
<1>3. pc # "idle" => me \in Runs
    BY <1>1 DEF TypeOK, RunOK, Runs, me
<1> QED
    BY <1>1, <1>2, <1>3 DEF TypeOK, BooksOK

LEMMA SettledFacts ==
    ASSUME Ledger, NEW k \in 1..Len(chain), chain[k].kind = "close"
    PROVE  /\ chain[k].decision \in Runs /\ chain[k].decision \in store
           /\ chain[k].decision \notin archive \cup voided
           /\ pc # "idle" => chain[k].decision # me
           /\ k - 1 \in 1..Len(chain) /\ PreparedBy(k - 1, facts[chain[k].decision].account)
           /\ chain[k].session = facts[chain[k].decision].session /\ chain[k].session \in published
<1>1. chain[k].decision \in store /\ chain[k].decision \notin archive \cup voided
    BY DEF Ledger, SettledStays
<1>2. chain[k].decision \in Runs
    BY <1>1, PlaceFacts DEF Ledger
<1>3. Len(chain) \in Nat
    BY ChainFacts DEF Ledger, TypeOK
<1> QED
    BY <1>1, <1>2, <1>3 DEF Ledger, Linked

LEMMA ChainSame ==
    ASSUME Ledger, Onward, chain' = chain, published \subseteq published', FactsKept
    PROVE  Line' /\ PreparedKnown' /\ Linked'
<1>1. Line'
    BY DEF Ledger, Line, PreparedBy
<1>2. PreparedKnown'
    BY KnownOnward DEF Ledger, PreparedKnown
<1>3. Linked'
  <2> SUFFICES ASSUME NEW k \in 1..Len(chain), chain[k].kind = "close"
               PROVE  /\ k > 1 /\ PreparedBy(k - 1, facts[chain[k].decision].account)'
                      /\ chain[k].session = facts'[chain[k].decision].session
                      /\ chain[k].session \in published'
                      /\ pc' # "idle" => chain[k].decision # me'
      BY DEF Linked, PreparedBy
  <2>1. facts'[chain[k].decision] = facts[chain[k].decision]
      BY SettledFacts DEF FactsKept
  <2>2. k > 1
      BY DEF Ledger, Linked
  <2> QED
      BY <2>1, <2>2, SettledFacts DEF PreparedBy, Onward, me
<1> QED
    BY <1>1, <1>2, <1>3

\* A step that leaves the account and the places of the decisions alone.
LEMMA QuietStep ==
    ASSUME Ledger, Onward, UNCHANGED <<chain, store, archive, voided, facts>>,
           published \subseteq published', TypeOK', InHand', Found', PricesAfterClose',
           pc' \in {"discard", "putBack"} => pc' = pc /\ pending' = pending
    PROVE  Ledger'
<1>1. Line' /\ PreparedKnown' /\ Linked'
    BY ChainSame DEF FactsKept
<1>2. Places'
    BY DEF Ledger, Places, Everywhere, Onward, me
<1>3. SettledStays'
    BY DEF Ledger, SettledStays
<1> QED
    BY <1>1, <1>2, <1>3 DEF Ledger

-----------------------------------------------------------------------------
(* Ledger: the steps that leave the account and its decisions alone.       *)

LEMMA EndFacts ==
    ASSUME Ledger, End, lastRun' = lastRun, byHand' \in BOOLEAN, killed' \in BOOLEAN
    PROVE  RunOK' /\ Onward /\ InHand' /\ Found' /\ pc' = "idle"
<1>1. pc' = "idle"
    BY DEF End
<1>2. NoSnapshot \in Snapshots /\ NoPending \in Waits
    BY DEF NoSnapshot, Snapshots, NoPending, Waits
<1>3. lastRun' \in 0..MaxRuns /\ (pc' # "idle" => lastRun' # 0) /\ pc' \in Labels
    BY <1>1 DEF Ledger, TypeOK, RunOK, Labels
<1>4. RunOK'
    BY <1>2, <1>3, Zenon DEF End, RunOK
<1>5. Onward /\ InHand'
    BY <1>1 DEF Onward, InHand, Deciding, Holding, InASession
<1>6. Found'
    BY DEF End, Found
<1> QED
    BY <1>1, <1>4, <1>5, <1>6

LEMMA WorldLedger ==
    ASSUME Ledger, World, UNCHANGED killed
    PROVE  Ledger'
<1>1. /\ UNCHANGED <<books, lastRun, pc, local, byHand, killed>>
      /\ now' \in Nat /\ now' >= now
      /\ published \subseteq published' /\ published' \subseteq Sessions /\ closed' \subseteq Sessions
      /\ \A s \in published' \ published : now' >= CloseTime(s)
    BY DEF World, Tick, Publish, CallOff, Ledger, TypeOK, WorldOK
<1>2. TypeOK'
    BY <1>1 DEF Ledger, TypeOK, WorldOK, BooksOK, RunOK, books, decisions, local
<1>3. Onward /\ InHand' /\ Found'
    BY <1>1 DEF Ledger, Onward, InHand, Found, PreparedBy, books, local
<1>4. PricesAfterClose'
    BY <1>1 DEF Ledger, TypeOK, WorldOK, PricesAfterClose, CloseTime, Sessions
<1> QED
    BY <1>1, <1>2, <1>3, <1>4, QuietStep DEF books, decisions, local

\* A step on the way: where the run is, and some of what it keeps, changes.
LEMMA OnTheWay ==
    ASSUME Ledger, TypeOK', Onward, UNCHANGED <<world, chain, store, archive, voided, facts, pending>>,
           superseded' => superseded \/ pending # NoPending,
           pc' \notin Restoring, pc \notin Restoring, pc' # "idle",
           pc' \in InASession => session' \in Sessions
    PROVE  Ledger'
<1>1. InHand' /\ PricesAfterClose'
    BY DEF Ledger, InHand, PricesAfterClose, world
<1>2. Found'
    BY DEF Ledger, Found, PreparedBy
<1> QED
    BY <1>1, <1>2, QuietStep DEF world, Restoring

LEMMA GoesOnLedger ==
    ASSUME Ledger, UNCHANGED killed,
           \/ Fail("check") \/ Fail("decide") \/ InTime \/ ExportBlocked
    PROVE  Ledger'
<1>1. /\ UNCHANGED <<world, books, lastRun, local, byHand, killed>>
      /\ \/ pc \in {"check", "decide", "export"} /\ pc' = "ended"
         \/ pc = "sealed" /\ pc' = "fresh"
    BY DEF Fail, InTime, ExportBlocked, Goto
<1>2. TypeOK'
    BY <1>1 DEF Ledger, TypeOK, WorldOK, BooksOK, RunOK, Labels, books, decisions, local, world
<1>3. Onward /\ pc \notin Restoring /\ pc' \notin Restoring
    BY <1>1 DEF Onward, Deciding, Holding, Restoring
<1>4. pc' \in InASession => session' \in Sessions
    BY <1>1 DEF Ledger, InHand, InASession, local
<1> QED
    BY <1>1, <1>2, <1>3, <1>4, OnTheWay DEF books, decisions, local

LEMMA SnapshotType ==
    ASSUME Ledger, pc = "data"
    PROVE  [run |-> me, cutoff |-> now] \in Snapshots
    BY PlaceFacts DEF Ledger, TypeOK, WorldOK, Snapshots

LEMMA LookLedger ==
    ASSUME Ledger, NothingToSettle \/ HeldUp, UNCHANGED killed
    PROVE  Ledger'
<1>1. /\ UNCHANGED <<world, chain, store, archive, voided, facts, plan, output, lastRun, local,
                     byHand, killed>>
      /\ snapshot' = [run |-> me, cutoff |-> now]
      /\ pc = "data" /\ pc' \in {"prepare", "ended"}
    BY DEF NothingToSettle, HeldUp, Advance, Goto
<1>2. TypeOK'
    BY <1>1, SnapshotType DEF Ledger, TypeOK, WorldOK, BooksOK, RunOK, Labels, local, world
<1>3. Onward /\ pc \notin Restoring /\ pc' \notin Restoring /\ pc' \notin InASession
    BY <1>1 DEF Onward, Deciding, Holding, Restoring, InASession
<1> QED
    BY <1>1, <1>2, <1>3, OnTheWay DEF local

LEMMA DataEndsLedger ==
    ASSUME Ledger, WriteOutput \/ DataStageFails, UNCHANGED killed
    PROVE  Ledger'
<1>1. /\ UNCHANGED <<world, chain, decisions, plan, lastRun, pending, backup, session, bound,
                     ready, byHand, killed>>
      /\ superseded' = SetAside
      /\ snapshot' \in {snapshot, [run |-> me, cutoff |-> now]}
      /\ snapshot' = snapshot \/ pc = "data"
      /\ output' \in {output, me}
      /\ pc \in {"data", "prepare", "output"}
      /\ pc' = "ended" \/ (pc' = "check" /\ pc = "output")
    BY DEF WriteOutput, DataStageFails, Goto
<1>2. SetAside \in BOOLEAN /\ (SetAside => pending # NoPending)
    BY DEF SetAside
<1>3. me \in AccountRuns
    BY <1>1, PlaceFacts, AccountFacts DEF Ledger
<1>4. TypeOK'
  <2>1. WorldOK' /\ BooksOK'
      BY <1>1, <1>3, SnapshotType DEF Ledger, TypeOK, WorldOK, BooksOK, world, decisions
  <2>2. pc' \in Labels /\ (pc' # "idle" => lastRun' # 0) /\ lastRun' \in 0..MaxRuns
      BY <1>1 DEF Ledger, TypeOK, RunOK, Labels
  <2>3. RunOK'
      BY <1>1, <1>2, <2>2, Zenon DEF Ledger, TypeOK, RunOK
  <2> QED
      BY <2>1, <2>3 DEF TypeOK
<1>5. Onward /\ pc \notin Restoring /\ pc' \notin Restoring /\ pc' \notin InASession
    BY <1>1 DEF Onward, Deciding, Holding, Restoring, InASession
<1> QED
    BY <1>1, <1>2, <1>4, <1>5, OnTheWay DEF decisions

LEMMA SessionFacts ==
    ASSUME Ledger, NEW target \in Sessions \cup {None}, InSession(target), UNCHANGED killed
    PROVE  /\ pc = "check" /\ pc' = "decide" /\ session' = target
           /\ target \in Sessions /\ now < Deadline(target)
           /\ Onward /\ pc \notin Restoring /\ pc' \notin Restoring
<1>1. pc = "check" /\ pc' = "decide" /\ session' = target /\ ~DeadlinePassed(target)
    BY DEF InSession, Goto
<1>2. target \in Sessions /\ ~(now >= Deadline(target))
    BY <1>1 DEF DeadlinePassed
<1>3. Onward /\ pc \notin Restoring /\ pc' \notin Restoring
    BY <1>1 DEF Onward, Deciding, Holding, Restoring, InSession
<1> QED
    BY <1>1, <1>2, <1>3 DEF Ledger, TypeOK, WorldOK, Deadline, Sessions

LEMMA ReconciledLedger ==
    ASSUME Ledger, Reconciled, UNCHANGED killed
    PROVE  Ledger'
<1> DEFINE target == Target(snapshot.cutoff)
<1>1. target \in Sessions \cup {None}
    BY TargetType
<1>2. InSession(target) /\ bound' = head.run /\ UNCHANGED <<chain, output>>
    BY DEF Reconciled
<1> HIDE DEF target
<1>3. /\ pc' = "decide" /\ session' = target /\ target \in Sessions
      /\ Onward /\ pc \notin Restoring /\ pc' \notin Restoring
    BY <1>1, <1>2, SessionFacts
<1>4. /\ UNCHANGED <<world, decisions, plan, snapshot, lastRun, pending, backup, superseded,
                     ready, byHand, killed>>
      /\ head.run \in AccountRuns
    BY <1>2, ChainFacts DEF InSession, Ledger, TypeOK
<1>5. TypeOK'
  <2>1. WorldOK' /\ BooksOK'
      BY <1>2, <1>4 DEF Ledger, TypeOK, WorldOK, BooksOK, world, decisions
  <2>2. pc' \in Labels /\ (pc' # "idle" => lastRun' # 0) /\ lastRun' \in 0..MaxRuns
      BY <1>3, <1>4, SessionFacts, <1>1, <1>2 DEF Ledger, TypeOK, RunOK, Labels
  <2>3. bound' \in AccountRuns \cup {None} /\ session' \in Sessions \cup {None}
      BY <1>2, <1>3, <1>4
  <2>4. RunOK'
      BY <1>4, <2>2, <2>3, Zenon DEF Ledger, TypeOK, RunOK
  <2> QED
      BY <2>1, <2>4 DEF TypeOK
<1> QED
    BY <1>2, <1>3, <1>4, <1>5, OnTheWay DEF decisions

LEMMA ExportLedger ==
    ASSUME Ledger, Export, UNCHANGED killed
    PROVE  Ledger'
<1>1. /\ UNCHANGED <<world, chain, store, archive, voided, facts, snapshot, output,
                  lastRun, pending, backup, superseded, session, bound, byHand, killed>>
      /\ plan' = [plan EXCEPT ![session] = me] /\ ready' = TRUE
      /\ pc = "export" /\ pc' = "ended"
    BY DEF Export, Goto
<1>2. me \in Runs
    BY <1>1, PlaceFacts DEF Ledger
<1>3. TypeOK'
    BY <1>1, <1>2 DEF Ledger, TypeOK, WorldOK, BooksOK, RunOK, Labels, world
<1>4. Onward /\ pc \notin Restoring /\ pc' \notin Restoring /\ pc' \notin InASession
    BY <1>1 DEF Onward, Deciding, Holding, Restoring, InASession
<1> QED
    BY <1>1, <1>3, <1>4, OnTheWay

LEMMA EndLedger ==
    ASSUME Ledger, Finish \/ RestoreFails \/ PutOutput,
           UNCHANGED killed
    PROVE  Ledger'
<1>1. /\ End /\ UNCHANGED <<world, chain, decisions, plan, lastRun>>
      /\ output' \in {output, head.run} /\ snapshot' \in {snapshot, backup}
      /\ byHand' \in {byHand, TRUE}
    BY DEF Finish, RestoreFails, PutOutput, books
<1>2. byHand' \in BOOLEAN /\ killed' \in BOOLEAN
    BY <1>1, Zenon DEF Ledger, TypeOK, RunOK
<1>3. RunOK' /\ Onward /\ InHand' /\ Found' /\ pc' = "idle"
    BY <1>1, <1>2, EndFacts
<1>4. TypeOK'
    BY <1>1, <1>3, ChainFacts DEF Ledger, TypeOK, WorldOK, BooksOK, RunOK, world, decisions
<1>5. PricesAfterClose'
    BY <1>1 DEF Ledger, PricesAfterClose, world
<1> QED
    BY <1>1, <1>3, <1>4, <1>5, QuietStep DEF world, decisions

LEMMA CrashLedger ==
    ASSUME Ledger, Crash
    PROVE  Ledger'
<1>1. End /\ UNCHANGED <<world, books, lastRun, byHand>> /\ killed' = TRUE
    BY DEF Crash
<1>2. byHand' \in BOOLEAN /\ killed' \in BOOLEAN
    BY <1>1, Zenon DEF Ledger, TypeOK, RunOK
<1>3. RunOK' /\ Onward /\ InHand' /\ Found' /\ pc' = "idle"
    BY <1>1, <1>2, EndFacts
<1>4. TypeOK'
    BY <1>1, <1>3 DEF Ledger, TypeOK, WorldOK, BooksOK, RunOK, world, books, decisions
<1>5. PricesAfterClose'
    BY <1>1 DEF Ledger, PricesAfterClose, world
<1> QED
    BY <1>1, <1>3, <1>4, <1>5, QuietStep DEF world, books, decisions

-----------------------------------------------------------------------------
(* Ledger: the steps that move decisions.                                  *)

LEMMA WaitingFacts ==
    ASSUME Ledger, NEW d \in Waiting
    PROVE  /\ d \in store /\ d \in Runs /\ d \notin archive \cup voided
           /\ PreparedBy(Len(chain), facts[d].account) /\ facts[d].account = head.run
           /\ \A k \in 1..Len(chain) : chain[k].kind = "close" => chain[k].decision # d
<1>1. d \in store /\ head.kind = "prepared" /\ facts[d].account = head.run
    BY DEF Waiting, DecisionsOf
<1>2. d \in Runs /\ d \notin archive \cup voided
    BY <1>1, PlaceFacts DEF Ledger, Places
<1>3. PreparedBy(Len(chain), facts[d].account) /\ Len(chain) \in Nat /\ Len(chain) \in 1..Len(chain)
    BY <1>1, ChainFacts DEF Ledger, TypeOK, PreparedBy
<1>4. ASSUME NEW k \in 1..Len(chain), chain[k].kind = "close", chain[k].decision = d
      PROVE  FALSE
  <2>1. k - 1 \in 1..Len(chain) /\ PreparedBy(k - 1, facts[d].account)
      BY <1>4, SettledFacts
  <2>2. k - 1 = Len(chain)
      BY <1>3, <2>1 DEF Ledger, Line, PreparedBy
  <2> QED
      BY <1>3, <2>2
<1> QED
    BY <1>1, <1>2, <1>3, <1>4

LEMMA MoveStep ==
    ASSUME Ledger, TypeOK', Places', InHand', Found', Onward, FactsKept,
           UNCHANGED <<world, chain>>,
           \A k \in 1..Len(chain) : chain[k].kind = "close" =>
               chain[k].decision \in store' \ (archive' \cup voided')
    PROVE  Ledger'
<1>1. Line' /\ PreparedKnown' /\ Linked'
    BY ChainSame DEF world
<1>2. PricesAfterClose' /\ SettledStays'
    BY DEF Ledger, PricesAfterClose, SettledStays, world
<1> QED
    BY <1>1, <1>2 DEF Ledger

LEMMA TakeOutLedger ==
    ASSUME Ledger, NEW d \in Runs, VoidDecision(d) \/ SupersedeUnstarted(d), UNCHANGED killed
    PROVE  Ledger'
<1>1. /\ UNCHANGED <<world, chain, facts, plan, output, lastRun, local, byHand, killed>>
      /\ snapshot' = [run |-> me, cutoff |-> now]
      /\ pc = "data" /\ pc' = "prepare" /\ d \in Waiting
      /\ store' = store \ {d}
      /\ \/ archive' = archive \cup {d} /\ voided' = voided
         \/ archive' = archive /\ voided' = voided \cup {d}
    BY DEF VoidDecision, SupersedeUnstarted, Advance, Goto
<1>2. d \in 1..lastRun
    BY <1>1, WaitingFacts DEF Ledger, TypeOK, BooksOK
<1>3. TypeOK'
  <2>1. WorldOK' /\ BooksOK'
      BY <1>1, <1>2, SnapshotType DEF Ledger, TypeOK, WorldOK, BooksOK, world
  <2>2. RunOK'
      BY <1>1 DEF Ledger, TypeOK, RunOK, Labels, local
  <2> QED
      BY <2>1, <2>2 DEF TypeOK
<1>4. Places'
    BY <1>1, WaitingFacts DEF Ledger, Places, Everywhere, Deciding, Holding, me
<1>5. Onward /\ InHand'
    BY <1>1 DEF Onward, Deciding, Holding, InHand, InASession
<1>6. Found'
    BY <1>1 DEF Ledger, Found, PreparedBy, local, Restoring
<1>7. ASSUME NEW k \in 1..Len(chain), chain[k].kind = "close"
      PROVE  chain[k].decision \in store' \ (archive' \cup voided')
    BY <1>1, <1>7, WaitingFacts, SettledFacts
<1> QED
    BY <1>1, <1>3, <1>4, <1>5, <1>6, <1>7, MoveStep DEF FactsKept

\* The new decision alone is taken out, or put in.
LEMMA NewDecisionStep ==
    ASSUME Ledger, TypeOK', InHand', Onward, FactsKept, UNCHANGED <<world, chain, voided>>,
           store' \ {me} = store \ {me}, archive' \ {me} = archive \ {me},
           me \in store' => me \notin archive', me \notin voided,
           pc # "idle", pc' \notin Deciding, pc' \in Holding => me \in store',
           pc' = "putBack" => pc = "discard" /\ pending' = pending /\ archive \subseteq archive',
           pc' # "discard", Found'
    PROVE  Ledger'
<1>1. Places'
    BY DEF Ledger, Places, Everywhere, Onward, me
<1>2. ASSUME NEW k \in 1..Len(chain), chain[k].kind = "close"
      PROVE  chain[k].decision \in store' \ (archive' \cup voided')
    BY <1>2, SettledFacts
<1> QED
    BY <1>1, <1>2, MoveStep

LEMMA SealLedger ==
    ASSUME Ledger, Seal, UNCHANGED killed
    PROVE  Ledger'
<1>1. /\ UNCHANGED <<world, chain, archive, voided, plan, snapshot, output,
                     lastRun, local, byHand, killed>>
      /\ pc = "decide" /\ pc' = "sealed"
      /\ store' = store \cup {me}
      /\ facts' = [facts EXCEPT ![me] = [account |-> output, session |-> session,
                                        late |-> DeadlinePassed(session)]]
    BY DEF Seal, Goto
<1>2. me \in Runs /\ me \in 1..lastRun
    BY <1>1, PlaceFacts DEF Ledger, me, Runs
<1>3. [account |-> output, session |-> session, late |-> DeadlinePassed(session)] \in Facts
  <2>1. DeadlinePassed(session) \in BOOLEAN
      BY <1>1, DeadlineFacts DEF Ledger, InHand, InASession, TypeOK, WorldOK
  <2> QED
      BY <2>1 DEF Ledger, TypeOK, BooksOK, RunOK, Facts
<1>4. FactsKept
    BY <1>1, <1>2 DEF Ledger, TypeOK, BooksOK, FactsKept
<1>5. TypeOK'
  <2>1. WorldOK' /\ BooksOK'
      BY <1>1, <1>2, <1>3 DEF Ledger, TypeOK, WorldOK, BooksOK, world
  <2>2. RunOK'
      BY <1>1 DEF Ledger, TypeOK, RunOK, Labels, local
  <2> QED
      BY <2>1, <2>2 DEF TypeOK
<1>6. InHand' /\ Onward
    BY <1>1 DEF Ledger, InHand, Onward, InASession, Deciding, Holding, local
<1>7. Found' /\ pc' \notin Deciding
    BY <1>1 DEF Ledger, Found, PreparedBy, Restoring, Deciding, local
<1>8. me \notin archive /\ me \notin voided
    BY <1>1 DEF Ledger, Places, Deciding, Everywhere
<1> QED
    BY <1>1, <1>4, <1>5, <1>6, <1>7, <1>8, NewDecisionStep DEF Holding

LEMMA DropNewLedger ==
    ASSUME Ledger, RefuseLate \/ KeepUploaded \/ DiscardNew, UNCHANGED killed
    PROVE  Ledger'
<1>1. /\ UNCHANGED <<world, chain, voided, facts, plan, snapshot, output,
                     lastRun, local, byHand, killed>>
      /\ \/ pc = "sealed" /\ pc' = "ended"
         \/ pc = "fresh" /\ pc' = "ended"
         \/ pc = "discard" /\ pc' = "putBack"
    BY DEF RefuseLate, KeepUploaded, DiscardNew, Goto
<1>2. \/ store' = store /\ archive' = archive /\ pc' = "ended"
      \/ store' = store \ {me} /\ archive' = archive \cup {me} /\ me \in store
      \/ store' = store \ {me} /\ archive' = archive /\ me \notin store
    BY DEF RefuseLate, KeepUploaded, DiscardNew, Goto, Ledger, Places, Holding
<1>3. me \in 1..lastRun
    BY <1>1, PlaceFacts DEF Ledger, me, Runs
<1>4. TypeOK'
  <2>1. WorldOK' /\ BooksOK'
      BY <1>1, <1>2, <1>3 DEF Ledger, TypeOK, WorldOK, BooksOK, world
  <2>2. RunOK'
      BY <1>1 DEF Ledger, TypeOK, RunOK, Labels, local
  <2> QED
      BY <2>1, <2>2 DEF TypeOK
<1>5. InHand' /\ Onward /\ pc' \notin Deciding
    BY <1>1 DEF InHand, Onward, InASession, Deciding, Holding
<1>6. Found'
    BY <1>1 DEF Ledger, Found, PreparedBy, Restoring, local
<1>7. /\ store' \ {me} = store \ {me} /\ archive' \ {me} = archive \ {me}
      /\ archive \subseteq archive'
      /\ me \in store' => me \notin archive'
    BY <1>2 DEF Ledger, Places
<1>8. me \notin voided
    BY <1>1 DEF Ledger, Places
<1> QED
    BY <1>1, <1>4, <1>5, <1>6, <1>7, <1>8, NewDecisionStep DEF FactsKept, local, Holding

LEMMA SupersedeLedger ==
    ASSUME Ledger, SupersedeOlder, UNCHANGED killed
    PROVE  Ledger'
<1>1. /\ UNCHANGED <<world, chain, voided, facts, plan, snapshot, output,
                     lastRun, local, byHand, killed>>
      /\ pc = "fresh" /\ pc' = "export"
      /\ store' = store \ Older /\ archive' = archive \cup Older
      /\ \A d \in Older : ~DeadlinePassed(facts[d].session)
    BY DEF SupersedeOlder, Goto
<1>2. Older \subseteq store /\ me \notin Older
    BY DEF Older, DecisionsOf
<1>3. TypeOK'
  <2>1. WorldOK' /\ BooksOK'
      BY <1>1, <1>2 DEF Ledger, TypeOK, WorldOK, BooksOK, world
  <2>2. RunOK'
      BY <1>1 DEF Ledger, TypeOK, RunOK, Labels, local
  <2> QED
      BY <2>1, <2>2 DEF TypeOK
<1>4. Places'
    BY <1>1, <1>2 DEF Ledger, Places, Everywhere, Deciding, Holding, me
<1>5. InHand' /\ Onward
    BY <1>1, <1>2 DEF Ledger, InHand, Onward, InASession, Deciding, Holding, local, Places
<1>6. Found'
    BY <1>1 DEF Ledger, Found, PreparedBy, Restoring, local
<1>7. ASSUME NEW k \in 1..Len(chain), chain[k].kind = "close"
      PROVE  chain[k].decision \in store' \ (archive' \cup voided')
  <2>1. chain[k].decision \notin Older
    <3>1. /\ chain[k].session \in published /\ chain[k].session = facts[chain[k].decision].session
        BY <1>7, SettledFacts
    <3>2. chain[k].session \in Sessions /\ now \in Nat /\ now >= CloseTime(chain[k].session)
        BY <3>1 DEF Ledger, PricesAfterClose, TypeOK, WorldOK
    <3>3. DeadlinePassed(chain[k].session)
        BY <3>2, DeadlineFacts
    <3> QED
        BY <1>1, <3>1, <3>3
  <2> QED
      BY <1>1, <1>7, <2>1, SettledFacts
<1> QED
    BY <1>1, <1>3, <1>4, <1>5, <1>6, <1>7, MoveStep DEF FactsKept

LEMMA PutBackLedger ==
    ASSUME Ledger, PutBack, UNCHANGED killed
    PROVE  Ledger'
<1>1. /\ UNCHANGED <<world, chain, voided, facts, plan, snapshot, output,
                     lastRun, local, byHand, killed>>
      /\ pc = "putBack" /\ pc' = "putOutput"
      /\ store' = store \cup {pending.decision} /\ archive' = archive \ {pending.decision}
    BY DEF PutBack, Goto
<1>2. pending.decision \in archive /\ pending.decision \notin voided
    BY <1>1 DEF Ledger, Places
<1>3. TypeOK'
  <2>1. WorldOK' /\ BooksOK'
      BY <1>1, <1>2 DEF Ledger, TypeOK, WorldOK, BooksOK, world
  <2>2. RunOK'
      BY <1>1 DEF Ledger, TypeOK, RunOK, Labels, local
  <2> QED
      BY <2>1, <2>2 DEF TypeOK
<1>4. Places'
    BY <1>1, <1>2 DEF Ledger, Places, Everywhere, Deciding, Holding, me
<1>5. InHand' /\ Onward
    BY <1>1 DEF InHand, Onward, InASession, Deciding, Holding
<1>6. Found'
    BY <1>1 DEF Ledger, Found, PreparedBy, Restoring, local
<1>7. ASSUME NEW k \in 1..Len(chain), chain[k].kind = "close"
      PROVE  chain[k].decision \in store' \ (archive' \cup voided')
    BY <1>1, <1>7, SettledFacts
<1> QED
    BY <1>1, <1>3, <1>4, <1>5, <1>6, <1>7, MoveStep DEF FactsKept

-----------------------------------------------------------------------------
(* Ledger: the steps that move the account.                                *)

\* What takes back the last state takes back one that followed the state the
\* decision had waited on: the genesis state stays.
LEMMA RestoreFacts ==
    ASSUME Ledger, RestoreLedger
    PROVE  /\ chain' \in Seq(States) /\ chain' # << >>
           /\ Len(chain') \in 1..Len(chain) /\ \A k \in 1..Len(chain') : chain'[k] = chain[k]
           /\ \/ chain' = chain
              \/ Len(chain) > 1 /\ chain' = Front(chain) /\ Len(chain') = Len(chain) - 1
<1>1. CASE ~LedgerMoved
    BY <1>1, ChainFacts DEF RestoreLedger, Ledger, TypeOK, BooksOK
<1>2. CASE LedgerMoved
  <2>1. chain' = Front(chain) /\ superseded /\ pc = "ended"
      BY <1>2 DEF RestoreLedger
  <2>2. PICK k \in 1..Len(chain) : PreparedBy(k, pending.account)
      BY <2>1 DEF Ledger, Found, Restoring
  <2>3. k # Len(chain)
      BY <1>2, <2>2, ChainFacts DEF Ledger, TypeOK, LedgerMoved, PreparedBy
  <2>4. Len(chain) \in Nat /\ Len(chain) > 1
      BY <2>2, <2>3, ChainFacts DEF Ledger, TypeOK
  <2>5. /\ chain' \in Seq(States) /\ Len(chain') = Len(chain) - 1
        /\ \A i \in 1..Len(chain') : i \in 1..Len(chain) /\ chain'[i] = chain[i]
      BY <2>1, FrontFacts DEF Ledger, TypeOK, BooksOK
  <2> QED
      BY <2>1, <2>4, <2>5
<1> QED
    BY <1>1, <1>2

LEMMA RestoreLedgerStep ==
    ASSUME Ledger, RestoreLedger, UNCHANGED killed
    PROVE  Ledger'
<1>1. /\ UNCHANGED <<world, store, archive, voided, facts, plan, snapshot, output,
                     lastRun, local, byHand, killed>>
      /\ pc = "ended" /\ pc' = "discard" /\ superseded
      /\ pending.decision \in archive
    BY DEF RestoreLedger, Goto, Restorable
<1>2. /\ chain' \in Seq(States) /\ chain' # << >> /\ Len(chain) \in Nat
      /\ Len(chain') \in 1..Len(chain) /\ \A k \in 1..Len(chain') : chain'[k] = chain[k]
    BY RestoreFacts, ChainFacts DEF Ledger, TypeOK
<1>3. TypeOK'
  <2>1. WorldOK' /\ BooksOK'
      BY <1>1, <1>2 DEF Ledger, TypeOK, WorldOK, BooksOK, world
  <2>2. RunOK'
      BY <1>1 DEF Ledger, TypeOK, RunOK, Labels, local
  <2> QED
      BY <2>1, <2>2 DEF TypeOK
<1>4. Places'
    BY <1>1 DEF Ledger, Places, Everywhere, Deciding, Holding, me, local
<1>5. InHand' /\ Onward /\ Found'
    BY <1>1 DEF Ledger, InHand, Onward, InASession, Deciding, Holding, Found, Restoring, local
<1>6. PricesAfterClose'
    BY <1>1 DEF Ledger, PricesAfterClose, world
<1>7. Line'
    BY <1>2 DEF Ledger, Line, PreparedBy
<1>8. PreparedKnown'
    BY <1>2, <1>5, KnownOnward DEF Ledger, PreparedKnown
<1>9. ASSUME NEW k \in 1..Len(chain'), chain'[k].kind = "close"
      PROVE  /\ k > 1 /\ PreparedBy(k - 1, facts[chain[k].decision].account)'
             /\ chain'[k].session = facts'[chain'[k].decision].session
             /\ chain'[k].session \in published'
             /\ chain'[k].decision # me'
             /\ chain'[k].decision \in store' \ (archive' \cup voided')
  <2>1. k \in 1..Len(chain) /\ chain[k].kind = "close" /\ chain'[k] = chain[k]
      BY <1>2, <1>9
  <2>2. k > 1 /\ k - 1 \in 1..Len(chain')
      BY <1>2, <2>1 DEF Ledger, Linked
  <2> QED
      BY <1>1, <1>2, <2>1, <2>2, SettledFacts DEF PreparedBy, me, world
<1>10. Linked' /\ SettledStays'
    BY <1>2, <1>9 DEF Linked, SettledStays, PreparedBy
<1> QED
    BY <1>3, <1>4, <1>5, <1>6, <1>7, <1>8, <1>10 DEF Ledger

\* A new account run becomes the last state, perhaps after a rebase.
LEMMA GrowStep ==
    ASSUME NEW a, Ledger, TypeOK', Onward, FactsKept, UNCHANGED <<world, store, archive, voided>>,
           Places', InHand',
           superseded' = superseded, pending' = pending, pc' \notin Restoring, pc \notin Restoring, pc' # "idle",
           Len(chain') > Len(chain), \A k \in 1..Len(chain) : chain'[k] = chain[k],
           \A k \in 1..Len(chain') : k > Len(chain) => chain'[k].kind = "rebase" \/ k = Len(chain'),
           chain'[Len(chain')].kind = "prepared", chain'[Len(chain')].run = a,
           ~Known(a), Known(a)'
    PROVE  Ledger'
<1>1. Len(chain) \in Nat /\ Len(chain) >= 1 /\ Len(chain') \in Nat /\ Len(chain') \in 1..Len(chain')
  <2>1. Len(chain) \in Nat /\ Len(chain) >= 1
      BY ChainFacts DEF Ledger, TypeOK
  <2>2. Len(chain') \in Nat
      BY DEF TypeOK, BooksOK
  <2> QED
      BY <2>1, <2>2
<1>2. ASSUME NEW k \in 1..Len(chain')
      PROVE  \/ k \in 1..Len(chain) /\ chain'[k] = chain[k]
             \/ chain'[k].kind = "rebase"
             \/ k = Len(chain') /\ chain'[k].kind = "prepared" /\ chain'[k].run = a
    BY <1>1
<1>3. \A k \in 1..Len(chain) : chain[k].kind = "prepared" => chain[k].run # a
    BY DEF Ledger, PreparedKnown
<1>4. Line'
  <2>1. chain'[1].kind = "genesis" /\ \A k \in 2..Len(chain') : chain'[k].kind # "genesis"
      BY <1>1, <1>2 DEF Ledger, Line
  <2>2. ASSUME NEW j \in 1..Len(chain'), NEW k \in 1..Len(chain'),
               chain'[j].kind = "prepared", chain'[k].kind = "prepared", chain'[k].run = chain'[j].run
        PROVE  j = k
    <3>1. CASE j \in 1..Len(chain) /\ chain'[j] = chain[j]
      <4>1. k \in 1..Len(chain) /\ chain'[k] = chain[k]
          BY <1>2, <1>3, <2>2, <3>1
      <4> QED
          BY <2>2, <3>1, <4>1 DEF Ledger, Line, PreparedBy
    <3>2. CASE j = Len(chain') /\ chain'[j].run = a
      <4>1. k = Len(chain')
          BY <1>2, <1>3, <2>2, <3>2
      <4> QED
          BY <3>2, <4>1
    <3> QED
        BY <1>2, <2>2, <3>1, <3>2
  <2> QED
      BY <2>1, <2>2 DEF Line, PreparedBy
<1>5. PreparedKnown'
    BY <1>2, KnownOnward DEF Ledger, PreparedKnown
<1>6. ASSUME NEW k \in 1..Len(chain'), chain'[k].kind = "close"
      PROVE  /\ k > 1 /\ PreparedBy(k - 1, facts[chain[k].decision].account)'
             /\ chain'[k].session = facts'[chain'[k].decision].session
             /\ chain'[k].session \in published'
             /\ pc' # "idle" => chain'[k].decision # me'
             /\ chain'[k].decision \in store' \ (archive' \cup voided')
  <2>1. k \in 1..Len(chain) /\ chain[k].kind = "close" /\ chain'[k] = chain[k]
      BY <1>2, <1>6
  <2>2. facts'[chain[k].decision] = facts[chain[k].decision]
      BY <2>1, SettledFacts DEF FactsKept
  <2>3. k > 1 /\ k - 1 \in 1..Len(chain) /\ chain'[k - 1] = chain[k - 1]
      BY <2>1, SettledFacts DEF Ledger, Linked
  <2> QED
      BY <2>1, <2>2, <2>3, SettledFacts DEF PreparedBy, me, world, Onward
<1>7. Linked' /\ SettledStays'
    BY <1>6 DEF Linked, SettledStays, PreparedBy
<1>8. Found' /\ PricesAfterClose'
  <2>1. ASSUME NEW k \in 1..Len(chain), PreparedBy(k, pending.account)
        PROVE  k \in 1..Len(chain') /\ PreparedBy(k, pending.account)'
      BY <1>1, <2>1 DEF PreparedBy
  <2> QED
      BY <2>1 DEF Ledger, Found, PricesAfterClose, world
<1> QED
    BY <1>4, <1>5, <1>7, <1>8 DEF Ledger

LEMMA PrepareFacts ==
    ASSUME Ledger, Prepare
    PROVE  /\ me \in Runs /\ me \in AccountRuns /\ RunOf(me) = me /\ me # AfterRebase(me) /\ me \in 1..lastRun
           /\ chain' \in Seq(States) /\ chain' # <<>> /\ Len(chain') = Len(chain) + 1 /\ Len(chain) \in Nat
           /\ \A k \in 1..Len(chain) : chain'[k] = chain[k]
           /\ chain'[Len(chain')].kind = "prepared" /\ chain'[Len(chain')].run = me
           /\ chain'[Len(chain')].decision = None
<1>1. pc = "prepare" /\ chain' = Append(chain, Prepared(me, me))
    BY DEF Prepare
<1>2. me \in Runs /\ me \in AccountRuns /\ RunOf(me) = me /\ me # AfterRebase(me) /\ me \in 1..lastRun
    BY <1>1, PlaceFacts, AccountFacts DEF Ledger, me, Runs
<1>3. /\ Prepared(me, me) \in States /\ Prepared(me, me).kind = "prepared" /\ Prepared(me, me).run = me
      /\ Prepared(me, me).decision = None
    BY <1>2, PreparedFacts
<1> QED
    BY <1>1, <1>2, <1>3, AppendFacts DEF Ledger, TypeOK, BooksOK

LEMMA PrepareLedger ==
    ASSUME Ledger, Prepare, UNCHANGED killed
    PROVE  Ledger'
<1>1. /\ UNCHANGED <<world, decisions, plan, snapshot, output, lastRun, local, byHand, killed>>
      /\ pc = "prepare" /\ pc' = "output"
    BY DEF Prepare, Goto
<1>2. TypeOK'
  <2>1. WorldOK' /\ BooksOK'
      BY <1>1, PrepareFacts DEF Ledger, TypeOK, WorldOK, BooksOK, world, decisions
  <2>2. RunOK'
      BY <1>1 DEF Ledger, TypeOK, RunOK, Labels, local
  <2> QED
      BY <2>1, <2>2 DEF TypeOK
<1>3. Places' /\ InHand'
    BY <1>1 DEF Ledger, Places, InHand, InASession, Everywhere, Deciding, Holding, me, decisions
<1>4. Onward /\ pc \notin Restoring /\ pc' \notin Restoring /\ pc' # "idle"
    BY <1>1 DEF Onward, Deciding, Holding, Restoring
<1>5. PICK a : a = me
    OBVIOUS
<1>6. ~Known(a) /\ Known(a)'
    BY <1>1, <1>5, PrepareFacts DEF Known, me, RunOf, AfterRebase
<1>7. /\ chain'[Len(chain')].kind = "prepared" /\ chain'[Len(chain')].run = a
      /\ \A k \in 1..Len(chain) : chain'[k] = chain[k]
    BY <1>5, PrepareFacts
<1>8. /\ Len(chain') > Len(chain)
      /\ \A k \in 1..Len(chain') : k > Len(chain) => chain'[k].kind = "rebase" \/ k = Len(chain')
    BY PrepareFacts
<1>9. FactsKept /\ UNCHANGED <<world, store, archive, voided, superseded, pending>>
    BY <1>1 DEF FactsKept, decisions, local
<1> QED
    BY <1>2, <1>3, <1>4, <1>6, <1>7, <1>8, <1>9, GrowStep

LEMMA RebaseFacts ==
    ASSUME Ledger, RebaseToDatapack, UNCHANGED killed
    PROVE  /\ pc = "check" /\ pc' = "decide" /\ session' \in Sessions /\ session' = Target(snapshot.cutoff)
           /\ now < Deadline(session')
           /\ Onward /\ pc \notin Restoring /\ pc' \notin Restoring
           /\ AfterRebase(me) \in AccountRuns /\ RunOf(AfterRebase(me)) = me /\ me # AfterRebase(me)
           /\ me \in 1..lastRun /\ me \in Runs /\ bound' = AfterRebase(me) /\ output' = AfterRebase(me)
           /\ UNCHANGED <<world, decisions, plan, snapshot, lastRun, pending, backup, superseded,
                          ready, byHand, killed>>
           /\ Waiting = {}
           /\ chain' \in Seq(States) /\ chain' # <<>> /\ Len(chain') = Len(chain) + 2 /\ Len(chain) \in Nat
           /\ \A k \in 1..Len(chain) : chain'[k] = chain[k]
           /\ chain'[Len(chain) + 1].kind = "rebase" /\ chain'[Len(chain) + 1].run = AfterRebase(me)
           /\ chain'[Len(chain) + 1].decision = None
           /\ chain'[Len(chain')].kind = "prepared" /\ chain'[Len(chain')].run = AfterRebase(me)
           /\ chain'[Len(chain')].decision = None
<1> DEFINE target == Target(snapshot.cutoff)
           a == AfterRebase(me)
           one == StateOf("rebase", a)
           two == Prepared(a, snapshot.run)
<1>1. target \in Sessions \cup {None}
    BY TargetType
<1>2. /\ InSession(target) /\ bound' = a /\ output' = a /\ Waiting = {}
      /\ chain' = chain \o <<one, two>>
    BY DEF RebaseToDatapack
<1> HIDE DEF target
<1>3. /\ pc = "check" /\ pc' = "decide" /\ session' = target /\ target \in Sessions
      /\ now < Deadline(target)
      /\ Onward /\ pc \notin Restoring /\ pc' \notin Restoring
    BY <1>1, <1>2, SessionFacts
<1>4. /\ UNCHANGED <<world, decisions, plan, snapshot, lastRun, pending, backup, superseded,
                     ready, byHand, killed>>
    BY <1>2 DEF InSession
<1>5. a \in AccountRuns /\ RunOf(a) = me /\ me # a /\ me \in 1..lastRun /\ me \in Runs
    BY <1>3, PlaceFacts, AccountFacts DEF Ledger, me, Runs
<1>6. /\ one \in States /\ one.kind = "rebase" /\ one.run = a /\ one.decision = None
      /\ two \in States /\ two.kind = "prepared" /\ two.run = a /\ two.decision = None
  <2>1. snapshot.run \in Runs \cup {None}
      BY DEF Ledger, TypeOK, BooksOK, Snapshots
  <2> HIDE DEF a
  <2> QED
      BY <1>5, <2>1, PreparedFacts
<1> HIDE DEF one, two
<1>7. /\ chain' \in Seq(States) /\ chain' # <<>> /\ Len(chain') = Len(chain) + 2 /\ Len(chain) \in Nat
      /\ \A k \in 1..Len(chain) : chain'[k] = chain[k]
      /\ chain'[Len(chain) + 1] = one
      /\ chain'[Len(chain')] = two
  <2>1. <<one, two>> \in Seq(States) /\ Len(<<one, two>>) = 2
      BY <1>6
  <2> QED
      BY <1>2, <2>1 DEF Ledger, TypeOK, BooksOK
<1> QED
    BY <1>2, <1>3, <1>4, <1>5, <1>6, <1>7 DEF target

LEMMA RebaseLedger ==
    ASSUME Ledger, RebaseToDatapack, UNCHANGED killed
    PROVE  Ledger'
<1>1. PICK a : a = AfterRebase(me)
    OBVIOUS
<1>2. TypeOK'
  <2>1. WorldOK' /\ BooksOK'
      BY RebaseFacts DEF Ledger, TypeOK, WorldOK, BooksOK, world, decisions
  <2>2. pc' \in Labels /\ (pc' # "idle" => lastRun' # 0) /\ lastRun' \in 0..MaxRuns
      BY RebaseFacts DEF Ledger, TypeOK, RunOK, Labels
  <2>3. bound' \in AccountRuns \cup {None} /\ session' \in Sessions \cup {None}
      BY RebaseFacts
  <2>4. RunOK'
      BY RebaseFacts, <2>2, <2>3, Zenon DEF Ledger, TypeOK, RunOK
  <2> QED
      BY <2>1, <2>4 DEF TypeOK
<1>3. Places' /\ InHand'
    BY RebaseFacts DEF Ledger, Places, InHand, InASession, Everywhere, Deciding, Holding, me, decisions
<1>4. ~Known(a) /\ Known(a)'
    BY <1>1, RebaseFacts DEF Known, me, RunOf, AfterRebase
<1>5. \A k \in 1..Len(chain') : k > Len(chain) => chain'[k].kind = "rebase" \/ k = Len(chain')
    BY RebaseFacts
<1>6. /\ chain'[Len(chain')].kind = "prepared" /\ chain'[Len(chain')].run = a /\ Len(chain') > Len(chain)
      /\ \A k \in 1..Len(chain) : chain'[k] = chain[k]
      /\ Onward /\ pc \notin Restoring /\ pc' \notin Restoring /\ pc' # "idle"
    BY <1>1, RebaseFacts
<1>7. FactsKept /\ UNCHANGED <<world, store, archive, voided, superseded, pending>>
    BY RebaseFacts DEF FactsKept, decisions
<1> QED
    BY <1>2, <1>3, <1>4, <1>5, <1>6, <1>7, GrowStep

LEMMA SettleFacts ==
    ASSUME Ledger, NEW d \in Runs, SettleDecision(d)
    PROVE  /\ d \in Waiting /\ facts[d].session \in published
           /\ Closed(me, d, facts[d].session).kind = "close"
           /\ Closed(me, d, facts[d].session).decision = d
           /\ Closed(me, d, facts[d].session).session = facts[d].session
           /\ chain' \in Seq(States) /\ chain' # <<>> /\ Len(chain') = Len(chain) + 1 /\ Len(chain) \in Nat
           /\ \A k \in 1..Len(chain) : chain'[k] = chain[k]
           /\ chain'[Len(chain')] = Closed(me, d, facts[d].session)
<1>1. /\ d \in Waiting /\ facts[d].session \in published /\ pc = "data"
      /\ chain' = Append(chain, Closed(me, d, facts[d].session))
    BY DEF SettleDecision, Advance
<1>2. me \in AccountRuns
    BY <1>1, PlaceFacts, AccountFacts DEF Ledger
<1>3. facts[d].session \in Sessions
    BY <1>1 DEF Ledger, TypeOK, WorldOK
<1> QED
    BY <1>1, <1>2, <1>3, ClosedFacts, AppendFacts DEF Ledger, TypeOK, BooksOK

LEMMA SettleLedger ==
    ASSUME Ledger, NEW d \in Runs, SettleDecision(d), UNCHANGED killed
    PROVE  Ledger'
<1>1. /\ UNCHANGED <<world, store, archive, voided, facts, plan, output, lastRun, local, byHand, killed>>
      /\ snapshot' = [run |-> me, cutoff |-> now]
      /\ pc = "data" /\ pc' = "prepare"
    BY DEF SettleDecision, Advance, Goto
<1>2. /\ d \in store /\ d \notin archive \cup voided /\ PreparedBy(Len(chain), facts[d].account)
      /\ d # me
    BY <1>1, SettleFacts, WaitingFacts DEF Ledger, Places, Deciding, Everywhere
<1>3. Len(chain) \in Nat /\ Len(chain) >= 1 /\ Len(chain) \in 1..Len(chain)
    BY ChainFacts DEF Ledger, TypeOK
<1>4. TypeOK'
  <2>1. WorldOK' /\ BooksOK'
      BY <1>1, SettleFacts, SnapshotType DEF Ledger, TypeOK, WorldOK, BooksOK, world
  <2>2. RunOK'
      BY <1>1 DEF Ledger, TypeOK, RunOK, Labels, local
  <2> QED
      BY <2>1, <2>2 DEF TypeOK
<1>5. Places' /\ InHand' /\ Onward
    BY <1>1 DEF Ledger, Places, Everywhere, InHand, InASession, Onward, Deciding, Holding, me
<1>6. ASSUME NEW k \in 1..Len(chain')
      PROVE  \/ k \in 1..Len(chain) /\ chain'[k] = chain[k]
             \/ /\ k = Len(chain) + 1 /\ chain'[k].kind = "close" /\ chain'[k].decision = d
                /\ chain'[k].session = facts[d].session
    BY <1>3, SettleFacts
<1>7. Line'
    BY <1>3, <1>6, SettleFacts DEF Ledger, Line, PreparedBy
<1>8. PreparedKnown'
    BY <1>5, <1>6, KnownOnward DEF Ledger, PreparedKnown
<1>9. ASSUME NEW k \in 1..Len(chain'), chain'[k].kind = "close"
      PROVE  /\ k > 1 /\ PreparedBy(k - 1, facts[chain[k].decision].account)'
             /\ chain'[k].session = facts'[chain'[k].decision].session
             /\ chain'[k].session \in published'
             /\ chain'[k].decision # me'
             /\ chain'[k].decision \in store' \ (archive' \cup voided')
  <2>1. CASE k \in 1..Len(chain) /\ chain'[k] = chain[k]
    <3>1. k > 1 /\ k - 1 \in 1..Len(chain) /\ chain'[k - 1] = chain[k - 1]
        BY <1>9, <2>1, SettledFacts, SettleFacts DEF Ledger, Linked
    <3> QED
        BY <1>1, <1>9, <2>1, <3>1, SettledFacts DEF PreparedBy, me, world
  <2>2. CASE k = Len(chain) + 1 /\ chain'[k].decision = d /\ chain'[k].session = facts[d].session
    <3>1. k > 1 /\ k - 1 = Len(chain) /\ chain'[k - 1] = chain[k - 1]
        BY <1>3, <2>2, SettleFacts
    <3> QED
        BY <1>1, <1>2, <2>2, <3>1, SettleFacts DEF PreparedBy, me, world
  <2> QED
      BY <1>6, <1>9, <2>1, <2>2
<1>10. Linked' /\ SettledStays'
    BY <1>9 DEF Linked, SettledStays, PreparedBy
<1>11. Found' /\ PricesAfterClose'
  <2>1. ASSUME NEW k \in 1..Len(chain), PreparedBy(k, pending.account)
        PROVE  k \in 1..Len(chain') /\ PreparedBy(k, pending.account)'
      BY <1>1, <1>3, <2>1, SettleFacts DEF PreparedBy, local
  <2> QED
      BY <1>1, <2>1 DEF Ledger, Found, PricesAfterClose, world, local, Restoring
<1> QED
    BY <1>4, <1>5, <1>7, <1>8, <1>10, <1>11 DEF Ledger

-----------------------------------------------------------------------------
(* Ledger: a run begins.                                                   *)

LEMMA BeginFacts ==
    ASSUME Ledger, NEW skips \in BOOLEAN, Begin(skips)
    PROVE  /\ pc = "idle" /\ lastRun' = lastRun + 1 /\ lastRun' \in Runs /\ lastRun \in Nat
           /\ pc' \in {"data", "check", "ended"} /\ (pc' = "data" <=> ~skips /\ Cardinality(Waiting) <= 1)
           /\ \/ pending' = NoPending /\ (skips \/ Cardinality(Waiting) # 1)
              \/ /\ ~skips /\ pc' = "data" /\ Waiting = {pending'.decision} /\ pending'.decision \in Runs
                 /\ pending'.decision \in Waiting /\ pending'.account = head.run
           /\ backup' \in {snapshot, NoSnapshot}
           /\ UNCHANGED <<world, books, superseded, session, bound, ready, byHand>>
<1> USE DEF Begin, Goto
<1>1. /\ pc = "idle" /\ lastRun' = lastRun + 1 /\ lastRun < MaxRuns
      /\ backup' \in {snapshot, NoSnapshot}
      /\ UNCHANGED <<world, books, superseded, session, bound, ready, byHand>>
    OBVIOUS
<1>2. lastRun' \in Runs /\ lastRun \in Nat
    BY <1>1, PlaceFacts DEF Ledger, Runs
<1>3. Waiting \in SUBSET Runs
    BY WaitingFacts
<1>4. IsFiniteSet(Waiting) /\ Cardinality(Waiting) \in Nat
  <2>1. IsFiniteSet(Runs)
      BY FS_Interval DEF Runs
  <2> QED
      BY <1>3, <2>1, FS_Subset, FS_CardinalityType
<1>5. pc' \in {"data", "check", "ended"} /\ (pc' = "data" <=> ~skips /\ Cardinality(Waiting) <= 1)
    BY <1>4
<1>6. CASE skips \/ Cardinality(Waiting) # 1
    BY <1>1, <1>2, <1>5, <1>6
<1>7. CASE ~skips /\ Cardinality(Waiting) = 1
  <2>1. Waiting = {Min(Waiting)} /\ Min(Waiting) \in Runs
      BY <1>3, <1>7, OnlyOne
  <2>2. pending' = [decision |-> Min(Waiting), account |-> head.run]
      BY <1>7
  <2> QED
      BY <1>1, <1>2, <1>5, <1>7, <2>1, <2>2
<1> QED
    BY <1>6, <1>7

LEMMA KnownBegins ==
    ASSUME Ledger, NEW a, Known(a), lastRun' = lastRun + 1, lastRun' \in Runs
    PROVE  Known(a)' /\ a # lastRun' /\ a # AfterRebase(lastRun')
<1>1. lastRun' \in Nat /\ RunOf(lastRun') = lastRun' /\ RunOf(AfterRebase(lastRun')) = lastRun'
    BY AccountFacts
<1>2. lastRun \in Nat /\ RunOf(a) \in 1..lastRun
    BY DEF Known, Ledger, TypeOK, RunOK
<1>3. RunOf(a) # lastRun' /\ RunOf(a) \in 1..lastRun'
    BY <1>1, <1>2
<1>4. a # lastRun' /\ a # AfterRebase(lastRun')
    BY <1>1, <1>3
<1> QED
    BY <1>3, <1>4 DEF Known, me, AfterRebase, RunOf

LEMMA BeginLedger ==
    ASSUME Ledger, NEW skips \in BOOLEAN, Begin(skips), UNCHANGED killed
    PROVE  Ledger'
<1>1. /\ pc = "idle" /\ lastRun' = lastRun + 1 /\ lastRun' \in Runs /\ lastRun \in Nat
      /\ pc' \in {"data", "check", "ended"}
      /\ backup' \in {snapshot, NoSnapshot}
      /\ UNCHANGED <<world, books, superseded, session, bound, ready, byHand>>
    BY BeginFacts
<1>2. /\ pending' \in Waits
      /\ pending' # NoPending => PreparedBy(Len(chain), pending'.account)
  <2>1. CASE pending' = NoPending
      BY <2>1 DEF NoPending, Waits
  <2>2. CASE pending' # NoPending
    <3>1. /\ pending'.decision \in Waiting /\ pending'.account = head.run
          /\ pending' = [decision |-> Min(Waiting), account |-> head.run]
        BY <2>2, BeginFacts DEF Begin
    <3>2. head.run \in AccountRuns /\ pending'.decision \in Runs
        BY <3>1, ChainFacts, WaitingFacts DEF Ledger, TypeOK
    <3>3. PreparedBy(Len(chain), head.run)
        BY <3>1, WaitingFacts
    <3> QED
        BY <3>1, <3>2, <3>3 DEF Waits
  <2> QED
      BY <2>1, <2>2
<1>3. lastRun' \in 0..MaxRuns /\ lastRun' \notin 1..lastRun /\ 1..lastRun \subseteq 1..lastRun'
    BY <1>1 DEF Runs
<1>4. TypeOK'
  <2>1. WorldOK' /\ BooksOK'
      BY <1>1, <1>3 DEF Ledger, TypeOK, WorldOK, BooksOK, world, books, decisions
  <2>2. backup' \in Snapshots
      BY <1>1 DEF Ledger, TypeOK, BooksOK, NoSnapshot, Snapshots
  <2>3. pc' \in Labels /\ (pc' # "idle" => lastRun' # 0)
      BY <1>1 DEF Labels, Runs
  <2>4. RunOK'
      BY <1>1, <1>2, <1>3, <2>2, <2>3, Zenon DEF Ledger, TypeOK, RunOK
  <2> QED
      BY <2>1, <2>4 DEF TypeOK
<1>5. Places'
    BY <1>1, <1>3 DEF Ledger, Places, Everywhere, Deciding, Holding, me, books, decisions, TypeOK, BooksOK
<1>6. InHand' /\ PricesAfterClose'
    BY <1>1 DEF Ledger, InHand, InASession, PricesAfterClose, world
<1>7. Line'
    BY <1>1 DEF Ledger, Line, PreparedBy, books
<1>8. PreparedKnown'
    BY <1>1, KnownBegins DEF Ledger, PreparedKnown, books
<1>9. SettledStays'
    BY <1>1 DEF Ledger, SettledStays, books, decisions
<1>10. \A k \in 1..Len(chain) : chain[k].kind = "close" => chain[k].decision # lastRun'
    BY <1>3, SettledFacts DEF Ledger, TypeOK, BooksOK
<1>11. Linked'
    BY <1>1, <1>10 DEF Ledger, Linked, PreparedBy, world, books, decisions, me
<1>12. Found'
    BY <1>1, <1>2, ChainFacts DEF Ledger, TypeOK, Found, PreparedBy, books
<1> QED
    BY <1>4, <1>5, <1>6, <1>7, <1>8, <1>9, <1>11, <1>12 DEF Ledger

-----------------------------------------------------------------------------
(* The account and its decisions agree.                                    *)

LEMMA StutterLedger ==
    ASSUME Ledger, UNCHANGED vars
    PROVE  Ledger'
<1> USE DEF vars, world, books, decisions, local
<1>1. TypeOK' /\ InHand' /\ Found' /\ PricesAfterClose'
    BY DEF Ledger, TypeOK, WorldOK, BooksOK, RunOK, InHand, Found, PreparedBy, PricesAfterClose
<1> QED
    BY <1>1, QuietStep DEF Onward

LEMMA RunLedger ==
    ASSUME Ledger, Run, UNCHANGED killed
    PROVE  Ledger'
<1>1. CASE \E skips \in Skips : Begin(skips)
    BY <1>1, BeginLedger
<1>2. CASE NothingToSettle \/ HeldUp \/ Prepare \/ WriteOutput \/ DataStageFails
    BY <1>2, LookLedger, PrepareLedger, DataEndsLedger
<1>3. CASE \E d \in Runs : SettleDecision(d) \/ VoidDecision(d) \/ SupersedeUnstarted(d)
    BY <1>3, SettleLedger, TakeOutLedger
<1>4. CASE Reconciled \/ RebaseToDatapack \/ Fail("check") \/ Fail("decide") \/ Seal
    BY <1>4, ReconciledLedger, RebaseLedger, GoesOnLedger, SealLedger
<1>5. CASE InTime \/ RefuseLate \/ SupersedeOlder \/ KeepUploaded \/ Export \/ ExportBlocked
    BY <1>5, GoesOnLedger, DropNewLedger, SupersedeLedger, ExportLedger
<1>6. CASE Finish \/ RestoreLedger \/ RestoreFails \/ DiscardNew \/ PutBack \/ PutOutput
    BY <1>6, EndLedger, RestoreLedgerStep, DropNewLedger, PutBackLedger
<1> QED
    BY <1>1, <1>2, <1>3, <1>4, <1>5, <1>6 DEF Run

LEMMA NextLedger ==
    ASSUME Ledger, [Next]_vars
    PROVE  Ledger'
    BY WorldLedger, RunLedger, CrashLedger, StutterLedger DEF Next

\* The first layer holds in every state, for any number of runs, sessions and
\* kills, with and without a data stage and a rebase.
THEOREM LedgerInvariant == Spec => []Ledger
    BY InitLedger, NextLedger, PTL DEF Spec

\* Every variable of the lifecycle keeps to its type.
THEOREM LifecycleTypes == Spec => []TypeOK
    BY LedgerInvariant, PTL DEF Ledger

\* A settled decision stays in the store, whatever later runs set aside.
THEOREM SettledDecisionsStay == Spec => []SettledStays
    BY LedgerInvariant, PTL DEF Ledger

LEMMA ChainStep ==
    ASSUME Ledger, [Next]_vars
    PROVE  [Chain!Next]_chain
<1>1. CASE \/ \E d \in Runs : SettleDecision(d)
           \/ Prepare
           \/ RebaseToDatapack /\ UNCHANGED killed
  <2>1. /\ chain' \in Seq(States) /\ Len(chain') > Len(chain)
        /\ \A k \in 1..Len(chain) : chain'[k] = chain[k]
    <3>1. CASE Prepare
        BY <3>1, PrepareFacts
    <3>2. CASE RebaseToDatapack /\ UNCHANGED killed
        BY <3>2, RebaseFacts
    <3>3. CASE \E d \in Runs : SettleDecision(d)
      <4>1. PICK d \in Runs : SettleDecision(d)
          BY <3>3
      <4> QED
          BY <4>1, SettleFacts
    <3> QED
        BY <1>1, <3>1, <3>2, <3>3
  <2>2. chain # << >>
      BY DEF Ledger, TypeOK, BooksOK
  <2> QED
      BY <2>1, <2>2 DEF Chain!Next, Chain!Extend
<1>2. CASE RestoreLedger
  <2>1. CASE chain' # chain
    <3>1. /\ Len(chain) > 1 /\ Len(chain) \in Nat /\ chain' \in Seq(States) /\ Len(chain') = Len(chain) - 1
          /\ \A k \in 1..Len(chain') : chain'[k] = chain[k]
        BY <1>2, <2>1, RestoreFacts, ChainFacts DEF Ledger, TypeOK
    <3>2. chain' = [k \in 1..(Len(chain) - 1) |-> chain[k]]
        BY <3>1
    <3> QED
        BY <3>1, <3>2 DEF Chain!Next, Chain!TakeBack
  <2> QED
      BY <2>1
<1>3. CASE \/ World \/ Crash \/ UNCHANGED vars
           \/ \E skips \in Skips : Begin(skips)
           \/ NothingToSettle \/ HeldUp \/ WriteOutput \/ DataStageFails
           \/ \E d \in Runs : VoidDecision(d) \/ SupersedeUnstarted(d)
  <2>1. chain' = chain
      BY <1>3 DEF World, Tick, Publish, CallOff, Crash, vars, Begin, NothingToSettle, HeldUp,
                  WriteOutput, DataStageFails, VoidDecision, SupersedeUnstarted, books
  <2> QED
      BY <2>1
<1>4. CASE \/ Reconciled \/ Fail("check") \/ Fail("decide") \/ Seal
           \/ InTime \/ RefuseLate \/ SupersedeOlder \/ KeepUploaded \/ Export \/ ExportBlocked
           \/ Finish \/ RestoreFails \/ DiscardNew \/ PutBack \/ PutOutput
  <2>1. chain' = chain
      BY <1>4 DEF Reconciled, Fail, Seal, InTime, RefuseLate, SupersedeOlder, KeepUploaded, Export,
                  ExportBlocked, Finish, RestoreFails, DiscardNew, PutBack, PutOutput, books
  <2> QED
      BY <2>1
<1> QED
    BY <1>1, <1>2, <1>3, <1>4 DEF Next, Run

\* The account moves along the line of states AccountChain promises: every
\* step of a run follows its last state or takes back that one, never genesis.
THEOREM LifecycleIsChain == Spec => ImplementsChain
    BY LedgerInvariant, ChainStep, PTL DEF Spec, ImplementsChain
-----------------------------------------------------------------------------
\* Every decision was made for a session on an account run of its own daily
\* run or an earlier one; and so will the next one be.
DecisionsKnown ==
    \A d \in Everywhere :
        Known(facts[d].account) /\ RunOf(facts[d].account) <= d /\ facts[d].session \in Sessions

OutputKnown ==
    /\ output # None => Known(output)
    /\ pc \in {"check", "decide"} => output # None

\* What waited was made by an earlier run, is still the only one in the store
\* that was made on its account run, and the new decision is made on another.
PendingKnown ==
    pending # NoPending =>
        /\ pending.decision \in Everywhere /\ pending.decision < me
        /\ facts[pending.decision].account = pending.account
        /\ RunOf(pending.account) < me
        /\ \A e \in store : facts[e].account = pending.account => e = pending.decision
        /\ pc \in {"check", "decide"} => RunOf(output) = me
        /\ me \in store => RunOf(facts[me].account) = me

\* Until the data stage settles it, it waits at the end of the line.
Looking ==
    pc = "data" =>
        /\ pending = NoPending => Waiting = {}
        /\ pending # NoPending =>
              pending.decision \in store /\ PreparedBy(Len(chain), pending.account)

\* What was set aside is in the archive until it is put back.
InArchive == superseded /\ pc # "putOutput" => pending.decision \in archive

\* After it was set aside nothing but account runs of this run has followed,
\* and nothing was settled.
Untouched ==
    pending # NoPending /\ pending.decision \in archive /\ pc \notin Restoring =>
        \E n \in 1..Len(chain) :
            /\ PreparedBy(n, pending.account)
            /\ \A k \in 1..Len(chain) : k > n => chain[k].decision = None /\ RunOf(chain[k].run) = me

\* While it is put back the account stands where it waited.
Returned ==
    pc \in Restoring => pending # NoPending /\ PreparedBy(Len(chain), pending.account)

\* The new decision is for the session of the run.
OfSession == pc \in Holding => facts[me].session = session

Memory == DecisionsKnown /\ OutputKnown /\ PendingKnown /\ Looking /\ InArchive /\ Untouched
          /\ Returned /\ OfSession

-----------------------------------------------------------------------------
(* Memory: steps that leave the account and the decisions alone.           *)

LEMMA InitMemory == Init => Memory
<1> SUFFICES ASSUME Init PROVE Memory
    OBVIOUS
<1> USE DEF Init
<1>1. Everywhere = {} /\ output = None /\ pending = NoPending /\ pc = "idle" /\ ~superseded
    BY DEF Everywhere
<1> QED
    BY <1>1 DEF Memory, DecisionsKnown, OutputKnown, PendingKnown, Looking, InArchive, Untouched,
                Returned, OfSession, Restoring, Holding

LEMMA PlacedFacts ==
    ASSUME Ledger, Memory, NEW d \in Everywhere
    PROVE  /\ d \in Runs /\ d \in 1..lastRun /\ d \in Nat /\ lastRun \in Nat
           /\ facts[d].account \in AccountRuns /\ RunOf(facts[d].account) \in 1..d
           /\ Known(facts[d].account) /\ facts[d].session \in Sessions
<1>1. d \in Runs /\ d \in 1..lastRun /\ lastRun \in Nat
    BY PlaceFacts DEF Ledger, Everywhere, TypeOK, BooksOK
<1>2. Known(facts[d].account) /\ RunOf(facts[d].account) <= d /\ facts[d].session \in Sessions
    BY DEF Memory, DecisionsKnown
<1> QED
    BY <1>1, <1>2 DEF Known

LEMMA PendingFacts ==
    ASSUME Ledger, Memory, pending # NoPending
    PROVE  /\ pending.decision \in Everywhere /\ pending.decision \in Runs
           /\ pending.decision # me /\ me \in Nat
           /\ facts[pending.decision].account = pending.account /\ pending.account \in AccountRuns
           /\ RunOf(pending.account) # me
<1>1. pending.decision \in Everywhere /\ pending.decision < me
      /\ facts[pending.decision].account = pending.account /\ RunOf(pending.account) < me
    BY DEF Memory, PendingKnown
<1>2. pending.decision \in 1..lastRun /\ pending.decision \in Runs /\ lastRun \in Nat
      /\ facts[pending.decision].account \in AccountRuns
      /\ RunOf(facts[pending.decision].account) \in 1..pending.decision
    BY <1>1, PlacedFacts
<1> QED
    BY <1>1, <1>2 DEF me

LEMMA MemorySame ==
    ASSUME Ledger, Memory, Ledger', Onward, UNCHANGED <<chain, facts, store, archive, voided, pending, output>>,
           superseded' = superseded \/ superseded' = SetAside,
           pc' = pc \/ (pc \notin Restoring /\ pc' \notin Restoring),
           pc' = "data" => pc = "data", pc' \in {"check", "decide"} => pc \in {"check", "decide"},
           pc' \in Holding => pc \in Holding /\ session' = session
    PROVE  Memory'
<1>1. DecisionsKnown' /\ OutputKnown'
    BY KnownOnward DEF Memory, DecisionsKnown, OutputKnown, Everywhere
<1>2. PendingKnown'
    BY DEF Memory, PendingKnown, Everywhere, Onward, me
<1>3. Looking'
    BY DEF Memory, Looking, Waiting, DecisionsOf, PreparedBy, head
<1>4. InArchive'
    BY DEF Memory, InArchive, SetAside, PendingKnown, Everywhere, Restoring
<1>5. Untouched' /\ Returned'
    BY DEF Memory, Untouched, Returned, PreparedBy, Onward, me
<1>6. OfSession'
    BY DEF Memory, OfSession, Onward, me
<1> QED
    BY <1>1, <1>2, <1>3, <1>4, <1>5, <1>6 DEF Memory

LEMMA WorldMemory ==
    ASSUME Ledger, Memory, Ledger', World
    PROVE  Memory'
<1>1. UNCHANGED <<books, lastRun, pc, local>>
    BY DEF World, Tick, Publish, CallOff
<1> QED
    BY <1>1, MemorySame DEF Onward, books, decisions, local

LEMMA GoesOnMemory ==
    ASSUME Ledger, Memory, Ledger',
           \/ Fail("check") \/ Fail("decide") \/ InTime \/ ExportBlocked \/ Export
           \/ NothingToSettle \/ HeldUp \/ DataStageFails \/ Reconciled
    PROVE  Memory'
<1>1. CASE Fail("check") \/ Fail("decide") \/ InTime \/ ExportBlocked \/ Export
  <2>1. /\ UNCHANGED <<chain, facts, store, archive, voided, pending, output, superseded, session, lastRun>>
        /\ \/ pc \in {"check", "decide", "export"} /\ pc' = "ended"
           \/ pc = "sealed" /\ pc' = "fresh"
      BY <1>1 DEF Fail, InTime, ExportBlocked, Export, Goto, books, decisions, local
  <2> QED
      BY <2>1, MemorySame DEF Onward, Deciding, Holding, Restoring
<1>2. CASE NothingToSettle \/ HeldUp \/ DataStageFails
  <2>1. /\ UNCHANGED <<chain, facts, store, archive, voided, pending, output, lastRun>>
        /\ superseded' = superseded \/ superseded' = SetAside
        /\ pc \in {"data", "prepare", "output"} /\ pc' \in {"ended", "prepare"}
        /\ pc' = "prepare" => pc = "data"
      BY <1>2 DEF NothingToSettle, HeldUp, DataStageFails, Advance, Goto, decisions, local
  <2> QED
      BY <2>1, MemorySame DEF Onward, Deciding, Holding, Restoring
<1>3. CASE Reconciled
  <2>1. /\ UNCHANGED <<chain, facts, store, archive, voided, pending, output, superseded, lastRun>>
        /\ pc = "check" /\ pc' = "decide"
      BY <1>3 DEF Reconciled, InSession, Goto, decisions
  <2> QED
      BY <2>1, MemorySame DEF Onward, Deciding, Holding, Restoring
<1> QED
    BY <1>1, <1>2, <1>3

LEMMA EndMemory ==
    ASSUME Ledger, Memory, Ledger', Finish \/ RestoreFails \/ PutOutput \/ Crash
    PROVE  Memory'
<1>1. /\ End /\ UNCHANGED <<chain, facts, store, archive, voided, lastRun>>
      /\ output' = output \/ (pc = "putOutput" /\ output' = head.run)
    BY DEF Finish, RestoreFails, PutOutput, Crash, books, decisions
<1>2. pc' = "idle" /\ pending' = NoPending /\ ~superseded'
    BY <1>1 DEF End
<1>3. Onward
    BY <1>1, <1>2 DEF Onward, Deciding, Holding
<1>4. DecisionsKnown'
    BY <1>1, <1>3, KnownOnward DEF Memory, DecisionsKnown, Everywhere
<1>5. OutputKnown'
  <2>1. CASE output' = output
      BY <1>2, <1>3, <2>1, KnownOnward DEF Memory, OutputKnown
  <2>2. CASE pc = "putOutput" /\ output' = head.run
    <3>1. PreparedBy(Len(chain), pending.account)
        BY <2>2 DEF Memory, Returned, Restoring
    <3>2. Known(head.run)
        BY <3>1, ChainFacts DEF Ledger, TypeOK, PreparedKnown, PreparedBy
    <3> QED
        BY <1>2, <1>3, <2>2, <3>2, KnownOnward DEF OutputKnown
  <2> QED
      BY <1>1, <2>1, <2>2
<1> QED
    BY <1>2, <1>4, <1>5 DEF Memory, PendingKnown, Looking, InArchive, Untouched, Returned, OfSession,
                            Restoring, Holding

-----------------------------------------------------------------------------
(* Memory: the other steps.                                                *)

LEMMA BeginMemory ==
    ASSUME Ledger, Memory, Ledger', NEW skips \in BOOLEAN, Begin(skips)
    PROVE  Memory'
<1>1. /\ pc = "idle" /\ lastRun' = lastRun + 1 /\ lastRun' \in Runs /\ lastRun \in Nat
      /\ pc' \in {"data", "check", "ended"} /\ (pc' = "data" <=> ~skips /\ Cardinality(Waiting) <= 1)
      /\ UNCHANGED <<chain, store, archive, voided, facts, output, superseded>>
      /\ ~superseded
  <2>1. ~superseded
      BY DEF Ledger, Found, Begin
  <2> QED
      BY <2>1, BeginFacts DEF books, decisions
<1>2. DecisionsKnown'
    BY <1>1, KnownBegins DEF Memory, DecisionsKnown, Everywhere
<1>3. OutputKnown'
  <2>1. pc' = "check" => output # None
      BY DEF Begin, Goto
  <2> QED
      BY <1>1, <2>1, KnownBegins DEF Memory, OutputKnown
<1>4. CASE pending' = NoPending
  <2>1. pc' = "data" => Waiting = {}
    <3>1. IsFiniteSet(Waiting) /\ Cardinality(Waiting) \in Nat
      <4>1. IsFiniteSet(Runs) /\ Waiting \in SUBSET Runs
          BY FS_Interval, WaitingFacts DEF Runs
      <4> QED
          BY <4>1, FS_Subset, FS_CardinalityType
    <3>2. pc' = "data" => Cardinality(Waiting) = 0
        BY <1>4, <3>1, BeginFacts DEF NoPending, Runs
    <3> QED
        BY <3>1, <3>2, FS_EmptySet
  <2>2. Waiting' = Waiting
      BY <1>1 DEF Waiting, DecisionsOf, head
  <2> QED
      BY <1>1, <1>2, <1>3, <1>4, <2>1, <2>2
         DEF Memory, PendingKnown, Looking, InArchive, Untouched, Returned, OfSession, Restoring, Holding
<1>5. CASE pending' # NoPending
  <2>1. /\ pc' = "data" /\ Waiting = {pending'.decision} /\ pending'.decision \in Waiting
        /\ pending'.account = head.run
      BY <1>5, BeginFacts
  <2>2. /\ pending'.decision \in store /\ pending'.decision \notin archive
        /\ facts[pending'.decision].account = pending'.account
        /\ PreparedBy(Len(chain), pending'.account) /\ head.kind = "prepared"
      BY <2>1, WaitingFacts DEF Waiting
  <2>3. pending'.decision \in 1..lastRun /\ RunOf(pending'.account) \in 1..lastRun
    <3>1. pending'.decision \in Everywhere
        BY <2>2 DEF Everywhere
    <3> QED
        BY <2>2, <3>1, PlacedFacts DEF Known
  <2>4. lastRun' \notin store
      BY <1>1 DEF Ledger, TypeOK, BooksOK
  <2>5. \A e \in store : facts[e].account = pending'.account => e = pending'.decision
      BY <2>1, <2>2 DEF Waiting, DecisionsOf
  <2>6. PendingKnown'
      BY <1>1, <2>1, <2>2, <2>3, <2>4, <2>5 DEF PendingKnown, Everywhere, me
  <2>7. Looking'
      BY <1>1, <1>5, <2>2 DEF Looking, PreparedBy
  <2> QED
      BY <1>1, <1>2, <1>3, <2>1, <2>2, <2>6, <2>7
         DEF Memory, InArchive, Untouched, Returned, OfSession, Restoring, Holding
<1> QED
    BY <1>4, <1>5

\* What waits for its session is what the run remembers.
LEMMA WaitingIsPending ==
    ASSUME Ledger, Memory, pc = "data", NEW d, Waiting = {d}
    PROVE  pending # NoPending /\ d = pending.decision /\ PreparedBy(Len(chain), pending.account)
<1>1. pending # NoPending
    BY DEF Memory, Looking
<1>2. pending.decision \in store /\ PreparedBy(Len(chain), pending.account)
    BY <1>1 DEF Memory, Looking
<1>3. pending.decision \in Waiting
    BY <1>1, <1>2, ChainFacts, PendingFacts DEF Ledger, TypeOK, Waiting, DecisionsOf, PreparedBy
<1> QED
    BY <1>1, <1>2, <1>3

LEMMA LookMemory ==
    ASSUME Ledger, Memory, Ledger', NEW d \in Runs,
           SettleDecision(d) \/ VoidDecision(d) \/ SupersedeUnstarted(d)
    PROVE  Memory'
<1>1. /\ pc = "data" /\ pc' = "prepare" /\ Waiting = {d} /\ d \in store
      /\ UNCHANGED <<lastRun, facts, pending, output, superseded>>
  <2>1. /\ pc = "data" /\ pc' = "prepare" /\ Waiting = {d}
        /\ UNCHANGED <<lastRun, facts, pending, output, superseded>>
      BY DEF SettleDecision, VoidDecision, SupersedeUnstarted, Advance, Goto, local
  <2> QED
      BY <2>1, WaitingFacts
<1>2. /\ pending # NoPending /\ d = pending.decision /\ PreparedBy(Len(chain), pending.account)
      /\ Len(chain) \in 1..Len(chain)
    BY <1>1, WaitingIsPending, ChainFacts DEF Ledger, TypeOK
<1>3. Onward
    BY <1>1 DEF Onward, Deciding, Holding
<1>4. Everywhere' = Everywhere /\ store' \subseteq store
    BY <1>1 DEF Everywhere, SettleDecision, VoidDecision, SupersedeUnstarted
<1>5. DecisionsKnown' /\ OutputKnown' /\ PendingKnown'
  <2>1. DecisionsKnown' /\ OutputKnown'
      BY <1>1, <1>3, <1>4, KnownOnward DEF Memory, DecisionsKnown, OutputKnown
  <2> QED
      BY <1>1, <1>4, <2>1 DEF Memory, PendingKnown, me
<1>6. InArchive'
  <2>1. superseded => d \in archive
      BY <1>1, <1>2 DEF Memory, InArchive
  <2> QED
      BY <1>1, <1>2, <2>1, WaitingFacts DEF InArchive, Ledger, Places
<1>7. Untouched'
  <2>1. CASE SettleDecision(d) \/ VoidDecision(d)
    <3>1. d \notin archive'
        BY <1>1, <2>1, WaitingFacts DEF SettleDecision, VoidDecision
    <3> QED
        BY <1>1, <1>2, <3>1 DEF Untouched
  <2>2. CASE SupersedeUnstarted(d)
    <3>1. chain' = chain
        BY <2>2 DEF SupersedeUnstarted
    <3>2. \A k \in 1..Len(chain) : ~(k > Len(chain))
        BY ChainFacts DEF Ledger, TypeOK
    <3> QED
        BY <1>1, <1>2, <3>1, <3>2 DEF Untouched, PreparedBy
  <2> QED
      BY <2>1, <2>2
<1> QED
    BY <1>1, <1>5, <1>6, <1>7 DEF Memory, Looking, Returned, OfSession, Restoring, Holding

LEMMA PrepareMemory ==
    ASSUME Ledger, Memory, Ledger', Prepare
    PROVE  Memory'
<1>1. /\ pc = "prepare" /\ pc' = "output"
      /\ UNCHANGED <<store, archive, voided, lastRun, facts, pending, output, superseded>>
    BY DEF Prepare, Goto, decisions, local
<1>2. Onward
    BY <1>1 DEF Onward, Deciding, Holding
<1>3. DecisionsKnown' /\ OutputKnown' /\ PendingKnown' /\ InArchive'
  <2>1. DecisionsKnown' /\ OutputKnown'
      BY <1>1, <1>2, KnownOnward DEF Memory, DecisionsKnown, OutputKnown, Everywhere
  <2> QED
      BY <1>1, <2>1 DEF Memory, PendingKnown, Everywhere, InArchive, me
<1>4. Untouched'
  <2> SUFFICES ASSUME pending # NoPending, pending.decision \in archive
               PROVE  \E n \in 1..Len(chain') :
                        /\ PreparedBy(n, pending.account)'
                        /\ \A k \in 1..Len(chain') : k > n =>
                              chain'[k].decision = None /\ RunOf(chain'[k].run) = me
      BY <1>1 DEF Untouched, me, PreparedBy
  <2>1. PICK n \in 1..Len(chain) :
            /\ PreparedBy(n, pending.account)
            /\ \A k \in 1..Len(chain) : k > n => chain[k].decision = None /\ RunOf(chain[k].run) = me
      BY <1>1 DEF Memory, Untouched, Restoring
  <2>2. n \in 1..Len(chain') /\ PreparedBy(n, pending.account)'
      BY <1>1, <2>1, PrepareFacts DEF PreparedBy
  <2>3. ASSUME NEW k \in 1..Len(chain'), k > n
        PROVE  chain'[k].decision = None /\ RunOf(chain'[k].run) = me
    <3>1. CASE k \in 1..Len(chain)
        BY <2>1, <2>3, <3>1, PrepareFacts
    <3>2. CASE k = Len(chain')
        BY <3>2, PrepareFacts
    <3> QED
        BY <3>1, <3>2, PrepareFacts
  <2> QED
      BY <2>2, <2>3
<1> QED
    BY <1>1, <1>3, <1>4 DEF Memory, Looking, Returned, OfSession, Restoring, Holding

LEMMA WriteOutputMemory ==
    ASSUME Ledger, Memory, Ledger', WriteOutput
    PROVE  Memory'
<1>1. /\ pc = "output" /\ pc' = "check" /\ output' = me /\ superseded' = SetAside
      /\ UNCHANGED <<chain, store, archive, voided, lastRun, facts, pending>>
    BY DEF WriteOutput, Goto, decisions
<1>2. me \in Runs /\ me \in 1..lastRun /\ RunOf(me) = me /\ me \in AccountRuns /\ me # AfterRebase(me)
    BY <1>1, PlaceFacts, AccountFacts DEF Ledger, me, Runs
<1>3. Onward
    BY <1>1 DEF Onward, Deciding, Holding
<1>4. DecisionsKnown'
    BY <1>1, <1>3, KnownOnward DEF Memory, DecisionsKnown, Everywhere
<1>5. OutputKnown'
  <2>1. PICK a : a = me
      OBVIOUS
  <2>2. Known(a)' /\ output' = a /\ a # None
      BY <1>1, <1>2, <2>1 DEF Known, RunOf, me, AfterRebase, Runs
  <2> QED
      BY <2>2 DEF OutputKnown
<1>6. PendingKnown'
    BY <1>1, <1>2 DEF Memory, PendingKnown, Everywhere, me, RunOf
<1>7. InArchive'
    BY <1>1 DEF Memory, InArchive, SetAside, PendingKnown, Everywhere
<1>8. Untouched'
    BY <1>1 DEF Memory, Untouched, PreparedBy, me, RunOf, Restoring
<1> QED
    BY <1>1, <1>4, <1>5, <1>6, <1>7, <1>8 DEF Memory, Looking, Returned, OfSession, Restoring, Holding

LEMMA RebaseMemory ==
    ASSUME Ledger, Memory, Ledger', RebaseToDatapack, UNCHANGED killed
    PROVE  Memory'
<1>1. /\ pc = "check" /\ pc' = "decide"
      /\ UNCHANGED <<store, archive, voided, lastRun, facts, pending, superseded>>
      /\ output' = AfterRebase(me) /\ AfterRebase(me) \in AccountRuns /\ RunOf(AfterRebase(me)) = me
      /\ me # AfterRebase(me) /\ me \in 1..lastRun
      /\ Onward
    BY RebaseFacts DEF decisions
<1>2. DecisionsKnown'
    BY <1>1, KnownOnward DEF Memory, DecisionsKnown, Everywhere
<1>3. OutputKnown'
  <2>1. PICK a : a = AfterRebase(me)
      OBVIOUS
  <2>2. Known(a)' /\ output' = a /\ a # None
      BY <1>1, <2>1 DEF Known, RunOf, me, AfterRebase, AccountRuns
  <2> QED
      BY <2>2 DEF OutputKnown
<1>4. PendingKnown'
    BY <1>1 DEF Memory, PendingKnown, Everywhere, me, RunOf
<1>5. InArchive'
    BY <1>1 DEF Memory, InArchive
<1>6. Untouched'
  <2> SUFFICES ASSUME pending # NoPending, pending.decision \in archive
               PROVE  \E n \in 1..Len(chain') :
                        /\ PreparedBy(n, pending.account)'
                        /\ \A k \in 1..Len(chain') : k > n =>
                              chain'[k].decision = None /\ RunOf(chain'[k].run) = me
      BY <1>1 DEF Untouched, me, PreparedBy
  <2>1. PICK n \in 1..Len(chain) :
            /\ PreparedBy(n, pending.account)
            /\ \A k \in 1..Len(chain) : k > n => chain[k].decision = None /\ RunOf(chain[k].run) = me
      BY <1>1 DEF Memory, Untouched, Restoring
  <2>2. n \in 1..Len(chain') /\ PreparedBy(n, pending.account)'
      BY <1>1, <2>1, RebaseFacts DEF PreparedBy
  <2>3. ASSUME NEW k \in 1..Len(chain'), k > n
        PROVE  chain'[k].decision = None /\ RunOf(chain'[k].run) = me
    <3>1. CASE k \in 1..Len(chain)
        BY <2>1, <2>3, <3>1, RebaseFacts
    <3>2. CASE k = Len(chain) + 1 \/ k = Len(chain')
        BY <3>2, RebaseFacts
    <3> QED
        BY <3>1, <3>2, RebaseFacts
  <2> QED
      BY <2>2, <2>3
<1> QED
    BY <1>1, <1>2, <1>3, <1>4, <1>5, <1>6 DEF Memory, Looking, Returned, OfSession, Restoring, Holding

LEMMA SealFacts ==
    ASSUME Ledger, Memory, Seal
    PROVE  /\ pc = "decide" /\ pc' = "sealed" /\ me \in Runs /\ me \notin Everywhere
           /\ UNCHANGED <<world, chain, archive, voided, plan, snapshot, output, lastRun, local, byHand>>
           /\ store' = store \cup {me}
           /\ facts'[me] = [account |-> output, session |-> session, late |-> DeadlinePassed(session)]
           /\ \A d \in Everywhere : facts'[d] = facts[d]
           /\ session \in Sessions /\ Known(output) /\ RunOf(output) <= me
<1>1. /\ pc = "decide" /\ pc' = "sealed" /\ store' = store \cup {me}
      /\ UNCHANGED <<world, chain, archive, voided, plan, snapshot, output, lastRun, local, byHand>>
      /\ facts' = [facts EXCEPT ![me] = [account |-> output, session |-> session,
                                        late |-> DeadlinePassed(session)]]
    BY DEF Seal, Goto
<1>2. me \in Runs /\ me \notin Everywhere /\ session \in Sessions
    BY <1>1, PlaceFacts DEF Ledger, Places, Deciding, InHand, InASession
<1>3. Known(output)
    BY <1>1 DEF Memory, OutputKnown
<1>4. RunOf(output) <= me
    BY <1>3 DEF Known, me, Ledger, TypeOK, RunOK
<1>5. facts \in [Runs -> Facts] /\ Everywhere \subseteq Runs
    BY PlaceFacts DEF Ledger, TypeOK, BooksOK, Everywhere
<1> QED
    BY <1>1, <1>2, <1>3, <1>4, <1>5

LEMMA SealMemory ==
    ASSUME Ledger, Memory, Ledger', Seal
    PROVE  Memory'
<1>1. Onward
    BY SealFacts DEF Onward, Deciding, Holding
<1>2. Everywhere' = Everywhere \cup {me} /\ me' = me
    BY SealFacts DEF Everywhere, me
<1>3. DecisionsKnown'
  <2> SUFFICES ASSUME NEW d \in Everywhere', NEW a, a = facts'[d].account
               PROVE  Known(a)' /\ RunOf(a) <= d /\ facts'[d].session \in Sessions
      BY DEF DecisionsKnown, RunOf
  <2>1. CASE d \in Everywhere
      BY <1>1, <2>1, SealFacts, KnownOnward DEF Memory, DecisionsKnown
  <2>2. CASE d = me
      BY <1>1, <2>2, SealFacts, KnownOnward
  <2> QED
      BY <1>2, <2>1, <2>2
<1>4. OutputKnown'
    BY <1>1, SealFacts, KnownOnward DEF Memory, OutputKnown
<1>5. PendingKnown'
  <2> SUFFICES ASSUME pending # NoPending
               PROVE  PendingKnown'
      BY SealFacts DEF PendingKnown, local
  <2>1. RunOf(output) = me /\ RunOf(pending.account) # me
      BY SealFacts, PendingFacts DEF Memory, PendingKnown
  <2>2. facts'[me].account = output
      BY SealFacts
  <2>3. \A e \in store' : facts'[e].account = pending.account => e = pending.decision
    <3> SUFFICES ASSUME NEW e \in store', facts'[e].account = pending.account
                 PROVE  e = pending.decision
        OBVIOUS
    <3>1. e # me
        BY <2>1, <2>2
    <3>2. e \in store /\ e \in Everywhere
        BY <3>1, SealFacts DEF Everywhere
    <3> QED
        BY <3>2, SealFacts DEF Memory, PendingKnown
  <2>4. facts'[pending.decision].account = pending.account
      BY SealFacts, PendingFacts
  <2>5. pending' = pending
      BY SealFacts DEF local
  <2>6. pending.decision \in Everywhere' /\ pending.decision < me /\ RunOf(pending.account) < me
      BY <1>2 DEF Memory, PendingKnown
  <2> QED
      BY <1>2, <2>1, <2>2, <2>3, <2>4, <2>5, <2>6, SealFacts DEF PendingKnown, RunOf
<1>6. InArchive' /\ Untouched'
    BY SealFacts DEF Memory, InArchive, Untouched, PreparedBy, me, RunOf, local, Restoring
<1>7. OfSession'
    BY <1>2, SealFacts DEF OfSession, local
<1> QED
    BY <1>3, <1>4, <1>5, <1>6, <1>7, SealFacts DEF Memory, Looking, Returned, Restoring

\* Who was set aside and remembered made its decision on another account run.
LEMMA OlderFacts ==
    ASSUME Ledger, Memory, me \in store, pending # NoPending
    PROVE  pending.decision \notin Older
<1>1. RunOf(facts[me].account) = me /\ RunOf(pending.account) # me
    BY PendingFacts DEF Memory, PendingKnown
<1>2. facts[pending.decision].account # facts[me].account
    BY <1>1, PendingFacts
<1> QED
    BY <1>2 DEF Older, DecisionsOf

\* Decisions are moved, but not the one that is remembered.
LEMMA MovesMemory ==
    ASSUME Ledger, Memory, Ledger', Onward, UNCHANGED <<chain, facts, pending, output, superseded>>,
           Everywhere' = Everywhere, store' \subseteq store,
           pending # NoPending => (pending.decision \in archive' <=> pending.decision \in archive),
           pc' \notin {"data", "check", "decide", "putOutput"}, pc \notin Restoring => pc' \notin Restoring,
           pc # "putOutput", pc \in Restoring => pc' \in Restoring,
           pc' \in Holding => pc \in Holding /\ session' = session
    PROVE  Memory'
<1>1. DecisionsKnown' /\ OutputKnown'
    BY KnownOnward DEF Memory, DecisionsKnown, OutputKnown
<1>2. PendingKnown'
    BY DEF Memory, PendingKnown, Onward, me
<1>3. InArchive'
    BY DEF Memory, InArchive, Ledger, Found
<1>4. Untouched' /\ Returned'
    BY DEF Memory, Untouched, Returned, PreparedBy, Onward, me
<1> QED
    BY <1>1, <1>2, <1>3, <1>4 DEF Memory, Looking, OfSession, Onward, me

LEMMA DropNewMemory ==
    ASSUME Ledger, Memory, Ledger', RefuseLate \/ KeepUploaded \/ DiscardNew
    PROVE  Memory'
<1>1. /\ UNCHANGED <<chain, facts, voided, pending, output, superseded, lastRun>>
      /\ \/ pc \in {"sealed", "fresh"} /\ pc' = "ended"
         \/ pc = "discard" /\ pc' = "putBack"
      /\ store' \subseteq store
      /\ archive' = archive \/ archive' = archive \cup {me}
    BY DEF RefuseLate, KeepUploaded, DiscardNew, Goto, local
<1>2. Everywhere' = Everywhere
    BY DEF RefuseLate, KeepUploaded, DiscardNew, Everywhere, Ledger, Places, Holding
<1>3. pending # NoPending => (pending.decision \in archive' <=> pending.decision \in archive)
    BY <1>1, PendingFacts
<1>4. Onward
    BY <1>1 DEF Onward, Deciding, Holding
<1> QED
    BY <1>1, <1>2, <1>3, <1>4, MovesMemory DEF Restoring, Holding

LEMMA SupersedeMemory ==
    ASSUME Ledger, Memory, Ledger', SupersedeOlder
    PROVE  Memory'
<1>1. /\ UNCHANGED <<chain, facts, voided, pending, output, superseded, session, lastRun>>
      /\ pc = "fresh" /\ pc' = "export"
      /\ store' = store \ Older /\ archive' = archive \cup Older
    BY DEF SupersedeOlder, Goto, local
<1>2. Older \subseteq store /\ me \in store
    BY <1>1 DEF Older, DecisionsOf, Ledger, Places, Holding
<1>3. Everywhere' = Everywhere
    BY <1>1, <1>2 DEF Everywhere
<1>4. Onward
    BY <1>1 DEF Onward, Deciding, Holding
<1> QED
    BY <1>1, <1>2, <1>3, <1>4, OlderFacts, MovesMemory DEF Restoring, Holding

\* The account is taken back to where the decision waited, and what is taken
\* back settled nothing.
LEMMA RestoreBack ==
    ASSUME Ledger, Memory, RestoreLedger
    PROVE  /\ pending # NoPending /\ Len(chain') \in Nat /\ Len(chain') >= 1
           /\ chain'[Len(chain')].kind = "prepared" /\ chain'[Len(chain')].run = pending.account
           /\ chain' # chain => RunOf(head.run) = me
           /\ \A k \in 1..Len(chain) : k \in 1..Len(chain') \/ chain[k].decision = None
<1>1. pending # NoPending /\ pending.decision \in archive /\ pc = "ended"
    BY DEF RestoreLedger, Restorable, Ledger, Found
<1>2. PICK n \in 1..Len(chain) :
          /\ PreparedBy(n, pending.account)
          /\ \A k \in 1..Len(chain) : k > n => chain[k].decision = None /\ RunOf(chain[k].run) = me
    BY <1>1 DEF Memory, Untouched, Restoring
<1>3. /\ Len(chain) \in Nat /\ Len(chain) >= 1 /\ head = chain[Len(chain)] /\ Len(chain) \in 1..Len(chain)
    BY ChainFacts DEF Ledger, TypeOK
<1>4. RunOf(pending.account) # me
    BY <1>1, PendingFacts
<1>5. CASE ~LedgerMoved
  <2>1. head.run = pending.account /\ chain' = chain
      BY <1>5 DEF LedgerMoved, RestoreLedger
  <2>2. n = Len(chain)
      BY <1>2, <1>3, <1>4, <2>1
  <2> QED
      BY <1>1, <1>2, <1>3, <2>1, <2>2 DEF PreparedBy
<1>6. CASE LedgerMoved
  <2>1. head.run # pending.account /\ chain[Len(chain) - 1].run = pending.account
      BY <1>6 DEF LedgerMoved, RestoreLedger, Restorable
  <2>2. n # Len(chain)
      BY <1>2, <1>3, <2>1 DEF PreparedBy
  <2>3. n = Len(chain) - 1
    <3>1. Len(chain) - 1 \in 1..Len(chain)
        BY <1>2, <1>3, <2>2
    <3>2. ~(Len(chain) - 1 > n)
        BY <1>2, <1>4, <2>1, <3>1
    <3> QED
        BY <1>2, <1>3, <2>2, <3>2
  <2>4. chain' = Front(chain)
      BY <1>6 DEF RestoreLedger
  <2>5. /\ Len(chain') = Len(chain) - 1
        /\ \A i \in 1..Len(chain') : i \in 1..Len(chain) /\ chain'[i] = chain[i]
      BY <2>4, FrontFacts DEF Ledger, TypeOK, BooksOK
  <2>6. chain[Len(chain)].decision = None /\ RunOf(chain[Len(chain)].run) = me
      BY <1>2, <1>3, <2>3
  <2>7. chain'[n] = chain[n] /\ n = Len(chain')
      BY <1>2, <1>3, <2>3, <2>5
  <2>8. \A k \in 1..Len(chain) : k \in 1..Len(chain') \/ k = Len(chain)
      BY <1>3, <2>5
  <2> QED
      BY <1>1, <1>2, <1>3, <2>3, <2>6, <2>7, <2>8 DEF PreparedBy
<1> QED
    BY <1>5, <1>6

LEMMA RestoreMemory ==
    ASSUME Ledger, Memory, Ledger', RestoreLedger
    PROVE  Memory'
<1>1. /\ UNCHANGED <<facts, store, archive, voided, pending, output, superseded, lastRun>>
      /\ pc = "ended" /\ pc' = "discard"
    BY DEF RestoreLedger, Goto, local
<1>2. Onward
    BY <1>1 DEF Onward, Deciding, Holding
<1>3. DecisionsKnown' /\ OutputKnown'
    BY <1>1, <1>2, KnownOnward DEF Memory, DecisionsKnown, OutputKnown, Everywhere
<1>4. PendingKnown' /\ InArchive'
    BY <1>1 DEF Memory, PendingKnown, InArchive, Everywhere, me
<1>5. Returned'
    BY <1>1, RestoreBack DEF Returned, PreparedBy
<1> QED
    BY <1>1, <1>3, <1>4, <1>5 DEF Memory, Looking, Untouched, OfSession, Restoring, Holding

LEMMA PutBackMemory ==
    ASSUME Ledger, Memory, Ledger', PutBack
    PROVE  Memory'
<1>1. /\ UNCHANGED <<chain, facts, voided, pending, output, superseded, lastRun>>
      /\ pc = "putBack" /\ pc' = "putOutput"
      /\ store' = store \cup {pending.decision} /\ archive' = archive \ {pending.decision}
    BY DEF PutBack, Goto, local
<1>2. Onward /\ pending.decision \in archive
    BY <1>1 DEF Onward, Deciding, Holding, Ledger, Places
<1>3. Everywhere' = Everywhere
    BY <1>1, <1>2 DEF Everywhere
<1>4. DecisionsKnown' /\ OutputKnown'
    BY <1>1, <1>2, <1>3, KnownOnward DEF Memory, DecisionsKnown, OutputKnown
<1>5. PendingKnown'
    BY <1>1, <1>3, PendingFacts DEF Memory, PendingKnown, me
<1>6. Returned'
    BY <1>1 DEF Memory, Returned, PreparedBy, Restoring
<1> QED
    BY <1>1, <1>4, <1>5, <1>6 DEF Memory, Looking, InArchive, Untouched, OfSession, Restoring, Holding

LEMMA StutterMemory ==
    ASSUME Ledger, Memory, Ledger', UNCHANGED vars
    PROVE  Memory'
    BY MemorySame DEF vars, books, decisions, local, Onward

LEMMA NextMemory ==
    ASSUME Ledger, Memory, Ledger', [Next]_vars
    PROVE  Memory'
<1>1. CASE World \/ Crash \/ UNCHANGED vars
    BY <1>1, WorldMemory, EndMemory, StutterMemory
<1>2. CASE \E skips \in Skips : Begin(skips)
    BY <1>2, BeginMemory
<1>3. CASE \/ NothingToSettle \/ HeldUp \/ DataStageFails \/ Reconciled \/ Fail("check") \/ Fail("decide")
           \/ InTime \/ Export \/ ExportBlocked
    BY <1>3, GoesOnMemory
<1>4. CASE \E d \in Runs : SettleDecision(d) \/ VoidDecision(d) \/ SupersedeUnstarted(d)
    BY <1>4, LookMemory
<1>5. CASE Prepare \/ WriteOutput \/ (RebaseToDatapack /\ UNCHANGED killed) \/ Seal
    BY <1>5, PrepareMemory, WriteOutputMemory, RebaseMemory, SealMemory
<1>6. CASE RefuseLate \/ KeepUploaded \/ DiscardNew \/ SupersedeOlder \/ RestoreLedger \/ PutBack
    BY <1>6, DropNewMemory, SupersedeMemory, RestoreMemory, PutBackMemory
<1>7. CASE Finish \/ RestoreFails \/ PutOutput
    BY <1>7, EndMemory
<1> QED
    BY <1>1, <1>2, <1>3, <1>4, <1>5, <1>6, <1>7 DEF Next, Run

\* The second layer holds in every state.
THEOREM MemoryInvariant == Spec => [](Ledger /\ Memory)
<1>1. Init => Ledger /\ Memory
    BY InitLedger, InitMemory
<1>2. Ledger /\ Memory /\ [Next]_vars => (Ledger /\ Memory)'
    BY NextLedger, NextMemory
<1> QED
    BY <1>1, <1>2, PTL DEF Spec

-----------------------------------------------------------------------------
(* Order: the sessions the account has closed come before the session of   *)
(* any decision made on a later account run, so none is closed twice.      *)

CloseBefore ==
    \A j, k \in 1..Len(chain) : \A d \in Everywhere :
        j < k /\ chain[j].kind = "close" /\ PreparedBy(k, facts[d].account)
            => chain[j].session < facts[d].session

Ahead == pc = "decide" => \A j \in 1..Len(chain) : chain[j].kind = "close" => chain[j].session < session

Order == CloseBefore /\ Ahead /\ OneClosePerSession

LEMMA OrderSame ==
    ASSUME Ledger, Ledger', Order, Everywhere' = Everywhere, facts' = facts,
           \A k \in 1..Len(chain') : k \in 1..Len(chain) /\ chain'[k] = chain[k],
           pc' = "decide" => pc = "decide" /\ session' = session
    PROVE  Order'
<1>1. CloseBefore'
    BY DEF Order, CloseBefore, PreparedBy
<1>2. Ahead' /\ OneClosePerSession'
    BY DEF Order, Ahead, OneClosePerSession
<1> QED
    BY <1>1, <1>2 DEF Order

\* A session whose deadline is to come is later than all that are closed.
LEMMA SessionsToCome ==
    ASSUME Ledger, NEW s \in Sessions, now < Deadline(s), NEW j \in 1..Len(chain), chain[j].kind = "close"
    PROVE  chain[j].session < s
<1>1. chain[j].session \in Sessions /\ now >= CloseTime(chain[j].session) /\ now \in Nat
    BY SettledFacts DEF Ledger, PricesAfterClose, TypeOK, WorldOK
<1> QED
    BY <1>1 DEF CloseTime, Deadline, Sessions

\* A new account run, that no decision was made on.
LEMMA OrderGrows ==
    ASSUME Ledger, Memory, Ledger', Order, NEW a, ~Known(a), Everywhere' = Everywhere, facts' = facts,
           Len(chain) \in Nat, Len(chain') \in Nat,
           \A k \in 1..Len(chain) : chain'[k] = chain[k],
           \A k \in 1..Len(chain') : k \in 1..Len(chain) \/ (chain'[k].kind # "close" /\ chain'[k].run = a)
    PROVE  CloseBefore' /\ OneClosePerSession'
<1>1. CloseBefore'
  <2> SUFFICES ASSUME NEW j \in 1..Len(chain'), NEW k \in 1..Len(chain'), NEW d \in Everywhere,
                      j < k, chain'[j].kind = "close", chain'[k].kind = "prepared",
                      chain'[k].run = facts[d].account
               PROVE  chain'[j].session < facts[d].session
      BY DEF CloseBefore, PreparedBy
  <2>1. facts[d].account # a
      BY PlacedFacts
  <2>2. k \in 1..Len(chain) /\ j \in 1..Len(chain)
      BY <2>1
  <2> QED
      BY <2>2 DEF Order, CloseBefore, PreparedBy
<1>2. OneClosePerSession'
    BY DEF Order, OneClosePerSession
<1> QED
    BY <1>1, <1>2

LEMMA PrepareOrder ==
    ASSUME Ledger, Memory, Ledger', Order, Prepare
    PROVE  Order'
<1>1. PICK a : a = me
    OBVIOUS
<1>2. pc = "prepare" /\ pc' = "output" /\ UNCHANGED <<store, archive, voided, facts>>
    BY DEF Prepare, Goto, decisions
<1>3. ~Known(a)
    BY <1>1, <1>2 DEF Known
<1>4. /\ Len(chain) \in Nat /\ Len(chain') \in Nat
      /\ \A k \in 1..Len(chain) : chain'[k] = chain[k]
      /\ \A k \in 1..Len(chain') : k \in 1..Len(chain) \/ (chain'[k].kind # "close" /\ chain'[k].run = a)
    BY <1>1, PrepareFacts
<1>5. Everywhere' = Everywhere
    BY <1>2 DEF Everywhere
<1>6. CloseBefore' /\ OneClosePerSession'
    BY <1>2, <1>3, <1>4, <1>5, OrderGrows
<1> QED
    BY <1>2, <1>6 DEF Order, Ahead

LEMMA RebaseOrder ==
    ASSUME Ledger, Memory, Ledger', Order, RebaseToDatapack, UNCHANGED killed
    PROVE  Order'
<1>1. PICK a : a = AfterRebase(me)
    OBVIOUS
<1>2. /\ pc = "check" /\ UNCHANGED <<world, store, archive, voided, facts>>
      /\ session' \in Sessions /\ now < Deadline(session')
    BY RebaseFacts DEF decisions
<1>3. ~Known(a)
    BY <1>1, <1>2 DEF Known
<1>4. /\ Len(chain) \in Nat /\ Len(chain') \in Nat
      /\ \A k \in 1..Len(chain) : chain'[k] = chain[k]
      /\ \A k \in 1..Len(chain') : k \in 1..Len(chain) \/ (chain'[k].kind # "close" /\ chain'[k].run = a)
    BY <1>1, RebaseFacts
<1>5. Everywhere' = Everywhere
    BY <1>2 DEF Everywhere
<1>6. CloseBefore' /\ OneClosePerSession'
    BY <1>2, <1>3, <1>4, <1>5, OrderGrows
<1>7. Ahead'
    BY <1>2, <1>4, SessionsToCome DEF Ahead
<1> QED
    BY <1>6, <1>7 DEF Order

LEMMA ReconciledOrder ==
    ASSUME Ledger, Ledger', Order, Reconciled, UNCHANGED killed
    PROVE  Order'
<1>1. UNCHANGED <<world, chain, store, archive, voided, facts>>
    BY DEF Reconciled, InSession, decisions
<1>2. session' \in Sessions /\ now < Deadline(session')
    BY TargetType, SessionFacts DEF Reconciled
<1>3. Ahead'
    BY <1>1, <1>2, SessionsToCome DEF Ahead
<1>4. CloseBefore' /\ OneClosePerSession'
    BY <1>1 DEF Order, CloseBefore, OneClosePerSession, PreparedBy, Everywhere
<1> QED
    BY <1>3, <1>4 DEF Order

LEMMA SealOrder ==
    ASSUME Ledger, Memory, Ledger', Order, Seal
    PROVE  Order'
<1>1. Everywhere' = Everywhere \cup {me} /\ chain' = chain /\ pc' = "sealed"
    BY SealFacts DEF Everywhere
<1>2. CloseBefore'
  <2> SUFFICES ASSUME NEW j \in 1..Len(chain), NEW k \in 1..Len(chain), NEW d \in Everywhere \cup {me},
                      j < k, chain[j].kind = "close", chain[k].kind = "prepared",
                      chain[k].run = facts'[d].account
               PROVE  chain[j].session < facts'[d].session
      BY <1>1 DEF CloseBefore, PreparedBy
  <2>1. CASE d \in Everywhere
      BY <2>1, SealFacts DEF Order, CloseBefore, PreparedBy
  <2>2. CASE d = me
      BY <2>2, SealFacts DEF Order, Ahead
  <2> QED
      BY <2>1, <2>2
<1> QED
    BY <1>1, <1>2 DEF Order, Ahead, OneClosePerSession

LEMMA SettleOrder ==
    ASSUME Ledger, Memory, Ledger', Order, NEW d \in Runs, SettleDecision(d)
    PROVE  Order'
<1>1. UNCHANGED <<store, archive, voided, facts>> /\ pc' = "prepare"
    BY DEF SettleDecision, Advance, Goto
<1>2. /\ d \in Everywhere /\ PreparedBy(Len(chain), facts[d].account)
      /\ Len(chain) \in Nat /\ Len(chain) \in 1..Len(chain) /\ Len(chain') = Len(chain) + 1
    BY SettleFacts, WaitingFacts, ChainFacts DEF Ledger, TypeOK, Everywhere
<1>3. ASSUME NEW k \in 1..Len(chain')
      PROVE  \/ k \in 1..Len(chain) /\ chain'[k] = chain[k]
             \/ k = Len(chain) + 1 /\ chain'[k].kind = "close" /\ chain'[k].session = facts[d].session
    BY <1>2, SettleFacts
<1>4. ASSUME NEW j \in 1..Len(chain), chain[j].kind = "close"
      PROVE  chain[j].session < facts[d].session /\ chain[j].session \in Nat /\ facts[d].session \in Nat
  <2>1. j < Len(chain)
      BY <1>2, <1>4 DEF PreparedBy
  <2>2. chain[j].session \in Sessions /\ facts[d].session \in Sessions
      BY <1>2, <1>4, SettledFacts, PlacedFacts DEF Ledger, TypeOK, WorldOK
  <2> QED
      BY <1>2, <1>4, <2>1, <2>2 DEF Order, CloseBefore, Sessions
<1>5. CloseBefore'
  <2> SUFFICES ASSUME NEW j \in 1..Len(chain'), NEW k \in 1..Len(chain'), NEW e \in Everywhere,
                      j < k, chain'[j].kind = "close", chain'[k].kind = "prepared",
                      chain'[k].run = facts[e].account
               PROVE  chain'[j].session < facts[e].session
      BY <1>1 DEF CloseBefore, PreparedBy, Everywhere
  <2>1. k \in 1..Len(chain) /\ chain'[k] = chain[k]
      BY <1>3
  <2>2. j \in 1..Len(chain) /\ chain'[j] = chain[j]
      BY <1>2, <1>3, <2>1
  <2> QED
      BY <2>1, <2>2 DEF Order, CloseBefore, PreparedBy
<1>6. OneClosePerSession'
  <2> SUFFICES ASSUME NEW j \in 1..Len(chain'), NEW k \in 1..Len(chain'),
                      chain'[j].kind = "close", chain'[k].kind = "close", chain'[j].session = chain'[k].session
               PROVE  j = k
      BY DEF OneClosePerSession
  <2>1. CASE j \in 1..Len(chain) /\ chain'[j] = chain[j] /\ k \in 1..Len(chain) /\ chain'[k] = chain[k]
      BY <2>1 DEF Order, OneClosePerSession
  <2> QED
      BY <1>2, <1>3, <1>4, <2>1
<1> QED
    BY <1>1, <1>5, <1>6 DEF Order, Ahead

LEMMA RestoreOrder ==
    ASSUME Ledger, Ledger', Order, RestoreLedger
    PROVE  Order'
<1>1. UNCHANGED <<store, archive, voided, facts>> /\ pc' = "discard"
    BY DEF RestoreLedger, Goto
<1>2. \A k \in 1..Len(chain') : k \in 1..Len(chain) /\ chain'[k] = chain[k]
    BY RestoreFacts, ChainFacts DEF Ledger, TypeOK
<1> QED
    BY <1>1, <1>2, OrderSame DEF Everywhere

LEMMA OtherOrder ==
    ASSUME Ledger, Ledger', Order, chain' = chain, facts' = facts, Everywhere' = Everywhere,
           pc' = "decide" => pc = "decide" /\ session' = session
    PROVE  Order'
    BY OrderSame

\* Moving decisions about keeps them all.
LEMMA MovesKeep ==
    ASSUME Ledger,
           \/ \E d \in Runs : VoidDecision(d) \/ SupersedeUnstarted(d)
           \/ RefuseLate \/ SupersedeOlder \/ KeepUploaded \/ DiscardNew \/ PutBack
    PROVE  Everywhere' = Everywhere /\ chain' = chain /\ facts' = facts /\ pc' # "decide" /\ pc' # "idle"
<1>1. CASE \E d \in Runs : VoidDecision(d) \/ SupersedeUnstarted(d)
  <2>1. PICK d \in Runs : VoidDecision(d) \/ SupersedeUnstarted(d)
      BY <1>1
  <2>2. d \in store
      BY <2>1, WaitingFacts DEF VoidDecision, SupersedeUnstarted
  <2> QED
      BY <2>1, <2>2 DEF VoidDecision, SupersedeUnstarted, Advance, Goto, Everywhere
<1>2. CASE RefuseLate \/ KeepUploaded \/ DiscardNew
    BY <1>2 DEF RefuseLate, KeepUploaded, DiscardNew, Goto, Everywhere, Ledger, Places, Holding
<1>3. CASE SupersedeOlder
    BY <1>3 DEF SupersedeOlder, Goto, Older, DecisionsOf, Everywhere
<1>4. CASE PutBack
    BY <1>4 DEF PutBack, Goto, Everywhere, Ledger, Places
<1> QED
    BY <1>1, <1>2, <1>3, <1>4

LEMMA NextOrder ==
    ASSUME Ledger, Memory, Ledger', Order, [Next]_vars
    PROVE  Order'
<1>1. CASE World \/ Crash \/ UNCHANGED vars \/ \E skips \in Skips : Begin(skips)
  <2>1. chain' = chain /\ facts' = facts /\ Everywhere' = Everywhere
        /\ (pc' = "decide" => pc = "decide" /\ session' = session)
      BY <1>1 DEF World, Tick, Publish, CallOff, Crash, End, Begin, Goto, Everywhere, vars, books, decisions, local
  <2> QED
      BY <2>1, OtherOrder
<1>2. CASE \/ NothingToSettle \/ HeldUp \/ WriteOutput \/ DataStageFails \/ Fail("check") \/ Fail("decide")
           \/ InTime \/ Export \/ ExportBlocked
  <2>1. chain' = chain /\ facts' = facts /\ Everywhere' = Everywhere /\ pc' # "decide"
      BY <1>2 DEF NothingToSettle, HeldUp, Advance, WriteOutput, DataStageFails, Fail, InTime, Export,
                  ExportBlocked, Goto, Everywhere, books, decisions
  <2> QED
      BY <2>1, OtherOrder
<1>3. CASE Finish \/ RestoreFails \/ PutOutput
  <2>1. chain' = chain /\ facts' = facts /\ Everywhere' = Everywhere /\ pc' = "idle"
      BY <1>3 DEF Finish, RestoreFails, PutOutput, End, Everywhere, books, decisions
  <2> QED
      BY <2>1, OtherOrder
<1>4. CASE \/ \E d \in Runs : VoidDecision(d) \/ SupersedeUnstarted(d)
           \/ RefuseLate \/ SupersedeOlder \/ KeepUploaded \/ DiscardNew \/ PutBack
    BY <1>4, MovesKeep, OtherOrder
<1>5. CASE (\E d \in Runs : SettleDecision(d)) \/ Prepare \/ RestoreLedger
    BY <1>5, SettleOrder, PrepareOrder, RestoreOrder
<1>6. CASE (Reconciled \/ RebaseToDatapack \/ Seal) /\ UNCHANGED killed
    BY <1>6, ReconciledOrder, RebaseOrder, SealOrder
<1> QED
    BY <1>1, <1>2, <1>3, <1>4, <1>5, <1>6 DEF Next, Run

LEMMA InitOrder == Init => Order
<1> SUFFICES ASSUME Init PROVE Order
    OBVIOUS
<1>1. Len(chain) = 1 /\ pc = "idle"
    BY DEF Init
<1>2. \A j, k \in 1..Len(chain) : j = k
    BY <1>1
<1> QED
    BY <1>1, <1>2 DEF Order, CloseBefore, Ahead, OneClosePerSession

\* No two decisions are settled for one session, however runs skip the data
\* stage, fail, are killed or put a decision back.
THEOREM SessionsCloseOnce == Spec => []OneClosePerSession
<1>1. Init => Order
    BY InitOrder
<1>2. Ledger /\ Memory /\ Ledger' /\ Order /\ [Next]_vars => Order'
    BY NextOrder
<1>3. Order => OneClosePerSession
    BY DEF Order
<1> QED
    BY <1>1, <1>2, <1>3, MemoryInvariant, PTL DEF Spec

-----------------------------------------------------------------------------
(* Promises: no two decisions on one account run, and none that is late,   *)
(* but for the one that the run has just sealed and is about to judge.     *)

Timely ==
    /\ pc = "sealed" /\ facts[me].late => now >= Deadline(session)
    /\ ready => pc = "ended"

OneWaits ==
    ~killed => \A d, e \in store : facts[d].account = facts[e].account =>
        d = e \/ (pc \in {"sealed", "fresh"} /\ me \in {d, e})

LateRefused ==
    ~byHand /\ ~killed =>
        /\ \A d \in store : facts[d].late =>
              d = me /\ pc \in {"sealed", "ended", "discard"} /\ (pc = "ended" => superseded /\ ~ready)
        /\ pending # NoPending => ~facts[pending.decision].late

Promises == Timely /\ OneWaits /\ LateRefused

LEMMA InitPromises == Init => Promises
<1> SUFFICES ASSUME Init PROVE Promises
    OBVIOUS
<1>1. store = {} /\ pending = NoPending /\ pc = "idle" /\ ~ready
    BY DEF Init
<1> QED
    BY <1>1 DEF Promises, Timely, OneWaits, LateRefused

\* No decision is added, and the run is not where it judges one.
LEMMA FewerPromises ==
    ASSUME Promises, lastRun' = lastRun, facts' = facts, store' \subseteq store,
           killed => killed', byHand => byHand',
           pc \notin {"sealed", "fresh", "ended", "discard"} \/ me \notin store',
           pc' # "sealed", ready' => pc' = "ended",
           pending' = pending \/ pending' = NoPending
    PROVE  Promises'
<1>1. Timely'
    BY DEF Timely
<1>2. OneWaits'
    BY DEF Promises, OneWaits, me
<1>3. LateRefused'
    BY DEF Promises, LateRefused, me
<1> QED
    BY <1>1, <1>2, <1>3 DEF Promises

LEMMA WorldPromises ==
    ASSUME Ledger, Promises, World, UNCHANGED killed
    PROVE  Promises'
<1>1. UNCHANGED <<books, lastRun, pc, local, byHand, killed>> /\ now' >= now /\ now' \in Nat /\ now \in Nat
    BY DEF World, Tick, Publish, CallOff, Ledger, TypeOK, WorldOK
<1>2. Timely'
  <2>1. pc = "sealed" => Deadline(session) \in Int
      BY DEF Ledger, InHand, InASession, Deadline, Sessions
  <2>2. pc' = pc /\ ready' = ready /\ facts' = facts /\ session' = session /\ me' = me
      BY <1>1 DEF books, decisions, local, me
  <2>3. Deadline(session)' = Deadline(session)
      BY <2>2 DEF Deadline
  <2>4. pc = "sealed" /\ facts[me].late => now >= Deadline(session)
      BY DEF Promises, Timely
  <2> QED
      BY <1>1, <2>1, <2>2, <2>3, <2>4 DEF Promises, Timely
<1>3. OneWaits' /\ LateRefused'
    BY <1>1 DEF Promises, OneWaits, LateRefused, me, books, decisions, local
<1> QED
    BY <1>2, <1>3 DEF Promises

LEMMA BeginPromises ==
    ASSUME Ledger, Promises, NEW skips \in BOOLEAN, Begin(skips), UNCHANGED killed
    PROVE  Promises'
<1>1. /\ pc = "idle" /\ pc' \in {"data", "check", "ended"}
      /\ UNCHANGED <<facts, store, ready, byHand, killed>>
      /\ pending' # NoPending => pending'.decision \in Waiting
    BY BeginFacts DEF books, decisions
<1>2. pending' # NoPending => pending'.decision \in store
    BY <1>1 DEF Waiting, DecisionsOf
<1> QED
    BY <1>1, <1>2 DEF Promises, Timely, OneWaits, LateRefused

LEMMA DataPromises ==
    ASSUME Ledger, Promises, UNCHANGED killed,
           \/ NothingToSettle \/ HeldUp \/ Prepare \/ WriteOutput \/ DataStageFails
           \/ \E d \in Runs : SettleDecision(d) \/ VoidDecision(d) \/ SupersedeUnstarted(d)
    PROVE  Promises'
<1>1. CASE NothingToSettle \/ HeldUp \/ Prepare \/ WriteOutput \/ DataStageFails
  <2>1. /\ UNCHANGED <<lastRun, facts, store, pending, ready, byHand, killed>>
        /\ pc \in {"data", "prepare", "output"} /\ pc' \in {"prepare", "output", "check", "ended"}
      BY <1>1 DEF NothingToSettle, HeldUp, Advance, Prepare, WriteOutput, DataStageFails, Goto, decisions, local
  <2> QED
      BY <2>1, FewerPromises DEF Promises, Timely
<1>2. CASE \E d \in Runs : SettleDecision(d) \/ VoidDecision(d) \/ SupersedeUnstarted(d)
  <2>1. /\ UNCHANGED <<lastRun, facts, pending, ready, byHand, killed>>
        /\ store' \subseteq store /\ pc = "data" /\ pc' = "prepare"
      BY <1>2 DEF SettleDecision, VoidDecision, SupersedeUnstarted, Advance, Goto, local
  <2> QED
      BY <2>1, FewerPromises DEF Promises, Timely
<1> QED
    BY <1>1, <1>2

LEMMA CheckPromises ==
    ASSUME Ledger, Promises, UNCHANGED killed,
           Reconciled \/ RebaseToDatapack \/ Fail("check") \/ Fail("decide") \/ ExportBlocked \/ Export
    PROVE  Promises'
<1>1. /\ UNCHANGED <<lastRun, facts, store, pending, byHand, killed>>
      /\ pc \in {"check", "decide", "export"} /\ pc' \in {"decide", "ended"}
      /\ pc' = "ended" \/ ready' = ready
    BY DEF Reconciled, RebaseToDatapack, InSession, Fail, ExportBlocked, Export, Goto, books, decisions, local
<1> QED
    BY <1>1, FewerPromises DEF Promises, Timely

LEMMA SealPromises ==
    ASSUME Ledger, Memory, Promises, Seal, UNCHANGED killed
    PROVE  Promises'
<1>1. /\ pc = "decide" /\ pc' = "sealed" /\ me' = me /\ now' = now /\ session' = session
      /\ store' = store \cup {me} /\ UNCHANGED <<pending, ready, byHand, killed>>
      /\ \A d \in Everywhere : facts'[d] = facts[d]
      /\ facts'[me].late = DeadlinePassed(session) /\ session \in Sessions /\ now \in Nat
    BY SealFacts DEF local, world, me, Ledger, TypeOK, WorldOK
<1>2. Timely'
  <2>1. facts'[me].late => now >= Deadline(session)
      BY <1>1, DeadlineFacts
  <2> QED
      BY <1>1, <2>1 DEF Promises, Timely, Deadline
<1>3. \A d \in store : d \in Everywhere
    BY DEF Everywhere
<1>4. OneWaits'
    BY <1>1, <1>3 DEF Promises, OneWaits
<1>5. LateRefused'
    BY <1>1, <1>3, PendingFacts DEF Promises, LateRefused
<1> QED
    BY <1>2, <1>4, <1>5 DEF Promises

LEMMA InTimePromises ==
    ASSUME Ledger, Memory, Promises, InTime, UNCHANGED killed
    PROVE  Promises'
<1>1. /\ pc = "sealed" /\ pc' = "fresh" /\ ~DeadlinePassed(session) /\ me' = me
      /\ UNCHANGED <<store, facts, pending, ready, byHand, killed, superseded>>
    BY DEF InTime, Goto, books, decisions, local, me
<1>2. ~facts[me].late
  <2>1. session \in Sessions /\ now \in Nat
      BY <1>1 DEF Ledger, InHand, InASession, TypeOK, WorldOK
  <2>2. ~(now >= Deadline(session))
      BY <1>1, <2>1, DeadlineFacts
  <2> QED
      BY <1>1, <2>2 DEF Promises, Timely
<1>3. Timely' /\ OneWaits'
    BY <1>1 DEF Promises, Timely, OneWaits
<1>4. LateRefused'
    BY <1>1, <1>2 DEF Promises, LateRefused
<1> QED
    BY <1>3, <1>4 DEF Promises

\* A run that remembers a decision makes its own on its own account run.
LEMMA OnlyMine ==
    ASSUME Ledger, Memory, pending # NoPending, me \in store, NEW d \in store,
           facts[d].account = facts[me].account
    PROVE  d = me
<1>1. RunOf(facts[d].account) = me
    BY DEF Memory, PendingKnown
<1>2. d \in Everywhere
    BY DEF Everywhere
<1> QED
    BY <1>1, <1>2, PlacedFacts DEF me

LEMMA JudgePromises ==
    ASSUME Ledger, Memory, Promises, UNCHANGED killed,
           RefuseLate \/ SupersedeOlder \/ KeepUploaded
    PROVE  Promises'
<1>1. CASE KeepUploaded \/ (RefuseLate /\ ~superseded)
  <2>1. /\ UNCHANGED <<lastRun, facts, pending, ready, byHand, killed>>
        /\ store' = store \ {me} /\ pc' = "ended"
      BY <1>1 DEF KeepUploaded, RefuseLate, Goto, local
  <2> QED
      BY <2>1, FewerPromises
<1>2. CASE RefuseLate /\ superseded
  <2>1. /\ pc = "sealed" /\ pc' = "ended" /\ me' = me
        /\ UNCHANGED <<store, facts, pending, ready, byHand, killed, superseded>>
      BY <1>2 DEF RefuseLate, Goto, local, me
  <2>2. Timely'
      BY <2>1 DEF Promises, Timely
  <2>3. OneWaits'
    <3>1. pending # NoPending
        BY <1>2 DEF Ledger, Found
    <3> QED
        BY <2>1, <3>1, OnlyMine DEF Promises, OneWaits
  <2>4. LateRefused'
      BY <1>2, <2>1 DEF Promises, LateRefused, Timely
  <2> QED
      BY <2>2, <2>3, <2>4 DEF Promises
<1>3. CASE SupersedeOlder
  <2>1. /\ pc = "fresh" /\ pc' = "export" /\ me' = me /\ store' = store \ Older
        /\ UNCHANGED <<facts, pending, ready, byHand, killed, superseded>>
      BY <1>3 DEF SupersedeOlder, Goto, local, me
  <2>2. Timely'
      BY <2>1 DEF Promises, Timely
  <2>3. OneWaits'
      BY <2>1 DEF Promises, OneWaits, Older, DecisionsOf
  <2>4. LateRefused'
      BY <2>1 DEF Promises, LateRefused
  <2> QED
      BY <2>2, <2>3, <2>4 DEF Promises
<1> QED
    BY <1>1, <1>2, <1>3

LEMMA EndPromises ==
    ASSUME Ledger, Promises,
           ((Finish \/ RestoreFails \/ PutOutput) /\ UNCHANGED killed) \/ Crash
    PROVE  Promises'
<1>1. /\ End /\ UNCHANGED <<facts, store, lastRun>>
      /\ \/ pc = "ended" /\ ~(superseded /\ ~ready) /\ UNCHANGED <<byHand, killed>>
         \/ pc \in {"ended", "discard", "putBack", "putOutput"} /\ byHand' /\ UNCHANGED killed
         \/ pc = "putOutput" /\ UNCHANGED <<byHand, killed>>
         \/ killed'
    BY DEF Finish, RestoreFails, PutOutput, Crash, books, decisions
<1>2. pc' = "idle" /\ pending' = NoPending /\ ~ready'
    BY <1>1 DEF End
<1>3. Timely'
    BY <1>2 DEF Timely
<1>4. OneWaits'
    BY <1>1 DEF Promises, OneWaits
<1>5. LateRefused'
    BY <1>1, <1>2 DEF Promises, LateRefused
<1> QED
    BY <1>3, <1>4, <1>5 DEF Promises

LEMMA RestorePromises ==
    ASSUME Ledger, Memory, Promises, UNCHANGED killed,
           RestoreLedger \/ DiscardNew \/ PutBack
    PROVE  Promises'
<1>1. CASE RestoreLedger
  <2>1. /\ pc = "ended" /\ pc' = "discard" /\ me' = me /\ ~ready
        /\ UNCHANGED <<store, facts, pending, ready, byHand, killed>>
      BY <1>1 DEF RestoreLedger, Goto, local, me
  <2> QED
      BY <2>1 DEF Promises, Timely, OneWaits, LateRefused
<1>2. CASE DiscardNew
  <2>1. /\ UNCHANGED <<lastRun, facts, pending, ready, byHand, killed>>
        /\ store' = store \ {me} /\ pc = "discard" /\ pc' = "putBack"
      BY <1>2 DEF DiscardNew, Goto, local
  <2> QED
      BY <2>1, FewerPromises DEF Promises, Timely
<1>3. CASE PutBack
  <2>1. /\ pc = "putBack" /\ pc' = "putOutput"
        /\ UNCHANGED <<facts, pending, ready, byHand, killed>>
        /\ store' = store \cup {pending.decision}
      BY <1>3 DEF PutBack, Goto, local
  <2>2. pending # NoPending
      BY <2>1 DEF Memory, Returned, Restoring
  <2>3. /\ facts[pending.decision].account = pending.account
        /\ \A e \in store : facts[e].account = pending.account => e = pending.decision
      BY <2>2 DEF Memory, PendingKnown
  <2> QED
      BY <2>1, <2>2, <2>3 DEF Promises, Timely, OneWaits, LateRefused
<1> QED
    BY <1>1, <1>2, <1>3

LEMMA NextPromises ==
    ASSUME Ledger, Memory, Promises, [Next]_vars
    PROVE  Promises'
<1>1. CASE UNCHANGED vars
  <2>1. UNCHANGED <<now, session, ready, pc, facts, lastRun, store, killed, byHand, pending, superseded>>
      BY <1>1 DEF vars, world, books, decisions, local
  <2> QED
      BY <2>1 DEF Promises, Timely, OneWaits, LateRefused, me, Deadline
<1>2. CASE Crash \/ (World /\ UNCHANGED killed)
    BY <1>2, EndPromises, WorldPromises
<1>3. CASE Run /\ UNCHANGED killed
  <2>1. CASE \E skips \in Skips : Begin(skips)
      BY <1>3, <2>1, BeginPromises
  <2>2. CASE \/ NothingToSettle \/ HeldUp \/ Prepare \/ WriteOutput \/ DataStageFails
             \/ \E d \in Runs : SettleDecision(d) \/ VoidDecision(d) \/ SupersedeUnstarted(d)
      BY <1>3, <2>2, DataPromises
  <2>3. CASE Reconciled \/ RebaseToDatapack \/ Fail("check") \/ Fail("decide") \/ ExportBlocked \/ Export
      BY <1>3, <2>3, CheckPromises
  <2>4. CASE Seal \/ InTime \/ RefuseLate \/ SupersedeOlder \/ KeepUploaded
      BY <1>3, <2>4, SealPromises, InTimePromises, JudgePromises
  <2>5. CASE Finish \/ RestoreFails \/ PutOutput \/ RestoreLedger \/ DiscardNew \/ PutBack
      BY <1>3, <2>5, EndPromises, RestorePromises
  <2> QED
      BY <1>3, <2>1, <2>2, <2>3, <2>4, <2>5 DEF Run
<1> QED
    BY <1>1, <1>2, <1>3 DEF Next

\* The fourth layer holds in every state.
THEOREM PromisesInvariant == Spec => [](Ledger /\ Memory /\ Promises)
<1>1. Init => Promises
    BY InitPromises
<1>2. Ledger /\ Memory /\ Promises /\ [Next]_vars => Promises'
    BY NextPromises
<1> QED
    BY <1>1, <1>2, MemoryInvariant, PTL DEF Spec

\* Between runs no account snapshot has two decisions, as far as none was
\* killed: a later run always finds the one that waits.
THEOREM DecisionsAreOne == Spec => []OneDecision
<1>1. Promises => OneDecision
    BY DEF Promises, OneWaits, OneDecision
<1> QED
    BY <1>1, PromisesInvariant, PTL

\* Between runs the store holds no decision that was finished after its
\* deadline, as far as none was killed or left for a human.
THEOREM NoDecisionIsLate == Spec => []NoHindsight
<1>1. Promises => NoHindsight
    BY DEF Promises, LateRefused, NoHindsight
<1> QED
    BY <1>1, PromisesInvariant, PTL

-----------------------------------------------------------------------------
(* Plans.                                                                  *)

\* No session before s can still be decided for.
Missed(s, time) == \A u \in 1..(s - 1) : u \in closed \/ time >= Deadline(u)

\* A decision is for the first session that could be decided for.
FirstSession ==
    /\ \A d \in Everywhere : Missed(facts[d].session, now)
    /\ pc \in InASession => Missed(session, now)

\* The data a run works on, and what it keeps for putting back, is not of
\* later.
CutoffPassed ==
    /\ snapshot = NoSnapshot \/ snapshot.cutoff \in 0..now
    /\ backup = NoSnapshot \/ backup.cutoff \in 0..now
    /\ pc \in {"prepare", "output", "check"} => snapshot # NoSnapshot

Timing == FirstSession /\ CutoffPassed

\* When the data stage prepares, nothing waits any more.
Swept == pc = "prepare" => Waiting = {}

\* A plan is of a decision for its session; of the run under way only if that
\* says so.
PlanOfSession ==
    \A s \in Sessions : plan[s] # None =>
        /\ plan[s] \in Everywhere /\ facts[plan[s]].session = s
        /\ plan[s] = me /\ pc # "idle" => ready

\* Every decision was made on the account of its own daily run, as it is when
\* no run skips the data stage; no run was killed or needs a human.
OwnAccounts == \A d \in Everywhere : RunOf(facts[d].account) = d
Clean == ~byHand /\ ~killed /\ OwnAccounts

Stands(s) ==
    \/ plan[s] \in store /\ PreparedBy(Len(chain), facts[plan[s]].account)
    \/ \E k \in 1..Len(chain) : chain[k].kind = "close" /\ chain[k].decision = plan[s]

\* The plan's decision is set aside, and the run will decide for s or put it
\* back.
Aside(s) ==
    /\ pending # NoPending /\ plan[s] = pending.decision /\ pending.decision \in archive
    /\ ~ready /\ pc \in Labels \ {"idle", "data", "putOutput"}
    /\ pc \in {"prepare", "output"} \/ superseded
    /\ pc \in {"prepare", "output", "check"} =>
          snapshot # NoSnapshot /\ snapshot.cutoff < Deadline(s) /\ Missed(s, snapshot.cutoff)
    /\ pc \in InASession => session = s

Follow == Clean => \A s \in Sessions \ closed : plan[s] # None => Stands(s) \/ Aside(s)

Plans == Timing /\ Swept /\ PlanOfSession /\ Follow

-----------------------------------------------------------------------------
(* Timing.                                                                 *)

LEMMA MissedLater ==
    ASSUME NEW s \in Sessions, NEW t \in Nat, NEW u \in Nat, t <= u, Missed(s, t), closed \subseteq closed'
    PROVE  Missed(s, u) /\ Missed(s, u)'
<1>1. \A v \in 1..(s - 1) : Deadline(v) \in Int
    BY DEF Sessions, Deadline
<1>2. \A v \in 1..(s - 1) : v \in closed \/ u >= Deadline(v)
    BY <1>1 DEF Missed
<1> QED
    BY <1>2 DEF Missed, Deadline

LEMMA WorldGoesOn ==
    ASSUME Ledger, [Next]_vars
    PROVE  now \in Nat /\ now' \in Nat /\ now <= now' /\ closed \subseteq closed'
<1>1. now \in Nat
    BY DEF Ledger, TypeOK, WorldOK
<1>2. CASE World
    BY <1>1, <1>2 DEF World, Tick, Publish, CallOff
<1>3. CASE ~World
  <2>1. UNCHANGED <<now, closed>>
    <3>1. CASE Crash \/ UNCHANGED vars
        BY <3>1 DEF Crash, vars, world
    <3>2. CASE Run
        BY <3>2 DEF Run, Begin, NothingToSettle, HeldUp, SettleDecision, VoidDecision, SupersedeUnstarted,
                    Advance, Prepare, WriteOutput, DataStageFails, Reconciled, RebaseToDatapack, InSession,
                    Fail, Seal, InTime, RefuseLate, SupersedeOlder, KeepUploaded, Export, ExportBlocked,
                    Finish, RestoreLedger, RestoreFails, DiscardNew, PutBack, PutOutput, world
    <3> QED
        BY <1>3, <3>1, <3>2 DEF Next
  <2> QED
      BY <1>1, <2>1
<1> QED
    BY <1>2, <1>3

LEMMA TimingSame ==
    ASSUME Ledger, Memory, Timing, [Next]_vars, Everywhere' = Everywhere, \A d \in Everywhere : facts'[d] = facts[d],
           pc' \in InASession => pc \in InASession /\ session' = session,
           snapshot' \in {snapshot, backup} \/ (pc # "idle" /\ snapshot' = [run |-> me, cutoff |-> now]),
           backup' \in {backup, snapshot, NoSnapshot},
           pc' \in {"prepare", "output", "check"} => snapshot' # NoSnapshot
    PROVE  Timing'
<1>1. now \in Nat /\ now' \in Nat /\ now <= now' /\ closed \subseteq closed'
    BY WorldGoesOn
<1>2. FirstSession'
  <2>1. \A d \in Everywhere : Missed(facts[d].session, now)'
    <3> SUFFICES ASSUME NEW d \in Everywhere PROVE Missed(facts[d].session, now)'
        OBVIOUS
    <3>1. PICK s : s = facts[d].session
        OBVIOUS
    <3>2. PICK t : t = now'
        OBVIOUS
    <3>3. s \in Sessions /\ Missed(s, now)
        BY <3>1, PlacedFacts DEF Timing, FirstSession
    <3>4. Missed(s, t)'
        BY <1>1, <3>2, <3>3, MissedLater
    <3>5. facts'[d].session = s
        BY <3>1
    <3> QED
        BY <3>2, <3>4, <3>5 DEF Missed, Deadline
  <2>2. pc' \in InASession => Missed(session, now)'
    <3> SUFFICES ASSUME pc' \in InASession PROVE Missed(session, now)'
        OBVIOUS
    <3>1. PICK s : s = session
        OBVIOUS
    <3>2. PICK t : t = now'
        OBVIOUS
    <3>3. s \in Sessions /\ Missed(s, now) /\ session' = s
        BY <3>1 DEF Timing, FirstSession, Ledger, InHand
    <3>4. Missed(s, t)'
        BY <1>1, <3>2, <3>3, MissedLater
    <3> QED
        BY <3>2, <3>3, <3>4 DEF Missed, Deadline
  <2> QED
      BY <2>1, <2>2 DEF FirstSession, Missed, Deadline
<1>3. CutoffPassed'
    BY <1>1 DEF Timing, CutoffPassed, NoSnapshot
<1> QED
    BY <1>2, <1>3 DEF Timing

LEMMA ChosenSession ==
    ASSUME Ledger, Timing, Reconciled \/ RebaseToDatapack, UNCHANGED killed
    PROVE  /\ pc = "check" /\ pc' = "decide" /\ snapshot # NoSnapshot
           /\ snapshot.cutoff \in Nat /\ snapshot.cutoff <= now /\ now \in Nat
           /\ session' = Target(snapshot.cutoff) /\ session' \in Sessions \ closed
           /\ UNCHANGED <<now, closed>>
           /\ \A s \in Sessions \ closed : snapshot.cutoff < Deadline(s) => session' <= s
           /\ snapshot.cutoff < Deadline(session')
<1>1. InSession(Target(snapshot.cutoff))
    BY DEF Reconciled, RebaseToDatapack
<1>2. pc = "check" /\ pc' = "decide" /\ session' = Target(snapshot.cutoff) /\ UNCHANGED <<now, closed>>
    BY <1>1 DEF InSession, Goto, world
<1>3. now \in Nat /\ snapshot # NoSnapshot /\ snapshot.cutoff \in Nat /\ snapshot.cutoff <= now
    BY <1>2 DEF Timing, CutoffPassed, Ledger, TypeOK, WorldOK
<1>4. Target(snapshot.cutoff) # None
    BY <1>1 DEF InSession, DeadlinePassed
<1> QED
    BY <1>2, <1>3, <1>4, TargetFacts

LEMMA ChooseTiming ==
    ASSUME Ledger, Memory, Timing, Reconciled \/ RebaseToDatapack, UNCHANGED killed
    PROVE  Timing'
<1>1. UNCHANGED <<decisions, snapshot, backup>>
    BY DEF Reconciled, RebaseToDatapack, InSession
<1>2. FirstSession'
  <2>1. \A d \in Everywhere : Missed(facts[d].session, now)'
    BY <1>1, ChosenSession DEF Timing, FirstSession, Missed, decisions, Deadline
  <2>2. PICK s : s = session'
      OBVIOUS
  <2>3. s \in Sessions /\ s \in Nat
      BY <2>2, ChosenSession DEF Sessions
  <2>4. ASSUME NEW u \in 1..(s - 1), u \notin closed
        PROVE  now >= Deadline(u)
    <3>1. u \in Sessions /\ u < s /\ Deadline(u) \in Int
        BY <2>3 DEF Sessions, Deadline
    <3>2. ~(snapshot.cutoff < Deadline(u))
        BY <2>2, <2>3, <2>4, <3>1, ChosenSession
    <3> QED
        BY <3>1, <3>2, ChosenSession
  <2>5. Missed(s, now)'
      BY <2>4, ChosenSession DEF Missed, Deadline
  <2>6. Missed(session, now)'
      BY <2>2, <2>5 DEF Missed, Deadline
  <2> QED
      BY <1>1, <2>1, <2>6 DEF FirstSession, Everywhere, decisions
<1>3. CutoffPassed'
    BY <1>1, ChosenSession DEF Timing, CutoffPassed
<1> QED
    BY <1>2, <1>3 DEF Timing

LEMMA SealTiming ==
    ASSUME Ledger, Memory, Timing, Seal
    PROVE  Timing'
<1>1. Missed(session, now) /\ \A d \in Everywhere : Missed(facts[d].session, now)
    BY SealFacts DEF Timing, FirstSession, InASession
<1>2. \A d \in Everywhere' : d = me \/ d \in Everywhere
    BY SealFacts DEF Everywhere
<1>3. UNCHANGED <<now, closed, session, snapshot, backup>> /\ pc' = "sealed"
      /\ facts'[me].session = session /\ \A d \in Everywhere : facts'[d] = facts[d]
    BY SealFacts DEF world, local
<1>4. FirstSession'
    BY <1>1, <1>2, <1>3 DEF FirstSession, Missed, Deadline
<1>5. CutoffPassed'
    BY <1>3 DEF Timing, CutoffPassed
<1> QED
    BY <1>4, <1>5 DEF Timing

LEMMA NextTiming ==
    ASSUME Ledger, Memory, Timing, [Next]_vars
    PROVE  Timing'
<1> DEFINE Quiet == Everywhere' = Everywhere /\ \A d \in Everywhere : facts'[d] = facts[d]
           OfBefore == pc' \in InASession => pc \in InASession /\ session' = session
           Snapshotted == /\ \/ snapshot' \in {snapshot, backup}
                             \/ pc # "idle" /\ snapshot' = [run |-> me, cutoff |-> now]
                          /\ backup' \in {backup, snapshot, NoSnapshot}
                          /\ pc' \in {"prepare", "output", "check"} => snapshot' # NoSnapshot
<1>1. Quiet /\ OfBefore /\ Snapshotted => Timing'
    BY TimingSame
<1>2. CASE World \/ Crash \/ UNCHANGED vars
  <2>1. UNCHANGED <<books, lastRun>> /\ (UNCHANGED <<pc, local>> \/ End)
      BY <1>2 DEF World, Tick, Publish, CallOff, Crash, vars
  <2> QED
      BY <1>1, <2>1 DEF books, decisions, local, Everywhere, End, InASession, Timing, CutoffPassed
<1>3. CASE \E skips \in Skips : Begin(skips)
  <2>1. UNCHANGED books /\ pc' \in {"data", "check", "ended"} /\ backup' \in {snapshot, NoSnapshot}
      BY <1>3, BeginFacts
  <2>2. pc' = "check" => snapshot # NoSnapshot
      BY <1>3 DEF Begin, Goto
  <2> QED
      BY <1>1, <2>1, <2>2 DEF books, decisions, Everywhere, InASession
<1>4. CASE NothingToSettle \/ HeldUp \/ \E d \in Runs : SettleDecision(d) \/ VoidDecision(d) \/ SupersedeUnstarted(d)
  <2>1. /\ pc = "data" /\ pc' \in {"prepare", "ended"} /\ snapshot' = [run |-> me, cutoff |-> now]
        /\ backup' = backup
        /\ facts' = facts
      BY <1>4 DEF NothingToSettle, HeldUp, SettleDecision, VoidDecision, SupersedeUnstarted, Advance, Goto, local
  <2>2. Everywhere' = Everywhere
    <3>1. CASE \E d \in Runs : VoidDecision(d) \/ SupersedeUnstarted(d)
        BY <3>1, MovesKeep
    <3>2. CASE NothingToSettle \/ HeldUp \/ \E d \in Runs : SettleDecision(d)
        BY <3>2 DEF NothingToSettle, HeldUp, SettleDecision, Everywhere
    <3> QED
        BY <1>4, <3>1, <3>2
  <2>3. me # None
      BY <2>1, PlaceFacts DEF Ledger, Runs
  <2> QED
      BY <1>1, <2>1, <2>2, <2>3 DEF InASession, NoSnapshot
<1>5. CASE \/ Prepare \/ WriteOutput \/ DataStageFails \/ Fail("check") \/ Fail("decide")
           \/ InTime \/ Export \/ ExportBlocked
  <2>1. /\ UNCHANGED <<decisions, backup, session>>
        /\ snapshot' = snapshot \/ (pc = "data" /\ snapshot' = [run |-> me, cutoff |-> now])
        /\ \/ pc = "prepare" /\ pc' = "output"
           \/ pc = "output" /\ pc' = "check"
           \/ pc' = "ended"
           \/ pc = "sealed" /\ pc' = "fresh"
        /\ pc' = "output" \/ pc' = "check" => snapshot' = snapshot
      BY <1>5 DEF Prepare, WriteOutput, DataStageFails, Fail, InTime, Export, ExportBlocked, Goto,
                  books, decisions, local
  <2> QED
      BY <1>1, <2>1 DEF decisions, Everywhere, InASession, Timing, CutoffPassed
<1>6. CASE Finish \/ RestoreFails \/ PutOutput
  <2>1. UNCHANGED decisions /\ snapshot' \in {snapshot, backup} /\ End
      BY <1>6 DEF Finish, RestoreFails, PutOutput, books
  <2> QED
      BY <1>1, <2>1 DEF decisions, Everywhere, End, InASession
<1>7. CASE RestoreLedger \/ RefuseLate \/ SupersedeOlder \/ KeepUploaded \/ DiscardNew \/ PutBack
  <2>1. /\ UNCHANGED <<facts, snapshot, backup, session>>
        /\ pc' \in InASession => pc \in InASession
        /\ pc' \notin {"prepare", "output", "check"}
      BY <1>7 DEF RestoreLedger, RefuseLate, SupersedeOlder, KeepUploaded, DiscardNew, PutBack, Goto, local,
                  InASession
  <2>2. Everywhere' = Everywhere
      BY <1>7, MovesKeep DEF RestoreLedger, Everywhere
  <2> QED
      BY <1>1, <2>1, <2>2
<1>8. CASE (Reconciled \/ RebaseToDatapack \/ Seal) /\ UNCHANGED killed
    BY <1>8, ChooseTiming, SealTiming
<1> QED
    BY <1>2, <1>3, <1>4, <1>5, <1>6, <1>7, <1>8 DEF Next, Run

LEMMA NextSwept ==
    ASSUME Ledger, Memory, Swept, [Next]_vars
    PROVE  Swept'
<1> SUFFICES ASSUME pc' = "prepare" PROVE Waiting' = {}
    BY DEF Swept
<1>1. CASE UNCHANGED <<chain, store, facts, pc>>
    BY <1>1 DEF Swept, Waiting, DecisionsOf, head
<1>2. CASE NothingToSettle
    BY <1>2 DEF NothingToSettle, Advance, Waiting, DecisionsOf, head
<1>3. CASE \E d \in Runs : SettleDecision(d)
  <2>1. head' = chain'[Len(chain')]
      BY DEF head, Last
  <2>2. head'.kind = "close"
      BY <1>3, <2>1, SettleFacts
  <2> QED
      BY <2>2 DEF Waiting
<1>4. CASE \E d \in Runs : VoidDecision(d) \/ SupersedeUnstarted(d)
  <2>1. PICK d \in Runs : VoidDecision(d) \/ SupersedeUnstarted(d)
      BY <1>4
  <2>2. Waiting = {d} /\ store' = store \ {d} /\ chain' = chain /\ facts' = facts
      BY <2>1 DEF VoidDecision, SupersedeUnstarted, Advance
  <2>3. Waiting' = Waiting \ {d}
      BY <2>2 DEF Waiting, DecisionsOf, head
  <2> QED
      BY <2>2, <2>3
<1>5. CASE ~(\/ NothingToSettle \/ \E d \in Runs : SettleDecision(d) \/ VoidDecision(d) \/ SupersedeUnstarted(d))
  <2>1. UNCHANGED <<chain, store, facts, pc>>
    <3>1. CASE World \/ UNCHANGED vars
        BY <3>1 DEF World, Tick, Publish, CallOff, vars, books, decisions
    <3>2. CASE Run
        BY <1>5, <3>2 DEF Run, Begin, HeldUp, Prepare, WriteOutput, DataStageFails, Reconciled,
                    RebaseToDatapack, InSession, Fail, Seal, InTime, RefuseLate, SupersedeOlder, KeepUploaded,
                    Export, ExportBlocked, Finish, RestoreLedger, RestoreFails, DiscardNew, PutBack, PutOutput,
                    Goto, End
    <3>3. ~Crash
        BY DEF Crash, End
    <3> QED
        BY <3>1, <3>2, <3>3 DEF Next
  <2> QED
      BY <1>1, <2>1
<1> QED
    BY <1>2, <1>3, <1>4, <1>5

-----------------------------------------------------------------------------
(* The plans and the decisions they are of.                                *)

\* Decisions move about, but none is lost or changed; and what a human must
\* mend stays so.
LEMMA DecisionsRemain ==
    ASSUME Ledger, Memory, [Next]_vars
    PROVE  /\ Everywhere \subseteq Everywhere' /\ \A d \in Everywhere : facts'[d] = facts[d]
           /\ (byHand => byHand') /\ (killed => killed')
           /\ Clean' => Clean
<1>1. Everywhere \subseteq Everywhere' /\ \A d \in Everywhere : facts'[d] = facts[d]
  <2>1. CASE \/ \E d \in Runs : VoidDecision(d) \/ SupersedeUnstarted(d)
             \/ RefuseLate \/ SupersedeOlder \/ KeepUploaded \/ DiscardNew \/ PutBack
      BY <2>1, MovesKeep
  <2>2. CASE Seal
      BY <2>2, SealFacts DEF Everywhere
  <2>3. CASE World \/ Crash \/ UNCHANGED vars
      BY <2>3 DEF World, Tick, Publish, CallOff, Crash, vars, books, decisions, Everywhere
  <2>4. CASE Run /\ ~Seal /\ ~(\/ \E d \in Runs : VoidDecision(d) \/ SupersedeUnstarted(d)
             \/ RefuseLate \/ SupersedeOlder \/ KeepUploaded \/ DiscardNew \/ PutBack)
      BY <2>4 DEF Run, Begin, NothingToSettle, HeldUp, SettleDecision, Advance, Prepare, WriteOutput,
                  DataStageFails, Reconciled, RebaseToDatapack, InSession, Fail, InTime, Export, ExportBlocked,
                  Finish, RestoreLedger, RestoreFails, PutOutput, Everywhere, books, decisions
  <2> QED
      BY <2>1, <2>2, <2>3, <2>4 DEF Next
<1>2. byHand => byHand'
  <2>1. CASE World \/ Crash \/ UNCHANGED vars
      BY <2>1 DEF World, Tick, Publish, CallOff, Crash, vars
  <2>2. CASE Run
      BY <2>2 DEF Run, Begin, NothingToSettle, HeldUp, SettleDecision, VoidDecision, SupersedeUnstarted,
                  Advance, Prepare, WriteOutput, DataStageFails, Reconciled, RebaseToDatapack, InSession,
                  Fail, Seal, InTime, RefuseLate, SupersedeOlder, KeepUploaded, Export, ExportBlocked,
                  Finish, RestoreLedger, RestoreFails, DiscardNew, PutBack, PutOutput
  <2> QED
      BY <2>1, <2>2 DEF Next
<1>3. killed => killed'
    BY DEF Next, Crash, vars
<1>4. Clean' => Clean
    BY <1>1, <1>2, <1>3 DEF Clean, OwnAccounts
<1> QED
    BY <1>1, <1>2, <1>3, <1>4

LEMMA PlanKept ==
    ASSUME Ledger, Memory, PlanOfSession, [Next]_vars, plan' = plan,
           pc' = "idle" \/ (pc # "idle" /\ lastRun' = lastRun /\ (ready => ready'))
    PROVE  PlanOfSession'
    BY DecisionsRemain DEF PlanOfSession, me

LEMMA NextPlanOfSession ==
    ASSUME Ledger, Memory, PlanOfSession, [Next]_vars
    PROVE  PlanOfSession'
<1>1. CASE World \/ Crash \/ UNCHANGED vars
    BY <1>1, PlanKept DEF World, Tick, Publish, CallOff, Crash, End, vars, books, local
<1>2. CASE \E skips \in Skips : Begin(skips)
  <2>1. lastRun' = lastRun + 1 /\ lastRun \in Nat /\ UNCHANGED books
      BY <1>2, BeginFacts
  <2>2. \A d \in Everywhere : d # lastRun'
      BY <2>1, PlacedFacts
  <2> QED
      BY <2>1, <2>2 DEF PlanOfSession, Everywhere, books, decisions, me
<1>3. CASE Export
  <2>1. /\ pc = "export" /\ plan' = [plan EXCEPT ![session] = me] /\ ready'
        /\ UNCHANGED <<store, archive, voided, facts, lastRun>>
      BY <1>3 DEF Export
  <2>2. me \in store /\ session \in Sessions /\ facts[me].session = session
      BY <2>1 DEF Ledger, Places, InHand, InASession, Holding, Memory, OfSession
  <2>3. plan'[session] = me /\ \A s \in Sessions : s # session => plan'[s] = plan[s]
      BY <2>1, <2>2 DEF Ledger, TypeOK, BooksOK
  <2> QED
      BY <2>1, <2>2, <2>3 DEF PlanOfSession, Everywhere, me
<1>4. CASE Run /\ ~Export /\ ~\E skips \in Skips : Begin(skips)
  <2>1. plan' = plan
      BY <1>4 DEF Run, NothingToSettle, HeldUp, SettleDecision, VoidDecision, SupersedeUnstarted,
                  Advance, Prepare, WriteOutput, DataStageFails, Reconciled, RebaseToDatapack, InSession,
                  Fail, Seal, InTime, RefuseLate, SupersedeOlder, KeepUploaded, ExportBlocked,
                  Finish, RestoreLedger, RestoreFails, DiscardNew, PutBack, PutOutput, books
  <2>2. pc' = "idle" \/ (pc # "idle" /\ lastRun' = lastRun /\ ready' = ready)
      BY <1>4 DEF Run, NothingToSettle, HeldUp, SettleDecision, VoidDecision, SupersedeUnstarted,
                  Advance, Prepare, WriteOutput, DataStageFails, Reconciled, RebaseToDatapack, InSession,
                  Fail, Seal, InTime, RefuseLate, SupersedeOlder, KeepUploaded, ExportBlocked,
                  Finish, RestoreLedger, RestoreFails, DiscardNew, PutBack, PutOutput, End, local
  <2> QED
      BY <2>1, <2>2, PlanKept
<1> QED
    BY <1>1, <1>2, <1>3, <1>4 DEF Next

-----------------------------------------------------------------------------
(* Follow: what steps of one kind have in common.                          *)

\* What a step must show: what stood stands or is set aside, what was aside
\* stands again or stays so.
LEMMA FollowStep ==
    ASSUME Ledger, Memory, [Next]_vars, Follow, plan' = plan,
           \A s \in Sessions \ closed' : Clean' /\ plan[s] # None /\ (Stands(s) \/ Aside(s))
               => Stands(s)' \/ Aside(s)'
    PROVE  Follow'
    BY DecisionsRemain, WorldGoesOn DEF Follow

LEMMA StandsOn ==
    ASSUME Ledger, Memory, PlanOfSession, [Next]_vars, plan' = plan, chain' = chain,
           NEW s \in Sessions, plan[s] # None, Stands(s), plan[s] \in store => plan[s] \in store'
    PROVE  Stands(s)'
    BY DecisionsRemain DEF Stands, PlanOfSession, PreparedBy

\* When nothing waits, what stands was settled.
LEMMA StandsSettled ==
    ASSUME Ledger, Memory, PlanOfSession, [Next]_vars, plan' = plan,
           NEW s \in Sessions, plan[s] # None, Stands(s), plan[s] \notin Waiting,
           Len(chain) \in Nat, Len(chain') \in Nat, Len(chain) <= Len(chain'),
           \A k \in 1..Len(chain) : chain'[k] = chain[k]
    PROVE  Stands(s)'
<1>1. ~(plan[s] \in store /\ PreparedBy(Len(chain), facts[plan[s]].account))
    BY DEF Waiting, DecisionsOf, PreparedBy, head, Last
<1>2. PICK k \in 1..Len(chain) : chain[k].kind = "close" /\ chain[k].decision = plan[s]
    BY <1>1 DEF Stands
<1>3. k \in 1..Len(chain') /\ chain'[k].kind = "close" /\ chain'[k].decision = plan[s]
    BY <1>2
<1> QED
    BY <1>3 DEF Stands

LEMMA AsideOn ==
    ASSUME NEW s \in Sessions, Aside(s), UNCHANGED <<plan, pending, snapshot>>, ~ready', closed \subseteq closed',
           pc' \in Labels \ {"idle", "data", "putOutput"},
           pending.decision \in archive', superseded' \/ pc' \in {"prepare", "output"},
           pc' \in {"prepare", "output", "check"} => pc \in {"prepare", "output", "check"},
           pc' \in InASession => session' = s
    PROVE  Aside(s)'
<1>1. pc' \in {"prepare", "output", "check"} =>
          snapshot # NoSnapshot /\ snapshot.cutoff < Deadline(s) /\ Missed(s, snapshot.cutoff)
    BY DEF Aside
<1>2. pc' \in {"prepare", "output", "check"} => Missed(s, snapshot.cutoff)'
    BY <1>1 DEF Missed, Deadline
<1> QED
    BY <1>1, <1>2 DEF Aside, Deadline

\* A step that leaves the account and the decisions where they are.
LEMMA FollowQuiet ==
    ASSUME Ledger, Memory, PlanOfSession, [Next]_vars, Follow, UNCHANGED <<chain, store, plan>>,
           \A s \in Sessions \ closed' : Aside(s) => Aside(s)'
    PROVE  Follow'
    BY FollowStep, StandsOn

LEMMA WorldFollow ==
    ASSUME Ledger, Memory, PlanOfSession, [Next]_vars, Follow, World
    PROVE  Follow'
<1>1. UNCHANGED <<books, pc, local>>
    BY DEF World, Tick, Publish, CallOff
<1>2. ASSUME NEW s \in Sessions, Aside(s)
      PROVE  Aside(s)'
    BY <1>1, <1>2, AsideOn, WorldGoesOn DEF Aside, books, decisions, local
<1> QED
    BY <1>1, <1>2, FollowQuiet DEF books, decisions

\* At the end of a run, in its data stage before it looked and after it put
\* everything back, nothing is set aside.
LEMMA NoneAsideFollow ==
    ASSUME Ledger, Memory, PlanOfSession, [Next]_vars, Follow, UNCHANGED <<chain, store, plan>>,
           pc \in {"idle", "data", "putOutput"} \/ (pc = "ended" /\ ~(superseded /\ ~ready))
    PROVE  Follow'
<1>1. \A s \in Sessions : ~Aside(s)
    BY DEF Aside
<1> QED
    BY <1>1, FollowQuiet

-----------------------------------------------------------------------------
(* Follow: the data stage.                                                 *)

LEMMA SettleFollow ==
    ASSUME Ledger, Memory, PlanOfSession, [Next]_vars, Follow, NEW d \in Runs, SettleDecision(d)
    PROVE  Follow'
<1>1. Waiting = {d} /\ pc = "data" /\ plan' = plan
    BY DEF SettleDecision, Advance
<1>2. chain'[Len(chain')].kind = "close" /\ chain'[Len(chain')].decision = d
      /\ Len(chain') \in 1..Len(chain') /\ Len(chain') = Len(chain) + 1
      /\ Len(chain) \in Nat /\ \A k \in 1..Len(chain) : chain'[k] = chain[k]
    BY SettleFacts
<1>3. ASSUME NEW s \in Sessions, plan[s] # None, Stands(s)
      PROVE  Stands(s)'
  <2>1. CASE plan[s] = d
      BY <1>1, <1>2, <2>1 DEF Stands
  <2>2. CASE plan[s] # d
    <3>1. plan[s] \notin Waiting /\ Len(chain) <= Len(chain') /\ Len(chain') \in Nat
        BY <1>1, <1>2, <2>2
    <3> QED
        BY <1>1, <1>2, <1>3, <3>1, StandsSettled
  <2> QED
      BY <2>1, <2>2
<1> QED
    BY <1>1, <1>3, FollowStep DEF Aside

LEMMA VoidFollow ==
    ASSUME Ledger, Memory, PlanOfSession, [Next]_vars, Follow, NEW d \in Runs, VoidDecision(d)
    PROVE  Follow'
<1>1. /\ pc = "data" /\ UNCHANGED <<plan, chain>> /\ store' = store \ {d}
      /\ facts[d].session \in closed
    BY DEF VoidDecision, Advance
<1>2. ASSUME NEW s \in Sessions \ closed', plan[s] # None, Stands(s)
      PROVE  Stands(s)'
  <2>1. plan[s] # d
      BY <1>1, <1>2, WorldGoesOn DEF PlanOfSession
  <2> QED
      BY <1>1, <1>2, <2>1, StandsOn
<1> QED
    BY <1>1, <1>2, FollowStep DEF Aside

LEMMA SupersedeFollow ==
    ASSUME Ledger, Memory, Timely, Timing, PlanOfSession, [Next]_vars, Follow,
           NEW d \in Runs, SupersedeUnstarted(d)
    PROVE  Follow'
<1>1. /\ pc = "data" /\ pc' = "prepare" /\ UNCHANGED <<plan, chain, pending, ready, now, closed>>
      /\ store' = store \ {d} /\ archive' = archive \cup {d} /\ Waiting = {d}
      /\ snapshot' = [run |-> me, cutoff |-> now] /\ now < Deadline(facts[d].session)
    BY DEF SupersedeUnstarted, Unstarted, Advance, Goto, world, local
<1>2. ~ready /\ pending # NoPending /\ pending.decision = d
  <2>1. pending # NoPending /\ pending.decision \in store /\ PreparedBy(Len(chain), pending.account)
      BY <1>1 DEF Memory, Looking
  <2>2. pending.decision \in Waiting
      BY <2>1, PendingFacts DEF Waiting, DecisionsOf, PreparedBy, head, Last
  <2> QED
      BY <1>1, <2>1, <2>2 DEF Timely
<1>3. ASSUME NEW s \in Sessions \ closed', plan[s] = d, plan[s] # None
      PROVE  Aside(s)'
  <2>1. facts[d].session = s /\ d \in Everywhere
      BY <1>3 DEF PlanOfSession
  <2>2. now < Deadline(s) /\ Missed(s, now)
      BY <1>1, <2>1 DEF Timing, FirstSession
  <2>3. snapshot' # NoSnapshot /\ snapshot'.cutoff = now
      BY <1>1, PlaceFacts DEF NoSnapshot, Ledger, Runs
  <2>4. Missed(s, snapshot.cutoff)'
      BY <1>1, <2>2, <2>3 DEF Missed, Deadline
  <2> QED
      BY <1>1, <1>2, <1>3, <2>2, <2>3, <2>4 DEF Aside, Labels, InASession, Deadline
<1>4. ASSUME NEW s \in Sessions \ closed', plan[s] # d, plan[s] # None, Stands(s)
      PROVE  Stands(s)'
    BY <1>1, <1>4, StandsOn
<1> QED
    BY <1>1, <1>3, <1>4, FollowStep DEF Aside

LEMMA PrepareFollow ==
    ASSUME Ledger, Memory, Swept, PlanOfSession, [Next]_vars, Follow, Prepare
    PROVE  Follow'
<1>1. /\ pc = "prepare" /\ pc' = "output" /\ Waiting = {}
      /\ UNCHANGED <<closed, archive, plan, pending, snapshot, ready>>
    BY DEF Swept, Prepare, Goto, decisions, local, world
<1>2. ASSUME NEW s \in Sessions, plan[s] # None, Stands(s)
      PROVE  Stands(s)'
  <2>1. Len(chain) <= Len(chain') /\ Len(chain') \in Nat
      BY PrepareFacts
  <2> QED
      BY <1>1, <1>2, <2>1, PrepareFacts, StandsSettled
<1>3. ASSUME NEW s \in Sessions, Aside(s)
      PROVE  Aside(s)'
  <2>1. ~ready' /\ pending.decision \in archive' /\ pc' \notin InASession /\ closed \subseteq closed'
        /\ pc' \in Labels \ {"idle", "data", "putOutput"}
      BY <1>1, <1>3 DEF Aside, InASession, Labels
  <2> QED
      BY <1>1, <1>3, <2>1, AsideOn
<1> QED
    BY <1>1, <1>2, <1>3, FollowStep

\* The end of the data stage finds what was set aside.
LEMMA DataEndsFollow ==
    ASSUME Ledger, Memory, PlanOfSession, [Next]_vars, Follow, WriteOutput \/ DataStageFails
    PROVE  Follow'
<1>1. /\ UNCHANGED <<closed, chain, store, archive, plan, pending, ready, voided>> /\ superseded' = SetAside
      /\ pc \in {"data", "prepare", "output"} /\ pc' \in {"check", "ended"}
      /\ pc' = "check" => pc = "output"
      /\ pc # "data" => snapshot' = snapshot
    BY DEF WriteOutput, DataStageFails, Goto, decisions, world
<1>2. ASSUME NEW s \in Sessions, Aside(s)
      PROVE  Aside(s)'
  <2>1. superseded'
      BY <1>1, <1>2 DEF SetAside, Aside, Ledger, Places
  <2>2. ~ready' /\ pending.decision \in archive' /\ pc' \notin InASession /\ closed \subseteq closed'
        /\ pc' \in Labels \ {"idle", "data", "putOutput"} /\ pc # "data"
      BY <1>1, <1>2 DEF Aside, InASession, Labels
  <2> QED
      BY <1>1, <1>2, <2>1, <2>2, AsideOn
<1> QED
    BY <1>1, <1>2, FollowQuiet

-----------------------------------------------------------------------------
(* Follow: the decision.                                                   *)

\* The session of a plan that was set aside is chosen again.
LEMMA ChosenAgain ==
    ASSUME Ledger, Timing, Reconciled \/ RebaseToDatapack, UNCHANGED killed,
           NEW s \in Sessions \ closed, Aside(s)
    PROVE  Aside(s)'
<1>1. pc = "check" /\ snapshot.cutoff \in Nat /\ snapshot.cutoff < Deadline(s) /\ Missed(s, snapshot.cutoff)
    BY ChosenSession DEF Aside
<1>2. PICK t : t = session'
    OBVIOUS
<1>3. t \in Sessions \ closed /\ t <= s /\ snapshot.cutoff < Deadline(t)
    BY <1>1, <1>2, ChosenSession
<1>4. t = s
  <2>1. t \in Nat /\ s \in Nat /\ Deadline(t) \in Int
      BY <1>3 DEF Sessions, Deadline
  <2>2. CASE t < s
    <3>1. t \in 1..(s - 1)
        BY <1>3, <2>1, <2>2 DEF Sessions
    <3> QED
        BY <1>1, <1>3, <2>1, <3>1 DEF Missed
  <2> QED
      BY <1>3, <2>1, <2>2
<1>5. UNCHANGED <<closed, archive, plan, pending, snapshot, ready, superseded>> /\ pc' = "decide"
    BY ChosenSession DEF Reconciled, RebaseToDatapack, InSession, decisions
<1>6. superseded' /\ ~ready' /\ pending.decision \in archive' /\ pc' \in Labels \ {"idle", "data", "putOutput"}
    BY <1>1, <1>5 DEF Aside, Labels
<1> QED
    BY <1>2, <1>4, <1>5, <1>6, AsideOn

LEMMA ChooseFollow ==
    ASSUME Ledger, Memory, Timing, PlanOfSession, [Next]_vars, Follow,
           Reconciled \/ RebaseToDatapack, UNCHANGED killed
    PROVE  Follow'
<1>1. UNCHANGED <<plan, store>>
    BY DEF Reconciled, RebaseToDatapack, InSession, decisions
<1>2. \A s \in Sessions \ closed' : Aside(s) => Aside(s)'
    BY ChosenAgain, WorldGoesOn
<1>3. CASE Reconciled
    BY <1>1, <1>2, <1>3, FollowQuiet DEF Reconciled
<1>4. CASE RebaseToDatapack
  <2>1. ASSUME NEW s \in Sessions, plan[s] # None, Stands(s)
        PROVE  Stands(s)'
    <3>1. plan[s] \notin Waiting /\ Len(chain) \in Nat /\ Len(chain') \in Nat /\ Len(chain) <= Len(chain')
          /\ \A k \in 1..Len(chain) : chain'[k] = chain[k]
        BY <1>4, RebaseFacts
    <3> QED
        BY <1>1, <2>1, <3>1, StandsSettled
  <2> QED
      BY <1>1, <1>2, <2>1, FollowStep
<1> QED
    BY <1>3, <1>4

LEMMA SealFollow ==
    ASSUME Ledger, Memory, PlanOfSession, [Next]_vars, Follow, Seal
    PROVE  Follow'
<1>1. /\ UNCHANGED <<closed, chain, archive, plan, pending, snapshot, ready, superseded, session>>
      /\ store \subseteq store' /\ pc = "decide" /\ pc' = "sealed"
    BY SealFacts DEF world, local
<1>2. ASSUME NEW s \in Sessions, Aside(s)
      PROVE  Aside(s)'
  <2>1. /\ ~ready' /\ pending.decision \in archive' /\ closed \subseteq closed' /\ superseded'
        /\ pc' \in Labels \ {"idle", "data", "putOutput"} /\ session' = s
      BY <1>1, <1>2 DEF Aside, InASession, Labels
  <2> QED
      BY <1>1, <1>2, <2>1, AsideOn
<1> QED
    BY <1>1, <1>2, FollowStep, StandsOn

\* The run goes on, or to its end, and leaves things as they are.
LEMMA GoesOnFollow ==
    ASSUME Ledger, Memory, PlanOfSession, [Next]_vars, Follow,
           Fail("check") \/ Fail("decide") \/ InTime \/ ExportBlocked
    PROVE  Follow'
<1>1. /\ UNCHANGED <<closed, chain, store, archive, plan, pending, snapshot, ready, superseded, session>>
      /\ \/ pc \in {"check", "decide", "export"} /\ pc' = "ended"
         \/ pc = "sealed" /\ pc' = "fresh"
    BY DEF Fail, InTime, ExportBlocked, Goto, books, decisions, local, world
<1>2. ASSUME NEW s \in Sessions, Aside(s)
      PROVE  Aside(s)'
  <2>1. /\ ~ready' /\ pending.decision \in archive' /\ closed \subseteq closed' /\ superseded'
        /\ pc' \in Labels \ {"idle", "data", "putOutput"} /\ (pc' \in InASession => session' = s)
      BY <1>1, <1>2 DEF Aside, InASession, Labels
  <2> QED
      BY <1>1, <1>2, <2>1, AsideOn
<1> QED
    BY <1>1, <1>2, FollowQuiet

\* A decision made on the account of its own run is the only one on it.
LEMMA NoneOlder ==
    ASSUME Ledger, Memory, OwnAccounts, me \in store
    PROVE  Older = {}
<1>1. ASSUME NEW d \in DecisionsOf(facts[me].account)
      PROVE  d = me
    BY <1>1 DEF DecisionsOf, OwnAccounts, Everywhere
<1> QED
    BY <1>1 DEF Older

LEMMA RefuseFollow ==
    ASSUME Ledger, Memory, Timely, PlanOfSession, [Next]_vars, Follow, RefuseLate
    PROVE  Follow'
<1>1. /\ UNCHANGED <<closed, chain, plan, pending, snapshot, ready, superseded>>
      /\ pc = "sealed" /\ pc' = "ended" /\ archive \subseteq archive' /\ store \ {me} \subseteq store'
    BY DEF RefuseLate, Goto, local, world
<1>2. \A s \in Sessions : plan[s] # None => plan[s] # me
    BY <1>1 DEF PlanOfSession, Timely
<1>3. ASSUME NEW s \in Sessions, Aside(s)
      PROVE  Aside(s)'
  <2>1. /\ ~ready' /\ pending.decision \in archive' /\ closed \subseteq closed' /\ superseded'
        /\ pc' \in Labels \ {"idle", "data", "putOutput"} /\ pc' \notin InASession
      BY <1>1, <1>3 DEF Aside, InASession, Labels
  <2> QED
      BY <1>1, <1>3, <2>1, AsideOn
<1> QED
    BY <1>1, <1>2, <1>3, FollowStep, StandsOn

LEMMA FreshFollow ==
    ASSUME Ledger, Memory, PlanOfSession, [Next]_vars, Follow, SupersedeOlder \/ KeepUploaded
    PROVE  Follow'
<1>1. pc = "fresh" /\ UNCHANGED <<closed, chain, plan, pending, snapshot, ready, superseded, session>>
    BY DEF SupersedeOlder, KeepUploaded, local, world
<1>2. ASSUME Clean'
      PROVE  SupersedeOlder /\ Older = {}
  <2>1. Clean
      BY <1>2, DecisionsRemain
  <2>2. me \in store
      BY <1>1 DEF Ledger, Places, Holding
  <2>3. Older = {}
      BY <2>1, <2>2, NoneOlder DEF Clean
  <2> QED
      BY <2>3 DEF KeepUploaded
<1>3. ASSUME Clean'
      PROVE  store' = store /\ archive' = archive /\ pc' = "export"
    BY <1>2, <1>3 DEF SupersedeOlder, Goto
<1>4. ASSUME NEW s \in Sessions, Aside(s), Clean'
      PROVE  Aside(s)'
  <2>1. /\ ~ready' /\ pending.decision \in archive' /\ closed \subseteq closed' /\ superseded'
        /\ pc' \in Labels \ {"idle", "data", "putOutput"} /\ (pc' \in InASession => session' = s)
        /\ pc' \notin {"prepare", "output", "check"}
      BY <1>1, <1>3, <1>4 DEF Aside, InASession, Labels
  <2> QED
      BY <1>1, <1>4, <2>1, AsideOn
<1> QED
    BY <1>1, <1>3, <1>4, FollowStep, StandsOn

LEMMA ExportFollow ==
    ASSUME Ledger, Memory, PlanOfSession, [Next]_vars, Follow, Export
    PROVE  Follow'
<1>1. /\ pc = "export" /\ Binding /\ plan' = [plan EXCEPT ![session] = me] /\ UNCHANGED <<closed, chain, store, facts>>
    BY DEF Export, world
<1>2. me \in store /\ session \in Sessions
    BY <1>1 DEF Ledger, Places, Holding, InHand, InASession
<1>3. plan'[session] = me /\ \A s \in Sessions : s # session => plan'[s] = plan[s]
    BY <1>1, <1>2 DEF Ledger, TypeOK, BooksOK
<1>4. Stands(session)'
  <2>1. PreparedBy(Len(chain), facts[me].account)
      BY <1>1 DEF Binding, PreparedBy, head, Last
  <2>2. PICK s : s = session
      OBVIOUS
  <2>3. plan'[s] \in store' /\ PreparedBy(Len(chain), facts[plan[s]].account)'
      BY <1>1, <1>2, <1>3, <2>1, <2>2 DEF PreparedBy
  <2>4. session' = s
      BY <2>2 DEF Export
  <2> QED
      BY <2>3, <2>4 DEF Stands
<1>5. ASSUME NEW s \in Sessions, s # session, plan[s] # None, Stands(s) \/ Aside(s)
      PROVE  Stands(s)'
  <2>1. ~Aside(s)
      BY <1>1, <1>5 DEF Aside, InASession
  <2> QED
      BY <1>1, <1>3, <1>5, <2>1 DEF Stands, PreparedBy
<1>6. session' = session /\ (Clean' => Clean)
    BY DecisionsRemain DEF Export
<1>7. ASSUME Clean', NEW s \in Sessions \ closed', plan'[s] # None
      PROVE  Stands(s)'
  <2>1. CASE s = session
      BY <1>4, <1>6, <2>1 DEF Stands
  <2>2. CASE s # session
      BY <1>1, <1>3, <1>5, <1>6, <1>7, <2>2 DEF Follow
  <2> QED
      BY <2>1, <2>2
<1> QED
    BY <1>7 DEF Follow

-----------------------------------------------------------------------------
(* Follow: the end of a run, and putting back.                             *)

LEMMA RestoreLedgerFollow ==
    ASSUME Ledger, Memory, PlanOfSession, [Next]_vars, Follow, RestoreLedger
    PROVE  Follow'
<1>1. /\ UNCHANGED <<closed, store, archive, facts, plan, pending, snapshot, ready, superseded>>
      /\ pc = "ended" /\ pc' = "discard" /\ superseded /\ ~ready
    BY DEF RestoreLedger, Goto, local, world
<1>2. ASSUME NEW s \in Sessions, Aside(s)
      PROVE  Aside(s)'
  <2>1. /\ ~ready' /\ pending.decision \in archive' /\ closed \subseteq closed' /\ superseded'
        /\ pc' \in Labels \ {"idle", "data", "putOutput"} /\ pc' \notin InASession
      BY <1>1, <1>2 DEF Aside, InASession, Labels
  <2> QED
      BY <1>1, <1>2, <2>1, AsideOn
<1>3. ASSUME NEW s \in Sessions, plan[s] # None, Stands(s), Clean
      PROVE  Stands(s)'
  <2>1. CASE chain' = chain
      BY <1>1, <1>3, <2>1 DEF Stands, PreparedBy
  <2>2. CASE chain' # chain
    <3>1. chain' = Front(chain) /\ RunOf(head.run) = me
        BY <2>2, RestoreBack DEF RestoreLedger
    <3>2. Len(chain) \in Nat /\ \A k \in 1..Len(chain') : chain'[k] = chain[k]
        BY <3>1, FrontFacts DEF Ledger, TypeOK, BooksOK
    <3>3. ~(plan[s] \in store /\ PreparedBy(Len(chain), facts[plan[s]].account))
      <4>1. plan[s] \in Everywhere /\ plan[s] # me
          BY <1>1, <1>3 DEF PlanOfSession
      <4>2. RunOf(facts[plan[s]].account) = plan[s]
          BY <1>3, <4>1 DEF Clean, OwnAccounts
      <4> QED
          BY <3>1, <4>1, <4>2 DEF PreparedBy, head, Last
    <3>4. PICK k \in 1..Len(chain) : chain[k].kind = "close" /\ chain[k].decision = plan[s]
        BY <1>3, <3>3 DEF Stands
    <3>5. k \in 1..Len(chain')
        BY <1>3, <3>4, RestoreBack
    <3>6. chain'[k].kind = "close" /\ chain'[k].decision = plan'[s]
        BY <1>1, <3>2, <3>4, <3>5
    <3> QED
        BY <3>5, <3>6 DEF Stands
  <2> QED
      BY <2>1, <2>2
<1>4. \A s \in Sessions \ closed' : Clean' /\ plan[s] # None /\ (Stands(s) \/ Aside(s))
          => Stands(s)' \/ Aside(s)'
    BY <1>2, <1>3, DecisionsRemain
<1> QED
    BY <1>1, <1>4, FollowStep

LEMMA PutBackFollow ==
    ASSUME Ledger, Memory, Timely, PlanOfSession, [Next]_vars, Follow, DiscardNew \/ PutBack
    PROVE  Follow'
<1>1. UNCHANGED <<closed, chain, facts, plan, pending, snapshot, ready, superseded>>
    BY DEF DiscardNew, PutBack, local, world
<1>2. CASE DiscardNew
  <2>1. /\ pc = "discard" /\ pc' = "putBack" /\ store' = store \ {me} /\ archive \subseteq archive'
      BY <1>2 DEF DiscardNew, Goto
  <2>2. \A s \in Sessions : plan[s] # None => plan[s] # me
      BY <2>1 DEF PlanOfSession, Timely
  <2>3. ASSUME NEW s \in Sessions, Aside(s)
        PROVE  Aside(s)'
    <3>1. /\ ~ready' /\ pending.decision \in archive' /\ closed \subseteq closed' /\ superseded'
          /\ pc' \in Labels \ {"idle", "data", "putOutput"} /\ pc' \notin InASession
        BY <1>1, <2>1, <2>3 DEF Aside, InASession, Labels
    <3> QED
        BY <1>1, <2>1, <2>3, <3>1, AsideOn
  <2> QED
      BY <1>1, <2>1, <2>2, <2>3, FollowStep, StandsOn
<1>3. CASE PutBack
  <2>1. pc = "putBack" /\ store' = store \cup {pending.decision}
      BY <1>3 DEF PutBack
  <2>2. pending # NoPending /\ PreparedBy(Len(chain), pending.account)
      BY <2>1 DEF Memory, Returned, Restoring
  <2>3. facts[pending.decision].account = pending.account
      BY <2>2, PendingFacts
  <2>4. ASSUME NEW s \in Sessions, Aside(s)
        PROVE  Stands(s)'
    <3>1. plan[s] = pending.decision
        BY <2>4 DEF Aside
    <3> QED
        BY <1>1, <2>1, <2>2, <2>3, <3>1 DEF Stands, PreparedBy
  <2> QED
      BY <1>1, <2>1, <2>4, FollowStep, StandsOn
<1> QED
    BY <1>2, <1>3

LEMMA EndFollow ==
    ASSUME Ledger, Memory, PlanOfSession, [Next]_vars, Follow, Finish \/ RestoreFails \/ PutOutput \/ Crash
    PROVE  Follow'
<1>1. CASE RestoreFails \/ Crash
    BY <1>1 DEF RestoreFails, Crash, Follow, Clean
<1>2. CASE Finish \/ PutOutput
  <2>1. /\ UNCHANGED <<chain, store, plan>>
        /\ pc \in {"idle", "data", "putOutput"} \/ (pc = "ended" /\ ~(superseded /\ ~ready))
      BY <1>2 DEF Finish, PutOutput, books, decisions
  <2> QED
      BY <2>1, NoneAsideFollow
<1> QED
    BY <1>1, <1>2

LEMMA NextFollow ==
    ASSUME Ledger, Memory, Promises, Timing, Swept, PlanOfSession, [Next]_vars, Follow
    PROVE  Follow'
<1>1. CASE World \/ Crash \/ UNCHANGED vars
  <2>1. UNCHANGED vars => UNCHANGED <<chain, store, plan>>
                          /\ \A s \in Sessions : Aside(s) => Aside(s)'
      BY DEF vars, world, books, decisions, local, Aside, Missed, Deadline
  <2> QED
      BY <1>1, <2>1, WorldFollow, EndFollow, FollowQuiet
<1>2. CASE NothingToSettle \/ HeldUp \/ \E skips \in Skips : Begin(skips)
  <2>1. /\ UNCHANGED <<chain, store, plan>>
        /\ pc \in {"idle", "data", "putOutput"} \/ (pc = "ended" /\ ~(superseded /\ ~ready))
      BY <1>2 DEF NothingToSettle, HeldUp, Begin, Advance, books, decisions
  <2> QED
      BY <2>1, NoneAsideFollow
<1>3. CASE \E d \in Runs : SettleDecision(d) \/ VoidDecision(d) \/ SupersedeUnstarted(d)
    BY <1>3, SettleFollow, VoidFollow, SupersedeFollow DEF Promises
<1>4. CASE Prepare \/ WriteOutput \/ DataStageFails
    BY <1>4, PrepareFollow, DataEndsFollow
<1>5. CASE (Reconciled \/ RebaseToDatapack) /\ UNCHANGED killed
    BY <1>5, ChooseFollow
<1>6. CASE Fail("check") \/ Fail("decide") \/ InTime \/ ExportBlocked
    BY <1>6, GoesOnFollow
<1>7. CASE Seal \/ RefuseLate \/ SupersedeOlder \/ KeepUploaded \/ Export
    BY <1>7, SealFollow, RefuseFollow, FreshFollow, ExportFollow DEF Promises
<1>8. CASE RestoreLedger \/ DiscardNew \/ PutBack
    BY <1>8, RestoreLedgerFollow, PutBackFollow DEF Promises
<1>9. CASE Finish \/ RestoreFails \/ PutOutput
    BY <1>9, EndFollow
<1> QED
    BY <1>1, <1>2, <1>3, <1>4, <1>5, <1>6, <1>7, <1>8, <1>9 DEF Next, Run

-----------------------------------------------------------------------------
(* The plan stands.                                                        *)

LEMMA InitPlans == Init => Plans
<1> SUFFICES ASSUME Init PROVE Plans
    OBVIOUS
<1>1. Everywhere = {} /\ pc = "idle" /\ snapshot = NoSnapshot /\ backup = NoSnapshot
      /\ \A s \in Sessions : plan[s] = None
    BY DEF Init, Everywhere
<1> QED
    BY <1>1 DEF Plans, Timing, FirstSession, CutoffPassed, Swept, PlanOfSession, Follow, InASession

\* The last layer holds in every state.
THEOREM PlansInvariant == Spec => [](Ledger /\ Memory /\ Plans)
<1>1. Init => Plans
    BY InitPlans
<1>2. Ledger /\ Memory /\ Promises /\ Plans /\ [Next]_vars => Plans'
    BY NextTiming, NextSwept, NextPlanOfSession, NextFollow DEF Plans
<1> QED
    BY <1>1, <1>2, PromisesInvariant, PTL DEF Spec

\* Between runs the D-Plan main file of a session is the plan of the decision
\* that the account has settled for it or will settle, if every decision was
\* made on the account of its own daily run, and none was killed or left for
\* a human: the file that is there can be uploaded.
THEOREM PlanStandsAlways == Spec => []PlanStandsWithData
<1>1. Ledger /\ Memory /\ Plans => PlanStandsWithData
  <2> SUFFICES ASSUME Ledger, Memory, Plans,
                      \A d \in store \cup archive \cup voided : facts[d].account \in {d, AfterRebase(d)},
                      pc = "idle", ~byHand, ~killed, NEW s \in Sessions \ closed, plan[s] # None
               PROVE  /\ plan[s] \in store
                      /\ \/ head.kind = "prepared" /\ head.run = facts[plan[s]].account
                         \/ \E k \in 1..Len(chain) : chain[k].decision = plan[s]
      BY DEF PlanStandsWithData, PlanStands
  <2>1. Clean
    <3>1. ASSUME NEW d \in Everywhere
          PROVE  RunOf(facts[d].account) = d
        BY PlacedFacts, AccountFacts DEF Everywhere
    <3> QED
        BY <3>1 DEF Clean, OwnAccounts
  <2>2. Stands(s)
      BY <2>1 DEF Plans, Follow, Aside
  <2>3. CASE plan[s] \in store /\ PreparedBy(Len(chain), facts[plan[s]].account)
      BY <2>3 DEF PreparedBy, head, Last
  <2>4. ASSUME NEW k \in 1..Len(chain), chain[k].kind = "close", chain[k].decision = plan[s]
        PROVE  plan[s] \in store
      BY <2>4, SettledFacts
  <2> QED
      BY <2>2, <2>3, <2>4 DEF Stands
<1> QED
    BY <1>1, PlansInvariant, PTL
=============================================================================
