------------------------------ MODULE Expenditure ------------------------------
(***************************************************************************)
(* What a pipeline's drafts cost (trends/pipeline.py): every job keeps the *)
(* metered price of its last attempt, and the transaction that generates   *)
(* or publishes a job sums the jobs into the pipeline's pipeline_cost row, *)
(* which the Expenditure screen shows beside what a writer would have been *)
(* paid; the Ledger shows the published jobs.  Workers and requests        *)
(* overlap; the table has no constraint that keeps the row unique.         *)
(* Which transaction may hold a job is ContentPipeline's subject: here a   *)
(* job is held by one at a time, and crashed work fails.                   *)
(* Money is counted in the sixth decimal of a dollar, to which prices and  *)
(* their sums are kept; wages and savings are rounded to cents.            *)
(***************************************************************************)
EXTENDS Lifecycle, Integers, FiniteSets, Functions

CONSTANTS
  Pieces,       \* the jobs of one pipeline
  Bookers,      \* workers and requests
  Calls,        \* what an attempt may amount to: the units of its model calls, and its words
  Price,        \* the model's price of a token, in and out, and of a search
  Pays,         \* pay baselines that the brand may get
  Cent,         \* a cent
  Null,         \* NULL
  MaxAttempted, \* bound: attempts begun
  MaxCostRows   \* bound: rows inserted

ASSUME ExpenditureAssumption ==
  /\ IsFiniteSet(Pieces)
  /\ Calls \subseteq [input : Nat, cached : Nat, output : Nat, searches : Nat, words : Nat]
  /\ Price \in [input : Nat, cached : Nat, output : Nat, searches : Nat]
  /\ Pays \subseteq [article : Nat \cup {Null}, word : Nat \cup {Null}]
  /\ Cent \in Nat \ {0} /\ Null \notin Int
  /\ MaxAttempted \in Nat /\ MaxCostRows \in Nat

VARIABLES
  pieces,       \* content_job
  standing,     \* the pipeline's status
  costRows,     \* pipeline_cost
  pay,          \* the latest writer_pay_baseline row of the brand
  booking,      \* the transaction that each booker has open
  attempted,    \* attempts begun
  costIds,      \* the id sequence of pipeline_cost
  metered,      \* history: the price of all drafts that have come back
  lost,         \* history: a draft with a price was rolled back or generated again
  summedAtOnce  \* history: two transactions have had sums uncommitted at once

costVars == <<pieces, standing, costRows, pay, booking, attempted, costIds, metered, lost,
              summedAtOnce>>
spendVars == <<metered, lost>>

Piece   == [status : JobStatus \ {Absent}, micros : Nat, words : Nat]
NoPiece == "none"

CostRow == [id : 1 .. MaxCostRows, micros : Nat, human : Int \cup {Null}, savings : Int \cup {Null}]
NoRow   == [id |-> 0, micros |-> 0, human |-> Null, savings |-> Null]
NoPay   == [article |-> Null, word |-> Null]

\* step: working until the sum is made; found, bill: the row as read and as it will be.
Booking == [piece : Pieces \cup {NoPiece}, step : {"idle", "working", "summed"},
            mine : Piece, found : CostRow \cup {NoRow}, bill : CostRow \cup {NoRow}]
Blank     == [status |-> "queued", micros |-> 0, words |-> 0]
NoBooking == [piece |-> NoPiece, step |-> "idle", mine |-> Blank, found |-> NoRow, bill |-> NoRow]

CostInit ==
  /\ pieces = [p \in Pieces |-> Blank]
  /\ standing = "generating"
  /\ costRows = {}
  /\ pay = NoPay
  /\ booking = [b \in Bookers |-> NoBooking]
  /\ attempted = 0 /\ costIds = 0
  /\ metered = 0 /\ lost = FALSE
  /\ summedAtOnce = FALSE

--------------------------------------------------------------------------------
Summed   == {b \in Bookers : booking[b].step = "summed"}
Held     == {booking[b].piece : b \in Bookers}
Statuses(ps)   == {ps[p].status : p \in Pieces}

\* The pipeline's status follows its jobs (refresh_rollup).
Restand(ps) == standing' = Rollup(standing, Statuses(ps))

\* compute_llm_micros: tokens and searches at the model's prices.
MeteredMicros(call) == SumFunction([unit \in DOMAIN Price |-> call[unit] * Price[unit]])

\* (mutant: a job without a preview is left out)
MicrosShown(ps) ==
  SumFunction([p \in Pieces |-> IF ps[p].status \in {"preview_ready", "approved", "published"}
                                THEN ps[p].micros ELSE 0])
MicrosOf(ps) == SumFunction([p \in Pieces |-> ps[p].micros])
WordsOf(ps)  == SumFunction([p \in Pieces |-> ps[p].words])

\* round(amount, 2): the nearest whole cents; floats decide a tie.
Cents(amount) ==
  {m \in amount - Cent .. amount + Cent : m % Cent = 0 /\ 2 * (m - amount) \in -Cent .. Cent}

\* _human_equiv_usd: the rate for an article, or else for its words; NULL without either.
HumanEquiv(ps) ==
  IF pay.article # Null THEN Cents(pay.article)
  ELSE IF pay.word # Null /\ WordsOf(ps) > 0 THEN Cents(pay.word * WordsOf(ps))
  ELSE {Null}

Savings(human, micros) == IF human = Null THEN {Null} ELSE Cents(human - micros)

\* _record_pipeline_cost over the jobs ps: a row inserted, or the one there is restated.
Bill(ps, found, human, savings) ==
  [id |-> IF found = NoRow THEN costIds + 1 ELSE found.id,
   micros |-> MicrosOf(ps), human |-> human, savings |-> savings]

Bills(ps) ==
  UNION {UNION {{[found |-> found, bill |-> Bill(ps, found, human, savings)] :
                    savings \in Savings(human, MicrosOf(ps))} : human \in HumanEquiv(ps)} :
            found \in IF costRows = {} THEN {NoRow} ELSE costRows}

\* b has flushed row for its job, and sums: it sees its own job and what is committed.
\* With several rows scalar_one_or_none raises, and the caller goes on without.
Sum(b, row) ==
  \E made \in IF Cardinality(costRows) > 1 THEN {[found |-> NoRow, bill |-> NoRow]}
              ELSE Bills([pieces EXCEPT ![booking[b].piece] = row]) :
    /\ made.bill.id <= MaxCostRows
    /\ costIds' = IF made.bill.id > costIds THEN made.bill.id ELSE costIds
    /\ booking' = [booking EXCEPT ![b] = [@ EXCEPT !.step = "summed", !.mine = row,
                                                   !.found = made.found, !.bill = made.bill]]
    /\ summedAtOnce' = (summedAtOnce \/ Summed # {})
    /\ UNCHANGED <<pieces, standing, costRows, pay, attempted, spendVars>>

Open(b, p) ==
  /\ booking[b] = NoBooking /\ p \notin Held
  /\ booking' = [booking EXCEPT ![b] = [NoBooking EXCEPT !.piece = p, !.step = "working"]]

\* The sweep claims a job (committed at once) and opens the job's transaction.
ClaimPiece(b, p) ==
  /\ Open(b, p)
  /\ pieces[p].status = "queued" /\ attempted < MaxAttempted
  /\ attempted' = attempted + 1
  /\ pieces' = [pieces EXCEPT ![p].status = "running"]
  /\ UNCHANGED <<standing, costRows, pay, costIds, spendVars, summedAtOnce>>

\* _run_job: the draft has come back, with its price.
DraftDone(b) ==
  /\ booking[b].step = "working" /\ pieces[booking[b].piece].status = "running"
  /\ \E call \in Calls :
       Sum(b, [status |-> "preview_ready", micros |-> MeteredMicros(call), words |-> call.words])

\* publish_job: the job's transaction, from mark_job on.
PublishPiece(b, p) ==
  /\ Open(b, p)
  /\ pieces[p].status = "approved"
  /\ UNCHANGED <<pieces, standing, costRows, pay, attempted, costIds, spendVars, summedAtOnce>>

Pushed(b) == [pieces[booking[b].piece] EXCEPT !.status = "published"]

\* Only a pipeline that is published, or in part, is summed again.
PublishSums(b) ==
  LET now == [pieces EXCEPT ![booking[b].piece] = Pushed(b)]
  IN  /\ booking[b].step = "working" /\ pieces[booking[b].piece].status = "approved"
      /\ IF Rollup(standing, Statuses(now)) \in {"published", "partially_published"}
         THEN Sum(b, Pushed(b))
         ELSE /\ booking' = [booking EXCEPT ![b] = [@ EXCEPT !.step = "summed", !.mine = Pushed(b)]]
              /\ UNCHANGED <<pieces, standing, costRows, pay, attempted, costIds, spendVars, summedAtOnce>>

\* An UPDATE sends the columns that have changed since the row was read.
Column(now, found, mine) == IF mine # found THEN mine ELSE now

Restated(row, b) ==
  LET found == booking[b].found
      bill  == booking[b].bill
  IN  [id      |-> row.id,
       micros  |-> Column(row.micros, found.micros, bill.micros),
       human   |-> Column(row.human, found.human, bill.human),
       savings |-> Column(row.savings, found.savings, bill.savings)]

\* The draft that b has brought back.
Drafted(b) == booking[b].step = "summed" /\ pieces[booking[b].piece].status = "running"
Meter(b)   == metered' = metered + (IF Drafted(b) THEN booking[b].mine.micros ELSE 0)

\* The job keeps the price of this draft in place of an earlier one's (mark_job).
CommitCost(b) ==
  LET s   == booking[b]
      now == [pieces EXCEPT ![s.piece] = s.mine]
  IN  /\ s.step = "summed"
      /\ pieces' = now /\ Restand(now)
      /\ costRows' = IF s.bill = NoRow THEN costRows
                     ELSE IF s.found = NoRow THEN costRows \cup {s.bill}
                     ELSE {IF row.id = s.bill.id THEN Restated(row, b) ELSE row : row \in costRows}
      /\ booking' = [booking EXCEPT ![b] = NoBooking]
      /\ Meter(b)
      /\ lost' = (lost \/ (Drafted(b) /\ pieces[s.piece].micros > 0))
      /\ UNCHANGED <<pay, attempted, costIds, summedAtOnce>>

\* The generator fails, or the transaction is rolled back: a fresh one fails a running job.
AbortCost(b) ==
  LET p   == booking[b].piece
      now == IF pieces[p].status = "running" THEN [pieces EXCEPT ![p].status = "failed"] ELSE pieces
  IN  /\ booking[b] # NoBooking
      /\ pieces' = now /\ Restand(now)
      /\ booking' = [booking EXCEPT ![b] = NoBooking]
      /\ Meter(b)
      /\ lost' = (lost \/ metered' # metered)
      /\ UNCHANGED <<costRows, pay, attempted, costIds, summedAtOnce>>

\* review_job, regenerate_job: the preview goes, the price of the last attempt stays.
ReviewPiece(p, verdict) ==
  /\ p \notin Held /\ verdict \in JobNext[pieces[p].status]
  /\ pieces' = [pieces EXCEPT ![p].status = verdict, ![p].words = IF verdict = "queued" THEN 0 ELSE @]
  /\ Restand(pieces')
  /\ UNCHANGED <<costRows, pay, booking, attempted, costIds, spendVars, summedAtOnce>>

\* refresh_pay_baseline: a new row when the rates have moved.  It has a rate for an article;
\* one for words alone is entered by hand.
RefreshPay ==
  /\ \E rate \in Pays \ {pay} : pay' = rate
  /\ UNCHANGED <<pieces, standing, costRows, booking, attempted, costIds, spendVars, summedAtOnce>>

CostNext ==
  \/ RefreshPay
  \/ \E p \in Pieces, verdict \in {"approved", "rejected", "queued"} : ReviewPiece(p, verdict)
  \/ \E b \in Bookers :
       \/ \E p \in Pieces : ClaimPiece(b, p) \/ PublishPiece(b, p)
       \/ DraftDone(b) \/ PublishSums(b) \/ CommitCost(b) \/ AbortCost(b)

CostSpec == CostInit /\ [][CostNext]_costVars

--------------------------------------------------------------------------------
(***************************************************************************)
(* What the screens show                                                   *)
(***************************************************************************)
\* The sums are those of the stored amounts: in print each is rounded to cents.
\* expenditure_api: the rows.  expenditure_page: their number and sums; SQL skips NULLs.
Reported == SumFunction([row \in costRows |-> row.micros])

WithBaseline == {row \in costRows : row.human # Null}

Totals ==
  [count   |-> Cardinality(costRows),
   ai      |-> Reported,
   human   |-> SumFunction([row \in WithBaseline |-> row.human]),
   savings |-> SumFunction([row \in {r \in costRows : r.savings # Null} |-> row.savings]),
   with_baseline |-> Cardinality(WithBaseline)]

\* ledger_list, ledger_record_api: the published jobs, each with its price.
LedgerRecords == {p \in Pieces : pieces[p].status = "published"}
LedgerCost    == SumFunctionOnSet([p \in Pieces |-> pieces[p].micros], LedgerRecords)

\* Type invariant.
CostTypeOK ==
  /\ pieces \in [Pieces -> Piece]
  /\ standing \in PipelineStatus
  /\ costRows \subseteq CostRow
  /\ pay \in Pays \cup {NoPay}
  /\ booking \in [Bookers -> Booking]
  /\ attempted \in 0 .. MaxAttempted /\ costIds \in 0 .. MaxCostRows
  /\ metered \in Nat /\ lost \in BOOLEAN /\ summedAtOnce \in BOOLEAN

\* However the generations of a pipeline's jobs overlap, fail, are repeated and published:
\* unless two of them sum at the same moment it has one row, which says what the last drafts
\* of its jobs cost and, within half a cent, what that saves; the Ledger's published jobs are
\* among them.  That is "this pipeline's metered LLM spend" (trends/pipeline.py:340) unless a
\* draft was rolled back or generated again (mark_job overwrites its price,
\* trends/pipeline.py:205), and never more than that.
CostsAddUp ==
  ~summedAtOnce =>
    /\ Totals.count <= 1
    /\ Reported = SumFunction([p \in Pieces |-> pieces[p].micros])
    /\ Reported <= metered /\ (~lost => Reported = metered)
    /\ Totals.count = Totals.with_baseline
         => 2 * (Totals.savings - (Totals.human - Totals.ai)) \in -Cent .. Cent
    /\ LedgerCost <= Reported

================================================================================
