------------------------- MODULE OptimizationSpend -------------------------
(***************************************************************************)
(* The ledger of the Route Optimization API (services/routeOptimization    *)
(* and services/pricing): a call is retried, its answer leaves out what    *)
(* Google could not place, and its cost is added to the row of the day.    *)
(* The price falls in tiers with the volume of the month, so that what a   *)
(* call costs depends on every call settled before it; a settlement reads  *)
(* that volume and writes under one advisory lock.  The row is dated by    *)
(* the TRANSACTION's clock, fixed before it waits for the lock, the month  *)
(* that is summed by the PROCESS's, read after.                            *)
(*                                                                         *)
(* The rows of a month are always summed: a row stands for its month.      *)
(* Counters no price depends on (calls, failures, validate-only calls) are *)
(* left out.  Costs are integers (units of 0.0001 USD, where the prices of *)
(* a single shipment are whole, so that round4 changes nothing).           *)
(***************************************************************************)
EXTENDS Integers, FiniteSetsExt

CONSTANTS
  OptCalls,    \* calls of optimizeTours, each once
  Vehicles,    \* vehicles a payload may have
  Sizes,       \* shipments a payload may have
  MaxRetries,  \* attempts after the first
  Tiers,       \* the price table of each SKU: bands [upTo, price]
  MaxVolume,   \* bound on the shipments of a month
  MaxMonth     \* bound on the calendar

Months == 1..MaxMonth

Kinds == {"single", "fleet"}

Volumes == 0..MaxVolume

\* What of a volume falls in the i-th band, which begins where the last ended.
InBand(volume, bands, i) ==
  LET from == IF i = 1 THEN 0 ELSE bands[i - 1].upTo
  IN  Max({0, Min({volume, bands[i].upTo}) - from})

PiecewiseCost(volume, bands) ==
  MapThenSumSet(LAMBDA i : InBand(volume, bands, i) * bands[i].price, DOMAIN bands)

Price(kind, volume) == PiecewiseCost(volume, Tiers[kind])

\* The tables are sorted and no price is negative: more never costs less.
ASSUME TiersAssumption ==
  /\ \A k \in Kinds : Price(k, 0) = 0
  /\ \A k \in Kinds, m \in Volumes : Price(k, m) \in Nat
  /\ \A k \in Kinds, m, n \in Volumes : m <= n => Price(k, m) <= Price(k, n)

ASSUME CallAssumption ==
  /\ Sizes \subseteq Nat \ {0}
  /\ Vehicles \subseteq Nat \ {0}
  /\ MaxRetries \in Nat
  /\ MaxVolume \in Nat
  /\ MaxMonth \in Nat \ {0}

VARIABLES
  month,      \* the clock
  volume,     \* shipments settled in a month, by SKU
  estCost,    \* route_optimization_api_spend.est_cost_usd of a month
  opt,        \* what each call has sent, got and read
  straddled   \* history: a cost of this month was computed in a later one

optVars == <<month, volume, estCost, opt, straddled>>

-----------------------------------------------------------------------------
OptCall == [pc : {"idle", "sent", "ended", "begun", "read", "done"},
            kind : Kinds, size : Nat, tries : Nat, success : BOOLEAN, billable : Nat,
            row : Months \cup {0}, start : Months \cup {0}, soFar : Nat]

Unsent == [pc |-> "idle", kind |-> "single", size |-> 0, tries |-> 0, success |-> FALSE,
           billable |-> 0, row |-> 0, start |-> 0, soFar |-> 0]

OptTypeOK ==
  /\ month \in Months
  /\ volume \in [Months -> [Kinds -> Volumes]]
  /\ estCost \in [Months -> Nat]
  /\ opt \in [OptCalls -> OptCall]
  /\ straddled \in [Months -> BOOLEAN]

OptInit ==
  /\ month = 1
  /\ volume = [m \in Months |-> [k \in Kinds |-> 0]]
  /\ estCost = [m \in Months |-> 0]
  /\ opt = [c \in OptCalls |-> Unsent]
  /\ straddled = [m \in Months |-> FALSE]

-----------------------------------------------------------------------------
MonthTurns ==
  /\ month < MaxMonth
  /\ month' = month + 1
  /\ UNCHANGED <<volume, estCost, opt, straddled>>

\* Google bills by the number of vehicles in the payload.
ClassifyOptimizationSku(n) == IF n >= 2 THEN "fleet" ELSE "single"

Send(c) ==
  /\ opt[c].pc = "idle"
  /\ \E v \in Vehicles, n \in Sizes :
       opt' = [opt EXCEPT ![c] = [@ EXCEPT !.pc = "sent", !.size = n,
                                           !.kind = ClassifyOptimizationSku(v)]]
  /\ UNCHANGED <<month, volume, estCost, straddled>>

\* A retryable status, a timeout, a network error, or a 200 whose body cannot
\* be read: the next attempt.
Retry(c) ==
  /\ opt[c].pc = "sent"
  /\ opt[c].tries < MaxRetries
  /\ opt' = [opt EXCEPT ![c].tries = @ + 1]
  /\ UNCHANGED <<month, volume, estCost, straddled>>

\* The last attempt failed, or one that is not worth a retry.
GiveUp(c) ==
  /\ opt[c].pc = "sent"
  /\ opt' = [opt EXCEPT ![c].pc = "ended"]
  /\ UNCHANGED <<month, volume, estCost, straddled>>

\* The tours; shipments that were skipped are not billed.
Solved(c) ==
  /\ opt[c].pc = "sent"
  /\ \E skipped \in 0..opt[c].size :
       opt' = [opt EXCEPT ![c] = [@ EXCEPT !.pc = "ended", !.success = TRUE,
                                           !.billable = opt[c].size - skipped]]
  /\ UNCHANGED <<month, volume, estCost, straddled>>

\* recordOptimizationSpend, not awaited: BEGIN fixes CURRENT_DATE.
BeginSettlement(c) ==
  /\ opt[c].pc = "ended"
  /\ opt' = [opt EXCEPT ![c] = [@ EXCEPT !.pc = "begun", !.row = month]]
  /\ UNCHANGED <<month, volume, estCost, straddled>>

\* Mutant: the lock is not taken.
LedgerOpen(c) == TRUE

\* One advisory lock for the whole ledger, held from the read to the commit.
LedgerFree(c) == \A e \in OptCalls \ {c} : opt[e].pc # "read"

Charges(c) == opt[c].success /\ opt[c].billable > 0

\* The volume since utcMonthStartISO(); no row is dated later than the clock.
ReadVolume(c) ==
  /\ opt[c].pc = "begun"
  /\ LedgerFree(c)
  /\ opt' = [opt EXCEPT ![c] =
       [@ EXCEPT !.pc = "read", !.start = month,
                 !.soFar = IF Charges(c) THEN volume[month][opt[c].kind] ELSE 0]]
  /\ UNCHANGED <<month, volume, estCost, straddled>>

IncrementalCost(c) ==
  Max({0, Price(opt[c].kind, opt[c].soFar + opt[c].billable)
            - Price(opt[c].kind, opt[c].soFar)})

\* The UPSERT adds to the row and commits.
Charge(c) ==
  LET r == opt[c].row
      k == opt[c].kind
  IN  /\ opt[c].pc = "read"
      /\ Charges(c)
      /\ volume[r][k] + opt[c].billable <= MaxVolume
      /\ opt[c].soFar + opt[c].billable <= MaxVolume
      /\ volume' = [volume EXCEPT ![r][k] = @ + opt[c].billable]
      /\ estCost' = [estCost EXCEPT ![r] = @ + IncrementalCost(c)]
      /\ straddled' = [straddled EXCEPT ![r] = @ \/ opt[c].start # r]
      /\ opt' = [opt EXCEPT ![c].pc = "done"]
      /\ UNCHANGED month

\* A failed call, or one with nothing to bill, adds to counters only.
CountOnly(c) ==
  /\ opt[c].pc = "read"
  /\ ~Charges(c)
  /\ opt' = [opt EXCEPT ![c].pc = "done"]
  /\ UNCHANGED <<month, volume, estCost, straddled>>

\* The settlement fails (logged as a warning) or the process is gone before it.
Unrecorded(c) ==
  /\ opt[c].pc \in {"sent", "ended", "begun", "read"}
  /\ opt' = [opt EXCEPT ![c].pc = "done"]
  /\ UNCHANGED <<month, volume, estCost, straddled>>

OptNext ==
  \/ MonthTurns
  \/ \E c \in OptCalls :
       \/ Send(c) \/ Retry(c) \/ GiveUp(c) \/ Solved(c)
       \/ BeginSettlement(c) \/ ReadVolume(c) \/ Charge(c) \/ CountOnly(c)
       \/ Unrecorded(c)

OptSpec == OptInit /\ [][OptNext]_optVars

-----------------------------------------------------------------------------
\* The costs booked call by call add up to the price of the month's volume, in
\* whichever order and at whichever tier boundaries the calls were settled: the
\* dashboard shows the sum and the price side by side.  Not so for a month that
\* a settlement begun in it, but priced after its end, was booked in.
MonthPriced ==
  \A m \in Months :
    ~straddled[m] =>
      estCost[m] = Price("single", volume[m]["single"]) + Price("fleet", volume[m]["fleet"])
=============================================================================
