------------------------------ MODULE RiskApproval ------------------------------
(****************************************************************************)
(* Price risks and their approval for one exception key: unit, code and     *)
(* demolition flag (core/risk.py, core/approval.py, core/storage/           *)
(* risk_log.py, app/services/write_result.py).  Keys share no state.        *)
(*                                                                          *)
(* A run prices an estimate: it reads the approved range, matches, and logs *)
(* one open risk per flagged row, each in a transaction of its own.  An     *)
(* approval reads the open risk, tests it again, reads the approved range,  *)
(* saves the widened range, and marks the risk; save and mark are two       *)
(* transactions.  Both kinds of handler run on worker threads and may stop  *)
(* between any two steps.                                                   *)
(*                                                                          *)
(* The catalog does not appear: imports may put entries of any price and    *)
(* date in it between two runs, so a run matches any set of them.           *)
(****************************************************************************)
EXTENDS Naturals, Sequences, FiniteSets

CONSTANTS
  Threads,       \* worker threads, each may price and approve
  Prices,        \* prices of catalog entries
  Coefs,         \* regional coefficients of estimates
  Limit,         \* price_spread_limit
  MaxDay,        \* bound on the date
  MaxRows,       \* bound on flagged rows of the key in one estimate
  NoRisk,        \* no row in price_risk_log
  NoRange        \* no row in gesn_exceptions

ASSUME PriceAssumption == Prices \subseteq Nat \ {0}
ASSUME CoefAssumption  == Coefs \subseteq Nat \ {0}
ASSUME BoundAssumption == Limit \in Nat /\ MaxDay \in Nat /\ MaxRows \in Nat

\* added: the workbook's date of addition, 0 if it has none
Entry == [price : Prices, added : 0..MaxDay]
Shown == [min : Nat, max : Nat]
Risk  == [status : {"open", "approved"}, min : Nat, max : Nat]
Approved == [min : Nat, max : Nat, date : Nat]

ASSUME NoneAssumption == NoRisk \notin Risk /\ NoRange \notin Approved

VARIABLES
  log,      \* the row of price_risk_log
  exc,      \* the row of gesn_exceptions
  today,
  pc,       \* where each handler is
  range,    \* the approved range each handler has read
  todo,     \* a run's risks to be logged; an approval's risk
  found,    \* upsert_open_risk: the row existed
  logged    \* history: every range that was ever logged as an open risk

vars == <<log, exc, today, pc, range, todo, found, logged>>

--------------------------------------------------------------------------------
(* CheckPriceRisk and _risk_min_max                                            *)

\* _check_ratio: at least two analogs, too far apart
Spread(E) ==
  /\ Limit > 0
  /\ \E e1, e2 \in E : e1 # e2 /\ e1.price >= Limit * e2.price

BelowOrAbove(price, r) ==
  \/ r.min > 0 /\ price < r.min
  \/ r.max > 0 /\ price > r.max

\* mistake: an approved range is no reason to stop comparing prices
RatioAlways(E, r) == IF Spread(E) THEN E ELSE {}

\* the entries whose prices become the minimum and maximum of the risk
Flagged(E, r) ==
  IF r # NoRange
  THEN {e \in E : e.added > r.date /\ BelowOrAbove(e.price, r)}
  ELSE IF Spread(E) THEN E ELSE {}

\* _risk_min_max: the lowest and the highest entry a row may be flagged with, r
\* being the approved range; the entries between these two change neither
Extremes(r) ==
  {p \in Entry \X Entry :
     p[1].price <= p[2].price /\ Flagged({p[1], p[2]}, r) = {p[1], p[2]}}

\* the estimate's coefficient scales what is logged, not what was compared
Snapshots(r, c) ==
  {[min |-> p[1].price * c, max |-> p[2].price * c] : p \in Extremes(r)}

\* mistake: the new range replaces the old one
Replace(r, s, day) == [min |-> s.min, max |-> s.max, date |-> day]

\* ApproveGesnExceptionRange
Widen(r, s, day) ==
  IF r = NoRange THEN [min |-> s.min, max |-> s.max, date |-> day]
  ELSE [min |-> IF s.min < r.min THEN s.min ELSE r.min,
        max |-> IF s.max > r.max THEN s.max ELSE r.max,
        date |-> day]

--------------------------------------------------------------------------------
Init ==
  /\ log = NoRisk /\ exc = NoRange /\ today = 1
  /\ pc = [t \in Threads |-> "idle"]
  /\ range = [t \in Threads |-> NoRange]
  /\ todo = [t \in Threads |-> <<>>]
  /\ found = [t \in Threads |-> FALSE]
  /\ logged = {}

Go(t, place)   == pc' = [pc EXCEPT ![t] = place]
Take(t, v)     == todo' = [todo EXCEPT ![t] = v]
At(t, place)   == pc[t] = place

\* midnight
NewDay ==
  /\ today < MaxDay
  /\ today' = today + 1
  /\ UNCHANGED <<log, exc, pc, range, todo, found, logged>>

\* the handler ends: done, or by an exception, a lock timeout or a crash
HandlerEnds(t) ==
  /\ pc[t] # "idle"
  /\ Go(t, "idle")
  /\ range' = [range EXCEPT ![t] = NoRange]
  /\ Take(t, <<>>)
  /\ found' = [found EXCEPT ![t] = FALSE]
  /\ UNCHANGED <<log, exc, today, logged>>

--------------------------------------------------------------------------------
(* A run                                                                       *)

\* _resolve_gesn_exceptions
RunStart(t) ==
  /\ At(t, "idle") /\ Go(t, "matching")
  /\ range' = [range EXCEPT ![t] = exc]
  /\ UNCHANGED <<log, exc, today, todo, found, logged>>

\* run_matching, and the snapshots of its flagged rows
RunMatch(t) ==
  /\ At(t, "matching") /\ Go(t, "logging")
  /\ \E c \in Coefs, n \in 0..MaxRows :
       \E risks \in [1..n -> Snapshots(range[t], c)] : Take(t, risks)
  /\ UNCHANGED <<log, exc, today, range, found, logged>>

\* mistake: one turn too many
LookAgain(t) ==
  /\ At(t, "logging") /\ Go(t, "upserting")
  /\ found' = [found EXCEPT ![t] = log # NoRisk]
  /\ UNCHANGED <<log, exc, today, range, todo, logged>>

\* upsert_open_risk looks for the row ...
RunLook(t) ==
  /\ At(t, "logging") /\ todo[t] # <<>> /\ Go(t, "upserting")
  /\ found' = [found EXCEPT ![t] = log # NoRisk]
  /\ UNCHANGED <<log, exc, today, range, todo, logged>>

\* ... and inserts or updates it; a second INSERT fails on the key and ends the run
RunUpsert(t) ==
  /\ At(t, "upserting")
  /\ found[t] \/ log = NoRisk
  /\ log' = [status |-> "open", min |-> todo[t][1].min, max |-> todo[t][1].max]
  /\ logged' = logged \cup {todo[t][1]}
  /\ Go(t, "logging") /\ Take(t, Tail(todo[t]))
  /\ found' = [found EXCEPT ![t] = FALSE]
  /\ UNCHANGED <<exc, today, range>>

Run(t) == RunStart(t) \/ RunMatch(t) \/ RunLook(t) \/ RunUpsert(t)

--------------------------------------------------------------------------------
(* An approval                                                                 *)

\* get_price_risk; the date of the approval is that of this moment
ApproveRead(t) ==
  /\ At(t, "idle") /\ Go(t, "checking")
  /\ log # NoRisk /\ log.status = "open"
  /\ Take(t, <<[min |-> log.min, max |-> log.max, date |-> today]>>)
  /\ UNCHANGED <<log, exc, today, range, found, logged>>

\* approve_risk: still open?  Otherwise it raises, HandlerEnds
ApproveCheck(t) ==
  /\ At(t, "checking") /\ Go(t, "loading")
  /\ log.status = "open"
  /\ UNCHANGED <<log, exc, today, range, todo, found, logged>>

\* mistake: the risk is marked before the range is saved
MarkFirst(t) ==
  /\ At(t, "loading") /\ Go(t, "saving")
  /\ range' = [range EXCEPT ![t] = exc]
  /\ log' = [log EXCEPT !.status = "approved"]
  /\ UNCHANGED <<exc, today, todo, found, logged>>

ApproveLoad(t) ==
  /\ At(t, "loading") /\ Go(t, "saving")
  /\ range' = [range EXCEPT ![t] = exc]
  /\ UNCHANGED <<log, exc, today, todo, found, logged>>

\* save_gesn_exception
ApproveSave(t) ==
  /\ At(t, "saving") /\ Go(t, "marking")
  /\ exc' = Widen(range[t], todo[t][1], todo[t][1].date)
  /\ UNCHANGED <<log, today, range, todo, found, logged>>

\* WHERE exception_key = ?, whatever the row holds by now
ApproveMark(t) ==
  /\ At(t, "marking") /\ Go(t, "idle")
  /\ log' = [log EXCEPT !.status = "approved"]
  /\ range' = [range EXCEPT ![t] = NoRange]
  /\ Take(t, <<>>)
  /\ UNCHANGED <<exc, today, found, logged>>

Approve(t) ==
  \/ ApproveRead(t) \/ ApproveCheck(t) \/ ApproveLoad(t)
  \/ ApproveSave(t) \/ ApproveMark(t)

Next == NewDay \/ \E t \in Threads : Run(t) \/ Approve(t) \/ HandlerEnds(t)

Spec == Init /\ [][Next]_vars

--------------------------------------------------------------------------------
Places == {"idle", "matching", "logging", "upserting",
           "checking", "loading", "saving", "marking"}

(* Types; a handler about to write has something to write, and a row to mark. *)
TypeOK ==
  /\ log \in Risk \cup {NoRisk}
  /\ exc \in Approved \cup {NoRange}
  /\ today \in Nat
  /\ pc \in [Threads -> Places]
  /\ range \in [Threads -> Approved \cup {NoRange}]
  /\ todo \in [Threads -> Seq(Shown \cup Approved)]
  /\ found \in [Threads -> BOOLEAN]
  /\ logged \subseteq Shown
  /\ \A t \in Threads :
       /\ pc[t] \in {"upserting", "checking", "loading", "saving", "marking"}
            => todo[t] # <<>>
       /\ pc[t] \in {"checking", "loading", "saving", "marking"} => log # NoRisk

(* docs/MVP.md: "Human approvals are stored".  approve_risk commits twice; a
   handler that stops in between, and any other that runs meanwhile, leaves no
   risk marked approved without a range that was saved for it. *)
ApprovedHasRange == log # NoRisk /\ log.status = "approved" => exc # NoRange

(* docs/DOMAIN_RULES.md 5.2: an approval creates or widens the range "to cover
   the new suggested min/max".  The range comes from risks that were logged, and
   no approval narrows it unless another was saved after it had read the range. *)
RangeOnlyWidens ==
  [][exc' # exc =>
       /\ \E s \in logged : s.min = exc'.min
       /\ \E s \in logged : s.max = exc'.max
       /\ \/ exc = NoRange
          \/ exc'.min <= exc.min /\ exc.max <= exc'.max
          \/ \E t \in Threads : /\ pc[t] = "saving" /\ pc'[t] = "marking"
                                /\ range[t] # exc]_vars

(* docs/DOMAIN_RULES.md 5.2: after an approval the system "only re-flags
   genuinely new outliers".  A run that knew the present range reopens the risk
   only with prices outside that range. *)
ReopenedForOutliers ==
  [][\A t \in Threads :
       /\ pc[t] = "upserting" /\ pc'[t] = "logging"
       /\ log # NoRisk /\ log.status = "approved"
       /\ range[t] = exc
       => BelowOrAbove(log'.min, exc) /\ BelowOrAbove(log'.max, exc)]_vars

(* docs/DOMAIN_RULES.md 5.2: the approved range is made "to cover the new
   suggested min/max", so it covers those of a risk that is marked approved. *)
ApprovedIsCovered ==
  log # NoRisk /\ log.status = "approved" =>
    exc # NoRange /\ exc.min <= log.min /\ log.max <= exc.max
================================================================================
