---------------------------- MODULE CreditBudget ----------------------------
(***************************************************************************)
(* The Twelve Data credit ledger of a trade date                           *)
(* (collector-state/.../<date>-twelve-data-budget.json) and the jobs that  *)
(* spend from it.  The ledger is a file of the Store: a job spends from    *)
(* its checkout, and only a job that publishes makes its debits count for  *)
(* the next one.  Jobs run one at a time (StorePublication); they differ   *)
(* in the order of debit and request:                                      *)
(*   "before"  the debit, then the request: collect_previous_session_eod,  *)
(*             initialize, rebase;                                         *)
(*   "after"   the request, then the debit: fetch_twelve_regular,          *)
(*             _ensure_daily_history of the dynamic candidates;            *)
(*   "guarded" the debit, its publication, a last look at the clock, then  *)
(*             the request: admit_market_data_baseline.                    *)
(*                                                                         *)
(* Time is what the guards tell apart.  A minute has three parts: early    *)
(* (until :38, where admission may debit), late (until :58, where it may   *)
(* still send a request) and closed.  A guarded request reaches the        *)
(* provider within two seconds of the guard, a fast one in the same part   *)
(* of the minute, a slow one in the next; other requests take their time.  *)
(*                                                                         *)
(* Abstracted: the identity checks of admission (they may end the job at   *)
(* any point) and its opening report, which leaves the counters alone.     *)
(***************************************************************************)
EXTENDS Naturals, FiniteSets, Functions, FiniteSetsExt

CONSTANTS PerDay, PerMinute,  \* hard_credits_per_day, hard_credits_per_minute
          KeptMinutes,        \* how many minutes the ledger remembers (16)
          Horizon,            \* bound: the last part of a minute
          MaxJobs,            \* bound: jobs on the trade date
          MaxRequests,        \* bound: symbols of a job
          None

Kind == {"before", "after", "guarded"}

ASSUME BudgetAssumption ==
  /\ {PerDay, PerMinute, KeptMinutes, MaxRequests} \subseteq Nat \ {0}
  /\ Horizon \in Nat /\ MaxJobs \in Nat
  /\ None \notin Kind

VARIABLES now,      \* the part of a minute
          ledger,   \* the published ledger
          work,     \* the ledger in the checkout of the running job
          job,      \* the kind of the running job, or None
          pc,       \* its next step
          left,     \* the symbols it has not dealt with
          slot,     \* admission: the minute its debit was booked in
          jobs,     \* jobs so far
          answers,  \* answers of the running job that it will publish
          kept,     \* answers whose facts were published
          sent      \* requests that reached the provider: all of them, and
                    \* those of admission per minute

vars == <<now, ledger, work, job, pc, left, slot, jobs, answers, kept, sent>>

Minute == now \div 3
Part == now % 3
Early == Part = 0
Closed == Part = 2
Minutes == 0 .. Horizon \div 3
Step == {"idle", "wait", "recheck", "debit", "publish", "guard", "call", "slow", "finish"}

Empty == [credits |-> 0, minutes |-> << >>]
Count(l, m) == IF m \in DOMAIN l.minutes THEN l.minutes[m] ELSE 0

Init ==
  /\ now = 0
  /\ ledger = Empty /\ work = Empty
  /\ job = None /\ pc = "idle" /\ left = 0 /\ slot = 0 /\ jobs = 0
  /\ answers = 0 /\ kept = 0
  /\ sent = [all |-> 0, guarded |-> [m \in Minutes |-> 0]]

-----------------------------------------------------------------------------
(* The ledger.                                                             *)

(* Fault form: one request too many passes the wait.                       *)
MinuteNotOver(l, m) == Count(l, m) <= PerMinute

(* wait_for_twelve_budget: no sleep is needed in this minute.              *)
MinuteFree(l, m) == Count(l, m) < PerMinute

DayFree(l) == l.credits < PerDay

(* consume_twelve_credit raises BudgetExceeded.                            *)
Refused(l, m) == l.credits + 1 > PerDay \/ Count(l, m) + 1 > PerMinute

(* Fault form: the oldest minutes are kept instead.                        *)
Oldest(D) == {m \in D : Cardinality({n \in D : n < m}) < KeptMinutes}

Newest(D) == {m \in D : Cardinality({n \in D : n > m}) < KeptMinutes}

(* consume_twelve_credit books one credit, and forgets old minutes.        *)
Charge(l, m) ==
  LET D == DOMAIN l.minutes \cup {m}
  IN  [credits |-> l.credits + 1,
       minutes |-> [n \in Newest(D) |-> IF n = m THEN Count(l, m) + 1 ELSE l.minutes[n]]]

-----------------------------------------------------------------------------
(* The life of a job.                                                      *)

Checkout(k) ==
  /\ pc = "idle" /\ jobs < MaxJobs
  /\ \E n \in 1 .. MaxRequests : left' = n
  /\ job' = k /\ jobs' = jobs + 1
  /\ pc' = "wait" /\ work' = ledger
  /\ UNCHANGED <<now, ledger, slot, answers, kept, sent>>

Goto(l) == pc' = l /\ UNCHANGED <<job, work, left, slot, answers>>

(* On to the next symbol.                                                  *)
NextSymbol ==
  /\ left' = left - 1
  /\ pc' = IF left = 1 THEN "finish" ELSE "wait"
  /\ UNCHANGED <<job, slot>>

End == job' = None /\ pc' = "idle" /\ left' = 0 /\ slot' = 0 /\ answers' = 0 /\ work' = Empty

(* BudgetExceeded fails the job in the collectors that debit first, costs  *)
(* the symbol in those that debit afterwards, and blocks the rest of an    *)
(* admission batch, which still files its report.                          *)
Exceeded ==
  \/ job = "before" /\ End
  \/ job = "after" /\ NextSymbol /\ UNCHANGED <<work, answers>>
  \/ job = "guarded" /\ Goto("finish")

AfterWait == [before |-> "debit", after |-> "call", guarded |-> "recheck"]

(* wait_for_twelve_budget; a full minute is slept through.  Admission may  *)
(* also run into its deadline or past its trade date.                      *)
Wait ==
  /\ pc = "wait"
  /\ \/ ~DayFree(work) /\ Exceeded
     \/ DayFree(work) /\ MinuteFree(work, Minute) /\ Goto(AfterWait[job])
     \/ job = "guarded" /\ Goto("finish")
  /\ UNCHANGED <<now, ledger, jobs, kept, sent>>

(* The checks of debit_before_request between the wait and the debit.      *)
Recheck ==
  /\ pc = "recheck"
  /\ \/ ~DayFree(work) /\ Exceeded
     \/ DayFree(work) /\ Early /\ MinuteFree(work, Minute) /\ Goto("debit")
     \/ DayFree(work) /\ (~Early \/ ~MinuteFree(work, Minute)) /\ Goto("wait")
     \/ Goto("finish")
  /\ UNCHANGED <<now, ledger, jobs, kept, sent>>

(* Where a request goes once the provider answered: those that debit       *)
(* afterwards have the debit still before them.                            *)
AfterCall == [before |-> "wait", after |-> "debit", guarded |-> "wait"]

(* consume_twelve_credit, in the minute in which it is called.  An answer  *)
(* that was waiting for it is used if it has usable rows.                  *)
Debit ==
  /\ pc = "debit"
  /\ \/ Refused(work, Minute) /\ Exceeded
     \/ /\ ~Refused(work, Minute)
        /\ work' = Charge(work, Minute)
        /\ \/ /\ job = "before"
              /\ pc' = "call" /\ UNCHANGED <<job, left, slot, answers>>
           \/ /\ job = "after"
              /\ NextSymbol /\ answers' \in {answers, answers + 1}
           \/ /\ job = "guarded"
              /\ pc' = "publish" /\ slot' = Minute /\ UNCHANGED <<job, left, answers>>
  /\ UNCHANGED <<now, ledger, jobs, kept, sent>>

(* Fault form: the minute of the debit may be over.                        *)
NotClosed == ~Closed

(* The debit's minute is still current, and not about to end.              *)
SlotOpen == Minute = slot /\ ~Closed

(* StorePublisher.publish of the ledger: whether it lands or not, without  *)
(* confirmation the job ends; an expired slot blocks the batch and leaves  *)
(* the debit standing.                                                     *)
PublishDebit ==
  /\ pc = "publish"
  /\ \/ /\ ledger' = work
        /\ \/ SlotOpen /\ Goto("guard")
           \/ ~SlotOpen /\ Goto("finish")
     \/ ledger' \in {ledger, work} /\ End
  /\ UNCHANGED <<now, jobs, kept, sent>>

(* guard_provider_request, directly before the request.                    *)
Guard ==
  /\ pc = "guard"
  /\ \/ SlotOpen /\ Goto("call")
     \/ Goto("finish")
  /\ UNCHANGED <<now, ledger, jobs, kept, sent>>

(* The request reaches the provider; the answer may be an error or be of   *)
(* no use.                                                                 *)
Call ==
  /\ pc \in {"call", "slow"}
  /\ sent' = [all |-> sent.all + 1,
              guarded |-> [sent.guarded EXCEPT ![Minute] =
                             @ + (IF job = "guarded" THEN 1 ELSE 0)]]
  /\ \/ AfterCall[job] = "debit" /\ Goto("debit")
     \/ AfterCall[job] = "debit" /\ NextSymbol /\ UNCHANGED <<work, answers>>
     \/ /\ AfterCall[job] # "debit"
        /\ NextSymbol /\ answers' \in {answers, answers + 1} /\ UNCHANGED work
  /\ UNCHANGED <<now, ledger, jobs, kept>>

(* The job publishes its checkout (admission: its final report).           *)
Finish ==
  /\ pc = "finish"
  /\ ledger' = work
  /\ kept' = kept + answers
  /\ End
  /\ UNCHANGED <<now, jobs, sent>>

(* The job dies, or its publication fails: its checkout is lost.           *)
JobFails ==
  /\ pc # "idle"
  /\ End
  /\ UNCHANGED <<now, ledger, jobs, kept, sent>>

Tick ==
  /\ now < Horizon /\ pc # "slow"
  /\ now' = now + 1
  /\ pc' = IF job = "guarded" /\ pc = "call" THEN "slow" ELSE pc
  /\ UNCHANGED <<ledger, work, job, left, slot, jobs, answers, kept, sent>>

Next ==
  \/ \E k \in Kind : Checkout(k)
  \/ Wait \/ Recheck \/ Debit \/ PublishDebit \/ Guard \/ Call
  \/ Finish \/ JobFails \/ Tick

Spec == Init /\ [][Next]_vars

-----------------------------------------------------------------------------
(* Properties.                                                             *)

(* Neither counter of a ledger ever exceeds its hard limit, and the minutes*)
(* a ledger remembers, at most KeptMinutes of them, never add up to more   *)
(* than its day.                                                           *)
LedgerWithinLimits ==
  \A l \in {ledger, work} :
    /\ l.credits <= PerDay
    /\ Cardinality(DOMAIN l.minutes) <= KeptMinutes
    /\ \A m \in DOMAIN l.minutes : l.minutes[m] <= PerMinute
    /\ FoldFunction(+, 0, l.minutes) <= l.credits

(* Every request of admission has a debit of its own: published before it, *)
(* booked in the minute in which the provider sees it.  So admission never *)
(* exceeds the limits, of a day or of any minute, one that the ledger has  *)
(* forgotten included, whatever is lost, late or interrupted.  And in      *)
(* every order of debit and request, the ledger that is published with an  *)
(* answer's facts holds the credit for it.                                 *)
RequestsAreDebited ==
  /\ FoldFunction(+, 0, sent.guarded) <= ledger.credits
  /\ \A m \in DOMAIN ledger.minutes : sent.guarded[m] <= ledger.minutes[m]
  /\ \A m \in Minutes : sent.guarded[m] <= PerMinute
  /\ kept <= ledger.credits

(* Waiting is enough: no job that passed the wait is refused its debit     *)
(* later, however much time the request took in between.  (A refusal would *)
(* fail a whole collection job, or throw a fetched answer away.)           *)
WaitSuffices == pc = "debit" => ~Refused(work, Minute)

(* config/market-data-store.yaml budgets.twelve_data_basic: the credits of *)
(* a day have a hard limit.                                                *)
HardDailyLimit == sent.all <= PerDay
=============================================================================
