--------------------------- MODULE ProbeReadiness ---------------------------
(***************************************************************************)
(* The shadow probes of the extended-hours endpoints                       *)
(* (probe_nasdaq_extended) and the record of their promotion readiness     *)
(* (evaluate_nasdaq_extended_probe).                                       *)
(*                                                                         *)
(* A probe asks an endpoint about every target and files what it answered  *)
(* under the second it started at.  The evaluator reads all files of its   *)
(* checkout and writes one readiness record.  Both are rebased over what   *)
(* others published; queued jobs do not overlap, but a lost runner's push  *)
(* may, so any jobs may here.                                              *)
(*                                                                         *)
(* Limitation: a probe would replace a file of its own second that is in   *)
(* its checkout.  No second comes twice here; on the wall clock of the     *)
(* exchange one does, in the night the summer time ends.                   *)
(*                                                                         *)
(* Of a result a file keeps what the evaluator looks at.  Time passes in   *)
(* clocks of a day; a readable page has one last-update time and rows with *)
(* a clock only.                                                           *)
(***************************************************************************)
EXTENDS Naturals, FiniteSets

CONSTANTS Session,       \* premarket and after hours
          Target,        \* the required targets
          RowClocks,     \* the clocks a session's trade rows may show
          ProbeClocks,   \* the clocks at which only this session is probed
          PerDay,        \* the clocks of a day
          Minimum,       \* minimum_distinct_trade_sessions
          Answers,       \* bound: the pages that occur, [ok, age, trades, shape]
          Job, 
          MaxTime, MaxProbes, MaxEvaluations,    \* bounds
          None

ASSUME ReadinessAssumption ==
  /\ PerDay \in Nat \ {0} /\ Minimum \in Nat \ {0}
  /\ MaxTime \in Nat /\ MaxProbes \in Nat /\ MaxEvaluations \in Nat
  /\ \A s \in Session : /\ RowClocks[s] \subseteq 0 .. PerDay - 1
                        /\ ProbeClocks[s] \subseteq 0 .. PerDay - 1
  /\ \A a \in Answers : a.age \in Nat /\ a.trades \subseteq Nat

VARIABLES store,    \* the published [files, readiness]
          base,     \* the readiness record each job checked out
          work,     \* what a job does and has so far: see NoWork
          now, probes, evaluations

vars == <<store, base, work, now, probes, evaluations>>

DateOf(t) == t \div PerDay
ClockOf(t) == t % PerDay

-----------------------------------------------------------------------------
(* A probe.                                                                *)

(* _requested_sessions: the session that --session forces; by default the  *)
(* one that is on, or else all.                                            *)
RequestedSessions(t, force) ==
  LET on == {s \in Session : ClockOf(t) \in ProbeClocks[s]}
  IN  IF force \in Session THEN {force} ELSE IF on = {} THEN Session ELSE on

(* _probe_url: the trade date is that of the page's last update, if the    *)
(* page is an application success and every row lies in the session.  A    *)
(* row ahead of the last update is not delayed data (_result_qualifies).   *)
Row(s, t, page) ==
  LET updated == t - page.age
  IN  IF /\ page.ok /\ page.age <= t
         /\ page.trades # {} /\ page.trades \subseteq RowClocks[s]
         /\ \A c \in page.trades : c <= ClockOf(updated)
      THEN [date |-> DateOf(updated), shape |-> page.shape]
      ELSE None

Pages(sessions) == [sessions -> [Target -> Answers]]

-----------------------------------------------------------------------------
(* The evaluation.                                                         *)

(* _result_qualifies: the date is resolvable and the shape complete.       *)
Qualifies(row) == row # None /\ row.shape # None

(* A file without the session has no accepted target, but counts as an     *)
(* observation of its calendar date.                                       *)
Accepted(f, s) == IF s \in DOMAIN f.rows THEN {t \in Target : Qualifies(f.rows[s][t])} ELSE {}
TradeDates(f, s) == {f.rows[s][t].date : t \in Accepted(f, s)}

(* Fault form: the newest of the targets' dates.                           *)
NewestDate(f, s) ==
  IF TradeDates(f, s) = {} THEN None
  ELSE CHOOSE d \in TradeDates(f, s) : \A e \in TradeDates(f, s) : e <= d

ObservedDate(f, s) ==
  IF Cardinality(TradeDates(f, s)) = 1 THEN CHOOSE d \in TradeDates(f, s) : TRUE ELSE None

DateKey(f, s) == IF ObservedDate(f, s) = None THEN DateOf(f.at) ELSE ObservedDate(f, s)

Complete(f, s) == Accepted(f, s) = Target /\ ObservedDate(f, s) # None

Last(files) == CHOOSE f \in files : \A g \in files : g.at <= f.at

(* Fault form: the last observation of a date, complete or not.            *)
LastObservation(files, s, d) == Last({f \in files : DateKey(f, s) = d})

(* The last complete observation of a date, or the last one.               *)
Selected(files, s, d) ==
  LET observations == {f \in files : DateKey(f, s) = d}
      complete == {f \in observations : Complete(f, s)}
  IN  IF complete # {} THEN Last(complete) ELSE Last(observations)

QualifyingDates(files, s) ==
  {d \in {DateKey(f, s) : f \in files} : Complete(Selected(files, s, d), s)}

Variants(files, s, t) ==
  {Selected(files, s, d).rows[s][t].shape : d \in QualifyingDates(files, s)}

StableShape(files, s) ==
  QualifyingDates(files, s) # {} /\ \A t \in Target : Cardinality(Variants(files, s, t)) = 1

(* _evaluate_session                                                       *)
Readiness(files, s) ==
  LET dates == QualifyingDates(files, s)
      enough == Cardinality(dates) >= Minimum
  IN  [dates |-> dates,
       status |-> IF enough /\ StableShape(files, s) THEN "promotion_ready"
                  ELSE IF ~enough THEN "insufficient_distinct_trade_sessions"
                  ELSE "response_shape_not_stable"]

-----------------------------------------------------------------------------
(* Jobs.  A file and a record carry the time their job started.            *)

NoWork == [kind |-> "idle", at |-> 0, output |-> None]

Init ==
  /\ store = [files |-> {}, readiness |-> None]
  /\ base = [j \in Job |-> None]
  /\ work = [j \in Job |-> NoWork]
  /\ now = 0 /\ probes = 0 /\ evaluations = 0

End(j) == work' = [work EXCEPT ![j] = NoWork] /\ base' = [base EXCEPT ![j] = None]

(* The second of a published file is over (the limitation above).          *)
StartProbe(j) ==
  /\ work[j].kind = "idle" /\ probes < MaxProbes
  /\ \A f \in store.files : f.at # now
  /\ work' = [work EXCEPT ![j] = [kind |-> "probe", at |-> now, output |-> None]]
  /\ base' = [base EXCEPT ![j] = store.readiness]
  /\ probes' = probes + 1
  /\ UNCHANGED <<store, now, evaluations>>

(* The pages are those of the moment they are asked for.                   *)
Probe(j) ==
  /\ work[j].kind = "probe" /\ work[j].output = None
  /\ \E force \in Session \cup {"auto"} :
     \E pages \in Pages(RequestedSessions(work[j].at, force)) :
       work' = [work EXCEPT ![j].output =
         [at |-> work[j].at,
          rows |-> [s \in DOMAIN pages |-> [t \in Target |-> Row(s, now, pages[s][t])]]]]
  /\ UNCHANGED <<store, base, now, probes, evaluations>>

(* evaluate                                                                *)
Evaluate(j) ==
  /\ work[j].kind = "idle" /\ evaluations < MaxEvaluations
  /\ work' = [work EXCEPT ![j] =
       [kind |-> "evaluate", at |-> now,
        output |-> [at |-> now, sessions |-> [s \in Session |-> Readiness(store.files, s)]]]]
  /\ base' = [base EXCEPT ![j] = store.readiness]
  /\ evaluations' = evaluations + 1
  /\ UNCHANGED <<store, now, probes>>

(* Fault form: the record of this job wins over that of another.           *)
AlwaysRebases(j) == TRUE

(* git pull --rebase: a file of the same second (it was published since    *)
(* the checkout, which had none), or a record that another evaluation      *)
(* wrote since the checkout, is a conflict.                                *)
Rebases(j) ==
  IF work[j].kind = "probe" THEN \A f \in store.files : f.at # work[j].at
  ELSE base[j] = store.readiness

Publish(j) ==
  /\ work[j].output # None
  /\ store' = IF ~Rebases(j) THEN store
              ELSE IF work[j].kind = "probe"
              THEN [store EXCEPT !.files = @ \cup {work[j].output}]
              ELSE [store EXCEPT !.readiness = work[j].output]
  /\ End(j)
  /\ UNCHANGED <<now, probes, evaluations>>

JobFails(j) ==
  /\ work[j].kind # "idle"
  /\ End(j)
  /\ UNCHANGED <<store, now, probes, evaluations>>

Tick ==
  /\ now < MaxTime
  /\ now' = now + 1
  /\ UNCHANGED <<store, base, work, probes, evaluations>>

Next ==
  \/ \E j \in Job : StartProbe(j) \/ Probe(j) \/ Evaluate(j) \/ Publish(j) \/ JobFails(j)
  \/ Tick

Spec == Init /\ [][Next]_vars

-----------------------------------------------------------------------------
(* Properties.                                                             *)

(* One probe that saw every target, on this one date, in this session.     *)
Saw(f, s, d) == s \in DOMAIN f.rows /\
  \A t \in Target : Qualifies(f.rows[s][t]) /\ f.rows[s][t].date = d

(* The published record calls a session ready only for published probes    *)
(* that each saw all targets on one date, on enough different dates, with  *)
(* one response shape per target: repeated, partial and mixed probes add   *)
(* nothing, and no date counts before the provider called it so.           *)
ReadinessIsEarned ==
  store.readiness # None => \A s \in Session :
    LET record == store.readiness.sessions[s]
    IN  /\ \A d \in record.dates : \E f \in store.files : Saw(f, s, d) /\ d <= DateOf(now)
        /\ record.status = "promotion_ready" =>
             /\ Cardinality(record.dates) >= Minimum
             /\ \E pick \in [record.dates -> store.files] :
                  /\ \A d \in record.dates : Saw(pick[d], s, d)
                  /\ \A d, e \in record.dates : \A t \in Target :
                       pick[d].rows[s][t].shape = pick[e].rows[s][t].shape

(* A date that qualified in a published record does so in every later one: *)
(* no later probe of the date, complete or not, and no slow evaluation of  *)
(* an older checkout takes it back.                                        *)
QualifiedDatesStay ==
  [][store.readiness # None =>
       /\ store'.readiness # None
       /\ \A s \in Session :
            store.readiness.sessions[s].dates \subseteq store'.readiness.sessions[s].dates]_vars
=============================================================================
