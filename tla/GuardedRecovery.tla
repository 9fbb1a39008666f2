-------------------------- MODULE GuardedRecovery --------------------------
(***************************************************************************)
(* recover_market_data_baseline.py: the guarded rewrite of the daily       *)
(* histories of a set of symbols.  A run                                   *)
(*   - is pinned to a Store commit and publishes an opening report,        *)
(*   - buys every replacement: a debit, its publication, the request,      *)
(*   - rebuilds all histories in a disposable worktree and publishes them, *)
(*     with the archives of the old ones, in one commit,                   *)
(*   - on a failure files a terminal report, unless a publication is in    *)
(*     doubt: then it writes nothing more.                                 *)
(* Every publication fast-forwards main from exactly the last verified     *)
(* commit (StorePublisher of admit_market_data_baseline.py); its push may  *)
(* be lost, rejected, applied without acknowledgement, or applied later.   *)
(* Runs are queued; writers outside the queue may push at any time, and    *)
(* ordinary collectors between the runs.                                   *)
(*                                                                         *)
(* A commit is the sequence of all entries up to it, so main moves from c  *)
(* to Append(c, e).  A history is the number of times it was written.      *)
(*                                                                         *)
(* Abstracted: time, trade date, compute identity and provider (each may   *)
(* fail the run where it is looked at), the minutes of the ledger          *)
(* (CreditBudget), the retention tag (StorePublication), and of the files  *)
(* the inventory and the manifest of declared outputs.                     *)
(***************************************************************************)
EXTENDS Naturals, Sequences, FiniteSets, SequencesExt

CONSTANTS Target,        \* the symbols with a daily history
          PerDay,        \* hard_credits_per_day
          MaxRuns,       \* bound: runs on the trade date
          OutsideLimit,  \* bound: pushes of other writers
          None

ASSUME RecoveryAssumption ==
  /\ IsFiniteSet(Target) /\ PerDay \in Nat
  /\ MaxRuns \in Nat /\ OutsideLimit \in Nat
  /\ None \notin Nat

VARIABLES
  main,     \* the commit of the remote refs/heads/main
  late,     \* pushes the remote may still apply
  outside,  \* pushes of other writers so far
  run,      \* the current or last run
  pc,       \* its next step
  phase,    \* "work", or "terminal" in the exception handler
  head,     \* writer.head: the last verified commit
  local,    \* the budget checkout against head: clean, dirty or ahead
  work,     \* the credits of the ledger in the budget checkout
  old,      \* the histories read at the start
  sel,      \* the selected symbols, per run
  todo,     \* those without a qualified replacement
  rep,      \* budget_debits, requests_attempted and what is unconfirmed
  cand,     \* the publication under way: its base and its entry
  results   \* what each run reported on its terminal

remoteVars == <<main, late, outside>>
checkout == <<head, local, work>>
vars == <<remoteVars, checkout, run, pc, phase, old, sel, todo, rep, cand, results>>

Run == 1 .. MaxRuns
Opening == "opening"
Debit == "debit"
Terminal == "terminal"
Facts == "facts"
Other == "other"

Tree(c) == Last(c).tree
Candidate(c) == Append(c.base, c.entry)

EmptyTree ==
  [credits |-> 0, series  |-> [t \in Target |-> 0], archive |-> [t \in Target |-> None]]

Root == << [run |-> 0, kind |-> Other, told |-> None, tree |-> EmptyTree] >>

NoCounts == [debits |-> 0, requests |-> 0, doubt |-> 0]

Init ==
  /\ main = Root /\ late = {} /\ outside = 0
  /\ run = 0 /\ pc = "idle" /\ phase = "work"
  /\ head = Root /\ local = "clean" /\ work = 0
  /\ old = EmptyTree.series /\ todo = {} /\ rep = NoCounts /\ cand = None
  /\ sel = [r \in Run |-> {}] /\ results = [r \in Run |-> None]

-----------------------------------------------------------------------------
(* How a run goes on and how it ends.                                      *)

Goto(l) == pc' = l /\ UNCHANGED <<phase, results>>

(* What the command prints: PASS, or failure_summary of the exception;     *)
(* "report" is terminal_report_outcome.                                    *)
Finish(status, report, candidate) ==
  /\ pc' = "idle" /\ phase' = "work"
  /\ results' = [results EXCEPT ![run] =
       [status |-> status, report |-> report, candidate |-> candidate,
        confirmed |-> rep'.debits, unconfirmed |-> rep'.doubt, requests |-> rep'.requests]]

(* An exception without a publication in it: the handler files the         *)
(* terminal report; if that fails too, the run is over.                    *)
Fail ==
  \/ phase = "work" /\ pc' = "report" /\ phase' = "terminal" /\ UNCHANGED results
  \/ phase = "terminal" /\ Finish("BLOCKED", "UNCONFIRMED", None)

(* An exception with a publication in it: nothing more is written.         *)
FailInDoubt ==
  \/ phase = "work" /\ Finish("BLOCKED", "NOT_ATTEMPTED", cand.entry.kind)
  \/ phase = "terminal" /\ Finish("BLOCKED", "UNCONFIRMED", None)

(* Fault form: a debit that fails on its way is not counted.               *)
NoDoubt == rep

(* A debit that fails on its way counts as unconfirmed (exc.predebit).     *)
Doubted == IF cand.entry.kind = Debit THEN [rep EXCEPT !.doubt = 1] ELSE rep

(* Fault form: the state of the checkout is not looked at.                 *)
RemoteCurrent == main = head

(* StorePublisher.assert_current.                                          *)
Current == main = head /\ local = "clean"

-----------------------------------------------------------------------------
(* A run.                                                                  *)

(* The operator pins the Store commit and selects the symbols; the job     *)
(* checks that commit out when its turn in the queue comes.                *)
Dispatch ==
  /\ pc = "idle" /\ run < MaxRuns
  /\ run' = run + 1
  /\ \E S \in (SUBSET Target) \ {{}} : sel' = [sel EXCEPT ![run + 1] = S]
  /\ head' = main /\ local' = "clean" /\ work' = Tree(main).credits
  /\ rep' = NoCounts /\ cand' = None
  /\ Goto("begin")
  /\ UNCHANGED <<remoteVars, old, todo>>

(* make_writer and original_entries: the pinned commit must still be main, *)
(* and no archive of the trade date may be in the way.                     *)
Begin ==
  /\ pc = "begin"
  /\ UNCHANGED rep
  /\ \/ /\ main = head /\ \A t \in sel[run] : Tree(head).archive[t] = None
        /\ old' = Tree(head).series /\ todo' = sel[run]
        /\ Goto("report")
     \/ Finish("BLOCKED", None, None) /\ UNCHANGED <<old, todo>>
  /\ UNCHANGED <<remoteVars, checkout, run, sel, cand>>

(* Prepare a commit on top of the verified head.                           *)
Propose(kind, told, tree) ==
  cand' = [base |-> head, entry |-> [run |-> run, kind |-> kind, told |-> told, tree |-> tree]]

(* RecoveryPublisher.report up to publish: the report and the budget file  *)
(* (its counters as they are) are written into a current checkout.         *)
WriteReport ==
  /\ pc = "report"
  /\ UNCHANGED rep
  /\ \/ /\ Current
        /\ Propose(IF phase = "work" THEN Opening ELSE Terminal, rep,
                   [Tree(head) EXCEPT !.credits = work])
        /\ local' = "dirty" /\ Goto("check")
     \/ Fail /\ local' \in {local, "dirty"} /\ UNCHANGED cand
  /\ UNCHANGED <<remoteVars, head, work, run, old, sel, todo>>

(* StorePublisher.publish up to the push: the last look at the remote, and *)
(* the commit.                                                             *)
Check ==
  /\ pc = "check"
  /\ \/ main = head /\ local' = "ahead" /\ Goto("push") /\ UNCHANGED rep
     \/ local' \in {"dirty", "ahead"} /\ rep' = Doubted /\ Fail
  /\ UNCHANGED <<remoteVars, head, work, run, old, sel, todo, cand>>

(* The push of the exact commit: acknowledged, or not - then it was        *)
(* rejected, or is applied now, later or never.                            *)
Push ==
  /\ pc = "push"
  /\ \/ /\ main = cand.base /\ main' = Candidate(cand)
        /\ Goto(IF cand.entry.kind = Facts THEN "verify" ELSE "readback")
        /\ UNCHANGED <<late, rep>>
     \/ /\ late' = late \cup {cand}
        /\ rep' = Doubted /\ FailInDoubt
        /\ UNCHANGED main
  /\ UNCHANGED <<outside, checkout, run, old, sel, todo, cand>>

Readback ==
  /\ pc = "readback"
  /\ \/ main = Candidate(cand) /\ Goto("verify") /\ UNCHANGED rep
     \/ rep' = Doubted /\ FailInDoubt
  /\ UNCHANGED <<remoteVars, checkout, run, old, sel, todo, cand>>

(* The durability verifier's answer: it saw the commit on main.            *)
Verify ==
  /\ pc = "verify"
  /\ \/ /\ main = Candidate(cand)
        /\ UNCHANGED rep /\ head' = Candidate(cand) /\ local' = "clean"
        /\ \/ cand.entry.kind = Opening /\ Goto("next")
           \/ cand.entry.kind = Debit /\ Goto("slot")
           \/ cand.entry.kind = Terminal /\ Finish("BLOCKED", "CONFIRMED", None)
           \/ cand.entry.kind = Facts /\ Finish("PASS", None, Facts)
     \/ rep' = Doubted /\ FailInDoubt /\ UNCHANGED <<head, local>>
  /\ UNCHANGED <<remoteVars, work, run, old, sel, todo, cand>>

(* Fault form: the preflight counts one credit too many.                   *)
AlmostFunded == todo = sel[run] => Cardinality(todo) <= PerDay - work + 1

(* The batch preflight, before the first symbol only.                      *)
Funded == todo = sel[run] => Cardinality(todo) <= PerDay - work

(* require_complete: every selected symbol has its replacement.            *)
AllQualified == todo = {}

NextTarget ==
  /\ pc = "next"
  /\ UNCHANGED rep
  /\ \/ AllQualified /\ Goto("stage")
     \/ todo # {} /\ Funded /\ Goto("debit")
     \/ todo # {} /\ Fail
  /\ UNCHANGED <<remoteVars, checkout, run, old, sel, todo, cand>>

(* debit_before_request up to publish: the edited ledger is validated      *)
(* before it is published; an error there leaves it edited, without doubt. *)
DebitLedger ==
  /\ pc = "debit"
  /\ UNCHANGED rep
  /\ \/ /\ Current /\ work < PerDay
        /\ work' = work + 1 /\ local' = "dirty"
        /\ \/ /\ Propose(Debit, None, [Tree(head) EXCEPT !.credits = work'])
              /\ Goto("check")
           \/ Fail /\ UNCHANGED cand
     \/ Fail /\ UNCHANGED <<local, work, cand>>
  /\ UNCHANGED <<remoteVars, head, run, old, sel, todo>>

(* Fault form: a debit whose minute is over is not counted.                *)
NotCounted == rep

(* Fault form: it is counted where it failed and once more in the handler. *)
CountedTwice == [rep EXCEPT !.debits = @ + 2]

(* A published debit counts, also when its minute is over (exc.debited).   *)
CountedExpired == [rep EXCEPT !.debits = @ + 1]

AfterDebit ==
  /\ pc = "slot"
  /\ \/ rep' = [rep EXCEPT !.debits = @ + 1] /\ Goto("request")
     \/ rep' = CountedExpired /\ Fail
  /\ UNCHANGED <<remoteVars, checkout, run, old, sel, todo, cand>>

(* guard_provider_request, the request, and qualify of its answer.         *)
Request ==
  /\ pc = "request"
  /\ \/ /\ Current
        /\ rep' = [rep EXCEPT !.requests = @ + 1]
        /\ \/ \E t \in todo : todo' = todo \ {t} /\ Goto("next")
           \/ UNCHANGED todo /\ Fail
     \/ UNCHANGED <<rep, todo>> /\ Fail
  /\ UNCHANGED <<remoteVars, checkout, run, old, sel, cand>>

(* Fault form: the history is archived after it was replaced.              *)
ArchivedLate(tree) ==
  [tree EXCEPT !.series = [t \in Target |-> IF t \in sel[run] THEN old[t] + 1 ELSE @[t]],
               !.archive = [t \in Target |-> IF t \in sel[run] THEN old[t] + 1 ELSE @[t]]]

(* _archive_old_series and _replace_series of every selected symbol.       *)
Rebuilt(tree) ==
  [tree EXCEPT !.series = [t \in Target |-> IF t \in sel[run] THEN old[t] + 1 ELSE @[t]],
               !.archive = [t \in Target |-> IF t \in sel[run] THEN old[t] ELSE @[t]]]

(* stage_and_publish up to the commit, in the disposable worktree.         *)
Stage ==
  /\ pc = "stage"
  /\ UNCHANGED rep
  /\ \/ /\ Current
        /\ \A t \in sel[run] : Tree(head).series[t] = old[t] /\ Tree(head).archive[t] = None
        /\ Propose(Facts, rep, Rebuilt(Tree(head)))
        /\ Goto("recheck")
     \/ Fail /\ UNCHANGED cand
  /\ UNCHANGED <<remoteVars, checkout, run, old, sel, todo>>

Recheck ==
  /\ pc = "recheck"
  /\ UNCHANGED rep
  /\ \/ Current /\ Goto("push")
     \/ Fail
  /\ UNCHANGED <<remoteVars, checkout, run, old, sel, todo, cand>>

(* The runner vanishes; a push it was sending may still be applied.        *)
RunnerLost ==
  /\ pc # "idle"
  /\ pc' = "idle" /\ phase' = "work"
  /\ \/ late' = late
     \/ pc = "push" /\ late' = late \cup {cand}
  /\ UNCHANGED <<main, outside, checkout, run, old, sel, todo, rep, cand, results>>

-----------------------------------------------------------------------------
(* The remote and its other writers.                                       *)

runVars == <<checkout, run, pc, phase, old, sel, todo, rep, cand, results>>

LateLands ==
  /\ \E c \in late :
       /\ main = c.base /\ main' = Candidate(c)
       /\ late' = late \ {c}
  /\ UNCHANGED <<outside, runVars>>

(* Another writer appends to a history, or spends a credit.                *)
Outside ==
  /\ outside < OutsideLimit /\ outside' = outside + 1
  /\ \E tree \in {[Tree(main) EXCEPT !.series[t] = @ + 1] : t \in Target}
                 \cup {[Tree(main) EXCEPT !.credits = @ + 1]} :
       /\ tree.credits <= PerDay
       /\ main' = Append(main, [run |-> 0, kind |-> Other, told |-> None, tree |-> tree])
  /\ UNCHANGED <<late, runVars>>

Next ==
  \/ Dispatch \/ Begin \/ WriteReport \/ Check \/ Push \/ Readback \/ Verify
  \/ NextTarget \/ DebitLedger \/ AfterDebit \/ Request \/ Stage \/ Recheck
  \/ RunnerLost \/ LateLands \/ Outside

Spec == Init /\ [][Next]_vars

-----------------------------------------------------------------------------
(* Properties.                                                             *)

On(c, r, kind) == {i \in DOMAIN c : c[i].run = r /\ c[i].kind = kind}

Steps == {"idle", "begin", "report", "check", "push", "readback", "verify", "next",
          "debit", "slot", "request", "stage", "recheck"}

Counts == [debits : 0 .. Cardinality(Target), requests : 0 .. Cardinality(Target), doubt : 0 .. 1]

(* The variables have their types; every commit that is anywhere begins    *)
(* with the root.  And no run pays for or requests a symbol twice: it has  *)
(* one debit and one request for every symbol it is done with, at most one *)
(* more of each for the symbol under way, and none yet when that symbol is *)
(* to be debited, or requested.                                            *)
TypeOK ==
  /\ \A c \in {main, head} \cup {d.base : d \in late} : IsPrefix(Root, c)
  /\ outside \in 0 .. OutsideLimit /\ run \in 0 .. MaxRuns
  /\ pc \in Steps /\ phase \in {"work", "terminal"}
  /\ local \in {"clean", "dirty", "ahead"} /\ work \in 0 .. PerDay
  /\ sel \in [Run -> SUBSET Target]
  /\ todo \subseteq Target
  /\ rep \in Counts
  /\ pc \in {"check", "push", "readback", "verify"} => cand.entry.run = run
  /\ pc \notin {"idle", "begin"} =>
       LET done == Cardinality(sel[run] \ todo)
       IN  /\ todo \subseteq sel[run]
           /\ done <= rep.requests /\ rep.requests <= rep.debits /\ rep.debits <= done + 1
           /\ pc = "debit" => rep.debits = done
           /\ pc = "request" => rep.requests = done

(* The histories change as a whole: a commit of facts replaces all that    *)
(* were selected, each together with the archive of exactly the history    *)
(* that main held before; no other commit of a run touches a history or an *)
(* archive, and an archive is never overwritten.                           *)
HistoriesReplacedWhole ==
  \A i \in 2 .. Len(main) :
    LET p == main[i - 1].tree
        q == main[i].tree
        S == IF main[i].kind = Facts THEN sel[main[i].run] ELSE {}
    IN  main[i].kind # Other =>
          \A t \in Target :
            IF t \in S THEN /\ p.archive[t] = None /\ q.archive[t] = p.series[t]
                            /\ q.series[t] = p.series[t] + 1
                       ELSE q.archive[t] = p.archive[t] /\ q.series[t] = p.series[t]

(* Published debits add one credit each, reports and facts none: whatever  *)
(* is lost or late, no commit of a run takes a credit back or adds one     *)
(* that was not confirmed as a debit of its own.  And facts are bought: a  *)
(* run's facts are on main only after one published debit for every        *)
(* replaced history.                                                       *)
LedgerFollowsDebits ==
  /\ \A i \in 2 .. Len(main) :
       main[i].kind # Other =>
         main[i].tree.credits = main[i - 1].tree.credits + (IF main[i].kind = Debit THEN 1 ELSE 0)
  /\ \A r \in Run : On(main, r, Facts) # {} =>
                      Cardinality(On(main, r, Debit)) = Cardinality(sel[r])

(* A batch that passed the preflight is not stopped by the daily limit     *)
(* halfway: the credits of all the symbols still to come are left.         *)
BatchStaysFunded == pc = "debit" => Cardinality(todo) <= PerDay - work

(* docs/guarded-history-recovery.md: what the terminal says brackets what  *)
(* is on main, then and for ever after: the confirmed debits are there, at *)
(* most the unconfirmed one besides; no more requests than debits were     *)
(* made; facts are there if it says PASS, and if it names no facts as its  *)
(* candidate, they never will be.                                          *)
TerminalBracketsStore ==
  \A r \in Run :
    results[r] # None =>
      LET n == Cardinality(On(main, r, Debit))
          o == results[r]
      IN  /\ o.confirmed <= n /\ n <= o.confirmed + o.unconfirmed
          /\ o.requests <= o.confirmed
          /\ o.status = "PASS" => On(main, r, Facts) # {}
          /\ On(main, r, Facts) # {} => o.candidate = Facts

(* A terminal report on main counts exactly the debits on main, and is the *)
(* last word of its run: nothing of the run follows it, no facts precede   *)
(* it, and no publication was in doubt.                                    *)
TerminalReportIsFinal ==
  \A i \in DOMAIN main :
    LET r == main[i].run
    IN  main[i].kind = Terminal =>
          /\ main[i].told.debits = Cardinality(On(main, r, Debit))
          /\ main[i].told.doubt = 0
          /\ On(main, r, Facts) = {}
          /\ \A j \in i + 1 .. Len(main) : main[j].run # r

(* A publication in doubt stays alone: its run puts nothing else on top of *)
(* its base, and claims no confirmed report.                               *)
DoubtIsFinal ==
  /\ \A c \in late : \A i \in Len(c.base) + 1 .. Len(main) : main[i].run # c.entry.run
  /\ \A r \in Run : results[r] # None /\ results[r].unconfirmed = 1
                      => results[r].report # "CONFIRMED"

(* No later event, of this run or after it, falsifies a report or a doubt. *)
ReportsAreFinal == TerminalReportIsFinal /\ DoubtIsFinal
=============================================================================
