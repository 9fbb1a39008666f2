-------------------------- MODULE StorePublication --------------------------
(***************************************************************************)
(* How a collector job publishes its commit to the private Store           *)
(* repository, and how it earns a durability receipt for it.               *)
(*                                                                         *)
(* Jobs share one concurrency group (market-data-collector-runtime.yml,    *)
(* dynamic-candidate-runtime.yml, extended-hours-readiness.yml), so they   *)
(* run one at a time.  A job checks the Store out, commits its outputs and *)
(*   - pushes the exact commit with push_proof_store_commit.push_exact,    *)
(*     when the commit carries a deterministic metric proof, or            *)
(*   - loops `git pull --rebase; git push`, when it does not;              *)
(* then verify_store_publication.verify_publication re-reads the remote    *)
(* and creates the retention tag.                                          *)
(*                                                                         *)
(* The remote is external: it accepts fast-forwards of main and new tags.  *)
(* A push is a message: whatever exit status the client saw, the update    *)
(* may never arrive, arrive at once, or arrive late (the client gives up   *)
(* after 30 seconds, the server does not).  People outside the queue may   *)
(* also push to main or squat a tag.  A runner may vanish at any step.     *)
(*                                                                         *)
(* Abstracted: commit contents, local Git failures and the dirty-worktree  *)
(* checks (nothing else writes the runner's clone), the elapsed budget of  *)
(* the verifier (any of its remote reads may fail for good).               *)
(***************************************************************************)
EXTENDS Naturals

CONSTANTS Job,               \* the queued writer jobs
          ProofJob,          \* those whose commit carries a metric proof
          Commit,            \* the commits that may ever exist (the bound on commits)
          Root,              \* the commit main points to at the start
          Attempts,          \* attempts of every publication loop (3 in the code)
          ForeignPushLimit,  \* bound: pushes from outside the queue
          ForeignTagLimit,   \* bound: tags squatted from outside the queue
          None               \* no job, no tag, no author

ASSUME PublicationAssumption ==
  /\ ProofJob \subseteq Job
  /\ Root \in Commit
  /\ Attempts \in Nat \ {0}
  /\ ForeignPushLimit \in Nat
  /\ ForeignTagLimit \in Nat
  /\ None \notin Job \cup Commit

VARIABLES
  main,          \* the remote refs/heads/main
  tags,          \* the remote refs/tags/market-data-read/<sha>, per sha
  pushInFlight,  \* commits whose push to main the remote may still apply
  tagInFlight,   \* commits whose tag push the remote may still apply
  anc,           \* a commit's ancestors and itself; {} when it does not exist yet
  author,        \* the job that made a commit; None for Root and outsiders
  holder,        \* the job that runs in the concurrency group
  pc, base, cand, tries, rc, sent, verdict,   \* per job
  foreignPushes, foreignTags

remoteVars == <<main, tags, pushInFlight, tagInFlight>>
commitVars == <<anc, author>>
foreignVars == <<foreignPushes, foreignTags>>
jobVars == <<holder, pc, base, cand, tries, rc, sent, verdict>>
vars == <<remoteVars, commitVars, foreignVars, jobVars>>

(* The exit status of a git push, as push_proof_store_commit.transient     *)
(* classifies it.                                                          *)
Rc == {"ok", "transient", "permanent"}

(* How a job ended.  "moved": main holds something the job did not expect  *)
(* (STORE_REMOTE_MAIN_ADVANCED, STORE_PUBLICATION_REMOTE_MAIN_CHANGED, or a*)
(* rebase conflict); "failed": any other error code, or the runner is lost.*)
Verdict == {"none", "verified", "moved", "failed"}

PC == {"queued", "build", "observe", "push", "readback", "pull", "push_plain",
       "v_main", "v_recheck", "t_identity", "t_read", "t_push",
       "t_readback", "t_final", "done"}

Made == {c \in Commit : anc[c] # {}}

Init ==
  /\ main = Root
  /\ tags = [c \in Commit |-> None]
  /\ pushInFlight = {} /\ tagInFlight = {}
  /\ anc = [c \in Commit |-> IF c = Root THEN {Root} ELSE {}]
  /\ author = [c \in Commit |-> None]
  /\ holder = None
  /\ pc = [j \in Job |-> "queued"]
  /\ base = [j \in Job |-> Root]
  /\ cand = [j \in Job |-> Root]
  /\ tries = [j \in Job |-> 0]
  /\ rc = [j \in Job |-> "ok"]
  /\ sent = [j \in Job |-> FALSE]
  /\ verdict = [j \in Job |-> "none"]
  /\ foreignPushes = 0 /\ foreignTags = 0

-----------------------------------------------------------------------------
(* Helpers of the job steps.                                               *)

(* The next step of the same loop.                                         *)
Goto(j, l) ==
  /\ pc' = [pc EXCEPT ![j] = l]
  /\ UNCHANGED <<holder, verdict, tries, rc>>

(* The first step of the next loop or program, whose attempts start anew.  *)
Enter(j, l) ==
  /\ pc' = [pc EXCEPT ![j] = l]
  /\ tries' = [tries EXCEPT ![j] = 0]
  /\ rc' = [rc EXCEPT ![j] = "ok"]
  /\ UNCHANGED <<holder, verdict>>

(* The job ends; the concurrency group admits the next one.                *)
End(j, v) ==
  /\ pc' = [pc EXCEPT ![j] = "done"]
  /\ verdict' = [verdict EXCEPT ![j] = v]
  /\ tries' = [tries EXCEPT ![j] = 0]
  /\ rc' = [rc EXCEPT ![j] = "ok"]
  /\ holder' = None

(* Fault forms: the attempt is not counted, or one attempt too many.       *)
UncountedTry(j) == tries[j]
OneTooMany(j) == tries[j] < Attempts

(* `for attempt in range(attempts)` of every publication loop.             *)
NextTry(j) == tries[j] + 1
MayRetry(j) == tries[j] + 1 < Attempts

Retry(j, l) ==
  \/ /\ MayRetry(j)
     /\ pc' = [pc EXCEPT ![j] = l]
     /\ tries' = [tries EXCEPT ![j] = NextTry(j)]
     /\ rc' = [rc EXCEPT ![j] = "ok"]
     /\ UNCHANGED <<holder, verdict>>
  \/ ~MayRetry(j) /\ End(j, "failed")

(* `git ls-remote origin refs/heads/main`, when it succeeds.               *)
ReadMain(j) == main

(* Fault form: the tag is what the push said it would be.                  *)
AssumedTag(c) == c

(* `git ls-remote origin refs/tags/market-data-read/<c>`, when it succeeds.*)
ReadTag(c) == tags[c]

(* Fault form: the group does not serialise its jobs.                      *)
NoQueue == TRUE

(* The concurrency group: one job at a time.                               *)
GroupFree == holder = None

(* Fault form: proof-bearing commits take the rebase loop.                 *)
NeverExact(j) == FALSE

(* The persist step sends open_30m, open_60m and the close modes to        *)
(* push_exact, the other modes and workflows to the pull-rebase loop.      *)
PublishesExactly(j) == j \in ProofJob

(* Fault form: a commit that already landed is replayed.                   *)
NeverLanded(j) == FALSE

(* `git pull --rebase` finds HEAD in the fetched branch.                   *)
AlreadyLanded(j) == cand[j] \in anc[main]

(* Fault form: a forced push.                                              *)
ForceAccepted(c) == TRUE

(* A plain push is only ever applied as a fast-forward.                    *)
PushAccepted(c) == main \in anc[c]

(* The remote branch differs from the candidate: somebody moved it, or the *)
(* candidate has not reached it.                                           *)
MainMismatch(j) == IF main \in anc[cand[j]] THEN "failed" ELSE "moved"

(* A push is a message: it arrives, now or later, or it does not.          *)
SendMain(j, arrives) ==
  /\ sent' = [sent EXCEPT ![j] = sent[j] \/ arrives]
  /\ pushInFlight' = IF arrives /\ cand[j] # main
                     THEN pushInFlight \cup {cand[j]} ELSE pushInFlight
  /\ UNCHANGED <<main, tags, tagInFlight>>

FreshCommit == CHOOSE c \in Commit : c \notin Made

NewCommit(c, parent, j) ==
  /\ Commit \ Made # {}
  /\ anc' = [anc EXCEPT ![c] = anc[parent] \cup {c}]
  /\ author' = [author EXCEPT ![c] = j]

-----------------------------------------------------------------------------
(* Checkout and commit.                                                    *)

(* The group admits the job; actions/checkout reads the Store's main.      *)
Checkout(j) ==
  /\ pc[j] = "queued"
  /\ GroupFree
  /\ holder' = j
  /\ pc' = [pc EXCEPT ![j] = "build"]
  /\ base' = [base EXCEPT ![j] = main]
  /\ cand' = [cand EXCEPT ![j] = main]
  /\ UNCHANGED <<tries, rc, sent, verdict, remoteVars, commitVars, foreignVars>>

(* The collector ran and left the Store unchanged, or the job commits its  *)
(* outputs on top of the checkout.                                         *)
Build(j) ==
  /\ pc[j] = "build"
  /\ \/ /\ Enter(j, "v_main")
        /\ UNCHANGED <<cand, commitVars>>
     \/ /\ cand' = [cand EXCEPT ![j] = FreshCommit]
        /\ NewCommit(FreshCommit, base[j], j)
        /\ Enter(j, IF PublishesExactly(j) THEN "observe" ELSE "pull")
  /\ UNCHANGED <<base, sent, remoteVars, foreignVars>>

-----------------------------------------------------------------------------
(* push_exact: publish exactly this commit, or nothing.                    *)

(* Every attempt starts with a fresh observation of the remote branch.     *)
Observe(j) ==
  /\ pc[j] = "observe"
  /\ \/ ReadMain(j) = cand[j] /\ Enter(j, "v_main")
     \/ ReadMain(j) = base[j] /\ Goto(j, "push")
     \/ ReadMain(j) \notin {base[j], cand[j]} /\ End(j, "moved")
     \/ Retry(j, "observe")            \* a transient read failure
     \/ End(j, "failed")               \* any other read failure
  /\ UNCHANGED <<base, cand, sent, remoteVars, commitVars, foreignVars>>

(* `git push origin <candidate>:refs/heads/main`, whatever it reports.     *)
Push(j) ==
  /\ pc[j] = "push"
  /\ pc' = [pc EXCEPT ![j] = "readback"]
  /\ \E r \in Rc, arrives \in BOOLEAN :
       /\ rc' = [rc EXCEPT ![j] = r]
       /\ SendMain(j, arrives)
  /\ UNCHANGED <<holder, base, cand, tries, verdict, commitVars, foreignVars>>

(* The remote branch, not the exit status of the push, decides.            *)
Readback(j) ==
  /\ pc[j] = "readback"
  /\ \/ ReadMain(j) = cand[j] /\ Enter(j, "v_main")
     \/ ReadMain(j) \notin {base[j], cand[j]} /\ End(j, "moved")
     \/ End(j, "failed")               \* unreadable, or rejected for good
     \/ \* main still reads base, or the read failed transiently
        /\ rc[j] # "permanent"
        /\ Retry(j, "observe")
  /\ UNCHANGED <<base, cand, sent, remoteVars, commitVars, foreignVars>>

-----------------------------------------------------------------------------
(* The pull-rebase loop of the jobs without a proof.                       *)

(* `git pull --rebase origin main` under `set -e`.                         *)
Pull(j) ==
  /\ pc[j] = "pull"
  /\ \/ End(j, "failed") /\ UNCHANGED <<cand, commitVars>>
     \/ /\ main \in anc[cand[j]]
        /\ Goto(j, "push_plain") /\ UNCHANGED <<cand, commitVars>>
     \/ /\ main \notin anc[cand[j]] /\ AlreadyLanded(j)
        /\ cand' = [cand EXCEPT ![j] = main]
        /\ Goto(j, "push_plain") /\ UNCHANGED commitVars
     \/ /\ main \notin anc[cand[j]] /\ ~AlreadyLanded(j)
        /\ \/ End(j, "moved") /\ UNCHANGED <<cand, commitVars>>
           \/ /\ cand' = [cand EXCEPT ![j] = FreshCommit]
              /\ NewCommit(FreshCommit, main, j)
              /\ Goto(j, "push_plain")
  /\ UNCHANGED <<base, sent, remoteVars, foreignVars>>

(* `git push origin HEAD:main`: here only the exit status is looked at.    *)
PushPlain(j) ==
  /\ pc[j] = "push_plain"
  /\ \E arrives \in BOOLEAN : SendMain(j, arrives)
  /\ Enter(j, "v_main") \/ Retry(j, "pull")
  /\ UNCHANGED <<base, cand, commitVars, foreignVars>>

-----------------------------------------------------------------------------
(* verify_publication and _ensure_retention_ref.                           *)

AfterIdentity == [v_main |-> "v_recheck", v_recheck |-> "t_identity",
                  t_identity |-> "t_read"]

(* Every place where the verifier re-reads main and requires the commit it *)
(* is verifying: before the exact fetch, after it, and before the tag is   *)
(* read.  The fetch, the FETCH_HEAD check and the check of the declared    *)
(* outputs sit between these reads; each may also end the job.             *)
RequireMain(j) ==
  /\ pc[j] \in DOMAIN AfterIdentity
  /\ \/ End(j, "failed")
     \/ /\ ReadMain(j) # cand[j]
        /\ End(j, MainMismatch(j))
     \/ /\ ReadMain(j) = cand[j]
        /\ Goto(j, AfterIdentity[pc[j]])
  /\ UNCHANGED <<base, cand, sent, remoteVars, commitVars, foreignVars>>

(* The same requirement before success is reported.                        *)
Report(j) ==
  /\ pc[j] = "t_final"
  /\ \/ End(j, "failed")
     \/ ReadMain(j) # cand[j] /\ End(j, MainMismatch(j))
     \/ ReadMain(j) = cand[j] /\ End(j, "verified")
  /\ UNCHANGED <<base, cand, sent, remoteVars, commitVars, foreignVars>>

(* read_tag before the tag is written: some other target ends the job.     *)
FindTag(j) ==
  /\ pc[j] = "t_read"
  /\ \/ End(j, "failed")
     \/ ReadTag(cand[j]) = cand[j] /\ Goto(j, "t_final")
     \/ ReadTag(cand[j]) = None /\ Goto(j, "t_push")
  /\ UNCHANGED <<base, cand, sent, remoteVars, commitVars, foreignVars>>

(* `git push origin <sha>:refs/tags/market-data-read/<sha>`, once.         *)
PushTag(j) ==
  /\ pc[j] = "t_push"
  /\ pc' = [pc EXCEPT ![j] = "t_readback"]
  /\ \E r \in Rc, arrives \in BOOLEAN :
       /\ rc' = [rc EXCEPT ![j] = r]
       /\ tagInFlight' = IF arrives THEN tagInFlight \cup {cand[j]}
                                    ELSE tagInFlight
  /\ UNCHANGED <<holder, base, cand, tries, sent, verdict, main, tags,
                 pushInFlight, commitVars, foreignVars>>

(* read_tag after the push: the tag itself decides; an unreadable tag      *)
(* forbids a second write.                                                 *)
ConfirmTag(j) ==
  /\ pc[j] = "t_readback"
  /\ \/ End(j, "failed")
     \/ ReadTag(cand[j]) = cand[j] /\ Goto(j, "t_final")
     \/ /\ ReadTag(cand[j]) = None /\ rc[j] # "permanent"
        /\ Retry(j, "t_identity")
  /\ UNCHANGED <<base, cand, sent, remoteVars, commitVars, foreignVars>>

(* The runner is cancelled, times out or dies, or the collector fails.     *)
(* What it sent stays sent.                                                *)
RunnerLost(j) ==
  /\ pc[j] \notin {"queued", "done"}
  /\ End(j, "failed")
  /\ UNCHANGED <<base, cand, sent, remoteVars, commitVars, foreignVars>>

-----------------------------------------------------------------------------
(* The remote, and writers outside the queue.                              *)

ApplyPush ==
  \E c \in pushInFlight :
    /\ PushAccepted(c)
    /\ main' = c
    /\ pushInFlight' = {d \in pushInFlight \ {c} : c \in anc[d]}
    /\ UNCHANGED <<tags, tagInFlight, commitVars, foreignVars, jobVars>>

ApplyTag ==
  \E c \in tagInFlight :
    /\ tagInFlight' = tagInFlight \ {c}
    /\ tags' = IF tags[c] = None THEN [tags EXCEPT ![c] = c] ELSE tags
    /\ UNCHANGED <<main, pushInFlight, commitVars, foreignVars, jobVars>>

ForeignPush ==
  /\ foreignPushes < ForeignPushLimit
  /\ NewCommit(FreshCommit, main, None)
  /\ main' = FreshCommit
  /\ foreignPushes' = foreignPushes + 1
  /\ UNCHANGED <<tags, pushInFlight, tagInFlight, foreignTags, jobVars>>

(* Somebody creates the tag of a commit with another target.               *)
ForeignTag ==
  \E c \in Made \ {Root} :
    /\ foreignTags < ForeignTagLimit
    /\ tags[c] = None
    /\ tags' = [tags EXCEPT ![c] = Root]
    /\ foreignTags' = foreignTags + 1
    /\ UNCHANGED <<main, pushInFlight, tagInFlight, foreignPushes, commitVars, jobVars>>

JobStep(j) ==
  \/ Checkout(j) \/ Build(j)
  \/ Observe(j) \/ Push(j) \/ Readback(j)
  \/ Pull(j) \/ PushPlain(j)
  \/ RequireMain(j) \/ FindTag(j) \/ PushTag(j) \/ ConfirmTag(j) \/ Report(j)

Next ==
  \/ \E j \in Job : JobStep(j) \/ RunnerLost(j)
  \/ ApplyPush \/ ApplyTag \/ ForeignPush \/ ForeignTag

(* Every command of a job has a timeout and every loop a bound, and the    *)
(* runner executes the steps of the job it was given: weak fairness of     *)
(* each job.  Nothing is assumed of the remote or of outsiders.            *)
Spec == Init /\ [][Next]_vars /\ \A j \in Job : WF_vars(JobStep(j))

-----------------------------------------------------------------------------
(* Properties.                                                             *)

(* The variables have their types; in particular no publication loop of    *)
(* push_exact, the persist step or _ensure_retention_ref runs more than    *)
(* Attempts times.                                                         *)
TypeOK ==
  /\ main \in Commit
  /\ tags \in [Commit -> Commit \cup {None}]
  /\ pushInFlight \subseteq Commit /\ tagInFlight \subseteq Commit
  /\ anc \in [Commit -> SUBSET Commit]
  /\ author \in [Commit -> Job \cup {None}]
  /\ holder \in Job \cup {None}
  /\ pc \in [Job -> PC]
  /\ base \in [Job -> Commit] /\ cand \in [Job -> Commit]
  /\ tries \in [Job -> 0 .. Attempts - 1]
  /\ rc \in [Job -> Rc]
  /\ sent \in [Job -> BOOLEAN]
  /\ verdict \in [Job -> Verdict]
  /\ foreignPushes \in 0 .. ForeignPushLimit
  /\ foreignTags \in 0 .. ForeignTagLimit

(* A job that reported durability_verified reported it for a commit that   *)
(* is, and stays, reachable from the remote main and anchored by its own   *)
(* retention tag, whatever acknowledgements were lost on the way.          *)
ReceiptIsDurable ==
  \A j \in Job : verdict[j] = "verified" =>
    /\ cand[j] \in anc[main]
    /\ tags[cand[j]] = cand[j]

(* A retention tag never makes a commit pinnable that main does not        *)
(* contain: tags are only sent, and applied, for commits of its history.   *)
AnchorsAreOnMain ==
  \A c \in Commit : (c \in tagInFlight \/ tags[c] = c) => c \in anc[main]

(* Retrying after a lost acknowledgement never publishes a job's commit    *)
(* twice, not even when somebody else pushed in between and the retry      *)
(* rebases.                                                                *)
LandsAtMostOnce ==
  \A c, d \in anc[main] : (author[c] = author[d] /\ author[c] # None) => c = d

(* The single writer queue works: as long as nobody outside it writes, a   *)
(* job loses a race only against a push that an earlier job sent and then  *)
(* ended without confirming.                                               *)
QueueMembersDoNotCollide ==
  \A j \in Job : verdict[j] = "moved" =>
    \/ foreignPushes > 0
    \/ \E i \in Job \ {j} : sent[i] /\ verdict[i] \in {"moved", "failed"}

(* A proof-bearing commit lands on exactly the tree its proof was built    *)
(* from: it is never rebased over facts the proof did not see.             *)
ProofLandsOnItsBase ==
  \A j \in ProofJob : \A c \in anc[main] :
    author[c] = j => anc[c] = anc[base[j]] \cup {c}

(* Main only grows, tags appear only on it and are never retargeted, and   *)
(* receipts are issued only for anchored commits: the durability contract. *)
Durable == INSTANCE DurableStore WITH
  history  <- anc[main],
  anchored <- {c \in Commit : tags[c] = c},
  receipts <- {cand[j] : j \in {i \in Job : verdict[i] = "verified"}}

RefinesDurableStore == Durable!DSpec

(* Whatever the network does, every queued job gets its turn and ends: the *)
(* retry loops are bounded and a vanished runner releases the group.       *)
EveryJobEnds == \A j \in Job : <>(pc[j] = "done")

=============================================================================
