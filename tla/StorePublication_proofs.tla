----------------------- MODULE StorePublication_proofs -----------------------
(***************************************************************************)
(* What StorePublication guarantees for any number of jobs, commits,       *)
(* attempts and outside writers.                                           *)
(*                                                                         *)
(* The argument: a commit's ancestry never changes once the commit exists  *)
(* (Ancestry), every commit anybody mentions exists (Known), so main only  *)
(* moves to a commit whose ancestors include those of the old main.  The   *)
(* verifier reaches its tag steps only for a commit that main contained    *)
(* (Phases), so a tag is only sent for a commit of main's history, and a   *)
(* receipt is only reported for a commit whose tag was read back.          *)
(***************************************************************************)
EXTENDS StorePublication, TLAPS

(* A commit that exists contains itself and the histories of its ancestors.*)
Ancestry ==
  /\ anc[Root] # {}
  /\ \A c \in Commit : anc[c] # {} => c \in anc[c]
  /\ \A c \in Commit : \A d \in anc[c] : anc[d] # {} /\ anc[d] \subseteq anc[c]

(* Branch, candidates and messages name commits that exist.                *)
Known ==
  /\ anc[main] # {}
  /\ \A j \in Job : anc[base[j]] # {} /\ anc[cand[j]] # {}
  /\ \A c \in pushInFlight : anc[c] # {}

Verifying == {"v_recheck", "t_identity", "t_read", "t_push", "t_readback", "t_final"}

(* Once the verifier has seen main at the candidate, the candidate is in   *)
(* main's history; before success is reported its tag has been read back;  *)
(* a job that has not ended has no verdict.                                *)
Phases ==
  \A j \in Job :
    /\ pc[j] \in Verifying => cand[j] \in anc[main]
    /\ pc[j] = "t_final" => tags[cand[j]] = cand[j]
    /\ pc[j] # "done" => verdict[j] = "none"

(* A commit of a proof job is a child of that job's checkout.              *)
ProofCommits ==
  \A j \in ProofJob :
    /\ pc[j] \notin {"pull", "push_plain"}
    /\ \A c \in Commit : (anc[c] # {} /\ author[c] = j) =>
         /\ pc[j] \notin {"queued", "build"}
         /\ anc[c] = anc[base[j]] \cup {c}

IInv ==
  /\ TypeOK
  /\ Ancestry
  /\ Known
  /\ Phases
  /\ AnchorsAreOnMain
  /\ ReceiptIsDurable
  /\ ProofCommits

-----------------------------------------------------------------------------
LEMMA FreshIsFresh ==
  ASSUME Commit \ Made # {}
  PROVE  /\ FreshCommit \in Commit
         /\ anc[FreshCommit] = {}
BY DEF FreshCommit, Made

USE PublicationAssumption

LEMMA TypeInit == Init => TypeOK
BY DEF Init, TypeOK, PC, Rc, Verdict

LEMMA TypeStep == TypeOK /\ [Next]_vars => TypeOK'
<1> SUFFICES ASSUME TypeOK, [Next]_vars PROVE TypeOK'
  OBVIOUS
<1> USE DEF TypeOK, PC, Rc, Verdict, remoteVars, commitVars, foreignVars, jobVars
<1>a. ASSUME NEW j \in Job, NEW l \in PC, Retry(j, l)
      PROVE  /\ holder' \in Job \cup {None}
             /\ pc' \in [Job -> PC]
             /\ tries' \in [Job -> 0 .. Attempts - 1]
             /\ rc' \in [Job -> Rc]
             /\ verdict' \in [Job -> Verdict]
  BY <1>a DEF Retry, MayRetry, NextTry, End
<1>1. ASSUME NEW j \in Job, Checkout(j) PROVE TypeOK'
  BY <1>1 DEF Checkout
<1>2. ASSUME NEW j \in Job, Build(j) PROVE TypeOK'
  <2>1. CASE Enter(j, "v_main") /\ UNCHANGED <<cand, commitVars>>
    BY <1>2, <2>1 DEF Build, Enter
  <2>2. CASE /\ cand' = [cand EXCEPT ![j] = FreshCommit]
             /\ NewCommit(FreshCommit, base[j], j)
             /\ Enter(j, IF PublishesExactly(j) THEN "observe" ELSE "pull")
    <3>1. FreshCommit \in Commit
      BY <2>2, FreshIsFresh DEF NewCommit
    <3>2. anc' \in [Commit -> SUBSET Commit] /\ author' \in [Commit -> Job \cup {None}]
      BY <2>2, <3>1 DEF NewCommit
    <3>3. pc' \in [Job -> PC]
      BY <2>2 DEF Enter
    <3> QED
      BY <1>2, <2>2, <3>1, <3>2, <3>3 DEF Build, Enter
  <2> QED
    BY <1>2, <2>1, <2>2 DEF Build
<1>3. ASSUME NEW j \in Job, Observe(j) PROVE TypeOK'
  BY <1>3, <1>a DEF Observe, Enter, Goto, End
<1>4. ASSUME NEW j \in Job, Push(j) PROVE TypeOK'
  BY <1>4 DEF Push, SendMain
<1>5. ASSUME NEW j \in Job, Readback(j) PROVE TypeOK'
  BY <1>5, <1>a DEF Readback, Enter, End
<1>6. ASSUME NEW j \in Job, Pull(j) PROVE TypeOK'
  BY <1>6, FreshIsFresh DEF Pull, Goto, End, NewCommit
<1>7. ASSUME NEW j \in Job, PushPlain(j) PROVE TypeOK'
  BY <1>7, <1>a DEF PushPlain, SendMain, Enter
<1>8. ASSUME NEW j \in Job, RequireMain(j) PROVE TypeOK'
  BY <1>8 DEF RequireMain, AfterIdentity, Goto, End, MainMismatch
<1>9. ASSUME NEW j \in Job, FindTag(j) PROVE TypeOK'
  <2>1. CASE End(j, "failed")
    BY <1>9, <2>1 DEF FindTag, End
  <2>2. ASSUME NEW l \in {"t_final", "t_push"}, Goto(j, l) PROVE TypeOK'
    BY <1>9, <2>2 DEF FindTag, Goto
  <2> QED
    BY <1>9, <2>1, <2>2 DEF FindTag
<1>10. ASSUME NEW j \in Job, PushTag(j) PROVE TypeOK'
  BY <1>10 DEF PushTag
<1>11. ASSUME NEW j \in Job, ConfirmTag(j) PROVE TypeOK'
  BY <1>11, <1>a DEF ConfirmTag, Goto, End
<1>12. ASSUME NEW j \in Job, Report(j) PROVE TypeOK'
  <2>1. ASSUME NEW v \in Verdict, End(j, v) PROVE TypeOK'
    BY <1>12, <2>1 DEF Report, End
  <2> QED
    BY <1>12, <2>1 DEF Report, MainMismatch
<1>13. ASSUME NEW j \in Job, RunnerLost(j) PROVE TypeOK'
  BY <1>13 DEF RunnerLost, End
<1>14. ASSUME ApplyPush PROVE TypeOK'
  BY <1>14 DEF ApplyPush
<1>15. ASSUME ApplyTag PROVE TypeOK'
  BY <1>15 DEF ApplyTag
<1>16. ASSUME ForeignPush PROVE TypeOK'
  BY <1>16, FreshIsFresh DEF ForeignPush, NewCommit
<1>17. ASSUME ForeignTag PROVE TypeOK'
  BY <1>17 DEF ForeignTag, Made
<1>18. CASE UNCHANGED vars
  BY <1>18 DEF vars
<1> QED
  BY <1>1, <1>2, <1>3, <1>4, <1>5, <1>6, <1>7, <1>8, <1>9, <1>10, <1>11,
     <1>12, <1>13, <1>14, <1>15, <1>16, <1>17, <1>18 DEF Next, JobStep

-----------------------------------------------------------------------------
(* Commits: they are only added, on top of one that exists.                *)

LEMMA CommitsOnlyAdded ==
  ASSUME TypeOK, Known, [Next]_vars
  PROVE  \/ UNCHANGED commitVars
         \/ \E p \in Commit, a \in Job \cup {None} :
              anc[p] # {} /\ NewCommit(FreshCommit, p, a)
<1> USE DEF TypeOK, Known, commitVars
<1>1. ASSUME NEW j \in Job, Build(j) \/ Pull(j)
      PROVE  \/ UNCHANGED commitVars
             \/ \E p \in Commit, a \in Job \cup {None} :
                  anc[p] # {} /\ NewCommit(FreshCommit, p, a)
  BY <1>1 DEF Build, Pull
<1>2. ASSUME ForeignPush
      PROVE  \E p \in Commit, a \in Job \cup {None} :
               anc[p] # {} /\ NewCommit(FreshCommit, p, a)
  BY <1>2 DEF ForeignPush
<1>3. ASSUME NEW j \in Job, JobStep(j) \/ RunnerLost(j), ~Build(j), ~Pull(j)
      PROVE  UNCHANGED commitVars
  BY <1>3 DEF JobStep, Checkout, Observe, Push, Readback, PushPlain, RequireMain,
              FindTag, PushTag, ConfirmTag, Report, RunnerLost
<1>4. ASSUME ApplyPush \/ ApplyTag \/ ForeignTag PROVE UNCHANGED commitVars
  BY <1>4 DEF ApplyPush, ApplyTag, ForeignTag
<1>5. CASE UNCHANGED vars
  BY <1>5 DEF vars
<1> QED
  BY <1>1, <1>2, <1>3, <1>4, <1>5 DEF Next, JobStep

LEMMA OldCommitsStay ==
  ASSUME TypeOK, Known, [Next]_vars,
         NEW c \in Commit, anc[c] # {}
  PROVE  anc'[c] = anc[c] /\ author'[c] = author[c]
<1>1. CASE UNCHANGED commitVars
  BY <1>1 DEF commitVars
<1>2. CASE \E p \in Commit, a \in Job \cup {None} :
             anc[p] # {} /\ NewCommit(FreshCommit, p, a)
  <2>1. FreshCommit \in Commit /\ anc[FreshCommit] = {}
    BY <1>2, FreshIsFresh DEF NewCommit
  <2> QED
    BY <1>2, <2>1 DEF NewCommit, TypeOK
<1> QED
  BY <1>1, <1>2, CommitsOnlyAdded

LEMMA AncestryStep ==
  ASSUME TypeOK, Known, Ancestry, [Next]_vars
  PROVE  Ancestry'
<1>1. CASE UNCHANGED commitVars
  BY <1>1 DEF commitVars, Ancestry
<1>2. ASSUME NEW p \in Commit, NEW a \in Job \cup {None},
             anc[p] # {}, NewCommit(FreshCommit, p, a)
      PROVE  Ancestry'
  <2> DEFINE f == FreshCommit
  <2>1. f \in Commit /\ anc[f] = {}
    BY <1>2, FreshIsFresh DEF NewCommit
  <2> HIDE DEF f
  <2>2. anc' = [anc EXCEPT ![f] = anc[p] \cup {f}]
    BY <1>2 DEF NewCommit, f
  <2>3. /\ anc'[f] = anc[p] \cup {f}
        /\ \A c \in Commit : c # f => anc'[c] = anc[c]
    BY <2>1, <2>2 DEF TypeOK
  <2>4. \A c \in Commit : anc'[c] # {} => c \in anc'[c]
    BY <2>1, <2>3 DEF Ancestry
  <2>5. ASSUME NEW c \in Commit, NEW d \in anc'[c]
        PROVE  anc'[d] # {} /\ anc'[d] \subseteq anc'[c]
    <3>1. CASE c = f /\ d = f
      BY <2>3, <3>1
    <3>2. CASE c = f /\ d # f
      <4>1. d \in anc[p]
        BY <2>3, <2>5, <3>2
      <4>2. d \in Commit /\ anc[d] # {} /\ anc[d] \subseteq anc[p]
        BY <4>1 DEF TypeOK, Ancestry
      <4> QED
        BY <2>3, <3>2, <4>2
    <3>3. CASE c # f
      <4>1. d \in anc[c] /\ d \in Commit /\ anc[d] # {} /\ anc[d] \subseteq anc[c]
        BY <2>3, <2>5, <3>3 DEF TypeOK, Ancestry
      <4>2. d # f
        BY <2>1, <4>1
      <4> QED
        BY <2>3, <3>3, <4>1, <4>2
    <3> QED
      BY <3>1, <3>2, <3>3
  <2>6. anc'[Root] # {}
    BY <2>1, <2>3 DEF Ancestry
  <2> QED
    BY <2>4, <2>5, <2>6 DEF Ancestry
<1> QED
  BY <1>1, <1>2, CommitsOnlyAdded

(* Main moves only by applying a push that extends it, or by an outsider's *)
(* fast-forward.                                                           *)
LEMMA MainStep ==
  ASSUME TypeOK, [Next]_vars
  PROVE  \/ main' = main
         \/ main' \in pushInFlight /\ main \in anc[main'] /\ UNCHANGED commitVars
         \/ main' = FreshCommit /\ NewCommit(FreshCommit, main, None)
<1>1. ASSUME NEW j \in Job, JobStep(j) \/ RunnerLost(j) PROVE main' = main
  BY <1>1 DEF JobStep, Checkout, Build, Observe, Push, Readback, Pull, PushPlain,
              SendMain, RequireMain, FindTag, PushTag, ConfirmTag, Report,
              RunnerLost, remoteVars
<1>2. ASSUME ApplyPush
      PROVE  main' \in pushInFlight /\ main \in anc[main'] /\ UNCHANGED commitVars
  BY <1>2 DEF ApplyPush, PushAccepted
<1>3. ASSUME ForeignPush
      PROVE  main' = FreshCommit /\ NewCommit(FreshCommit, main, None)
  BY <1>3 DEF ForeignPush
<1>4. ASSUME ApplyTag \/ ForeignTag PROVE main' = main
  BY <1>4 DEF ApplyTag, ForeignTag
<1>5. CASE UNCHANGED vars
  BY <1>5 DEF vars, remoteVars
<1> QED
  BY <1>1, <1>2, <1>3, <1>4, <1>5 DEF Next

LEMMA HistoryGrows ==
  ASSUME TypeOK, Known, Ancestry, [Next]_vars
  PROVE  anc[main] \subseteq anc'[main'] /\ anc'[main'] # {}
<1>0. main \in Commit /\ anc[main] # {} /\ anc'[main] = anc[main]
  BY OldCommitsStay DEF TypeOK, Known
<1>1. CASE main' = main
  BY <1>0, <1>1
<1>2. CASE main' \in pushInFlight /\ main \in anc[main'] /\ UNCHANGED commitVars
  <2>1. main' \in Commit
    BY <1>2 DEF TypeOK
  <2>2. anc[main] \subseteq anc[main']
    BY <1>2, <2>1 DEF Ancestry
  <2> QED
    BY <1>0, <1>2, <2>2 DEF commitVars
<1>3. CASE main' = FreshCommit /\ NewCommit(FreshCommit, main, None)
  <2>1. FreshCommit \in Commit
    BY <1>3, FreshIsFresh DEF NewCommit
  <2>2. anc'[FreshCommit] = anc[main] \cup {FreshCommit}
    BY <1>3, <2>1 DEF NewCommit, TypeOK
  <2> QED
    BY <1>3, <2>2
<1> QED
  BY <1>1, <1>2, <1>3, MainStep

LEMMA KnownStep ==
  ASSUME TypeOK, Known, Ancestry, [Next]_vars
  PROVE  Known'
<1>1. anc'[main'] # {}
  BY HistoryGrows
<1>2. \A c \in Commit : anc[c] # {} => anc'[c] # {}
  BY OldCommitsStay
<1>3. \/ FreshCommit \in Commit /\ anc'[FreshCommit] # {}
      \/ UNCHANGED commitVars
  <2>1. ASSUME NEW p \in Commit, NEW a \in Job \cup {None},
               anc[p] # {}, NewCommit(FreshCommit, p, a)
        PROVE  FreshCommit \in Commit /\ anc'[FreshCommit] # {}
    <3>1. FreshCommit \in Commit
      BY <2>1, FreshIsFresh DEF NewCommit
    <3> QED
      BY <2>1, <3>1 DEF NewCommit, TypeOK
  <2> QED
    BY <2>1, CommitsOnlyAdded
<1>4. /\ \A j \in Job : anc[base[j]] # {} /\ anc[cand[j]] # {}
      /\ \A j \in Job : base[j] \in Commit /\ cand[j] \in Commit
      /\ main \in Commit /\ anc[main] # {}
      /\ base \in [Job -> Commit] /\ cand \in [Job -> Commit]
  BY DEF Known, TypeOK
<1>5. ASSUME NEW i \in Job PROVE anc'[base'[i]] # {} /\ anc'[cand'[i]] # {}
  <2>1. ASSUME NEW j \in Job, JobStep(j) \/ RunnerLost(j)
        PROVE  /\ base'[i] \in {base[i], main}
               /\ \/ cand'[i] \in {cand[i], main}
                  \/ cand'[i] = FreshCommit /\ NewCommit(FreshCommit, base[j], j)
                  \/ cand'[i] = FreshCommit /\ NewCommit(FreshCommit, main, j)
    BY <2>1, <1>4 DEF JobStep, Checkout, Build, Observe, Push, Readback, Pull, PushPlain,
              RequireMain, FindTag, PushTag, ConfirmTag, Report, RunnerLost
  <2>2. ASSUME NEW j \in Job, NEW p \in Commit, anc[p] # {}, NewCommit(FreshCommit, p, j)
        PROVE  FreshCommit \in Commit /\ anc'[FreshCommit] # {}
    <3>1. FreshCommit \in Commit
      BY <2>2, FreshIsFresh DEF NewCommit
    <3> QED
      BY <2>2, <3>1 DEF NewCommit, TypeOK
  <2>3. CASE \E j \in Job : JobStep(j) \/ RunnerLost(j)
    BY <1>2, <1>4, <2>1, <2>2, <2>3
  <2>4. CASE UNCHANGED <<base, cand>>
    BY <1>2, <1>4, <2>4
  <2>5. ApplyPush \/ ApplyTag \/ ForeignPush \/ ForeignTag \/ UNCHANGED vars
        => UNCHANGED <<base, cand>>
    BY DEF ApplyPush, ApplyTag, ForeignPush, ForeignTag, vars, jobVars
  <2> QED
    BY <2>3, <2>4, <2>5 DEF Next
<1>6. ASSUME NEW c \in pushInFlight' PROVE anc'[c] # {}
  <2>1. c \in pushInFlight \/ \E j \in Job : c = cand[j]
    BY <1>6 DEF Next, JobStep, Checkout, Build, Observe, Push, Readback, Pull, PushPlain,
              SendMain, RequireMain, FindTag, PushTag, ConfirmTag, Report, RunnerLost,
              ApplyPush, ApplyTag, ForeignPush, ForeignTag, vars, remoteVars
  <2>2. c \in Commit /\ anc[c] # {}
    BY <2>1 DEF Known, TypeOK
  <2> QED
    BY <1>2, <2>2
<1> QED
  BY <1>1, <1>5, <1>6 DEF Known

-----------------------------------------------------------------------------
(* Tags and jobs.                                                          *)

LEMMA TagsStay ==
  ASSUME TypeOK, [Next]_vars, NEW c \in Commit
  PROVE  /\ tags[c] = c => tags'[c] = c
         /\ tags'[c] = c => tags[c] = c \/ c \in tagInFlight
<1> USE DEF TypeOK
<1>1. ASSUME NEW j \in Job, JobStep(j) \/ RunnerLost(j) PROVE tags' = tags
  BY <1>1 DEF JobStep, Checkout, Build, Observe, Push, Readback, Pull, PushPlain,
              SendMain, RequireMain, FindTag, PushTag, ConfirmTag, Report,
              RunnerLost, remoteVars
<1>2. ASSUME ApplyTag
      PROVE  /\ tags[c] = c => tags'[c] = c
             /\ tags'[c] = c => tags[c] = c \/ c \in tagInFlight
  BY <1>2 DEF ApplyTag
<1>3. ASSUME ForeignTag
      PROVE  /\ tags[c] = c => tags'[c] = c
             /\ tags'[c] = c => tags[c] = c
  BY <1>3 DEF ForeignTag, Made
<1>4. ASSUME ApplyPush \/ ForeignPush \/ UNCHANGED vars PROVE tags' = tags
  BY <1>4 DEF ApplyPush, ForeignPush, vars, remoteVars
<1> QED
  BY <1>1, <1>2, <1>3, <1>4 DEF Next

LEMMA OtherJobs ==
  ASSUME TypeOK, NEW j \in Job, JobStep(j) \/ RunnerLost(j), NEW i \in Job \ {j}
  PROVE  /\ pc'[i] = pc[i] /\ base'[i] = base[i]
         /\ cand'[i] = cand[i] /\ verdict'[i] = verdict[i]
BY DEF TypeOK, JobStep, Checkout, Build, Observe, Push, Readback, Pull, PushPlain,
       RequireMain, FindTag, PushTag, ConfirmTag, Report, RunnerLost,
       Goto, Enter, End, Retry

LEMMA OutsideSteps ==
  ASSUME ApplyPush \/ ApplyTag \/ ForeignPush \/ ForeignTag \/ UNCHANGED vars
  PROVE  UNCHANGED jobVars
BY DEF ApplyPush, ApplyTag, ForeignPush, ForeignTag, vars

(* What the step of a job says about that job.                             *)
LEMMA OwnPhase ==
  ASSUME TypeOK, Ancestry, Known, Phases, NEW j \in Job, JobStep(j) \/ RunnerLost(j)
  PROVE  /\ pc'[j] \in Verifying => cand'[j] \in anc[main]
         /\ pc'[j] = "t_final" => tags[cand'[j]] = cand'[j]
         /\ pc'[j] # "done" => verdict'[j] = "none"
         /\ verdict'[j] = "verified" =>
              /\ cand'[j] = cand[j]
              /\ \/ verdict[j] = "verified"
                 \/ cand[j] \in anc[main] /\ tags[cand[j]] = cand[j]
<1> USE DEF TypeOK, Phases, Verifying, Goto, Enter, End
<1>0. main \in Commit /\ main \in anc[main]
  BY DEF Ancestry, Known
<1>1. CASE Checkout(j)
  BY <1>1 DEF Checkout
<1>2. CASE Build(j)
  BY <1>2 DEF Build
<1>3. CASE Observe(j)
  BY <1>3 DEF Observe, Retry
<1>4. CASE Push(j)
  BY <1>4 DEF Push
<1>5. CASE Readback(j)
  BY <1>5 DEF Readback, Retry
<1>6. CASE Pull(j)
  BY <1>6 DEF Pull
<1>7. CASE PushPlain(j)
  BY <1>7 DEF PushPlain, Retry
<1>8. CASE RequireMain(j)
  BY <1>0, <1>8 DEF RequireMain, AfterIdentity, ReadMain, MainMismatch
<1>9. CASE FindTag(j)
  BY <1>9 DEF FindTag, ReadTag
<1>10. CASE PushTag(j)
  BY <1>10 DEF PushTag
<1>11. CASE ConfirmTag(j)
  BY <1>11 DEF ConfirmTag, ReadTag, Retry
<1>12. CASE Report(j)
  BY <1>12 DEF Report, MainMismatch
<1>13. CASE RunnerLost(j)
  BY <1>13 DEF RunnerLost
<1> QED
  BY <1>1, <1>2, <1>3, <1>4, <1>5, <1>6, <1>7, <1>8, <1>9, <1>10, <1>11, <1>12,
     <1>13 DEF JobStep

LEMMA PhasesStep ==
  ASSUME TypeOK, Ancestry, Known, Phases, ReceiptIsDurable, [Next]_vars
  PROVE  Phases' /\ ReceiptIsDurable'
<1>1. anc[main] \subseteq anc'[main']
  BY HistoryGrows
<1>2. TypeOK'
  BY TypeStep
<1>3. ASSUME NEW j \in Job, JobStep(j) \/ RunnerLost(j)
      PROVE  Phases' /\ ReceiptIsDurable'
  <2>1. ASSUME NEW i \in Job
        PROVE  /\ pc'[i] \in Verifying => cand'[i] \in anc[main]
               /\ pc'[i] = "t_final" => tags[cand'[i]] = cand'[i]
               /\ pc'[i] # "done" => verdict'[i] = "none"
               /\ verdict'[i] = "verified" =>
                    cand'[i] \in anc[main] /\ tags[cand'[i]] = cand'[i]
    <3>1. CASE i = j
      BY <1>3, <3>1, OwnPhase DEF ReceiptIsDurable
    <3>2. CASE i # j
      BY <1>3, <3>2, OtherJobs DEF Phases, ReceiptIsDurable
    <3> QED
      BY <3>1, <3>2
  <2>2. \A i \in Job : cand'[i] \in Commit
    BY <1>2 DEF TypeOK
  <2> QED
    BY <1>1, <2>1, <2>2, TagsStay DEF Phases, ReceiptIsDurable
<1>4. ASSUME UNCHANGED jobVars PROVE Phases' /\ ReceiptIsDurable'
  <2>1. \A i \in Job : cand[i] \in Commit
    BY DEF TypeOK
  <2> QED
    BY <1>1, <1>4, <2>1, TagsStay DEF Phases, ReceiptIsDurable, jobVars
<1> QED
  BY <1>3, <1>4, OutsideSteps DEF Next

LEMMA AnchorsStep ==
  ASSUME TypeOK, Ancestry, Known, Phases, AnchorsAreOnMain, [Next]_vars
  PROVE  AnchorsAreOnMain'
<1>1. anc[main] \subseteq anc'[main']
  BY HistoryGrows
<1>2. ASSUME NEW c \in tagInFlight' PROVE c \in anc[main]
  <2>1. CASE c \in tagInFlight
    BY <2>1 DEF AnchorsAreOnMain, TypeOK
  <2>2. CASE c \notin tagInFlight
    <3>1. \E j \in Job : PushTag(j)
      BY <1>2, <2>2 DEF Next, JobStep, Checkout, Build, Observe, Push, Readback,
         Pull, PushPlain, SendMain, RequireMain, FindTag, ConfirmTag, Report,
         RunnerLost, ApplyPush, ApplyTag, ForeignPush, ForeignTag, vars, remoteVars
    <3>2. PICK j \in Job : PushTag(j)
      BY <3>1
    <3>3. c = cand[j] /\ pc[j] = "t_push"
      BY <1>2, <2>2, <3>2 DEF PushTag
    <3> QED
      BY <3>3 DEF Phases, Verifying
  <2> QED
    BY <2>1, <2>2
<1>3. ASSUME NEW c \in Commit, tags'[c] = c PROVE c \in anc[main]
  BY <1>3, TagsStay DEF AnchorsAreOnMain
<1>4. tagInFlight' \subseteq Commit
  BY TypeStep DEF TypeOK
<1> QED
  BY <1>1, <1>2, <1>3, <1>4 DEF AnchorsAreOnMain

-----------------------------------------------------------------------------
(* The commits of proof jobs.                                              *)

(* A commit somebody makes: who makes it, on what, and what that job does  *)
(* next.                                                                   *)
LEMMA NewCommitIsBuilt ==
  ASSUME TypeOK, [Next]_vars, NEW i \in ProofJob, pc[i] \notin {"pull", "push_plain"}
  PROVE  \/ \A c \in Commit : (anc[c] = {} /\ anc'[c] # {}) => author'[c] # i
         \/ /\ pc[i] = "build" /\ pc'[i] = "observe" /\ base'[i] = base[i]
            /\ NewCommit(FreshCommit, base[i], i)
<1> USE DEF TypeOK
<1>1. CASE UNCHANGED commitVars
  BY <1>1 DEF commitVars
<1>2. ASSUME NEW p, NEW a \in (Job \cup {None}) \ {i}, NewCommit(FreshCommit, p, a)
      PROVE  \A c \in Commit : (anc[c] = {} /\ anc'[c] # {}) => author'[c] # i
  <2>1. FreshCommit \in Commit
    BY <1>2, FreshIsFresh DEF NewCommit
  <2> QED
    BY <1>2, <2>1 DEF NewCommit
<1>3. ASSUME NEW j \in Job, Build(j) \/ Pull(j)
      PROVE  \/ UNCHANGED commitVars
             \/ j # i /\ \E p : NewCommit(FreshCommit, p, j)
             \/ /\ pc[i] = "build" /\ pc'[i] = "observe" /\ base'[i] = base[i]
                /\ NewCommit(FreshCommit, base[i], i)
  BY <1>3 DEF Build, Pull, Enter, PublishesExactly
<1>4. ASSUME NEW j \in Job, JobStep(j) \/ RunnerLost(j), ~Build(j), ~Pull(j)
      PROVE  UNCHANGED commitVars
  BY <1>4 DEF JobStep, Checkout, Observe, Push, Readback, PushPlain, RequireMain,
              FindTag, PushTag, ConfirmTag, Report, RunnerLost
<1>5. ASSUME ApplyPush \/ ApplyTag \/ ForeignTag \/ UNCHANGED vars
      PROVE  UNCHANGED commitVars
  BY <1>5 DEF ApplyPush, ApplyTag, ForeignTag, vars
<1>6. CASE ForeignPush
  BY <1>2, <1>6 DEF ForeignPush
<1> QED
  BY <1>1, <1>2, <1>3, <1>4, <1>5, <1>6 DEF Next, JobStep

LEMMA ProofJobPaths ==
  ASSUME TypeOK, [Next]_vars, NEW i \in ProofJob, pc[i] \notin {"pull", "push_plain"}
  PROVE  /\ pc'[i] \notin {"pull", "push_plain"}
         /\ pc[i] \notin {"queued", "build"} =>
              pc'[i] \notin {"queued", "build"} /\ base'[i] = base[i]
<1> USE DEF TypeOK, Goto, Enter, End, Retry
<1>1. ASSUME NEW j \in Job, JobStep(j) \/ RunnerLost(j), i # j
      PROVE  pc'[i] = pc[i] /\ base'[i] = base[i]
  BY <1>1, OtherJobs
<1>2. CASE JobStep(i) \/ RunnerLost(i)
  <2>1. CASE Checkout(i)
    BY <2>1 DEF Checkout
  <2>2. CASE Build(i)
    BY <2>2 DEF Build, PublishesExactly
  <2>3. CASE Observe(i) \/ Readback(i) \/ Push(i)
    BY <2>3 DEF Observe, Readback, Push
  <2>4. CASE RequireMain(i)
    BY <2>4 DEF RequireMain, AfterIdentity
  <2>5. CASE FindTag(i) \/ PushTag(i) \/ ConfirmTag(i) \/ Report(i) \/ RunnerLost(i)
    BY <2>5 DEF FindTag, PushTag, ConfirmTag, Report, RunnerLost
  <2>6. CASE Pull(i) \/ PushPlain(i)
    BY <2>6 DEF Pull, PushPlain
  <2> QED
    BY <1>2, <2>1, <2>2, <2>3, <2>4, <2>5, <2>6 DEF JobStep
<1>3. ASSUME UNCHANGED jobVars PROVE pc' = pc /\ base' = base
  BY <1>3 DEF jobVars
<1> QED
  BY <1>1, <1>2, <1>3, OutsideSteps DEF Next

LEMMA ProofCommitsStep ==
  ASSUME TypeOK, Ancestry, Known, ProofCommits, [Next]_vars
  PROVE  ProofCommits'
<1> SUFFICES ASSUME NEW i \in ProofJob
             PROVE  /\ pc'[i] \notin {"pull", "push_plain"}
                    /\ \A c \in Commit : (anc'[c] # {} /\ author'[c] = i) =>
                         /\ pc'[i] \notin {"queued", "build"}
                         /\ anc'[c] = anc'[base'[i]] \cup {c}
  BY DEF ProofCommits
<1>1. pc[i] \notin {"pull", "push_plain"}
  BY DEF ProofCommits
<1>2. pc'[i] \notin {"pull", "push_plain"}
  BY <1>1, ProofJobPaths
<1>3. base[i] \in Commit /\ anc[base[i]] # {}
  BY DEF TypeOK, Known
<1>4. anc'[base[i]] = anc[base[i]]
  BY <1>3, OldCommitsStay
<1>5. ASSUME NEW c \in Commit, anc'[c] # {}, author'[c] = i
      PROVE  pc'[i] \notin {"queued", "build"} /\ anc'[c] = anc'[base'[i]] \cup {c}
  <2>1. CASE anc[c] # {}
    <3>1. anc'[c] = anc[c] /\ author[c] = i
      BY <1>5, <2>1, OldCommitsStay
    <3>2. pc[i] \notin {"queued", "build"} /\ anc[c] = anc[base[i]] \cup {c}
      BY <2>1, <3>1 DEF ProofCommits
    <3>3. pc'[i] \notin {"queued", "build"} /\ base'[i] = base[i]
      BY <1>1, <3>2, ProofJobPaths
    <3> QED
      BY <1>4, <3>1, <3>2, <3>3
  <2>2. CASE anc[c] = {}
    <3>1. /\ pc'[i] = "observe" /\ base'[i] = base[i]
          /\ NewCommit(FreshCommit, base[i], i)
      BY <1>1, <1>5, <2>2, NewCommitIsBuilt
    <3>2. FreshCommit \in Commit
      BY <3>1, FreshIsFresh DEF NewCommit
    <3>3. anc' = [anc EXCEPT ![FreshCommit] = anc[base[i]] \cup {FreshCommit}]
      BY <3>1 DEF NewCommit
    <3>4. c = FreshCommit
      BY <1>5, <2>2, <3>3 DEF TypeOK
    <3> QED
      BY <1>4, <3>1, <3>2, <3>3, <3>4 DEF TypeOK
  <2> QED
    BY <2>1, <2>2
<1> QED
  BY <1>2, <1>5

-----------------------------------------------------------------------------
(* Landing once, and who disturbs whom.                                    *)
(*                                                                         *)
(* A commit can still land, or has landed, exactly when it is comparable   *)
(* with main.  A job makes a new commit only when its old one is not, and  *)
(* what is not comparable never becomes so again: all of a job's commits   *)
(* but one are dead, whatever of them is still in flight.                  *)

Live(c) == c \in anc[main] \/ main \in anc[c]

Antisymmetric ==
  \A c, d \in Commit : (c \in anc[d] /\ d \in anc[c]) => c = d

(* Commits are made on main; a candidate is the job's own or has landed.   *)
OnMain ==
  /\ \A c \in Made : anc[c] \ {c} \subseteq anc[main]
  /\ \A j \in Job : /\ base[j] \in anc[main]
                    /\ cand[j] \in anc[main] \/ author[cand[j]] = j
                    /\ pc[j] = "build" => base[j] = cand[j]

(* What a job made and is not dead is its candidate, or both have landed.  *)
OwnCommits ==
  \A c \in Made : author[c] \in Job =>
    /\ pc[author[c]] \notin {"queued", "build"}
    /\ Live(c) => c = cand[author[c]] \/ {c, cand[author[c]]} \subseteq anc[main]

OneLives ==
  \A c, d \in Made :
    (author[c] = author[d] /\ author[c] # None /\ Live(c) /\ Live(d)) => c = d

(* What is in flight has landed, or was sent by the job that made it.      *)
Messages ==
  \A c \in pushInFlight :
    c \in anc[main] \/ (author[c] \in Job /\ sent[author[c]])

Active(j) == pc[j] \notin {"queued", "done"}

Queue ==
  \A j \in Job :
    /\ Active(j) => holder = j
    /\ pc[j] = "done" => verdict[j] # "none"

(* An outsider wrote, or an earlier job sent something and did not confirm.*)
Disturbed(j) ==
  \/ foreignPushes > 0
  \/ \E i \in Job \ {j} : sent[i] /\ verdict[i] \in {"moved", "failed"}

(* Otherwise main is what the running job checked out, or its candidate.   *)
Calm(j) == main \in {base[j], cand[j]} /\ base[j] \in anc[cand[j]]

CalmWhileRunning ==
  \A j \in Job : Active(j) => Disturbed(j) \/ Calm(j)

Landing ==
  /\ Antisymmetric /\ OnMain /\ OwnCommits /\ OneLives /\ Messages
  /\ Queue /\ CalmWhileRunning /\ QueueMembersDoNotCollide

LEMMA NewCommitEffect ==
  ASSUME TypeOK, NEW p \in Commit, NEW a \in Job \cup {None}, NewCommit(FreshCommit, p, a)
  PROVE  /\ FreshCommit \in Commit /\ anc[FreshCommit] = {}
         /\ anc'[FreshCommit] = anc[p] \cup {FreshCommit} /\ author'[FreshCommit] = a
         /\ \A c \in Commit \ {FreshCommit} : anc'[c] = anc[c] /\ author'[c] = author[c]
<1>1. FreshCommit \in Commit /\ anc[FreshCommit] = {}
  BY FreshIsFresh DEF NewCommit
<1> QED
  BY <1>1 DEF NewCommit, TypeOK

(* Who makes a commit, on what, and why.                                   *)
LEMMA Makers ==
  ASSUME TypeOK, [Next]_vars
  PROVE  \/ UNCHANGED commitVars
         \/ \E j \in Job :
              /\ cand'[j] = FreshCommit
              /\ pc'[j] \notin {"queued", "build"}
              /\ \/ pc[j] = "build" /\ NewCommit(FreshCommit, base[j], j)
                 \/ ~Live(cand[j]) /\ NewCommit(FreshCommit, main, j)
         \/ NewCommit(FreshCommit, main, None)
<1> USE DEF TypeOK, commitVars
<1>1. ASSUME NEW j \in Job, Build(j)
      PROVE  \/ UNCHANGED commitVars
             \/ /\ cand'[j] = FreshCommit /\ pc'[j] \notin {"queued", "build"}
                /\ pc[j] = "build" /\ NewCommit(FreshCommit, base[j], j)
  BY <1>1 DEF Build, Enter
<1>2. ASSUME NEW j \in Job, Pull(j)
      PROVE  \/ UNCHANGED commitVars
             \/ /\ cand'[j] = FreshCommit /\ pc'[j] \notin {"queued", "build"}
                /\ ~Live(cand[j]) /\ NewCommit(FreshCommit, main, j)
  BY <1>2 DEF Pull, Goto, AlreadyLanded, Live
<1>3. ASSUME NEW j \in Job, JobStep(j) \/ RunnerLost(j), ~Build(j), ~Pull(j)
      PROVE  UNCHANGED commitVars
  BY <1>3 DEF JobStep, Checkout, Observe, Push, Readback, PushPlain, RequireMain,
              FindTag, PushTag, ConfirmTag, Report, RunnerLost
<1>4. ASSUME ApplyPush \/ ApplyTag \/ ForeignTag \/ UNCHANGED vars
      PROVE  UNCHANGED commitVars
  BY <1>4 DEF ApplyPush, ApplyTag, ForeignTag, vars
<1>5. ASSUME ForeignPush PROVE NewCommit(FreshCommit, main, None)
  BY <1>5 DEF ForeignPush
<1> QED
  BY <1>1, <1>2, <1>3, <1>4, <1>5 DEF Next, JobStep

LEMMA AntisymmetricStep ==
  ASSUME TypeOK, Ancestry, Known, Antisymmetric, [Next]_vars
  PROVE  Antisymmetric'
<1>1. CASE UNCHANGED commitVars
  BY <1>1 DEF commitVars, Antisymmetric
<1>2. ASSUME NEW p \in Commit, NEW a \in Job \cup {None},
             anc[p] # {}, NewCommit(FreshCommit, p, a)
      PROVE  Antisymmetric'
  <2> DEFINE f == FreshCommit
  <2>1. /\ f \in Commit /\ anc[f] = {}
        /\ anc'[f] = anc[p] \cup {f}
        /\ \A c \in Commit \ {f} : anc'[c] = anc[c]
    BY <1>2, NewCommitEffect
  <2> HIDE DEF f
  <2>2. \A c \in Commit : f \notin anc[c]
    BY <1>2, <2>1 DEF Ancestry
  <2> QED
    BY <2>1, <2>2 DEF Antisymmetric
<1> QED
  BY <1>1, <1>2, CommitsOnlyAdded

(* What happened stays, and the dead stay dead.                            *)
LEMMA DeadStayDead ==
  ASSUME TypeOK, Ancestry, Known, OnMain, [Next]_vars,
         NEW c \in Commit, anc[c] # {}, Live(c)'
  PROVE  Live(c)
<1>0. main \in Commit /\ anc[main] # {} /\ anc'[c] = anc[c]
  BY OldCommitsStay DEF TypeOK, Known
<1>1. CASE main' = main
  <2>1. anc'[main] = anc[main]
    BY <1>0, OldCommitsStay
  <2> QED
    BY <1>0, <1>1, <2>1 DEF Live
<1>2. CASE main' \in pushInFlight /\ main \in anc[main'] /\ UNCHANGED commitVars
  <2>1. main' \in Commit /\ anc[main'] # {}
    BY <1>2 DEF TypeOK, Known
  <2>2. anc[main'] \ {main'} \subseteq anc[main]
    BY <2>1 DEF OnMain, Made
  <2>3. c \in anc[main'] \/ main' \in anc[c]
    BY <1>2 DEF Live, commitVars
  <2>4. CASE c \in anc[main'] /\ c # main'
    BY <2>2, <2>4 DEF Live
  <2>5. CASE c = main'
    BY <1>2, <2>5 DEF Live
  <2>6. CASE main' \in anc[c]
    <3>1. anc[main'] \subseteq anc[c]
      BY <2>6 DEF Ancestry
    <3> QED
      BY <1>2, <3>1 DEF Live
  <2> QED
    BY <2>3, <2>4, <2>5, <2>6
<1>3. CASE main' = FreshCommit /\ NewCommit(FreshCommit, main, None)
  <2>1. /\ FreshCommit \in Commit /\ anc[FreshCommit] = {}
        /\ anc'[FreshCommit] = anc[main] \cup {FreshCommit}
    BY <1>0, <1>3, NewCommitEffect
  <2>2. FreshCommit \notin anc[c] /\ c # FreshCommit
    BY <2>1 DEF Ancestry
  <2> QED
    BY <1>0, <1>3, <2>1, <2>2 DEF Live
<1> QED
  BY <1>1, <1>2, <1>3, MainStep

(* Where a job can go from the commit it has.                              *)
LEMMA JobPaths ==
  ASSUME TypeOK, [Next]_vars, NEW i \in Job
  PROVE  /\ base'[i] = base[i] \/ base'[i] = main
         /\ pc[i] \notin {"queued", "build"} =>
              /\ pc'[i] \notin {"queued", "build"}
              /\ \/ cand'[i] = cand[i]
                 \/ cand'[i] = main /\ cand[i] \in anc[main]
                 \/ ~Live(cand[i])
         /\ \/ cand'[i] = cand[i] \/ cand'[i] = main
            \/ /\ cand'[i] = FreshCommit
               /\ NewCommit(FreshCommit, base[i], i) \/ NewCommit(FreshCommit, main, i)
         /\ pc'[i] = "build" => base'[i] = cand'[i] \/ UNCHANGED <<base[i], cand[i], pc[i]>>
<1> USE DEF TypeOK, Goto, Enter, End, Retry
<1>1. ASSUME UNCHANGED jobVars PROVE UNCHANGED <<pc[i], base[i], cand[i]>>
  BY <1>1 DEF jobVars
<1>2. ASSUME NEW j \in Job, JobStep(j) \/ RunnerLost(j), i # j
      PROVE  UNCHANGED <<pc[i], base[i], cand[i]>>
  BY <1>2, OtherJobs
<1>3. CASE Checkout(i)
  BY <1>3 DEF Checkout
<1>4. CASE Build(i)
  BY <1>4 DEF Build
<1>5. CASE Observe(i) \/ Push(i) \/ Readback(i)
  BY <1>5 DEF Observe, Push, Readback
<1>6. CASE Pull(i)
  BY <1>6 DEF Pull, AlreadyLanded, Live
<1>7. CASE PushPlain(i)
  BY <1>7 DEF PushPlain
<1>8. CASE RequireMain(i)
  BY <1>8 DEF RequireMain, AfterIdentity
<1>9. CASE FindTag(i) \/ PushTag(i) \/ ConfirmTag(i) \/ Report(i) \/ RunnerLost(i)
  BY <1>9 DEF FindTag, PushTag, ConfirmTag, Report, RunnerLost
<1> QED
  BY <1>1, <1>2, <1>3, <1>4, <1>5, <1>6, <1>7, <1>8, <1>9, OutsideSteps
     DEF Next, JobStep

LEMMA OnMainStep ==
  ASSUME TypeOK, Ancestry, Known, OnMain, [Next]_vars
  PROVE  OnMain'
<1>0. /\ main \in Commit /\ anc[main] # {} /\ main \in anc[main]
      /\ \A j \in Job : base[j] \in Commit /\ cand[j] \in Commit
      /\ \A j \in Job : base[j] \in anc[main]
  BY DEF TypeOK, Known, Ancestry, OnMain
<1>1. anc[main] \subseteq anc'[main']
  BY HistoryGrows
<1>2. ASSUME NEW c \in Commit, anc'[c] # {} PROVE anc'[c] \ {c} \subseteq anc'[main']
  <2>1. CASE anc[c] # {}
    <3>1. anc[c] \ {c} \subseteq anc[main]
      BY <2>1 DEF OnMain, Made
    <3> QED
      BY <1>1, <2>1, <3>1, OldCommitsStay
  <2>2. ASSUME NEW p \in Commit, NEW a \in Job \cup {None}, NewCommit(FreshCommit, p, a),
               p \in anc[main], anc[c] = {}
        PROVE  anc'[c] \ {c} \subseteq anc'[main']
    <3>1. c = FreshCommit /\ anc'[c] = anc[p] \cup {c}
      BY <1>2, <2>2, NewCommitEffect
    <3>2. anc[p] \subseteq anc[main]
      BY <1>0, <2>2 DEF Ancestry
    <3> QED
      BY <1>1, <3>1, <3>2
  <2>3. CASE anc[c] = {}
    BY <1>0, <1>2, <2>2, <2>3, Makers DEF commitVars
  <2> QED
    BY <2>1, <2>3
<1>3. ASSUME NEW i \in Job
      PROVE  /\ base'[i] \in anc'[main']
             /\ cand'[i] \in anc'[main'] \/ author'[cand'[i]] = i
             /\ pc'[i] = "build" => base'[i] = cand'[i]
  <2>1. base'[i] \in anc'[main']
    BY <1>0, <1>1, JobPaths
  <2>2. CASE cand'[i] = cand[i]
    <3>1. author'[cand[i]] = author[cand[i]]
      BY <1>0, OldCommitsStay DEF Known
    <3> QED
      BY <1>1, <2>1, <2>2, <3>1, JobPaths DEF OnMain
  <2>3. CASE cand'[i] = main
    BY <1>0, <1>1, <2>1, <2>3, JobPaths DEF OnMain
  <2>4. CASE /\ cand'[i] = FreshCommit
             /\ NewCommit(FreshCommit, base[i], i) \/ NewCommit(FreshCommit, main, i)
    <3>1. author'[FreshCommit] = i /\ FreshCommit \in Commit /\ anc[FreshCommit] = {}
      BY <1>0, <2>4, NewCommitEffect
    <3>2. cand[i] # cand'[i]
      BY <2>4, <3>1 DEF Known
    <3> QED
      BY <2>1, <2>4, <3>1, <3>2, JobPaths DEF OnMain
  <2> QED
    BY <2>2, <2>3, <2>4, JobPaths
<1> QED
  BY <1>2, <1>3 DEF OnMain, Made

LEMMA OwnCommitsStep ==
  ASSUME TypeOK, Ancestry, Known, OnMain, OwnCommits, [Next]_vars
  PROVE  OwnCommits'
<1> SUFFICES ASSUME NEW c \in Commit, anc'[c] # {}, author'[c] \in Job
             PROVE  /\ pc'[author'[c]] \notin {"queued", "build"}
                    /\ Live(c)' => \/ c = cand'[author'[c]]
                                   \/ {c, cand'[author'[c]]} \subseteq anc'[main']
  BY DEF OwnCommits, Made
<1> DEFINE i == author'[c]
<1> HIDE DEF i
<1>0. /\ i \in Job /\ i = author'[c]
      /\ main \in Commit /\ main \in anc[main] /\ anc[main] \subseteq anc'[main']
  BY HistoryGrows DEF i, TypeOK, Known, Ancestry
<1>1. CASE anc[c] # {}
  <2>1. author[c] = i /\ c \in Made
    BY <1>0, <1>1, OldCommitsStay DEF Made
  <2>2. pc[i] \notin {"queued", "build"}
    BY <1>0, <2>1 DEF OwnCommits
  <2>3. Live(c) => c = cand[i] \/ {c, cand[i]} \subseteq anc[main]
    BY <1>0, <2>1 DEF OwnCommits
  <2>4. Live(c)' => Live(c)
    BY <1>1, DeadStayDead
  <2>5. \/ cand'[i] = cand[i]
        \/ cand'[i] = main /\ cand[i] \in anc[main]
        \/ ~Live(cand[i])
    BY <1>0, <2>2, JobPaths
  <2>6. ~Live(cand[i]) => cand[i] \notin anc[main]
    BY DEF Live
  <2>7. Live(c) => c = cand'[i] \/ {c, cand'[i]} \subseteq anc[main]
    BY <1>0, <2>3, <2>5, <2>6
  <2>8. pc'[i] \notin {"queued", "build"}
    BY <1>0, <2>2, JobPaths
  <2> QED
    BY <1>0, <2>4, <2>7, <2>8
<1>2. CASE anc[c] = {}
  <2>1. ASSUME NEW p \in Commit, NEW a \in Job \cup {None}, NewCommit(FreshCommit, p, a)
        PROVE  c = FreshCommit /\ a = i
    BY <1>0, <1>2, <2>1, NewCommitEffect
  <2>2. cand'[i] = c /\ pc'[i] \notin {"queued", "build"}
    <3>1. CASE \E j \in Job :
                 /\ cand'[j] = FreshCommit
                 /\ pc'[j] \notin {"queued", "build"}
                 /\ \/ NewCommit(FreshCommit, base[j], j)
                    \/ NewCommit(FreshCommit, main, j)
      BY <1>0, <2>1, <3>1 DEF TypeOK
    <3>2. ~NewCommit(FreshCommit, main, None)
      BY <1>0, <2>1
    <3>3. ~UNCHANGED commitVars
      BY <1>2 DEF commitVars
    <3> QED
      BY <3>1, <3>2, <3>3, Makers
  <2> QED
    BY <1>0, <2>2
<1> QED
  BY <1>1, <1>2

LEMMA OneLivesStep ==
  ASSUME TypeOK, Ancestry, Known, OnMain, OwnCommits, OneLives, [Next]_vars
  PROVE  OneLives'
<1>0. /\ main \in Commit /\ \A j \in Job : base[j] \in Commit /\ cand[j] \in Commit
      /\ author \in [Commit -> Job \cup {None}]
  BY DEF TypeOK
(* A new commit of a job meets only dead ones of the same job.             *)
<1>1. ASSUME NEW f \in Commit, anc[f] = {}, anc'[f] # {}, author'[f] # None,
             NEW d \in Commit, anc[d] # {}, author[d] = author'[f]
      PROVE  ~Live(d)
  <2>1. ASSUME NEW p \in Commit, NEW a \in Job \cup {None}, NewCommit(FreshCommit, p, a)
        PROVE  f = FreshCommit /\ a = author'[f]
    BY <1>1, <2>1, NewCommitEffect
  <2>2. PICK j \in Job : /\ j = author'[f]
                         /\ pc[j] = "build" \/ ~Live(cand[j])
    <3>1. ~UNCHANGED commitVars
      BY <1>1 DEF commitVars
    <3>2. ~NewCommit(FreshCommit, main, None)
      BY <1>0, <1>1, <2>1
    <3> QED
      BY <1>0, <2>1, <3>1, <3>2, Makers
  <2>3. /\ pc[j] # "build"
        /\ Live(d) => d = cand[j] \/ cand[j] \in anc[main]
    BY <1>1, <2>2 DEF OwnCommits, Made
  <2>4. ~Live(cand[j]) => cand[j] \notin anc[main]
    BY DEF Live
  <2> QED
    BY <2>2, <2>3, <2>4
<1>2. \A c \in Commit : anc[c] # {} => /\ author'[c] = author[c]
                                       /\ Live(c)' => Live(c)
  BY OldCommitsStay, DeadStayDead
(* At most one commit is new.                                              *)
<1>3. ASSUME NEW c \in Commit, NEW d \in Commit, anc[c] = {}, anc[d] = {},
             anc'[c] # {}, anc'[d] # {}
      PROVE  c = d
  <2>1. ASSUME NEW p \in Commit, NEW a \in Job \cup {None}, NewCommit(FreshCommit, p, a)
        PROVE  c = FreshCommit /\ d = FreshCommit
    BY <1>3, <2>1, NewCommitEffect
  <2>2. CASE UNCHANGED commitVars
    BY <1>3, <2>2 DEF commitVars
  <2> QED
    BY <2>1, <2>2, CommitsOnlyAdded
<1> SUFFICES ASSUME NEW c \in Commit, NEW d \in Commit, anc'[c] # {}, anc'[d] # {},
                    author'[c] = author'[d], author'[c] # None, Live(c)', Live(d)'
             PROVE  c = d
  BY DEF OneLives, Made
<1>4. CASE anc[c] # {} /\ anc[d] # {}
  BY <1>2, <1>4 DEF OneLives, Made
<1>5. CASE anc[c] = {} /\ anc[d] # {}
  BY <1>1, <1>2, <1>5
<1>6. CASE anc[c] # {} /\ anc[d] = {}
  BY <1>1, <1>2, <1>6
<1>7. CASE anc[c] = {} /\ anc[d] = {}
  BY <1>3, <1>7
<1> QED
  BY <1>4, <1>5, <1>6, <1>7

LEMMA MessagesStep ==
  ASSUME TypeOK, Ancestry, Known, OnMain, Messages, [Next]_vars
  PROVE  Messages'
<1>1. \A i \in Job : sent[i] => sent'[i]
  BY DEF TypeOK, Next, JobStep, Checkout, Build, Observe, Push, Readback, Pull, PushPlain,
         SendMain, RequireMain, FindTag, PushTag, ConfirmTag, Report, RunnerLost,
         ApplyPush, ApplyTag, ForeignPush, ForeignTag, vars, jobVars
<1>2. ASSUME NEW c \in pushInFlight', c \notin pushInFlight
      PROVE  \E j \in Job : c = cand[j] /\ sent'[j]
  <2>1. \A j \in Job, a \in BOOLEAN : SendMain(j, a) => c = cand[j] /\ sent'[j]
    BY <1>2 DEF SendMain, TypeOK
  <2> QED
    BY <1>2, <2>1 DEF Next, JobStep, Checkout, Build, Observe, Push, Readback, Pull, PushPlain,
         RequireMain, FindTag, PushTag, ConfirmTag, Report, RunnerLost,
         ApplyPush, ApplyTag, ForeignPush, ForeignTag, vars, remoteVars
<1>3. anc[main] \subseteq anc'[main']
  BY HistoryGrows
<1> SUFFICES ASSUME NEW c \in pushInFlight'
             PROVE  c \in anc'[main'] \/ (author'[c] \in Job /\ sent'[author'[c]])
  BY DEF Messages
<1>4. CASE c \in pushInFlight
  <2>1. c \in Commit /\ anc[c] # {}
    BY <1>4 DEF TypeOK, Known
  <2> QED
    BY <1>1, <1>3, <1>4, <2>1, OldCommitsStay DEF Messages
<1>5. CASE c \notin pushInFlight
  <2>1. PICK j \in Job : c = cand[j] /\ sent'[j]
    BY <1>2, <1>5
  <2>2. c \in Commit /\ anc[c] # {}
    BY <2>1 DEF TypeOK, Known
  <2> QED
    BY <1>3, <2>1, <2>2, OldCommitsStay DEF OnMain
<1> QED
  BY <1>4, <1>5

LEMMA QueueStep ==
  ASSUME TypeOK, Phases, Queue, [Next]_vars
  PROVE  Queue'
<1> USE DEF TypeOK, Active
<1>1. ASSUME NEW j \in Job, JobStep(j) \/ RunnerLost(j)
      PROVE  /\ holder = None \/ Active(j)
             /\ Active(j)' => holder' = j
             /\ holder' \in {j, None}
             /\ pc'[j] = "done" => verdict'[j] # "none"
  <2> USE DEF Goto, Enter, End, Retry, Queue
  <2>1. CASE Checkout(j)
    BY <2>1 DEF Checkout, GroupFree
  <2>2. CASE Build(j)
    BY <2>2 DEF Build
  <2>3. CASE Observe(j)
    BY <2>3 DEF Observe
  <2>4. CASE Push(j)
    BY <2>4 DEF Push
  <2>5. CASE Readback(j)
    BY <2>5 DEF Readback
  <2>6. CASE Pull(j)
    BY <2>6 DEF Pull
  <2>7. CASE PushPlain(j)
    BY <2>7 DEF PushPlain
  <2>8. CASE RequireMain(j)
    BY <2>8 DEF RequireMain, AfterIdentity, MainMismatch
  <2>9. CASE FindTag(j)
    BY <2>9 DEF FindTag
  <2>10. CASE PushTag(j)
    BY <2>10 DEF PushTag
  <2>11. CASE ConfirmTag(j)
    BY <2>11 DEF ConfirmTag
  <2>12. CASE Report(j)
    BY <2>12 DEF Report, MainMismatch
  <2>13. CASE RunnerLost(j)
    BY <2>13 DEF RunnerLost
  <2> QED
    BY <1>1, <2>1, <2>2, <2>3, <2>4, <2>5, <2>6, <2>7, <2>8, <2>9, <2>10, <2>11,
       <2>12, <2>13 DEF JobStep
<1>2. ASSUME NEW j \in Job, JobStep(j) \/ RunnerLost(j), NEW i \in Job \ {j}
      PROVE  ~Active(i) /\ ~Active(i)' /\ pc'[i] = pc[i] /\ verdict'[i] = verdict[i]
  <2>1. pc'[i] = pc[i] /\ verdict'[i] = verdict[i]
    BY <1>2, OtherJobs
  <2>2. None \notin Job
    OBVIOUS
  <2>3. ~Active(i)
    BY <1>1, <1>2, <2>2 DEF Queue
  <2> QED
    BY <2>1, <2>3
<1>3. CASE UNCHANGED jobVars
  BY <1>3 DEF Queue, jobVars
<1>4. ASSUME NEW j \in Job, JobStep(j) \/ RunnerLost(j) PROVE Queue'
  BY <1>1, <1>2, <1>4 DEF Queue
<1> QED
  BY <1>3, <1>4, OutsideSteps DEF Next

(* What disturbed a job did so for good: what was sent stays sent, and a   *)
(* job that ended has its verdict.                                         *)
LEMMA DisturbedStays ==
  ASSUME TypeOK, Phases, [Next]_vars, NEW i \in Job, Disturbed(i)
  PROVE  Disturbed(i)'
<1>1. foreignPushes' = foreignPushes \/ foreignPushes' = foreignPushes + 1
  BY DEF TypeOK, Next, JobStep, Checkout, Build, Observe, Push, Readback, Pull, PushPlain,
         RequireMain, FindTag, PushTag, ConfirmTag, Report, RunnerLost,
         ApplyPush, ApplyTag, ForeignPush, ForeignTag, vars, foreignVars
<1>2. \A k \in Job : sent[k] => sent'[k]
  BY DEF TypeOK, Next, JobStep, Checkout, Build, Observe, Push, Readback, Pull, PushPlain,
         SendMain, RequireMain, FindTag, PushTag, ConfirmTag, Report, RunnerLost,
         ApplyPush, ApplyTag, ForeignPush, ForeignTag, vars, jobVars
<1>3. ASSUME NEW k \in Job, verdict[k] \in {"moved", "failed"} PROVE verdict'[k] = verdict[k]
  <2>1. pc[k] = "done"
    BY <1>3 DEF Phases
  <2>2. ~(JobStep(k) \/ RunnerLost(k))
    BY <2>1 DEF JobStep, Checkout, Build, Observe, Push, Readback, Pull, PushPlain,
       RequireMain, AfterIdentity, FindTag, PushTag, ConfirmTag, Report, RunnerLost
  <2>3. ASSUME NEW j \in Job, JobStep(j) \/ RunnerLost(j) PROVE verdict'[k] = verdict[k]
    BY <2>2, <2>3, OtherJobs
  <2>4. UNCHANGED jobVars => verdict' = verdict
    BY DEF jobVars
  <2> QED
    BY <2>3, <2>4, OutsideSteps DEF Next
<1>4. foreignPushes \in Nat
  BY DEF TypeOK
<1>5. CASE foreignPushes > 0
  BY <1>1, <1>4, <1>5 DEF Disturbed
<1>6. CASE \E k \in Job \ {i} : sent[k] /\ verdict[k] \in {"moved", "failed"}
  BY <1>2, <1>3, <1>6 DEF Disturbed
<1> QED
  BY <1>5, <1>6 DEF Disturbed

(* Main only moves to what the running job sent, unless it is disturbed.   *)
LEMMA MovesAreOwn ==
  ASSUME TypeOK, Ancestry, Known, Phases, ReceiptIsDurable, Landing, [Next]_vars,
         NEW i \in Job, Active(i), main' # main
  PROVE  Disturbed(i)' \/ (main' = cand[i] /\ UNCHANGED jobVars)
<1> USE DEF TypeOK
<1>1. CASE ForeignPush
  BY <1>1 DEF ForeignPush, Disturbed
<1>2. ASSUME ApplyPush, main' # cand[i] PROVE Disturbed(i)
  <2>1. /\ main' \in pushInFlight /\ main \in anc[main'] /\ main' \in Commit
        /\ main \in Commit
    BY <1>2 DEF ApplyPush, PushAccepted
  <2>2. main' \notin anc[main]
    BY <2>1 DEF Landing, Antisymmetric
  <2>3. PICK k \in Job : k = author[main'] /\ sent[k]
    BY <2>1, <2>2 DEF Landing, Messages
  <2>4. main' \in Made /\ Live(main')
    BY <2>1 DEF Known, Made, Live
  <2>5. main' = cand[k] /\ pc[k] \notin {"queued", "build"}
    BY <2>2, <2>3, <2>4 DEF Landing, OwnCommits
  <2>6. k # i
    BY <1>2, <2>5
  <2>7. ~Active(k)
    BY <2>6 DEF Landing, Queue
  <2>8. verdict[k] # "none"
    BY <2>5, <2>7 DEF Active, Landing, Queue
  <2>9. verdict[k] # "verified"
    BY <2>2, <2>5 DEF ReceiptIsDurable
  <2>10. verdict[k] \in {"moved", "failed"}
    BY <2>8, <2>9 DEF Verdict
  <2> QED
    BY <2>3, <2>6, <2>10 DEF Disturbed
<1>3. ASSUME NEW j \in Job, JobStep(j) \/ RunnerLost(j) PROVE main' = main
  BY <1>3 DEF JobStep, Checkout, Build, Observe, Push, Readback, Pull, PushPlain,
              SendMain, RequireMain, FindTag, PushTag, ConfirmTag, Report,
              RunnerLost, remoteVars
<1>4. ASSUME ApplyTag \/ ForeignTag \/ UNCHANGED vars PROVE main' = main
  BY <1>4 DEF ApplyTag, ForeignTag, vars, remoteVars
<1>5. CASE ApplyPush
  BY <1>2, <1>5, OutsideSteps, DisturbedStays
<1> QED
  BY <1>1, <1>3, <1>4, <1>5 DEF Next

(* A calm job never sees main moved, and stays calm.                       *)
LEMMA CalmJob ==
  ASSUME TypeOK, Ancestry, Known, NEW i \in Job, JobStep(i) \/ RunnerLost(i),
         pc[i] = "queued" \/ Calm(i), pc[i] = "build" => base[i] = cand[i]
  PROVE  /\ main' = main
         /\ verdict'[i] = "moved" => verdict[i] = "moved"
         /\ main \in {base'[i], cand'[i]}
         /\ base'[i] \in anc'[cand'[i]]
<1> USE DEF TypeOK, Goto, Enter, End, Retry, Calm, remoteVars, commitVars, ReadMain
<1>0. /\ main \in Commit /\ main \in anc[main]
      /\ base[i] \in Commit /\ base[i] \in anc[base[i]]
      /\ cand[i] \in Commit /\ cand[i] \in anc[cand[i]]
  BY DEF Known, Ancestry
<1>1. CASE Checkout(i)
  BY <1>0, <1>1 DEF Checkout
<1>2. CASE Build(i)
  <2>1. CASE UNCHANGED <<cand, commitVars>>
    BY <1>0, <1>2, <2>1 DEF Build
  <2>2. CASE cand' = [cand EXCEPT ![i] = FreshCommit] /\ NewCommit(FreshCommit, base[i], i)
    <3>1. FreshCommit \in Commit /\ anc'[FreshCommit] = anc[base[i]] \cup {FreshCommit}
      BY <1>0, <2>2, NewCommitEffect
    <3> QED
      BY <1>0, <1>2, <2>2, <3>1 DEF Build
  <2> QED
    BY <1>2, <2>1, <2>2 DEF Build
<1>3. CASE Observe(i)
  BY <1>0, <1>3 DEF Observe
<1>4. CASE Push(i)
  BY <1>0, <1>4 DEF Push, SendMain
<1>5. CASE Readback(i)
  BY <1>0, <1>5 DEF Readback
<1>6. CASE Pull(i)
  <2>1. main \in anc[cand[i]]
    BY <1>0, <1>6 DEF Pull
  <2> QED
    BY <1>0, <1>6, <2>1 DEF Pull
<1>7. CASE PushPlain(i)
  BY <1>0, <1>7 DEF PushPlain, SendMain
<1>8. CASE RequireMain(i)
  <2>1. pc[i] # "queued"
    BY <1>8 DEF RequireMain, AfterIdentity
  <2> QED
    BY <1>0, <1>8, <2>1 DEF RequireMain, MainMismatch
<1>9. CASE FindTag(i) \/ PushTag(i) \/ ConfirmTag(i) \/ RunnerLost(i)
  BY <1>0, <1>9 DEF FindTag, PushTag, ConfirmTag, RunnerLost
<1>10. CASE Report(i)
  BY <1>0, <1>10 DEF Report, MainMismatch
<1> QED
  BY <1>1, <1>2, <1>3, <1>4, <1>5, <1>6, <1>7, <1>8, <1>9, <1>10 DEF JobStep

LEMMA CalmStep ==
  ASSUME TypeOK, Ancestry, Known, Phases, ReceiptIsDurable, Landing, [Next]_vars
  PROVE  CalmWhileRunning' /\ QueueMembersDoNotCollide'
<1> SUFFICES ASSUME NEW i \in Job
             PROVE  /\ Active(i)' => Disturbed(i)' \/ Calm(i)'
                    /\ verdict'[i] = "moved" => Disturbed(i)'
  BY DEF CalmWhileRunning, QueueMembersDoNotCollide, Disturbed
<1>1. CASE Disturbed(i)
  BY <1>1, DisturbedStays
<1>2. CASE ~Disturbed(i) /\ (JobStep(i) \/ RunnerLost(i))
  <2>1. pc[i] # "done" /\ pc[i] \in PC
    BY <1>2 DEF JobStep, Checkout, Build, Observe, Push, Readback, Pull, PushPlain,
       RequireMain, AfterIdentity, FindTag, PushTag, ConfirmTag, Report, RunnerLost, TypeOK
  <2>2. pc[i] = "queued" \/ Calm(i)
    BY <1>2, <2>1 DEF Landing, CalmWhileRunning, Active
  <2>3. verdict[i] # "moved"
    BY <2>1 DEF Phases
  <2>4. pc[i] = "build" => base[i] = cand[i]
    BY DEF Landing, OnMain
  <2> QED
    BY <1>2, <2>2, <2>3, <2>4, CalmJob DEF Calm
<1>3. CASE ~Disturbed(i) /\ UNCHANGED <<pc[i], base[i], cand[i], verdict[i]>>
  <2>1. verdict'[i] # "moved"
    BY <1>3 DEF Landing, QueueMembersDoNotCollide, Disturbed
  <2>2. anc'[cand[i]] = anc[cand[i]] /\ cand[i] \in anc[cand[i]]
    BY OldCommitsStay DEF TypeOK, Known, Ancestry
  <2>3. CASE Active(i) /\ main' # main
    <3>1. Disturbed(i)' \/ main' = cand[i]
      BY <2>3, MovesAreOwn
    <3>2. base[i] \in anc[cand[i]]
      BY <1>3, <2>3 DEF Landing, CalmWhileRunning, Calm
    <3> QED
      BY <1>3, <2>1, <2>2, <3>1, <3>2 DEF Calm
  <2>4. CASE Active(i) /\ main' = main
    BY <1>3, <2>1, <2>2, <2>4 DEF Landing, CalmWhileRunning, Calm
  <2> QED
    BY <1>3, <2>1, <2>3, <2>4 DEF Active
<1>4. ASSUME NEW j \in Job \ {i}, JobStep(j) \/ RunnerLost(j)
      PROVE  UNCHANGED <<pc[i], base[i], cand[i], verdict[i]>>
  BY <1>4, OtherJobs
<1>5. UNCHANGED jobVars => UNCHANGED <<pc[i], base[i], cand[i], verdict[i]>>
  BY DEF jobVars
<1> QED
  BY <1>1, <1>2, <1>3, <1>4, <1>5, OutsideSteps DEF Next

-----------------------------------------------------------------------------
(* The theorems.                                                           *)

LEMMA InductiveInvariant == Spec => []IInv
<1>1. Init => IInv
  <2> SUFFICES ASSUME Init PROVE IInv
    OBVIOUS
  <2>1. TypeOK
    BY TypeInit
  <2>2. Ancestry /\ Known
    BY DEF Init, Ancestry, Known
  <2>3. Phases /\ ReceiptIsDurable
    BY DEF Init, Phases, Verifying, ReceiptIsDurable
  <2>4. AnchorsAreOnMain
    BY DEF Init, AnchorsAreOnMain
  <2>5. ProofCommits
    BY DEF Init, ProofCommits
  <2> QED
    BY <2>1, <2>2, <2>3, <2>4, <2>5 DEF IInv
<1>2. IInv /\ [Next]_vars => IInv'
  BY TypeStep, AncestryStep, KnownStep, PhasesStep, AnchorsStep, ProofCommitsStep DEF IInv
<1> QED
  BY <1>1, <1>2, PTL DEF Spec

(* Every variable keeps its type; the loops keep their attempt bound.      *)
THEOREM TypeCorrect == Spec => []TypeOK
BY InductiveInvariant, PTL DEF IInv

(* A reported durability receipt is for a commit of main's history whose   *)
(* retention tag points to it (verify_publication).                        *)
THEOREM ReceiptsDurable == Spec => []ReceiptIsDurable
BY InductiveInvariant, PTL DEF IInv

(* Retention tags are only ever sent or applied for commits of main's      *)
(* history (_ensure_retention_ref).                                        *)
THEOREM AnchorsOnMain == Spec => []AnchorsAreOnMain
BY InductiveInvariant, PTL DEF IInv

(* A proof-bearing commit that is on main is a child of the checkout its   *)
(* proof was built from (push_exact).                                      *)
THEOREM ProofsLandOnTheirBase == Spec => []ProofLandsOnItsBase
<1>1. IInv => ProofLandsOnItsBase
  <2> SUFFICES ASSUME IInv, NEW j \in ProofJob, NEW c \in anc[main], author[c] = j
               PROVE  anc[c] = anc[base[j]] \cup {c}
    BY DEF ProofLandsOnItsBase
  <2>1. c \in Commit /\ anc[c] # {}
    BY DEF IInv, TypeOK, Ancestry
  <2> QED
    BY <2>1 DEF IInv, ProofCommits
<1> QED
  BY <1>1, InductiveInvariant, PTL

LEMMA LandingHolds == Spec => []Landing
<1>1. Init => Landing
  <2> SUFFICES ASSUME Init PROVE Landing
    OBVIOUS
  <2>1. Antisymmetric /\ OnMain
    BY DEF Init, Antisymmetric, OnMain, Made
  <2>2. OwnCommits /\ OneLives /\ Messages
    BY DEF Init, OwnCommits, OneLives, Messages, Made
  <2>3. Queue /\ CalmWhileRunning /\ QueueMembersDoNotCollide
    BY DEF Init, Queue, Active, CalmWhileRunning, QueueMembersDoNotCollide
  <2> QED
    BY <2>1, <2>2, <2>3 DEF Landing
<1>2. IInv /\ Landing /\ [Next]_vars => Landing'
  BY AntisymmetricStep, OnMainStep, OwnCommitsStep, OneLivesStep, MessagesStep,
     QueueStep, CalmStep DEF IInv, Landing
<1> QED
  BY <1>1, <1>2, InductiveInvariant, PTL DEF Spec

(* At most one commit of a job is ever on main, however often it retried   *)
(* and rebased and whatever of it arrived late (the persist steps).        *)
THEOREM CommitsLandOnce == Spec => []LandsAtMostOnce
<1>1. IInv /\ Landing => LandsAtMostOnce
  <2> SUFFICES ASSUME IInv, Landing, NEW c \in anc[main], NEW d \in anc[main],
                      author[c] = author[d], author[c] # None
               PROVE  c = d
    BY DEF LandsAtMostOnce
  <2>1. c \in Made /\ d \in Made
    BY DEF IInv, TypeOK, Ancestry, Made
  <2> QED
    BY <2>1 DEF Landing, OneLives, Live
<1> QED
  BY <1>1, InductiveInvariant, LandingHolds, PTL

(* As long as only the queue writes, a job that finds main moved was beaten*)
(* by a push of a job that had ended without confirming it (the concurrency*)
(* group market-data-collector).                                           *)
THEOREM QueueIsSafe == Spec => []QueueMembersDoNotCollide
BY LandingHolds, PTL DEF Landing

(* StorePublication implements the durability contract: main only grows,   *)
(* tags appear only on its history and stay, receipts follow tags.         *)
THEOREM ImplementsDurableStore == Spec => RefinesDurableStore
<1> DEFINE H == anc[main]
           A == {c \in Commit : tags[c] = c}
           R == {cand[j] : j \in {i \in Job : verdict[i] = "verified"}}
<1>1. Init => Durable!DInit
  BY DEF Init, Durable!DInit
<1>2. IInv /\ [Next]_vars => [Durable!DNext]_Durable!dvars
  <2> SUFFICES ASSUME IInv, [Next]_vars
               PROVE  Durable!DNext \/ UNCHANGED <<H, A, R>>
    BY DEF Durable!dvars
  <2>0. TypeOK /\ Ancestry /\ Known /\ Phases /\ AnchorsAreOnMain /\ ReceiptIsDurable
        /\ TypeOK'
    BY TypeStep DEF IInv
  <2>1. ASSUME NEW j \in Job, JobStep(j) \/ RunnerLost(j)
        PROVE  Durable!DNext \/ UNCHANGED <<H, A, R>>
    <3>1. main' = main /\ tags' = tags
      BY <2>1 DEF JobStep, Checkout, Build, Observe, Push, Readback, Pull, PushPlain,
         SendMain, RequireMain, FindTag, PushTag, ConfirmTag, Report, RunnerLost, remoteVars
    <3>2. H' = H
      BY <2>0, <3>1, OldCommitsStay DEF TypeOK, Known
    <3>3. A' = A
      BY <3>1
    <3>4. CASE verdict[j] = "verified" \/ verdict'[j] # "verified"
      <4>1. \A i \in Job : verdict[i] = "verified" => i # j \/ pc[j] = "done"
        BY <2>0 DEF Phases
      <4>2. pc[j] # "done"
        BY <2>1 DEF JobStep, Checkout, Build, Observe, Push, Readback, Pull, PushPlain,
           RequireMain, AfterIdentity, FindTag, PushTag, ConfirmTag, Report, RunnerLost
      <4>3. verdict[j] # "verified" /\ verdict'[j] # "verified"
        BY <3>4, <4>1, <4>2
      <4>4. \A i \in Job : /\ (verdict'[i] = "verified") <=> (verdict[i] = "verified")
                           /\ verdict[i] = "verified" => cand'[i] = cand[i]
        BY <2>0, <2>1, <4>3, OtherJobs
      <4>5. R' = R
        BY <4>4
      <4> QED
        BY <3>2, <3>3, <4>5
    <3>5. CASE verdict[j] # "verified" /\ verdict'[j] = "verified"
      <4>1. cand'[j] = cand[j] /\ cand[j] \in Commit /\ tags[cand[j]] = cand[j]
        BY <2>0, <2>1, <3>5, OwnPhase DEF TypeOK
      <4>2. \A i \in Job \ {j} : verdict'[i] = verdict[i] /\ cand'[i] = cand[i]
        BY <2>0, <2>1, OtherJobs
      <4>3. R' = R \cup {cand[j]}
        BY <3>5, <4>1, <4>2
      <4>4. cand[j] \in A
        BY <4>1
      <4> QED
        BY <3>2, <3>3, <4>3, <4>4 DEF Durable!DNext, Durable!Issue
    <3> QED
      BY <3>4, <3>5
  <2>2. ASSUME UNCHANGED jobVars PROVE R' = R
    BY <2>2 DEF jobVars
  <2>3. CASE ApplyPush \/ ForeignPush
    <3>1. A' = A /\ R' = R
      BY <2>2, <2>3, OutsideSteps DEF ApplyPush, ForeignPush
    <3>2. H \subseteq H' /\ H' \subseteq Commit
      BY <2>0, HistoryGrows DEF TypeOK
    <3>3. H' = H \cup H'
      BY <3>2
    <3> HIDE DEF H, A, R
    <3>4. \E new \in SUBSET Commit : H' = H \cup new
      BY <3>2, <3>3
    <3> QED
      BY <3>1, <3>4 DEF Durable!DNext, Durable!Advance, H, A, R
  <2>4. CASE ApplyTag
    <3>1. H' = H /\ R' = R
      BY <2>2, <2>4, OutsideSteps DEF ApplyTag, commitVars
    <3>2. PICK c \in tagInFlight :
            tags' = IF tags[c] = None THEN [tags EXCEPT ![c] = c] ELSE tags
      BY <2>4 DEF ApplyTag
    <3>3. c \in Commit /\ c \in H
      BY <2>0, <3>2 DEF TypeOK, AnchorsAreOnMain
    <3>4. A' = A \/ A' = A \cup {c}
      BY <2>0, <3>2, <3>3 DEF TypeOK
    <3> QED
      BY <3>1, <3>3, <3>4 DEF Durable!DNext, Durable!Anchor
  <2>5. CASE ForeignTag
    <3>1. H' = H /\ R' = R
      BY <2>2, <2>5, OutsideSteps DEF ForeignTag, commitVars
    <3>2. A' = A
      BY <2>0, <2>5 DEF ForeignTag, Made, TypeOK
    <3> QED
      BY <3>1, <3>2
  <2>6. CASE UNCHANGED vars
    BY <2>6 DEF vars, remoteVars, commitVars, jobVars
  <2> QED
    BY <2>1, <2>3, <2>4, <2>5, <2>6 DEF Next
<1> QED
  BY <1>1, <1>2, InductiveInvariant, PTL DEF Spec, RefinesDurableStore, Durable!DSpec

=============================================================================
