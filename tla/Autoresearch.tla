---------------------------- MODULE Autoresearch ----------------------------
(***************************************************************************)
(* Autoresearch runs (omx.autoresearch.runtime): a run is prepared or      *)
(* resumed, an agent session works in its worktree and leaves a candidate  *)
(* artifact, and the supervisor keeps or discards the candidate by what    *)
(* the evaluator says, iteration after iteration, until it is finalized.   *)
(* The operator may stop the active run or clear its state meanwhile, and  *)
(* a supervisor may be killed anywhere.                                    *)
(*                                                                         *)
(* autoresearch-state.json is both the mode's state and the lock that      *)
(* keeps a second run out.  It is read, emptied and filled in steps of     *)
(* their own.  The other files are a run's own: each write of one is a     *)
(* step, and a kill there may leave it torn.  results.tsv, the             *)
(* instructions and the evaluator's record are written and never read      *)
(* back; they are left out.  Sessions and the loop that calls the          *)
(* supervisor are not in this repository: a session may do what the        *)
(* instructions allow, and the loop goes on while the run lasts.  What a   *)
(* session left, its artifact and the uncommitted changes in the worktree, *)
(* is chosen where the supervisor reads it.                                *)
(***************************************************************************)
EXTENDS Naturals, Sequences

CONSTANTS
  Runs,           \* the runs, each with a worktree of its own
  Operator,       \* who stops runs and clears their state
  Policy,         \* the keep_policy of the mission: "pass_only" or "score_improvement"
  Nobody,         \* no run
  Missing,        \* no such file
  Unparsed,       \* a file that does not parse
  MaxIterations,  \* bound: iterations of a run
  MaxCommits,     \* bound: commits made by the sessions of a run
  MaxStops,       \* bound: supervisors killed
  MaxOrders       \* bound: stops and clears

Actors  == Runs \cup {Operator}
Commits == 0 .. MaxCommits          \* 0 is the commit the run began with
Scores  == 0 .. 2                   \* 0: no number
Results == [status : {"error", "fail"}, score : {0}] \cup [status : {"pass"}, score : Scores]

Locks     == [active : BOOLEAN, run : Runs \cup {Nobody}]
Manifests == [status : {"running", "stopped", "failed"}, iteration : 0 .. MaxIterations,
              kept : Commits, score : Scores]
LedgerEntries == [iteration : 0 .. MaxIterations, kept : Commits]

\* what the parameters must satisfy: assumed by the module that gives them values
ResearchParameters ==
  /\ Policy \in {"pass_only", "score_improvement"}
  /\ Operator \notin Runs /\ Nobody \notin Runs
  /\ Missing # Unparsed
  /\ {Missing, Unparsed} \cap (Locks \cup Manifests \cup LedgerEntries) = {}
  /\ {MaxIterations, MaxCommits, MaxStops, MaxOrders} \subseteq Nat

VARIABLES
  lock,      \* autoresearch-state.json
  manifest,  \* of each run: manifest.json
  ledger,    \* of each run: the last entry of iteration-ledger.json
  head,      \* of each worktree: HEAD
  made,      \* of each run: the newest commit
  job,       \* of each actor: the call in progress
  passed,    \* history, of each run: the commit the evaluator passed last, with its score
  stops,     \* how many supervisors have been killed
  orders,    \* how many orders the operator has given
  crossed    \* history: the runs finalized or resumed beside a live supervisor of theirs

files == <<manifest, ledger, head, made>>
bookkeeping == <<stops, orders>>
researchVars == <<lock, files, job, passed, bookkeeping, crossed>>

Off == [run |-> Nobody, live |-> FALSE, plan |-> <<>>, m |-> Missing, copy |-> Missing]

FreshRun == [status |-> "running", iteration |-> 0, kept |-> 0, score |-> 0]

ResearchInit ==
  /\ lock = Missing
  /\ manifest = [r \in Runs |-> Missing]
  /\ ledger = [r \in Runs |-> Missing]
  /\ head = [r \in Runs |-> 0]
  /\ made = [r \in Runs |-> 0]
  /\ job = [a \in Actors |-> Off]
  /\ passed = [r \in Runs |-> <<>>]
  /\ stops = 0
  /\ orders = 0
  /\ crossed = {}

-----------------------------------------------------------------------------
UnreadableManifest == {Missing, Unparsed}

\* _assert_autoresearch_lock_available: a state that does not parse is no state
Available == lock \notin UnreadableManifest => ~lock.active \/ lock.run = Nobody

At(a, step) == job[a].plan # <<>> /\ Head(job[a].plan) = step

\* the call goes on with the rest of its plan
Onward(a) == job' = [job EXCEPT ![a].plan = Tail(@)]

\* the call raised, or its process is gone
Drop(a) == job' = [job EXCEPT ![a] = Off]

\* the plan of an _update_mode_state that begins with the step, of _finalize_run
Rewrite(step) == <<step, "open", "fill">>
Finalize      == <<"manifest">> \o Rewrite("clear") \o Rewrite("release")

-----------------------------------------------------------------------------
Preparation == <<"found", "mode", "start", "fill", "activate", "fill">> \o Rewrite("bind")
                 \o <<"baseline", "manifest">> \o Rewrite("note")

\* prepare_autoresearch_runtime
Prepare(r) ==
  /\ Available
  /\ ~job[r].live
  /\ manifest[r] = Missing
  /\ job' = [job EXCEPT ![r] = [Off EXCEPT !.run = r, !.live = TRUE, !.plan = Preparation,
                                           !.m = FreshRun]]
  /\ UNCHANGED <<lock, files, passed, bookkeeping, crossed>>

\* the run's own files: the manifest, a ledger without entries
Found(r) ==
  /\ At(r, "found")
  /\ manifest' = [manifest EXCEPT ![r] = job[r].m]
  /\ Onward(r)
  /\ UNCHANGED <<lock, ledger, head, made, passed, bookkeeping, crossed>>

\* "autoresearch_active_mode_exists"
CheckMode(r) ==
  /\ At(r, "mode")
  /\ IF lock \notin UnreadableManifest /\ lock.active THEN Drop(r) ELSE Onward(r)
  /\ UNCHANGED <<lock, files, passed, bookkeeping, crossed>>

\* resume_autoresearch_runtime; changes in the worktree raise before anything is done
Resume(r) ==
  /\ Available
  /\ ~job[r].live
  /\ manifest[r] \notin UnreadableManifest
  /\ manifest[r].status = "running"
  /\ job' = [job EXCEPT ![r] = [Off EXCEPT !.run = r, !.live = TRUE, !.m = manifest[r],
                  !.plan = <<"start", "fill", "activate", "fill">> \o Rewrite("bind")]]
  /\ crossed' = crossed \cup (IF job[Operator].run = r THEN {r} ELSE {})
  /\ UNCHANGED <<lock, files, passed, bookkeeping>>

\* _start_mode_state and _activate_autoresearch_run replace the state
Take(r) ==
  /\ \E step \in {"start", "activate"} :
       /\ At(r, step)
       /\ job' = [job EXCEPT ![r].plan = Tail(@), ![r].copy =
                    [active |-> TRUE, run |-> IF step = "start" THEN Nobody ELSE r]]
  /\ lock' = Unparsed
  /\ UNCHANGED <<files, passed, bookkeeping, crossed>>

-----------------------------------------------------------------------------
\* _update_mode_state reads the state, whoever's it is: "bind" puts the run into it,
\* "clear" ends it, "note" adds what happened
Merged(a, step) ==
  CASE step = "bind"  -> [lock EXCEPT !.run = job[a].run]
    [] step = "clear" -> [lock EXCEPT !.active = FALSE]
    [] step = "note"  -> lock

Read(a) ==
  /\ \E step \in {"bind", "clear", "note"} :
       /\ At(a, step)
       /\ IF lock \in UnreadableManifest
            THEN Drop(a)
            ELSE job' = [job EXCEPT ![a].plan = Tail(@), ![a].copy = Merged(a, step)]
  /\ UNCHANGED <<lock, files, passed, bookkeeping, crossed>>

\* _deactivate_autoresearch_run keeps the run that the state names
Release(a) ==
  /\ At(a, "release")
  /\ LET owner == IF lock \in UnreadableManifest THEN job[a].run ELSE lock.run
     IN  job' = [job EXCEPT ![a].plan = Tail(@),
                            ![a].copy = [active |-> FALSE, run |-> owner]]
  /\ UNCHANGED <<lock, files, passed, bookkeeping, crossed>>

Open(a) ==
  /\ At(a, "open")
  /\ lock' = Unparsed
  /\ Onward(a)
  /\ UNCHANGED <<files, passed, bookkeeping, crossed>>

\* what another process wrote since it was read is lost
Fill(a) ==
  /\ At(a, "fill")
  /\ lock' = job[a].copy
  /\ Onward(a)
  /\ UNCHANGED <<files, passed, bookkeeping, crossed>>

-----------------------------------------------------------------------------
\* run_autoresearch_evaluator over what the worktree holds
Judge(r, result) ==
  passed' = [passed EXCEPT ![r] =
               IF result.status = "pass" THEN <<head[r], result.score>> ELSE <<>>]

\* mutant of Enter: the entry is made from the manifest on disk
EnterOld(r, m) ==
  ledger' = [ledger EXCEPT ![r] = [iteration |-> m.iteration, kept |-> manifest[r].kept]]

\* _append_autoresearch_ledger_entry
Enter(r, m) ==
  ledger' = [ledger EXCEPT ![r] = [iteration |-> m.iteration, kept |-> m.kept]]

\* _seed_baseline
Baseline(r) ==
  /\ At(r, "baseline")
  /\ \E result \in Results :
       /\ Judge(r, result)
       /\ job' = [job EXCEPT ![r].plan = Tail(@), ![r].m.score = result.score]
  /\ Enter(r, job[r].m)
  /\ UNCHANGED <<lock, manifest, head, made, bookkeeping, crossed>>

\* A session commits or not.
Session(r) ==
  /\ job[r].live /\ job[r].plan = <<>>
  /\ manifest[r] \notin UnreadableManifest
  /\ manifest[r].status = "running"
  /\ manifest[r].iteration < MaxIterations
  /\ \E new \in {made[r], made[r] + 1} \cap Commits :
       /\ made' = [made EXCEPT ![r] = new]
       /\ head' = [head EXCEPT ![r] = IF new = made[r] THEN @ ELSE new]
  /\ job' = [job EXCEPT ![r].plan = <<"read">>]
  /\ UNCHANGED <<lock, manifest, ledger, passed, bookkeeping, crossed>>

\* what may be in candidate.json: this session's artifact, an earlier one's, or no artifact
Artifacts(r) ==
  {Unparsed} \cup [status : {"candidate", "noop", "abort", "interrupted"},
               base : 0 .. made[r], commit : 0 .. made[r]]

\* _validate_autoresearch_candidate
Valid(c, r, m) ==
  /\ c # Unparsed
  /\ c.base = m.kept
  /\ c.status = "candidate" => c.commit = head[r]

\* process_autoresearch_candidate up to the evaluator: what is not valid fails the run,
\* an abort stops it, an interruption that left changes fails it without an entry
Process(r) ==
  /\ At(r, "read")
  /\ \/ manifest[r] \in UnreadableManifest /\ Drop(r)
     \/ /\ manifest[r] \notin UnreadableManifest
        /\ \E c \in Artifacts(r) :
             LET m == [manifest[r] EXCEPT !.iteration = @ + 1]
                 Go(status, plan) ==
                   job' = [job EXCEPT ![r].m = [m EXCEPT !.status = status], ![r].plan = plan]
             IN  \/ ~Valid(c, r, m) /\ Go("failed", <<"ledger">> \o Finalize)
                 \/ /\ Valid(c, r, m)
                    /\ \/ c.status = "abort" /\ Go("stopped", <<"ledger">> \o Finalize)
                       \/ c.status = "interrupted" /\ Go("failed", Finalize)
                       \/ /\ c.status \in {"noop", "interrupted"}
                          /\ Go("running", <<"ledger", "manifest">>)
                       \/ c.status = "candidate" /\ Go("running", <<"evaluate">>)
  /\ UNCHANGED <<lock, files, passed, bookkeeping, crossed>>

\* mutant of Keeps: as good is good enough
KeepsEqual(m, result) ==
  /\ result.status = "pass"
  /\ Policy = "score_improvement" => m.score # 0 /\ result.score >= m.score

\* decide_autoresearch_outcome, of a candidate that was evaluated
Keeps(m, result) ==
  /\ result.status = "pass"
  /\ Policy = "score_improvement" => m.score # 0 /\ result.score > m.score

\* what is not kept is reset, which raises over uncommitted changes
Evaluate(r) ==
  /\ At(r, "evaluate")
  /\ \E result \in Results :
       LET m == job[r].m
           kept == [m EXCEPT !.kept = head[r],
                             !.score = IF result.score = 0 THEN @ ELSE result.score]
           Go(n) == job' = [job EXCEPT ![r].m = n,
                              ![r].plan = <<"ledger", "manifest">> \o Rewrite("note")]
       IN  /\ Judge(r, result)
           /\ \/ Keeps(m, result) /\ Go(kept) /\ UNCHANGED head
              \/ ~Keeps(m, result) /\ Go(m) /\ head' = [head EXCEPT ![r] = m.kept]
              \/ ~Keeps(m, result) /\ Drop(r) /\ UNCHANGED head
  /\ UNCHANGED <<lock, manifest, ledger, made, bookkeeping, crossed>>

\* _record_autoresearch_iteration, or _fail_autoresearch_iteration
Record(r) ==
  /\ At(r, "ledger")
  /\ Enter(r, job[r].m)
  /\ Onward(r)
  /\ UNCHANGED <<lock, manifest, head, made, passed, bookkeeping, crossed>>

\* _write_run_manifest
WriteManifest(a) ==
  /\ At(a, "manifest")
  /\ manifest' = [manifest EXCEPT ![job[a].run] = job[a].m]
  /\ Onward(a)
  /\ UNCHANGED <<lock, ledger, head, made, passed, bookkeeping, crossed>>

\* the supervisor's loop ends with its run
Leave(r) ==
  /\ job[r].live /\ job[r].plan = <<>>
  /\ manifest[r] \in UnreadableManifest \/ manifest[r].status # "running"
  /\ Drop(r)
  /\ UNCHANGED <<lock, files, passed, bookkeeping, crossed>>

-----------------------------------------------------------------------------
Order ==
  /\ job[Operator] = Off
  /\ orders < MaxOrders
  /\ orders' = orders + 1
  /\ UNCHANGED <<files, passed, stops>>

\* stop_autoresearch_runtime: the manifest on disk is finalized, whatever its
\* supervisor is doing; a state without a run is cancelled as a mode
Stop ==
  /\ Order
  /\ lock \notin UnreadableManifest
  /\ lock.active
  /\ LET r == lock.run
     IN  \/ /\ r = Nobody
            /\ job' = [job EXCEPT ![Operator] = [Off EXCEPT
                         !.plan = <<"open", "fill">>, !.copy = [lock EXCEPT !.active = FALSE]]]
            /\ UNCHANGED crossed
         \/ /\ r # Nobody
            /\ manifest[r] \notin UnreadableManifest
            /\ manifest[r].status = "running"
            /\ job' = [job EXCEPT ![Operator] = [Off EXCEPT !.run = r, !.plan = Finalize,
                         !.m = [manifest[r] EXCEPT !.status = "stopped"]]]
            /\ crossed' = crossed \cup (IF job[r].live THEN {r} ELSE {})
  /\ UNCHANGED lock

\* `omx state clear --mode autoresearch`
ClearRun ==
  /\ Order
  /\ lock' = Missing
  /\ UNCHANGED <<job, crossed>>

Stopped ==
  /\ job[Operator] # Off /\ job[Operator].plan = <<>>
  /\ Drop(Operator)
  /\ UNCHANGED <<lock, files, passed, bookkeeping, crossed>>

\* The supervisor is killed; the file of its own that it was writing may be torn.
KillRun(r) ==
  /\ job[r].live
  /\ stops < MaxStops
  /\ stops' = stops + 1
  /\ Drop(r)
  /\ \/ UNCHANGED <<manifest, ledger>>
     \/ /\ At(r, "manifest") \/ At(r, "found")
        /\ manifest' = [manifest EXCEPT ![r] = Unparsed]
        /\ UNCHANGED ledger
     \/ /\ At(r, "ledger") \/ At(r, "baseline")
        /\ ledger' = [ledger EXCEPT ![r] = Unparsed]
        /\ UNCHANGED manifest
  /\ UNCHANGED <<lock, head, made, passed, orders, crossed>>

-----------------------------------------------------------------------------
Supervise(r) ==
  \/ Prepare(r) \/ Found(r) \/ CheckMode(r) \/ Resume(r) \/ Take(r) \/ Baseline(r)
  \/ Session(r) \/ Process(r) \/ Evaluate(r) \/ Record(r) \/ Leave(r)

ResearchNext ==
  \/ \E r \in Runs : Supervise(r) \/ KillRun(r)
  \/ \E a \in Actors : Read(a) \/ Release(a) \/ Open(a) \/ Fill(a) \/ WriteManifest(a)
  \/ Stop \/ ClearRun \/ Stopped

ResearchSpec == ResearchInit /\ [][ResearchNext]_researchVars

-----------------------------------------------------------------------------
ResearchTypeOK ==
  /\ lock \in Locks \cup UnreadableManifest
  /\ \A r \in Runs :
       /\ manifest[r] \in Manifests \cup UnreadableManifest
       /\ ledger[r] \in LedgerEntries \cup UnreadableManifest
       /\ head[r] \in 0 .. made[r] /\ made[r] \in Commits
       /\ passed[r] \in (Commits \X Scores) \cup {<<>>}
  /\ \A a \in Actors : /\ job[a].m \in Manifests \cup {Missing}
                       /\ job[a].copy \in Locks \cup {Missing}
  /\ stops \in 0 .. MaxStops /\ orders \in 0 .. MaxOrders
  /\ crossed \subseteq Runs

\* What is kept was passed by the evaluator, and under score_improvement with a better
\* score than what was kept before: no kill, resume or stop makes an unjudged commit the
\* kept one or loses ground, unless a run was finalized beside its live supervisor.
KeepsOnlyBetter ==
  [][\A r \in Runs \ crossed' :
       {manifest[r], manifest'[r]} \cap UnreadableManifest = {} /\ manifest'[r].kept # manifest[r].kept =>
         /\ passed[r] # <<>> /\ manifest'[r].kept = passed[r][1]
         /\ Policy = "score_improvement" =>
              passed[r][2] > manifest[r].score /\ manifest'[r].score = passed[r][2]]_researchVars

\* The ledger explains the manifest, whatever was killed or raised: its last entry is at
\* most one iteration ahead, and an entry of the manifest's iteration names what it keeps.
LedgerExplainsManifest ==
  \A r \in Runs \ crossed :
    {manifest[r], ledger[r]} \cap UnreadableManifest = {} /\ manifest[r].status # "failed" =>
      /\ ledger[r].iteration <= manifest[r].iteration + 1
      /\ ledger[r].iteration = manifest[r].iteration => ledger[r].kept = manifest[r].kept
=============================================================================
