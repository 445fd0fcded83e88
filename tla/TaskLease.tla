----------------------------- MODULE TaskLease -----------------------------
(***************************************************************************)
(* One task dict and the workers that call claim_task,                     *)
(* transition_task_status, release_task_claim and reclaim_expired_task on  *)
(* it, each call seeing the effect of the one before (what a store that    *)
(* keeps the whole dict would give).  What the gateway of team_ops really  *)
(* keeps is modelled in TaskStore.                                         *)
(*                                                                         *)
(* A worker presents a token some earlier claim returned to it, or one it  *)
(* was never given; the leader claiming in a worker's name counts as that  *)
(* worker.                                                                 *)
(***************************************************************************)
EXTENDS TaskRules

VARIABLES
  task,     \* the dict: its status and its claim
  lapsed,   \* now > leased_until of the claim
  has       \* has[w]: the tokens claim_task has returned to w

leaseVars == <<task, lapsed, has>>

Issued == UNION {has[w] : w \in Workers}

LeaseInit ==
  /\ task = NewTask
  /\ lapsed = FALSE
  /\ has = [w \in Workers |-> {}]

-----------------------------------------------------------------------------
\* mutant of Claim: taking over a lapsed lease keeps its token
ClaimKeepsToken(w) ==
  /\ MayClaim(task, w, lapsed)
  /\ \E t \in IF task.claim = NoClaim THEN Tokens \ Issued
                                      ELSE {task.claim.token} :
       /\ task' = Claimed(task, w, t)
       /\ has' = [has EXCEPT ![w] = @ \cup {t}]
  /\ lapsed' = FALSE

\* uuid4 is taken to draw a token nobody was given before
Claim(w) ==
  /\ MayClaim(task, w, lapsed)
  /\ \E t \in Tokens \ Issued :
       /\ task' = Claimed(task, w, t)
       /\ has' = [has EXCEPT ![w] = @ \cup {t}]
  /\ lapsed' = FALSE

Transition(w) ==
  /\ \E from, to \in Statuses, t \in has[w] \cup {NoToken} :
       /\ MayTransition(task, from, to, t)
       /\ task' = Transitioned(task, to)
  /\ UNCHANGED <<lapsed, has>>

Release(w) ==
  /\ \E t \in has[w] \cup {NoToken} : Authorizes(task, t)
  /\ task' = Unclaimed(task)
  /\ lapsed' = FALSE
  /\ UNCHANGED has

Reclaim(w) ==
  /\ MayReclaim(task, lapsed)
  /\ task' = Unclaimed(task)
  /\ lapsed' = FALSE
  /\ UNCHANGED has

\* CLAIM_LEASE_MINUTES pass
Lapse ==
  /\ task.claim # NoClaim
  /\ ~lapsed
  /\ lapsed' = TRUE
  /\ UNCHANGED <<task, has>>

LeaseStep(w) == Claim(w) \/ Transition(w) \/ Release(w) \/ Reclaim(w)

LeaseNext == Lapse \/ \E w \in Workers : LeaseStep(w)

LeaseSpec == LeaseInit /\ [][LeaseNext]_leaseVars

-----------------------------------------------------------------------------
LeaseTypeOK ==
  /\ task \in TaskStates
  /\ lapsed \in BOOLEAN
  /\ has \in [Workers -> SUBSET Tokens]

\* The token on the task is known to the worker the claim names and to no
\* other: nothing a worker was handed earlier (tasks.py 291) opens a claim
\* made after it.
TokenIsPrivate ==
  task.claim # NoClaim =>
    \A w \in Workers : task.claim.token \in has[w] <=> w = task.claim.owner

\* While a worker's lease runs, no call of another worker changes the task: it
\* is not claimed away, moved, released or reclaimed (tasks.py 289-293,
\* 341-345, 372-375, 398-400).
RunningLeaseIsRespected ==
  [][\A w \in Workers :
       (task.claim # NoClaim /\ task.claim.owner # w /\ ~lapsed /\ LeaseStep(w))
         => UNCHANGED task]_leaseVars

\* A worker whose lease lapsed and was claimed by another cannot finish the
\* task: a task that becomes terminal under a claim was moved by the worker
\* the claim names, whatever tokens others still hold.
OnlyTheOwnerFinishes ==
  [][\A w \in Workers :
       (task.claim # NoClaim /\ task'.status \in Terminal
          /\ task.status \notin Terminal /\ LeaseStep(w))
         => w = task.claim.owner]_leaseVars
=============================================================================
