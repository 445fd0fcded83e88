----------------------------- MODULE TaskRules -----------------------------
(***************************************************************************)
(* The rules of one task: who may claim it, move it and give it back, as   *)
(* the pure functions of omx.team.state.tasks decide on the dict they are  *)
(* handed.  The lease's leased_until is abstracted to one bit, `lapsed`:   *)
(* the time is past it or not.                                             *)
(***************************************************************************)
CONSTANTS
  Workers,   \* the names a claim may carry
  Tokens,    \* the lease tokens uuid4 can draw
  Nobody,    \* no owner
  NoToken    \* no token, or one nobody was given

ASSUME NobodyAssumption  == Nobody \notin Workers
ASSUME NoTokenAssumption == NoToken \notin Tokens

Statuses == {"pending", "blocked", "in_progress", "completed", "failed"}

Terminal == {"completed", "failed"}

CanTransition(from, to) ==
  \/ from = "pending"     /\ to \in {"in_progress", "blocked", "failed"}
  \/ from = "blocked"     /\ to \in {"pending", "in_progress", "failed"}
  \/ from = "in_progress" /\ to \in {"completed", "failed", "blocked", "pending"}

-----------------------------------------------------------------------------
NoClaim == [owner |-> Nobody, token |-> NoToken]

Claims == [owner : Workers, token : Tokens]

\* only what the rules read: status and claim
TaskStates == [status : Statuses, claim : Claims \cup {NoClaim}]

NewTask == [status |-> "pending", claim |-> NoClaim]

\* mutant of MayClaim: nobody asks whose claim it is
MayClaimOthers(task, w, lapsed) == task.status \notin Terminal

\* claim_task: not terminal, and no other worker's lease is still running
MayClaim(task, w, lapsed) ==
  /\ task.status \notin Terminal
  /\ task.claim = NoClaim \/ task.claim.owner = w \/ lapsed

Claimed(task, w, t) ==
  [status |-> "in_progress", claim |-> [owner |-> w, token |-> t]]

\* mutant of Authorizes: any token that was ever issued will do
AuthorizesOld(task, t) == task.claim = NoClaim \/ t # NoToken

\* the token is compared only when the task carries a claim
Authorizes(task, t) == task.claim = NoClaim \/ task.claim.token = t

\* transition_task_status leaves the claim where it is, terminal or not
MayTransition(task, from, to, t) ==
  /\ task.status = from
  /\ CanTransition(from, to)
  /\ Authorizes(task, t)

Transitioned(task, to) == [task EXCEPT !.status = to]

\* release_task_claim and reclaim_expired_task look at no status
Unclaimed(task) == NewTask

MayReclaim(task, lapsed) == task.claim # NoClaim /\ lapsed
=============================================================================
