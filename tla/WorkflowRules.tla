--------------------------- MODULE WorkflowRules ---------------------------
(***************************************************************************)
(* Which workflow modes may run beside each other, and which are completed *)
(* when another starts: evaluate_workflow_transition and its tables        *)
(* (omx.state.workflow_transition), over sets of active modes.             *)
(***************************************************************************)

TrackedModes == {"autopilot", "autoresearch", "team", "ralph", "ultrawork",
                 "ultraqa", "ralplan", "deep-interview"}

PlanningModes  == {"deep-interview", "ralplan"}
ExecutionModes == TrackedModes \ PlanningModes

\* _is_allowed_overlap
Overlaps(a, b) == "ultrawork" \in {a, b} \/ {a, b} = {"ralph", "team"}

\* AUTO_COMPLETE_TRANSITIONS
HandsOver == {<<"deep-interview", "ralplan">>, <<"deep-interview", "autoresearch">>,
              <<"ralplan", "team">>, <<"ralplan", "ralph">>,
              <<"ralplan", "autopilot">>, <<"ralplan", "autoresearch">>}

Sources(current, m) == {c \in current : <<c, m>> \in HandsOver}

\* the modes that stay must overlap with the one that starts
Fit(modes, m) == \A c \in modes : Overlaps(c, m)

\* a mode that is active already may be started again, whatever else runs
Allowed(current, m) ==
  \/ m \in current
  \/ current = {}
  \/ Sources(current, m) # {} /\ Fit(current \ Sources(current, m), m)
  \/ Fit(current, m)

\* decision.auto_complete_modes: none for a mode that is active already
AutoCompleted(current, m) ==
  IF m \notin current /\ Fit(current \ Sources(current, m), m)
    THEN Sources(current, m) ELSE {}

Resulting(current, m) == (current \ AutoCompleted(current, m)) \cup {m}

Compatible(modes) == \A a, b \in modes : a = b \/ Overlaps(a, b)
=============================================================================
