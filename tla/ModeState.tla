----------------------------- MODULE ModeState -----------------------------
(***************************************************************************)
(* The files of the workflow modes and the canonical list of active        *)
(* skills, in the root scope and in one session's: start_mode,             *)
(* update_mode_state and cancel_mode (omx.modes.base), state_write and     *)
(* state_clear (omx.state.operations), with kills.                         *)
(*                                                                         *)
(* Calls are taken one at a time: no file here has a lock, and two calls   *)
(* that overlap lose each other's changes.  Within a call every file       *)
(* operation is a step, so that it can be killed between any two: a        *)
(* write_text empties the file before it fills it, a replace does not.     *)
(* A file is kept as what the decisions read of it: whether it is active,  *)
(* and whether its phase or its run_outcome is terminal.                   *)
(***************************************************************************)
EXTENDS WorkflowRules, Naturals

CONSTANTS
  Modes,     \* the workflow modes in use
  Absent,    \* no such file
  Torn,      \* a file that does not parse
  MaxCalls,  \* bound: calls made
  MaxKills   \* bound: calls killed

ASSUME ModesAssumption == Modes \subseteq TrackedModes
ASSUME BoundsAssumption == MaxCalls \in Nat /\ MaxKills \in Nat

Scopes == {"root", "session"}
States == [active : BOOLEAN, over : BOOLEAN, outcome : {"none", "terminal"}]
Lists  == [active : SUBSET Modes]

ASSUME FilesAssumption ==
  Absent # Torn /\ {Absent, Torn} \cap (States \cup Lists) = {}

VARIABLES
  file,      \* <mode>-state.json in each scope
  skill,     \* skill-active-state.json in each scope: its active entries
  dir,       \* the session's directory has been made
  call,      \* the call in progress
  calls,     \* how many calls have been made
  kills,     \* history: how many of them were killed
  bypassed,  \* history: the scopes whose modes no longer all passed the check
  apart      \* history: where the code lets a file and its canonical entry differ

vars == <<file, skill, dir, call, calls, kills, bypassed, apart>>

Idle == [at |-> "idle", mode |-> "", scope |-> "root", left |-> {}, now |-> "",
         path |-> "root", copy |-> Absent, list |-> {}, on |-> FALSE]

Init ==
  /\ file = [m \in Modes |-> [s \in Scopes |-> Absent]]
  /\ skill = [s \in Scopes |-> Absent]
  /\ dir = FALSE
  /\ call = Idle
  /\ calls = 0
  /\ kills = 0
  /\ bypassed = {}
  /\ apart = {}

-----------------------------------------------------------------------------
Paths(s) == {s, "root"}

IsActive(f) == f \notin {Absent, Torn} /\ f.active

\* list_active_skills of a file: a torn one has no entries
On(k) == IF k \in {Absent, Torn} THEN {} ELSE k.active

\* read_visible_skill_active_state: the session's, if it can be read
Canonical(s) == On(IF skill[s] \in {Absent, Torn} THEN skill["root"] ELSE skill[s])

\* mutant of Visible: only the canonical list is asked
VisibleCanonical(s) == Canonical(s)

\* the modes whose file in one of the scopes read is active
Running(s) == {m \in Modes : \E x \in Paths(s) : IsActive(file[m][x])}

\* _visible_tracked_modes
Visible(s) == Canonical(s) \cup Running(s)

\* _visible_tracked_modes raises on a torn file of any tracked mode
Unreadable(s) == \E m \in Modes, x \in Paths(s) : file[m][x] = Torn

\* infer_run_outcome and apply_run_outcome_contract: an explicit outcome, then
\* inactivity, then a finished phase end the run
Contract(f) ==
  IF f.outcome = "terminal" \/ ~f.active \/ f.over
    THEN [f EXCEPT !.outcome = "terminal", !.active = FALSE]
    ELSE f

\* validate_and_normalize_ralph_state: "terminal Ralph phases require active=false"
Refused(m, f) == m = "ralph" /\ f.over /\ f.active

\* start_mode's new state: its defaults, active and in a phase of work, over which
\* the caller's initial_state is merged, lifecycle fields included.  Absent is one
\* that cannot be normalised, or not be dumped.
Initial(m) == {Absent} \cup {Contract(f) : f \in {g \in States : ~Refused(m, g)}}

\* what the callers merge into a state
Merges(f) == {[f EXCEPT !.active = TRUE], [f EXCEPT !.active = FALSE],
              [f EXCEPT !.over = TRUE], [f EXCEPT !.over = FALSE],
              [f EXCEPT !.outcome = "terminal"]}

Begin(c) ==
  /\ call.at = "idle"
  /\ calls < MaxCalls
  /\ calls' = calls + 1
  /\ call' = c

\* start_mode: the decision, on all the files; the sources are then completed one
\* by one, which asks nothing of the new state, and this is written last.  A denied
\* start changes nothing.  The root does not see what a session runs.
Start(m, s) ==
  /\ ~Unreadable(s)
  /\ Allowed(Visible(s), m)
  /\ \E f \in Initial(m) :
       Begin([Idle EXCEPT !.at = "next", !.mode = m, !.scope = s, !.copy = f,
                          !.left = AutoCompleted(Visible(s), m)])
  /\ bypassed' = bypassed \cup (IF s = "root" /\ dir THEN {"session"} ELSE {})
  /\ UNCHANGED <<file, skill, dir, kills, apart>>

\* a write makes a mode active and asks no rule; what the root has, a session may
\* start again whatever else the session runs
Unchecked(m, s, f) ==
  bypassed' = bypassed \cup
    (IF f.active /\ ~IsActive(file[m][s]) THEN {s, "session"} ELSE {})

\* update_mode_state reads the session's file, or the root's while the session
\* has no directory, and writes to the session's; a terminal run_outcome that the
\* update does not repeat is dropped
Update(m, s) ==
  LET from == IF s = "session" /\ dir THEN "session" ELSE "root"
      read == file[m][from]
  IN  /\ read \notin {Absent, Torn}
      /\ \E f \in Merges([read EXCEPT !.outcome = "none"]) :
           /\ ~Refused(m, f)
           /\ Begin([Idle EXCEPT !.at = "write", !.mode = m, !.scope = s,
                       !.copy = Contract(f), !.on = Contract(f).active])
           /\ Unchecked(m, s, Contract(f))
      /\ dir' = (dir \/ s = "session")
      /\ UNCHANGED <<file, skill, kills, apart>>

\* state_write merges without the contract and replaces the file at once
StateWrite(m, s) ==
  LET read == IF file[m][s] \in {Absent, Torn}
                THEN [active |-> FALSE, over |-> FALSE, outcome |-> "none"]
                ELSE file[m][s]
  IN  \E f \in Merges(read) :
        /\ Begin([Idle EXCEPT !.at = "sync", !.mode = m, !.scope = s, !.on = f.active])
        /\ file' = [file EXCEPT ![m][s] = f]
        /\ dir' = (dir \/ s = "session")
        /\ Unchecked(m, s, f)
        /\ UNCHANGED <<skill, kills, apart>>

\* state_clear of one scope
Clear(m, s) ==
  /\ Begin([Idle EXCEPT !.at = "sync", !.mode = m, !.scope = s])
  /\ file' = [file EXCEPT ![m][s] = Absent]
  /\ UNCHANGED <<skill, dir, kills, bypassed, apart>>

\* state_clear of all scopes removes the root's file first, and brings only the
\* root's canonical list in line
ClearAll(m) ==
  /\ Begin([Idle EXCEPT !.at = "unlink", !.mode = m])
  /\ file' = [file EXCEPT ![m]["root"] = Absent]
  /\ apart' = apart \cup {<<m, "session">>}
  /\ UNCHANGED <<skill, dir, kills, bypassed>>

Unlink ==
  /\ call.at = "unlink"
  /\ file' = [file EXCEPT ![call.mode]["session"] = Absent]
  /\ call' = [call EXCEPT !.at = "sync"]
  /\ UNCHANGED <<skill, dir, calls, kills, bypassed, apart>>

\* cancel_mode rewrites the root's file and leaves the canonical list alone; the
\* phase "cancelled" is terminal for ralph only
Cancel(m) ==
  /\ IsActive(file[m]["root"])
  /\ Begin([Idle EXCEPT !.at = "write", !.mode = m, !.now = m,
              !.copy = [file[m]["root"] EXCEPT !.active = FALSE, !.over = (m = "ralph")]])
  /\ apart' = apart \cup {<<m, "root">>}
  /\ UNCHANGED <<file, skill, dir, kills, bypassed>>

-----------------------------------------------------------------------------
\* reconcile_workflow_transition takes the next source, in any order
TakeSource(c) ==
  /\ call.at = "next"
  /\ c \in call.left
  /\ call' = [call EXCEPT !.at = "complete", !.now = c]
  /\ UNCHANGED <<file, skill, dir, calls, kills, bypassed, apart>>

StillActive(m, s) == {x \in Paths(s) : IsActive(file[m][x])}

\* _complete_source_mode_state: the session's file before the root's, each opened
\* and written; then the canonical list of the call's scope
Complete ==
  /\ call.at = "complete"
  /\ IF StillActive(call.now, call.scope) = {}
       THEN /\ call' = [call EXCEPT !.at = "sync", !.on = FALSE]
            /\ UNCHANGED <<file, apart>>
       ELSE LET x == IF call.scope \in StillActive(call.now, call.scope)
                       THEN call.scope ELSE "root"
            IN  /\ call' = [call EXCEPT !.at = "completing", !.path = x]
                /\ file' = [file EXCEPT ![call.now][x] = Torn]
                /\ apart' = apart \cup (IF x = call.scope THEN {} ELSE {<<call.now, x>>})
  /\ UNCHANGED <<skill, dir, calls, kills, bypassed>>

Completed == [active |-> FALSE, over |-> TRUE, outcome |-> "none"]

Completing ==
  /\ call.at = "completing"
  /\ file' = [file EXCEPT ![call.now][call.path] = Completed]
  /\ call' = [call EXCEPT !.at = "complete"]
  /\ UNCHANGED <<skill, dir, calls, kills, bypassed, apart>>

\* all sources are completed: the new state's turn.  Whatever it says, start_mode
\* will enter the mode as active.
Proceed ==
  /\ call.at = "next"
  /\ call.left = {}
  /\ call.copy # Absent
  /\ call' = [call EXCEPT !.at = "write", !.now = "", !.on = TRUE]
  /\ dir' = (dir \/ call.scope = "session")
  /\ UNCHANGED <<file, skill, calls, kills, bypassed, apart>>

\* ... which is refused only now: the sources stay completed
RefuseState ==
  /\ call.at = "next"
  /\ call.left = {}
  /\ call.copy = Absent
  /\ call' = Idle
  /\ dir' = (dir \/ call.scope = "session")
  /\ UNCHANGED <<file, skill, calls, kills, bypassed, apart>>

Write ==
  /\ call.at = "write"
  /\ file' = [file EXCEPT ![call.mode][call.scope] = Torn]
  /\ call' = [call EXCEPT !.at = "writing"]
  /\ UNCHANGED <<skill, dir, calls, kills, bypassed, apart>>

\* mutant of Writing: the call returns after the file
WritingOnly ==
  /\ call.at = "writing"
  /\ file' = [file EXCEPT ![call.mode][call.scope] = call.copy]
  /\ call' = Idle
  /\ UNCHANGED <<skill, dir, calls, kills, bypassed, apart>>

\* cancel_mode ends here
Writing ==
  /\ call.at = "writing"
  /\ file' = [file EXCEPT ![call.mode][call.scope] = call.copy]
  /\ call' = IF call.now = call.mode THEN Idle ELSE [call EXCEPT !.at = "sync"]
  /\ UNCHANGED <<skill, dir, calls, kills, bypassed, apart>>

-----------------------------------------------------------------------------
\* the mode whose entry is brought in line: the source, or the call's own
Subject == IF call.left # {} THEN call.now ELSE call.mode

Entries(k, m, on) == IF on THEN On(k) \cup {m} ELSE On(k) \ {m}

\* sync_canonical_skill_state_for_mode: read, change, and write in two steps
Sync ==
  /\ call.at = "sync"
  /\ call' = [call EXCEPT !.at = "syncing",
                !.list = Entries(skill[call.scope], Subject, call.on)]
  /\ skill' = [skill EXCEPT ![call.scope] = Torn]
  /\ dir' = (dir \/ call.scope = "session")
  /\ UNCHANGED <<file, calls, kills, bypassed, apart>>

\* an initial_state that ends the run it starts: start_mode enters the mode as active
Overridden == call.on /\ call.copy # Absent /\ ~IsActive(call.copy)

Syncing ==
  /\ call.at = "syncing"
  /\ skill' = [skill EXCEPT ![call.scope] = [active |-> call.list]]
  /\ call' = IF call.left = {} THEN Idle
             ELSE [call EXCEPT !.at = "next", !.left = @ \ {call.now}]
  /\ apart' = IF Overridden THEN apart \cup {<<Subject, call.scope>>}
                           ELSE apart \ {<<Subject, call.scope>>}
  /\ UNCHANGED <<file, dir, calls, kills, bypassed>>

\* The process is killed.  Only what it was changing may now differ: all entries
\* of a canonical list it had opened, or the one whose file it had changed.  While
\* a session's list is torn the root's stands in for it.
Kill ==
  /\ call.at # "idle"
  /\ kills < MaxKills
  /\ kills' = kills + 1
  /\ call' = Idle
  /\ apart' = apart \cup
       CASE call.at = "syncing" -> Modes \X {call.scope}
         [] call.at = "next"    -> {}
         [] OTHER               -> {Subject} \X Scopes
  /\ bypassed' = bypassed \cup
       (IF call.at = "syncing" /\ call.scope = "session" THEN {"session"} ELSE {})
  /\ UNCHANGED <<file, skill, dir, calls>>

-----------------------------------------------------------------------------
Operation ==
  \/ \E m \in Modes, s \in Scopes :
       Start(m, s) \/ Update(m, s) \/ StateWrite(m, s) \/ Clear(m, s)
  \/ \E m \in Modes : ClearAll(m) \/ Cancel(m)

Continue ==
  \/ \E c \in Modes : TakeSource(c)
  \/ Unlink \/ Complete \/ Completing \/ Proceed \/ RefuseState
  \/ Write \/ Writing \/ Sync \/ Syncing

Next == Operation \/ Continue \/ Kill

Spec == Init /\ [][Next]_vars

-----------------------------------------------------------------------------
Files == {Absent, Torn} \cup States

Locations == {"idle", "next", "complete", "completing", "write", "writing",
              "unlink", "sync", "syncing"}

Calls == [at : Locations, mode : Modes \cup {""}, scope : Scopes, left : SUBSET Modes,
          now : Modes \cup {""}, path : Scopes, copy : States \cup {Absent},
          list : SUBSET Modes, on : BOOLEAN]

\* Every file holds what some call wrote to it.
TypeOK ==
  /\ file \in [Modes -> [Scopes -> Files]]
  /\ skill \in [Scopes -> {Absent, Torn} \cup Lists]
  /\ dir \in BOOLEAN
  /\ call \in Calls
  /\ calls \in 0 .. MaxCalls /\ kills \in 0 .. MaxKills
  /\ bypassed \subseteq Scopes
  /\ apart \subseteq Modes \X Scopes

\* The mutex of the workflow modes: the modes that start_mode made active in one
\* scope may overlap, whatever was cancelled, cleared, completed or killed half-way,
\* and whatever stale entries that left in the canonical list.  For a session this
\* ends with the first start in the root: a mode the root runs counts as active in
\* the session, and what is active may be started beside anything.  It ends as well
\* when a kill leaves the session's list torn: the root's, with its stale entries,
\* is then read in its place.
ModesCompatible ==
  \A s \in Scopes \ bypassed : Compatible({m \in Modes : IsActive(file[m][s])})

\* Between calls a mode's file and its canonical entry agree, save where the code
\* lets them part: a killed call, cancel_mode, a clear of all scopes, a session that
\* completes the root's mode, and a start whose initial_state ends the run at once
\* (the entry says active, the file does not).  The next other whole call on the mode in
\* the scope brings them together again, so "clear ... then retry" does help.
SkillFollowsMode ==
  call.at = "idle" =>
    \A m \in Modes, s \in Scopes :
      <<m, s>> \notin apart => (m \in On(skill[s]) <=> IsActive(file[m][s]))
=============================================================================
