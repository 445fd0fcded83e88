---------------------------- MODULE WorkflowProofs ----------------------------
(***************************************************************************)
(* Proofs about the workflow modes: what the transition rules preserve,    *)
(* the types of ModeState, its mutex and its canonical lists, for every    *)
(* set of modes and every number of calls and kills.  And about the        *)
(* autoresearch runs: what a call holds of its run follows from the run's  *)
(* files, for every number of runs, iterations, kills and orders.          *)
(***************************************************************************)
EXTENDS ModeState, Autoresearch, TLAPS

\* Overlapping is mutual.
LEMMA OverlapsBothWays ==
  ASSUME NEW a, NEW b, Overlaps(a, b)
  PROVE  Overlaps(b, a)
<1>1. {a, b} = {b, a}
  OBVIOUS
<1> QED
  BY <1>1 DEF Overlaps

\* What an allowed start leaves active is compatible when what was active was:
\* the decision of evaluate_workflow_transition keeps the mutex of the modes.
THEOREM ResultingCompatible ==
  ASSUME NEW current, NEW m, Compatible(current), Allowed(current, m)
  PROVE  Compatible(Resulting(current, m))
<1>1. CASE m \in current
  BY <1>1 DEF Resulting, AutoCompleted, Compatible
<1>2. CASE m \notin current
  <2> DEFINE rest == current \ AutoCompleted(current, m)
  <2>1. Fit(rest, m)
    BY <1>2 DEF Allowed, AutoCompleted, Fit, Sources
  <2>2. \A a, b \in rest : a = b \/ Overlaps(a, b)
    BY DEF Compatible
  <2>3. ASSUME NEW a \in rest \cup {m}, NEW b \in rest \cup {m}
        PROVE  a = b \/ Overlaps(a, b)
    <3>1. CASE a \in rest /\ b \in rest
      BY <3>1, <2>2
    <3>2. CASE a \in rest /\ b = m
      BY <3>2, <2>1 DEF Fit
    <3>3. CASE a = m /\ b \in rest
      BY <3>3, <2>1, OverlapsBothWays DEF Fit
    <3> QED
      BY <3>1, <3>2, <3>3
  <2> QED
    BY <2>3 DEF Resulting, Compatible
<1> QED
  BY <1>1, <1>2

\* "Execution-to-planning rollback auto-complete is not allowed": a planning mode that
\* is not running starts beside no execution mode but ultrawork.
THEOREM NoRollbackToPlanning ==
  ASSUME NEW current \in SUBSET TrackedModes, NEW m \in PlanningModes \ current,
         Allowed(current, m)
  PROVE  \A c \in current \cap ExecutionModes : c = "ultrawork"
<1> SUFFICES ASSUME NEW c \in current, c \in ExecutionModes
             PROVE  c = "ultrawork"
  OBVIOUS
<1>1. c \notin Sources(current, m)
  BY DEF Sources, HandsOver, ExecutionModes, PlanningModes
<1>2. Overlaps(c, m)
  BY <1>1 DEF Allowed, Fit
<1>3. {c, m} # {"ralph", "team"}
  BY DEF PlanningModes
<1> QED
  BY <1>2, <1>3 DEF Overlaps, PlanningModes, ExecutionModes

-----------------------------------------------------------------------------
USE ModesAssumption, BoundsAssumption, FilesAssumption

LEMMA ContractTyped ==
  ASSUME NEW f \in States
  PROVE  /\ Contract(f) \in States
         /\ \A g \in Merges(f) : g \in States
         /\ [f EXCEPT !.outcome = "none"] \in States
BY DEF Contract, Merges, States

LEMMA InitialTyped == ASSUME NEW m PROVE Initial(m) \subseteq States \cup {Absent}
BY ContractTyped DEF Initial

\* On, Entries and AutoCompleted name modes only.
LEMMA ListsTyped ==
  ASSUME TypeOK, NEW s \in Scopes
  PROVE  On(skill[s]) \subseteq Modes /\ Canonical(s) \subseteq Modes /\ Visible(s) \subseteq Modes
<1>1. \A x \in Scopes : On(skill[x]) \subseteq Modes
  BY DEF TypeOK, On, Lists
<1>2. Canonical(s) \subseteq Modes
  BY <1>1 DEF Canonical, Scopes
<1> QED
  BY <1>1, <1>2 DEF Visible, Running

LEMMA BeginTyped ==
  ASSUME TypeOK, NEW c \in Calls, Begin(c)
  PROVE  call' \in Calls /\ calls' \in 0 .. MaxCalls
BY DEF TypeOK, Begin

\* A call in progress has its mode; a source is taken from those left, and the new
\* state's turn comes when none is.
CallShape ==
  /\ call.at # "idle" => call.mode \in Modes
  /\ call.at \in {"complete", "completing"} => call.now \in call.left
  /\ call.at \in {"sync", "syncing"} /\ call.left # {} => call.now \in call.left /\ ~call.on
  /\ call.at \in {"write", "writing", "unlink"} => call.left = {}

LEMMA IdleTyped == Idle \in Calls /\ Idle.at = "idle" /\ Idle.left = {}
BY DEF Calls, Idle, Locations, Scopes

LEMMA InitTyped ==
  ASSUME Init
  PROVE  TypeOK /\ CallShape
<1>1. file \in [Modes -> [Scopes -> Files]] /\ skill \in [Scopes -> {Absent, Torn} \cup Lists]
  BY DEF Init, Files
<1>2. call = Idle /\ calls \in 0 .. MaxCalls /\ kills \in 0 .. MaxKills
  BY DEF Init
<1> QED
  BY <1>1, <1>2, IdleTyped DEF Init, TypeOK, CallShape

\* Each step of each call keeps the types and the shape.
LEMMA TypedStep ==
  ASSUME TypeOK, CallShape, [Next]_vars
  PROVE  TypeOK' /\ CallShape'
<1> USE DEF TypeOK, CallShape
<1>1. ASSUME NEW m \in Modes, NEW s \in Scopes, Start(m, s) PROVE TypeOK' /\ CallShape'
  <2>1. AutoCompleted(Visible(s), m) \in SUBSET Modes
    BY ListsTyped DEF AutoCompleted, Sources
  <2>0. PICK f \in Initial(m) :
          Begin([Idle EXCEPT !.at = "next", !.mode = m, !.scope = s, !.copy = f,
                             !.left = AutoCompleted(Visible(s), m)])
    BY <1>1 DEF Start
  <2> DEFINE c == [Idle EXCEPT !.at = "next", !.mode = m, !.scope = s, !.copy = f,
                               !.left = AutoCompleted(Visible(s), m)]
  <2>2. c \in Calls /\ c.at = "next" /\ c.mode = m
    BY <2>1, InitialTyped DEF Calls, Idle, Locations, Scopes
  <2>3. call' = c /\ calls' \in 0 .. MaxCalls
    BY <2>0 DEF Begin
  <2> HIDE DEF c
  <2> QED
    BY <1>1, <2>2, <2>3 DEF Start, Scopes
<1>2. ASSUME NEW m \in Modes, NEW s \in Scopes, Update(m, s) PROVE TypeOK' /\ CallShape'
  <2> DEFINE read == file[m][IF s = "session" /\ dir THEN "session" ELSE "root"]
  <2>1. read \in States
    BY <1>2 DEF Update, Files, Scopes
  <2>2. PICK f \in Merges([read EXCEPT !.outcome = "none"]) :
          /\ Begin([Idle EXCEPT !.at = "write", !.mode = m, !.scope = s,
                     !.copy = Contract(f), !.on = Contract(f).active])
          /\ Unchecked(m, s, Contract(f))
    BY <1>2 DEF Update
  <2> DEFINE c == [Idle EXCEPT !.at = "write", !.mode = m, !.scope = s,
                               !.copy = Contract(f), !.on = Contract(f).active]
  <2>3. Contract(f) \in States
    BY <2>1, <2>2, ContractTyped
  <2>4. c \in Calls /\ c.at = "write" /\ c.mode = m /\ c.left = {}
    BY <2>3 DEF Calls, Idle, Locations, Scopes, States
  <2>5. call' = c /\ calls' \in 0 .. MaxCalls
    BY <2>2 DEF Begin
  <2> HIDE DEF c
  <2> QED
    BY <1>2, <2>2, <2>4, <2>5 DEF Update, Unchecked, Scopes
<1>3. ASSUME NEW m \in Modes, NEW s \in Scopes, StateWrite(m, s) PROVE TypeOK' /\ CallShape'
  <2> DEFINE read == IF file[m][s] \in {Absent, Torn}
                       THEN [active |-> FALSE, over |-> FALSE, outcome |-> "none"]
                       ELSE file[m][s]
  <2>1. read \in States
    BY DEF Files, States
  <2>2. PICK f \in Merges(read) :
          /\ Begin([Idle EXCEPT !.at = "sync", !.mode = m, !.scope = s, !.on = f.active])
          /\ file' = [file EXCEPT ![m][s] = f]
          /\ Unchecked(m, s, f)
    BY <1>3 DEF StateWrite
  <2> DEFINE c == [Idle EXCEPT !.at = "sync", !.mode = m, !.scope = s, !.on = f.active]
  <2>3. f \in States
    BY <2>1, <2>2, ContractTyped
  <2>4. c \in Calls /\ c.at = "sync" /\ c.mode = m /\ c.left = {}
    BY <2>3 DEF Calls, Idle, Locations, Scopes, States
  <2>5. call' = c /\ calls' \in 0 .. MaxCalls
    BY <2>2 DEF Begin
  <2> HIDE DEF c
  <2> QED
    BY <1>3, <2>2, <2>3, <2>4, <2>5 DEF StateWrite, Unchecked, Scopes, Files
<1>4. ASSUME NEW m \in Modes, NEW s \in Scopes, Clear(m, s) PROVE TypeOK' /\ CallShape'
  <2> DEFINE c == [Idle EXCEPT !.at = "sync", !.mode = m, !.scope = s]
  <2>1. c \in Calls /\ c.at = "sync" /\ c.mode = m /\ c.left = {}
    BY DEF Calls, Idle, Locations, Scopes
  <2>2. call' = c /\ calls' \in 0 .. MaxCalls
    BY <1>4 DEF Clear, Begin
  <2> HIDE DEF c
  <2> QED
    BY <1>4, <2>1, <2>2 DEF Clear, Files
<1>5. ASSUME NEW m \in Modes, ClearAll(m) PROVE TypeOK' /\ CallShape'
  <2> DEFINE c == [Idle EXCEPT !.at = "unlink", !.mode = m]
  <2>1. c \in Calls /\ c.at = "unlink" /\ c.mode = m /\ c.left = {}
    BY DEF Calls, Idle, Locations, Scopes
  <2>2. call' = c /\ calls' \in 0 .. MaxCalls
    BY <1>5 DEF ClearAll, Begin
  <2> HIDE DEF c
  <2> QED
    BY <1>5, <2>1, <2>2 DEF ClearAll, Files, Scopes
<1>6. ASSUME NEW m \in Modes, Cancel(m) PROVE TypeOK' /\ CallShape'
  <2>1. file[m]["root"] \in States
    BY <1>6 DEF Cancel, IsActive, Files, Scopes
  <2> DEFINE c == [Idle EXCEPT !.at = "write", !.mode = m, !.now = m,
                    !.copy = [file[m]["root"] EXCEPT !.active = FALSE, !.over = (m = "ralph")]]
  <2>2. c \in Calls /\ c.at = "write" /\ c.mode = m /\ c.left = {}
    <3>1. [file[m]["root"] EXCEPT !.active = FALSE, !.over = (m = "ralph")] \in States
      BY <2>1 DEF States
    <3> QED BY <3>1 DEF Calls, Idle, Locations, Scopes
  <2>3. call' = c /\ calls' \in 0 .. MaxCalls
    BY <1>6 DEF Cancel, Begin
  <2> HIDE DEF c
  <2> QED
    BY <1>6, <2>2, <2>3 DEF Cancel, Scopes
<1>7. ASSUME NEW c \in Modes, TakeSource(c) PROVE TypeOK' /\ CallShape'
  BY <1>7 DEF TakeSource, Calls, Locations
<1>8. CASE Unlink
  <2>1. call' \in Calls /\ call'.at = "sync" /\ call'.mode = call.mode /\ call'.left = {}
    BY <1>8 DEF Unlink, Calls, Locations
  <2>2. file' \in [Modes -> [Scopes -> Files]]
    BY <1>8 DEF Unlink, Files, Scopes
  <2> QED
    BY <1>8, <2>1, <2>2 DEF Unlink
<1>9. CASE Complete
  <2>1. call.now \in Modes /\ call.scope \in Scopes
    BY <1>9 DEF Complete, Calls
  <2>2. CASE StillActive(call.now, call.scope) = {}
    <3>1. call' = [call EXCEPT !.at = "sync", !.on = FALSE] /\ UNCHANGED <<file, apart>>
      BY <1>9, <2>2 DEF Complete
    <3>2. call' \in Calls /\ CallShape'
      BY <1>9, <3>1 DEF Complete, Calls, Locations
    <3> QED
      BY <1>9, <3>1, <3>2 DEF Complete
  <2>3. CASE StillActive(call.now, call.scope) # {}
    <3> DEFINE x == IF call.scope \in StillActive(call.now, call.scope)
                      THEN call.scope ELSE "root"
    <3>1. x \in Scopes
      BY <2>1 DEF Scopes
    <3>2. /\ call' = [call EXCEPT !.at = "completing", !.path = x]
          /\ file' = [file EXCEPT ![call.now][x] = Torn]
          /\ apart' = apart \cup (IF x = call.scope THEN {} ELSE {<<call.now, x>>})
      BY <1>9, <2>3 DEF Complete
    <3> HIDE DEF x
    <3>3. call' \in Calls /\ CallShape'
      BY <1>9, <3>1, <3>2 DEF Complete, Calls, Locations
    <3>4. file' \in [Modes -> [Scopes -> Files]]
      BY <2>1, <3>1, <3>2 DEF Files
    <3>5. apart' \subseteq Modes \X Scopes
      BY <2>1, <3>1, <3>2
    <3> QED
      BY <1>9, <3>3, <3>4, <3>5 DEF Complete
  <2> QED
    BY <2>2, <2>3
<1>10. CASE Completing
  BY <1>10 DEF Completing, Completed, Calls, Locations, Files, States
<1>11. CASE Proceed
  BY <1>11 DEF Proceed, Calls, Locations
<1>12. CASE Write
  BY <1>12 DEF Write, Calls, Locations, Files
<1>13. CASE Writing
  <2>1. file' \in [Modes -> [Scopes -> Files]]
    BY <1>13, FilesAssumption DEF Writing, Calls, Files
  <2>2. call' \in Calls /\ CallShape'
    BY <1>13, IdleTyped DEF Writing, Calls, Locations
  <2> QED
    BY <1>13, <2>1, <2>2 DEF Writing
<1>14. CASE Sync
  <2>1. Subject \in Modes
    BY <1>14 DEF Sync, Subject, Calls
  <2>2. Entries(skill[call.scope], Subject, call.on) \in SUBSET Modes
    BY <2>1, ListsTyped DEF Entries, Calls
  <2> QED
    BY <1>14, <2>2 DEF Sync, Calls, Locations
<1>15. CASE Syncing
  <2>1. call' \in Calls /\ CallShape'
    BY <1>15, IdleTyped DEF Syncing, Calls, Locations
  <2>2. skill' \in [Scopes -> {Absent, Torn} \cup Lists]
    BY <1>15 DEF Syncing, Lists, Calls
  <2>3. Subject \in Modes /\ call.scope \in Scopes
    BY <1>15 DEF Syncing, Subject, Calls
  <2>4. apart' \subseteq Modes \X Scopes
    BY <1>15, <2>3 DEF Syncing
  <2> QED
    BY <1>15, <2>1, <2>2, <2>4 DEF Syncing
<1>16. CASE Kill
  <2>1. CASE call.at = "next"
    BY <1>16, <2>1, IdleTyped DEF Kill, Scopes
  <2>2. CASE call.at # "next"
    <3>1. Subject \in Modes
      BY <1>16, <2>2 DEF Kill, Subject, Calls, Locations
    <3>2. apart' \subseteq Modes \X Scopes
      BY <1>16, <2>2, <3>1 DEF Kill, Calls
    <3> QED
      BY <1>16, <3>2, IdleTyped DEF Kill, Scopes
  <2> QED
    BY <2>1, <2>2
<1>17. CASE UNCHANGED vars
  BY <1>17 DEF vars
<1>18. CASE RefuseState
  BY <1>18, IdleTyped DEF RefuseState
<1> QED
  BY <1>18, <1>1, <1>2, <1>3, <1>4, <1>5, <1>6, <1>7, <1>8, <1>9, <1>10, <1>11, <1>12, <1>13,
     <1>14, <1>15, <1>16, <1>17 DEF Next, Operation, Continue

\* Every file holds what some call wrote to it: start_mode, update_mode_state,
\* state_write, state_clear and cancel_mode leave nothing else, killed or not.
THEOREM TypeCorrect == Spec => []TypeOK
<1>1. Init => TypeOK /\ CallShape
  BY InitTyped
<1>2. TypeOK /\ CallShape /\ [Next]_vars => TypeOK' /\ CallShape'
  BY TypedStep
<1> QED
  BY <1>1, <1>2, PTL DEF Spec
-----------------------------------------------------------------------------
(***************************************************************************)
(* The mutex.  What the next start would see of a scope (Seen) is          *)
(* compatible, and while a call is on its way to make a mode active there  *)
(* (Coming), all that is not about to be completed overlaps with it.       *)
(***************************************************************************)
Activating == /\ call.at # "idle"
              /\ IsActive(call.copy) \/ call.on \/ call.at = "next" \/ call.left # {}

\* a list that is being written counts as written
Listed(s) == IF call.at = "syncing" /\ call.scope = s THEN call.list ELSE On(skill[s])

\* the root's list stands in for the session's
StoodIn == /\ skill["session"] \in {Absent, Torn}
           /\ ~(call.at = "syncing" /\ call.scope = "session")

Seen(s) == Running(s) \cup
             (IF s = "session" /\ StoodIn THEN Listed("root") ELSE Listed(s))

Coming(s) == IF Activating /\ call.scope \in Paths(s) THEN {call.mode} ELSE {}

MutexAt(s) ==
  /\ Compatible(Seen(s))
  /\ \A m \in Coming(s) : Fit((Seen(s) \ call.left) \ {m}, m)

\* until the session has a directory there is nothing in it, and what the root starts
\* later ends what is promised of the session
SessionShape ==
  /\ "root" \in bypassed => "session" \in bypassed
  /\ ~dir => /\ \A m \in Modes : file[m]["session"] = Absent
             /\ skill["session"] = Absent
             /\ call.scope = "session" => call.at \notin {"write", "writing", "syncing"}
             /\ call.at = "completing" => call.path = "root"
  /\ call.left # {} => /\ call.at \notin {"idle", "write", "writing", "unlink"}
                       /\ call.scope = "root" /\ dir => "session" \in bypassed
  /\ call.left # {} /\ call.at \in {"sync", "syncing"} => call.now \notin Running(call.scope)
  /\ call.at = "syncing" => /\ skill[call.scope] = Torn
                            /\ call.left # {} => call.now \notin call.list

MutexInv == SessionShape /\ \A s \in Scopes \ bypassed : MutexAt(s)

LEMMA CompatibleParts ==
  ASSUME NEW S, NEW T, Compatible(S), T \subseteq S
  PROVE  Compatible(T)
BY DEF Compatible

LEMMA CompatibleWith ==
  ASSUME NEW S, NEW m, Compatible(S), Fit(S \ {m}, m)
  PROVE  Compatible(S \cup {m})
<1> SUFFICES ASSUME NEW a \in S \cup {m}, NEW b \in S \cup {m}, a # b
             PROVE  Overlaps(a, b)
  BY DEF Compatible
<1>1. CASE a \in S /\ b \in S
  BY <1>1 DEF Compatible
<1>2. CASE a = m /\ b \in S
  BY <1>2, OverlapsBothWays DEF Fit
<1>3. CASE b = m /\ a \in S
  BY <1>3 DEF Fit
<1> QED
  BY <1>1, <1>2, <1>3

\* The mutex outlives a step after which no more is seen and nothing else is coming.
LEMMA MutexNarrows ==
  ASSUME NEW s, MutexAt(s),
         Seen(s)' \subseteq Seen(s),
         Coming(s)' \subseteq Coming(s),
         Coming(s)' = {} \/ Seen(s)' \ call'.left \subseteq Seen(s) \ call.left
  PROVE  MutexAt(s)'
<1>1. Compatible(Seen(s)')
  BY CompatibleParts DEF MutexAt
<1>2. ASSUME NEW m \in Coming(s)' PROVE Fit((Seen(s)' \ call'.left) \ {m}, m)
  BY <1>2 DEF MutexAt, Fit
<1> QED
  BY <1>1, <1>2 DEF MutexAt

\* It outlives one that brings what was coming, once nothing is left to be completed.
LEMMA MutexArrives ==
  ASSUME NEW s, MutexAt(s), call.left = {}, call'.left = {},
         NEW m \in Coming(s),
         Seen(s)' \subseteq Seen(s) \cup {m},
         Coming(s)' \subseteq {m}
  PROVE  MutexAt(s)'
<1>1. Compatible(Seen(s) \cup {m})
  BY CompatibleWith DEF MutexAt, Fit
<1>2. Compatible(Seen(s)')
  BY <1>1, CompatibleParts
<1>3. ASSUME NEW c \in Coming(s)' PROVE Fit((Seen(s)' \ call'.left) \ {c}, c)
  BY <1>3 DEF MutexAt, Fit
<1> QED
  BY <1>2, <1>3 DEF MutexAt

\* It outlives a call's first step towards a mode that is seen already.
LEMMA MutexAgain ==
  ASSUME NEW s, MutexAt(s), call'.left = {}, NEW m \in Seen(s),
         Seen(s)' \subseteq Seen(s), Coming(s)' \subseteq {m}
  PROVE  MutexAt(s)'
<1>1. Compatible(Seen(s)')
  BY CompatibleParts DEF MutexAt
<1>2. ASSUME NEW c \in Coming(s)' PROVE Fit((Seen(s)' \ call'.left) \ {c}, c)
  BY <1>2 DEF MutexAt, Fit, Compatible
<1> QED
  BY <1>1, <1>2 DEF MutexAt

\* One file changes.
LEMMA RunningAfter ==
  ASSUME TypeOK, NEW m \in Modes, NEW x \in Scopes, NEW f, NEW s \in Scopes,
         file' = [file EXCEPT ![m][x] = f]
  PROVE  /\ Running(s)' \subseteq Running(s) \cup (IF IsActive(f) THEN {m} ELSE {})
         /\ x \notin Paths(s) => Running(s)' = Running(s)
<1>1. \A y \in Scopes, c \in Modes :
        file'[c][y] = IF c = m /\ y = x THEN f ELSE file[c][y]
  BY DEF TypeOK
<1>2. Paths(s) \subseteq Scopes
  BY DEF Paths, Scopes
<1> QED
  BY <1>1, <1>2 DEF Running
LEMMA NotActive == ~IsActive(Absent) /\ ~IsActive(Torn) /\ On(Absent) = {} /\ On(Torn) = {}
BY DEF IsActive, On

\* While the session has no directory it sees what the root sees.
LEMMA SeenThroughRoot ==
  ASSUME TypeOK, SessionShape, ~dir, call.at # "syncing" \/ call.scope = "root"
  PROVE  Seen("session") = Seen("root") /\ StoodIn
<1>1. StoodIn
  BY DEF SessionShape, StoodIn
<1>2. Running("session") = Running("root")
  BY NotActive DEF SessionShape, Running, Paths, Scopes
<1> QED
  BY <1>1, <1>2 DEF Seen

LEMMA AllowedFits ==
  ASSUME NEW current, NEW m, Compatible(current), Allowed(current, m)
  PROVE  Fit((current \ AutoCompleted(current, m)) \ {m}, m)
<1>1. CASE m \in current
  BY <1>1 DEF AutoCompleted, Fit, Compatible
<1>2. CASE m \notin current
  BY <1>2 DEF Allowed, AutoCompleted, Fit, Sources
<1> QED
  BY <1>1, <1>2

\* start_mode's decision is what the mutex rests on.
LEMMA StartKeepsMutex ==
  ASSUME TypeOK, CallShape, MutexInv, NEW m \in Modes, NEW s \in Scopes, Start(m, s)
  PROVE  MutexInv'
<1>9. PICK f \in Initial(m) :
         Begin([Idle EXCEPT !.at = "next", !.mode = m, !.scope = s, !.copy = f,
                            !.left = AutoCompleted(Visible(s), m)])
  BY DEF Start
<1> DEFINE c == [Idle EXCEPT !.at = "next", !.mode = m, !.scope = s, !.copy = f,
                             !.left = AutoCompleted(Visible(s), m)]
<1>0. call.at = "idle" /\ call' = c
  BY <1>9 DEF Begin
<1>1. /\ call.at = "idle" /\ call' = c
      /\ bypassed' = bypassed \cup (IF s = "root" /\ dir THEN {"session"} ELSE {})
      /\ UNCHANGED <<file, skill, dir>>
      /\ Allowed(Visible(s), m)
  BY <1>0, Zenon DEF Start
<1>2. /\ c.at = "next" /\ c.mode = m /\ c.scope = s
      /\ c.left = AutoCompleted(Visible(s), m)
  BY DEF Idle
<1> HIDE DEF c
<1>4. \A x \in Scopes : Seen(x)' = Seen(x)
  BY <1>1, <1>2 DEF Seen, Running, StoodIn, Listed
<1>5. Visible(s) = Seen(s)
  BY <1>1 DEF Visible, Canonical, Seen, StoodIn, Listed, Scopes
<1>6. SessionShape'
  BY <1>1, <1>2 DEF MutexInv, SessionShape
<1>7. ASSUME NEW x \in Scopes \ bypassed' PROVE MutexAt(x)'
  <2>1. MutexAt(x)
    BY <1>1, <1>7 DEF MutexInv
  <2>2. Compatible(Seen(x)')
    BY <1>4, <2>1 DEF MutexAt
  <2>3. CASE s \notin Paths(x)
    BY <1>1, <1>2, <2>2, <2>3 DEF MutexAt, Coming
  <2>4. CASE s \in Paths(x)
    <3>1. Coming(x)' \subseteq {m}
      BY <1>1, <1>2 DEF Coming
    <3>2. Seen(x) = Seen(s)
      BY <1>1, <1>7, <2>4, SeenThroughRoot DEF MutexInv, Paths, Scopes
    <3>3. Fit((Seen(x)' \ call'.left) \ {m}, m)
      BY <1>1, <1>2, <1>4, <1>5, <3>2, <2>1, AllowedFits DEF MutexAt
    <3> QED
      BY <2>2, <3>1, <3>3 DEF MutexAt
  <2> QED
    BY <2>3, <2>4
<1> QED
  BY <1>6, <1>7 DEF MutexInv

\* What asks no rule makes a mode active only where it was active already, or ends
\* what is promised of the scope.
LEMMA UpdateKeepsMutex ==
  ASSUME TypeOK, CallShape, MutexInv, NEW m \in Modes, NEW s \in Scopes, Update(m, s)
  PROVE  MutexInv'
<1> DEFINE read == file[m][IF s = "session" /\ dir THEN "session" ELSE "root"]
<1>1. read \in States
  BY DEF Update, Files, Scopes, TypeOK
<1>2. PICK f \in Merges([read EXCEPT !.outcome = "none"]) :
        /\ Begin([Idle EXCEPT !.at = "write", !.mode = m, !.scope = s,
                   !.copy = Contract(f), !.on = Contract(f).active])
        /\ Unchecked(m, s, Contract(f))
  BY DEF Update
<1> DEFINE g == Contract(f)
<1>3. g \in States
  BY <1>1, <1>2, ContractTyped
<1> DEFINE c == [Idle EXCEPT !.at = "write", !.mode = m, !.scope = s, !.copy = g, !.on = g.active]
<1>4. /\ c.at = "write" /\ c.mode = m /\ c.scope = s /\ c.copy = g /\ c.on = g.active
      /\ c.left = {}
  BY DEF Idle
<1>5. /\ call.at = "idle" /\ call' = c /\ Unchecked(m, s, g)
      /\ dir' = (dir \/ s = "session")
      /\ UNCHANGED <<file, skill>>
  BY <1>2 DEF Update, Begin
<1> HIDE DEF c, g
<1>6. \A x \in Scopes : Seen(x)' = Seen(x)
  BY <1>4, <1>5 DEF Seen, Running, StoodIn, Listed
<1>7. SessionShape'
  BY <1>4, <1>5 DEF MutexInv, SessionShape, Unchecked, Scopes
<1>8. ASSUME NEW x \in Scopes \ bypassed' PROVE MutexAt(x)'
  <2>1. MutexAt(x)
    BY <1>5, <1>8 DEF MutexInv, Unchecked
  <2>2. Coming(x)' = {} \/ (Coming(x)' = {m} /\ m \in Seen(x))
    <3>1. CASE ~g.active \/ s \notin Paths(x)
      BY <1>4, <1>5, <3>1 DEF Coming, Activating, IsActive
    <3>2. CASE g.active /\ s \in Paths(x)
      <4>1. IsActive(file[m][s])
        BY <1>5, <1>8, <3>2 DEF Unchecked, Paths, Scopes
      <4>2. m \in Seen(x)
        BY <3>2, <4>1 DEF Seen, Running
      <4> QED
        BY <1>4, <1>5, <4>2 DEF Coming
    <3> QED
      BY <3>1, <3>2
  <2>3. call'.left = {}
    BY <1>4, <1>5
  <2> QED
    BY <1>6, <2>1, <2>2, <2>3, MutexAgain, MutexNarrows
<1> QED
  BY <1>7, <1>8 DEF MutexInv

LEMMA StateWriteKeepsMutex ==
  ASSUME TypeOK, CallShape, MutexInv, NEW m \in Modes, NEW s \in Scopes, StateWrite(m, s)
  PROVE  MutexInv'
<1> DEFINE read == IF file[m][s] \in {Absent, Torn}
                     THEN [active |-> FALSE, over |-> FALSE, outcome |-> "none"]
                     ELSE file[m][s]
<1>1. read \in States
  BY DEF Files, States, TypeOK
<1>2. PICK f \in Merges(read) :
        /\ Begin([Idle EXCEPT !.at = "sync", !.mode = m, !.scope = s, !.on = f.active])
        /\ file' = [file EXCEPT ![m][s] = f]
        /\ Unchecked(m, s, f)
  BY DEF StateWrite
<1>3. f \in States
  BY <1>1, <1>2, ContractTyped
<1> DEFINE c == [Idle EXCEPT !.at = "sync", !.mode = m, !.scope = s, !.on = f.active]
<1>4. /\ c.at = "sync" /\ c.mode = m /\ c.scope = s /\ c.copy = Absent /\ c.on = f.active
      /\ c.left = {}
  BY DEF Idle
<1>5. /\ call.at = "idle" /\ call' = c /\ Unchecked(m, s, f)
      /\ dir' = (dir \/ s = "session")
      /\ UNCHANGED skill
  BY <1>2 DEF StateWrite, Begin
<1> HIDE DEF c
<1>6. \A x \in Scopes : Seen(x)' \subseteq Seen(x) \cup (Running(x)' \ Running(x))
  BY <1>4, <1>5 DEF Seen, StoodIn, Listed
<1>7. SessionShape'
  <2>1. ~dir' => \A n \in Modes : file'[n]["session"] = Absent
    BY <1>2, <1>5 DEF MutexInv, SessionShape, TypeOK, Scopes
  <2> QED
    BY <1>4, <1>5, <2>1 DEF MutexInv, SessionShape, Unchecked, Scopes
<1>8. ASSUME NEW x \in Scopes \ bypassed' PROVE MutexAt(x)'
  <2>1. MutexAt(x)
    BY <1>5, <1>8 DEF MutexInv, Unchecked
  <2>2. /\ Running(x)' \subseteq Running(x) \cup (IF IsActive(f) THEN {m} ELSE {})
        /\ s \notin Paths(x) => Running(x)' = Running(x)
    BY <1>2, RunningAfter
  <2>3. IsActive(f) <=> f.active
    BY <1>3, FilesAssumption DEF IsActive
  <2>4. call'.left = {}
    BY <1>4, <1>5
  <2>5. CASE ~f.active \/ s \notin Paths(x)
    <3>1. Coming(x)' = {}
      BY <1>4, <1>5, <2>5, NotActive DEF Coming, Activating
    <3>2. Seen(x)' \subseteq Seen(x)
      BY <1>6, <2>2, <2>3, <2>5
    <3> QED
      BY <2>1, <3>1, <3>2, MutexNarrows
  <2>6. CASE f.active /\ s \in Paths(x)
    <3>1. IsActive(file[m][s])
      BY <1>5, <1>8, <2>6 DEF Unchecked, Paths, Scopes
    <3>2. m \in Running(x) /\ m \in Seen(x)
      BY <2>6, <3>1 DEF Seen, Running
    <3>3. Seen(x)' \subseteq Seen(x)
      BY <1>6, <2>2, <3>2
    <3>4. Coming(x)' \subseteq {m}
      BY <1>4, <1>5 DEF Coming
    <3> QED
      BY <2>1, <2>4, <3>2, <3>3, <3>4, MutexAgain
  <2> QED
    BY <2>5, <2>6
<1> QED
  BY <1>7, <1>8 DEF MutexInv
\* A file that is removed, emptied or made inactive takes nothing from the mutex.
LEMMA LessKeepsMutex ==
  ASSUME TypeOK, MutexInv, NEW m \in Modes, NEW x \in Scopes, NEW f, ~IsActive(f),
         file' = [file EXCEPT ![m][x] = f],
         UNCHANGED <<skill, bypassed>>,
         call.at # "syncing", call'.at # "syncing", call'.left = call.left,
         \A s \in Scopes : Coming(s)' \subseteq Coming(s)
  PROVE  \A s \in Scopes \ bypassed' : MutexAt(s)'
<1> SUFFICES ASSUME NEW s \in Scopes \ bypassed PROVE MutexAt(s)'
  OBVIOUS
<1>1. Running(s)' \subseteq Running(s)
  BY RunningAfter
<1>2. Seen(s)' \subseteq Seen(s)
  BY <1>1 DEF Seen, StoodIn, Listed
<1> QED
  BY <1>2, MutexNarrows DEF MutexInv

LEMMA ClearsKeepMutex ==
  ASSUME TypeOK, CallShape, MutexInv, NEW m \in Modes,
         (\E s \in Scopes : Clear(m, s)) \/ ClearAll(m)
  PROVE  MutexInv'
<1>1. PICK s \in Scopes :
        /\ call.at = "idle"
        /\ call'.at \in {"sync", "unlink"} /\ call'.left = {}
        /\ call'.copy = Absent /\ ~call'.on
        /\ file' = [file EXCEPT ![m][s] = Absent]
        /\ UNCHANGED <<skill, dir, bypassed>>
  <2>1. ASSUME NEW s \in Scopes, Clear(m, s)
        PROVE  /\ call.at = "idle"
               /\ call' = [Idle EXCEPT !.at = "sync", !.mode = m, !.scope = s]
               /\ file' = [file EXCEPT ![m][s] = Absent]
               /\ UNCHANGED <<skill, dir, bypassed>>
    BY <2>1 DEF Clear, Begin
  <2>2. ASSUME ClearAll(m)
        PROVE  /\ call.at = "idle"
               /\ call' = [Idle EXCEPT !.at = "unlink", !.mode = m]
               /\ file' = [file EXCEPT ![m]["root"] = Absent]
               /\ UNCHANGED <<skill, dir, bypassed>>
    BY <2>2 DEF ClearAll, Begin
  <2>3. ASSUME ClearAll(m) PROVE call'.at = "unlink" /\ call'.left = {}
                                   /\ call'.copy = Absent /\ ~call'.on
    <3>1. call' = [Idle EXCEPT !.at = "unlink", !.mode = m]
      BY <2>2, <2>3
    <3> QED BY <3>1 DEF Idle
  <2>4. ASSUME NEW s \in Scopes, Clear(m, s)
        PROVE  call'.at = "sync" /\ call'.left = {} /\ call'.copy = Absent /\ ~call'.on
    <3>1. call' = [Idle EXCEPT !.at = "sync", !.mode = m, !.scope = s]
      BY <2>1, <2>4
    <3> QED BY <3>1 DEF Idle
  <2> QED
    BY <2>1, <2>2, <2>3, <2>4 DEF Scopes
<1>3. call.left = {}
  BY <1>1 DEF MutexInv, SessionShape
<1>4. \A x \in Scopes : Coming(x)' = {}
  BY <1>1, NotActive DEF Coming, Activating
<1>5. SessionShape'
  <2>1. \A n \in Modes : file'[n]["session"] \in {file[n]["session"], Absent}
    BY <1>1 DEF TypeOK, Scopes
  <2> QED
    BY <1>1, <2>1 DEF MutexInv, SessionShape
<1>6. \A x \in Scopes \ bypassed' : MutexAt(x)'
  BY <1>1, <1>3, <1>4, NotActive, LessKeepsMutex
<1> QED
  BY <1>5, <1>6 DEF MutexInv

LEMMA CancelKeepsMutex ==
  ASSUME TypeOK, CallShape, MutexInv, NEW m \in Modes, Cancel(m)
  PROVE  MutexInv'
<1>1. file[m]["root"] \in States
  BY DEF Cancel, IsActive, Files, Scopes, TypeOK
<1> DEFINE g == [file[m]["root"] EXCEPT !.active = FALSE, !.over = (m = "ralph")]
           c == [Idle EXCEPT !.at = "write", !.mode = m, !.now = m, !.copy = g]
<1>2. ~g.active
  BY <1>1 DEF States
<1>3. c.at = "write" /\ c.copy = g /\ ~c.on /\ c.left = {} /\ c.scope = "root"
  BY DEF Idle
<1>4. call.at = "idle" /\ call' = c /\ UNCHANGED <<file, skill, dir, bypassed>>
  BY DEF Cancel, Begin
<1> HIDE DEF c, g
<1>5. \A x \in Scopes : Coming(x)' = {} /\ Seen(x)' = Seen(x)
  BY <1>2, <1>3, <1>4 DEF Coming, Activating, IsActive, Seen, Running, StoodIn, Listed
<1>6. SessionShape'
  BY <1>3, <1>4 DEF MutexInv, SessionShape
<1>7. \A x \in Scopes \ bypassed' : MutexAt(x)'
  BY <1>4, <1>5, MutexNarrows DEF MutexInv
<1> QED
  BY <1>6, <1>7 DEF MutexInv

\* The steps that touch one mode's file or none, and no canonical list.
LEMMA FileStepsKeepMutex ==
  ASSUME TypeOK, CallShape, MutexInv,
         (\E c \in Modes : TakeSource(c)) \/ Unlink \/ Complete \/ Completing
           \/ Proceed \/ RefuseState \/ Write
  PROVE  MutexInv'
<1> USE DEF MutexInv
<1>1. ASSUME NEW c \in Modes, TakeSource(c) PROVE MutexInv'
  <2>1. /\ call.at = "next" /\ call' = [call EXCEPT !.at = "complete", !.now = c]
        /\ c \in call.left
        /\ UNCHANGED <<file, skill, dir, bypassed>>
    BY <1>1 DEF TakeSource
  <2>2. \A x \in Scopes : Coming(x)' = Coming(x) /\ Seen(x)' = Seen(x) /\ call'.left = call.left
    BY <2>1 DEF Coming, Activating, Seen, Running, StoodIn, Listed, TypeOK, Calls
  <2>3. SessionShape'
    BY <2>1 DEF SessionShape, TypeOK, Calls
  <2> QED
    BY <2>1, <2>2, <2>3, MutexNarrows
<1>2. CASE Unlink
  <2>1. /\ call.at = "unlink" /\ call' = [call EXCEPT !.at = "sync"]
        /\ file' = [file EXCEPT ![call.mode]["session"] = Absent]
        /\ UNCHANGED <<skill, dir, bypassed>> /\ call.left = {} /\ call.mode \in Modes
    BY <1>2 DEF Unlink, CallShape
  <2>2. \A x \in Scopes : Coming(x)' \subseteq Coming(x)
    BY <2>1 DEF Coming, Activating, TypeOK, Calls
  <2>3. \A x \in Scopes \ bypassed' : MutexAt(x)'
    BY <2>1, <2>2, NotActive, LessKeepsMutex DEF Scopes, TypeOK, Calls
  <2>4. SessionShape'
    <3>1. \A n \in Modes : file'[n]["session"] \in {file[n]["session"], Absent}
      BY <2>1 DEF TypeOK, Scopes
    <3> QED
      BY <2>1, <3>1 DEF SessionShape, TypeOK, Calls
  <2> QED
    BY <2>3, <2>4
<1>3. CASE Complete
  <2>1. /\ call.at = "complete" /\ call.now \in call.left /\ call.now \in Modes
        /\ call.scope \in Scopes /\ UNCHANGED <<skill, dir, bypassed>>
    BY <1>3 DEF Complete, CallShape, TypeOK, Calls
  <2>2. CASE StillActive(call.now, call.scope) = {}
    <3>1. call' = [call EXCEPT !.at = "sync", !.on = FALSE] /\ UNCHANGED file
      BY <1>3, <2>2 DEF Complete
    <3>2. call.now \notin Running(call.scope)
      BY <2>2 DEF StillActive, Running
    <3>3. \A x \in Scopes : Coming(x)' \subseteq Coming(x) /\ Seen(x)' = Seen(x)
                            /\ call'.left = call.left
      BY <2>1, <3>1 DEF Coming, Activating, Seen, Running, StoodIn, Listed, TypeOK, Calls
    <3>4. SessionShape'
      BY <2>1, <3>1, <3>2 DEF SessionShape, TypeOK, Calls, Running
    <3> QED
      BY <2>1, <3>3, <3>4, MutexNarrows
  <2>3. CASE StillActive(call.now, call.scope) # {}
    <3> DEFINE x == IF call.scope \in StillActive(call.now, call.scope)
                      THEN call.scope ELSE "root"
    <3>1. x \in Scopes
      BY <2>1 DEF Scopes
    <3>2. /\ call' = [call EXCEPT !.at = "completing", !.path = x]
          /\ file' = [file EXCEPT ![call.now][x] = Torn]
      BY <1>3, <2>3 DEF Complete
    <3>3. ~dir => x = "root"
      BY <2>1, NotActive DEF SessionShape, StillActive, Scopes
    <3> HIDE DEF x
    <3>4. \A y \in Scopes : Coming(y)' \subseteq Coming(y)
      BY <2>1, <3>2 DEF Coming, Activating, TypeOK, Calls
    <3>5. call'.at = "completing" /\ call'.left = call.left /\ call'.path = x
          /\ call'.copy = call.copy /\ call'.scope = call.scope
      BY <3>2 DEF TypeOK, Calls
    <3>6. \A y \in Scopes \ bypassed' : MutexAt(y)'
      BY <2>1, <3>1, <3>2, <3>4, <3>5, NotActive, LessKeepsMutex
    <3>7. ~dir => \A n \in Modes : file'[n]["session"] = file[n]["session"]
      BY <2>1, <3>1, <3>2, <3>3 DEF TypeOK, Scopes
    <3> QED
      BY <2>1, <3>3, <3>5, <3>6, <3>7 DEF SessionShape
  <2> QED
    BY <2>2, <2>3
<1>4. CASE Completing
  <2>1. /\ call.at = "completing" /\ call.now \in call.left /\ call.now \in Modes
        /\ call.path \in Scopes /\ UNCHANGED <<skill, dir, bypassed>>
        /\ file' = [file EXCEPT ![call.now][call.path] = Completed]
        /\ call' = [call EXCEPT !.at = "complete"]
    BY <1>4 DEF Completing, CallShape, TypeOK, Calls
  <2>2. ~IsActive(Completed)
    BY DEF Completed, IsActive
  <2>3. \A y \in Scopes : Coming(y)' \subseteq Coming(y)
    BY <2>1 DEF Coming, Activating, TypeOK, Calls
  <2>4. call'.at = "complete" /\ call'.left = call.left /\ call'.copy = call.copy
        /\ call'.scope = call.scope
    BY <2>1 DEF TypeOK, Calls
  <2>5. \A y \in Scopes \ bypassed' : MutexAt(y)'
    BY <2>1, <2>2, <2>3, <2>4, LessKeepsMutex
  <2>6. ~dir => \A n \in Modes : file'[n]["session"] = file[n]["session"]
    BY <2>1 DEF SessionShape, TypeOK, Scopes
  <2> QED
    BY <2>1, <2>4, <2>5, <2>6 DEF SessionShape
<1>5. CASE Proceed
  <2>1. /\ call.at = "next" /\ call.left = {} /\ UNCHANGED <<file, skill, bypassed>>
        /\ call' = [call EXCEPT !.at = "write", !.now = "", !.on = TRUE]
        /\ dir' = (dir \/ call.scope = "session")
    BY <1>5 DEF Proceed
  <2>2. \A x \in Scopes : Coming(x)' = Coming(x) /\ Seen(x)' = Seen(x) /\ call'.left = call.left
    BY <2>1 DEF Coming, Activating, Seen, Running, StoodIn, Listed, TypeOK, Calls, SessionShape
  <2>3. SessionShape'
    BY <2>1 DEF SessionShape, TypeOK, Calls
  <2> QED
    BY <2>1, <2>2, <2>3, MutexNarrows
<1>6. CASE Write
  <2>1. /\ call.at = "write" /\ call.left = {} /\ call.mode \in Modes /\ call.scope \in Scopes
        /\ UNCHANGED <<skill, dir, bypassed>>
        /\ file' = [file EXCEPT ![call.mode][call.scope] = Torn]
        /\ call' = [call EXCEPT !.at = "writing"]
    BY <1>6 DEF Write, CallShape, TypeOK, Calls
  <2>2. \A y \in Scopes : Coming(y)' \subseteq Coming(y)
    BY <2>1 DEF Coming, Activating, TypeOK, Calls
  <2>3. call'.at = "writing" /\ call'.left = {} /\ call'.copy = call.copy
        /\ call'.scope = call.scope
    BY <2>1 DEF TypeOK, Calls
  <2>4. \A y \in Scopes \ bypassed' : MutexAt(y)'
    BY <2>1, <2>2, <2>3, NotActive, LessKeepsMutex
  <2>5. ~dir => \A n \in Modes : file'[n]["session"] = file[n]["session"]
    BY <2>1 DEF SessionShape, TypeOK, Scopes
  <2> QED
    BY <2>1, <2>3, <2>4, <2>5 DEF SessionShape
<1>7. CASE RefuseState
  <2>1. /\ call.at = "next" /\ call.left = {} /\ UNCHANGED <<file, skill, bypassed>>
        /\ call' = Idle
        /\ dir' = (dir \/ call.scope = "session")
    BY <1>7 DEF RefuseState
  <2>2. \A x \in Scopes : Coming(x)' = {} /\ Seen(x)' = Seen(x)
    BY <2>1, IdleTyped DEF Coming, Activating, Seen, Running, StoodIn, Listed
  <2>3. SessionShape'
    BY <2>1, IdleTyped DEF SessionShape
  <2> QED
    BY <2>1, <2>2, <2>3, MutexNarrows
<1> QED
  BY <1>1, <1>2, <1>3, <1>4, <1>5, <1>6, <1>7
\* The new state itself, or a cancelled mode's.
LEMMA WritingKeepsMutex ==
  ASSUME TypeOK, CallShape, MutexInv, Writing
  PROVE  MutexInv'
<1>1. /\ call.at = "writing" /\ call.left = {} /\ call.mode \in Modes /\ call.scope \in Scopes
      /\ UNCHANGED <<skill, dir, bypassed>>
      /\ file' = [file EXCEPT ![call.mode][call.scope] = call.copy]
      /\ call' = IF call.now = call.mode THEN Idle ELSE [call EXCEPT !.at = "sync"]
  BY DEF Writing, CallShape, TypeOK, Calls
<1>2. call'.at \in {"idle", "sync"} /\ call'.left = {}
  BY <1>1, IdleTyped DEF TypeOK, Calls
<1>3. \A x \in Scopes : Coming(x)' \subseteq Coming(x)
  BY <1>1, IdleTyped DEF Coming, Activating, TypeOK, Calls
<1>4. SessionShape'
  <2>1. ~dir => \A n \in Modes : file'[n]["session"] = file[n]["session"]
    BY <1>1 DEF MutexInv, SessionShape, TypeOK, Scopes
  <2> QED
    BY <1>1, <1>2, <2>1 DEF MutexInv, SessionShape
<1>5. ASSUME NEW x \in Scopes \ bypassed' PROVE MutexAt(x)'
  <2>1. MutexAt(x)
    BY <1>1, <1>5 DEF MutexInv
  <2>2. /\ Running(x)' \subseteq Running(x) \cup (IF IsActive(call.copy) THEN {call.mode} ELSE {})
        /\ call.scope \notin Paths(x) => Running(x)' = Running(x)
    BY <1>1, RunningAfter
  <2>3. Seen(x)' \subseteq Seen(x) \cup (Running(x)' \ Running(x))
    BY <1>1, <1>2 DEF Seen, StoodIn, Listed
  <2>4. CASE IsActive(call.copy) /\ call.scope \in Paths(x)
    <3>1. Coming(x) = {call.mode}
      BY <1>1, <2>4 DEF Coming, Activating
    <3> QED
      BY <1>1, <1>2, <1>3, <2>1, <2>2, <2>3, <3>1, MutexArrives
  <2>5. CASE ~(IsActive(call.copy) /\ call.scope \in Paths(x))
    <3>1. Seen(x)' \subseteq Seen(x)
      BY <2>2, <2>3, <2>5
    <3> QED
      BY <1>1, <1>2, <1>3, <2>1, <3>1, MutexNarrows
  <2> QED
    BY <2>4, <2>5
<1> QED
  BY <1>4, <1>5 DEF MutexInv

\* A canonical list is read, changed and opened for writing.
LEMMA SyncKeepsMutex ==
  ASSUME TypeOK, CallShape, MutexInv, Sync
  PROVE  MutexInv'
<1> DEFINE list == Entries(skill[call.scope], Subject, call.on)
<1>1. /\ call.at = "sync" /\ call.scope \in Scopes
      /\ call' = [call EXCEPT !.at = "syncing", !.list = list]
      /\ skill' = [skill EXCEPT ![call.scope] = Torn]
      /\ dir' = (dir \/ call.scope = "session")
      /\ UNCHANGED <<file, bypassed>>
  BY DEF Sync, TypeOK, Calls
<1>2. /\ call'.at = "syncing" /\ call'.list = list /\ call'.left = call.left
      /\ call'.copy = call.copy /\ call'.scope = call.scope /\ call'.now = call.now
      /\ call'.on = call.on /\ call'.mode = call.mode
  BY <1>1 DEF TypeOK, Calls
<1>3. call.left # {} => list = On(skill[call.scope]) \ {call.now}
  BY <1>1 DEF Entries, Subject, CallShape
<1>4. call.left = {} => list \subseteq On(skill[call.scope])
                                      \cup (IF call.on THEN {call.mode} ELSE {})
  BY DEF Entries, Subject
<1> HIDE DEF list
<1>5. \A x \in Scopes : skill'[x] = IF x = call.scope THEN Torn ELSE skill[x]
  BY <1>1 DEF TypeOK
<1>6. \A x \in Scopes : Running(x)' = Running(x) /\ Coming(x)' = Coming(x)
  BY <1>1, <1>2 DEF Running, Coming, Activating
<1>7. SessionShape'
  BY <1>1, <1>2, <1>3, <1>5, <1>6 DEF MutexInv, SessionShape, Scopes
<1>8. ASSUME NEW x \in Scopes \ bypassed' PROVE MutexAt(x)'
  <2>1. MutexAt(x)
    BY <1>1, <1>8 DEF MutexInv
  <2>2. Seen(x)' \subseteq Seen(x) \cup (IF call.scope \in Paths(x) THEN list ELSE {})
    BY <1>1, <1>2, <1>5, <1>6 DEF Seen, StoodIn, Listed, Paths, Scopes
  <2>3. call.scope \in Paths(x) /\ Seen(x)' # Seen(x) =>
          Seen(x)' \subseteq Seen(x) \cup (list \ On(skill[call.scope]))
    BY <1>1, <1>2, <1>5, <1>6, NotActive DEF Seen, StoodIn, Listed, Paths, Scopes
  <2>4. CASE call.left = {} /\ call.on /\ call.scope \in Paths(x)
    <3>1. Coming(x) = {call.mode}
      BY <1>1, <2>4 DEF Coming, Activating
    <3>2. Seen(x)' \subseteq Seen(x) \cup {call.mode}
      BY <1>4, <2>3, <2>4
    <3> QED
      BY <1>2, <1>6, <2>1, <2>4, <3>1, <3>2, MutexArrives
  <2>5. CASE ~(call.left = {} /\ call.on /\ call.scope \in Paths(x))
    <3>1. Seen(x)' \subseteq Seen(x)
      BY <1>3, <1>4, <2>2, <2>3, <2>5
    <3> QED
      BY <1>2, <1>6, <2>1, <3>1, MutexNarrows
  <2> QED
    BY <2>4, <2>5
<1> QED
  BY <1>7, <1>8 DEF MutexInv

\* The changed list is on disk: the call ends, or one source fewer is left.
LEMMA SyncingKeepsMutex ==
  ASSUME TypeOK, CallShape, MutexInv, Syncing
  PROVE  MutexInv'
<1>1. /\ call.at = "syncing" /\ call.scope \in Scopes
      /\ skill' = [skill EXCEPT ![call.scope] = [active |-> call.list]]
      /\ call' = IF call.left = {} THEN Idle
                 ELSE [call EXCEPT !.at = "next", !.left = @ \ {call.now}]
      /\ UNCHANGED <<file, dir, bypassed>>
  BY DEF Syncing, TypeOK, Calls
<1>2. On([active |-> call.list]) = call.list /\ [active |-> call.list] \notin {Absent, Torn}
  <2>1. [active |-> call.list] \in Lists
    BY DEF Lists, TypeOK, Calls
  <2> QED
    BY <2>1, FilesAssumption DEF On
<1>3. \A x \in Scopes : skill'[x] = IF x = call.scope THEN [active |-> call.list] ELSE skill[x]
  BY <1>1 DEF TypeOK
<1>4. call'.at # "syncing"
  BY <1>1, IdleTyped DEF TypeOK, Calls
<1>5. \A x \in Scopes : Seen(x)' = Seen(x)
  BY <1>1, <1>2, <1>3, <1>4 DEF Seen, Running, StoodIn, Listed, Scopes
<1>6. \A x \in Scopes : Coming(x)' \subseteq Coming(x)
  BY <1>1, IdleTyped DEF Coming, Activating, TypeOK, Calls
<1>7. SessionShape'
  <2>1. ~dir => skill'["session"] = Absent
    BY <1>1, <1>3 DEF MutexInv, SessionShape, Scopes
  <2>2. CASE call.left = {}
    BY <1>1, <2>1, <2>2, IdleTyped DEF MutexInv, SessionShape
  <2>3. CASE call.left # {}
    <3>1. call'.at = "next" /\ call'.left = call.left \ {call.now} /\ call'.copy = call.copy
          /\ call'.scope = call.scope
      BY <1>1, <2>3 DEF TypeOK, Calls
    <3> QED
      BY <1>1, <2>1, <2>3, <3>1 DEF MutexInv, SessionShape
  <2> QED
    BY <2>2, <2>3
<1>8. ASSUME NEW x \in Scopes \ bypassed' PROVE MutexAt(x)'
  <2>1. MutexAt(x)
    BY <1>1, <1>8 DEF MutexInv
  <2>2. CASE call.left = {}
    <3>1. Coming(x)' = {}
      BY <1>1, <2>2, IdleTyped DEF Coming, Activating
    <3> QED
      BY <1>5, <1>6, <2>1, <3>1, MutexNarrows
  <2>3. CASE call.left # {} /\ call.scope \notin Paths(x)
    <3>1. call'.scope = call.scope
      BY <1>1, <2>3 DEF TypeOK, Calls
    <3>2. Coming(x)' = {}
      BY <2>3, <3>1 DEF Coming
    <3> QED
      BY <1>5, <1>6, <2>1, <3>2, MutexNarrows
  <2>4. CASE call.left # {} /\ call.scope \in Paths(x)
    <3>1. call'.left = call.left \ {call.now}
      BY <1>1, <2>4 DEF TypeOK, Calls
    <3>2. call.now \notin Seen(call.scope)
      BY <1>1, <2>4 DEF MutexInv, SessionShape, Seen, StoodIn, Listed
    <3>3. Seen(x) = Seen(call.scope)
      BY <1>1, <1>8, <2>4, SeenThroughRoot DEF MutexInv, SessionShape, Paths, Scopes
    <3> QED
      BY <1>5, <1>6, <2>1, <3>1, <3>2, <3>3, MutexNarrows
  <2> QED
    BY <2>2, <2>3, <2>4
<1> QED
  BY <1>7, <1>8 DEF MutexInv

\* A kill only takes away, save that a torn list of the session lets the root's show.
LEMMA KillKeepsMutex ==
  ASSUME TypeOK, CallShape, MutexInv, Kill
  PROVE  MutexInv'
<1>1. /\ call' = Idle /\ UNCHANGED <<file, skill, dir>>
      /\ bypassed' = bypassed \cup
           (IF call.at = "syncing" /\ call.scope = "session" THEN {"session"} ELSE {})
  BY DEF Kill
<1>2. SessionShape'
  BY <1>1, IdleTyped DEF MutexInv, SessionShape
<1>3. ASSUME NEW x \in Scopes \ bypassed' PROVE MutexAt(x)'
  <2>1. MutexAt(x)
    BY <1>1, <1>3 DEF MutexInv
  <2>2. Coming(x)' = {}
    BY <1>1, IdleTyped DEF Coming, Activating
  <2>3. \A y \in Scopes : Listed(y)' \subseteq Listed(y)
    BY <1>1, IdleTyped, NotActive DEF MutexInv, SessionShape, Listed
  <2>4. Seen(x)' \subseteq Seen(x)
    BY <1>1, <1>3, <2>3, IdleTyped DEF Seen, Running, StoodIn, Scopes
  <2> QED
    BY <2>1, <2>2, <2>4, MutexNarrows
<1> QED
  BY <1>2, <1>3 DEF MutexInv

\* The mutex of the workflow modes, for any modes and any number of calls and kills:
\* what start_mode made active in a scope may overlap, whatever was cancelled, cleared,
\* completed or killed half-way.  The invariant behind it speaks of what the next start
\* will see, stale canonical entries included, and of what a call in progress will add.
THEOREM ModesStayCompatible == Spec => []ModesCompatible
<1>1. Init => TypeOK /\ CallShape
  BY InitTyped
<1>2. Init => MutexInv
  <2> SUFFICES ASSUME Init PROVE MutexInv
    OBVIOUS
  <2>1. SessionShape
    BY IdleTyped DEF Init, SessionShape, Scopes
  <2>2. \A s \in Scopes : Seen(s) = {} /\ Coming(s) = {}
    BY NotActive, IdleTyped DEF Init, Seen, Running, StoodIn, Listed, Coming, Activating, Paths, Scopes
  <2> QED
    BY <2>1, <2>2 DEF MutexInv, MutexAt, Compatible
<1>3. TypeOK /\ CallShape /\ MutexInv /\ [Next]_vars => TypeOK' /\ CallShape' /\ MutexInv'
  <2> SUFFICES ASSUME TypeOK, CallShape, MutexInv, [Next]_vars PROVE MutexInv'
    BY TypedStep
  <2>1. CASE Operation
    BY <2>1, StartKeepsMutex, UpdateKeepsMutex, StateWriteKeepsMutex, ClearsKeepMutex,
       CancelKeepsMutex DEF Operation
  <2>2. CASE Continue
    BY <2>2, FileStepsKeepMutex, WritingKeepsMutex, SyncKeepsMutex, SyncingKeepsMutex
    DEF Continue
  <2>3. CASE Kill
    BY <2>3, KillKeepsMutex
  <2>4. CASE UNCHANGED vars
    BY <2>4 DEF vars, MutexInv, SessionShape, MutexAt, Seen, Running, StoodIn, Listed,
       Coming, Activating
  <2> QED
    BY <2>1, <2>2, <2>3, <2>4 DEF Next
<1>4. MutexInv => ModesCompatible
  BY CompatibleParts DEF MutexInv, MutexAt, ModesCompatible, Seen, Running, Paths, Compatible
<1> QED
  BY <1>1, <1>2, <1>3, <1>4, PTL DEF Spec
-----------------------------------------------------------------------------
(***************************************************************************)
(* The canonical lists.  Where no call is at work, a file and its entry    *)
(* agree; what a call at work will write makes them agree.                 *)
(***************************************************************************)
\* the files and entries the call in progress has changed without their counterpart
Pending ==
  CASE call.at \in {"idle", "next", "write"} -> {}
    [] call.at = "syncing" -> Modes \X {call.scope}
    [] OTHER -> {<<Subject, call.scope>>}

AgreeAt(m, s) == m \in On(skill[s]) <=> IsActive(file[m][s])

Agreement ==
  \A m \in Modes, s \in Scopes : <<m, s>> \notin apart \cup Pending => AgreeAt(m, s)

\* what the call will write is what the file says, unless its state ends its own run
Promise ==
  /\ call.at = "sync" => Overridden \/ (call.on <=> IsActive(file[Subject][call.scope]))
  /\ call.at = "syncing" =>
       \A m \in Modes : <<m, call.scope>> \notin apart \ {<<Subject, call.scope>>} =>
                          \/ Overridden /\ m = Subject
                          \/ m \in call.list <=> IsActive(file[m][call.scope])
  /\ call.at \in {"write", "writing"} =>
       IF call.now = call.mode THEN <<call.mode, call.scope>> \in apart
                               ELSE Overridden \/ (call.on <=> IsActive(call.copy))
  /\ call.at = "completing" => <<call.now, call.path>> \in apart \cup {<<call.now, call.scope>>}
  /\ call.at = "unlink" => /\ ~call.on /\ call.scope = "root"
                           /\ <<call.mode, "session">> \in apart
                           /\ ~IsActive(file[call.mode]["root"])

SkillInv == Agreement /\ Promise

\* Calls are handed their files whole: one file changes, the others do not.
LEMMA OneFile ==
  ASSUME TypeOK, NEW m \in Modes, NEW x \in Scopes, NEW f, file' = [file EXCEPT ![m][x] = f]
  PROVE  /\ file'[m][x] = f
         /\ \A n \in Modes, s \in Scopes : <<n, s>> # <<m, x>> => file'[n][s] = file[n][s]
BY DEF TypeOK

\* A step that leaves alone what agrees, and calls nothing settled that was not.
LEMMA AgreementKept ==
  ASSUME Agreement,
         \A m \in Modes, s \in Scopes :
           <<m, s>> \notin apart' \cup Pending' =>
             /\ <<m, s>> \notin apart \cup Pending
             /\ skill'[s] = skill[s] /\ file'[m][s] = file[m][s]
  PROVE  Agreement'
<1> SUFFICES ASSUME NEW m \in Modes, NEW s \in Scopes, <<m, s>> \notin apart' \cup Pending'
             PROVE  AgreeAt(m, s)'
  BY DEF Agreement
<1>1. AgreeAt(m, s)
  BY DEF Agreement
<1> QED BY <1>1 DEF AgreeAt

LEMMA InitSkill == Init => SkillInv
<1> SUFFICES ASSUME Init PROVE SkillInv
  OBVIOUS
<1>1. call.at = "idle" /\ call.left = {}
  BY DEF Init, Idle
<1>2. Promise
  BY <1>1 DEF Promise
<1>3. Agreement
  BY NotActive DEF Init, Agreement, AgreeAt
<1> QED BY <1>2, <1>3 DEF SkillInv

\* The first step of a call.
LEMMA BeginSkill ==
  ASSUME TypeOK, CallShape, SkillInv, Operation
  PROVE  SkillInv'
<1>0. call.at = "idle" /\ Pending = {}
  <2>1. ASSUME NEW c, Begin(c) PROVE call.at = "idle"
    BY <2>1 DEF Begin
  <2>2. ASSUME NEW m \in Modes, NEW s \in Scopes,
               Start(m, s) \/ Update(m, s) \/ StateWrite(m, s) \/ Clear(m, s)
        PROVE  call.at = "idle"
    <3>1. CASE Start(m, s)
      BY <2>1, <3>1 DEF Start
    <3>2. CASE Update(m, s)
      BY <2>1, <3>2 DEF Update
    <3>3. CASE StateWrite(m, s)
      BY <2>1, <3>3 DEF StateWrite
    <3>4. CASE Clear(m, s)
      BY <2>1, <3>4 DEF Clear
    <3> QED BY <2>2, <3>1, <3>2, <3>3, <3>4
  <2>3. ASSUME NEW m \in Modes, ClearAll(m) \/ Cancel(m) PROVE call.at = "idle"
    BY <2>1, <2>3 DEF ClearAll, Cancel
  <2>4. call.at = "idle"
    BY <2>2, <2>3 DEF Operation
  <2> QED BY <2>4 DEF Pending
<1>1. ASSUME NEW m \in Modes, NEW s \in Scopes, Start(m, s) PROVE SkillInv'
  <2>1. /\ call'.at = "next"
        /\ UNCHANGED <<file, skill, apart>>
    BY <1>1 DEF Start, Begin, Idle
  <2>2. Pending' = {}
    BY <2>1 DEF Pending
  <2>3. Agreement'
    BY <1>0, <2>1, <2>2, AgreementKept DEF SkillInv
  <2>4. Promise'
    BY <2>1 DEF Promise
  <2> QED BY <2>3, <2>4 DEF SkillInv
<1>2. ASSUME NEW m \in Modes, NEW s \in Scopes, Update(m, s) PROVE SkillInv'
  <2>0. PICK f : /\ call' = [Idle EXCEPT !.at = "write", !.mode = m, !.scope = s,
                              !.copy = Contract(f), !.on = Contract(f).active]
                 /\ Contract(f) \in States
                 /\ UNCHANGED <<file, skill, apart>>
    <3> DEFINE read == file[m][IF s = "session" /\ dir THEN "session" ELSE "root"]
    <3>1. read \in States
      BY <1>2 DEF Update, TypeOK, Files, Scopes
    <3>2. PICK f \in Merges([read EXCEPT !.outcome = "none"]) :
            Begin([Idle EXCEPT !.at = "write", !.mode = m, !.scope = s,
                     !.copy = Contract(f), !.on = Contract(f).active])
      BY <1>2 DEF Update
    <3>3. Contract(f) \in States
      BY <3>1, <3>2, ContractTyped
    <3> QED BY <1>2, <3>2, <3>3 DEF Update, Begin
  <2>1. /\ call'.at = "write" /\ call'.now = "" /\ call'.mode = m /\ call'.left = {}
        /\ call'.copy = Contract(f) /\ call'.on = Contract(f).active
    BY <2>0 DEF Idle
  <2>2. Pending' = {} /\ "" # m
    BY <2>1, ModesAssumption DEF Pending, TrackedModes, PlanningModes, ExecutionModes
  <2>3. Agreement'
    BY <1>0, <2>0, <2>2, AgreementKept DEF SkillInv
  <2>4. IsActive(Contract(f)) <=> Contract(f).active
    BY <2>0, FilesAssumption DEF IsActive
  <2>5. Promise'
    BY <2>1, <2>2, <2>4 DEF Promise, IsActive
  <2> QED BY <2>3, <2>5 DEF SkillInv
<1>3. ASSUME NEW m \in Modes, NEW s \in Scopes, StateWrite(m, s) PROVE SkillInv'
  <2>0. PICK f \in States :
             /\ call' = [Idle EXCEPT !.at = "sync", !.mode = m, !.scope = s, !.on = f.active]
             /\ file' = [file EXCEPT ![m][s] = f]
             /\ UNCHANGED <<skill, apart>>
    <3> DEFINE read == IF file[m][s] \in {Absent, Torn}
                         THEN [active |-> FALSE, over |-> FALSE, outcome |-> "none"]
                         ELSE file[m][s]
    <3>1. read \in States
      BY DEF TypeOK, Files, States
    <3>2. PICK f \in Merges(read) :
            /\ Begin([Idle EXCEPT !.at = "sync", !.mode = m, !.scope = s, !.on = f.active])
            /\ file' = [file EXCEPT ![m][s] = f]
      BY <1>3 DEF StateWrite
    <3>3. f \in States
      BY <3>1, <3>2, ContractTyped
    <3> QED BY <1>3, <3>2, <3>3 DEF StateWrite, Begin
  <2>1. /\ call'.at = "sync" /\ call'.mode = m /\ call'.scope = s /\ call'.left = {}
        /\ call'.on = f.active
    BY <2>0 DEF Idle
  <2>2. Subject' = m
    BY <2>1 DEF Subject
  <2>3. Pending' = {<<m, s>>}
    BY <2>1, <2>2 DEF Pending
  <2>4. Agreement'
    BY <1>0, <2>0, <2>3, OneFile, AgreementKept DEF SkillInv
  <2>5. IsActive(file'[m][s]) <=> f.active
    <3>1. file'[m][s] = f
      BY <2>0 DEF TypeOK
    <3> QED BY <3>1, FilesAssumption DEF IsActive
  <2>6. Promise'
    BY <2>1, <2>2, <2>5 DEF Promise, IsActive
  <2> QED BY <2>4, <2>6 DEF SkillInv
<1>4. ASSUME NEW m \in Modes, NEW s \in Scopes, Clear(m, s) PROVE SkillInv'
  <2>1. /\ call'.at = "sync" /\ call'.mode = m /\ call'.scope = s /\ call'.left = {}
        /\ call'.on = FALSE
        /\ file' = [file EXCEPT ![m][s] = Absent]
        /\ UNCHANGED <<skill, apart>>
    BY <1>4 DEF Clear, Begin, Idle
  <2>2. Subject' = m
    BY <2>1 DEF Subject
  <2>3. Pending' = {<<m, s>>}
    BY <2>1, <2>2 DEF Pending
  <2>4. Agreement'
    BY <1>0, <2>1, <2>3, OneFile, AgreementKept DEF SkillInv
  <2>5. ~IsActive(file'[m][s])
    <3>1. file'[m][s] = Absent
      BY <2>1 DEF TypeOK
    <3> QED BY <3>1, NotActive
  <2>6. Promise'
    BY <2>1, <2>2, <2>5 DEF Promise, IsActive
  <2> QED BY <2>4, <2>6 DEF SkillInv
<1>5. ASSUME NEW m \in Modes, ClearAll(m) PROVE SkillInv'
  <2>1. /\ call'.at = "unlink" /\ call'.mode = m /\ call'.scope = "root" /\ call'.left = {}
        /\ call'.on = FALSE
        /\ file' = [file EXCEPT ![m]["root"] = Absent]
        /\ apart' = apart \cup {<<m, "session">>}
        /\ UNCHANGED skill
    BY <1>5 DEF ClearAll, Begin, Idle
  <2>2. Subject' = m /\ "root" \in Scopes
    BY <2>1 DEF Subject, Scopes
  <2>3. Pending' = {<<m, "root">>}
    BY <2>1, <2>2 DEF Pending
  <2>4. Agreement'
    BY <1>0, <2>1, <2>2, <2>3, OneFile, AgreementKept DEF SkillInv
  <2>5. ~IsActive(file'[m]["root"])
    <3>1. file'[m]["root"] = Absent
      BY <2>1, <2>2 DEF TypeOK
    <3> QED BY <3>1, NotActive
  <2>6. Promise'
    BY <2>1, <2>2, <2>5 DEF Promise, IsActive
  <2> QED BY <2>4, <2>6 DEF SkillInv
<1>6. ASSUME NEW m \in Modes, Cancel(m) PROVE SkillInv'
  <2>1. /\ call'.at = "write" /\ call'.mode = m /\ call'.now = m /\ call'.scope = "root"
        /\ call'.left = {}
        /\ apart' = apart \cup {<<m, "root">>}
        /\ UNCHANGED <<file, skill>>
    BY <1>6 DEF Cancel, Begin, Idle
  <2>2. Pending' = {}
    BY <2>1 DEF Pending
  <2>3. Agreement'
    BY <1>0, <2>1, <2>2, AgreementKept DEF SkillInv
  <2>4. Promise'
    BY <2>1 DEF Promise, IsActive
  <2> QED BY <2>3, <2>4 DEF SkillInv
<1> QED BY <1>1, <1>2, <1>3, <1>4, <1>5, <1>6 DEF Operation

\* A call that completes the modes the new one takes over from.
LEMMA SourceSkill ==
  ASSUME TypeOK, CallShape, SkillInv
  PROVE  /\ \A c \in Modes : TakeSource(c) => SkillInv'
         /\ Complete => SkillInv'
         /\ Completing => SkillInv'
         /\ Proceed => SkillInv'
         /\ RefuseState => SkillInv'
<1>0. call.scope \in Scopes /\ call.now \in Modes \cup {""} /\ call.path \in Scopes
  BY DEF TypeOK, Calls
<1>1. ASSUME NEW c \in Modes, TakeSource(c) PROVE SkillInv'
  <2>1. /\ call.at = "next" /\ call'.at = "complete" /\ call'.left = call.left
        /\ call'.copy = call.copy
        /\ UNCHANGED <<file, skill, apart>>
    BY <1>1 DEF TakeSource, TypeOK, Calls
  <2>2. Pending = {}
    BY <2>1 DEF Pending
  <2>3. Agreement'
    BY <2>1, <2>2, AgreementKept DEF SkillInv
  <2>4. Promise'
    BY <2>1 DEF SkillInv, Promise, IsActive
  <2> QED BY <2>3, <2>4 DEF SkillInv
<1>2. ASSUME Complete PROVE SkillInv'
  <2>0. /\ call.at = "complete" /\ call.now \in call.left /\ call.now \in Modes
        /\ UNCHANGED skill
    BY <1>2 DEF Complete, CallShape, TypeOK, Calls
  <2>1. Pending = {<<call.now, call.scope>>}
    BY <2>0 DEF Pending, Subject
  <2>2. CASE StillActive(call.now, call.scope) = {}
    <3>0. call' = [call EXCEPT !.at = "sync", !.on = FALSE] /\ UNCHANGED <<file, apart>>
      BY <1>2, <2>2 DEF Complete
    <3>1. /\ call'.at = "sync" /\ call'.left = call.left /\ call'.now = call.now
          /\ call'.scope = call.scope /\ call'.copy = call.copy /\ call'.on = FALSE
          /\ UNCHANGED <<file, apart>>
      BY <3>0 DEF TypeOK, Calls
    <3>2. Subject' = call.now
      BY <2>0, <3>1 DEF Subject
    <3>3. Pending' = Pending
      BY <2>1, <3>1, <3>2 DEF Pending
    <3>4. Agreement'
      BY <2>0, <3>1, <3>3, AgreementKept DEF SkillInv
    <3>5. ~IsActive(file[call.now][call.scope])
      BY <2>2 DEF StillActive, Paths
    <3>6. Promise'
      BY <2>0, <3>1, <3>2, <3>5 DEF SkillInv, Promise, IsActive
    <3> QED BY <3>4, <3>6 DEF SkillInv
  <2>3. CASE StillActive(call.now, call.scope) # {}
    <3> DEFINE x == IF call.scope \in StillActive(call.now, call.scope)
                      THEN call.scope ELSE "root"
    <3>1. x \in Scopes
      BY <1>0 DEF Scopes
    <3>2. /\ call'.at = "completing" /\ call'.left = call.left /\ call'.now = call.now
          /\ call'.scope = call.scope /\ call'.copy = call.copy /\ call'.path = x
          /\ file' = [file EXCEPT ![call.now][x] = Torn]
          /\ apart' = apart \cup (IF x = call.scope THEN {} ELSE {<<call.now, x>>})
      BY <1>2, <2>3 DEF Complete, TypeOK, Calls
    <3> HIDE DEF x
    <3>3. Subject' = call.now
      BY <2>0, <3>2 DEF Subject
    <3>4. Pending' = Pending
      BY <2>1, <3>2, <3>3 DEF Pending
    <3>5. Agreement'
      BY <2>0, <2>1, <3>1, <3>2, <3>4, OneFile, AgreementKept DEF SkillInv
    <3>6. Promise'
      BY <2>0, <3>2, <3>3 DEF SkillInv, Promise, IsActive
    <3> QED BY <3>5, <3>6 DEF SkillInv
  <2> QED BY <2>2, <2>3
<1>3. ASSUME Completing PROVE SkillInv'
  <2>0. /\ call.at = "completing" /\ call.now \in call.left /\ call.now \in Modes
        /\ file' = [file EXCEPT ![call.now][call.path] = Completed]
        /\ UNCHANGED <<skill, apart>>
        /\ call'.at = "complete" /\ call'.left = call.left /\ call'.now = call.now
        /\ call'.scope = call.scope /\ call'.copy = call.copy
    BY <1>3 DEF Completing, CallShape, TypeOK, Calls
  <2>1. Pending = {<<call.now, call.scope>>} /\ Subject' = call.now
    BY <2>0 DEF Pending, Subject
  <2>2. Pending' = Pending
    BY <2>0, <2>1 DEF Pending
  <2>3. <<call.now, call.path>> \in apart \cup Pending
    BY <2>0, <2>1 DEF SkillInv, Promise
  <2>4. Agreement'
    <3>1. \A n \in Modes, s \in Scopes :
            <<n, s>> # <<call.now, call.path>> => file'[n][s] = file[n][s]
      <4>1. TypeOK /\ call.now \in Modes /\ call.path \in Scopes
        BY <1>0, <2>0 DEF TypeOK, Calls
      <4>2. file' = [file EXCEPT ![call.now][call.path] = Completed]
        BY <2>0
      <4> QED BY <4>1, <4>2, OneFile
    <3>2. \A n \in Modes, s \in Scopes :
            <<n, s>> \notin apart' \cup Pending' =>
              /\ <<n, s>> \notin apart \cup Pending
              /\ skill'[s] = skill[s] /\ file'[n][s] = file[n][s]
      BY <2>0, <2>2, <2>3, <3>1
    <3> QED BY <3>2, AgreementKept DEF SkillInv
  <2>5. Promise'
    BY <2>0, <2>1 DEF SkillInv, Promise, IsActive
  <2> QED BY <2>4, <2>5 DEF SkillInv
<1>4. ASSUME Proceed PROVE SkillInv'
  <2>0. /\ call.at = "next" /\ call'.at = "write" /\ call'.left = {} /\ call'.now = ""
        /\ call'.mode = call.mode /\ call'.on = TRUE /\ call'.copy = call.copy
        /\ UNCHANGED <<file, skill, apart>>
    BY <1>4 DEF Proceed, TypeOK, Calls
  <2>1. Pending = {} /\ Pending' = {}
    BY <2>0 DEF Pending
  <2>2. Agreement'
    BY <2>0, <2>1, AgreementKept DEF SkillInv
  <2>3. call.mode # ""
    BY <2>0, ModesAssumption DEF CallShape, TrackedModes, PlanningModes, ExecutionModes
  <2>4. call.copy # Absent
    BY <1>4 DEF Proceed
  <2>5. Promise'
    BY <2>0, <2>3, <2>4 DEF Promise, Overridden, IsActive
  <2> QED BY <2>2, <2>5 DEF SkillInv
<1>5. ASSUME RefuseState PROVE SkillInv'
  <2>1. call.at = "next" /\ call'.at = "idle" /\ UNCHANGED <<file, skill, apart>>
    BY <1>5, IdleTyped DEF RefuseState
  <2>2. Pending = {} /\ Pending' = {}
    BY <2>1 DEF Pending
  <2>3. Agreement'
    BY <2>1, <2>2, AgreementKept DEF SkillInv
  <2>4. Promise'
    BY <2>1 DEF Promise
  <2> QED BY <2>3, <2>4 DEF SkillInv
<1> QED BY <1>1, <1>2, <1>3, <1>4, <1>5

\* A call that writes its own mode's file.
LEMMA FileSkill ==
  ASSUME TypeOK, CallShape, SkillInv
  PROVE  /\ Unlink => SkillInv'
         /\ Write => SkillInv'
         /\ Writing => SkillInv'
<1>0. call.scope \in Scopes /\ (call.at # "idle" => call.mode \in Modes)
  BY DEF TypeOK, Calls, CallShape
<1>1. ASSUME Unlink PROVE SkillInv'
  <2>0. /\ call.at = "unlink" /\ call.mode \in Modes /\ call.left = {}
        /\ file' = [file EXCEPT ![call.mode]["session"] = Absent]
        /\ call'.at = "sync" /\ call'.left = {} /\ call'.mode = call.mode
        /\ call'.scope = call.scope /\ call'.on = call.on
        /\ UNCHANGED <<skill, apart>>
    BY <1>1 DEF Unlink, CallShape, TypeOK, Calls
  <2>1. /\ ~call.on /\ call.scope = "root" /\ <<call.mode, "session">> \in apart
        /\ ~IsActive(file[call.mode]["root"])
    BY <2>0 DEF SkillInv, Promise
  <2>2. Subject = call.mode /\ Subject' = call.mode
    BY <2>0 DEF Subject
  <2>3. Pending = {<<call.mode, "root">>} /\ Pending' = {<<call.mode, "root">>}
    BY <2>0, <2>1, <2>2 DEF Pending
  <2>4. "session" \in Scopes /\ "root" \in Scopes
    BY DEF Scopes
  <2>5. Agreement'
    BY <2>0, <2>1, <2>3, <2>4, OneFile, AgreementKept DEF SkillInv
  <2>6. file'[call.mode]["root"] = file[call.mode]["root"]
    BY <2>0, <2>4, OneFile
  <2>7. ~IsActive(file'[call.mode]["root"])
    BY <2>1, <2>6
  <2>8. Promise'
    BY <2>0, <2>1, <2>2, <2>7 DEF Promise, IsActive
  <2> QED BY <2>5, <2>8 DEF SkillInv
<1>2. ASSUME Write PROVE SkillInv'
  <2>0. /\ call.at = "write" /\ call.mode \in Modes /\ call.left = {}
        /\ file' = [file EXCEPT ![call.mode][call.scope] = Torn]
        /\ call'.at = "writing" /\ call'.left = {} /\ call'.mode = call.mode
        /\ call'.scope = call.scope /\ call'.on = call.on /\ call'.now = call.now
        /\ call'.copy = call.copy
        /\ UNCHANGED <<skill, apart>>
    BY <1>2 DEF Write, CallShape, TypeOK, Calls
  <2>1. Subject' = call.mode
    BY <2>0 DEF Subject
  <2>2. Pending = {} /\ Pending' = {<<call.mode, call.scope>>}
    BY <2>0, <2>1 DEF Pending
  <2>3. Agreement'
    BY <1>0, <2>0, <2>2, OneFile, AgreementKept DEF SkillInv
  <2>4. Promise'
    BY <2>0 DEF SkillInv, Promise, Overridden, IsActive
  <2> QED BY <2>3, <2>4 DEF SkillInv
<1>3. ASSUME Writing PROVE SkillInv'
  <2>0. /\ call.at = "writing" /\ call.mode \in Modes /\ call.left = {}
        /\ file' = [file EXCEPT ![call.mode][call.scope] = call.copy]
        /\ call' = IF call.now = call.mode THEN Idle ELSE [call EXCEPT !.at = "sync"]
        /\ UNCHANGED <<skill, apart>>
    BY <1>3 DEF Writing, CallShape, TypeOK, Calls
  <2>1. Subject = call.mode
    BY <2>0 DEF Subject
  <2>2. Pending = {<<call.mode, call.scope>>}
    BY <2>0, <2>1 DEF Pending
  <2>3. CASE call.now = call.mode
    <3>1. call'.at = "idle" /\ call'.left = {} /\ Pending' = {}
      BY <2>0, <2>3 DEF Idle, Pending
    <3>2. <<call.mode, call.scope>> \in apart
      BY <2>0, <2>3 DEF SkillInv, Promise
    <3>3. Agreement'
      BY <1>0, <2>0, <2>2, <3>1, <3>2, OneFile, AgreementKept DEF SkillInv
    <3>4. Promise'
      BY <3>1 DEF Promise
    <3> QED BY <3>3, <3>4 DEF SkillInv
  <2>4. CASE call.now # call.mode
    <3>1. /\ call'.at = "sync" /\ call'.left = {} /\ call'.mode = call.mode
          /\ call'.scope = call.scope /\ call'.on = call.on /\ call'.copy = call.copy
      BY <2>0, <2>4 DEF TypeOK, Calls
    <3>2. Subject' = call.mode
      BY <3>1 DEF Subject
    <3>3. Pending' = {<<call.mode, call.scope>>}
      BY <3>1, <3>2 DEF Pending
    <3>4. Agreement'
      BY <1>0, <2>0, <2>2, <3>3, OneFile, AgreementKept DEF SkillInv
    <3>5. file'[call.mode][call.scope] = call.copy
      BY <1>0, <2>0 DEF TypeOK
    <3>6. Overridden \/ (call.on <=> IsActive(file'[call.mode][call.scope]))
      BY <2>0, <2>4, <3>5 DEF SkillInv, Promise
    <3>7. Promise'
      BY <3>1, <3>2, <3>6 DEF Promise, Overridden, IsActive
    <3> QED BY <3>4, <3>7 DEF SkillInv
  <2> QED BY <2>3, <2>4
<1> QED BY <1>1, <1>2, <1>3

\* A call that writes the canonical list of its scope, and one that is killed.
LEMMA ListSkill ==
  ASSUME TypeOK, CallShape, SkillInv
  PROVE  /\ Sync => SkillInv'
         /\ Syncing => SkillInv'
         /\ Kill => SkillInv'
<1>0. call.scope \in Scopes /\ (call.at # "idle" => call.mode \in Modes)
  BY DEF TypeOK, Calls, CallShape
<1>1. ASSUME Sync PROVE SkillInv'
  <2>0. /\ call.at = "sync"
        /\ call'.at = "syncing" /\ call'.left = call.left /\ call'.mode = call.mode
        /\ call'.now = call.now /\ call'.scope = call.scope /\ call'.copy = call.copy
        /\ call'.on = call.on
        /\ call'.list = Entries(skill[call.scope], Subject, call.on)
        /\ skill' = [skill EXCEPT ![call.scope] = Torn]
        /\ UNCHANGED <<file, apart>>
    BY <1>1 DEF Sync, TypeOK, Calls
  <2>1. Subject' = Subject
    BY <2>0 DEF Subject
  <2>2. Pending = {<<Subject, call.scope>>} /\ Pending' = Modes \X {call.scope}
    BY <2>0 DEF Pending
  <2>3. Subject \in Modes
    BY <1>0, <2>0 DEF Subject, CallShape, TypeOK, Calls
  <2>4. \A s \in Scopes : s # call.scope => skill'[s] = skill[s]
    BY <2>0 DEF TypeOK
  <2>5. Agreement'
    BY <2>0, <2>2, <2>3, <2>4, AgreementKept DEF SkillInv
  <2>6. ASSUME NEW m \in Modes, <<m, call.scope>> \notin apart \ {<<Subject, call.scope>>}
        PROVE  \/ Overridden /\ m = Subject
               \/ m \in call'.list <=> IsActive(file[m][call.scope])
    <3>1. CASE m = Subject /\ Overridden
      BY <3>1
    <3>3. CASE m = Subject /\ ~Overridden
      <4>1. call.on <=> IsActive(file[m][call.scope])
        BY <2>0, <3>3 DEF SkillInv, Promise
      <4> QED BY <2>0, <3>3, <4>1 DEF Entries
    <3>2. CASE m # Subject
      <4>1. AgreeAt(m, call.scope)
        BY <1>0, <2>2, <2>6, <3>2 DEF SkillInv, Agreement
      <4> QED BY <2>0, <3>2, <4>1 DEF Entries, AgreeAt
    <3> QED BY <3>1, <3>2, <3>3
  <2>7. Overridden' = Overridden
    BY <2>0 DEF Overridden, IsActive
  <2>8. Promise'
    BY <2>0, <2>1, <2>6, <2>7 DEF Promise, IsActive
  <2> QED BY <2>5, <2>8 DEF SkillInv
<1>2. ASSUME Syncing PROVE SkillInv'
  <2>0. /\ call.at = "syncing"
        /\ skill' = [skill EXCEPT ![call.scope] = [active |-> call.list]]
        /\ call' = IF call.left = {} THEN Idle
                   ELSE [call EXCEPT !.at = "next", !.left = @ \ {call.now}]
        /\ apart \ {<<Subject, call.scope>>} \subseteq apart'
        /\ Overridden => <<Subject, call.scope>> \in apart'
        /\ UNCHANGED file
    BY <1>2 DEF Syncing
  <2>1. call'.at \in {"idle", "next"}
    BY <2>0, IdleTyped DEF TypeOK, Calls
  <2>2. Pending' = {} /\ Pending = Modes \X {call.scope}
    BY <2>0, <2>1 DEF Pending
  <2>3. On([active |-> call.list]) = call.list
    <3>1. [active |-> call.list] \in Lists
      BY DEF Lists, TypeOK, Calls
    <3> QED BY <3>1, FilesAssumption DEF On
  <2>4. /\ skill'[call.scope] = [active |-> call.list]
        /\ \A s \in Scopes : s # call.scope => skill'[s] = skill[s]
    BY <1>0, <2>0 DEF TypeOK
  <2>5. ASSUME NEW m \in Modes, NEW s \in Scopes, <<m, s>> \notin apart'
        PROVE  m \in On(skill'[s]) <=> IsActive(file[m][s])
    <3>1. CASE s = call.scope
      <4>1. m \in call.list <=> IsActive(file[m][call.scope])
        BY <2>0, <2>5, <3>1 DEF SkillInv, Promise
      <4> QED BY <2>3, <2>4, <3>1, <4>1
    <3>2. CASE s # call.scope
      <4>1. <<m, s>> \notin apart \cup Pending
        BY <2>0, <2>2, <2>5, <3>2
      <4>2. AgreeAt(m, s)
        BY <4>1 DEF SkillInv, Agreement
      <4> QED BY <2>4, <3>2, <4>2 DEF AgreeAt
    <3> QED BY <3>1, <3>2
  <2>6. Agreement'
    BY <2>0, <2>2, <2>5 DEF Agreement, AgreeAt
  <2>7. Promise'
    BY <2>1 DEF Promise
  <2> QED BY <2>6, <2>7 DEF SkillInv
<1>3. ASSUME Kill PROVE SkillInv'
  <2>0. /\ call.at # "idle" /\ call'.at = "idle" /\ call'.left = {}
        /\ UNCHANGED <<file, skill>>
    BY <1>3, IdleTyped DEF Kill
  <2>1. Pending \subseteq apart' /\ apart \subseteq apart'
    <3>1. CASE call.at = "syncing"
      BY <1>3, <3>1 DEF Kill, Pending
    <3>2. CASE call.at = "next"
      BY <1>3, <3>2 DEF Kill, Pending
    <3>3. CASE call.at \notin {"next", "syncing"}
      BY <1>0, <1>3, <3>3 DEF Kill, Pending
    <3> QED BY <3>1, <3>2, <3>3
  <2>2. Pending' = {}
    BY <2>0 DEF Pending
  <2>3. Agreement'
    BY <2>0, <2>1, <2>2, AgreementKept DEF SkillInv
  <2>4. Promise'
    BY <2>0 DEF Promise
  <2> QED BY <2>3, <2>4 DEF SkillInv
<1> QED BY <1>1, <1>2, <1>3

LEMMA StepSkill == TypeOK /\ CallShape /\ SkillInv /\ [Next]_vars => SkillInv'
<1> SUFFICES ASSUME TypeOK, CallShape, SkillInv, [Next]_vars PROVE SkillInv'
  OBVIOUS
<1>1. CASE UNCHANGED vars
  BY <1>1 DEF vars, SkillInv, Agreement, AgreeAt, Promise, Pending, Overridden, Subject, On, IsActive
<1> QED
  BY <1>1, BeginSkill, SourceSkill, FileSkill, ListSkill DEF Next, Continue

\* Between calls a mode's file and its canonical entry agree, save where the code
\* lets them part (apart), the start whose initial_state ends its own run included:
\* sync_canonical_skill_state_for_mode at the end of a call repairs the entry of its
\* mode, or enters it as active whatever that start wrote, and spoils none other,
\* however many sources were completed and wherever calls were killed.
THEOREM SkillTheorem == Spec => []SkillFollowsMode
<1>1. Init => TypeOK /\ CallShape /\ SkillInv
  BY InitTyped, InitSkill
<1>2. TypeOK /\ CallShape /\ SkillInv /\ [Next]_vars => (TypeOK /\ CallShape /\ SkillInv)'
  BY TypedStep, StepSkill
<1>3. SkillInv => SkillFollowsMode
  BY DEF SkillInv, Agreement, AgreeAt, Pending, SkillFollowsMode
<1> QED
  BY <1>1, <1>2, <1>3, PTL DEF Spec

-----------------------------------------------------------------------------
(***************************************************************************)
(* Autoresearch.  The invariant has a part for each run: Grounded holds of *)
(* every run, Settled of those that were not finalized or resumed beside a *)
(* live supervisor of their own.  A call is described by its plan, so the  *)
(* first lemmas say which plans the code makes.                            *)
(***************************************************************************)
Steps == {"found", "mode", "start", "activate", "bind", "baseline", "manifest", "note",
          "open", "fill", "clear", "release", "read", "evaluate", "ledger"}

Facing(j, step) == j.plan # <<>> /\ Head(j.plan) = step

Has(plan, steps) == \E k \in DOMAIN plan : plan[k] \in steps

\* a plan reads, founds, judges a candidate and enters it only at its beginning, and
\* writes the manifest at its beginning or after an entry
Linked(plan) ==
  \A k \in DOMAIN plan :
    k > 1 => /\ plan[k] \notin {"found", "read", "evaluate", "ledger"}
             /\ plan[k] = "manifest" => plan[k - 1] \in {"baseline", "ledger"}

Jobs == [run : Runs \cup {Nobody}, live : BOOLEAN, plan : Seq(Steps),
         m : Manifests \cup {Missing}, copy : Locks \cup {Missing}]

\* a supervisor is its run's own; the operator's plan with a manifest is for a run
Owning ==
  /\ \A a \in Actors : Linked(job[a].plan)
  /\ \A r \in Runs :
       job[r] # Off => job[r].live /\ job[r].run = r /\ job[r].m \in Manifests
  /\ job[Operator].run = Nobody => ~Has(job[Operator].plan, {"manifest"})
  /\ job[Operator].run # Nobody => job[Operator].m \in Manifests

\* For one run: j is its supervisor's call, o the operator's, d its manifest, l its
\* ledger, h its worktree's HEAD, n its newest commit, p what was passed last.
Begun(j) == j.live /\ ~Facing(j, "found")

\* until its manifest is written, what a call holds of it
Entering == {"baseline", "evaluate", "ledger", "manifest"}

\* a run under way has its manifest, which no plan takes back
Grounded(r, j, o, d, l, h, n) ==
  /\ Facing(j, "found") => d = Missing /\ j.m = FreshRun
  /\ Begun(j) => d \in Manifests
  /\ d = Missing => l = Missing /\ o.run # r
  /\ h <= n
  /\ d \in Manifests => d.kept <= n
  /\ j.live => j.m.kept <= n
  /\ o.run = r => o.m.kept <= n /\ (d \in Manifests => o.m.iteration <= d.iteration)
  /\ Facing(j, "read") => d.iteration < MaxIterations
  /\ Begun(j) /\ Has(j.plan, Entering) => d.iteration <= j.m.iteration

Explains(l, m) ==
  l \in LedgerEntries => /\ l.iteration <= m.iteration + 1
                         /\ l.iteration = m.iteration => l.kept = m.kept

\* the evaluator has passed what will be kept instead of what is
Earned(m, d, p) ==
  m.kept # d.kept =>
    /\ p # <<>> /\ m.kept = p[1]
    /\ Policy = "score_improvement" => p[2] > d.score /\ m.score = p[2]

\* a run that was not finalized or resumed beside a live supervisor of its own
Settled(r, j, o, d, l, p) ==
  /\ o.run = r => /\ ~j.live /\ d \in Manifests /\ d.status # "failed"
                  /\ o.m.kept = d.kept /\ o.m.iteration = d.iteration
                  /\ o.m.status # "failed"
  /\ d \in Manifests /\ d.status # "failed" => Explains(l, d)
  /\ Begun(j) /\ Has(j.plan, Entering) =>
       /\ \/ j.m.iteration = d.iteration + 1
          \/ j.m.iteration = d.iteration /\ j.m.kept = d.kept
       /\ Earned(j.m, d, p)
       /\ Has(j.plan, {"baseline", "evaluate"}) => j.m.kept = d.kept
       /\ Facing(j, "evaluate") => j.m.iteration = d.iteration + 1 /\ j.m.score = d.score
       /\ Facing(j, "manifest") => j.m.status = "failed" \/ Explains(l, j.m)

ResearchTyped ==
  /\ lock \in Locks \cup UnreadableManifest
  /\ manifest \in [Runs -> Manifests \cup UnreadableManifest]
  /\ ledger \in [Runs -> LedgerEntries \cup UnreadableManifest]
  /\ head \in [Runs -> Commits] /\ made \in [Runs -> Commits]
  /\ job \in [Actors -> Jobs]
  /\ passed \in [Runs -> (Commits \X Scores) \cup {<<>>}]
  /\ stops \in 0 .. MaxStops /\ orders \in 0 .. MaxOrders
  /\ crossed \subseteq Runs

GroundedAt(r) == Grounded(r, job[r], job[Operator], manifest[r], ledger[r], head[r], made[r])
SettledAt(r)  == Settled(r, job[r], job[Operator], manifest[r], ledger[r], passed[r])

ResearchInv ==
  /\ ResearchTyped
  /\ Owning
  /\ \A r \in Runs : GroundedAt(r)
  /\ \A r \in Runs \ crossed : SettledAt(r)

-----------------------------------------------------------------------------
(* Plans *)

LEMMA TailPlan ==
  ASSUME NEW s \in Seq(Steps), s # <<>>, Linked(s)
  PROVE  /\ Tail(s) \in Seq(Steps) /\ Linked(Tail(s))
         /\ \A S : Has(Tail(s), S) => Has(s, S)
         /\ \A S : Head(s) \in S => Has(s, S)
         /\ Tail(s) # <<>> =>
              /\ Head(Tail(s)) \notin {"found", "read", "evaluate", "ledger"}
              /\ Head(Tail(s)) = "manifest" => Head(s) \in {"baseline", "ledger"}
<1>1. /\ Tail(s) \in Seq(Steps) /\ Len(s) \in Nat /\ Len(s) > 0 /\ DOMAIN s = 1 .. Len(s)
      /\ Len(Tail(s)) = Len(s) - 1 /\ DOMAIN Tail(s) = 1 .. Len(s) - 1
      /\ Head(s) = s[1]
  OBVIOUS
<1>2. \A k \in DOMAIN Tail(s) : k + 1 \in DOMAIN s /\ k + 1 > 1 /\ Tail(s)[k] = s[k + 1]
  BY <1>1
<1>3. Linked(Tail(s))
  <2> SUFFICES ASSUME NEW k \in DOMAIN Tail(s), k > 1
               PROVE  /\ Tail(s)[k] \notin {"found", "read", "evaluate", "ledger"}
                      /\ Tail(s)[k] = "manifest" => Tail(s)[k - 1] \in {"baseline", "ledger"}
    BY DEF Linked
  <2>1. k - 1 \in DOMAIN Tail(s) /\ (k - 1) + 1 = k /\ (k + 1) - 1 = k
    BY <1>1
  <2>2. Tail(s)[k] = s[k + 1] /\ Tail(s)[k - 1] = s[k]
    BY <1>2, <2>1
  <2>3. /\ s[k + 1] \notin {"found", "read", "evaluate", "ledger"}
        /\ s[k + 1] = "manifest" => s[(k + 1) - 1] \in {"baseline", "ledger"}
    BY <1>2 DEF Linked
  <2> QED BY <2>1, <2>2, <2>3
<1>4. \A S : Has(Tail(s), S) => Has(s, S)
  BY <1>2 DEF Has
<1>5. \A S : Head(s) \in S => Has(s, S)
  BY <1>1 DEF Has
<1>6. ASSUME Tail(s) # <<>>
      PROVE  /\ Head(Tail(s)) \notin {"found", "read", "evaluate", "ledger"}
             /\ Head(Tail(s)) = "manifest" => Head(s) \in {"baseline", "ledger"}
  <2>1. Len(Tail(s)) > 0
    BY <1>1, <1>6
  <2>2. 2 \in DOMAIN s /\ Head(Tail(s)) = s[2]
    BY <1>1, <1>2, <2>1
  <2>3. /\ s[2] \notin {"found", "read", "evaluate", "ledger"}
        /\ s[2] = "manifest" => s[2 - 1] \in {"baseline", "ledger"}
    <3>1. 2 > 1 /\ 2 \in DOMAIN s
      BY <2>2
    <3>2. Linked(s)
      OBVIOUS
    <3> QED BY <3>1, <3>2, Zenon DEF Linked
  <2>4. 2 - 1 = 1
    OBVIOUS
  <2> QED BY <1>1, <2>2, <2>3, <2>4
<1> QED BY <1>1, <1>3, <1>4, <1>5, <1>6
LEMMA JoinedPlan ==
  ASSUME NEW s \in Seq(Steps), NEW t \in Seq(Steps), s # <<>>, t # <<>>, Linked(s), Linked(t),
         Head(t) \notin {"found", "read", "evaluate", "ledger"},
         Head(t) = "manifest" => s[Len(s)] \in {"baseline", "ledger"}
  PROVE  /\ s \o t \in Seq(Steps) /\ s \o t # <<>> /\ Linked(s \o t)
         /\ Head(s \o t) = Head(s)
         /\ \A S : Has(s \o t, S) => Has(s, S) \/ Has(t, S)
<1>1. /\ s \o t \in Seq(Steps) /\ Len(s \o t) = Len(s) + Len(t)
      /\ Len(s) \in Nat /\ Len(t) \in Nat /\ Len(s) > 0 /\ Len(t) > 0
      /\ DOMAIN s = 1 .. Len(s) /\ DOMAIN t = 1 .. Len(t)
      /\ DOMAIN (s \o t) = 1 .. Len(s) + Len(t)
      /\ Head(s) = s[1] /\ Head(t) = t[1]
  OBVIOUS
<1>2. /\ \A k \in 1 .. Len(s) : (s \o t)[k] = s[k]
      /\ \A k \in Len(s) + 1 .. Len(s) + Len(t) : (s \o t)[k] = t[k - Len(s)]
  BY <1>1
<1>3. s \o t # <<>> /\ Head(s \o t) = Head(s)
  <2>1. Len(s \o t) > 0 /\ (s \o t)[1] = s[1]
    BY <1>1, <1>2
  <2> HIDE DEF Linked
  <2> QED BY <1>1, <2>1
<1>4. \A S : Has(s \o t, S) => Has(s, S) \/ Has(t, S)
  <2> SUFFICES ASSUME NEW S, NEW k \in 1 .. Len(s) + Len(t), (s \o t)[k] \in S
               PROVE  Has(s, S) \/ Has(t, S)
    BY <1>1 DEF Has
  <2>1. CASE k \in 1 .. Len(s)
    BY <1>1, <1>2, <2>1 DEF Has
  <2>2. CASE k \in Len(s) + 1 .. Len(s) + Len(t)
    <3>1. k - Len(s) \in DOMAIN t /\ t[k - Len(s)] \in S
      BY <1>1, <1>2, <2>2
    <3> QED BY <3>1 DEF Has
  <2> QED BY <1>1, <2>1, <2>2
<1>5. ASSUME NEW k \in 1 .. Len(s) + Len(t), k > 1
      PROVE  /\ (s \o t)[k] \notin {"found", "read", "evaluate", "ledger"}
             /\ (s \o t)[k] = "manifest" => (s \o t)[k - 1] \in {"baseline", "ledger"}
  <2>1. CASE k \in 1 .. Len(s)
    <3>1. k - 1 \in 1 .. Len(s)
      BY <1>1, <1>5, <2>1
    <3>2. (s \o t)[k] = s[k] /\ (s \o t)[k - 1] = s[k - 1]
      BY <1>2, <2>1, <3>1
    <3>3. /\ s[k] \notin {"found", "read", "evaluate", "ledger"}
          /\ s[k] = "manifest" => s[k - 1] \in {"baseline", "ledger"}
      BY <1>1, <1>5, <2>1 DEF Linked
    <3> QED BY <3>2, <3>3
  <2>2. CASE k = Len(s) + 1
    <3>1. (s \o t)[k] = t[1] /\ k - 1 = Len(s) /\ (s \o t)[k - 1] = s[Len(s)]
      BY <1>1, <1>2, <2>2
    <3> QED BY <1>1, <3>1
  <2>3. CASE k > Len(s) + 1
    <3> DEFINE j == k - Len(s)
    <3>1. j \in DOMAIN t /\ j > 1 /\ (k - 1) - Len(s) = j - 1
          /\ k \in Len(s) + 1 .. Len(s) + Len(t) /\ k - 1 \in Len(s) + 1 .. Len(s) + Len(t)
      BY <1>1, <2>3
    <3>2. (s \o t)[k] = t[j] /\ (s \o t)[k - 1] = t[j - 1]
      BY <1>2, <3>1
    <3> HIDE DEF j
    <3>3. /\ t[j] \notin {"found", "read", "evaluate", "ledger"}
          /\ t[j] = "manifest" => t[j - 1] \in {"baseline", "ledger"}
      BY <3>1 DEF Linked
    <3> QED BY <3>2, <3>3
  <2>4. k \in 1 .. Len(s) \/ k = Len(s) + 1 \/ k > Len(s) + 1
    <3>1. k \in Nat /\ k >= 1 /\ Len(s) \in Nat
      BY <1>1
    <3> QED BY <3>1
  <2> QED BY <2>1, <2>2, <2>3, <2>4, Zenon
<1>6. Linked(s \o t)
  BY <1>1, <1>5 DEF Linked
<1> QED BY <1>1, <1>3, <1>4, <1>6

\* _update_mode_state's read, and its write in two steps
LEMMA RewriteIs ==
  ASSUME NEW step \in {"bind", "clear", "note", "release"}
  PROVE  /\ Rewrite(step) \in Seq(Steps) /\ Rewrite(step) # <<>> /\ Linked(Rewrite(step))
         /\ Head(Rewrite(step)) = step /\ Rewrite(step)[Len(Rewrite(step))] = "fill"
         /\ ~Has(Rewrite(step), Entering)
<1>1. Rewrite(step) = <<step, "open", "fill">>
  BY DEF Rewrite
<1>2. /\ Len(<<step, "open", "fill">>) = 3 /\ DOMAIN <<step, "open", "fill">> = 1 .. 3
      /\ <<step, "open", "fill">> \in Seq(Steps)
      /\ <<step, "open", "fill">>[1] = step /\ <<step, "open", "fill">>[2] = "open"
      /\ <<step, "open", "fill">>[3] = "fill"
  BY DEF Steps
<1>3. Linked(Rewrite(step)) /\ ~Has(Rewrite(step), Entering)
  BY <1>1, <1>2 DEF Linked, Has, Entering
<1> QED BY <1>1, <1>2, <1>3

LEMMA ShortPlans ==
  /\ \A x \in Steps : <<x>> \in Seq(Steps) /\ <<x>> # <<>> /\ Linked(<<x>>) /\ Head(<<x>>) = x
  /\ \A x \in Steps, y \in Steps \ {"found", "read", "evaluate", "ledger"} :
       (y = "manifest" => x \in {"baseline", "ledger"}) =>
         /\ <<x, y>> \in Seq(Steps) /\ <<x, y>> # <<>> /\ Linked(<<x, y>>) /\ Head(<<x, y>>) = x
         /\ \A S : Has(<<x, y>>, S) => x \in S \/ y \in S
<1>1. ASSUME NEW x \in Steps
      PROVE  <<x>> \in Seq(Steps) /\ <<x>> # <<>> /\ Linked(<<x>>) /\ Head(<<x>>) = x
  <2>1. Len(<<x>>) = 1 /\ DOMAIN <<x>> = 1 .. 1
    OBVIOUS
  <2> QED BY <2>1 DEF Linked
<1>2. ASSUME NEW x \in Steps, NEW y \in Steps \ {"found", "read", "evaluate", "ledger"},
             y = "manifest" => x \in {"baseline", "ledger"}
      PROVE  /\ <<x, y>> \in Seq(Steps) /\ <<x, y>> # <<>> /\ Linked(<<x, y>>)
             /\ Head(<<x, y>>) = x
             /\ \A S : Has(<<x, y>>, S) => x \in S \/ y \in S
  <2>1. Len(<<x, y>>) = 2 /\ DOMAIN <<x, y>> = {1, 2} /\ <<x, y>>[1] = x /\ <<x, y>>[2] = y
        /\ <<x, y>> \in Seq(Steps) /\ <<x, y>> # <<>> /\ Head(<<x, y>>) = x
    OBVIOUS
  <2>2. Linked(<<x, y>>)
    BY <1>2, <2>1 DEF Linked
  <2>3. \A S : Has(<<x, y>>, S) => x \in S \/ y \in S
    BY <2>1 DEF Has
  <2> QED BY <2>1, <2>2, <2>3
<1> QED BY <1>1, <1>2

LEMMA StepsAre ==
  /\ "read" \in Steps /\ "evaluate" \in Steps /\ "ledger" \in Steps /\ "manifest" \in Steps
  /\ "open" \in Steps /\ "fill" \in Steps /\ "baseline" \in Steps
BY DEF Steps

LEMMA FinalizeIs ==
  /\ Finalize \in Seq(Steps) /\ Finalize # <<>> /\ Linked(Finalize) /\ Head(Finalize) = "manifest"
<1> DEFINE a == <<"manifest">>
           b == Rewrite("clear")
           c == Rewrite("release")
           ab == a \o b
<1>1. a \in Seq(Steps) /\ a # <<>> /\ Linked(a) /\ Head(a) = "manifest"
  BY ShortPlans, StepsAre
<1>2. /\ b \in Seq(Steps) /\ b # <<>> /\ Linked(b) /\ Head(b) = "clear"
      /\ c \in Seq(Steps) /\ c # <<>> /\ Linked(c) /\ Head(c) = "release"
  BY RewriteIs
<1>3. Finalize = ab \o c
  BY Zenon DEF Finalize
<1> HIDE DEF a, b, c
<1>4. ab \in Seq(Steps) /\ ab # <<>> /\ Linked(ab) /\ Head(ab) = "manifest"
  BY <1>1, <1>2, JoinedPlan
<1> HIDE DEF ab
<1>5. ab \o c \in Seq(Steps) /\ ab \o c # <<>> /\ Linked(ab \o c) /\ Head(ab \o c) = "manifest"
  BY <1>2, <1>4, JoinedPlan
<1> QED BY <1>3, <1>5

LEMMA EnteringIs ==
  LET plan == <<"ledger">> \o Finalize
  IN  plan \in Seq(Steps) /\ plan # <<>> /\ Linked(plan) /\ Head(plan) = "ledger"
<1> DEFINE a == <<"ledger">>
           b == Finalize
<1>1. /\ a \in Seq(Steps) /\ a # <<>> /\ Linked(a) /\ Head(a) = "ledger" /\ a[Len(a)] = "ledger"
      /\ b \in Seq(Steps) /\ b # <<>> /\ Linked(b) /\ Head(b) = "manifest"
  BY ShortPlans, StepsAre, FinalizeIs
<1> HIDE DEF a, b
<1>2. a \o b \in Seq(Steps) /\ a \o b # <<>> /\ Linked(a \o b) /\ Head(a \o b) = "ledger"
  BY <1>1, JoinedPlan
<1> QED BY <1>2 DEF a, b

LEMMA DecidedIs ==
  LET plan == <<"ledger", "manifest">> \o Rewrite("note")
  IN  /\ plan \in Seq(Steps) /\ plan # <<>> /\ Linked(plan) /\ Head(plan) = "ledger"
      /\ ~Has(plan, {"baseline", "evaluate"})
<1> DEFINE a == <<"ledger", "manifest">>
           b == Rewrite("note")
<1>1. /\ a \in Seq(Steps) /\ a # <<>> /\ Linked(a) /\ Head(a) = "ledger"
      /\ ~Has(a, {"baseline", "evaluate"})
      /\ b \in Seq(Steps) /\ b # <<>> /\ Linked(b) /\ Head(b) = "note"
      /\ ~Has(b, {"baseline", "evaluate"})
  <2>1. "ledger" \in Steps /\ "manifest" \in Steps \ {"found", "read", "evaluate", "ledger"}
    BY DEF Steps
  <2>2. /\ a \in Seq(Steps) /\ a # <<>> /\ Linked(a) /\ Head(a) = "ledger"
        /\ \A S : Has(a, S) => "ledger" \in S \/ "manifest" \in S
    BY <2>1, ShortPlans
  <2>3. ~Has(a, {"baseline", "evaluate"})
    BY <2>2
  <2>4. \A S : S \subseteq Entering /\ Has(b, S) => Has(b, Entering)
    BY DEF Has
  <2>5. {"baseline", "evaluate"} \subseteq Entering
    BY DEF Entering
  <2> HIDE DEF a
  <2> QED BY <2>2, <2>3, <2>4, <2>5, RewriteIs
<1> HIDE DEF a, b
<1>2. /\ a \o b \in Seq(Steps) /\ a \o b # <<>> /\ Linked(a \o b) /\ Head(a \o b) = "ledger"
      /\ ~Has(a \o b, {"baseline", "evaluate"})
  BY <1>1, JoinedPlan
<1> QED BY <1>2 DEF a, b

LEMMA ResumptionIs ==
  LET plan == <<"start", "fill", "activate", "fill">> \o Rewrite("bind")
  IN  /\ plan \in Seq(Steps) /\ plan # <<>> /\ Linked(plan) /\ Head(plan) = "start"
      /\ ~Has(plan, Entering)
<1> DEFINE a == <<"start", "fill", "activate", "fill">>
           b == Rewrite("bind")
<1>1. a \in Seq(Steps) /\ a # <<>> /\ Linked(a) /\ Head(a) = "start" /\ ~Has(a, Entering)
  <2>1. /\ a \in Seq(Steps) /\ Len(a) = 4 /\ DOMAIN a = {1, 2, 3, 4} /\ Head(a) = "start"
        /\ a[1] = "start" /\ a[2] = "fill" /\ a[3] = "activate" /\ a[4] = "fill"
    BY DEF Steps
  <2> HIDE DEF a
  <2>2. Linked(a)
    BY <2>1 DEF Linked
  <2>3. ~Has(a, Entering)
    BY <2>1 DEF Has, Entering
  <2> QED BY <2>1, <2>2, <2>3
<1>2. b \in Seq(Steps) /\ b # <<>> /\ Linked(b) /\ Head(b) = "bind" /\ ~Has(b, Entering)
  BY RewriteIs
<1> HIDE DEF a, b
<1>3. /\ a \o b \in Seq(Steps) /\ a \o b # <<>> /\ Linked(a \o b) /\ Head(a \o b) = "start"
      /\ ~Has(a \o b, Entering)
  BY <1>1, <1>2, JoinedPlan
<1> QED BY <1>3 DEF a, b

LEMMA PreparationIs ==
  Preparation \in Seq(Steps) /\ Preparation # <<>> /\ Linked(Preparation)
  /\ Head(Preparation) = "found"
<1> DEFINE a == <<"found", "mode", "start", "fill", "activate", "fill">>
           b == Rewrite("bind")
           c == <<"baseline", "manifest">>
           d == Rewrite("note")
<1>1. a \in Seq(Steps) /\ a # <<>> /\ Linked(a) /\ Head(a) = "found"
  <2>1. /\ a \in Seq(Steps) /\ Len(a) = 6 /\ DOMAIN a = {1, 2, 3, 4, 5, 6} /\ Head(a) = "found"
        /\ a[1] = "found" /\ a[2] = "mode" /\ a[3] = "start" /\ a[4] = "fill"
        /\ a[5] = "activate" /\ a[6] = "fill"
    BY DEF Steps
  <2> HIDE DEF a
  <2> QED BY <2>1 DEF Linked
<1>2. b \in Seq(Steps) /\ b # <<>> /\ Linked(b) /\ Head(b) = "bind"
  BY RewriteIs
<1>3. c \in Seq(Steps) /\ c # <<>> /\ Linked(c) /\ Head(c) = "baseline"
  <2>1. "baseline" \in Steps /\ "manifest" \in Steps \ {"found", "read", "evaluate", "ledger"}
    BY DEF Steps
  <2> QED BY <2>1, ShortPlans
<1>4. d \in Seq(Steps) /\ d # <<>> /\ Linked(d) /\ Head(d) = "note"
  BY RewriteIs
<1>5. Preparation = ((a \o b) \o c) \o d
  BY Zenon DEF Preparation
<1> HIDE DEF a, b, c, d
<1>6. a \o b \in Seq(Steps) /\ a \o b # <<>> /\ Linked(a \o b) /\ Head(a \o b) = "found"
  BY <1>1, <1>2, JoinedPlan
<1>7. /\ (a \o b) \o c \in Seq(Steps) /\ (a \o b) \o c # <<>> /\ Linked((a \o b) \o c)
      /\ Head((a \o b) \o c) = "found"
  <2> DEFINE ab == a \o b
  <2> HIDE DEF ab
  <2>1. ab \in Seq(Steps) /\ ab # <<>> /\ Linked(ab) /\ Head(ab) = "found"
    BY <1>6 DEF ab
  <2>2. ab \o c \in Seq(Steps) /\ ab \o c # <<>> /\ Linked(ab \o c) /\ Head(ab \o c) = "found"
    BY <1>3, <2>1, JoinedPlan
  <2> QED BY <2>2 DEF ab
<1>8. /\ ((a \o b) \o c) \o d \in Seq(Steps) /\ ((a \o b) \o c) \o d # <<>>
      /\ Linked(((a \o b) \o c) \o d) /\ Head(((a \o b) \o c) \o d) = "found"
  <2> DEFINE abc == (a \o b) \o c
  <2> HIDE DEF abc
  <2>1. abc \in Seq(Steps) /\ abc # <<>> /\ Linked(abc) /\ Head(abc) = "found"
    BY <1>7 DEF abc
  <2>2. abc \o d \in Seq(Steps) /\ abc \o d # <<>> /\ Linked(abc \o d) /\ Head(abc \o d) = "found"
    BY <1>4, <2>1, JoinedPlan
  <2> QED BY <2>2 DEF abc
<1> QED BY <1>5, <1>8

-----------------------------------------------------------------------------
(* One run's part of the invariant *)

LEMMA SpecialValues ==
  ASSUME ResearchParameters
  PROVE  /\ Nobody \notin Runs /\ Operator \notin Runs
         /\ \A d \in Manifests : d \notin UnreadableManifest /\ d # Missing
         /\ \A l \in LedgerEntries : l \notin UnreadableManifest
         /\ \A l \in Locks : l \notin UnreadableManifest
         /\ Missing # Unparsed /\ Unparsed \notin Manifests /\ Unparsed \notin LedgerEntries
         /\ Missing \notin Manifests /\ Missing \notin LedgerEntries
         /\ MaxIterations \in Nat /\ MaxCommits \in Nat /\ MaxStops \in Nat /\ MaxOrders \in Nat
BY DEF ResearchParameters, UnreadableManifest

LEMMA OffIs ==
  /\ Off \in Jobs /\ Off.run = Nobody /\ ~Off.live /\ Off.plan = <<>> /\ Linked(Off.plan)
  /\ \A step : ~Facing(Off, step)
  /\ ~Begun(Off)
  /\ \A S : ~Has(Off.plan, S)
<1>1. Off.run = Nobody /\ Off.live = FALSE /\ Off.plan = <<>> /\ Off.m = Missing /\ Off.copy = Missing
  BY DEF Off
<1>2. Off \in Jobs
  BY DEF Off, Jobs
<1> QED BY <1>1, <1>2 DEF Linked, Facing, Begun, Has

LEMMA ManifestIs ==
  ASSUME ResearchParameters
  PROVE  /\ \A d \in Manifests : /\ d.iteration \in 0 .. MaxIterations /\ d.kept \in Commits
                                 /\ d.iteration \in Nat /\ d.kept \in Nat /\ d.score \in Nat
                                 /\ d.score \in Scores
         /\ \A l \in LedgerEntries : l.iteration \in Nat /\ l.kept \in Nat
         /\ FreshRun \in Manifests /\ FreshRun.kept = 0 /\ FreshRun.iteration = 0
         /\ FreshRun.status = "running" /\ FreshRun.score = 0
<1>1. \A d \in Manifests : /\ d.iteration \in 0 .. MaxIterations /\ d.kept \in Commits
                           /\ d.score \in Scores
  BY DEF Manifests
<1>2. \A l \in LedgerEntries : l.iteration \in 0 .. MaxIterations /\ l.kept \in Commits
  BY DEF LedgerEntries
<1>3. \A x : /\ x \in 0 .. MaxIterations => x \in Nat
             /\ x \in Commits => x \in Nat
             /\ x \in Scores => x \in Nat
  BY SpecialValues DEF Commits, Scores
<1>4. /\ FreshRun \in Manifests /\ FreshRun.kept = 0 /\ FreshRun.iteration = 0
      /\ FreshRun.status = "running" /\ FreshRun.score = 0
  BY SpecialValues DEF FreshRun, Manifests, Commits, Scores
<1> QED BY <1>1, <1>2, <1>3, <1>4

\* a step of a call that writes no file of the run
LEMMA OnwardKeeps ==
  ASSUME NEW j \in Jobs, j.live, j.plan # <<>>, Linked(j.plan),
         NEW k \in Jobs, k.live, k.plan = Tail(j.plan), k.m = j.m,
         Head(j.plan) \notin {"found", "baseline", "ledger", "manifest", "read", "evaluate"},
         NEW r, NEW o, NEW d, NEW l, NEW h, NEW n, NEW p,
         Grounded(r, j, o, d, l, h, n)
  PROVE  /\ Grounded(r, k, o, d, l, h, n)
         /\ Settled(r, j, o, d, l, p) => Settled(r, k, o, d, l, p)
<1>1. j.plan \in Seq(Steps)
  BY DEF Jobs
<1>2. /\ \A S : Has(k.plan, S) => Has(j.plan, S)
      /\ ~Facing(k, "found") /\ ~Facing(k, "read") /\ ~Facing(k, "evaluate")
      /\ ~Facing(k, "manifest")
  BY <1>1, TailPlan DEF Facing
<1>3. Begun(j) /\ Begun(k)
  BY <1>2 DEF Begun, Facing
<1>4. Grounded(r, k, o, d, l, h, n)
  BY <1>2, <1>3 DEF Grounded
<1>5. ASSUME Settled(r, j, o, d, l, p) PROVE Settled(r, k, o, d, l, p)
  BY <1>2, <1>3, <1>5 DEF Settled
<1> QED BY <1>4, <1>5

\* what a call leaves that raises, or is killed while it writes a file
LEMMA DropKeeps ==
  ASSUME ResearchParameters, NEW r, NEW j, NEW o, NEW d, NEW l, NEW h, NEW n, NEW p,
         Grounded(r, j, o, d, l, h, n), NEW e \in {d, Unparsed}, NEW f \in {l, Unparsed},
         f # l => d # Missing, o.run = r => ~j.live, e # d \/ f # l => j.live
  PROVE  Settled(r, j, o, d, l, p) => Settled(r, Off, o, e, f, p)
<1> SUFFICES ASSUME Settled(r, j, o, d, l, p) PROVE Settled(r, Off, o, e, f, p)
  OBVIOUS
<1>1. e \in Manifests => e = d
  BY SpecialValues
<1>2. f \in LedgerEntries => f = l
  BY SpecialValues
<1>3. \A m : Explains(l, m) => Explains(f, m)
  BY <1>2 DEF Explains
<1> QED BY <1>1, <1>2, <1>3, OffIs DEF Settled

LEMMA DropGrounds ==
  ASSUME ResearchParameters, NEW r, NEW j, NEW o, NEW d, NEW l, NEW h, NEW n,
         Grounded(r, j, o, d, l, h, n), NEW e \in {d, Unparsed}, NEW f \in {l, Unparsed},
         f # l => d # Missing
  PROVE  Grounded(r, Off, o, e, f, h, n)
<1>1. e \in Manifests => e = d
  BY SpecialValues
<1>2. e = Missing => d = Missing /\ f = l
  BY SpecialValues
<1> QED BY <1>1, <1>2, OffIs DEF Grounded

\* the operator's call goes on about the same run
LEMMA OperatorOn ==
  ASSUME NEW r, NEW j, NEW o, NEW u, NEW d, NEW l, NEW h, NEW n, NEW p,
         u.run = o.run, u.m = o.m
  PROVE  /\ Grounded(r, j, o, d, l, h, n) => Grounded(r, j, u, d, l, h, n)
         /\ Settled(r, j, o, d, l, p) => Settled(r, j, u, d, l, p)
BY DEF Grounded, Settled

\* the operator has nothing to do with the run
LEMMA OperatorOff ==
  ASSUME NEW r, NEW j, NEW o, NEW u, NEW d, NEW l, NEW h, NEW n, NEW p, u.run # r
  PROVE  /\ Grounded(r, j, o, d, l, h, n) => Grounded(r, j, u, d, l, h, n)
         /\ Settled(r, j, o, d, l, p) => Settled(r, j, u, d, l, p)
BY DEF Grounded, Settled

-----------------------------------------------------------------------------
(* Steps *)

LEMMA Elsewhere ==
  ASSUME NEW r \in Runs, job'[r] = job[r], job'[Operator] = job[Operator],
         manifest'[r] = manifest[r], ledger'[r] = ledger[r], head'[r] = head[r],
         made'[r] = made[r], passed'[r] = passed[r]
  PROVE  (GroundedAt(r) => GroundedAt(r)') /\ (SettledAt(r) => SettledAt(r)')
BY DEF GroundedAt, SettledAt

\* a step of a supervisor
LEMMA SupervisorStep ==
  ASSUME ResearchParameters, ResearchInv, NEW r \in Runs, NEW j \in Jobs,
         job' = [job EXCEPT ![r] = j],
         Linked(j.plan), j # Off => j.live /\ j.run = r /\ j.m \in Manifests,
         lock' \in Locks \cup UnreadableManifest,
         manifest' \in [Runs -> Manifests \cup UnreadableManifest],
         ledger' \in [Runs -> LedgerEntries \cup UnreadableManifest],
         head' \in [Runs -> Commits], made' \in [Runs -> Commits],
         passed' \in [Runs -> (Commits \X Scores) \cup {<<>>}],
         stops' \in 0 .. MaxStops, orders' \in 0 .. MaxOrders,
         crossed \subseteq crossed', crossed' \subseteq Runs,
         \A q \in Runs : q # r =>
           /\ manifest'[q] = manifest[q] /\ ledger'[q] = ledger[q] /\ head'[q] = head[q]
           /\ made'[q] = made[q] /\ passed'[q] = passed[q],
         Grounded(r, j, job[Operator], manifest'[r], ledger'[r], head'[r], made'[r]),
         r \notin crossed' => Settled(r, j, job[Operator], manifest'[r], ledger'[r], passed'[r])
  PROVE  ResearchInv'
<1>1. /\ job' \in [Actors -> Jobs] /\ job'[r] = j /\ Operator \in Actors /\ Operator # r
      /\ \A a \in Actors : a # r => job'[a] = job[a]
      /\ \A q \in Runs : q \in Actors
  BY SpecialValues DEF ResearchInv, ResearchTyped, Actors
<1>2. ResearchTyped'
  BY <1>1 DEF ResearchTyped
<1>3. Owning'
  <2>1. job'[Operator] = job[Operator]
    BY <1>1
  <2>2. \A a \in Actors : Linked(job'[a].plan)
    BY <1>1 DEF ResearchInv, Owning
  <2>3. \A q \in Runs :
          job'[q] # Off => job'[q].live /\ job'[q].run = q /\ job'[q].m \in Manifests
    BY <1>1 DEF ResearchInv, Owning
  <2> QED BY <2>1, <2>2, <2>3 DEF ResearchInv, Owning
<1>4. ASSUME NEW q \in Runs PROVE GroundedAt(q)'
  <2>1. CASE q = r
    BY <1>1, <2>1 DEF GroundedAt
  <2>2. CASE q # r
    <3>1. GroundedAt(q)
      BY DEF ResearchInv
    <3> QED BY <1>1, <2>2, <3>1, Elsewhere
  <2> QED BY <2>1, <2>2
<1>5. ASSUME NEW q \in Runs \ crossed' PROVE SettledAt(q)'
  <2>1. CASE q = r
    BY <1>1, <1>5, <2>1 DEF SettledAt
  <2>2. CASE q # r
    <3>1. SettledAt(q)
      BY <1>5 DEF ResearchInv
    <3> QED BY <1>1, <1>5, <2>2, <3>1, Elsewhere
  <2> QED BY <2>1, <2>2
<1> QED BY <1>2, <1>3, <1>4, <1>5 DEF ResearchInv

\* a step of the operator
LEMMA OperatorStep ==
  ASSUME ResearchParameters, ResearchInv, NEW o \in Jobs,
         job' = [job EXCEPT ![Operator] = o],
         Linked(o.plan), o.run = Nobody => ~Has(o.plan, {"manifest"}),
         o.run # Nobody => o.m \in Manifests,
         lock' \in Locks \cup UnreadableManifest,
         manifest' \in [Runs -> Manifests \cup UnreadableManifest],
         UNCHANGED <<ledger, head, made, passed>>,
         stops' \in 0 .. MaxStops, orders' \in 0 .. MaxOrders,
         crossed \subseteq crossed', crossed' \subseteq Runs,
         \A r \in Runs : Grounded(r, job[r], o, manifest'[r], ledger[r], head[r], made[r]),
         \A r \in Runs \ crossed' :
           Settled(r, job[r], o, manifest'[r], ledger[r], passed[r])
  PROVE  ResearchInv'
<1>1. /\ job' \in [Actors -> Jobs] /\ job'[Operator] = o
      /\ \A r \in Runs : job'[r] = job[r]
      /\ \A a \in Actors : a = Operator \/ (a \in Runs /\ job'[a] = job[a])
  BY SpecialValues DEF ResearchInv, ResearchTyped, Actors
<1>2. ResearchTyped'
  BY <1>1 DEF ResearchInv, ResearchTyped
<1>3. Owning'
  BY <1>1 DEF ResearchInv, Owning
<1>4. \A r \in Runs : GroundedAt(r)'
  BY <1>1 DEF GroundedAt
<1>5. \A r \in Runs \ crossed' : SettledAt(r)'
  BY <1>1 DEF SettledAt
<1> QED BY <1>2, <1>3, <1>4, <1>5 DEF ResearchInv

\* what the invariant says of one supervisor
LEMMA AtRun ==
  ASSUME ResearchParameters, ResearchInv, NEW r \in Runs
  PROVE  /\ r \in Actors /\ r # Operator /\ Operator \in Actors
         /\ job \in [Actors -> Jobs] /\ job[r] \in Jobs /\ job[Operator] \in Jobs
         /\ job[r].plan \in Seq(Steps) /\ Linked(job[r].plan)
         /\ (job[r].live \/ job[r].plan # <<>>) =>
              /\ job[r] # Off /\ job[r].live /\ job[r].run = r /\ job[r].m \in Manifests
         /\ ResearchTyped
         /\ GroundedAt(r)
         /\ r \notin crossed => SettledAt(r)
<1>1. r \in Actors /\ r # Operator /\ Operator \in Actors
  BY SpecialValues DEF Actors
<1>2. job \in [Actors -> Jobs] /\ job[r] \in Jobs /\ job[Operator] \in Jobs
  BY <1>1 DEF ResearchInv, ResearchTyped
<1>3. job[r].plan \in Seq(Steps)
  BY <1>2 DEF Jobs
<1>4. Linked(job[r].plan)
  BY <1>1 DEF ResearchInv, Owning
<1>5. job[r].live \/ job[r].plan # <<>> => job[r] # Off
  BY OffIs
<1>6. job[r] # Off => job[r].live /\ job[r].run = r /\ job[r].m \in Manifests
  BY DEF ResearchInv, Owning
<1>7. ResearchTyped /\ GroundedAt(r) /\ (r \notin crossed => SettledAt(r))
  BY DEF ResearchInv
<1> QED BY <1>1, <1>2, <1>3, <1>4, <1>5, <1>6, <1>7

\* the call goes on and writes no file of its run
LEMMA OnwardRun ==
  ASSUME ResearchParameters, ResearchInv, NEW r \in Runs, NEW step,
         At(r, step), step \notin {"found", "baseline", "ledger", "manifest", "read", "evaluate"},
         NEW c \in Locks \cup {Missing},
         job' = [job EXCEPT ![r] = [job[r] EXCEPT !.plan = Tail(job[r].plan), !.copy = c]],
         lock' \in Locks \cup UnreadableManifest,
         UNCHANGED <<files, passed, bookkeeping, crossed>>
  PROVE  ResearchInv'
<1> DEFINE k == [job[r] EXCEPT !.plan = Tail(job[r].plan), !.copy = c]
<1>1. job[r].plan # <<>> /\ Head(job[r].plan) = step
  BY DEF At
<1>2. /\ job[r] \in Jobs /\ job[r].plan \in Seq(Steps) /\ Linked(job[r].plan)
      /\ job[r].live /\ job[r].run = r /\ job[r].m \in Manifests
      /\ ResearchTyped /\ GroundedAt(r) /\ (r \notin crossed => SettledAt(r))
  BY <1>1, AtRun
<1>3. Tail(job[r].plan) \in Seq(Steps) /\ Linked(Tail(job[r].plan))
  BY <1>1, <1>2, TailPlan
<1>4. /\ k \in Jobs /\ k.live = job[r].live /\ k.run = job[r].run
      /\ k.plan = Tail(job[r].plan) /\ k.m = job[r].m
  BY <1>2, <1>3 DEF Jobs
<1> HIDE DEF k
<1>5. /\ Grounded(r, k, job[Operator], manifest[r], ledger[r], head[r], made[r])
      /\ Settled(r, job[r], job[Operator], manifest[r], ledger[r], passed[r]) =>
           Settled(r, k, job[Operator], manifest[r], ledger[r], passed[r])
  <2> DEFINE was == job[r]
  <2>1. /\ was \in Jobs /\ was.live /\ was.plan # <<>> /\ Linked(was.plan)
        /\ k.plan = Tail(was.plan) /\ k.m = was.m /\ k.live
        /\ Head(was.plan) \notin {"found", "baseline", "ledger", "manifest", "read", "evaluate"}
        /\ Grounded(r, was, job[Operator], manifest[r], ledger[r], head[r], made[r])
    BY <1>1, <1>2, <1>4 DEF GroundedAt
  <2> HIDE DEF was
  <2>2. /\ Grounded(r, k, job[Operator], manifest[r], ledger[r], head[r], made[r])
        /\ Settled(r, was, job[Operator], manifest[r], ledger[r], passed[r]) =>
             Settled(r, k, job[Operator], manifest[r], ledger[r], passed[r])
    BY <1>4, <2>1, OnwardKeeps
  <2> QED BY <2>2 DEF was
<1>6. /\ manifest' = manifest /\ ledger' = ledger /\ head' = head /\ made' = made
      /\ passed' = passed /\ stops' = stops /\ orders' = orders /\ crossed' = crossed
  BY DEF files, bookkeeping
<1>7. job' = [job EXCEPT ![r] = k]
  BY DEF k
<1>8. r \notin crossed => Settled(r, k, job[Operator], manifest[r], ledger[r], passed[r])
  BY <1>2, <1>5 DEF SettledAt
<1>9. /\ manifest' \in [Runs -> Manifests \cup UnreadableManifest]
      /\ ledger' \in [Runs -> LedgerEntries \cup UnreadableManifest]
      /\ head' \in [Runs -> Commits] /\ made' \in [Runs -> Commits]
      /\ passed' \in [Runs -> (Commits \X Scores) \cup {<<>>}]
      /\ stops' \in 0 .. MaxStops /\ orders' \in 0 .. MaxOrders
      /\ crossed \subseteq crossed' /\ crossed' \subseteq Runs
  BY <1>2, <1>6 DEF ResearchTyped
<1>10. /\ Linked(k.plan) /\ (k # Off => k.live /\ k.run = r /\ k.m \in Manifests)
       /\ Grounded(r, k, job[Operator], manifest'[r], ledger'[r], head'[r], made'[r])
       /\ r \notin crossed' =>
             Settled(r, k, job[Operator], manifest'[r], ledger'[r], passed'[r])
       /\ \A q \in Runs : q # r =>
            /\ manifest'[q] = manifest[q] /\ ledger'[q] = ledger[q] /\ head'[q] = head[q]
            /\ made'[q] = made[q] /\ passed'[q] = passed[q]
  BY <1>2, <1>3, <1>4, <1>5, <1>6, <1>8
<1> QED BY <1>4, <1>7, <1>9, <1>10, SupervisorStep

\* the call is over, a file that it was writing may be torn
LEMMA DropRun ==
  ASSUME ResearchParameters, ResearchInv, NEW r \in Runs, job[r].live, Drop(r),
         NEW e \in {manifest[r], Unparsed}, NEW f \in {ledger[r], Unparsed},
         f # ledger[r] => manifest[r] # Missing,
         manifest' = [manifest EXCEPT ![r] = e], ledger' = [ledger EXCEPT ![r] = f],
         passed' \in [Runs -> (Commits \X Scores) \cup {<<>>}],
         \A q \in Runs : q # r => passed'[q] = passed[q],
         stops' \in 0 .. MaxStops,
         UNCHANGED <<lock, head, made, orders, crossed>>
  PROVE  ResearchInv'
<1>1. /\ job[r].live /\ ResearchTyped /\ GroundedAt(r) /\ (r \notin crossed => SettledAt(r))
  BY AtRun
<1>2. Grounded(r, Off, job[Operator], e, f, head[r], made[r])
  BY <1>1, DropGrounds DEF GroundedAt
<1>3. r \notin crossed => job[Operator].run # r
  BY <1>1 DEF SettledAt, Settled
<1>4. r \notin crossed => Settled(r, Off, job[Operator], e, f, passed[r])
  BY <1>1, <1>3, DropKeeps DEF GroundedAt, SettledAt
<1>5. Settled(r, Off, job[Operator], e, f, passed[r]) =>
        Settled(r, Off, job[Operator], e, f, passed'[r])
  BY OffIs DEF Settled
<1>6. /\ manifest' \in [Runs -> Manifests \cup UnreadableManifest] /\ manifest'[r] = e
      /\ ledger' \in [Runs -> LedgerEntries \cup UnreadableManifest] /\ ledger'[r] = f
      /\ \A q \in Runs : q # r => manifest'[q] = manifest[q] /\ ledger'[q] = ledger[q]
  BY <1>1 DEF ResearchTyped, UnreadableManifest
<1>7. job' = [job EXCEPT ![r] = Off] /\ Off \in Jobs /\ Linked(Off.plan)
  BY OffIs DEF Drop
<1>8. /\ lock' \in Locks \cup UnreadableManifest
      /\ head' \in [Runs -> Commits] /\ made' \in [Runs -> Commits]
      /\ stops' \in 0 .. MaxStops /\ orders' \in 0 .. MaxOrders
      /\ crossed \subseteq crossed' /\ crossed' \subseteq Runs
      /\ head' = head /\ made' = made
  BY <1>1 DEF ResearchTyped
<1>9. /\ Grounded(r, Off, job[Operator], manifest'[r], ledger'[r], head'[r], made'[r])
      /\ r \notin crossed' =>
            Settled(r, Off, job[Operator], manifest'[r], ledger'[r], passed'[r])
      /\ \A q \in Runs : q # r =>
           /\ manifest'[q] = manifest[q] /\ ledger'[q] = ledger[q] /\ head'[q] = head[q]
           /\ made'[q] = made[q] /\ passed'[q] = passed[q]
  BY <1>2, <1>4, <1>5, <1>6, <1>8
<1> QED BY <1>6, <1>7, <1>8, <1>9, SupervisorStep

\* a step that changes one field of a call, or its plan and another
LEMMA RecordIs ==
  ASSUME ResearchParameters, ResearchInv, NEW a \in Actors, job[a].plan # <<>>
  PROVE  /\ \E c \in Locks \cup {Missing} : c = job[a].copy
         /\ Onward(a) =>
              job' = [job EXCEPT ![a] = [job[a] EXCEPT !.plan = Tail(job[a].plan),
                                                        !.copy = job[a].copy]]
         /\ \A c : job' = [job EXCEPT ![a].plan = Tail(@), ![a].copy = c] =>
              job' = [job EXCEPT ![a] = [job[a] EXCEPT !.plan = Tail(job[a].plan), !.copy = c]]
<1>1. job \in [Actors -> Jobs] /\ job[a] \in Jobs /\ job[a].copy \in Locks \cup {Missing}
  BY DEF ResearchInv, ResearchTyped, Jobs
<1>2. ASSUME Onward(a)
      PROVE  job' = [job EXCEPT ![a] = [job[a] EXCEPT !.plan = Tail(job[a].plan),
                                                       !.copy = job[a].copy]]
  <2>1. [job[a] EXCEPT !.plan = Tail(job[a].plan)] =
          [job[a] EXCEPT !.plan = Tail(job[a].plan), !.copy = job[a].copy]
    BY <1>1 DEF Jobs
  <2>2. job' = [job EXCEPT ![a] = [job[a] EXCEPT !.plan = Tail(job[a].plan)]]
    BY <1>1, <1>2 DEF Onward
  <2> QED BY <2>1, <2>2
<1>3. ASSUME NEW c, job' = [job EXCEPT ![a].plan = Tail(@), ![a].copy = c]
      PROVE  job' = [job EXCEPT ![a] = [job[a] EXCEPT !.plan = Tail(job[a].plan), !.copy = c]]
  BY <1>1, <1>3
<1> QED BY <1>1, <1>2, <1>3

\* the state that an update writes is one that was read
LEMMA MergedIs ==
  ASSUME ResearchParameters, ResearchInv, NEW a \in Actors, NEW step \in {"bind", "clear", "note"},
         lock \notin UnreadableManifest
  PROVE  Merged(a, step) \in Locks
<1>1. lock \in Locks /\ job[a].run \in Runs \cup {Nobody}
  BY DEF ResearchInv, ResearchTyped, Jobs
<1>2. [lock EXCEPT !.run = job[a].run] \in Locks /\ [lock EXCEPT !.active = FALSE] \in Locks
  BY <1>1 DEF Locks
<1>3. \/ step = "bind" /\ Merged(a, step) = [lock EXCEPT !.run = job[a].run]
      \/ step = "clear" /\ Merged(a, step) = [lock EXCEPT !.active = FALSE]
      \/ step = "note" /\ Merged(a, step) = lock
  BY DEF Merged
<1> QED BY <1>1, <1>2, <1>3

\* what is written of the state
LEMMA LocksAre ==
  ASSUME ResearchParameters, ResearchInv
  PROVE  /\ lock \in Locks \cup UnreadableManifest
         /\ Unparsed \in UnreadableManifest /\ Missing \in UnreadableManifest
         /\ \A c \in Locks \cup {Missing} : c \in Locks \cup UnreadableManifest
         /\ \A b \in BOOLEAN, q \in Runs \cup {Nobody} : [active |-> b, run |-> q] \in Locks
BY DEF ResearchInv, ResearchTyped, UnreadableManifest, Locks

\* a call is dropped and no file of its run changes
LEMMA RaisedRun ==
  ASSUME ResearchParameters, ResearchInv, NEW r \in Runs, job[r].live, Drop(r),
         UNCHANGED <<lock, files, passed, bookkeeping, crossed>>
  PROVE  ResearchInv'
<1>1. ResearchTyped
  BY DEF ResearchInv
<1>2. /\ manifest' = [manifest EXCEPT ![r] = manifest[r]]
      /\ ledger' = [ledger EXCEPT ![r] = ledger[r]]
  BY <1>1 DEF ResearchTyped, files
<1>3. /\ passed' \in [Runs -> (Commits \X Scores) \cup {<<>>}] /\ passed' = passed
      /\ stops' \in 0 .. MaxStops /\ lock' = lock /\ head' = head /\ made' = made
      /\ orders' = orders /\ crossed' = crossed
  BY <1>1 DEF ResearchTyped, files, bookkeeping
<1> QED BY <1>2, <1>3, DropRun

LEMMA CheckModeKeeps ==
  ASSUME ResearchParameters, ResearchInv, NEW r \in Runs, CheckMode(r)
  PROVE  ResearchInv'
<1>1. /\ At(r, "mode") /\ (Drop(r) \/ Onward(r))
      /\ UNCHANGED <<lock, files, passed, bookkeeping, crossed>> /\ lock' = lock
  BY DEF CheckMode
<1>2. job[r].plan # <<>> /\ job[r].live /\ r \in Actors
  BY <1>1, AtRun DEF At
<1>3. CASE Drop(r)
  BY <1>1, <1>2, <1>3, RaisedRun
<1>4. CASE Onward(r)
  <2>1. /\ job[r].copy \in Locks \cup {Missing}
        /\ job' = [job EXCEPT ![r] = [job[r] EXCEPT !.plan = Tail(job[r].plan),
                                                     !.copy = job[r].copy]]
    BY <1>2, <1>4, RecordIs
  <2>2. lock' \in Locks \cup UnreadableManifest /\ UNCHANGED <<files, passed, bookkeeping, crossed>>
    BY <1>1, LocksAre
  <2> QED BY <1>1, <2>1, <2>2, OnwardRun
<1> QED BY <1>1, <1>3, <1>4

LEMMA TakeKeeps ==
  ASSUME ResearchParameters, ResearchInv, NEW r \in Runs, Take(r)
  PROVE  ResearchInv'
<1>1. PICK step \in {"start", "activate"} :
        /\ At(r, step)
        /\ job' = [job EXCEPT ![r].plan = Tail(@), ![r].copy =
                     [active |-> TRUE, run |-> IF step = "start" THEN Nobody ELSE r]]
  BY DEF Take
<1>2. lock' = Unparsed /\ UNCHANGED <<files, passed, bookkeeping, crossed>>
  BY DEF Take
<1> DEFINE c == [active |-> TRUE, run |-> IF step = "start" THEN Nobody ELSE r]
<1>3. job[r].plan # <<>> /\ r \in Actors
  BY <1>1, AtRun DEF At
<1>4. c \in Locks
  BY DEF Locks
<1>5. job' = [job EXCEPT ![r].plan = Tail(@), ![r].copy = c]
  BY <1>1
<1> HIDE DEF c
<1> QED BY <1>1, <1>2, <1>3, <1>4, <1>5, RecordIs, LocksAre, OnwardRun

LEMMA SupervisorReads ==
  ASSUME ResearchParameters, ResearchInv, NEW r \in Runs, Read(r)
  PROVE  ResearchInv'
<1>1. PICK step \in {"bind", "clear", "note"} :
        /\ At(r, step)
        /\ IF lock \in UnreadableManifest
             THEN Drop(r)
             ELSE job' = [job EXCEPT ![r].plan = Tail(@), ![r].copy = Merged(r, step)]
  BY DEF Read
<1>2. UNCHANGED <<lock, files, passed, bookkeeping, crossed>> /\ lock' = lock
  BY DEF Read
<1>3. job[r].plan # <<>> /\ job[r].live /\ r \in Actors
  BY <1>1, AtRun DEF At
<1>4. CASE lock \in UnreadableManifest
  BY <1>1, <1>2, <1>3, <1>4, RaisedRun
<1>5. CASE lock \notin UnreadableManifest
  <2> DEFINE c == Merged(r, step)
  <2>1. c \in Locks
    BY <1>3, <1>5, MergedIs
  <2>2. job' = [job EXCEPT ![r].plan = Tail(@), ![r].copy = c]
    BY <1>1, <1>5
  <2> HIDE DEF c
  <2>3. job' = [job EXCEPT ![r] = [job[r] EXCEPT !.plan = Tail(job[r].plan), !.copy = c]]
    BY <1>3, <2>2, RecordIs
  <2>4. lock' \in Locks \cup UnreadableManifest /\ UNCHANGED <<files, passed, bookkeeping, crossed>>
    BY <1>2, LocksAre
  <2>5. step \notin {"found", "baseline", "ledger", "manifest", "read", "evaluate"}
    OBVIOUS
  <2> QED BY <1>1, <2>1, <2>3, <2>4, <2>5, OnwardRun
<1> QED BY <1>4, <1>5

LEMMA SupervisorReleases ==
  ASSUME ResearchParameters, ResearchInv, NEW r \in Runs, Release(r)
  PROVE  ResearchInv'
<1> DEFINE owner == IF lock \in UnreadableManifest THEN job[r].run ELSE lock.run
           c == [active |-> FALSE, run |-> owner]
<1>1. /\ At(r, "release") /\ job' = [job EXCEPT ![r].plan = Tail(@), ![r].copy = c]
      /\ UNCHANGED <<lock, files, passed, bookkeeping, crossed>> /\ lock' = lock
  BY DEF Release
<1>2. job[r].plan # <<>> /\ r \in Actors /\ job[r].run = r
  BY <1>1, AtRun DEF At
<1>3. c \in Locks
  <2>1. owner \in Runs \cup {Nobody}
    BY <1>2, LocksAre DEF Locks
  <2> QED BY <2>1 DEF Locks
<1> HIDE DEF c
<1>4. job' = [job EXCEPT ![r] = [job[r] EXCEPT !.plan = Tail(job[r].plan), !.copy = c]]
  BY <1>1, <1>2, RecordIs
<1>5. lock' \in Locks \cup UnreadableManifest /\ UNCHANGED <<files, passed, bookkeeping, crossed>>
  BY <1>1, LocksAre
<1> QED BY <1>1, <1>3, <1>4, <1>5, OnwardRun

LEMMA SupervisorOpens ==
  ASSUME ResearchParameters, ResearchInv, NEW r \in Runs, Open(r)
  PROVE  ResearchInv'
<1>1. /\ At(r, "open") /\ lock' = Unparsed /\ Onward(r)
      /\ UNCHANGED <<files, passed, bookkeeping, crossed>>
  BY DEF Open
<1>2. job[r].plan # <<>> /\ r \in Actors
  BY <1>1, AtRun DEF At
<1>3. /\ job[r].copy \in Locks \cup {Missing}
      /\ job' = [job EXCEPT ![r] = [job[r] EXCEPT !.plan = Tail(job[r].plan),
                                                   !.copy = job[r].copy]]
  BY <1>1, <1>2, RecordIs
<1>4. lock' \in Locks \cup UnreadableManifest
  BY <1>1, <1>3, LocksAre
<1> QED BY <1>1, <1>3, <1>4, OnwardRun

LEMMA SupervisorFills ==
  ASSUME ResearchParameters, ResearchInv, NEW r \in Runs, Fill(r)
  PROVE  ResearchInv'
<1>1. /\ At(r, "fill") /\ lock' = job[r].copy /\ Onward(r)
      /\ UNCHANGED <<files, passed, bookkeeping, crossed>>
  BY DEF Fill
<1>2. job[r].plan # <<>> /\ r \in Actors
  BY <1>1, AtRun DEF At
<1>3. /\ job[r].copy \in Locks \cup {Missing}
      /\ job' = [job EXCEPT ![r] = [job[r] EXCEPT !.plan = Tail(job[r].plan),
                                                   !.copy = job[r].copy]]
  BY <1>1, <1>2, RecordIs
<1>4. lock' \in Locks \cup UnreadableManifest
  BY <1>1, <1>3, LocksAre
<1> QED BY <1>1, <1>3, <1>4, OnwardRun

LEMMA LeaveKeeps ==
  ASSUME ResearchParameters, ResearchInv, NEW r \in Runs, Leave(r)
  PROVE  ResearchInv'
<1>1. job[r].live /\ Drop(r) /\ UNCHANGED <<lock, files, passed, bookkeeping, crossed>>
  BY DEF Leave
<1> QED BY <1>1, RaisedRun

LEMMA KillKeeps ==
  ASSUME ResearchParameters, ResearchInv, NEW r \in Runs, KillRun(r)
  PROVE  ResearchInv'
<1>1. /\ job[r].live /\ Drop(r) /\ stops < MaxStops /\ stops' = stops + 1
      /\ UNCHANGED <<lock, head, made, passed, orders, crossed>>
  BY DEF KillRun
<1>2. ResearchTyped /\ GroundedAt(r)
  BY DEF ResearchInv
<1>3. /\ stops' \in 0 .. MaxStops /\ passed' \in [Runs -> (Commits \X Scores) \cup {<<>>}]
      /\ \A q \in Runs : passed'[q] = passed[q]
  <2>1. stops \in Nat /\ MaxStops \in Nat
    BY <1>2, SpecialValues DEF ResearchTyped
  <2> QED BY <1>1, <1>2, <2>1 DEF ResearchTyped
<1>4. /\ manifest = [manifest EXCEPT ![r] = manifest[r]]
      /\ ledger = [ledger EXCEPT ![r] = ledger[r]]
  BY <1>2 DEF ResearchTyped
<1>5. CASE UNCHANGED <<manifest, ledger>>
  BY <1>1, <1>3, <1>4, <1>5, DropRun
<1>6. CASE manifest' = [manifest EXCEPT ![r] = Unparsed] /\ UNCHANGED ledger
  BY <1>1, <1>3, <1>4, <1>6, DropRun
<1>7. CASE /\ At(r, "ledger") \/ At(r, "baseline")
           /\ ledger' = [ledger EXCEPT ![r] = Unparsed] /\ UNCHANGED manifest
  <2>1. Begun(job[r])
    BY <1>1, <1>7 DEF At, Begun, Facing
  <2>2. manifest[r] # Missing
    BY <1>2, <2>1, SpecialValues DEF GroundedAt, Grounded
  <2> QED BY <1>1, <1>3, <1>4, <1>7, <2>2, DropRun
<1> QED BY <1>5, <1>6, <1>7 DEF KillRun

\* what a run has, and what a step leaves alone
LEMMA FilesAre ==
  ASSUME ResearchParameters, ResearchInv
  PROVE  /\ \A r \in Runs :
              /\ manifest[r] \in Manifests \cup UnreadableManifest
              /\ ledger[r] \in LedgerEntries \cup UnreadableManifest
              /\ head[r] \in Commits /\ made[r] \in Commits
              /\ passed[r] \in (Commits \X Scores) \cup {<<>>}
         /\ lock' = lock => lock' \in Locks \cup UnreadableManifest
         /\ manifest' = manifest => manifest' \in [Runs -> Manifests \cup UnreadableManifest]
         /\ ledger' = ledger => ledger' \in [Runs -> LedgerEntries \cup UnreadableManifest]
         /\ head' = head => head' \in [Runs -> Commits]
         /\ made' = made => made' \in [Runs -> Commits]
         /\ passed' = passed => passed' \in [Runs -> (Commits \X Scores) \cup {<<>>}]
         /\ UNCHANGED bookkeeping => stops' \in 0 .. MaxStops /\ orders' \in 0 .. MaxOrders
         /\ crossed \subseteq Runs
         /\ crossed' = crossed => crossed \subseteq crossed' /\ crossed' \subseteq Runs
BY DEF ResearchInv, ResearchTyped, bookkeeping

\* a file of the run that is written
LEMMA WrittenAre ==
  ASSUME ResearchParameters, ResearchInv, NEW r \in Runs
  PROVE  /\ \A d \in Manifests \cup UnreadableManifest :
              manifest' = [manifest EXCEPT ![r] = d] =>
                /\ manifest' \in [Runs -> Manifests \cup UnreadableManifest] /\ manifest'[r] = d
                /\ \A q \in Runs : q # r => manifest'[q] = manifest[q]
         /\ \A l \in LedgerEntries \cup UnreadableManifest :
              ledger' = [ledger EXCEPT ![r] = l] =>
                /\ ledger' \in [Runs -> LedgerEntries \cup UnreadableManifest] /\ ledger'[r] = l
                /\ \A q \in Runs : q # r => ledger'[q] = ledger[q]
         /\ \A h \in Commits :
              head' = [head EXCEPT ![r] = h] =>
                /\ head' \in [Runs -> Commits] /\ head'[r] = h
                /\ \A q \in Runs : q # r => head'[q] = head[q]
         /\ \A n \in Commits :
              made' = [made EXCEPT ![r] = n] =>
                /\ made' \in [Runs -> Commits] /\ made'[r] = n
                /\ \A q \in Runs : q # r => made'[q] = made[q]
         /\ \A p \in (Commits \X Scores) \cup {<<>>} :
              passed' = [passed EXCEPT ![r] = p] =>
                /\ passed' \in [Runs -> (Commits \X Scores) \cup {<<>>}] /\ passed'[r] = p
                /\ \A q \in Runs : q # r => passed'[q] = passed[q]
BY DEF ResearchInv, ResearchTyped

LEMMA ManifestPut ==
  ASSUME ResearchParameters, ResearchInv, NEW r \in Runs, NEW d \in Manifests,
         manifest' = [manifest EXCEPT ![r] = d]
  PROVE  /\ manifest' \in [Runs -> Manifests \cup UnreadableManifest] /\ manifest'[r] = d
         /\ \A q \in Runs : q # r => manifest'[q] = manifest[q]
BY DEF ResearchInv, ResearchTyped

LEMMA PrepareKeeps ==
  ASSUME ResearchParameters, ResearchInv, NEW r \in Runs, Prepare(r)
  PROVE  ResearchInv'
<1> DEFINE j == [Off EXCEPT !.run = r, !.live = TRUE, !.plan = Preparation, !.m = FreshRun]
<1>1. /\ manifest[r] = Missing /\ ~job[r].live /\ job' = [job EXCEPT ![r] = j]
      /\ UNCHANGED <<lock, files, passed, bookkeeping, crossed>>
  BY DEF Prepare
<1>2. /\ ResearchTyped /\ GroundedAt(r) /\ (r \notin crossed => SettledAt(r))
  BY AtRun
<1>3. /\ j \in Jobs /\ j.live /\ j.run = r /\ j.plan = Preparation /\ j.m = FreshRun
  BY PreparationIs, ManifestIs DEF Off, Jobs
<1> HIDE DEF j
<1>4. /\ Linked(j.plan) /\ j.m \in Manifests /\ Facing(j, "found") /\ ~Begun(j)
      /\ ~Facing(j, "read") /\ ~Facing(j, "evaluate") /\ ~Facing(j, "manifest")
  BY <1>3, PreparationIs, ManifestIs DEF Facing, Begun
<1>5. /\ made[r] \in Nat /\ manifest[r] \notin Manifests /\ job[Operator].run # r
      /\ ledger[r] = Missing /\ head[r] <= made[r] /\ Missing \notin LedgerEntries
  BY <1>1, <1>2, SpecialValues DEF GroundedAt, Grounded, ResearchTyped, Commits
<1>6. Grounded(r, j, job[Operator], manifest[r], ledger[r], head[r], made[r])
  BY <1>1, <1>3, <1>4, <1>5, ManifestIs DEF Grounded
<1>7. Settled(r, j, job[Operator], manifest[r], ledger[r], passed[r])
  BY <1>1, <1>4, <1>5 DEF Settled
<1>8. /\ manifest' = manifest /\ ledger' = ledger /\ head' = head /\ made' = made
      /\ passed' = passed /\ crossed' = crossed /\ lock' = lock /\ UNCHANGED bookkeeping
  BY <1>1 DEF files
<1>9. /\ lock' \in Locks \cup UnreadableManifest
      /\ manifest' \in [Runs -> Manifests \cup UnreadableManifest]
      /\ ledger' \in [Runs -> LedgerEntries \cup UnreadableManifest]
      /\ head' \in [Runs -> Commits] /\ made' \in [Runs -> Commits]
      /\ passed' \in [Runs -> (Commits \X Scores) \cup {<<>>}]
      /\ stops' \in 0 .. MaxStops /\ orders' \in 0 .. MaxOrders
      /\ crossed \subseteq crossed' /\ crossed' \subseteq Runs
  BY <1>8, FilesAre
<1>10. /\ Grounded(r, j, job[Operator], manifest'[r], ledger'[r], head'[r], made'[r])
       /\ r \notin crossed' =>
            Settled(r, j, job[Operator], manifest'[r], ledger'[r], passed'[r])
       /\ \A q \in Runs : q # r =>
            /\ manifest'[q] = manifest[q] /\ ledger'[q] = ledger[q] /\ head'[q] = head[q]
            /\ made'[q] = made[q] /\ passed'[q] = passed[q]
  BY <1>6, <1>7, <1>8
<1>11. /\ Linked(j.plan) /\ (j # Off => j.live /\ j.run = r /\ j.m \in Manifests)
       /\ j \in Jobs /\ job' = [job EXCEPT ![r] = j]
  BY <1>1, <1>3, <1>4
<1> QED BY <1>9, <1>10, <1>11, SupervisorStep

LEMMA FoundKeeps ==
  ASSUME ResearchParameters, ResearchInv, NEW r \in Runs, Found(r)
  PROVE  ResearchInv'
<1> DEFINE j == [job[r] EXCEPT !.plan = Tail(job[r].plan)]
<1>1. /\ At(r, "found") /\ manifest' = [manifest EXCEPT ![r] = job[r].m] /\ Onward(r)
      /\ UNCHANGED <<lock, ledger, head, made, passed, bookkeeping, crossed>>
  BY DEF Found
<1>2. /\ job[r].plan # <<>> /\ Facing(job[r], "found") /\ Head(job[r].plan) = "found"
  BY <1>1 DEF At, Facing
<1>3. /\ job[r] \in Jobs /\ job[r].plan \in Seq(Steps) /\ Linked(job[r].plan)
      /\ job[r].live /\ job[r].run = r /\ job[r].m \in Manifests
      /\ ResearchTyped /\ GroundedAt(r) /\ (r \notin crossed => SettledAt(r))
      /\ job \in [Actors -> Jobs] /\ r \in Actors
  BY <1>2, AtRun
<1>4. Tail(job[r].plan) \in Seq(Steps) /\ Linked(Tail(job[r].plan))
  BY <1>2, <1>3, TailPlan
<1>5. /\ j \in Jobs /\ j.live /\ j.run = r /\ j.plan = Tail(job[r].plan) /\ j.m = job[r].m
  BY <1>3, <1>4 DEF Jobs
<1>6. job' = [job EXCEPT ![r] = j]
  BY <1>1, <1>3 DEF Onward
<1> HIDE DEF j
<1>7. ~Facing(j, "found") /\ ~Facing(j, "read") /\ ~Facing(j, "evaluate") /\ ~Facing(j, "manifest")
  BY <1>2, <1>3, <1>5, TailPlan DEF Facing
<1>8. /\ manifest[r] = Missing /\ job[r].m = FreshRun /\ ledger[r] = Missing
      /\ job[Operator].run # r /\ head[r] <= made[r] /\ job[r].m.kept <= made[r]
  BY <1>2, <1>3 DEF GroundedAt, Grounded
<1>9. Grounded(r, j, job[Operator], job[r].m, ledger[r], head[r], made[r])
  BY <1>3, <1>5, <1>7, <1>8, ManifestIs, SpecialValues DEF Grounded
<1>10. Settled(r, j, job[Operator], job[r].m, ledger[r], passed[r])
  BY <1>3, <1>5, <1>7, <1>8, ManifestIs, SpecialValues DEF Settled, Explains, Earned
<1>11. /\ manifest' \in [Runs -> Manifests \cup UnreadableManifest]
       /\ manifest'[r] = job[r].m /\ \A q \in Runs : q # r => manifest'[q] = manifest[q]
       /\ ledger' = ledger /\ head' = head /\ made' = made
       /\ passed' = passed /\ crossed' = crossed /\ lock' = lock /\ UNCHANGED bookkeeping
  <2>1. job[r].m \in Manifests /\ manifest' = [manifest EXCEPT ![r] = job[r].m]
    BY <1>1, <1>3
  <2>2. /\ manifest' \in [Runs -> Manifests \cup UnreadableManifest]
        /\ manifest'[r] = job[r].m /\ \A q \in Runs : q # r => manifest'[q] = manifest[q]
    BY <2>1, ManifestPut
  <2> QED BY <1>1, <2>2
<1>12. /\ lock' \in Locks \cup UnreadableManifest
       /\ manifest' \in [Runs -> Manifests \cup UnreadableManifest]
       /\ ledger' \in [Runs -> LedgerEntries \cup UnreadableManifest]
       /\ head' \in [Runs -> Commits] /\ made' \in [Runs -> Commits]
       /\ passed' \in [Runs -> (Commits \X Scores) \cup {<<>>}]
       /\ stops' \in 0 .. MaxStops /\ orders' \in 0 .. MaxOrders
       /\ crossed \subseteq crossed' /\ crossed' \subseteq Runs
  BY <1>11, FilesAre
<1>13. /\ Grounded(r, j, job[Operator], manifest'[r], ledger'[r], head'[r], made'[r])
       /\ r \notin crossed' =>
            Settled(r, j, job[Operator], manifest'[r], ledger'[r], passed'[r])
       /\ \A q \in Runs : q # r =>
            /\ manifest'[q] = manifest[q] /\ ledger'[q] = ledger[q] /\ head'[q] = head[q]
            /\ made'[q] = made[q] /\ passed'[q] = passed[q]
  BY <1>9, <1>10, <1>11
<1>14. /\ Linked(j.plan) /\ (j # Off => j.live /\ j.run = r /\ j.m \in Manifests)
       /\ j \in Jobs /\ job' = [job EXCEPT ![r] = j]
  BY <1>3, <1>4, <1>5, <1>6
<1> QED BY <1>12, <1>13, <1>14, SupervisorStep

LEMMA ResumeKeeps ==
  ASSUME ResearchParameters, ResearchInv, NEW r \in Runs, Resume(r)
  PROVE  ResearchInv'
<1> DEFINE plan == <<"start", "fill", "activate", "fill">> \o Rewrite("bind")
           j == [Off EXCEPT !.run = r, !.live = TRUE, !.m = manifest[r], !.plan = plan]
<1>1. /\ manifest[r] \notin UnreadableManifest /\ ~job[r].live /\ job' = [job EXCEPT ![r] = j]
      /\ manifest[r].status = "running"
      /\ crossed' = crossed \cup (IF job[Operator].run = r THEN {r} ELSE {})
      /\ UNCHANGED <<lock, files, passed, bookkeeping>>
  BY DEF Resume
<1>2. /\ ResearchTyped /\ GroundedAt(r) /\ (r \notin crossed => SettledAt(r))
      /\ manifest[r] \in Manifests
  BY <1>1, AtRun, FilesAre
<1>3. plan \in Seq(Steps) /\ plan # <<>> /\ Linked(plan) /\ Head(plan) = "start"
  BY ResumptionIs
<1>4. ~Has(plan, Entering)
  BY ResumptionIs
<1> HIDE DEF plan
<1>5. /\ j \in Jobs /\ j.live /\ j.run = r /\ j.plan = plan /\ j.m = manifest[r]
  BY <1>2, <1>3 DEF Off, Jobs
<1> HIDE DEF j
<1>6. /\ ~Facing(j, "found") /\ ~Facing(j, "read") /\ ~Facing(j, "evaluate")
      /\ ~Facing(j, "manifest") /\ ~Has(j.plan, Entering)
  BY <1>3, <1>4, <1>5 DEF Facing
<1>7. Grounded(r, j, job[Operator], manifest[r], ledger[r], head[r], made[r])
  BY <1>2, <1>5, <1>6, SpecialValues DEF GroundedAt, Grounded
<1>8. r \notin crossed' => Settled(r, j, job[Operator], manifest[r], ledger[r], passed[r])
  BY <1>1, <1>2, <1>5, <1>6 DEF SettledAt, Settled
<1>9. /\ manifest' = manifest /\ ledger' = ledger /\ head' = head /\ made' = made
      /\ passed' = passed /\ lock' = lock /\ UNCHANGED bookkeeping
      /\ crossed \subseteq crossed' /\ crossed' \subseteq Runs
      /\ Linked(j.plan) /\ j.m \in Manifests
  BY <1>1, <1>2, <1>3, <1>5 DEF files, ResearchTyped
<1>10. /\ lock' \in Locks \cup UnreadableManifest
       /\ manifest' \in [Runs -> Manifests \cup UnreadableManifest]
       /\ ledger' \in [Runs -> LedgerEntries \cup UnreadableManifest]
       /\ head' \in [Runs -> Commits] /\ made' \in [Runs -> Commits]
       /\ passed' \in [Runs -> (Commits \X Scores) \cup {<<>>}]
       /\ stops' \in 0 .. MaxStops /\ orders' \in 0 .. MaxOrders
       /\ crossed \subseteq crossed' /\ crossed' \subseteq Runs
  BY <1>9, FilesAre
<1>11. /\ Grounded(r, j, job[Operator], manifest'[r], ledger'[r], head'[r], made'[r])
       /\ r \notin crossed' =>
            Settled(r, j, job[Operator], manifest'[r], ledger'[r], passed'[r])
       /\ \A q \in Runs : q # r =>
            /\ manifest'[q] = manifest[q] /\ ledger'[q] = ledger[q] /\ head'[q] = head[q]
            /\ made'[q] = made[q] /\ passed'[q] = passed[q]
  BY <1>7, <1>8, <1>9
<1>12. /\ Linked(j.plan) /\ (j # Off => j.live /\ j.run = r /\ j.m \in Manifests)
       /\ j \in Jobs /\ job' = [job EXCEPT ![r] = j]
  BY <1>1, <1>5, <1>9
<1> QED BY <1>10, <1>11, <1>12, SupervisorStep

\* an entry made from what the call holds explains both manifests
LEMMA EntryKeeps ==
  ASSUME ResearchParameters,
         NEW j \in Jobs, j.live, j.plan # <<>>, Linked(j.plan), Head(j.plan) \in {"baseline", "ledger"},
         NEW k \in Jobs, k.live, k.plan = Tail(j.plan), j.m \in Manifests, k.m \in Manifests,
         k.m.kept = j.m.kept, k.m.iteration = j.m.iteration,
         NEW r, NEW o, NEW d \in Manifests \cup UnreadableManifest, NEW l, NEW h, NEW n, NEW p,
         NEW e \in LedgerEntries, e.kept = j.m.kept, e.iteration = j.m.iteration, NEW q,
         Head(j.plan) = "baseline" \/ (k.m = j.m /\ q = p),
         Grounded(r, j, o, d, l, h, n)
  PROVE  /\ Grounded(r, k, o, d, e, h, n)
         /\ Settled(r, j, o, d, l, p) => Settled(r, k, o, d, e, q)
<1>1. j.plan \in Seq(Steps)
  BY DEF Jobs
<1>2. /\ \A S : Has(k.plan, S) => Has(j.plan, S)
      /\ ~Facing(k, "found") /\ ~Facing(k, "read") /\ ~Facing(k, "evaluate")
  BY <1>1, TailPlan DEF Facing
<1>3. /\ Has(j.plan, Entering)
      /\ Head(j.plan) = "baseline" => Has(j.plan, {"baseline", "evaluate"})
  BY <1>1, TailPlan DEF Entering
<1>4. Begun(j) /\ Begun(k)
  BY <1>2 DEF Begun, Facing
<1>5. d \in Manifests /\ d.iteration \in Nat /\ j.m.iteration \in Nat /\ d # Missing
  BY <1>4, ManifestIs, SpecialValues DEF Grounded
<1>6. Grounded(r, k, o, d, e, h, n)
  BY <1>2, <1>3, <1>4, <1>5 DEF Grounded
<1>7. ASSUME Settled(r, j, o, d, l, p) PROVE Settled(r, k, o, d, e, q)
  <2>1. /\ j.m.iteration = d.iteration + 1 \/ (j.m.iteration = d.iteration /\ j.m.kept = d.kept)
        /\ Earned(j.m, d, p) /\ (Has(j.plan, {"baseline", "evaluate"}) => j.m.kept = d.kept)
        /\ o.run # r
    BY <1>3, <1>4, <1>7 DEF Settled
  <2>2. Explains(e, d) /\ Explains(e, k.m)
    BY <1>5, <2>1 DEF Explains
  <2>3. Earned(k.m, d, q)
    BY <1>3, <2>1 DEF Earned
  <2> QED BY <1>2, <1>4, <2>1, <2>2, <2>3 DEF Settled
<1> QED BY <1>6, <1>7

LEMMA BaselineKeeps ==
  ASSUME ResearchParameters, ResearchInv, NEW r \in Runs, Baseline(r)
  PROVE  ResearchInv'
<1>1. /\ At(r, "baseline") /\ Enter(r, job[r].m)
      /\ UNCHANGED <<lock, manifest, head, made, bookkeeping, crossed>>
  BY DEF Baseline
<1>2. PICK result \in Results :
        /\ Judge(r, result)
        /\ job' = [job EXCEPT ![r].plan = Tail(@), ![r].m.score = result.score]
  BY DEF Baseline
<1> DEFINE j == [job[r] EXCEPT !.plan = Tail(job[r].plan), !.m.score = result.score]
           e == [iteration |-> job[r].m.iteration, kept |-> job[r].m.kept]
           p == IF result.status = "pass" THEN <<head[r], result.score>> ELSE <<>>
<1>3. job[r].plan # <<>> /\ Head(job[r].plan) = "baseline"
  BY <1>1 DEF At
<1>4. /\ job[r] \in Jobs /\ job[r].plan \in Seq(Steps) /\ Linked(job[r].plan)
      /\ job[r].live /\ job[r].run = r /\ job[r].m \in Manifests
      /\ ResearchTyped /\ GroundedAt(r) /\ (r \notin crossed => SettledAt(r))
      /\ job \in [Actors -> Jobs] /\ r \in Actors
  BY <1>3, AtRun
<1>5. Tail(job[r].plan) \in Seq(Steps) /\ Linked(Tail(job[r].plan))
  BY <1>3, <1>4, TailPlan
<1>6. result.score \in Scores
  BY DEF Results, Scores
<1>7. /\ j \in Jobs /\ j.live /\ j.run = r /\ j.plan = Tail(job[r].plan) /\ j.m \in Manifests
      /\ j.m.kept = job[r].m.kept /\ j.m.iteration = job[r].m.iteration
  BY <1>4, <1>5, <1>6 DEF Jobs, Manifests
<1>8. job' = [job EXCEPT ![r] = j]
  BY <1>2, <1>4
<1>9. /\ e \in LedgerEntries /\ e.kept = job[r].m.kept /\ e.iteration = job[r].m.iteration
      /\ p \in (Commits \X Scores) \cup {<<>>}
      /\ ledger' = [ledger EXCEPT ![r] = e] /\ passed' = [passed EXCEPT ![r] = p]
  BY <1>1, <1>2, <1>4, <1>6, FilesAre DEF LedgerEntries, Manifests, Enter, Judge
<1> HIDE DEF j, e, p
<1>10. /\ Grounded(r, j, job[Operator], manifest[r], e, head[r], made[r])
       /\ r \notin crossed => Settled(r, j, job[Operator], manifest[r], e, p)
  <2> DEFINE c == job[r]
  <2>1. /\ c \in Jobs /\ c.live /\ c.plan # <<>> /\ Linked(c.plan)
        /\ Head(c.plan) = "baseline" /\ j.plan = Tail(c.plan) /\ c.m \in Manifests
        /\ j.m.kept = c.m.kept /\ j.m.iteration = c.m.iteration
        /\ e.kept = c.m.kept /\ e.iteration = c.m.iteration
        /\ manifest[r] \in Manifests \cup UnreadableManifest
        /\ Grounded(r, c, job[Operator], manifest[r], ledger[r], head[r], made[r])
        /\ r \notin crossed => Settled(r, c, job[Operator], manifest[r], ledger[r], passed[r])
    BY <1>3, <1>4, <1>7, <1>9, FilesAre DEF GroundedAt, SettledAt
  <2> HIDE DEF c
  <2>2. /\ Grounded(r, j, job[Operator], manifest[r], e, head[r], made[r])
        /\ Settled(r, c, job[Operator], manifest[r], ledger[r], passed[r]) =>
             Settled(r, j, job[Operator], manifest[r], e, p)
    BY <1>7, <1>9, <2>1, EntryKeeps
  <2> QED BY <2>1, <2>2
<1>11. /\ ledger' \in [Runs -> LedgerEntries \cup UnreadableManifest]
       /\ ledger'[r] = e /\ \A q \in Runs : q # r => ledger'[q] = ledger[q]
       /\ passed' \in [Runs -> (Commits \X Scores) \cup {<<>>}]
       /\ passed'[r] = p /\ \A q \in Runs : q # r => passed'[q] = passed[q]
       /\ manifest' = manifest /\ head' = head /\ made' = made
       /\ crossed' = crossed /\ lock' = lock /\ UNCHANGED bookkeeping
  BY <1>1, <1>9, WrittenAre
<1>12. /\ lock' \in Locks \cup UnreadableManifest
       /\ manifest' \in [Runs -> Manifests \cup UnreadableManifest]
       /\ ledger' \in [Runs -> LedgerEntries \cup UnreadableManifest]
       /\ head' \in [Runs -> Commits] /\ made' \in [Runs -> Commits]
       /\ passed' \in [Runs -> (Commits \X Scores) \cup {<<>>}]
       /\ stops' \in 0 .. MaxStops /\ orders' \in 0 .. MaxOrders
       /\ crossed \subseteq crossed' /\ crossed' \subseteq Runs
  BY <1>11, FilesAre
<1>13. /\ Grounded(r, j, job[Operator], manifest'[r], ledger'[r], head'[r], made'[r])
       /\ r \notin crossed' =>
            Settled(r, j, job[Operator], manifest'[r], ledger'[r], passed'[r])
       /\ \A q \in Runs : q # r =>
            /\ manifest'[q] = manifest[q] /\ ledger'[q] = ledger[q] /\ head'[q] = head[q]
            /\ made'[q] = made[q] /\ passed'[q] = passed[q]
  BY <1>10, <1>11
<1>14. /\ Linked(j.plan) /\ (j # Off => j.live /\ j.run = r /\ j.m \in Manifests)
       /\ j \in Jobs /\ job' = [job EXCEPT ![r] = j]
  BY <1>5, <1>7, <1>8
<1> QED BY <1>12, <1>13, <1>14, SupervisorStep

LEMMA RecordKeeps ==
  ASSUME ResearchParameters, ResearchInv, NEW r \in Runs, Record(r)
  PROVE  ResearchInv'
<1>1. /\ At(r, "ledger") /\ Enter(r, job[r].m) /\ Onward(r)
      /\ UNCHANGED <<lock, manifest, head, made, passed, bookkeeping, crossed>>
  BY DEF Record
<1> DEFINE j == [job[r] EXCEPT !.plan = Tail(job[r].plan)]
           e == [iteration |-> job[r].m.iteration, kept |-> job[r].m.kept]
<1>2. job[r].plan # <<>> /\ Head(job[r].plan) = "ledger"
  BY <1>1 DEF At
<1>3. /\ job[r] \in Jobs /\ job[r].plan \in Seq(Steps) /\ Linked(job[r].plan)
      /\ job[r].live /\ job[r].run = r /\ job[r].m \in Manifests
      /\ ResearchTyped /\ GroundedAt(r) /\ (r \notin crossed => SettledAt(r))
      /\ job \in [Actors -> Jobs] /\ r \in Actors
  BY <1>2, AtRun
<1>4. Tail(job[r].plan) \in Seq(Steps) /\ Linked(Tail(job[r].plan))
  BY <1>2, <1>3, TailPlan
<1>5. j \in Jobs /\ j.live /\ j.run = r /\ j.plan = Tail(job[r].plan) /\ j.m = job[r].m
  BY <1>3, <1>4 DEF Jobs
<1>6. job' = [job EXCEPT ![r] = j]
  BY <1>1, <1>3 DEF Onward
<1>7. /\ e \in LedgerEntries /\ e.kept = job[r].m.kept /\ e.iteration = job[r].m.iteration
      /\ ledger' = [ledger EXCEPT ![r] = e]
  BY <1>1, <1>3 DEF LedgerEntries, Manifests, Enter
<1> HIDE DEF j, e
<1>8. /\ Grounded(r, j, job[Operator], manifest[r], e, head[r], made[r])
      /\ r \notin crossed => Settled(r, j, job[Operator], manifest[r], e, passed[r])
  <2>1. /\ j.m \in Manifests /\ j.m.kept = job[r].m.kept
        /\ j.m.iteration = job[r].m.iteration /\ manifest[r] \in Manifests \cup UnreadableManifest
    BY <1>3, <1>5, FilesAre
  <2>2. Grounded(r, job[r], job[Operator], manifest[r], ledger[r], head[r], made[r])
    BY <1>3 DEF GroundedAt
  <2> DEFINE c == job[r]
             p == passed[r]
  <2> HIDE DEF c, p
  <2>5. /\ c \in Jobs /\ c.live /\ c.plan # <<>> /\ Linked(c.plan)
        /\ Head(c.plan) \in {"baseline", "ledger"} /\ j.plan = Tail(c.plan) /\ c.m \in Manifests
        /\ j.m.kept = c.m.kept /\ j.m.iteration = c.m.iteration
        /\ e.kept = c.m.kept /\ e.iteration = c.m.iteration
        /\ Head(c.plan) = "baseline" \/ (j.m = c.m /\ p = p)
        /\ Grounded(r, c, job[Operator], manifest[r], ledger[r], head[r], made[r])
    BY <1>2, <1>3, <1>5, <1>7, <2>1, <2>2 DEF c
  <2>6. /\ Grounded(r, j, job[Operator], manifest[r], e, head[r], made[r])
        /\ Settled(r, c, job[Operator], manifest[r], ledger[r], p) =>
             Settled(r, j, job[Operator], manifest[r], e, p)
    BY <1>5, <1>7, <2>1, <2>5, EntryKeeps
  <2>3. /\ Grounded(r, j, job[Operator], manifest[r], e, head[r], made[r])
        /\ Settled(r, job[r], job[Operator], manifest[r], ledger[r], passed[r]) =>
             Settled(r, j, job[Operator], manifest[r], e, passed[r])
    BY <2>6 DEF c, p
  <2> QED BY <1>3, <2>3 DEF SettledAt
<1>9. /\ ledger' \in [Runs -> LedgerEntries \cup UnreadableManifest]
      /\ ledger'[r] = e /\ \A q \in Runs : q # r => ledger'[q] = ledger[q]
      /\ manifest' = manifest /\ head' = head /\ made' = made /\ passed' = passed
      /\ crossed' = crossed /\ lock' = lock /\ UNCHANGED bookkeeping
  BY <1>1, <1>7, WrittenAre
<1>10. /\ lock' \in Locks \cup UnreadableManifest
       /\ manifest' \in [Runs -> Manifests \cup UnreadableManifest]
       /\ ledger' \in [Runs -> LedgerEntries \cup UnreadableManifest]
       /\ head' \in [Runs -> Commits] /\ made' \in [Runs -> Commits]
       /\ passed' \in [Runs -> (Commits \X Scores) \cup {<<>>}]
       /\ stops' \in 0 .. MaxStops /\ orders' \in 0 .. MaxOrders
       /\ crossed \subseteq crossed' /\ crossed' \subseteq Runs
  BY <1>9, FilesAre
<1>11. /\ Grounded(r, j, job[Operator], manifest'[r], ledger'[r], head'[r], made'[r])
       /\ r \notin crossed' =>
            Settled(r, j, job[Operator], manifest'[r], ledger'[r], passed'[r])
       /\ \A q \in Runs : q # r =>
            /\ manifest'[q] = manifest[q] /\ ledger'[q] = ledger[q] /\ head'[q] = head[q]
            /\ made'[q] = made[q] /\ passed'[q] = passed[q]
  BY <1>8, <1>9
<1>12. /\ Linked(j.plan) /\ (j # Off => j.live /\ j.run = r /\ j.m \in Manifests)
       /\ j \in Jobs /\ job' = [job EXCEPT ![r] = j]
  BY <1>3, <1>4, <1>5, <1>6
<1> QED BY <1>10, <1>11, <1>12, SupervisorStep

LEMMA SupervisorWrites ==
  ASSUME ResearchParameters, ResearchInv, NEW r \in Runs, WriteManifest(r)
  PROVE  ResearchInv'
<1>1. /\ At(r, "manifest") /\ manifest' = [manifest EXCEPT ![job[r].run] = job[r].m] /\ Onward(r)
      /\ UNCHANGED <<lock, ledger, head, made, passed, bookkeeping, crossed>>
  BY DEF WriteManifest
<1> DEFINE j == [job[r] EXCEPT !.plan = Tail(job[r].plan)]
           m == job[r].m
<1>2. job[r].plan # <<>> /\ Head(job[r].plan) = "manifest"
  BY <1>1 DEF At
<1>3. /\ job[r] \in Jobs /\ job[r].plan \in Seq(Steps) /\ Linked(job[r].plan)
      /\ job[r].live /\ job[r].run = r /\ m \in Manifests
      /\ ResearchTyped /\ GroundedAt(r) /\ (r \notin crossed => SettledAt(r))
      /\ job \in [Actors -> Jobs] /\ r \in Actors
  BY <1>2, AtRun
<1>4. /\ Tail(job[r].plan) \in Seq(Steps) /\ Linked(Tail(job[r].plan))
      /\ Has(job[r].plan, Entering)
      /\ Tail(job[r].plan) # <<>> =>
           Head(Tail(job[r].plan)) \notin {"found", "read", "evaluate", "ledger", "manifest"}
  BY <1>2, <1>3, TailPlan DEF Entering
<1>5. j \in Jobs /\ j.live /\ j.run = r /\ j.plan = Tail(job[r].plan) /\ j.m = m
  BY <1>3, <1>4 DEF Jobs
<1>6. job' = [job EXCEPT ![r] = j]
  BY <1>1, <1>3 DEF Onward
<1> HIDE DEF j
<1>7. /\ Begun(job[r]) /\ Facing(job[r], "manifest")
      /\ ~Facing(j, "found") /\ ~Facing(j, "read") /\ ~Facing(j, "evaluate") /\ ~Facing(j, "manifest")
  BY <1>2, <1>3, <1>4, <1>5 DEF Begun, Facing
<1> HIDE DEF m
<1>8. /\ manifest[r] \in Manifests /\ m # Missing
      /\ m.iteration \in Nat /\ manifest[r].iteration \in Nat
      /\ \A u \in Manifests : u.iteration \in Nat
  BY <1>3, <1>7, ManifestIs, SpecialValues DEF GroundedAt, Grounded
<1>9. /\ manifest[r].iteration <= m.iteration /\ m.kept <= made[r] /\ head[r] <= made[r]
      /\ job[Operator].run = r => /\ job[Operator].m.kept <= made[r]
                                  /\ job[Operator].m.iteration <= manifest[r].iteration
  BY <1>3, <1>4, <1>7, <1>8 DEF GroundedAt, Grounded, m
<1>10. job[Operator].run = r => job[Operator].m.iteration \in Nat
  BY <1>8, SpecialValues DEF ResearchInv, Owning
<1>11. Grounded(r, j, job[Operator], m, ledger[r], head[r], made[r])
  BY <1>3, <1>5, <1>7, <1>8, <1>9, <1>10 DEF Grounded
<1>12. r \notin crossed => Settled(r, j, job[Operator], m, ledger[r], passed[r])
  <2> SUFFICES ASSUME r \notin crossed
               PROVE  Settled(r, j, job[Operator], m, ledger[r], passed[r])
    OBVIOUS
  <2>1. job[Operator].run # r /\ (m.status = "failed" \/ Explains(ledger[r], m))
    BY <1>3, <1>4, <1>7 DEF SettledAt, Settled, m
  <2> QED BY <1>5, <1>7, <2>1 DEF Settled, Earned
<1>13. /\ manifest' \in [Runs -> Manifests \cup UnreadableManifest]
       /\ manifest'[r] = m /\ \A q \in Runs : q # r => manifest'[q] = manifest[q]
       /\ ledger' = ledger /\ head' = head /\ made' = made /\ passed' = passed
       /\ crossed' = crossed /\ lock' = lock /\ UNCHANGED bookkeeping
  <2>1. m \in Manifests /\ manifest' = [manifest EXCEPT ![r] = m]
    BY <1>1, <1>3 DEF m
  <2>2. /\ manifest' \in [Runs -> Manifests \cup UnreadableManifest]
        /\ manifest'[r] = m /\ \A q \in Runs : q # r => manifest'[q] = manifest[q]
    BY <2>1, ManifestPut
  <2> QED BY <1>1, <2>2
<1>14. /\ lock' \in Locks \cup UnreadableManifest
       /\ manifest' \in [Runs -> Manifests \cup UnreadableManifest]
       /\ ledger' \in [Runs -> LedgerEntries \cup UnreadableManifest]
       /\ head' \in [Runs -> Commits] /\ made' \in [Runs -> Commits]
       /\ passed' \in [Runs -> (Commits \X Scores) \cup {<<>>}]
       /\ stops' \in 0 .. MaxStops /\ orders' \in 0 .. MaxOrders
       /\ crossed \subseteq crossed' /\ crossed' \subseteq Runs
  BY <1>13, FilesAre
<1>15. /\ Grounded(r, j, job[Operator], manifest'[r], ledger'[r], head'[r], made'[r])
       /\ r \notin crossed' =>
            Settled(r, j, job[Operator], manifest'[r], ledger'[r], passed'[r])
       /\ \A q \in Runs : q # r =>
            /\ manifest'[q] = manifest[q] /\ ledger'[q] = ledger[q] /\ head'[q] = head[q]
            /\ made'[q] = made[q] /\ passed'[q] = passed[q]
  BY <1>11, <1>12, <1>13
<1>16. /\ Linked(j.plan) /\ (j # Off => j.live /\ j.run = r /\ j.m \in Manifests)
       /\ j \in Jobs /\ job' = [job EXCEPT ![r] = j]
  BY <1>3, <1>4, <1>5, <1>6
<1> QED BY <1>14, <1>15, <1>16, SupervisorStep

LEMMA SessionKeeps ==
  ASSUME ResearchParameters, ResearchInv, NEW r \in Runs, Session(r)
  PROVE  ResearchInv'
<1> DEFINE plan == <<"read">>
           j == [job[r] EXCEPT !.plan = plan]
<1>1. /\ job[r].live /\ job[r].plan = <<>> /\ manifest[r] \notin UnreadableManifest
      /\ manifest[r].iteration < MaxIterations
      /\ job' = [job EXCEPT ![r].plan = plan]
      /\ UNCHANGED <<lock, manifest, ledger, passed, bookkeeping, crossed>>
  BY DEF Session
<1>2. PICK new \in {made[r], made[r] + 1} \cap Commits :
        /\ made' = [made EXCEPT ![r] = new]
        /\ head' = [head EXCEPT ![r] = IF new = made[r] THEN @ ELSE new]
  BY DEF Session
<1> DEFINE h == IF new = made[r] THEN head[r] ELSE new
<1>3. /\ job[r] \in Jobs /\ job[r].run = r /\ job[r].m \in Manifests
      /\ ResearchTyped /\ GroundedAt(r) /\ (r \notin crossed => SettledAt(r))
      /\ job \in [Actors -> Jobs] /\ r \in Actors
  BY <1>1, AtRun
<1>4. /\ plan \in Seq(Steps) /\ plan # <<>> /\ Linked(plan) /\ Head(plan) = "read"
      /\ ~Has(plan, Entering)
  <2>1. plan \in Seq(Steps) /\ plan # <<>> /\ Linked(plan) /\ Head(plan) = "read"
    BY ShortPlans, StepsAre
  <2>2. ~Has(plan, Entering)
    BY DEF Has, Entering
  <2> QED BY <2>1, <2>2
<1> HIDE DEF plan
<1>5. j \in Jobs /\ j.live /\ j.run = r /\ j.plan = plan /\ j.m = job[r].m
  BY <1>1, <1>3, <1>4 DEF Jobs
<1>6. job' = [job EXCEPT ![r] = j]
  BY <1>1, <1>3
<1> HIDE DEF j
<1>7. /\ ~Facing(j, "found") /\ ~Facing(j, "evaluate") /\ ~Facing(j, "manifest")
      /\ ~Facing(job[r], "found") /\ Begun(job[r])
  BY <1>1, <1>4, <1>5 DEF Facing, Begun
<1>8. /\ manifest[r] \in Manifests
      /\ made[r] \in Nat /\ new \in Nat /\ made[r] <= new
      /\ h \in Commits /\ new \in Commits
      /\ head[r] \in Nat /\ (head[r] <= made[r] => h <= new)
  BY <1>1, <1>2, <1>3, FilesAre, SpecialValues DEF Commits
<1>9. head' = [head EXCEPT ![r] = h]
  BY <1>2
<1> HIDE DEF h
<1>10. Grounded(r, j, job[Operator], manifest[r], ledger[r], h, new)
  <2>1. /\ manifest[r].kept \in Nat /\ job[r].m.kept \in Nat
        /\ job[Operator].run = r => job[Operator].m.kept \in Nat
    <3>1. job[Operator].run = r => job[Operator].m \in Manifests
      BY SpecialValues DEF ResearchInv, Owning
    <3> QED BY <1>3, <1>8, <3>1, ManifestIs
  <2>2. /\ head[r] <= made[r] /\ manifest[r].kept <= made[r] /\ job[r].m.kept <= made[r]
        /\ job[Operator].run = r =>
             /\ job[Operator].m.kept <= made[r]
             /\ job[Operator].m.iteration <= manifest[r].iteration
    BY <1>1, <1>3, <1>8 DEF GroundedAt, Grounded
  <2>3. h <= new /\ manifest[r].kept <= new /\ job[r].m.kept <= new
        /\ (job[Operator].run = r => job[Operator].m.kept <= new)
    BY <1>8, <2>1, <2>2
  <2>4. manifest[r] # Missing
    BY <1>1 DEF UnreadableManifest
  <2> QED BY <1>1, <1>4, <1>5, <1>7, <1>8, <2>2, <2>3, <2>4 DEF Grounded
<1>11. r \notin crossed => Settled(r, j, job[Operator], manifest[r], ledger[r], passed[r])
  BY <1>1, <1>3, <1>4, <1>5 DEF SettledAt, Settled
<1>12. /\ made' \in [Runs -> Commits] /\ head' \in [Runs -> Commits]
       /\ made'[r] = new /\ head'[r] = h
       /\ \A q \in Runs : q # r => made'[q] = made[q] /\ head'[q] = head[q]
       /\ manifest' = manifest /\ ledger' = ledger /\ passed' = passed
       /\ crossed' = crossed /\ lock' = lock /\ UNCHANGED bookkeeping
  <2>1. new \in Commits /\ made' = [made EXCEPT ![r] = new]
    BY <1>2, <1>8
  <2>2. /\ made' \in [Runs -> Commits] /\ made'[r] = new
        /\ \A q \in Runs : q # r => made'[q] = made[q]
    BY <2>1, WrittenAre
  <2>3. /\ head' \in [Runs -> Commits] /\ head'[r] = h
        /\ \A q \in Runs : q # r => head'[q] = head[q]
    BY <1>8, <1>9, WrittenAre
  <2> QED BY <1>1, <2>2, <2>3
<1>13. /\ lock' \in Locks \cup UnreadableManifest
       /\ manifest' \in [Runs -> Manifests \cup UnreadableManifest]
       /\ ledger' \in [Runs -> LedgerEntries \cup UnreadableManifest]
       /\ passed' \in [Runs -> (Commits \X Scores) \cup {<<>>}]
       /\ stops' \in 0 .. MaxStops /\ orders' \in 0 .. MaxOrders
       /\ crossed \subseteq crossed' /\ crossed' \subseteq Runs
  BY <1>12, FilesAre
<1>14. /\ Grounded(r, j, job[Operator], manifest'[r], ledger'[r], head'[r], made'[r])
       /\ r \notin crossed' =>
            Settled(r, j, job[Operator], manifest'[r], ledger'[r], passed'[r])
       /\ \A q \in Runs : q # r =>
            /\ manifest'[q] = manifest[q] /\ ledger'[q] = ledger[q] /\ head'[q] = head[q]
            /\ made'[q] = made[q] /\ passed'[q] = passed[q]
  BY <1>10, <1>11, <1>12
<1>15. /\ Linked(j.plan) /\ (j # Off => j.live /\ j.run = r /\ j.m \in Manifests)
       /\ j \in Jobs /\ job' = [job EXCEPT ![r] = j]
  BY <1>3, <1>4, <1>5, <1>6
<1> QED BY <1>12, <1>13, <1>14, <1>15, SupervisorStep

\* a candidate that was read makes a new iteration of what is kept
LEMMA Iterated ==
  ASSUME ResearchParameters, ResearchInv, NEW r \in Runs, At(r, "read"),
         manifest[r] \notin UnreadableManifest,
         NEW status \in {"running", "stopped", "failed"}, NEW plan \in Seq(Steps), plan # <<>>,
         Linked(plan), Head(plan) \notin {"found", "read"},
         Head(plan) = "manifest" => status = "failed",
         job' = [job EXCEPT ![r].m = [manifest[r] EXCEPT !.iteration = manifest[r].iteration + 1,
                                                         !.status = status],
                            ![r].plan = plan],
         UNCHANGED <<lock, files, passed, bookkeeping, crossed>>
  PROVE  ResearchInv'
<1> DEFINE m == [manifest[r] EXCEPT !.iteration = manifest[r].iteration + 1, !.status = status]
           j == [job[r] EXCEPT !.m = m, !.plan = plan]
<1>1. job[r].plan # <<>> /\ Facing(job[r], "read") /\ ~Facing(job[r], "found")
  BY DEF At, Facing
<1>2. /\ job[r] \in Jobs /\ job[r].live /\ job[r].run = r /\ job[r].m \in Manifests
      /\ ResearchTyped /\ GroundedAt(r) /\ (r \notin crossed => SettledAt(r))
      /\ job \in [Actors -> Jobs] /\ r \in Actors
  BY <1>1, AtRun
<1>3. /\ manifest[r] \in Manifests /\ manifest[r].iteration \in Nat
      /\ manifest[r].iteration < MaxIterations /\ MaxIterations \in Nat /\ manifest[r] # Missing
  BY <1>1, <1>2, FilesAre, ManifestIs, SpecialValues DEF GroundedAt, Grounded
<1>4. /\ m \in Manifests /\ m.iteration = manifest[r].iteration + 1 /\ m.kept = manifest[r].kept
      /\ m.score = manifest[r].score /\ m.status = status
  <2>1. manifest[r].iteration + 1 \in 0 .. MaxIterations
    BY <1>3
  <2> QED BY <1>3, <2>1 DEF Manifests
<1>5. job' = [job EXCEPT ![r] = j]
  BY <1>2
<1> HIDE DEF m
<1>6. j \in Jobs /\ j.live /\ j.run = r /\ j.plan = plan /\ j.m = m
  BY <1>2, <1>4 DEF Jobs
<1> HIDE DEF j
<1>7. /\ ~Facing(j, "found") /\ ~Facing(j, "read") /\ Begun(j) /\ Begun(job[r])
      /\ Facing(j, "manifest") => status = "failed"
  BY <1>1, <1>2, <1>6 DEF Facing, Begun
<1>8. Grounded(r, j, job[Operator], manifest[r], ledger[r], head[r], made[r])
  BY <1>2, <1>3, <1>4, <1>6, <1>7 DEF GroundedAt, Grounded
<1>9. r \notin crossed => Settled(r, j, job[Operator], manifest[r], ledger[r], passed[r])
  BY <1>2, <1>3, <1>4, <1>6, <1>7 DEF SettledAt, Settled, Earned
<1>10. /\ manifest' = manifest /\ ledger' = ledger /\ head' = head /\ made' = made
       /\ passed' = passed /\ crossed' = crossed /\ lock' = lock /\ UNCHANGED bookkeeping
  BY DEF files
<1>11. /\ lock' \in Locks \cup UnreadableManifest
       /\ manifest' \in [Runs -> Manifests \cup UnreadableManifest]
       /\ ledger' \in [Runs -> LedgerEntries \cup UnreadableManifest]
       /\ head' \in [Runs -> Commits] /\ made' \in [Runs -> Commits]
       /\ passed' \in [Runs -> (Commits \X Scores) \cup {<<>>}]
       /\ stops' \in 0 .. MaxStops /\ orders' \in 0 .. MaxOrders
       /\ crossed \subseteq crossed' /\ crossed' \subseteq Runs
  BY <1>10, FilesAre
<1>12. /\ Grounded(r, j, job[Operator], manifest'[r], ledger'[r], head'[r], made'[r])
       /\ r \notin crossed' =>
            Settled(r, j, job[Operator], manifest'[r], ledger'[r], passed'[r])
       /\ \A q \in Runs : q # r =>
            /\ manifest'[q] = manifest[q] /\ ledger'[q] = ledger[q] /\ head'[q] = head[q]
            /\ made'[q] = made[q] /\ passed'[q] = passed[q]
  BY <1>8, <1>9, <1>10
<1>13. /\ Linked(j.plan) /\ (j # Off => j.live /\ j.run = r /\ j.m \in Manifests)
       /\ j \in Jobs /\ job' = [job EXCEPT ![r] = j]
  BY <1>4, <1>5, <1>6
<1> QED BY <1>11, <1>12, <1>13, SupervisorStep

LEMMA ProcessKeeps ==
  ASSUME ResearchParameters, ResearchInv, NEW r \in Runs, Process(r)
  PROVE  ResearchInv'
<1> DEFINE Go(status, plan) ==
             job' = [job EXCEPT ![r].m = [manifest[r] EXCEPT !.iteration = manifest[r].iteration + 1,
                                                             !.status = status],
                                ![r].plan = plan]
           entering == <<"ledger">> \o Finalize
           noted == <<"ledger", "manifest">>
           judging == <<"evaluate">>
<1>1. At(r, "read") /\ UNCHANGED <<lock, files, passed, bookkeeping, crossed>>
  BY DEF Process
<1>2. CASE manifest[r] \in UnreadableManifest /\ Drop(r)
  <2>1. job[r].live
    BY <1>1, AtRun DEF At
  <2> QED BY <1>1, <1>2, <2>1, RaisedRun
<1>3. CASE manifest[r] \notin UnreadableManifest
  <2>1. \/ Go("failed", entering) \/ Go("stopped", entering) \/ Go("failed", Finalize)
        \/ Go("running", noted) \/ Go("running", judging)
    <3>1. PICK c \in Artifacts(r) :
            LET m == [manifest[r] EXCEPT !.iteration = @ + 1]
                G(status, plan) ==
                  job' = [job EXCEPT ![r].m = [m EXCEPT !.status = status], ![r].plan = plan]
            IN  \/ ~Valid(c, r, m) /\ G("failed", <<"ledger">> \o Finalize)
                \/ /\ Valid(c, r, m)
                   /\ \/ c.status = "abort" /\ G("stopped", <<"ledger">> \o Finalize)
                      \/ c.status = "interrupted" /\ G("failed", Finalize)
                      \/ /\ c.status \in {"noop", "interrupted"}
                         /\ G("running", <<"ledger", "manifest">>)
                      \/ c.status = "candidate" /\ G("running", <<"evaluate">>)
      BY <1>3, Zenon DEF Process
    <3> DEFINE m == [manifest[r] EXCEPT !.iteration = @ + 1]
               G(status, plan) ==
                 job' = [job EXCEPT ![r].m = [m EXCEPT !.status = status], ![r].plan = plan]
    <3>2. \/ G("failed", entering) \/ G("stopped", entering) \/ G("failed", Finalize)
          \/ G("running", noted) \/ G("running", judging)
      BY <3>1, Zenon
    <3>3. \A status : [m EXCEPT !.status = status] =
            [manifest[r] EXCEPT !.iteration = manifest[r].iteration + 1, !.status = status]
      OBVIOUS
    <3>4. \A status, plan : G(status, plan) => Go(status, plan)
      BY <3>3
    <3> HIDE DEF G, Go
    <3> QED BY <3>2, <3>4
  <2>2. /\ entering \in Seq(Steps) /\ entering # <<>> /\ Linked(entering) /\ Head(entering) = "ledger"
        /\ Finalize \in Seq(Steps) /\ Finalize # <<>> /\ Linked(Finalize)
        /\ Head(Finalize) = "manifest"
    BY EnteringIs, FinalizeIs
  <2>3. /\ noted \in Seq(Steps) /\ noted # <<>> /\ Linked(noted) /\ Head(noted) = "ledger"
        /\ judging \in Seq(Steps) /\ judging # <<>> /\ Linked(judging)
        /\ Head(judging) = "evaluate"
    BY ShortPlans DEF Steps
  <2> HIDE DEF entering, noted, judging
  <2> QED BY <1>1, <1>3, <2>1, <2>2, <2>3, Iterated
<1> QED BY <1>2, <1>3 DEF Process

LEMMA EvaluateKeeps ==
  ASSUME ResearchParameters, ResearchInv, NEW r \in Runs, Evaluate(r)
  PROVE  ResearchInv'
<1> DEFINE d == manifest[r]
           plan == <<"ledger", "manifest">> \o Rewrite("note")
           Going(n, h) == /\ job' = [job EXCEPT ![r].m = n, ![r].plan = plan]
                          /\ head' = [head EXCEPT ![r] = h]
<1>1. At(r, "evaluate") /\ UNCHANGED <<lock, manifest, ledger, made, bookkeeping, crossed>>
  BY DEF Evaluate
<1>2. job[r].plan # <<>> /\ Facing(job[r], "evaluate") /\ ~Facing(job[r], "found")
      /\ Head(job[r].plan) = "evaluate"
  BY <1>1 DEF At, Facing
<1>3. /\ job[r] \in Jobs /\ job[r].live /\ job[r].run = r /\ job[r].m \in Manifests
      /\ ResearchTyped /\ GroundedAt(r) /\ (r \notin crossed => SettledAt(r))
      /\ job \in [Actors -> Jobs] /\ r \in Actors
      /\ job[r].plan \in Seq(Steps) /\ Linked(job[r].plan)
  BY <1>2, AtRun
<1> DEFINE m == job[r].m
           kept(result) == [m EXCEPT !.kept = head[r],
                                     !.score = IF result.score = 0 THEN m.score ELSE result.score]
           p(result) == IF result.status = "pass" THEN <<head[r], result.score>> ELSE <<>>
<1>4. PICK result \in Results :
        /\ passed' = [passed EXCEPT ![r] = p(result)]
        /\ \/ Keeps(m, result) /\ Going(kept(result), head[r])
           \/ ~Keeps(m, result) /\ Going(m, m.kept)
           \/ ~Keeps(m, result) /\ Drop(r) /\ UNCHANGED head
  <2>1. PICK result \in Results :
          LET n == [m EXCEPT !.kept = head[r], !.score = IF result.score = 0 THEN @ ELSE result.score]
              Go(x) == job' = [job EXCEPT ![r].m = x, ![r].plan = plan]
          IN  /\ Judge(r, result)
              /\ \/ Keeps(m, result) /\ Go(n) /\ UNCHANGED head
                 \/ ~Keeps(m, result) /\ Go(m) /\ head' = [head EXCEPT ![r] = m.kept]
                 \/ ~Keeps(m, result) /\ Drop(r) /\ UNCHANGED head
    BY Zenon DEF Evaluate
  <2>2. [m EXCEPT !.kept = head[r], !.score = IF result.score = 0 THEN @ ELSE result.score]
          = kept(result)
    OBVIOUS
  <2>3. head = [head EXCEPT ![r] = head[r]]
    BY <1>3 DEF ResearchTyped
  <2>4. passed' = [passed EXCEPT ![r] = p(result)]
    BY <2>1 DEF Judge
  <2> HIDE DEF kept, p, plan
  <2> QED BY <2>1, <2>2, <2>3, <2>4
<1>5. /\ result.score \in Scores /\ result.score \in Nat
      /\ p(result) \in (Commits \X Scores) \cup {<<>>}
  <2>1. result.score \in Scores /\ (\A x \in Scores : x \in Nat)
    BY DEF Results, Scores
  <2> QED BY <2>1, FilesAre
<1>6. CASE Drop(r) /\ UNCHANGED head
  <2>1. /\ passed' \in [Runs -> (Commits \X Scores) \cup {<<>>}]
        /\ \A q \in Runs : q # r => passed'[q] = passed[q]
    <3> HIDE DEF p
    <3> QED BY <1>4, <1>5, WrittenAre
  <2>2. /\ manifest' = [manifest EXCEPT ![r] = manifest[r]]
        /\ ledger' = [ledger EXCEPT ![r] = ledger[r]]
        /\ stops' \in 0 .. MaxStops /\ UNCHANGED <<lock, head, made, orders, crossed>>
    BY <1>1, <1>3, <1>6 DEF ResearchTyped, bookkeeping
  <2> QED BY <1>3, <1>6, <2>1, <2>2, DropRun
<1>7. ASSUME NEW n \in Manifests, NEW h \in Commits, Going(n, h), n.iteration = m.iteration,
             \/ Keeps(m, result) /\ n = kept(result) /\ h = head[r]
             \/ n = m /\ h = m.kept
      PROVE  ResearchInv'
  <2> DEFINE j == [job[r] EXCEPT !.m = n, !.plan = plan]
  <2>1. /\ plan \in Seq(Steps) /\ plan # <<>> /\ Linked(plan) /\ Head(plan) = "ledger"
        /\ ~Has(plan, {"baseline", "evaluate"})
    BY DecidedIs
  <2> HIDE DEF plan
  <2>2. j \in Jobs /\ j.live /\ j.run = r /\ j.plan = plan /\ j.m = n
    BY <1>3, <2>1 DEF Jobs
  <2>3. job' = [job EXCEPT ![r] = j] /\ head' = [head EXCEPT ![r] = h]
    BY <1>3, <1>7
  <2> HIDE DEF j
  <2>4. /\ ~Facing(j, "found") /\ ~Facing(j, "read") /\ ~Facing(j, "evaluate")
        /\ ~Facing(j, "manifest") /\ Begun(j) /\ Begun(job[r])
        /\ Has(job[r].plan, Entering) /\ Has(job[r].plan, {"baseline", "evaluate"})
    BY <1>2, <1>3, <2>1, <2>2, TailPlan DEF Facing, Begun, Entering
  <2>5. /\ d \in Manifests /\ head[r] <= made[r] /\ m.kept <= made[r]
        /\ d.iteration <= m.iteration /\ d # Missing
        /\ m.score \in Nat /\ d.score \in Nat
    <3>1. d \in Manifests
      BY <1>3, <2>4 DEF GroundedAt, Grounded
    <3> QED BY <1>3, <2>4, <3>1, ManifestIs, SpecialValues DEF GroundedAt, Grounded
  <2>6. /\ n.kept <= made[r] /\ h <= made[r]
    BY <1>3, <1>7, <2>5 DEF Manifests
  <2>7. Grounded(r, j, job[Operator], d, ledger[r], h, made[r])
    BY <1>3, <1>7, <2>2, <2>4, <2>5, <2>6 DEF GroundedAt, Grounded
  <2>8. r \notin crossed => Settled(r, j, job[Operator], d, ledger[r], p(result))
    <3> SUFFICES ASSUME r \notin crossed
                 PROVE  Settled(r, j, job[Operator], d, ledger[r], p(result))
      OBVIOUS
    <3>1. /\ job[Operator].run # r /\ m.iteration = d.iteration + 1
          /\ m.kept = d.kept /\ m.score = d.score
          /\ d.status # "failed" => Explains(ledger[r], d)
      BY <1>2, <1>3, <2>4, <2>5 DEF SettledAt, Settled
    <3>2. Earned(n, d, p(result))
      <4>1. CASE n = m
        BY <3>1, <4>1 DEF Earned
      <4>2. CASE Keeps(m, result) /\ n = kept(result)
        <5>1. n.kept = head[r] /\ n.score = IF result.score = 0 THEN m.score ELSE result.score
          BY <1>3, <4>2 DEF Manifests
        <5>2. p(result) = <<head[r], result.score>>
          BY <4>2 DEF Keeps
        <5>3. Policy = "score_improvement" => result.score > d.score /\ n.score = result.score
          BY <1>5, <2>5, <3>1, <4>2, <5>1 DEF Keeps
        <5>4. p(result) # <<>> /\ p(result)[1] = head[r] /\ p(result)[2] = result.score
          BY <5>2
        <5> HIDE DEF p
        <5> QED BY <5>1, <5>3, <5>4 DEF Earned
      <4> QED BY <1>7, <4>1, <4>2
    <3> HIDE DEF p
    <3> QED BY <1>7, <2>1, <2>2, <2>4, <3>1, <3>2 DEF Settled
  <2>9. /\ head' \in [Runs -> Commits] /\ head'[r] = h
        /\ \A q \in Runs : q # r => head'[q] = head[q]
    BY <2>3, WrittenAre
  <2>10. /\ passed' \in [Runs -> (Commits \X Scores) \cup {<<>>}] /\ passed'[r] = p(result)
         /\ \A q \in Runs : q # r => passed'[q] = passed[q]
    <3> HIDE DEF p
    <3> QED BY <1>4, <1>5, WrittenAre
  <2>11. /\ manifest' = manifest /\ ledger' = ledger /\ made' = made /\ crossed' = crossed
         /\ lock' = lock /\ UNCHANGED bookkeeping
    BY <1>1
  <2>12. /\ lock' \in Locks \cup UnreadableManifest
         /\ manifest' \in [Runs -> Manifests \cup UnreadableManifest]
         /\ ledger' \in [Runs -> LedgerEntries \cup UnreadableManifest]
         /\ made' \in [Runs -> Commits]
         /\ stops' \in 0 .. MaxStops /\ orders' \in 0 .. MaxOrders
         /\ crossed \subseteq crossed' /\ crossed' \subseteq Runs
    BY <2>11, FilesAre
  <2> HIDE DEF p
  <2>13. /\ Grounded(r, j, job[Operator], manifest'[r], ledger'[r], head'[r], made'[r])
         /\ r \notin crossed' =>
              Settled(r, j, job[Operator], manifest'[r], ledger'[r], passed'[r])
         /\ \A q \in Runs : q # r =>
              /\ manifest'[q] = manifest[q] /\ ledger'[q] = ledger[q] /\ head'[q] = head[q]
              /\ made'[q] = made[q] /\ passed'[q] = passed[q]
    BY <2>7, <2>8, <2>9, <2>10, <2>11
    <2>14. /\ Linked(j.plan) /\ (j # Off => j.live /\ j.run = r /\ j.m \in Manifests)
         /\ j \in Jobs /\ job' = [job EXCEPT ![r] = j]
    BY <2>1, <2>2, <2>3
  <2> QED BY <2>9, <2>10, <2>12, <2>13, <2>14, SupervisorStep
<1>8. kept(result) \in Manifests /\ kept(result).iteration = m.iteration /\ head[r] \in Commits
  <2>1. head[r] \in Commits
    BY FilesAre
  <2> QED BY <1>3, <1>5, <2>1 DEF Manifests
<1>9. m \in Manifests /\ m.kept \in Commits
  BY <1>3 DEF Manifests
<1> HIDE DEF Going, kept, p, m, plan, d
<1> QED BY <1>4, <1>6, <1>7, <1>8, <1>9

LEMMA AtOperator ==
  ASSUME ResearchParameters, ResearchInv
  PROVE  /\ Operator \in Actors /\ job \in [Actors -> Jobs] /\ job[Operator] \in Jobs
         /\ job[Operator].plan \in Seq(Steps) /\ Linked(job[Operator].plan)
         /\ job[Operator].run = Nobody => ~Has(job[Operator].plan, {"manifest"})
         /\ job[Operator].run # Nobody => job[Operator].run \in Runs /\ job[Operator].m \in Manifests
         /\ Nobody \notin Runs
         /\ \A r \in Runs : GroundedAt(r) /\ (r \notin crossed => SettledAt(r))
<1>1. Operator \in Actors
  BY DEF Actors
<1>2. job \in [Actors -> Jobs] /\ job[Operator] \in Jobs
  BY <1>1 DEF ResearchInv, ResearchTyped
<1>3. job[Operator].plan \in Seq(Steps) /\ job[Operator].run \in Runs \cup {Nobody}
  BY <1>2 DEF Jobs
<1> QED BY <1>1, <1>2, <1>3, SpecialValues DEF ResearchInv, Owning

\* the operator's call goes on, or there is another, and no file of a run changes
LEMMA OperatorGoes ==
  ASSUME ResearchParameters, ResearchInv, NEW o \in Jobs, job' = [job EXCEPT ![Operator] = o],
         Linked(o.plan), o.run = Nobody => ~Has(o.plan, {"manifest"}),
         (o.run = job[Operator].run /\ o.m = job[Operator].m) \/ o.run = Nobody,
         lock' \in Locks \cup UnreadableManifest, UNCHANGED <<files, passed, stops, crossed>>,
         orders' \in 0 .. MaxOrders
  PROVE  ResearchInv'
<1>1. /\ manifest' = manifest /\ ledger' = ledger /\ head' = head /\ made' = made
      /\ passed' = passed /\ stops' = stops /\ crossed' = crossed
  BY DEF files
<1>2. /\ manifest' \in [Runs -> Manifests \cup UnreadableManifest]
      /\ crossed \subseteq crossed' /\ crossed' \subseteq Runs /\ stops' \in 0 .. MaxStops
  BY <1>1 DEF ResearchInv, ResearchTyped
<1>3. o.run # Nobody => o.m \in Manifests
  BY AtOperator
<1>4. ASSUME NEW r \in Runs
      PROVE  /\ Grounded(r, job[r], o, manifest'[r], ledger[r], head[r], made[r])
             /\ r \notin crossed' => Settled(r, job[r], o, manifest'[r], ledger[r], passed[r])
  <2>1. /\ Grounded(r, job[r], job[Operator], manifest[r], ledger[r], head[r], made[r])
        /\ r \notin crossed =>
             Settled(r, job[r], job[Operator], manifest[r], ledger[r], passed[r])
    BY AtOperator DEF GroundedAt, SettledAt
  <2>2. CASE o.run = job[Operator].run /\ o.m = job[Operator].m
    BY <1>1, <2>1, <2>2, OperatorOn
  <2>3. CASE o.run = Nobody
    <3>1. o.run # r
      BY <2>3, AtOperator
    <3> QED BY <1>1, <2>1, <3>1, OperatorOff
  <2> QED BY <2>2, <2>3
<1> QED BY <1>1, <1>2, <1>3, <1>4, OperatorStep

LEMMA OperatorOnward ==
  ASSUME ResearchParameters, ResearchInv, job[Operator].plan # <<>>,
         NEW c \in Locks \cup {Missing},
         job' = [job EXCEPT ![Operator] =
                   [job[Operator] EXCEPT !.plan = Tail(job[Operator].plan), !.copy = c]],
         lock' \in Locks \cup UnreadableManifest,
         UNCHANGED <<files, passed, bookkeeping, crossed>>
  PROVE  ResearchInv'
<1> DEFINE o == [job[Operator] EXCEPT !.plan = Tail(job[Operator].plan), !.copy = c]
<1>1. /\ Tail(job[Operator].plan) \in Seq(Steps) /\ Linked(Tail(job[Operator].plan))
      /\ \A S : Has(Tail(job[Operator].plan), S) => Has(job[Operator].plan, S)
  BY AtOperator, TailPlan
<1>2. /\ o \in Jobs /\ o.run = job[Operator].run /\ o.m = job[Operator].m
      /\ o.plan = Tail(job[Operator].plan)
  BY <1>1, AtOperator DEF Jobs
<1>3. job' = [job EXCEPT ![Operator] = o]
  OBVIOUS
<1> HIDE DEF o
<1>4. Linked(o.plan) /\ (o.run = Nobody => ~Has(o.plan, {"manifest"}))
  BY <1>1, <1>2, AtOperator
<1>5. orders' \in 0 .. MaxOrders /\ UNCHANGED <<files, passed, stops, crossed>>
  BY FilesAre DEF bookkeeping
<1> QED BY <1>2, <1>3, <1>4, <1>5, OperatorGoes

LEMMA OperatorDrops ==
  ASSUME ResearchParameters, ResearchInv, Drop(Operator),
         UNCHANGED <<lock, files, passed, bookkeeping, crossed>>
  PROVE  ResearchInv'
<1>1. job' = [job EXCEPT ![Operator] = Off] /\ lock' = lock
  BY DEF Drop
<1>2. orders' \in 0 .. MaxOrders /\ UNCHANGED <<files, passed, stops, crossed>>
  BY FilesAre DEF bookkeeping
<1>3. lock' \in Locks \cup UnreadableManifest
  BY <1>1, FilesAre
<1> QED BY <1>1, <1>2, <1>3, OffIs, OperatorGoes

LEMMA OperatorReads ==
  ASSUME ResearchParameters, ResearchInv, Read(Operator)
  PROVE  ResearchInv'
<1>1. PICK step \in {"bind", "clear", "note"} :
        /\ At(Operator, step)
        /\ IF lock \in UnreadableManifest
             THEN Drop(Operator)
             ELSE job' = [job EXCEPT ![Operator].plan = Tail(@), ![Operator].copy = Merged(Operator, step)]
  BY DEF Read
<1>2. UNCHANGED <<lock, files, passed, bookkeeping, crossed>> /\ lock' = lock
  BY DEF Read
<1>3. job[Operator].plan # <<>> /\ Operator \in Actors
  BY <1>1 DEF At, Actors
<1>4. CASE lock \in UnreadableManifest
  BY <1>1, <1>2, <1>4, OperatorDrops
<1>5. CASE lock \notin UnreadableManifest
  <2> DEFINE c == Merged(Operator, step)
  <2>1. c \in Locks
    BY <1>3, <1>5, MergedIs
  <2>2. job' = [job EXCEPT ![Operator].plan = Tail(@), ![Operator].copy = c]
    BY <1>1, <1>5
  <2> HIDE DEF c
  <2>3. job' = [job EXCEPT ![Operator] =
                  [job[Operator] EXCEPT !.plan = Tail(job[Operator].plan), !.copy = c]]
    BY <1>3, <2>2, RecordIs
  <2>4. lock' \in Locks \cup UnreadableManifest /\ UNCHANGED <<files, passed, bookkeeping, crossed>>
    BY <1>2, LocksAre
  <2> QED BY <1>3, <2>1, <2>3, <2>4, OperatorOnward
<1> QED BY <1>4, <1>5

LEMMA OperatorReleases ==
  ASSUME ResearchParameters, ResearchInv, Release(Operator)
  PROVE  ResearchInv'
<1> DEFINE owner == IF lock \in UnreadableManifest THEN job[Operator].run ELSE lock.run
           c == [active |-> FALSE, run |-> owner]
<1>1. /\ At(Operator, "release")
      /\ job' = [job EXCEPT ![Operator].plan = Tail(@), ![Operator].copy = c]
      /\ UNCHANGED <<lock, files, passed, bookkeeping, crossed>> /\ lock' = lock
  BY DEF Release
<1>2. job[Operator].plan # <<>> /\ Operator \in Actors
  BY <1>1 DEF At, Actors
<1>3. c \in Locks
  <2>1. owner \in Runs \cup {Nobody}
    BY AtOperator, LocksAre DEF Locks, Jobs
  <2> QED BY <2>1 DEF Locks
<1> HIDE DEF c
<1>4. job' = [job EXCEPT ![Operator] =
                [job[Operator] EXCEPT !.plan = Tail(job[Operator].plan), !.copy = c]]
  BY <1>1, <1>2, RecordIs
<1>5. lock' \in Locks \cup UnreadableManifest /\ UNCHANGED <<files, passed, bookkeeping, crossed>>
  BY <1>1, LocksAre
<1> QED BY <1>2, <1>3, <1>4, <1>5, OperatorOnward

LEMMA OperatorOpens ==
  ASSUME ResearchParameters, ResearchInv, Open(Operator) \/ Fill(Operator)
  PROVE  ResearchInv'
<1>1. /\ job[Operator].plan # <<>> /\ Operator \in Actors /\ Onward(Operator)
      /\ lock' = Unparsed \/ lock' = job[Operator].copy
      /\ UNCHANGED <<files, passed, bookkeeping, crossed>>
  BY DEF Open, Fill, At, Actors
<1>2. /\ job[Operator].copy \in Locks \cup {Missing}
      /\ job' = [job EXCEPT ![Operator] =
                   [job[Operator] EXCEPT !.plan = Tail(job[Operator].plan),
                                         !.copy = job[Operator].copy]]
  BY <1>1, RecordIs
<1>3. lock' \in Locks \cup UnreadableManifest
  BY <1>1, <1>2, LocksAre
<1> QED BY <1>1, <1>2, <1>3, OperatorOnward

\* the operator writes the manifest of a run that he stops
LEMMA OperatorWrites ==
  ASSUME ResearchParameters, ResearchInv, WriteManifest(Operator)
  PROVE  ResearchInv'
<1> DEFINE m == job[Operator].m
           q == job[Operator].run
           o == [job[Operator] EXCEPT !.plan = Tail(job[Operator].plan)]
<1>1. /\ At(Operator, "manifest") /\ Onward(Operator) /\ manifest' = [manifest EXCEPT ![q] = m]
      /\ UNCHANGED <<lock, ledger, head, made, passed, bookkeeping, crossed>>
  BY DEF WriteManifest
<1>2. job[Operator].plan # <<>> /\ Head(job[Operator].plan) \in {"manifest"}
  BY <1>1 DEF At
<1>3. /\ Tail(job[Operator].plan) \in Seq(Steps) /\ Linked(Tail(job[Operator].plan))
      /\ Has(job[Operator].plan, {"manifest"})
  BY <1>2, AtOperator, TailPlan
<1>4. q \in Runs /\ m \in Manifests /\ q # Nobody
  BY <1>3, AtOperator
<1>5. o \in Jobs /\ o.run = q /\ o.m = m /\ Linked(o.plan)
  BY <1>3, AtOperator DEF Jobs
<1>6. job' = [job EXCEPT ![Operator] = o]
  BY <1>1, AtOperator DEF Onward
<1>7. job[Operator].run = q /\ job[Operator].m = m
  OBVIOUS
<1> HIDE DEF o, m, q
<1>8. /\ manifest' \in [Runs -> Manifests \cup UnreadableManifest] /\ manifest'[q] = m
      /\ \A r \in Runs : r # q => manifest'[r] = manifest[r]
  BY <1>1, <1>4, WrittenAre
<1>9. ASSUME NEW r \in Runs, r # q
      PROVE  /\ Grounded(r, job[r], o, manifest'[r], ledger[r], head[r], made[r])
             /\ r \notin crossed => Settled(r, job[r], o, manifest'[r], ledger[r], passed[r])
  <2>1. /\ Grounded(r, job[r], job[Operator], manifest[r], ledger[r], head[r], made[r])
        /\ r \notin crossed =>
             Settled(r, job[r], job[Operator], manifest[r], ledger[r], passed[r])
    BY AtOperator DEF GroundedAt, SettledAt
  <2>2. manifest'[r] = manifest[r] /\ o.run # r
    BY <1>5, <1>8, <1>9
  <2> QED BY <2>1, <2>2, OperatorOff
<1>10. /\ Grounded(q, job[q], o, m, ledger[q], head[q], made[q])
       /\ q \notin crossed => Settled(q, job[q], o, m, ledger[q], passed[q])
  <2>1. /\ Grounded(q, job[q], job[Operator], manifest[q], ledger[q], head[q], made[q])
        /\ q \notin crossed =>
             Settled(q, job[q], job[Operator], manifest[q], ledger[q], passed[q])
    BY <1>4, AtOperator DEF GroundedAt, SettledAt
  <2>2. /\ m # Missing /\ m.iteration \in Nat /\ m.kept \in Nat
        /\ \A u \in Manifests : u.iteration \in Nat
    BY <1>4, ManifestIs, SpecialValues
  <2>3. Facing(job[q], "read") => Begun(job[q])
    <3>1. Facing(job[q], "read") => job[q].live /\ ~Facing(job[q], "found")
      BY <1>4, AtRun DEF Facing
    <3> QED BY <3>1 DEF Begun
  <2>4. /\ manifest[q] # Missing /\ head[q] <= made[q] /\ m.kept <= made[q]
        /\ job[q].live => job[q].m.kept <= made[q]
        /\ ~Facing(job[q], "found")
        /\ Begun(job[q]) => manifest[q] \in Manifests /\ m.iteration <= manifest[q].iteration
        /\ Facing(job[q], "read") => manifest[q].iteration < MaxIterations
        /\ Begun(job[q]) /\ Has(job[q].plan, Entering) => manifest[q].iteration <= job[q].m.iteration
    BY <1>7, <2>1 DEF Grounded
  <2>5. Begun(job[q]) /\ Has(job[q].plan, Entering) => m.iteration <= job[q].m.iteration
    <3>1. Begun(job[q]) => job[q].m \in Manifests
      BY <1>4, AtRun DEF Begun
    <3> QED BY <2>2, <2>4, <3>1
  <2>6. Facing(job[q], "read") => m.iteration < MaxIterations
    BY <2>2, <2>3, <2>4, SpecialValues
  <2>7. Grounded(q, job[q], o, m, ledger[q], head[q], made[q])
    BY <1>4, <1>5, <2>2, <2>4, <2>5, <2>6 DEF Grounded
  <2>8. ASSUME q \notin crossed PROVE Settled(q, job[q], o, m, ledger[q], passed[q])
    <3>1. /\ ~job[q].live /\ m.kept = manifest[q].kept /\ m.iteration = manifest[q].iteration
          /\ m.status # "failed" /\ Explains(ledger[q], manifest[q])
      BY <1>7, <2>1, <2>8 DEF Settled
    <3>2. Explains(ledger[q], m)
      BY <3>1 DEF Explains
    <3>3. ~Begun(job[q])
      BY <3>1 DEF Begun
    <3> QED BY <1>4, <1>5, <3>1, <3>2, <3>3 DEF Settled
  <2> QED BY <2>7, <2>8
<1>11. /\ \A r \in Runs : Grounded(r, job[r], o, manifest'[r], ledger[r], head[r], made[r])
       /\ \A r \in Runs \ crossed' :
            Settled(r, job[r], o, manifest'[r], ledger[r], passed[r])
  BY <1>1, <1>8, <1>9, <1>10
<1>12. /\ lock' \in Locks \cup UnreadableManifest
       /\ UNCHANGED <<ledger, head, made, passed>>
       /\ stops' \in 0 .. MaxStops /\ orders' \in 0 .. MaxOrders
       /\ crossed \subseteq crossed' /\ crossed' \subseteq Runs
  BY <1>1, FilesAre
<1> QED BY <1>4, <1>5, <1>6, <1>8, <1>11, <1>12, OperatorStep

\* a step that leaves the calls and the files alone
LEMMA StillKeeps ==
  ASSUME ResearchInv, job' = job, UNCHANGED <<files, passed, crossed>>,
         lock' \in Locks \cup UnreadableManifest,
         stops' \in 0 .. MaxStops, orders' \in 0 .. MaxOrders
  PROVE  ResearchInv'
<1>1. /\ manifest' = manifest /\ ledger' = ledger /\ head' = head /\ made' = made
      /\ passed' = passed /\ crossed' = crossed
  BY DEF files
<1>2. ResearchTyped' /\ Owning'
  BY <1>1 DEF ResearchInv, ResearchTyped, Owning
<1>3. ASSUME NEW r \in Runs PROVE (GroundedAt(r) => GroundedAt(r)') /\ (SettledAt(r) => SettledAt(r)')
  BY <1>1 DEF GroundedAt, SettledAt
<1> QED BY <1>1, <1>2, <1>3 DEF ResearchInv

LEMMA OrderIs ==
  ASSUME ResearchParameters, ResearchInv, Order
  PROVE  /\ job[Operator] = Off /\ orders' \in 0 .. MaxOrders
         /\ UNCHANGED <<files, passed, stops>> /\ stops' \in 0 .. MaxStops
<1>1. /\ orders \in 0 .. MaxOrders /\ stops \in 0 .. MaxStops /\ MaxOrders \in Nat
      /\ orders < MaxOrders /\ orders' = orders + 1 /\ stops' = stops
  BY SpecialValues DEF ResearchInv, ResearchTyped, Order
<1> QED BY <1>1 DEF Order

LEMMA StopKeeps ==
  ASSUME ResearchParameters, ResearchInv, Stop
  PROVE  ResearchInv'
<1> DEFINE r == lock.run
<1>1. /\ lock \notin UnreadableManifest /\ lock' = lock
      /\ job[Operator] = Off /\ orders' \in 0 .. MaxOrders
      /\ UNCHANGED <<files, passed, stops>> /\ stops' \in 0 .. MaxStops
  BY OrderIs DEF Stop
<1>2. lock \in Locks /\ r \in Runs \cup {Nobody} /\ lock' \in Locks \cup UnreadableManifest
  BY <1>1, LocksAre DEF Locks
<1>3. CASE /\ r = Nobody
           /\ job' = [job EXCEPT ![Operator] = [Off EXCEPT
                        !.plan = <<"open", "fill">>, !.copy = [lock EXCEPT !.active = FALSE]]]
           /\ UNCHANGED crossed
  <2> DEFINE plan == <<"open", "fill">>
             o == [Off EXCEPT !.plan = plan, !.copy = [lock EXCEPT !.active = FALSE]]
  <2>1. /\ plan \in Seq(Steps) /\ Linked(plan)
        /\ Has(plan, {"manifest"}) => "open" \in {"manifest"} \/ "fill" \in {"manifest"}
    <3>1. "open" \in Steps /\ "fill" \in Steps \ {"found", "read", "evaluate", "ledger"}
      BY DEF Steps
    <3> QED BY <3>1, ShortPlans
  <2>2. [lock EXCEPT !.active = FALSE] \in Locks
    BY <1>2 DEF Locks
  <2> HIDE DEF plan
  <2>3. o \in Jobs /\ o.run = Nobody /\ o.plan = plan
    BY <2>1, <2>2 DEF Off, Jobs
  <2>4. job' = [job EXCEPT ![Operator] = o]
    BY <1>3 DEF plan
  <2> HIDE DEF o
  <2>5. Linked(o.plan) /\ ~Has(o.plan, {"manifest"})
    BY <2>1, <2>3
  <2>6. UNCHANGED <<files, passed, stops, crossed>>
    BY <1>1, <1>3
  <2> QED BY <1>1, <1>2, <2>3, <2>4, <2>5, <2>6, OperatorGoes
<1>4. CASE /\ r # Nobody
           /\ manifest[r] \notin UnreadableManifest
           /\ manifest[r].status = "running"
           /\ job' = [job EXCEPT ![Operator] = [Off EXCEPT !.run = r, !.plan = Finalize,
                        !.m = [manifest[r] EXCEPT !.status = "stopped"]]]
           /\ crossed' = crossed \cup (IF job[r].live THEN {r} ELSE {})
  <2> DEFINE m == [manifest[r] EXCEPT !.status = "stopped"]
             o == [Off EXCEPT !.run = r, !.plan = Finalize, !.m = m]
  <2>1. r \in Runs /\ manifest[r] \in Manifests
    BY <1>2, <1>4, FilesAre
  <2>2. /\ m \in Manifests /\ m.kept = manifest[r].kept /\ m.iteration = manifest[r].iteration
        /\ m.status = "stopped" /\ m.iteration \in Nat
    <3>1. /\ m \in Manifests /\ m.kept = manifest[r].kept
          /\ m.iteration = manifest[r].iteration /\ m.status = "stopped"
      BY <2>1 DEF Manifests
    <3> QED BY <3>1, ManifestIs
  <2>3. job' = [job EXCEPT ![Operator] = o]
    BY <1>4
  <2> HIDE DEF m
  <2>4. o \in Jobs /\ o.run = r /\ o.plan = Finalize /\ o.m = m /\ Linked(o.plan)
    BY <2>1, <2>2, FinalizeIs DEF Off, Jobs
  <2> HIDE DEF o
  <2>5. /\ manifest' = manifest /\ ledger' = ledger /\ head' = head /\ made' = made
        /\ passed' = passed
        /\ manifest' \in [Runs -> Manifests \cup UnreadableManifest]
        /\ crossed \subseteq crossed' /\ crossed' \subseteq Runs
    BY <1>1, <1>4, <2>1, FilesAre DEF files
  <2> HIDE DEF r
  <2>6. ASSUME NEW q \in Runs, q # r
        PROVE  /\ Grounded(q, job[q], o, manifest'[q], ledger[q], head[q], made[q])
               /\ q \notin crossed' => Settled(q, job[q], o, manifest'[q], ledger[q], passed[q])
    <3>1. /\ Grounded(q, job[q], job[Operator], manifest[q], ledger[q], head[q], made[q])
          /\ q \notin crossed =>
               Settled(q, job[q], job[Operator], manifest[q], ledger[q], passed[q])
      BY AtOperator DEF GroundedAt, SettledAt
    <3>2. manifest'[q] = manifest[q] /\ o.run # q
      BY <2>4, <2>5, <2>6
    <3> QED BY <2>5, <3>1, <3>2, OperatorOff
  <2>7. /\ Grounded(r, job[r], job[Operator], manifest[r], ledger[r], head[r], made[r])
        /\ r \notin crossed =>
             Settled(r, job[r], job[Operator], manifest[r], ledger[r], passed[r])
    BY <2>1, AtOperator DEF GroundedAt, SettledAt
  <2>8. Grounded(r, job[r], o, manifest[r], ledger[r], head[r], made[r])
    <3>1. manifest[r] # Missing
      BY <2>1, SpecialValues
    <3> QED BY <2>1, <2>2, <2>4, <2>7, <3>1 DEF Grounded
  <2>9. r \notin crossed' => Settled(r, job[r], o, manifest[r], ledger[r], passed[r])
    <3>1. r \notin crossed' => r \notin crossed /\ ~job[r].live
      BY <1>4 DEF r
    <3>2. manifest[r].status # "failed"
      BY <1>4 DEF r
    <3> QED BY <2>1, <2>2, <2>4, <2>7, <3>1, <3>2 DEF Settled
  <2>10. /\ \A q \in Runs : Grounded(q, job[q], o, manifest'[q], ledger[q], head[q], made[q])
         /\ \A q \in Runs \ crossed' :
              Settled(q, job[q], o, manifest'[q], ledger[q], passed[q])
    BY <2>5, <2>6, <2>8, <2>9
  <2>11. UNCHANGED <<ledger, head, made, passed>> /\ o.m \in Manifests /\ o.run # Nobody
    BY <2>1, <2>2, <2>4, <2>5, SpecialValues
  <2> QED BY <1>1, <1>2, <2>3, <2>4, <2>5, <2>10, <2>11, OperatorStep
<1> QED BY <1>3, <1>4 DEF Stop

LEMMA ClearRunKeeps ==
  ASSUME ResearchParameters, ResearchInv, ClearRun
  PROVE  ResearchInv'
<1>1. lock' = Missing /\ job' = job /\ crossed' = crossed /\ Order
  BY DEF ClearRun
<1>2. lock' \in Locks \cup UnreadableManifest
  BY <1>1, LocksAre
<1> QED BY <1>1, <1>2, OrderIs, StillKeeps

LEMMA StoppedKeeps ==
  ASSUME ResearchParameters, ResearchInv, Stopped
  PROVE  ResearchInv'
BY OperatorDrops DEF Stopped

-----------------------------------------------------------------------------
(* Theorems *)

LEMMA ResearchBegins ==
  ASSUME ResearchParameters, ResearchInit
  PROVE  ResearchInv
<1>1. ResearchTyped
  BY OffIs, SpecialValues DEF ResearchInit, ResearchTyped, UnreadableManifest, Commits
<1>2. /\ Operator \in Actors /\ \A r \in Runs : r \in Actors
      /\ \A a \in Actors : job[a] = Off
  BY DEF ResearchInit, Actors
<1>3. Owning
  BY <1>2, OffIs DEF Owning
<1>4. ASSUME NEW r \in Runs PROVE GroundedAt(r) /\ SettledAt(r)
  <2>1. /\ job[r] = Off /\ job[Operator] = Off /\ manifest[r] = Missing /\ ledger[r] = Missing
        /\ head[r] = 0 /\ made[r] = 0 /\ Nobody # r /\ Missing \notin Manifests
    BY <1>2, SpecialValues DEF ResearchInit
  <2> QED BY <2>1, OffIs DEF GroundedAt, SettledAt, Grounded, Settled
<1> QED BY <1>1, <1>3, <1>4 DEF ResearchInv

LEMMA ResearchGoesOn ==
  ASSUME ResearchParameters, ResearchInv, [ResearchNext]_researchVars
  PROVE  ResearchInv'
<1>1. ASSUME NEW r \in Runs, Supervise(r) \/ KillRun(r) PROVE ResearchInv'
  BY <1>1, PrepareKeeps, FoundKeeps, CheckModeKeeps, ResumeKeeps, TakeKeeps, BaselineKeeps,
     SessionKeeps, ProcessKeeps, EvaluateKeeps, RecordKeeps, LeaveKeeps, KillKeeps, Zenon
     DEF Supervise
<1>2. ASSUME NEW a \in Actors, Read(a) \/ Release(a) \/ Open(a) \/ Fill(a) \/ WriteManifest(a)
      PROVE  ResearchInv'
  <2>1. CASE a \in Runs
    BY <1>2, <2>1, SupervisorReads, SupervisorReleases, SupervisorOpens, SupervisorFills,
       SupervisorWrites, Zenon
  <2>2. CASE a = Operator
    BY <1>2, <2>2, OperatorReads, OperatorReleases, OperatorOpens, OperatorWrites, Zenon
  <2> QED BY <2>1, <2>2 DEF Actors
<1>3. ASSUME UNCHANGED researchVars PROVE ResearchInv'
  BY <1>3, FilesAre, StillKeeps DEF researchVars, bookkeeping
<1> QED BY <1>1, <1>2, <1>3, StopKeeps, ClearRunKeeps, StoppedKeeps, Zenon DEF ResearchNext

LEMMA ResearchSays ==
  ASSUME ResearchParameters, ResearchInv
  PROVE  ResearchTypeOK /\ LedgerExplainsManifest
<1>1. ASSUME NEW r \in Runs
      PROVE  /\ manifest[r] \in Manifests \cup UnreadableManifest
             /\ ledger[r] \in LedgerEntries \cup UnreadableManifest
             /\ head[r] \in 0 .. made[r] /\ made[r] \in Commits
             /\ passed[r] \in (Commits \X Scores) \cup {<<>>}
  <2>1. head[r] \in Nat /\ made[r] \in Nat /\ head[r] <= made[r]
    BY FilesAre, SpecialValues DEF ResearchInv, GroundedAt, Grounded, Commits
  <2> QED BY <2>1, FilesAre
<1>2. \A a \in Actors : /\ job[a].m \in Manifests \cup {Missing}
                        /\ job[a].copy \in Locks \cup {Missing}
  BY DEF ResearchInv, ResearchTyped, Jobs
<1>3. ResearchTypeOK
  BY <1>1, <1>2 DEF ResearchInv, ResearchTyped, ResearchTypeOK
<1>4. ASSUME NEW r \in Runs \ crossed, {manifest[r], ledger[r]} \cap UnreadableManifest = {},
             manifest[r].status # "failed"
      PROVE  /\ ledger[r].iteration <= manifest[r].iteration + 1
             /\ ledger[r].iteration = manifest[r].iteration => ledger[r].kept = manifest[r].kept
  <2>1. manifest[r] \in Manifests /\ ledger[r] \in LedgerEntries
    BY <1>4, FilesAre
  <2>2. Explains(ledger[r], manifest[r])
    BY <1>4, <2>1 DEF ResearchInv, SettledAt, Settled
  <2> QED BY <2>1, <2>2 DEF Explains
<1> QED BY <1>3, <1>4 DEF LedgerExplainsManifest

\* a manifest that stays readable and changes is written by a call that holds it
LEMMA ManifestWritten ==
  ASSUME ResearchParameters, ResearchInv, ResearchNext, NEW r \in Runs,
         manifest[r] \notin UnreadableManifest, manifest'[r] \notin UnreadableManifest,
         manifest'[r] # manifest[r]
  PROVE  /\ crossed' = crossed
         /\ \E a \in Actors : At(a, "manifest") /\ job[a].run = r /\ manifest'[r] = job[a].m
<1>1. ASSUME UNCHANGED manifest PROVE FALSE
  BY <1>1
<1>2. ASSUME NEW q \in Runs, Found(q) PROVE FALSE
  <2>1. q # r
    <3>1. Facing(job[q], "found")
      BY <1>2 DEF Found, At, Facing
    <3>2. manifest[q] = Missing
      BY <3>1 DEF ResearchInv, GroundedAt, Grounded
    <3> QED BY <3>2 DEF UnreadableManifest
  <2>2. manifest' = [manifest EXCEPT ![q] = job[q].m]
    BY <1>2 DEF Found
  <2> QED BY <2>1, <2>2 DEF ResearchInv, ResearchTyped
<1>3. ASSUME NEW q \in Runs, KillRun(q) PROVE FALSE
  <2>1. manifest' = manifest \/ manifest' = [manifest EXCEPT ![q] = Unparsed]
    BY <1>3 DEF KillRun
  <2> QED BY <2>1 DEF ResearchInv, ResearchTyped, UnreadableManifest
<1>4. ASSUME NEW q \in Runs,
             \/ Prepare(q) \/ CheckMode(q) \/ Resume(q) \/ Take(q) \/ Baseline(q)
             \/ Session(q) \/ Process(q) \/ Evaluate(q) \/ Record(q) \/ Leave(q)
      PROVE  FALSE
  <2>1. UNCHANGED manifest
    BY <1>4 DEF Prepare, CheckMode, Resume, Take, Baseline, Session, Process, Evaluate, Record,
                Leave, files
  <2> QED BY <1>1, <2>1
<1>5. ASSUME NEW a \in Actors, Read(a) \/ Release(a) \/ Open(a) \/ Fill(a) PROVE FALSE
  <2>1. UNCHANGED manifest
    BY <1>5 DEF Read, Release, Open, Fill, files
  <2> QED BY <1>1, <2>1
<1>6. ASSUME Stop \/ ClearRun \/ Stopped PROVE FALSE
  <2>1. UNCHANGED manifest
    BY <1>6 DEF Stop, ClearRun, Stopped, Order, files
  <2> QED BY <1>1, <2>1
<1>7. ASSUME NEW a \in Actors, WriteManifest(a)
      PROVE  /\ crossed' = crossed
             /\ At(a, "manifest") /\ job[a].run = r /\ manifest'[r] = job[a].m
  <2>1. /\ At(a, "manifest") /\ manifest' = [manifest EXCEPT ![job[a].run] = job[a].m]
        /\ crossed' = crossed
    BY <1>7 DEF WriteManifest
  <2> QED BY <2>1 DEF ResearchInv, ResearchTyped
<1> QED BY <1>2, <1>3, <1>4, <1>5, <1>6, <1>7 DEF ResearchNext, Supervise

LEMMA KeptIsEarned ==
  ASSUME ResearchParameters, ResearchInv, [ResearchNext]_researchVars, NEW r \in Runs \ crossed',
         {manifest[r], manifest'[r]} \cap UnreadableManifest = {},
         manifest'[r].kept # manifest[r].kept
  PROVE  /\ passed[r] # <<>> /\ manifest'[r].kept = passed[r][1]
         /\ Policy = "score_improvement" =>
              passed[r][2] > manifest[r].score /\ manifest'[r].score = passed[r][2]
<1>1. ResearchNext
  BY DEF researchVars, files
<1>2. PICK a \in Actors : At(a, "manifest") /\ job[a].run = r /\ manifest'[r] = job[a].m
  BY <1>1, ManifestWritten
<1>3. SettledAt(r) /\ manifest[r] \in Manifests
  BY <1>1, FilesAre, ManifestWritten DEF ResearchInv
<1>4. CASE a = Operator
  BY <1>2, <1>3, <1>4 DEF SettledAt, Settled
<1>5. CASE a \in Runs
  <2>1. Head(job[a].plan) = "manifest" /\ job[a].plan # <<>>
    BY <1>2 DEF At
  <2>2. a = r /\ job[r].live /\ job[r].plan \in Seq(Steps) /\ Linked(job[r].plan)
    BY <1>2, <1>5, <2>1, AtRun
  <2>3. Begun(job[r]) /\ Has(job[r].plan, Entering)
    BY <2>1, <2>2, TailPlan DEF Begun, Facing, Entering
  <2>4. Earned(job[r].m, manifest[r], passed[r])
    BY <1>3, <2>3 DEF SettledAt, Settled
  <2> QED BY <1>2, <2>2, <2>4 DEF Earned
<1> QED BY <1>4, <1>5 DEF Actors

\* The parts of the research invariant hold of every state: a call's plan is one that the
\* code makes, a run under way has its manifest, and what a call holds of a run that was not
\* finalized or resumed beside its live supervisor follows from the run's files.
THEOREM ResearchInvariant == ASSUME ResearchParameters PROVE ResearchSpec => []ResearchInv
<1>1. ResearchInit => ResearchInv
  BY ResearchBegins
<1>2. ResearchInv /\ [ResearchNext]_researchVars => ResearchInv'
  BY ResearchGoesOn
<1> QED BY <1>1, <1>2, PTL DEF ResearchSpec

\* A state file, a manifest or a ledger holds nothing but what a call writes or a kill
\* leaves torn, and a worktree's HEAD is never a commit that was not made.
THEOREM ResearchTypes == ASSUME ResearchParameters PROVE ResearchSpec => []ResearchTypeOK
<1>1. ResearchInv => ResearchTypeOK
  BY ResearchSays
<1> QED BY <1>1, ResearchInvariant, PTL

\* However many runs, kills, resumes, stops and clears there are, the last entry of a run's
\* ledger explains its manifest, unless the run was finalized or resumed beside a live
\* supervisor of its own, or failed.
THEOREM LedgersExplain == ASSUME ResearchParameters PROVE ResearchSpec => []LedgerExplainsManifest
<1>1. ResearchInv => LedgerExplainsManifest
  BY ResearchSays
<1> QED BY <1>1, ResearchInvariant, PTL

\* A step that changes what a manifest keeps keeps the commit that the evaluator passed last,
\* under score_improvement with a better score than what was kept before.
THEOREM KeptWasEarned == ASSUME ResearchParameters PROVE ResearchSpec => KeepsOnlyBetter
<1> DEFINE Keeping == \A r \in Runs \ crossed' :
       {manifest[r], manifest'[r]} \cap UnreadableManifest = {} /\ manifest'[r].kept # manifest[r].kept =>
         /\ passed[r] # <<>> /\ manifest'[r].kept = passed[r][1]
         /\ Policy = "score_improvement" =>
              passed[r][2] > manifest[r].score /\ manifest'[r].score = passed[r][2]
<1>1. ResearchInv /\ [ResearchNext]_researchVars => [Keeping]_researchVars
  BY KeptIsEarned
<1> QED BY <1>1, ResearchInvariant, PTL DEF ResearchSpec, KeepsOnlyBetter
=============================================================================
