--------------------------- MODULE TeamLifecycle ---------------------------
(***************************************************************************)
(* One team's directory and its workers under start_team (runtime_start)   *)
(* and shutdown_team (runtime_shutdown), called by several processes.      *)
(*                                                                         *)
(* The workers of an interactive team are panes of the leader's own tmux   *)
(* window; those of a prompt team are child processes.  The only record of *)
(* either is config.json.  No call takes a lock.  Worktrees are left out:  *)
(* start_team passes plan_worktree_target arguments it does not take, so a *)
(* team that asks for them fails before anything has been made.  Workers   *)
(* that end by themselves change no decision and are left out too.         *)
(*                                                                         *)
(* Killing a pane and removing the directory are best effort: tmux's and   *)
(* the file system's refusals are ignored, and the call goes on.           *)
(***************************************************************************)
EXTENDS Naturals, FiniteSets

CONSTANTS
  Procs,      \* the processes that call
  Team,       \* the names of the team's workers
  Absent,     \* config.json does not exist
  Torn,       \* config.json does not parse
  MaxAgents,  \* bound: panes ever split
  MaxStarts,  \* bound: calls of start_team
  MaxStops,   \* bound: calls of shutdown_team
  MaxFaults   \* bound: processes killed or interrupted in the middle of a call

Agents == 1 .. MaxAgents

LifeParameters ==
  /\ Absent # Torn /\ \A s \in SUBSET Agents : s \notin {Absent, Torn}
  /\ IsFiniteSet(Team)
  /\ \A bound \in {MaxAgents, MaxStarts, MaxStops, MaxFaults} : bound \in Nat

VARIABLES
  dir,       \* the team's directory exists
  config,    \* config.json: the panes it names
  manifest,  \* manifest.v2.json exists
  panes,     \* the interactive workers that live
  children,  \* prompt workers live: nothing ends them
  answer,    \* the workers' shutdown-ack.json
  asked,     \* the workers that have found a shutdown request
  call,      \* what each process is doing
  born,      \* how many panes have been split
  starts,    \* how many start_teams have begun
  clock,     \* how many shutdown_teams have begun: the date of an answer
  adrift,    \* history: panes left by a call that was killed or interrupted, or that
             \* could not end them or did not learn their ids
  crossed,   \* history: a start overlapped with another call
  faults     \* history: kills and interrupts so far

teamFiles == <<dir, config, manifest>>
agents    == <<panes, children, born>>
talk      == <<answer, asked>>
count     == <<starts, clock, faults>>
lifeVars  == <<teamFiles, agents, talk, call, count, adrift, crossed>>

NoAnswer == [date |-> 0, says |-> "nothing"]

\* mine: the panes this start split; left: how many workers it has still to launch;
\* cfg: its copy of the panes in config.json; date: that of its shutdown requests;
\* unasked: the workers it could not write one to; kept: its removal of the directory
\* left files (nobody is told)
NoCall == [at |-> "idle", mode |-> "interactive", mine |-> {}, left |-> 0, cfg |-> {},
           force |-> FALSE, date |-> 0, unasked |-> {}, kept |-> FALSE]

Starting == {"clean", "config", "manifest", "read", "launch", "save", "saving", "ready",
             "resave", "resaving", "rollback", "unhook", "unhooking", "kill", "wipe", "failed"}
Stopping == {"ask", "drain", "tear down", "finish", "sweep", "stopped"}

Calls ==
  [at : {"idle"} \cup Starting \cup Stopping, mode : {"interactive", "prompt"},
   mine : SUBSET Agents, left : Nat, cfg : SUBSET Agents,
   force : BOOLEAN, date : 0 .. MaxStops, unasked : SUBSET Team, kept : BOOLEAN]

Answers == [date : 0 .. MaxStops, says : {"nothing", "accept", "reject"}]

LifeInit ==
  /\ dir = FALSE /\ config = Absent /\ manifest = FALSE
  /\ panes = {} /\ children = FALSE /\ born = 0
  /\ answer = [w \in Team |-> NoAnswer] /\ asked = {}
  /\ call = [p \in Procs |-> NoCall]
  /\ starts = 0 /\ clock = 0 /\ faults = 0
  /\ adrift = {} /\ crossed = FALSE

-----------------------------------------------------------------------------
Go(p, c) == call' = [call EXCEPT ![p] = c]
GoTo(p, place) == Go(p, IF place = "idle" THEN NoCall ELSE [call[p] EXCEPT !.at = place])

Busy(p) == call[p].at # "idle"

\* write_text of config.json empties it first; the directory is made if it is missing
Open(p, from, to) ==
  /\ call[p].at = from
  /\ dir' = TRUE /\ config' = Torn
  /\ GoTo(p, to)
  /\ UNCHANGED <<manifest, agents, talk, count, adrift, crossed>>

Fill(p, from, to) ==
  /\ call[p].at = from
  /\ dir' = TRUE /\ config' = call[p].cfg
  /\ GoTo(p, to)
  /\ UNCHANGED <<manifest, agents, talk, count, adrift, crossed>>

\* the end of a removal
Removed(p, to, kept) ==
  \E place \in to :
    Go(p, IF place = "idle" THEN NoCall ELSE [call[p] EXCEPT !.at = place, !.kept = kept])

Forgotten == answer' = [w \in Team |-> NoAnswer] /\ asked' = {}

\* cleanup_team_state: rmtree takes one file at a time, in any order, and passes over what
\* it cannot remove
Remove(p, from, to) ==
  /\ call[p].at = from
  /\ \/ /\ config # Absent /\ config' = Absent
        /\ UNCHANGED <<dir, manifest, talk, call>>
     \/ /\ manifest /\ manifest' = FALSE
        /\ UNCHANGED <<dir, config, talk, call>>
     \/ /\ dir' = FALSE /\ config' = Absent /\ manifest' = FALSE /\ Forgotten
        /\ Removed(p, to, FALSE)
     \/ /\ Forgotten \/ UNCHANGED talk
        /\ Removed(p, to, TRUE)
        /\ UNCHANGED teamFiles
  /\ UNCHANGED <<agents, count, adrift, crossed>>

\* one pane is killed, or tmux does not do it, and nobody is told
Kill(a) ==
  \/ panes' = panes \ {a} /\ UNCHANGED adrift
  \/ adrift' = adrift \cup {a} /\ UNCHANGED panes

-----------------------------------------------------------------------------
\* _assert_team_startup_is_non_destructive: a config that parses, or a manifest.  The
\* phase it also looks at is in a file of another name.
Refused == manifest \/ config \notin {Absent, Torn}

\* what is left of an earlier team goes if git answers (_detect_and_clean_stale_team)
Start(p, mode) ==
  /\ ~Busy(p) /\ starts < MaxStarts
  /\ ~Refused
  /\ \E cleans \in BOOLEAN :
       Go(p, [NoCall EXCEPT !.at = IF dir /\ cleans THEN "clean" ELSE "config",
                            !.mode = mode, !.left = Cardinality(Team)])
  /\ starts' = starts + 1
  /\ crossed' = (crossed \/ \E q \in Procs : Busy(q))
  /\ UNCHANGED <<teamFiles, agents, talk, clock, faults, adrift>>

\* a start that wants worktrees goes no further than this
Clean(p) == Remove(p, "clean", {"config", "idle"})

\* init_team_state writes both files with write_atomic
InitConfig(p) ==
  /\ call[p].at = "config"
  /\ dir' = TRUE /\ config' = {}
  /\ GoTo(p, "manifest")
  /\ UNCHANGED <<manifest, agents, talk, count, adrift, crossed>>

InitManifest(p) ==
  /\ call[p].at = "manifest"
  /\ dir' = TRUE /\ manifest' = TRUE
  /\ GoTo(p, "read")
  /\ UNCHANGED <<config, agents, talk, count, adrift, crossed>>

\* _read_team_config_dict
ReadConfig(p) ==
  /\ call[p].at = "read"
  /\ IF config \in {Absent, Torn} THEN Go(p, [NoCall EXCEPT !.at = "wipe"])
     ELSE Go(p, [call[p] EXCEPT !.at = "launch", !.cfg = config])
  /\ UNCHANGED <<teamFiles, agents, talk, count, adrift, crossed>>

-----------------------------------------------------------------------------
Launched(p, mine) ==
  /\ call[p].left > 0
  /\ Go(p, [call[p] EXCEPT !.mine = mine, !.left = @ - 1])

\* create_team_session splits the leader's window once for each worker
Split(p) ==
  /\ call[p].at = "launch" /\ call[p].mode = "interactive"
  /\ born < MaxAgents /\ born' = born + 1
  /\ panes' = panes \cup {born + 1}
  /\ Launched(p, call[p].mine \cup {born + 1})
  /\ UNCHANGED <<teamFiles, children, talk, count, adrift, crossed>>

\* _spawn_prompt_worker; without a process its pid is None and the start goes on
Spawn(p) ==
  /\ call[p].at = "launch" /\ call[p].mode = "prompt"
  /\ children' \in {children, TRUE}
  /\ Launched(p, {})
  /\ UNCHANGED <<teamFiles, panes, born, talk, count, adrift, crossed>>

\* the session's panes go into the config
Created(p) ==
  /\ call[p].at = "launch" /\ call[p].left = 0
  /\ Go(p, [call[p] EXCEPT !.at = "save", !.cfg = call[p].mine])
  /\ UNCHANGED <<teamFiles, agents, talk, count, adrift, crossed>>

\* create_team_session kills what it has split and raises, which it also does when tmux
\* has split the window and does not tell the pane's id
SplitFails(p) ==
  LET mine == call[p].mine
  IN  /\ call[p].at = "launch" /\ call[p].mode = "interactive"
      /\ \E missed \in SUBSET (mine \cap panes), unknown \in SUBSET {born + 1} :
           /\ unknown # {} => call[p].left > 0 /\ born < MaxAgents
           /\ born' = born + Cardinality(unknown)
           /\ panes' = (panes \ mine) \cup missed \cup unknown
           /\ adrift' = adrift \cup missed \cup unknown
      /\ Go(p, [NoCall EXCEPT !.at = "wipe"])
      /\ UNCHANGED <<teamFiles, children, talk, count, crossed>>

\* Ctrl-C is not an Exception: create_team_session does not clean up, and start_team
\* does not know of a session yet
SplitInterrupted(p) ==
  /\ call[p].at = "launch" /\ call[p].mode = "interactive"
  /\ faults < MaxFaults /\ faults' = faults + 1
  /\ adrift' = adrift \cup call[p].mine
  /\ Go(p, [NoCall EXCEPT !.at = "wipe"])
  /\ UNCHANGED <<teamFiles, agents, talk, starts, clock, crossed>>

\* the workers' identities, then config.json
OpenSave(p) == Open(p, "save", "saving")
FillSave(p) == Fill(p, "saving", "ready")

\* every worker had its instructions at launch, or is late but lives
Ready(p) ==
  /\ call[p].at = "ready"
  /\ GoTo(p, "resave")
  /\ UNCHANGED <<teamFiles, agents, talk, count, adrift, crossed>>

OpenResave(p) == Open(p, "resave", "resaving")
FillResave(p) == Fill(p, "resaving", "idle")

-----------------------------------------------------------------------------
\* anything in the try block may raise, and so may Ctrl-C outside create_team_session
Fail(p) ==
  /\ \/ call[p].at \in {"config", "manifest", "read", "save", "saving", "ready", "resave", "resaving"}
     \/ call[p].at = "launch" /\ call[p].mode = "prompt"
  /\ Go(p, [call[p] EXCEPT !.at = "rollback", !.left = 0])
  /\ UNCHANGED <<teamFiles, agents, talk, count, adrift, crossed>>

\* mutant of Rollback: the panes are taken for the children's
RollbackNot(p) ==
  /\ call[p].at = "rollback"
  /\ GoTo(p, "wipe")
  /\ UNCHANGED <<teamFiles, agents, talk, count, adrift, crossed>>

\* session_created: only an interactive team has anything to undo besides the files
Rollback(p) ==
  /\ call[p].at = "rollback"
  /\ GoTo(p, IF call[p].mode = "interactive" /\ call[p].mine # {} THEN "unhook" ELSE "wipe")
  /\ UNCHANGED <<teamFiles, agents, talk, count, adrift, crossed>>

\* the resize hook is taken out of the config, which is written once more
OpenUnhook(p) == Open(p, "unhook", "unhooking")
FillUnhook(p) == Fill(p, "unhooking", "kill")

\* an error of this write is noted and swallowed
UnhookFails(p) ==
  /\ call[p].at \in {"unhook", "unhooking"}
  /\ GoTo(p, "kill")
  /\ UNCHANGED <<teamFiles, agents, talk, count, adrift, crossed>>

KillMine(p) ==
  /\ call[p].at = "kill"
  /\ \/ \E a \in call[p].mine \cap panes : Kill(a) /\ UNCHANGED call
     \/ call[p].mine \cap panes \subseteq adrift /\ GoTo(p, "wipe") /\ UNCHANGED <<panes, adrift>>
  /\ UNCHANGED <<teamFiles, children, born, talk, count, crossed>>

Wipe(p) == Remove(p, "wipe", {"failed"})

Raise(p) ==
  /\ call[p].at = "failed"
  /\ Go(p, NoCall)
  /\ UNCHANGED <<teamFiles, agents, talk, count, adrift, crossed>>

-----------------------------------------------------------------------------
\* shutdown_team reads config.json; one that does not parse raises
Stop(p, force) ==
  /\ ~Busy(p) /\ clock < MaxStops
  /\ dir /\ config # Torn
  /\ clock' = clock + 1
  /\ IF config = Absent
     THEN Go(p, [NoCall EXCEPT !.at = "sweep"])
     ELSE Go(p, [NoCall EXCEPT !.at = "ask", !.cfg = config, !.force = force,
                               !.date = clock + 1])
  /\ crossed' = (crossed \/ \E q \in Procs : call[q].at \in Starting)
  /\ UNCHANGED <<teamFiles, agents, talk, starts, faults, adrift>>

\* _send_shutdown_inboxes: what fails for one worker is swallowed
AskWorker(p) ==
  /\ call[p].at = "ask"
  /\ \E failed \in SUBSET Team :
       /\ asked' = asked \cup (Team \ failed)
       /\ dir' = (dir \/ failed # Team)
       /\ Go(p, [call[p] EXCEPT !.at = "drain", !.unasked = failed])
  /\ UNCHANGED <<config, manifest, agents, answer, count, adrift, crossed>>

\* mutant of Heeds: read_shutdown_ack without its minimum date
HeedsAny(c, w) == answer[w].says # "nothing"

\* without a request there is no minimum date
Heeds(c, w) ==
  answer[w].says # "nothing" /\ (w \in c.unasked \/ answer[w].date >= c.date)

Rejected(c) == \E w \in Team : Heeds(c, w) /\ answer[w].says = "reject"

\* the rounds of _wait_for_drain: a rejection ends a call without force; otherwise the
\* last round is the one that finds no live pane or the deadline passed
Poll(p) ==
  /\ call[p].at = "drain"
  /\ IF Rejected(call[p]) /\ ~call[p].force THEN Go(p, NoCall)
     ELSE Go(p, [NoCall EXCEPT !.at = "tear down", !.cfg = call[p].cfg])
  /\ UNCHANGED <<teamFiles, agents, talk, count, adrift, crossed>>

\* mutant of TearDown: the panes are left to themselves
TearDownSome(p) ==
  /\ call[p].at = "tear down"
  /\ GoTo(p, "finish")
  /\ UNCHANGED <<teamFiles, agents, talk, count, adrift, crossed>>

\* kill_worker, pane by pane
TearDown(p) ==
  /\ call[p].at = "tear down"
  /\ \/ \E a \in call[p].cfg \cap panes : Kill(a) /\ UNCHANGED call
     \/ /\ call[p].cfg \cap panes \subseteq adrift
        /\ Go(p, [NoCall EXCEPT !.at = "finish"])
        /\ UNCHANGED <<panes, adrift>>
  /\ UNCHANGED <<teamFiles, children, born, talk, count, crossed>>

\* the terminal phase and the leader's attention
Finish(p) ==
  /\ call[p].at = "finish"
  /\ dir' = TRUE
  /\ GoTo(p, "sweep")
  /\ UNCHANGED <<config, manifest, agents, talk, count, adrift, crossed>>

Sweep(p) == Remove(p, "sweep", {"stopped"})

Return(p) ==
  /\ call[p].at = "stopped"
  /\ Go(p, NoCall)
  /\ UNCHANGED <<teamFiles, agents, talk, count, adrift, crossed>>

-----------------------------------------------------------------------------
\* a worker answers the request it has found, and dates the answer
Answer(w) ==
  /\ dir /\ w \in asked /\ (panes # {} \/ children)
  /\ asked' = asked \ {w}
  /\ \E says \in {"accept", "reject"} : answer' = [answer EXCEPT ![w] = [date |-> clock, says |-> says]]
  /\ UNCHANGED <<teamFiles, agents, call, count, adrift, crossed>>

Named == IF config \in {Absent, Torn} THEN {} ELSE config

\* the process of a call is killed: what it launched and has not recorded is adrift
KillCall(p) ==
  /\ Busy(p) /\ faults < MaxFaults
  /\ faults' = faults + 1
  /\ adrift' = adrift \cup ((call[p].mine \cap panes) \ Named)
  /\ Go(p, NoCall)
  /\ UNCHANGED <<teamFiles, agents, talk, starts, clock, crossed>>

StartStep(p) ==
  \/ Clean(p) \/ InitConfig(p) \/ InitManifest(p) \/ ReadConfig(p)
  \/ Split(p) \/ Spawn(p) \/ Created(p) \/ SplitFails(p) \/ SplitInterrupted(p)
  \/ OpenSave(p) \/ FillSave(p) \/ Ready(p) \/ OpenResave(p) \/ FillResave(p)
  \/ Fail(p) \/ Rollback(p) \/ OpenUnhook(p) \/ FillUnhook(p) \/ UnhookFails(p)
  \/ KillMine(p) \/ Wipe(p) \/ Raise(p)

StopStep(p) ==
  \/ AskWorker(p) \/ Poll(p) \/ TearDown(p) \/ Finish(p) \/ Sweep(p) \/ Return(p)

LifeNext ==
  \/ \E p \in Procs :
       \/ \E mode \in {"interactive", "prompt"} : Start(p, mode)
       \/ \E force \in BOOLEAN : Stop(p, force)
       \/ StartStep(p) \/ StopStep(p) \/ KillCall(p)
  \/ \E w \in Team : Answer(w)

LifeSpec == LifeInit /\ [][LifeNext]_lifeVars

-----------------------------------------------------------------------------
\* Every variable has its type.
LifeTypeOK ==
  /\ dir \in BOOLEAN /\ manifest \in BOOLEAN
  /\ config \in {Absent, Torn} \cup SUBSET Agents
  /\ panes \in SUBSET Agents /\ children \in BOOLEAN /\ adrift \in SUBSET Agents
  /\ answer \in [Team -> Answers]
  /\ asked \in SUBSET Team
  /\ call \in [Procs -> Calls]
  /\ born \in 0 .. MaxAgents /\ starts \in 0 .. MaxStarts /\ clock \in 0 .. MaxStops
  /\ faults \in 0 .. MaxFaults /\ crossed \in BOOLEAN

\* Unless a start has overlapped with another call, a living pane is named by config.json
\* or held by the start that split it, however starts and shutdowns fail and whatever of
\* the directory could not be removed.  The exceptions are those of "adrift": a kill or
\* Ctrl-C before the config was written, a pane whose id was not captured, and a kill that
\* tmux did not carry out.  A start that finds no config and no manifest therefore meets no
\* other live pane of that name (runtime_start.py 445-484, 1082-1156, 1265-1356).
NoStrayPane ==
  ~crossed => \A a \in panes \ adrift : a \in Named \/ \E p \in Procs : a \in call[p].mine

\* A start that raises has tried to kill every pane whose id it had, whoever else was
\* calling, and left alone none that tmux would have killed.  One that no other call met,
\* and a shutdown whatever shutdowns and kills went before it or run beside it, leave no
\* team: no pane but those adrift and, if every file could be removed, no config and no
\* manifest (runtime_start.py 1265-1356, runtime_shutdown.py 440-518).
LeavesNothing ==
  \A p \in Procs :
    /\ call[p].at = "failed" => call[p].mine \cap panes \subseteq adrift
    /\ call[p].at \in {"failed", "stopped"} /\ ~crossed =>
         /\ panes \subseteq adrift
         /\ ~call[p].kept => config = Absent /\ ~manifest
    /\ call[p].at = "failed" /\ ~crossed /\ ~call[p].kept => ~dir

GivesUp(p) == call[p].at = "drain" /\ call'[p].at = "idle" /\ faults' = faults

\* A shutdown is refused only by a worker that has rejected since the call asked it, not by
\* what is left of an earlier call, unless its request could not be written
\* (runtime_shutdown.py 141-254, state/shutdown.py 136-178).
RefusalIsCurrent ==
  [][\A p \in Procs : GivesUp(p) =>
       \E w \in Team :
         /\ answer[w].says = "reject"
         /\ answer[w].date >= call[p].date \/ w \in call[p].unasked]_lifeVars
=============================================================================
