------------------------ MODULE TeamLifecycleProofs -------------------------
(***************************************************************************)
(* What a start and a shutdown leave behind, for any number of processes,  *)
(* workers and calls.                                                      *)
(*                                                                         *)
(* The argument for NoStrayPane: as long as no start has overlapped with   *)
(* another call, a start that is under way is alone and answers for every  *)
(* pane that is not adrift (Alone, Tracked), so the files may be torn and  *)
(* removed beside it; when it returns, its copy of the config names them   *)
(* all.  A shutdown holds the panes the config named until it has ended    *)
(* them or set them adrift (Drained), whatever other shutdowns do.         *)
(***************************************************************************)
EXTENDS TeamLifecycle, FiniteSetTheorems, TLAPS

\* the stages of a start in which it has not split a pane yet
Early == {"clean", "config", "manifest", "read"}

\* those in which its copy of the config names the panes it has split
Copied == {"save", "saving", "ready", "resave", "resaving"}

\* those in which it has ended them, or set them adrift
Ended == {"wipe", "failed"}

Waits == {"ask", "drain", "tear down"}
Drained == {"finish", "sweep", "stopped"}

\* a start under way is alone
Alone ==
  ~crossed => \A p, q \in Procs : p # q /\ call[p].at \in Starting => ~Busy(q)

\* the panes a call answers for; loose: those that live and are not adrift
Owns(c, loose, n) ==
  /\ c.mine \subseteq 1 .. n
  /\ c.at \in {"idle"} \cup Early \cup Stopping => c.mine = {}
  /\ c.mode = "prompt" => c.mine = {}
  /\ c.at \in Copied => c.cfg = c.mine
  /\ c.at \in Ended => c.mine \cap loose = {}

Owned ==
  /\ panes \subseteq 1 .. born
  /\ \A p \in Procs : Owns(call[p], panes \ adrift, born)

\* the panes that live beside those adrift, by the stage of a call
Tracks(c, loose) ==
  /\ c.at \in Starting => loose \subseteq c.mine
  /\ c.at \in Waits => loose \subseteq c.cfg
  /\ c.at \in Drained => loose = {}

Tracked ==
  ~crossed => \A p \in Procs : Tracks(call[p], panes \ adrift)

\* a shutdown that could remove every file has left none of a team, nor has a failed start
Wiped ==
  ~crossed => \A p \in Procs : ~call[p].kept =>
    /\ call[p].at \in {"stopped", "failed"} => config = Absent /\ ~manifest
    /\ call[p].at = "failed" => ~dir

IInv == LifeTypeOK /\ Alone /\ Owned /\ Tracked /\ Wiped /\ NoStrayPane

\* a call that changes affects no other
LEMMA GoIs ==
  ASSUME call \in [Procs -> Calls], NEW p \in Procs, NEW c \in Calls, Go(p, c)
  PROVE  /\ call' \in [Procs -> Calls]
         /\ call'[p] = c
         /\ \A q \in Procs : q # p => call'[q] = call[q]
  BY DEF Go

\* the bounds are natural numbers, so zero is within them
LEMMA BoundsAreNat ==
  ASSUME LifeParameters
  PROVE  MaxAgents \in Nat /\ MaxStarts \in Nat /\ MaxStops \in Nat /\ MaxFaults \in Nat
  BY DEF LifeParameters

\* before anybody has answered
LEMMA NoAnswerType ==
  ASSUME LifeParameters
  PROVE  [w \in Team |-> NoAnswer] \in [Team -> Answers]
<1>1. 0 \in 0 .. MaxStops
  BY BoundsAreNat
<1> QED
  BY <1>1 DEF NoAnswer, Answers

\* a team is finite, so its size is a number
LEMMA LeftType ==
  ASSUME NEW c \in Calls, c.left > 0
  PROVE  c.left - 1 \in Nat
<1>1. c.left \in Nat
  BY DEF Calls
<1> QED
  BY <1>1

\* nobody at work
LEMMA NoCallType == LifeParameters => NoCall \in Calls
  BY DEF NoCall, Calls, LifeParameters

\* in GoTo only the stage changes
LEMMA GoToIs ==
  ASSUME LifeParameters, call \in [Procs -> Calls], NEW p \in Procs,
         NEW place \in Starting \cup Stopping, GoTo(p, place)
  PROVE  /\ call' \in [Procs -> Calls]
         /\ call'[p] = [call[p] EXCEPT !.at = place]
         /\ call'[p].at = place /\ call'[p].mine = call[p].mine /\ call'[p].cfg = call[p].cfg
         /\ call'[p].mode = call[p].mode
         /\ \A q \in Procs : q # p => call'[q] = call[q]
<1> DEFINE c == [call[p] EXCEPT !.at = place]
<1>1. c \in Calls
  BY DEF Calls
<1>2. Go(p, c)
  BY DEF GoTo, Starting, Stopping
<1>3. c.at = place /\ c.mine = call[p].mine /\ c.cfg = call[p].cfg /\ c.mode = call[p].mode
  BY DEF Calls
<1> HIDE DEF c
<1>4. /\ call' \in [Procs -> Calls]
      /\ call'[p] = c
      /\ \A q \in Procs : q # p => call'[q] = call[q]
  BY <1>1, <1>2, GoIs
<1> QED
  BY <1>3, <1>4 DEF c

\* at the end of a removal, the stage and the report of it
LEMMA RemovedIs ==
  ASSUME LifeParameters, call \in [Procs -> Calls], NEW p \in Procs,
         NEW place \in Starting \cup Stopping, NEW kept \in BOOLEAN,
         Go(p, [call[p] EXCEPT !.at = place, !.kept = kept])
  PROVE  /\ call' \in [Procs -> Calls]
         /\ call'[p].at = place /\ call'[p].mine = call[p].mine /\ call'[p].cfg = call[p].cfg
         /\ call'[p].mode = call[p].mode /\ call'[p].kept = kept
         /\ \A q \in Procs : q # p => call'[q] = call[q]
<1> DEFINE c == [call[p] EXCEPT !.at = place, !.kept = kept]
<1>1. /\ c \in Calls
      /\ c.at = place /\ c.mine = call[p].mine /\ c.cfg = call[p].cfg /\ c.mode = call[p].mode
      /\ c.kept = kept
  BY DEF Calls
<1>2. Go(p, c)
  OBVIOUS
<1> HIDE DEF c
<1> QED
  BY <1>1, <1>2, GoIs

\* one kill ends the pane or sets it adrift
LEMMA KillIs ==
  ASSUME NEW a \in Agents, Kill(a), LifeTypeOK
  PROVE  /\ panes' \subseteq panes /\ adrift' \in SUBSET Agents
         /\ panes' \ adrift' \subseteq panes \ adrift
  BY DEF Kill, LifeTypeOK

\* and a call that ends leaves nothing behind
LEMMA GoIdle ==
  ASSUME LifeParameters, call \in [Procs -> Calls], NEW p \in Procs, Go(p, NoCall)
  PROVE  /\ call' \in [Procs -> Calls]
         /\ call'[p] = NoCall
         /\ call'[p].at = "idle" /\ call'[p].mine = {} /\ call'[p].cfg = {}
         /\ call'[p].mode = "interactive"
         /\ \A q \in Procs : q # p => call'[q] = call[q]
  BY NoCallType, GoIs DEF NoCall

\* a call that ends no pane and adds none: only what it answers for is in question
LEMMA OwnedPasses ==
  ASSUME Owned, NEW p \in Procs, panes' = panes, adrift' = adrift, born' = born,
         \A q \in Procs : q # p => call'[q] = call[q],
         Owns(call'[p], panes \ adrift, born)
  PROVE  Owned'
BY DEF Owned

\* InitConfig keeps the invariant
LEMMA InitConfigKeeps ==
  ASSUME LifeParameters, IInv, NEW p \in Procs, InitConfig(p)
  PROVE  IInv'
<1>1. /\ call' \in [Procs -> Calls]
      /\ call'[p].at = "manifest"
      /\ call'[p].mine = call[p].mine /\ call'[p].mode = call[p].mode
      /\ call'[p].cfg = call[p].cfg
      /\ \A q \in Procs : q # p => call'[q] = call[q]
  BY GoToIs DEF InitConfig, Starting, Stopping, IInv, LifeTypeOK
<1>2. LifeTypeOK'
  BY <1>1, BoundsAreNat DEF InitConfig, IInv, LifeTypeOK, agents, talk, count
<1>3. Alone'
  BY <1>1 DEF InitConfig, IInv, Alone, Busy, Starting
<1>4. Owned'
  BY <1>1 DEF InitConfig, agents, IInv, Owned, Owns, Early, Copied
<1>5. Tracked'
  BY <1>1 DEF InitConfig, agents, IInv, Tracked, Tracks, Starting, Waits, Drained
<1>6. Wiped'
  BY <1>1 DEF InitConfig, IInv, Alone, Busy, Wiped, Starting
<1>7. NoStrayPane'
  BY <1>1, <1>5 DEF InitConfig, IInv, NoStrayPane, Tracked, Tracks, Starting
<1> QED
  BY <1>2, <1>3, <1>4, <1>5, <1>6, <1>7 DEF IInv

\* InitManifest keeps the invariant
LEMMA InitManifestKeeps ==
  ASSUME LifeParameters, IInv, NEW p \in Procs, InitManifest(p)
  PROVE  IInv'
<1>1. /\ call' \in [Procs -> Calls]
      /\ call'[p].at = "read"
      /\ call'[p].mine = call[p].mine /\ call'[p].mode = call[p].mode
      /\ call'[p].cfg = call[p].cfg
      /\ \A q \in Procs : q # p => call'[q] = call[q]
  BY GoToIs DEF InitManifest, Starting, Stopping, IInv, LifeTypeOK
<1>2. LifeTypeOK'
  BY <1>1, BoundsAreNat DEF InitManifest, IInv, LifeTypeOK, agents, talk, count
<1>3. Alone'
  BY <1>1 DEF InitManifest, IInv, Alone, Busy, Starting
<1>4. Owned'
  BY <1>1 DEF InitManifest, agents, IInv, Owned, Owns, Early, Copied
<1>5. Tracked'
  BY <1>1 DEF InitManifest, agents, IInv, Tracked, Tracks, Starting, Waits, Drained
<1>6. Wiped'
  BY <1>1 DEF InitManifest, IInv, Alone, Busy, Wiped, Starting
<1>7. NoStrayPane'
  BY <1>1, <1>5 DEF InitManifest, agents, IInv, NoStrayPane, Named
<1> QED
  BY <1>2, <1>3, <1>4, <1>5, <1>6, <1>7 DEF IInv

\* Ready keeps the invariant
LEMMA ReadyKeeps ==
  ASSUME LifeParameters, IInv, NEW p \in Procs, Ready(p)
  PROVE  IInv'
<1>1. /\ call' \in [Procs -> Calls]
      /\ call'[p].at = "resave"
      /\ call'[p].mine = call[p].mine /\ call'[p].mode = call[p].mode
      /\ call'[p].cfg = call[p].cfg
      /\ \A q \in Procs : q # p => call'[q] = call[q]
  BY GoToIs DEF Ready, Starting, Stopping, IInv, LifeTypeOK
<1>2. LifeTypeOK'
  BY <1>1, BoundsAreNat DEF Ready, IInv, LifeTypeOK, teamFiles, agents, talk, count
<1>3. Alone'
  BY <1>1 DEF Ready, IInv, Alone, Busy, Starting
<1>4. Owned'
  <2>1. Owned /\ Owns(call[p], panes \ adrift, born)
    BY DEF IInv, Owned
  <2>2. panes' = panes /\ adrift' = adrift /\ born' = born
    BY DEF Ready, agents
  <2>3. Owns(call'[p], panes \ adrift, born)
    BY <1>1, <2>1 DEF Ready, Owns, Stopping, Early, Copied, Ended
  <2> QED
    BY <1>1, <2>1, <2>2, <2>3, OwnedPasses
<1>5. Tracked'
  BY <1>1 DEF Ready, agents, IInv, Tracked, Tracks, Starting, Waits, Drained
<1>6. Wiped'
  BY <1>1 DEF Ready, teamFiles, IInv, Wiped
<1>7. NoStrayPane'
  BY <1>1, <1>5 DEF Ready, teamFiles, agents, IInv, NoStrayPane, Named
<1> QED
  BY <1>2, <1>3, <1>4, <1>5, <1>6, <1>7 DEF IInv

\* Finish keeps the invariant
LEMMA FinishKeeps ==
  ASSUME LifeParameters, IInv, NEW p \in Procs, Finish(p)
  PROVE  IInv'
<1>1. /\ call' \in [Procs -> Calls]
      /\ call'[p].at = "sweep"
      /\ call'[p].mine = call[p].mine /\ call'[p].mode = call[p].mode
      /\ call'[p].cfg = call[p].cfg
      /\ \A q \in Procs : q # p => call'[q] = call[q]
  BY GoToIs DEF Finish, Starting, Stopping, IInv, LifeTypeOK
<1>2. LifeTypeOK'
  BY <1>1, BoundsAreNat DEF Finish, IInv, LifeTypeOK, agents, talk, count
<1>3. Alone'
  BY <1>1 DEF Finish, IInv, Alone, Busy, Starting
<1>4. Owned'
  BY <1>1 DEF Finish, agents, IInv, Owned, Owns, Stopping, Copied
<1>5. Tracked'
  BY <1>1 DEF Finish, agents, IInv, Tracked, Tracks, Drained
<1>6. Wiped'
  BY <1>1 DEF Finish, IInv, Alone, Busy, Wiped, Starting
<1>7. NoStrayPane'
  BY <1>1, <1>5 DEF Finish, agents, IInv, NoStrayPane, Named
<1> QED
  BY <1>2, <1>3, <1>4, <1>5, <1>6, <1>7 DEF IInv

\* OpenSave keeps the invariant
LEMMA OpenSaveKeeps ==
  ASSUME LifeParameters, IInv, NEW p \in Procs, OpenSave(p)
  PROVE  IInv'
<1>1. /\ call' \in [Procs -> Calls]
      /\ call'[p].at = "saving"
      /\ call'[p].mine = call[p].mine /\ call'[p].mode = call[p].mode
      /\ call'[p].cfg = call[p].cfg
      /\ \A q \in Procs : q # p => call'[q] = call[q]
  BY GoToIs DEF OpenSave, Open, Starting, Stopping, IInv, LifeTypeOK
<1>2. LifeTypeOK'
  BY <1>1, BoundsAreNat DEF OpenSave, Open, IInv, LifeTypeOK, agents, talk, count
<1>3. Alone'
  BY <1>1 DEF OpenSave, Open, IInv, Alone, Busy, Starting
<1>4. Owned'
  <2>1. Owned /\ Owns(call[p], panes \ adrift, born)
    BY DEF IInv, Owned
  <2>2. panes' = panes /\ adrift' = adrift /\ born' = born
    BY DEF OpenSave, Open, agents
  <2>3. Owns(call'[p], panes \ adrift, born)
    BY <1>1, <2>1 DEF OpenSave, Open, Owns, Stopping, Early, Copied, Ended
  <2> QED
    BY <1>1, <2>1, <2>2, <2>3, OwnedPasses
<1>5. Tracked'
  BY <1>1 DEF OpenSave, Open, agents, IInv, Tracked, Tracks, Starting, Waits, Drained
<1>6. Wiped'
  BY <1>1 DEF OpenSave, Open, IInv, Alone, Busy, Wiped, Starting
<1>7. NoStrayPane'
  BY <1>1, <1>5 DEF OpenSave, Open, IInv, NoStrayPane, Tracked, Tracks, Starting
<1> QED
  BY <1>2, <1>3, <1>4, <1>5, <1>6, <1>7 DEF IInv

\* OpenResave keeps the invariant
LEMMA OpenResaveKeeps ==
  ASSUME LifeParameters, IInv, NEW p \in Procs, OpenResave(p)
  PROVE  IInv'
<1>1. /\ call' \in [Procs -> Calls]
      /\ call'[p].at = "resaving"
      /\ call'[p].mine = call[p].mine /\ call'[p].mode = call[p].mode
      /\ call'[p].cfg = call[p].cfg
      /\ \A q \in Procs : q # p => call'[q] = call[q]
  BY GoToIs DEF OpenResave, Open, Starting, Stopping, IInv, LifeTypeOK
<1>2. LifeTypeOK'
  BY <1>1, BoundsAreNat DEF OpenResave, Open, IInv, LifeTypeOK, agents, talk, count
<1>3. Alone'
  BY <1>1 DEF OpenResave, Open, IInv, Alone, Busy, Starting
<1>4. Owned'
  <2>1. Owned /\ Owns(call[p], panes \ adrift, born)
    BY DEF IInv, Owned
  <2>2. panes' = panes /\ adrift' = adrift /\ born' = born
    BY DEF OpenResave, Open, agents
  <2>3. Owns(call'[p], panes \ adrift, born)
    BY <1>1, <2>1 DEF OpenResave, Open, Owns, Stopping, Early, Copied, Ended
  <2> QED
    BY <1>1, <2>1, <2>2, <2>3, OwnedPasses
<1>5. Tracked'
  BY <1>1 DEF OpenResave, Open, agents, IInv, Tracked, Tracks, Starting, Waits, Drained
<1>6. Wiped'
  BY <1>1 DEF OpenResave, Open, IInv, Alone, Busy, Wiped, Starting
<1>7. NoStrayPane'
  BY <1>1, <1>5 DEF OpenResave, Open, IInv, NoStrayPane, Tracked, Tracks, Starting
<1> QED
  BY <1>2, <1>3, <1>4, <1>5, <1>6, <1>7 DEF IInv

\* OpenUnhook keeps the invariant
LEMMA OpenUnhookKeeps ==
  ASSUME LifeParameters, IInv, NEW p \in Procs, OpenUnhook(p)
  PROVE  IInv'
<1>1. /\ call' \in [Procs -> Calls]
      /\ call'[p].at = "unhooking"
      /\ call'[p].mine = call[p].mine /\ call'[p].mode = call[p].mode
      /\ call'[p].cfg = call[p].cfg
      /\ \A q \in Procs : q # p => call'[q] = call[q]
  BY GoToIs DEF OpenUnhook, Open, Starting, Stopping, IInv, LifeTypeOK
<1>2. LifeTypeOK'
  BY <1>1, BoundsAreNat DEF OpenUnhook, Open, IInv, LifeTypeOK, agents, talk, count
<1>3. Alone'
  BY <1>1 DEF OpenUnhook, Open, IInv, Alone, Busy, Starting
<1>4. Owned'
  <2>1. Owned /\ Owns(call[p], panes \ adrift, born)
    BY DEF IInv, Owned
  <2>2. panes' = panes /\ adrift' = adrift /\ born' = born
    BY DEF OpenUnhook, Open, agents
  <2>3. Owns(call'[p], panes \ adrift, born)
    BY <1>1, <2>1 DEF OpenUnhook, Open, Owns, Stopping, Early, Copied, Ended
  <2> QED
    BY <1>1, <2>1, <2>2, <2>3, OwnedPasses
<1>5. Tracked'
  BY <1>1 DEF OpenUnhook, Open, agents, IInv, Tracked, Tracks, Starting, Waits, Drained
<1>6. Wiped'
  BY <1>1 DEF OpenUnhook, Open, IInv, Alone, Busy, Wiped, Starting
<1>7. NoStrayPane'
  BY <1>1, <1>5 DEF OpenUnhook, Open, IInv, NoStrayPane, Tracked, Tracks, Starting
<1> QED
  BY <1>2, <1>3, <1>4, <1>5, <1>6, <1>7 DEF IInv

\* FillSave keeps the invariant
LEMMA FillSaveKeeps ==
  ASSUME LifeParameters, IInv, NEW p \in Procs, FillSave(p)
  PROVE  IInv'
<1>1. /\ call' \in [Procs -> Calls]
      /\ call'[p].at = "ready"
      /\ call'[p].mine = call[p].mine /\ call'[p].mode = call[p].mode
      /\ call'[p].cfg = call[p].cfg
      /\ \A q \in Procs : q # p => call'[q] = call[q]
  BY GoToIs DEF FillSave, Fill, Starting, Stopping, IInv, LifeTypeOK
<1>2. LifeTypeOK'
  BY <1>1, BoundsAreNat DEF FillSave, Fill, IInv, LifeTypeOK, agents, talk, count, Calls
<1>3. Alone'
  BY <1>1 DEF FillSave, Fill, IInv, Alone, Busy, Starting
<1>4. Owned'
  <2>1. Owned /\ Owns(call[p], panes \ adrift, born)
    BY DEF IInv, Owned
  <2>2. panes' = panes /\ adrift' = adrift /\ born' = born
    BY DEF FillSave, Fill, agents
  <2>3. Owns(call'[p], panes \ adrift, born)
    BY <1>1, <2>1 DEF FillSave, Fill, Owns, Stopping, Early, Copied, Ended
  <2> QED
    BY <1>1, <2>1, <2>2, <2>3, OwnedPasses
<1>5. Tracked'
  BY <1>1 DEF FillSave, Fill, agents, IInv, Tracked, Tracks, Starting, Waits, Drained
<1>6. Wiped'
  BY <1>1 DEF FillSave, Fill, IInv, Alone, Busy, Wiped, Starting
<1>7. NoStrayPane'
  BY <1>1, <1>5 DEF FillSave, Fill, IInv, NoStrayPane, Tracked, Tracks, Starting
<1> QED
  BY <1>2, <1>3, <1>4, <1>5, <1>6, <1>7 DEF IInv

\* FillUnhook keeps the invariant
LEMMA FillUnhookKeeps ==
  ASSUME LifeParameters, IInv, NEW p \in Procs, FillUnhook(p)
  PROVE  IInv'
<1>1. /\ call' \in [Procs -> Calls]
      /\ call'[p].at = "kill"
      /\ call'[p].mine = call[p].mine /\ call'[p].mode = call[p].mode
      /\ call'[p].cfg = call[p].cfg
      /\ \A q \in Procs : q # p => call'[q] = call[q]
  BY GoToIs DEF FillUnhook, Fill, Starting, Stopping, IInv, LifeTypeOK
<1>2. LifeTypeOK'
  BY <1>1, BoundsAreNat DEF FillUnhook, Fill, IInv, LifeTypeOK, agents, talk, count, Calls
<1>3. Alone'
  BY <1>1 DEF FillUnhook, Fill, IInv, Alone, Busy, Starting
<1>4. Owned'
  <2>1. Owned /\ Owns(call[p], panes \ adrift, born)
    BY DEF IInv, Owned
  <2>2. panes' = panes /\ adrift' = adrift /\ born' = born
    BY DEF FillUnhook, Fill, agents
  <2>3. Owns(call'[p], panes \ adrift, born)
    BY <1>1, <2>1 DEF FillUnhook, Fill, Owns, Stopping, Early, Copied, Ended
  <2> QED
    BY <1>1, <2>1, <2>2, <2>3, OwnedPasses
<1>5. Tracked'
  BY <1>1 DEF FillUnhook, Fill, agents, IInv, Tracked, Tracks, Starting, Waits, Drained
<1>6. Wiped'
  BY <1>1 DEF FillUnhook, Fill, IInv, Alone, Busy, Wiped, Starting
<1>7. NoStrayPane'
  BY <1>1, <1>5 DEF FillUnhook, Fill, IInv, NoStrayPane, Tracked, Tracks, Starting
<1> QED
  BY <1>2, <1>3, <1>4, <1>5, <1>6, <1>7 DEF IInv

\* UnhookFails keeps the invariant
LEMMA UnhookFailsKeeps ==
  ASSUME LifeParameters, IInv, NEW p \in Procs, UnhookFails(p)
  PROVE  IInv'
<1>1. /\ call' \in [Procs -> Calls]
      /\ call'[p].at = "kill"
      /\ call'[p].mine = call[p].mine /\ call'[p].mode = call[p].mode
      /\ call'[p].cfg = call[p].cfg
      /\ \A q \in Procs : q # p => call'[q] = call[q]
  BY GoToIs DEF UnhookFails, Starting, Stopping, IInv, LifeTypeOK
<1>2. LifeTypeOK'
  BY <1>1 DEF UnhookFails, IInv, LifeTypeOK, teamFiles, agents, talk, count
<1>3. Alone'
  BY <1>1 DEF UnhookFails, IInv, Alone, Busy, Starting
<1>4. Owned'
  <2>1. Owned /\ Owns(call[p], panes \ adrift, born)
    BY DEF IInv, Owned
  <2>2. panes' = panes /\ adrift' = adrift /\ born' = born
    BY DEF UnhookFails, agents
  <2>3. Owns(call'[p], panes \ adrift, born)
    BY <1>1, <2>1 DEF UnhookFails, Owns, Stopping, Early, Copied, Ended
  <2> QED
    BY <1>1, <2>1, <2>2, <2>3, OwnedPasses
<1>5. Tracked'
  BY <1>1 DEF UnhookFails, agents, IInv, Tracked, Tracks, Starting, Waits, Drained
<1>6. Wiped'
  BY <1>1 DEF UnhookFails, teamFiles, IInv, Wiped
<1>7. NoStrayPane'
  BY <1>1, <1>5 DEF UnhookFails, agents, IInv, NoStrayPane, Tracked, Tracks, Starting
<1> QED
  BY <1>2, <1>3, <1>4, <1>5, <1>6, <1>7 DEF IInv

\* a start returns with its panes in the config
LEMMA FillResaveKeeps ==
  ASSUME LifeParameters, IInv, NEW p \in Procs, FillResave(p)
  PROVE  IInv'
<1>1. /\ call' \in [Procs -> Calls]
      /\ call'[p].at = "idle"
      /\ call'[p].mine = {} /\ call'[p].mode = "interactive" /\ call'[p].cfg = {}
      /\ \A q \in Procs : q # p => call'[q] = call[q]
  BY GoIdle DEF FillResave, Fill, GoTo, IInv, LifeTypeOK
<1>2. LifeTypeOK'
  BY <1>1, BoundsAreNat DEF FillResave, Fill, IInv, LifeTypeOK, agents, talk, count, Calls
<1>3. Alone'
  BY <1>1 DEF FillResave, Fill, IInv, Alone, Busy, Starting
<1>4. Owned'
  BY <1>1 DEF FillResave, Fill, agents, IInv, Owned, Owns
<1>5. Tracked'
  BY <1>1 DEF FillResave, Fill, agents, IInv, Tracked, Tracks, Starting, Waits, Drained
<1>6. Wiped'
  BY <1>1 DEF FillResave, Fill, IInv, Alone, Busy, Wiped, Starting
<1>7. NoStrayPane'
  <2>1. Named' = call[p].cfg
    BY DEF FillResave, Fill, Named, IInv, LifeTypeOK, Calls, LifeParameters
  <2>2. call[p].cfg = call[p].mine
    BY DEF FillResave, Fill, IInv, Owned, Owns, Copied
  <2>3. ~crossed => panes \ adrift \subseteq call[p].mine
    BY DEF FillResave, Fill, IInv, Tracked, Tracks, Starting
  <2> QED
    BY <2>1, <2>2, <2>3 DEF FillResave, Fill, agents, NoStrayPane
<1> QED
  BY <1>2, <1>3, <1>4, <1>5, <1>6, <1>7 DEF IInv

\* Raise keeps the invariant
LEMMA RaiseKeeps ==
  ASSUME LifeParameters, IInv, NEW p \in Procs, Raise(p)
  PROVE  IInv'
<1>1. /\ call' \in [Procs -> Calls]
      /\ call'[p].at = "idle"
      /\ call'[p].mine = {} /\ call'[p].mode = "interactive" /\ call'[p].cfg = {}
      /\ \A q \in Procs : q # p => call'[q] = call[q]
  BY GoIdle DEF Raise, IInv, LifeTypeOK
<1>2. LifeTypeOK'
  BY <1>1, BoundsAreNat DEF Raise, IInv, LifeTypeOK, teamFiles, agents, talk, count
<1>3. Alone'
  BY <1>1 DEF Raise, IInv, Alone, Busy, Starting
<1>4. Owned'
  BY <1>1 DEF Raise, agents, IInv, Owned, Owns
<1>5. Tracked'
  BY <1>1 DEF Raise, agents, IInv, Tracked, Tracks, Starting, Waits, Drained
<1>6. Wiped'
  BY <1>1 DEF Raise, teamFiles, IInv, Wiped
<1>7. NoStrayPane'
  BY <1>1, <1>5 DEF Raise, teamFiles, agents, IInv, NoStrayPane, Named, Owned, Owns, Ended
<1> QED
  BY <1>2, <1>3, <1>4, <1>5, <1>6, <1>7 DEF IInv

\* Return keeps the invariant
LEMMA ReturnKeeps ==
  ASSUME LifeParameters, IInv, NEW p \in Procs, Return(p)
  PROVE  IInv'
<1>1. /\ call' \in [Procs -> Calls]
      /\ call'[p].at = "idle"
      /\ call'[p].mine = {} /\ call'[p].mode = "interactive" /\ call'[p].cfg = {}
      /\ \A q \in Procs : q # p => call'[q] = call[q]
  BY GoIdle DEF Return, IInv, LifeTypeOK
<1>2. LifeTypeOK'
  BY <1>1, BoundsAreNat DEF Return, IInv, LifeTypeOK, teamFiles, agents, talk, count
<1>3. Alone'
  BY <1>1 DEF Return, IInv, Alone, Busy, Starting
<1>4. Owned'
  BY <1>1 DEF Return, agents, IInv, Owned, Owns
<1>5. Tracked'
  BY <1>1 DEF Return, agents, IInv, Tracked, Tracks, Drained
<1>6. Wiped'
  BY <1>1 DEF Return, teamFiles, IInv, Wiped
<1>7. NoStrayPane'
  BY <1>1, <1>5 DEF Return, teamFiles, agents, IInv, NoStrayPane, Named, Owned, Owns, Stopping
<1> QED
  BY <1>2, <1>3, <1>4, <1>5, <1>6, <1>7 DEF IInv

\* a killed call's panes are adrift
LEMMA KillKeeps ==
  ASSUME LifeParameters, IInv, NEW p \in Procs, KillCall(p)
  PROVE  IInv'
<1>1. /\ call' \in [Procs -> Calls]
      /\ call'[p].at = "idle"
      /\ call'[p].mine = {} /\ call'[p].mode = "interactive" /\ call'[p].cfg = {}
      /\ \A q \in Procs : q # p => call'[q] = call[q]
  BY GoIdle DEF KillCall, IInv, LifeTypeOK
<1>2. LifeTypeOK'
  <2>1. adrift' \in SUBSET Agents
    BY DEF KillCall, IInv, LifeTypeOK
  <2>2. faults' \in 0 .. MaxFaults
    BY BoundsAreNat DEF KillCall, IInv, LifeTypeOK
  <2> QED
    BY <1>1, <2>1, <2>2 DEF KillCall, IInv, LifeTypeOK, teamFiles, agents, talk
<1>3. Alone'
  BY <1>1 DEF KillCall, IInv, Alone, Busy, Starting
<1>4. Owned'
  BY <1>1 DEF KillCall, agents, IInv, Owned, Owns
<1>5. Tracked'
  BY <1>1 DEF KillCall, agents, IInv, Tracked, Tracks, Starting, Waits, Drained
<1>6. Wiped'
  BY <1>1 DEF KillCall, teamFiles, IInv, Wiped
<1>7. NoStrayPane'
  BY <1>1, <1>5 DEF KillCall, teamFiles, agents, IInv, NoStrayPane, Named
<1> QED
  BY <1>2, <1>3, <1>4, <1>5, <1>6, <1>7 DEF IInv

\* create_team_session tries to end what it split before it raises
LEMMA SplitFailsKeeps ==
  ASSUME LifeParameters, IInv, NEW p \in Procs, SplitFails(p)
  PROVE  IInv'
<1>1. /\ call' \in [Procs -> Calls]
      /\ call'[p].at = "wipe"
      /\ call'[p].mine = {} /\ call'[p].mode = "interactive" /\ call'[p].cfg = {}
      /\ \A q \in Procs : q # p => call'[q] = call[q]
  <2> DEFINE c == [NoCall EXCEPT !.at = "wipe"]
  <2>1. c \in Calls
    BY NoCallType DEF NoCall, Calls, Starting
  <2>2. Go(p, c)
    BY DEF SplitFails
  <2>3. /\ call' \in [Procs -> Calls]
        /\ call'[p] = c
        /\ \A q \in Procs : q # p => call'[q] = call[q]
    BY <2>1, <2>2, GoIs DEF IInv, LifeTypeOK
  <2> QED
    BY <2>3 DEF NoCall
<1>2. /\ born' \in 0 .. MaxAgents /\ born \in Nat /\ born <= born'
      /\ panes' \in SUBSET (1 .. born') /\ adrift' \in SUBSET Agents
      /\ panes' \ adrift' = (panes \ call[p].mine) \ adrift
  <2>1. PICK missed \in SUBSET (call[p].mine \cap panes), unknown \in SUBSET {born + 1} :
          /\ unknown # {} => call[p].left > 0 /\ born < MaxAgents
          /\ born' = born + Cardinality(unknown)
          /\ panes' = (panes \ call[p].mine) \cup missed \cup unknown
          /\ adrift' = adrift \cup missed \cup unknown
    BY DEF SplitFails
  <2>2. born \in 0 .. MaxAgents /\ panes \subseteq 1 .. born /\ adrift \subseteq Agents
    BY DEF IInv, LifeTypeOK, Owned
  <2>3. /\ panes' \ adrift' = (panes \ call[p].mine) \ adrift
        /\ panes' \subseteq panes \cup unknown /\ adrift' \subseteq adrift \cup panes \cup unknown
    <3>1. \A a \in unknown : a = born + 1 /\ a \notin panes
      BY <2>1, <2>2
    <3> QED
      BY <2>1, <3>1
  <2>4. CASE unknown = {}
    <3>1. born' = born
      BY <2>1, <2>2, <2>4, FS_EmptySet
    <3>2. born \in Nat /\ born <= born' /\ 1 .. born \subseteq Agents
      BY <2>2, <3>1, BoundsAreNat DEF Agents
    <3>3. panes' \in SUBSET (1 .. born') /\ adrift' \in SUBSET Agents
      BY <2>2, <2>3, <2>4, <3>1, <3>2
    <3> QED
      BY <2>2, <2>3, <3>1, <3>2, <3>3
  <2>5. CASE unknown = {born + 1}
    <3>1. born' = born + 1
      BY <2>1, <2>2, <2>5, FS_Singleton
    <3>2. born < MaxAgents
      BY <2>1, <2>5
    <3>3. /\ born' \in 0 .. MaxAgents /\ born \in Nat /\ born <= born'
          /\ 1 .. born \subseteq 1 .. born' /\ born + 1 \in 1 .. born' /\ 1 .. born' \subseteq Agents
      BY <2>2, <3>1, <3>2, BoundsAreNat DEF Agents
    <3> QED
      BY <2>2, <2>3, <2>5, <3>3
  <2>6. unknown = {} \/ unknown = {born + 1}
    BY <2>1
  <2> QED
    BY <2>4, <2>5, <2>6
<1>3. LifeTypeOK'
  <2>1. panes' \in SUBSET Agents
    <3>1. 1 .. born' \subseteq Agents
      BY <1>2, BoundsAreNat DEF Agents
    <3> QED
      BY <1>2, <3>1
  <2> QED
    BY <1>1, <1>2, <2>1 DEF SplitFails, IInv, LifeTypeOK, teamFiles, talk, count
<1>4. Alone'
  BY <1>1 DEF SplitFails, IInv, Alone, Busy, Starting
<1>5. Owned'
  <2>1. ASSUME NEW q \in Procs
        PROVE  Owns(call'[q], panes' \ adrift', born')
    <3>1. CASE q = p
      BY <1>1, <3>1 DEF Owns, Copied
    <3>2. CASE q # p
      <4>1. Owns(call[q], panes \ adrift, born) /\ call'[q] = call[q]
        BY <1>1, <3>2 DEF IInv, Owned
      <4>2. 1 .. born \subseteq 1 .. born'
        BY <1>2
      <4> QED
        BY <1>2, <4>1, <4>2 DEF Owns
    <3> QED
      BY <3>1, <3>2
  <2> QED
    BY <1>2, <2>1 DEF Owned
<1>6. Tracked'
  <2> SUFFICES ASSUME ~crossed, NEW q \in Procs
               PROVE  Tracks(call'[q], panes' \ adrift')
    BY DEF SplitFails, Tracked
  <2>1. panes' \ adrift' = {}
    BY <1>2 DEF SplitFails, IInv, Tracked, Tracks, Starting
  <2> QED
    BY <2>1 DEF Tracks
<1>7. Wiped'
  BY <1>1 DEF SplitFails, teamFiles, IInv, Wiped
<1>8. NoStrayPane'
  <2> SUFFICES ASSUME ~crossed
               PROVE  panes' \ adrift' = {}
    BY DEF SplitFails, NoStrayPane
  <2> QED
    BY <1>2 DEF SplitFails, IInv, Tracked, Tracks, Starting
<1> QED
  BY <1>3, <1>4, <1>5, <1>6, <1>7, <1>8 DEF IInv

\* so are those of an interrupted one
LEMMA SplitInterruptedKeeps ==
  ASSUME LifeParameters, IInv, NEW p \in Procs, SplitInterrupted(p)
  PROVE  IInv'
<1>1. /\ call' \in [Procs -> Calls]
      /\ call'[p].at = "wipe"
      /\ call'[p].mine = {} /\ call'[p].mode = "interactive" /\ call'[p].cfg = {}
      /\ \A q \in Procs : q # p => call'[q] = call[q]
  <2> DEFINE c == [NoCall EXCEPT !.at = "wipe"]
  <2>1. c \in Calls
    BY NoCallType DEF SplitInterrupted, NoCall, Calls, Starting, Stopping, IInv, LifeTypeOK
  <2>2. Go(p, c)
    BY DEF SplitInterrupted, NoCall, Calls, Starting, Stopping, IInv, LifeTypeOK
  <2>3. /\ call' \in [Procs -> Calls]
        /\ call'[p] = c
        /\ \A q \in Procs : q # p => call'[q] = call[q]
    BY <2>1, <2>2, GoIs DEF IInv, LifeTypeOK
  <2> QED
    BY <2>3 DEF SplitInterrupted, NoCall, Calls, Starting, Stopping, IInv, LifeTypeOK
<1>2. LifeTypeOK'
  <2>1. adrift' \in SUBSET Agents
    BY DEF SplitInterrupted, IInv, LifeTypeOK, Calls
  <2>2. faults' \in 0 .. MaxFaults
    BY BoundsAreNat DEF SplitInterrupted, IInv, LifeTypeOK
  <2> QED
    BY <1>1, <2>1, <2>2 DEF SplitInterrupted, IInv, LifeTypeOK, teamFiles, agents, talk
<1>3. Alone'
  BY <1>1 DEF SplitInterrupted, IInv, Alone, Busy, Starting
<1>4. Owned'
  BY <1>1 DEF SplitInterrupted, agents, IInv, Owned, Owns
<1>5. Tracked'
  BY <1>1 DEF SplitInterrupted, agents, IInv, Tracked, Tracks, Starting
<1>6. Wiped'
  BY <1>1 DEF SplitInterrupted, teamFiles, IInv, Wiped
<1>7. NoStrayPane'
  BY <1>1, <1>5 DEF SplitInterrupted, teamFiles, agents, IInv, NoStrayPane, Named
<1> QED
  BY <1>2, <1>3, <1>4, <1>5, <1>6, <1>7 DEF IInv

\* the config read is the one init_team_state wrote, or gone
LEMMA ReadConfigKeeps ==
  ASSUME LifeParameters, IInv, NEW p \in Procs, ReadConfig(p)
  PROVE  IInv'
<1>1. /\ call' \in [Procs -> Calls]
      /\ \/ /\ config \in {Absent, Torn} /\ call'[p].at = "wipe"
            /\ call'[p].mine = {} /\ call'[p].cfg = {}
         \/ /\ config \notin {Absent, Torn} /\ call'[p].at = "launch"
            /\ call'[p].mine = call[p].mine /\ call'[p].mode = call[p].mode
      /\ \A q \in Procs : q # p => call'[q] = call[q]
  <2> DEFINE c == IF config \in {Absent, Torn} THEN [NoCall EXCEPT !.at = "wipe"]
                ELSE [call[p] EXCEPT !.at = "launch", !.cfg = config]
  <2>1. c \in Calls
    <3>1. call[p] \in Calls /\ config \in {Absent, Torn} \cup SUBSET Agents
      BY DEF IInv, LifeTypeOK
    <3>2. [NoCall EXCEPT !.at = "wipe"] \in Calls
      BY NoCallType DEF NoCall, Calls, Starting
    <3>3. config \notin {Absent, Torn} => [call[p] EXCEPT !.at = "launch", !.cfg = config] \in Calls
      BY <3>1 DEF Calls, Starting
    <3> QED BY <3>2, <3>3
  <2>2. Go(p, c)
    BY DEF ReadConfig, NoCall, Calls, Starting, Stopping, IInv, LifeTypeOK
  <2>3. /\ call' \in [Procs -> Calls]
        /\ call'[p] = c
        /\ \A q \in Procs : q # p => call'[q] = call[q]
    BY <2>1, <2>2, GoIs DEF IInv, LifeTypeOK
  <2> HIDE DEF c
  <2>4. CASE config \in {Absent, Torn}
    <3>1. call'[p] = [NoCall EXCEPT !.at = "wipe"]
      BY <2>3, <2>4 DEF c
    <3>2. call'[p].at = "wipe" /\ call'[p].mine = {} /\ call'[p].cfg = {}
      BY <3>1 DEF NoCall
    <3> QED
      BY <2>3, <2>4, <3>2
  <2>5. CASE config \notin {Absent, Torn}
    <3>1. call'[p] = [call[p] EXCEPT !.at = "launch", !.cfg = config]
      BY <2>3, <2>5 DEF c
    <3> QED
      BY <2>3, <2>5, <3>1 DEF IInv, LifeTypeOK, Calls
  <2> QED
    BY <2>4, <2>5
<1>2. LifeTypeOK'
  BY <1>1, BoundsAreNat DEF ReadConfig, IInv, LifeTypeOK, teamFiles, agents, talk, count
<1>3. Alone'
  BY <1>1 DEF ReadConfig, IInv, Alone, Busy, Starting
<1>4. Owned'
  BY <1>1 DEF ReadConfig, agents, IInv, Owned, Owns, Early, Copied
<1>5. Tracked'
  BY <1>1 DEF ReadConfig, agents, IInv, Owned, Owns, Tracked, Tracks, Starting, Early
<1>6. Wiped'
  BY <1>1 DEF ReadConfig, teamFiles, IInv, Wiped
<1>7. NoStrayPane'
  BY <1>1, <1>5 DEF ReadConfig, teamFiles, agents, IInv, NoStrayPane, Named, Owned, Owns, Early
<1> QED
  BY <1>2, <1>3, <1>4, <1>5, <1>6, <1>7 DEF IInv

\* a new pane is one no call owns yet
LEMMA SplitKeeps ==
  ASSUME LifeParameters, IInv, NEW p \in Procs, Split(p)
  PROVE  IInv'
<1>1. /\ call' \in [Procs -> Calls]
      /\ call'[p].at = "launch" /\ call'[p].mode = "interactive"
      /\ call'[p].mine = call[p].mine \cup {born + 1}
      /\ \A q \in Procs : q # p => call'[q] = call[q]
  <2> DEFINE c == [call[p] EXCEPT !.mine = call[p].mine \cup {born + 1}, !.left = @ - 1]
  <2>1. c \in Calls
    <3>1. call[p].left - 1 \in Nat
      BY LeftType DEF Split, Launched, IInv, LifeTypeOK
    <3>2. born + 1 \in Agents
      BY BoundsAreNat DEF Split, IInv, LifeTypeOK, Agents
    <3>3. call[p] \in Calls
      BY DEF IInv, LifeTypeOK
    <3> QED
      BY <3>1, <3>2, <3>3 DEF Calls
  <2>2. Go(p, c)
    BY DEF Split, Launched, Calls, Starting, Stopping, Agents, LifeParameters, IInv, LifeTypeOK
  <2>3. /\ call' \in [Procs -> Calls]
        /\ call'[p] = c
        /\ \A q \in Procs : q # p => call'[q] = call[q]
    BY <2>1, <2>2, GoIs DEF IInv, LifeTypeOK
  <2> QED
    BY <2>3 DEF Split, Launched, Calls, Starting, Stopping, Agents, LifeParameters, IInv, LifeTypeOK
<1>2. LifeTypeOK'
  <2>1. born + 1 \in 0 .. MaxAgents /\ born + 1 \in Agents
    BY BoundsAreNat DEF Split, IInv, LifeTypeOK, Agents
  <2>2. /\ born' = born + 1 /\ panes' = panes \cup {born + 1}
        /\ UNCHANGED <<dir, config, manifest, children, answer, asked, starts, clock,
                       faults, adrift, crossed>>
    BY DEF Split, teamFiles, talk, count
  <2> QED
    BY <1>1, <2>1, <2>2 DEF IInv, LifeTypeOK
<1>3. Alone'
  BY <1>1 DEF Split, IInv, Alone, Busy, Starting
<1>4. Owned'
  <2>1. /\ panes' = panes \cup {born + 1} /\ born' = born + 1
        /\ 1 .. born \subseteq 1 .. born' /\ born + 1 \in 1 .. born'
        /\ born + 1 \notin 1 .. born
    BY DEF Split, IInv, LifeTypeOK
  <2>2. panes' \subseteq 1 .. born'
    BY <2>1 DEF IInv, Owned
  <2>3. Owns(call'[p], panes' \ adrift, born')
    <3>1. call[p].mine \subseteq 1 .. born
      BY DEF IInv, Owned, Owns
    <3> QED
      BY <1>1, <2>1, <3>1 DEF Owns, Early, Stopping, Copied, Ended
  <2>4. ASSUME NEW q \in Procs, q # p
        PROVE  Owns(call[q], panes' \ adrift, born')
    <3>1. Owns(call[q], panes \ adrift, born)
      BY DEF IInv, Owned
    <3> QED
      BY <2>1, <3>1 DEF Owns
  <2> QED
    BY <1>1, <2>2, <2>3, <2>4 DEF Split, Owned
<1>5. Tracked'
  <2> SUFFICES ASSUME ~crossed, NEW q \in Procs
               PROVE  Tracks(call'[q], panes' \ adrift)
    BY DEF Split, Tracked
  <2>1. CASE q = p
    <3>1. panes \ adrift \subseteq call[p].mine
      BY DEF Split, IInv, Tracked, Tracks, Starting
    <3> QED
      BY <1>1, <2>1, <3>1 DEF Split, Tracks, Waits, Drained
  <2>2. CASE q # p
    <3>1. call'[q].at = "idle"
      BY <1>1, <2>2 DEF Split, IInv, Alone, Busy, Starting
    <3> QED
      BY <3>1 DEF Tracks, Starting, Waits, Drained
  <2> QED
    BY <2>1, <2>2
<1>6. Wiped'
  BY <1>1 DEF Split, teamFiles, IInv, Wiped
<1>7. NoStrayPane'
  BY <1>1, <1>5 DEF Split, teamFiles, IInv, NoStrayPane, Named
<1> QED
  BY <1>2, <1>3, <1>4, <1>5, <1>6, <1>7 DEF IInv

\* Spawn keeps the invariant
LEMMA SpawnKeeps ==
  ASSUME LifeParameters, IInv, NEW p \in Procs, Spawn(p)
  PROVE  IInv'
<1>1. /\ call' \in [Procs -> Calls]
      /\ call'[p].at = "launch" /\ call'[p].mode = "prompt"
      /\ call'[p].mine = {}
      /\ \A q \in Procs : q # p => call'[q] = call[q]
  <2> DEFINE c == [call[p] EXCEPT !.mine = {}, !.left = @ - 1]
  <2>1. c \in Calls
    <3>1. call[p] \in Calls /\ call[p].left > 0
      BY DEF Spawn, Launched, IInv, LifeTypeOK
    <3>2. call[p].left - 1 \in Nat
      BY <3>1 DEF Calls
    <3> QED BY <3>1, <3>2 DEF Calls
  <2>2. Go(p, c)
    BY DEF Spawn, Launched, Calls, Starting, Stopping, Agents, IInv, LifeTypeOK
  <2>3. /\ call' \in [Procs -> Calls]
        /\ call'[p] = c
        /\ \A q \in Procs : q # p => call'[q] = call[q]
    BY <2>1, <2>2, GoIs DEF IInv, LifeTypeOK
  <2> QED
    BY <2>3 DEF Spawn, Launched, Calls, Starting, Stopping, Agents, IInv, LifeTypeOK
<1>2. LifeTypeOK'
  BY <1>1, BoundsAreNat DEF Spawn, IInv, LifeTypeOK, teamFiles, talk, count
<1>3. Alone'
  BY <1>1 DEF Spawn, IInv, Alone, Busy
<1>4. Owned'
  BY <1>1 DEF Spawn, IInv, Owned, Owns, Copied
<1>5. Tracked'
  BY <1>1 DEF Spawn, IInv, Owned, Owns, Tracked, Tracks, Starting
<1>6. Wiped'
  BY <1>1 DEF Spawn, teamFiles, IInv, Wiped
<1>7. NoStrayPane'
  BY <1>1, <1>5 DEF Spawn, teamFiles, IInv, NoStrayPane, Named, Owned, Owns
<1> QED
  BY <1>2, <1>3, <1>4, <1>5, <1>6, <1>7 DEF IInv

\* Created keeps the invariant
LEMMA CreatedKeeps ==
  ASSUME LifeParameters, IInv, NEW p \in Procs, Created(p)
  PROVE  IInv'
<1>1. /\ call' \in [Procs -> Calls]
      /\ call'[p].at = "save" /\ call'[p].mode = call[p].mode
      /\ call'[p].mine = call[p].mine /\ call'[p].cfg = call[p].mine
      /\ \A q \in Procs : q # p => call'[q] = call[q]
  <2> DEFINE c == [call[p] EXCEPT !.at = "save", !.cfg = call[p].mine]
  <2>1. c \in Calls
    <3>1. call[p] \in Calls
      BY DEF IInv, LifeTypeOK
    <3> QED BY <3>1 DEF Calls, Starting
  <2>2. Go(p, c)
    BY DEF Created
  <2>3. /\ call' \in [Procs -> Calls]
        /\ call'[p] = c
        /\ \A q \in Procs : q # p => call'[q] = call[q]
    BY <2>1, <2>2, GoIs DEF IInv, LifeTypeOK
  <2>4. /\ c.at = "save" /\ c.mode = call[p].mode /\ c.mine = call[p].mine
        /\ c.cfg = call[p].mine
    BY DEF IInv, LifeTypeOK, Calls
  <2> HIDE DEF c
  <2> QED
    BY <2>3, <2>4
<1>2. LifeTypeOK'
  BY <1>1, BoundsAreNat DEF Created, IInv, LifeTypeOK, teamFiles, agents, talk, count
<1>3. Alone'
  BY <1>1 DEF Created, IInv, Alone, Busy, Starting
<1>4. Owned'
  BY <1>1 DEF Created, agents, IInv, Owned, Owns, Stopping, Early, Ended
<1>5. Tracked'
  BY <1>1 DEF Created, agents, IInv, Tracked, Tracks, Starting, Drained
<1>6. Wiped'
  BY <1>1 DEF Created, teamFiles, IInv, Wiped
<1>7. NoStrayPane'
  BY <1>1, <1>5 DEF Created, teamFiles, agents, IInv, NoStrayPane, Named
<1> QED
  BY <1>2, <1>3, <1>4, <1>5, <1>6, <1>7 DEF IInv

\* a failure keeps the panes in mine for the roll-back
LEMMA FailKeeps ==
  ASSUME LifeParameters, IInv, NEW p \in Procs, Fail(p)
  PROVE  IInv'
<1>1. /\ call' \in [Procs -> Calls]
      /\ call'[p].at = "rollback" /\ call'[p].mode = call[p].mode
      /\ call'[p].mine = call[p].mine /\ call'[p].cfg = call[p].cfg
      /\ \A q \in Procs : q # p => call'[q] = call[q]
  <2> DEFINE c == [call[p] EXCEPT !.at = "rollback", !.left = 0]
  <2>1. c \in Calls
    <3>1. call[p] \in Calls
      BY DEF IInv, LifeTypeOK
    <3>2. "rollback" \in Starting
      BY DEF Starting
    <3> QED BY <3>1, <3>2 DEF Calls
  <2>2. Go(p, c)
    BY DEF Fail, Calls, Starting, Stopping, IInv, LifeTypeOK
  <2>3. /\ call' \in [Procs -> Calls]
        /\ call'[p] = c
        /\ \A q \in Procs : q # p => call'[q] = call[q]
    BY <2>1, <2>2, GoIs DEF IInv, LifeTypeOK
  <2> QED
    BY <2>3 DEF Fail, Calls, Starting, Stopping, IInv, LifeTypeOK
<1>2. LifeTypeOK'
  BY <1>1, BoundsAreNat DEF Fail, IInv, LifeTypeOK, teamFiles, agents, talk, count
<1>3. Alone'
  BY <1>1 DEF Fail, IInv, Alone, Busy, Starting
<1>4. Owned'
  <2>1. Owned /\ Owns(call[p], panes \ adrift, born)
    BY DEF IInv, Owned
  <2>2. panes' = panes /\ adrift' = adrift /\ born' = born
    BY DEF Fail, agents
  <2>3. Owns(call'[p], panes \ adrift, born)
    BY <1>1, <2>1 DEF Fail, Owns, Stopping, Early, Copied, Ended
  <2> QED
    BY <1>1, <2>1, <2>2, <2>3, OwnedPasses
<1>5. Tracked'
  BY <1>1 DEF Fail, agents, IInv, Tracked, Tracks, Starting, Waits, Drained
<1>6. Wiped'
  BY <1>1 DEF Fail, teamFiles, IInv, Wiped
<1>7. NoStrayPane'
  BY <1>1, <1>5 DEF Fail, teamFiles, agents, IInv, NoStrayPane, Named
<1> QED
  BY <1>2, <1>3, <1>4, <1>5, <1>6, <1>7 DEF IInv

\* only a start without panes goes straight to the files
LEMMA RollbackKeeps ==
  ASSUME LifeParameters, IInv, NEW p \in Procs, Rollback(p)
  PROVE  IInv'
<1>1. /\ call' \in [Procs -> Calls]
      /\ call'[p].at = IF call[p].mode = "interactive" /\ call[p].mine # {}
                         THEN "unhook"
                         ELSE "wipe"
      /\ call'[p].mine = call[p].mine /\ call'[p].mode = call[p].mode
      /\ call'[p].cfg = call[p].cfg
      /\ \A q \in Procs : q # p => call'[q] = call[q]
  BY GoToIs DEF Rollback, Starting, Stopping, IInv, LifeTypeOK
<1>2. LifeTypeOK'
  BY <1>1, BoundsAreNat DEF Rollback, IInv, LifeTypeOK, teamFiles, agents, talk, count
<1>3. Alone'
  BY <1>1 DEF Rollback, IInv, Alone, Busy, Starting
<1>4. Owned'
  <2>1. call[p].mode \in {"interactive", "prompt"}
    BY DEF IInv, LifeTypeOK, Calls
  <2>2. Owns(call[p], panes \ adrift, born)
    BY DEF IInv, Owned
  <2>3. Owns(call'[p], panes \ adrift, born)
    <3>1. CASE call[p].mode = "interactive" /\ call[p].mine # {}
      BY <1>1, <2>2, <3>1 DEF Owns, Stopping, Early, Copied, Ended
    <3>2. CASE ~(call[p].mode = "interactive" /\ call[p].mine # {})
      BY <1>1, <2>1, <2>2, <3>2 DEF Owns, Stopping, Early, Copied, Ended
    <3> QED
      BY <3>1, <3>2
  <2> QED
    BY <1>1, <2>3 DEF Rollback, IInv, agents, Owned
<1>5. Tracked'
  BY <1>1 DEF Rollback, agents, IInv, Tracked, Tracks, Starting, Waits, Drained
<1>6. Wiped'
  BY <1>1 DEF Rollback, teamFiles, IInv, Wiped
<1>7. NoStrayPane'
  BY <1>1, <1>5 DEF Rollback, teamFiles, agents, IInv, NoStrayPane, Named
<1> QED
  BY <1>2, <1>3, <1>4, <1>5, <1>6, <1>7 DEF IInv

\* Poll keeps the invariant
LEMMA PollKeeps ==
  ASSUME LifeParameters, IInv, NEW p \in Procs, Poll(p)
  PROVE  IInv'
<1>1. /\ call' \in [Procs -> Calls]
      /\ \/ call'[p].at = "idle" /\ call'[p].mine = {} /\ call'[p].cfg = {}
         \/ call'[p].at = "tear down" /\ call'[p].mine = {} /\ call'[p].cfg = call[p].cfg
      /\ \A q \in Procs : q # p => call'[q] = call[q]
  <2> DEFINE c == IF Rejected(call[p]) /\ ~call[p].force THEN NoCall
                ELSE [NoCall EXCEPT !.at = "tear down", !.cfg = call[p].cfg]
  <2>1. c \in Calls
    BY NoCallType DEF Poll, NoCall, Calls, Starting, Stopping, IInv, LifeTypeOK
  <2>2. Go(p, c)
    BY DEF Poll, NoCall, Calls, Starting, Stopping, IInv, LifeTypeOK
  <2>3. /\ call' \in [Procs -> Calls]
        /\ call'[p] = c
        /\ \A q \in Procs : q # p => call'[q] = call[q]
    BY <2>1, <2>2, GoIs DEF IInv, LifeTypeOK
  <2> HIDE DEF c
  <2>4. CASE c = NoCall
    <3>1. call'[p] = NoCall
      BY <2>3, <2>4
    <3>2. call'[p].at = "idle" /\ call'[p].mine = {} /\ call'[p].cfg = {}
      BY <3>1 DEF NoCall
    <3> QED
      BY <2>3, <3>2
  <2>5. CASE c = [NoCall EXCEPT !.at = "tear down", !.cfg = call[p].cfg]
    <3>1. call'[p] = [NoCall EXCEPT !.at = "tear down", !.cfg = call[p].cfg]
      BY <2>3, <2>5
    <3> QED
      BY <2>3, <3>1 DEF NoCall
  <2> QED
    BY <2>4, <2>5 DEF c
<1>2. LifeTypeOK'
  BY <1>1, BoundsAreNat DEF Poll, IInv, LifeTypeOK, teamFiles, agents, talk, count
<1>3. Alone'
  BY <1>1 DEF Poll, IInv, Alone, Busy, Starting
<1>4. Owned'
  BY <1>1 DEF Poll, agents, IInv, Owned, Owns, Copied
<1>5. Tracked'
  BY <1>1 DEF Poll, agents, IInv, Tracked, Tracks, Starting, Waits, Drained
<1>6. Wiped'
  BY <1>1 DEF Poll, teamFiles, IInv, Wiped
<1>7. NoStrayPane'
  BY <1>1, <1>5 DEF Poll, teamFiles, agents, IInv, NoStrayPane, Named, Owned, Owns, Stopping
<1> QED
  BY <1>2, <1>3, <1>4, <1>5, <1>6, <1>7 DEF IInv

\* Ask keeps the invariant
LEMMA AskKeeps ==
  ASSUME LifeParameters, IInv, NEW p \in Procs, AskWorker(p)
  PROVE  IInv'
<1>1. /\ call' \in [Procs -> Calls]
      /\ call'[p].at = "drain"
      /\ call'[p].mine = call[p].mine /\ call'[p].mode = call[p].mode
      /\ call'[p].cfg = call[p].cfg
      /\ \A q \in Procs : q # p => call'[q] = call[q]
  <2>1. PICK failed \in SUBSET Team :
             Go(p, [call[p] EXCEPT !.at = "drain", !.unasked = failed])
    BY DEF AskWorker
  <2> DEFINE c == [call[p] EXCEPT !.at = "drain", !.unasked = failed]
  <2>2. c \in Calls
    <3>1. failed \in SUBSET Team /\ call[p] \in Calls
      BY <2>1 DEF IInv, LifeTypeOK
    <3> QED
      BY <3>1 DEF Calls, Stopping
  <2>3. /\ call' \in [Procs -> Calls]
        /\ call'[p] = c
        /\ \A q \in Procs : q # p => call'[q] = call[q]
    BY <2>1, <2>2, GoIs DEF IInv, LifeTypeOK
  <2> QED
    BY <2>3 DEF IInv, LifeTypeOK, Calls
<1>2. LifeTypeOK'
  BY <1>1, BoundsAreNat DEF AskWorker, IInv, LifeTypeOK, agents, count
<1>3. Alone'
  BY <1>1 DEF AskWorker, IInv, Alone, Busy, Starting
<1>4. Owned'
  BY <1>1 DEF AskWorker, agents, IInv, Owned, Owns, Stopping, Copied
<1>5. Tracked'
  BY <1>1 DEF AskWorker, agents, IInv, Tracked, Tracks, Starting, Waits, Drained
<1>6. Wiped'
  BY <1>1 DEF AskWorker, IInv, Alone, Busy, Wiped, Starting
<1>7. NoStrayPane'
  BY <1>1, <1>5 DEF AskWorker, agents, IInv, NoStrayPane, Named
<1> QED
  BY <1>2, <1>3, <1>4, <1>5, <1>6, <1>7 DEF IInv

\* the roll-back ends the panes one by one, or sets them adrift
LEMMA KillMineKeeps ==
  ASSUME LifeParameters, IInv, NEW p \in Procs, KillMine(p)
  PROVE  IInv'
<1>1. /\ call' \in [Procs -> Calls]
      /\ \/ call' = call /\ call[p].at = "kill"
         \/ /\ call[p].at = "kill" /\ call'[p].at = "wipe"
            /\ call[p].mine \cap (panes \ adrift) = {}
            /\ panes' = panes /\ adrift' = adrift
            /\ call'[p].mine = call[p].mine /\ call'[p].mode = call[p].mode
            /\ call'[p].cfg = call[p].cfg
      /\ \A q \in Procs : q # p => call'[q] = call[q]
  <2>1. CASE call' = call
    BY <2>1 DEF KillMine, IInv, LifeTypeOK
  <2>2. CASE /\ call[p].mine \cap panes \subseteq adrift
             /\ GoTo(p, "wipe") /\ UNCHANGED <<panes, adrift>>
    BY <2>2, GoToIs DEF KillMine, Starting, Stopping, IInv, LifeTypeOK
  <2> QED
    BY <2>1, <2>2 DEF KillMine
<1>2. /\ panes' \subseteq panes /\ adrift' \in SUBSET Agents
      /\ panes' \ adrift' \subseteq panes \ adrift
  <2>1. \A a \in panes : Kill(a) =>
          /\ panes' \subseteq panes /\ adrift' \in SUBSET Agents
          /\ panes' \ adrift' \subseteq panes \ adrift
    BY KillIs DEF IInv, LifeTypeOK
  <2>2. (\E a \in panes : Kill(a)) \/ UNCHANGED <<panes, adrift>>
    BY DEF KillMine
  <2> QED
    BY <2>1, <2>2 DEF IInv, LifeTypeOK
<1>3. LifeTypeOK'
  BY <1>1, <1>2 DEF KillMine, IInv, LifeTypeOK, teamFiles, talk, count
<1>4. Alone'
  BY <1>1 DEF KillMine, IInv, Alone, Busy, Starting
<1>5. Owned'
  <2>1. \A q \in Procs : Owns(call[q], panes \ adrift, born)
    BY DEF IInv, Owned
  <2>2. born' = born
    BY DEF KillMine
  <2>3. \A q \in Procs : Owns(call[q], panes' \ adrift', born)
    BY <1>2, <2>1 DEF Owns
  <2>4. Owns(call'[p], panes' \ adrift', born)
    <3>1. CASE call' = call
      BY <2>3, <3>1
    <3>2. CASE call' # call
      BY <1>1, <2>3, <3>2 DEF Owns, Stopping, Early, Copied
    <3> QED
      BY <3>1, <3>2
  <2> QED
    BY <1>1, <1>2, <2>2, <2>3, <2>4 DEF IInv, Owned
<1>6. Tracked'
  BY <1>1, <1>2 DEF KillMine, IInv, Tracked, Tracks, Starting
<1>7. Wiped'
  BY <1>1 DEF KillMine, teamFiles, IInv, Wiped
<1>8. NoStrayPane'
  BY <1>1, <1>2, <1>6 DEF KillMine, teamFiles, IInv, NoStrayPane, Named
<1> QED
  BY <1>3, <1>4, <1>5, <1>6, <1>7, <1>8 DEF IInv

\* when each of the panes its config named has been ended or set adrift, so has every pane
LEMMA TearDownKeeps ==
  ASSUME LifeParameters, IInv, NEW p \in Procs, TearDown(p)
  PROVE  IInv'
<1>1. /\ call' \in [Procs -> Calls]
      /\ \/ call' = call
         \/ /\ call[p].cfg \cap (panes \ adrift) = {}
            /\ panes' = panes /\ adrift' = adrift
            /\ call'[p].at = "finish" /\ call'[p].mine = {} /\ call'[p].cfg = {}
      /\ \A q \in Procs : q # p => call'[q] = call[q]
  <2>1. CASE call' = call
    BY <2>1 DEF IInv, LifeTypeOK
  <2>2. CASE /\ call[p].cfg \cap panes \subseteq adrift
             /\ Go(p, [NoCall EXCEPT !.at = "finish"]) /\ UNCHANGED <<panes, adrift>>
    <3> DEFINE c == [NoCall EXCEPT !.at = "finish"]
    <3>1. c \in Calls
      BY NoCallType DEF NoCall, Calls, Stopping
    <3>2. /\ call' \in [Procs -> Calls]
          /\ call'[p] = c
          /\ \A q \in Procs : q # p => call'[q] = call[q]
      BY <2>2, <3>1, GoIs DEF IInv, LifeTypeOK
    <3> QED
      BY <2>2, <3>2 DEF NoCall
  <2> QED
    BY <2>1, <2>2 DEF TearDown
<1>2. /\ panes' \subseteq panes /\ adrift' \in SUBSET Agents
      /\ panes' \ adrift' \subseteq panes \ adrift
  <2>1. \A a \in panes : Kill(a) =>
          /\ panes' \subseteq panes /\ adrift' \in SUBSET Agents
          /\ panes' \ adrift' \subseteq panes \ adrift
    BY KillIs DEF IInv, LifeTypeOK
  <2>2. (\E a \in panes : Kill(a)) \/ UNCHANGED <<panes, adrift>>
    BY DEF TearDown
  <2> QED
    BY <2>1, <2>2 DEF IInv, LifeTypeOK
<1>3. LifeTypeOK'
  BY <1>1, <1>2 DEF TearDown, IInv, LifeTypeOK, teamFiles, talk, count
<1>4. Alone'
  BY <1>1 DEF TearDown, IInv, Alone, Busy, Starting
<1>5. Owned'
  <2>1. \A q \in Procs : Owns(call[q], panes \ adrift, born)
    BY DEF IInv, Owned
  <2>2. born' = born /\ call[p].at = "tear down"
    BY DEF TearDown
  <2>3. \A q \in Procs : Owns(call[q], panes' \ adrift', born)
    BY <1>2, <2>1 DEF Owns
  <2>4. Owns(call'[p], panes' \ adrift', born)
    BY <1>1, <2>3 DEF Owns, Copied, Ended
  <2> QED
    BY <1>1, <1>2, <2>2, <2>3, <2>4 DEF IInv, Owned
<1>6. Tracked'
  BY <1>1, <1>2 DEF TearDown, IInv, Tracked, Tracks, Waits
<1>7. Wiped'
  BY <1>1 DEF TearDown, teamFiles, IInv, Wiped
<1>8. NoStrayPane'
  BY <1>1, <1>2, <1>6 DEF TearDown, teamFiles, IInv, NoStrayPane, Named, Owned, Owns, Stopping
<1> QED
  BY <1>3, <1>4, <1>5, <1>6, <1>7, <1>8 DEF IInv

\* a failed start removes the files after it has ended its panes
LEMMA WipeKeeps ==
  ASSUME LifeParameters, IInv, NEW p \in Procs, Wipe(p)
  PROVE  IInv'
<1>1. /\ call' \in [Procs -> Calls]
      /\ \/ call' = call
         \/ /\ call'[p].at = "failed"
            /\ call'[p].kept \/ (~dir' /\ config' = Absent /\ ~manifest')
            /\ call'[p].mine = call[p].mine /\ call'[p].mode = call[p].mode
            /\ call'[p].cfg = call[p].cfg
      /\ \A q \in Procs : q # p => call'[q] = call[q]
  <2>1. CASE call' = call
    BY <2>1 DEF IInv, LifeTypeOK
  <2>2. ASSUME NEW kept \in BOOLEAN, Removed(p, {"failed"}, kept)
        PROVE  /\ call' \in [Procs -> Calls]
               /\ call'[p].at = "failed" /\ call'[p].kept = kept
               /\ call'[p].mine = call[p].mine /\ call'[p].mode = call[p].mode
               /\ call'[p].cfg = call[p].cfg
               /\ \A q \in Procs : q # p => call'[q] = call[q]
    <3>1. Go(p, [call[p] EXCEPT !.at = "failed", !.kept = kept])
      BY <2>2 DEF Removed
    <3>2. "failed" \in Starting \cup Stopping
      BY DEF Starting, Stopping
    <3> QED
      BY <3>1, <3>2, RemovedIs DEF IInv, LifeTypeOK
  <2>3. \/ call' = call
        \/ Removed(p, {"failed"}, FALSE) /\ ~dir' /\ config' = Absent /\ ~manifest'
        \/ Removed(p, {"failed"}, TRUE)
    BY DEF Wipe, Remove
  <2> QED
    BY <2>1, <2>2, <2>3
<1>2. LifeTypeOK'
  BY <1>1, BoundsAreNat, NoAnswerType DEF Wipe, Remove, Forgotten, IInv, LifeTypeOK, teamFiles, agents,
     talk, count
<1>3. Alone'
  BY <1>1 DEF Wipe, Remove, teamFiles, IInv, Alone, Busy, Starting
<1>4. Owned'
  <2>1. CASE call' = call
    BY <2>1 DEF Wipe, Remove, agents, IInv, Owned
  <2>2. CASE call'[p].at = "failed"
    <3>1. call[p].at = "wipe" /\ UNCHANGED <<panes, born, adrift>>
      BY DEF Wipe, Remove, agents
    <3>2. Owns(call[p], panes \ adrift, born) /\ call'[p].mine = call[p].mine
          /\ call'[p].mode = call[p].mode /\ call'[p].cfg = call[p].cfg
      BY <1>1, <2>2 DEF IInv, Owned
    <3>3. Owns(call'[p], panes \ adrift, born)
      BY <2>2, <3>1, <3>2 DEF Owns, Stopping, Early, Copied, Ended
    <3> QED BY <1>1, <3>1, <3>3 DEF IInv, Owned
  <2> QED BY <1>1, <2>1, <2>2
<1>5. Tracked'
  BY <1>1 DEF Wipe, Remove, agents, IInv, Tracked, Tracks, Starting, Waits, Drained
<1>6. Wiped'
  BY <1>1 DEF Wipe, Remove, teamFiles, IInv, Wiped
<1>7. NoStrayPane'
  BY <1>1, <1>5 DEF Wipe, Remove, IInv, NoStrayPane, Tracked, Tracks, Starting
<1> QED
  BY <1>2, <1>3, <1>4, <1>5, <1>6, <1>7 DEF IInv

\* and a shutdown likewise
LEMMA SweepKeeps ==
  ASSUME LifeParameters, IInv, NEW p \in Procs, Sweep(p)
  PROVE  IInv'
<1>1. /\ call' \in [Procs -> Calls]
      /\ \/ call' = call
         \/ /\ call'[p].at = "stopped"
            /\ call'[p].kept \/ (~dir' /\ config' = Absent /\ ~manifest')
            /\ call'[p].mine = call[p].mine /\ call'[p].mode = call[p].mode
            /\ call'[p].cfg = call[p].cfg
      /\ \A q \in Procs : q # p => call'[q] = call[q]
  <2>1. CASE call' = call
    BY <2>1 DEF IInv, LifeTypeOK
  <2>2. ASSUME NEW kept \in BOOLEAN, Removed(p, {"stopped"}, kept)
        PROVE  /\ call' \in [Procs -> Calls]
               /\ call'[p].at = "stopped" /\ call'[p].kept = kept
               /\ call'[p].mine = call[p].mine /\ call'[p].mode = call[p].mode
               /\ call'[p].cfg = call[p].cfg
               /\ \A q \in Procs : q # p => call'[q] = call[q]
    <3>1. Go(p, [call[p] EXCEPT !.at = "stopped", !.kept = kept])
      BY <2>2 DEF Removed
    <3>2. "stopped" \in Starting \cup Stopping
      BY DEF Starting, Stopping
    <3> QED
      BY <3>1, <3>2, RemovedIs DEF IInv, LifeTypeOK
  <2>3. \/ call' = call
        \/ Removed(p, {"stopped"}, FALSE) /\ ~dir' /\ config' = Absent /\ ~manifest'
        \/ Removed(p, {"stopped"}, TRUE)
    BY DEF Sweep, Remove
  <2> QED
    BY <2>1, <2>2, <2>3
<1>2. LifeTypeOK'
  BY <1>1, BoundsAreNat, NoAnswerType DEF Sweep, Remove, Forgotten, IInv, LifeTypeOK, teamFiles, agents,
     talk, count
<1>3. Alone'
  BY <1>1 DEF Sweep, Remove, teamFiles, IInv, Alone, Busy, Starting
<1>4. Owned'
  <2>1. UNCHANGED <<panes, born, adrift>> /\ call[p].at = "sweep"
    BY DEF Sweep, Remove, agents
  <2>2. Owns(call[p], panes \ adrift, born)
    BY DEF IInv, Owned
  <2>3. Owns(call'[p], panes \ adrift, born)
    BY <1>1, <2>1, <2>2 DEF Owns, Stopping, Early, Copied, Ended
  <2> QED BY <1>1, <2>1, <2>3 DEF IInv, Owned
<1>5. Tracked'
  BY <1>1 DEF Sweep, Remove, agents, IInv, Tracked, Tracks, Drained
<1>6. Wiped'
  BY <1>1 DEF Sweep, Remove, teamFiles, IInv, Wiped
<1>7. NoStrayPane'
  BY <1>1, <1>5 DEF Sweep, Remove, IInv, NoStrayPane, Tracked, Tracks, Drained
<1> QED
  BY <1>2, <1>3, <1>4, <1>5, <1>6, <1>7 DEF IInv

\* what is removed before a start names no live pane
LEMMA CleanKeeps ==
  ASSUME LifeParameters, IInv, NEW p \in Procs, Clean(p)
  PROVE  IInv'
<1>1. /\ call' \in [Procs -> Calls]
      /\ \/ call' = call
         \/ /\ call'[p].at \in {"config", "idle"}
            /\ call'[p].mine = {}
      /\ \A q \in Procs : q # p => call'[q] = call[q]
  <2>1. CASE call' = call
    BY <2>1 DEF IInv, LifeTypeOK
  <2>2. ASSUME NEW kept \in BOOLEAN, Go(p, [call[p] EXCEPT !.at = "config", !.kept = kept])
        PROVE  /\ call' \in [Procs -> Calls]
               /\ call'[p].at = "config" /\ call'[p].mine = {}
               /\ \A q \in Procs : q # p => call'[q] = call[q]
    <3>1. call[p].mine = {}
      BY DEF IInv, Owned, Owns, Early, Clean, Remove
    <3>2. "config" \in Starting \cup Stopping
      BY DEF Starting
    <3> QED
      BY <2>2, <3>1, <3>2, RemovedIs DEF IInv, LifeTypeOK
  <2>3. CASE Go(p, NoCall)
    BY <2>3, GoIdle DEF IInv, LifeTypeOK
  <2>4. \/ call' = call
        \/ \E kept \in BOOLEAN : Removed(p, {"config", "idle"}, kept)
    BY DEF Clean, Remove
  <2>5. ASSUME NEW kept \in BOOLEAN, Removed(p, {"config", "idle"}, kept)
        PROVE  \/ Go(p, [call[p] EXCEPT !.at = "config", !.kept = kept])
               \/ Go(p, NoCall)
    BY <2>5 DEF Removed
  <2> QED
    BY <2>1, <2>2, <2>3, <2>4, <2>5
<1>2. LifeTypeOK'
  BY <1>1, BoundsAreNat, NoAnswerType DEF Clean, Remove, Forgotten, IInv, LifeTypeOK, teamFiles,
     agents, talk, count
<1>3. Alone'
  BY <1>1 DEF Clean, Remove, IInv, Alone, Busy, Starting
<1>4. Owned'
  BY <1>1 DEF Clean, Remove, agents, IInv, Owned, Owns, Copied
<1>5. Tracked'
  BY <1>1 DEF Clean, Remove, agents, IInv, Owned, Owns, Tracked, Tracks, Starting, Early
<1>6. Wiped'
  BY <1>1 DEF Clean, Remove, teamFiles, IInv, Wiped
<1>7. NoStrayPane'
  BY <1>1, <1>5 DEF Clean, Remove, agents, IInv, NoStrayPane, Owned, Owns, Tracked, Tracks,
     Starting, Early
<1> QED
  BY <1>2, <1>3, <1>4, <1>5, <1>6, <1>7 DEF IInv

\* a start beside another call sets crossed; any other is alone and meets no live pane
LEMMA StartKeeps ==
  ASSUME LifeParameters, IInv, NEW p \in Procs,
         NEW mode \in {"interactive", "prompt"}, Start(p, mode)
  PROVE  IInv'
<1>1. /\ call' \in [Procs -> Calls]
      /\ call'[p].at \in {"clean", "config"} /\ call'[p].mine = {}
      /\ \A q \in Procs : q # p => call'[q] = call[q]
  <2>1. PICK cleans \in BOOLEAN :
             Go(p, [NoCall EXCEPT !.at = IF dir /\ cleans THEN "clean" ELSE "config",
                                  !.mode = mode, !.left = Cardinality(Team)])
    BY DEF Start
  <2>2. PICK place \in {"clean", "config"} :
             Go(p, [NoCall EXCEPT !.at = place, !.mode = mode, !.left = Cardinality(Team)])
    BY <2>1
  <2> DEFINE c == [NoCall EXCEPT !.at = place, !.mode = mode, !.left = Cardinality(Team)]
  <2>3. c \in Calls
    <3>1. Cardinality(Team) \in Nat
      BY FS_CardinalityType DEF LifeParameters
    <3>2. place \in Starting
      BY <2>2 DEF Starting
    <3> QED
      BY <3>1, <3>2, NoCallType DEF Calls
  <2>4. /\ call' \in [Procs -> Calls]
        /\ call'[p] = c
        /\ \A q \in Procs : q # p => call'[q] = call[q]
    BY <2>2, <2>3, GoIs DEF IInv, LifeTypeOK
  <2>5. call'[p].at = place /\ call'[p].mine = {}
    BY <2>4 DEF NoCall
  <2> QED
    BY <2>2, <2>4, <2>5
<1>2. LifeTypeOK'
  BY <1>1, BoundsAreNat DEF Start, IInv, LifeTypeOK, teamFiles, agents, talk
<1>3. Alone'
  BY <1>1 DEF Start, IInv, Alone, Busy, Starting
<1>4. Owned'
  BY <1>1 DEF Start, agents, IInv, Owned, Owns, Copied
<1>5. Tracked'
  <2> SUFFICES ASSUME ~crossed'
               PROVE  \A q \in Procs : Tracks(call'[q], panes \ adrift)
    BY DEF Start, agents, Tracked
  <2>1. ~crossed /\ \A q \in Procs : call[q].at = "idle" /\ call[q].mine = {}
    BY DEF Start, Busy, IInv, Owned, Owns
  <2>2. Named = {}
    BY DEF Start, Refused, Named
  <2>3. panes \ adrift = {}
    BY <2>1, <2>2 DEF IInv, NoStrayPane
  <2>4. call'[p].at \in Starting /\ call'[p].at \notin Waits /\ call'[p].at \notin Drained
    BY <1>1 DEF Starting, Waits, Drained
  <2> QED
    BY <1>1, <2>1, <2>3, <2>4 DEF Tracks, Waits, Drained, Starting
<1>6. Wiped'
  BY <1>1 DEF Start, teamFiles, IInv, Wiped
<1>7. NoStrayPane'
  BY <1>1, <1>5 DEF Start, IInv, NoStrayPane, Tracked, Tracks, Starting
<1> QED
  BY <1>2, <1>3, <1>4, <1>5, <1>6, <1>7 DEF IInv

\* a shutdown that begins beside a start sets crossed
LEMMA StopKeeps ==
  ASSUME LifeParameters, IInv, NEW p \in Procs, NEW force \in BOOLEAN, Stop(p, force)
  PROVE  IInv'
<1>1. /\ call' \in [Procs -> Calls]
      /\ call'[p].mine = {}
      /\ \/ config = Absent /\ call'[p].at = "sweep"
         \/ config # Absent /\ call'[p].at = "ask" /\ call'[p].cfg = config
      /\ \A q \in Procs : q # p => call'[q] = call[q]
  <2>1. CASE config = Absent
    <3> DEFINE c == [NoCall EXCEPT !.at = "sweep"]
    <3>1. c \in Calls /\ Go(p, c)
      BY <2>1, NoCallType DEF Stop, Calls, Stopping
    <3>2. /\ call' \in [Procs -> Calls]
          /\ call'[p] = c
          /\ \A q \in Procs : q # p => call'[q] = call[q]
      BY <3>1, GoIs DEF IInv, LifeTypeOK
    <3> QED
      BY <2>1, <3>2 DEF NoCall
  <2>2. CASE config # Absent
    <3> DEFINE c == [NoCall EXCEPT !.at = "ask", !.cfg = config, !.force = force,
                                   !.date = clock + 1]
    <3>1. config \in SUBSET Agents /\ clock + 1 \in 0 .. MaxStops
      BY <2>2, BoundsAreNat DEF Stop, IInv, LifeTypeOK
    <3>2. c \in Calls
      BY <3>1, NoCallType DEF Calls, Stopping
    <3>3. Go(p, c)
      BY <2>2 DEF Stop
    <3>4. /\ call' \in [Procs -> Calls]
          /\ call'[p] = c
          /\ \A q \in Procs : q # p => call'[q] = call[q]
      BY <3>2, <3>3, GoIs DEF IInv, LifeTypeOK
    <3> QED
      BY <2>2, <3>4 DEF NoCall
  <2> QED
    BY <2>1, <2>2
<1>2. LifeTypeOK'
  BY <1>1, BoundsAreNat DEF Stop, IInv, LifeTypeOK, teamFiles, agents, talk
<1>3. Alone'
  BY <1>1 DEF Stop, IInv, Alone, Busy, Starting
<1>4. Owned'
  BY <1>1 DEF Stop, agents, IInv, Owned, Owns, Copied
<1>5. Tracked'
  <2> SUFFICES ASSUME ~crossed'
               PROVE  \A q \in Procs : Tracks(call'[q], panes \ adrift)
    BY DEF Stop, agents, Tracked
  <2>1. ~crossed /\ \A q \in Procs : call[q].at \notin Starting
    BY DEF Stop
  <2>2. \A q \in Procs : call[q].mine = {}
    BY <2>1 DEF IInv, LifeTypeOK, Calls, Owned, Owns
  <2>3. panes \ adrift \subseteq Named
    BY <2>1, <2>2 DEF IInv, NoStrayPane
  <2>4. Tracks(call'[p], panes \ adrift)
    BY <1>1, <2>3 DEF Stop, Named, Tracks, Starting, Waits, Drained
  <2> QED
    BY <1>1, <2>1, <2>4 DEF IInv, Tracked
<1>6. Wiped'
  BY <1>1 DEF Stop, teamFiles, IInv, Wiped
<1>7. NoStrayPane'
  BY <1>1, <1>5 DEF Stop, teamFiles, IInv, NoStrayPane, Named, Tracked, Tracks, Waits, Drained
<1> QED
  BY <1>2, <1>3, <1>4, <1>5, <1>6, <1>7 DEF IInv

\* answers touch neither files nor panes
LEMMA AnswerKeeps ==
  ASSUME LifeParameters, IInv, NEW w \in Team, Answer(w)
  PROVE  IInv'
<1>1. LifeTypeOK'
  <2>1. PICK says \in {"accept", "reject"} :
             answer' = [answer EXCEPT ![w] = [date |-> clock, says |-> says]]
    BY DEF Answer
  <2>2. [date |-> clock, says |-> says] \in Answers
    BY <2>1 DEF IInv, LifeTypeOK, Answers
  <2>3. answer' \in [Team -> Answers]
    BY <2>1, <2>2 DEF IInv, LifeTypeOK
  <2> QED
    BY <2>3 DEF Answer, IInv, LifeTypeOK, teamFiles, agents, count
<1> QED
  BY <1>1 DEF Answer, IInv, teamFiles, agents, count, Alone, Busy, Owned, Tracked, Wiped,
              NoStrayPane, Named

\* nothing happens
LEMMA StutterKeeps ==
  ASSUME IInv, UNCHANGED lifeVars
  PROVE  IInv'
  BY DEF lifeVars, teamFiles, agents, talk, count, IInv, LifeTypeOK, Alone, Busy, Owned, Tracked, Wiped,
         NoStrayPane, Named

\* at first there is no team
LEMMA InitHolds ==
  ASSUME LifeParameters, LifeInit
  PROVE  IInv
<1>1. LifeTypeOK
  <2>1. answer \in [Team -> Answers]
    BY NoAnswerType DEF LifeInit
  <2>2. call \in [Procs -> Calls]
    <3>1. NoCall \in Calls
      BY NoCallType
    <3> QED
      BY <3>1 DEF LifeInit
  <2>3. dir \in BOOLEAN /\ manifest \in BOOLEAN /\ children \in BOOLEAN /\ crossed \in BOOLEAN
    BY DEF LifeInit
  <2>4. /\ 0 \in 0 .. MaxAgents /\ 0 \in 0 .. MaxStarts
        /\ 0 \in 0 .. MaxStops /\ 0 \in 0 .. MaxFaults
    BY BoundsAreNat
  <2>5. born = 0 /\ starts = 0 /\ clock = 0 /\ faults = 0
    BY DEF LifeInit
  <2>6. config \in {Absent, Torn} /\ panes = {} /\ adrift = {} /\ asked = {}
    BY DEF LifeInit
  <2> QED
    BY <2>1, <2>2, <2>3, <2>4, <2>5, <2>6 DEF LifeTypeOK
<1>2. \A p \in Procs : call[p].at = "idle" /\ call[p].mine = {}
  BY DEF LifeInit, NoCall
<1> QED
  BY <1>1, <1>2 DEF LifeInit, IInv, Alone, Owned, Owns, Tracked, Tracks, Wiped, NoStrayPane,
                    Starting, Stopping, Early, Copied, Ended, Waits, Drained

\* every action keeps the invariant
LEMMA NextKeeps ==
  ASSUME LifeParameters, IInv, [LifeNext]_lifeVars
  PROVE  IInv'
<1>1. ASSUME NEW p \in Procs, NEW mode \in {"interactive", "prompt"}, Start(p, mode)
      PROVE  IInv'
  BY <1>1, StartKeeps
<1>2. ASSUME NEW p \in Procs, NEW force \in BOOLEAN, Stop(p, force)
      PROVE  IInv'
  BY <1>2, StopKeeps
<1>3. ASSUME NEW p \in Procs, StartStep(p)
      PROVE  IInv'
  BY <1>3, CleanKeeps, InitConfigKeeps, InitManifestKeeps, ReadConfigKeeps, SplitKeeps,
     SpawnKeeps, CreatedKeeps, SplitFailsKeeps, SplitInterruptedKeeps, OpenSaveKeeps,
     FillSaveKeeps, ReadyKeeps, OpenResaveKeeps, FillResaveKeeps, FailKeeps, RollbackKeeps,
     OpenUnhookKeeps, FillUnhookKeeps, UnhookFailsKeeps, KillMineKeeps, WipeKeeps, RaiseKeeps
     DEF StartStep
<1>4. ASSUME NEW p \in Procs, StopStep(p)
      PROVE  IInv'
  BY <1>4, AskKeeps, PollKeeps, TearDownKeeps, FinishKeeps, SweepKeeps, ReturnKeeps
     DEF StopStep
<1>5. ASSUME NEW p \in Procs, KillCall(p)
      PROVE  IInv'
  BY <1>5, KillKeeps
<1>6. ASSUME NEW w \in Team, Answer(w)
      PROVE  IInv'
  BY <1>6, AnswerKeeps
<1> QED
  BY <1>1, <1>2, <1>3, <1>4, <1>5, <1>6, StutterKeeps DEF LifeNext

\* hence it always holds
LEMMA Invariance ==
  ASSUME LifeParameters
  PROVE  LifeSpec => []IInv
<1>1. LifeInit => IInv
  BY InitHolds
<1>2. IInv /\ [LifeNext]_lifeVars => IInv'
  BY NextKeeps
<1> QED
  BY <1>1, <1>2, PTL DEF LifeSpec

\* Every variable of the team's life keeps its type.
THEOREM TypeCorrect ==
  ASSUME LifeParameters
  PROVE  LifeSpec => []LifeTypeOK
<1>1. IInv => LifeTypeOK
  BY DEF IInv
<1> QED
  BY <1>1, Invariance, PTL

\* No pane is lost that was not given up: while no start overlaps with another call, a
\* living pane is named by the config, held by the start that split it, or adrift: left by a
\* kill, by Ctrl-C, by a kill of it that tmux did not carry out, or without a known id.
THEOREM NoStray ==
  ASSUME LifeParameters
  PROVE  LifeSpec => []NoStrayPane
<1>1. IInv => NoStrayPane
  BY DEF IInv
<1> QED
  BY <1>1, Invariance, PTL

\* A failed start and a finished shutdown leave no pane but those adrift, and no file of a
\* team unless a file could not be removed.
THEOREM NothingLeft ==
  ASSUME LifeParameters
  PROVE  LifeSpec => []LeavesNothing
<1>1. IInv => LeavesNothing
  <2> SUFFICES ASSUME IInv, NEW p \in Procs
               PROVE  /\ call[p].at = "failed" => call[p].mine \cap panes \subseteq adrift
                      /\ call[p].at \in {"failed", "stopped"} /\ ~crossed =>
                           /\ panes \subseteq adrift
                           /\ ~call[p].kept => config = Absent /\ ~manifest
                      /\ call[p].at = "failed" /\ ~crossed /\ ~call[p].kept => ~dir
    BY DEF LeavesNothing
  <2>1. call[p].at = "failed" => call[p].mine \cap (panes \ adrift) = {}
    BY DEF IInv, Owned, Owns, Ended
  <2>2. call[p].at \in {"failed", "stopped"} /\ ~crossed => panes \subseteq adrift
    BY <2>1 DEF IInv, Tracked, Tracks, Starting, Drained
  <2> QED
    BY <2>1, <2>2 DEF IInv, Wiped
<1> QED
  BY <1>1, Invariance, PTL

\* of all the steps only a poll of its own, or the death of its process, ends the wait
LEMMA OnlyPollGivesUp ==
  ASSUME LifeTypeOK, NEW p \in Procs, [LifeNext]_lifeVars, GivesUp(p)
  PROVE  Poll(p)
<1>1. ASSUME NEW q \in Procs, NEW mode \in {"interactive", "prompt"}, Start(q, mode)
      PROVE  Poll(p)
  BY <1>1 DEF Start, Busy, Go, GivesUp, LifeTypeOK
<1>2. ASSUME NEW q \in Procs, NEW force \in BOOLEAN, Stop(q, force)
      PROVE  Poll(p)
  BY <1>2 DEF Stop, Busy, Go, GivesUp, LifeTypeOK
<1>3. ASSUME NEW q \in Procs, StartStep(q)
      PROVE  Poll(p)
  <2>1. CASE Clean(q)
    BY <2>1 DEF Clean, Remove, Removed, GoTo, Go, GivesUp, LifeTypeOK
  <2>2. CASE InitConfig(q)
    BY <2>2 DEF InitConfig, GoTo, Go, GivesUp, LifeTypeOK
  <2>3. CASE InitManifest(q)
    BY <2>3 DEF InitManifest, GoTo, Go, GivesUp, LifeTypeOK
  <2>4. CASE ReadConfig(q)
    BY <2>4 DEF ReadConfig, GoTo, Go, GivesUp, LifeTypeOK
  <2>5. CASE Split(q)
    BY <2>5 DEF Split, Launched, Go, GivesUp, LifeTypeOK
  <2>6. CASE Spawn(q)
    BY <2>6 DEF Spawn, Launched, Go, GivesUp, LifeTypeOK
  <2>7. CASE Created(q)
    BY <2>7 DEF Created, Go, GivesUp, LifeTypeOK
  <2>8. CASE SplitFails(q)
    BY <2>8 DEF SplitFails, Go, GivesUp, LifeTypeOK
  <2>9. CASE SplitInterrupted(q)
    BY <2>9 DEF SplitInterrupted, Go, GivesUp, LifeTypeOK
  <2>10. CASE OpenSave(q)
    BY <2>10 DEF OpenSave, Open, GoTo, Go, GivesUp, LifeTypeOK
  <2>11. CASE FillSave(q)
    BY <2>11 DEF FillSave, Fill, GoTo, Go, GivesUp, LifeTypeOK
  <2>12. CASE Ready(q)
    BY <2>12 DEF Ready, GoTo, Go, GivesUp, LifeTypeOK
  <2>13. CASE OpenResave(q)
    BY <2>13 DEF OpenResave, Open, GoTo, Go, GivesUp, LifeTypeOK
  <2>14. CASE FillResave(q)
    BY <2>14 DEF FillResave, Fill, GoTo, Go, GivesUp, LifeTypeOK
  <2>15. CASE Fail(q)
    BY <2>15 DEF Fail, Go, GivesUp, LifeTypeOK
  <2>16. CASE Rollback(q)
    BY <2>16 DEF Rollback, GoTo, Go, GivesUp, LifeTypeOK
  <2>17. CASE OpenUnhook(q)
    BY <2>17 DEF OpenUnhook, Open, GoTo, Go, GivesUp, LifeTypeOK
  <2>18. CASE FillUnhook(q)
    BY <2>18 DEF FillUnhook, Fill, GoTo, Go, GivesUp, LifeTypeOK
  <2>19. CASE KillMine(q)
    BY <2>19 DEF KillMine, GoTo, Go, GivesUp, LifeTypeOK
  <2>20. CASE Wipe(q)
    BY <2>20 DEF Wipe, Remove, Removed, GoTo, Go, GivesUp, LifeTypeOK
  <2>21. CASE Raise(q)
    BY <2>21 DEF Raise, Go, GivesUp, LifeTypeOK
  <2>22. CASE UnhookFails(q)
    BY <2>22 DEF UnhookFails, GoTo, Go, GivesUp, LifeTypeOK
  <2> QED
    BY <1>3, <2>1, <2>2, <2>3, <2>4, <2>5, <2>6, <2>7, <2>8, <2>9, <2>10, <2>11, <2>12, <2>13,
       <2>14, <2>15, <2>16, <2>17, <2>18, <2>19, <2>20, <2>21, <2>22 DEF StartStep
<1>4. ASSUME NEW q \in Procs, StopStep(q)
      PROVE  Poll(p)
  <2>1. CASE AskWorker(q)
    BY <2>1 DEF AskWorker, Go, GivesUp, LifeTypeOK
  <2>2. CASE Poll(q)
    BY <2>2 DEF Poll, GoTo, Go, GivesUp, LifeTypeOK
  <2>3. CASE TearDown(q)
    BY <2>3 DEF TearDown, GoTo, Go, GivesUp, LifeTypeOK
  <2>4. CASE Finish(q)
    BY <2>4 DEF Finish, GoTo, Go, GivesUp, LifeTypeOK
  <2>5. CASE Sweep(q)
    BY <2>5 DEF Sweep, Remove, Removed, GoTo, Go, GivesUp, LifeTypeOK
  <2>6. CASE Return(q)
    BY <2>6 DEF Return, Go, GivesUp, LifeTypeOK
  <2> QED
    BY <1>4, <2>1, <2>2, <2>3, <2>4, <2>5, <2>6 DEF StopStep
<1>5. ASSUME NEW q \in Procs, KillCall(q)
      PROVE  Poll(p)
  BY <1>5 DEF KillCall, Go, GivesUp, LifeTypeOK
<1>6. ASSUME NEW w \in Team, Answer(w)
      PROVE  Poll(p)
  BY <1>6 DEF Answer, Go, GivesUp, LifeTypeOK
<1>7. CASE UNCHANGED lifeVars
  BY <1>7 DEF lifeVars, GivesUp, LifeTypeOK
<1> QED
  BY <1>1, <1>2, <1>3, <1>4, <1>5, <1>6, <1>7 DEF LifeNext

\* A shutdown is refused only by an answer to that shutdown, unless its request could not
\* be written.
THEOREM Refusals ==
  ASSUME LifeParameters
  PROVE  LifeSpec => RefusalIsCurrent
<1> DEFINE Current(p) == \E w \in Team :
                           /\ answer[w].says = "reject"
                           /\ answer[w].date >= call[p].date \/ w \in call[p].unasked
<1>1. ASSUME LifeTypeOK, [LifeNext]_lifeVars
      PROVE  [\A p \in Procs : GivesUp(p) => Current(p)]_lifeVars
  <2> SUFFICES ASSUME NEW p \in Procs, GivesUp(p)
               PROVE  Current(p)
    OBVIOUS
  <2>1. Poll(p)
    BY <1>1, OnlyPollGivesUp
  <2>2. Rejected(call[p])
    BY <1>1, <2>1 DEF Poll, GivesUp, Go, NoCall, LifeTypeOK
  <2> QED
    BY <2>2 DEF Rejected, Heeds
<1> QED
  BY <1>1, TypeCorrect, PTL DEF LifeSpec, RefusalIsCurrent

=============================================================================
