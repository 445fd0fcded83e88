---------------------------- MODULE EngineReplay ----------------------------
(* RuntimeEngine.load: the engine state rebuilt from its event log. *)
EXTENDS EngineState

\* _replay_event: the command's effect, its domain error swallowed
ReplayEvent(e, v) == IF Accepts(e, v) THEN Effect(e, v) ELSE e

\* the engine after each number of events
Replays(events) ==
  LET after[n \in 0 .. Len(events)] ==
        IF n = 0 THEN Fresh ELSE ReplayEvent(after[n - 1], events[n])
  IN  after

Replay(events) == Replays(events)[Len(events)]
=============================================================================
