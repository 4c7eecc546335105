--------------------------- MODULE MCTurnHooks ---------------------------
(* TurnHooks for TLC: one hook id given twice, and a set to reload. *)
EXTENDS TurnHooks, TLC

Handoff(id, min) == [id |-> id, kind |-> "handoff", min |-> min]
CompactAt(min) == [id |-> "compact", kind |-> "compact", min |-> min]

MCHookSets == { << Handoff("h", 1), Handoff("h", 1) >>,
                << CompactAt(2), Handoff("h", 3) >> }

\* Bound: clients' requests come in behaviours without a peer's message and
\* without a watcher, and watchers see turns whose hooks have not begun: what
\* hooks do is not told to the parent's watchers here.
Apart ==
    /\ peers < MaxPeers => \A c \in Clients : request[c] = "idle"
    /\ (\E w \in Watchers : watcher[w].pc # "away") =>
          /\ \A c \in Clients : request[c] = "idle"
          /\ \A t \in Turns : pc[t] \notin HandoffSteps \union {"hooks"}

TurnSymmetry == Permutations(Turns)
==========================================================================
