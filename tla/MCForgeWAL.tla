----------------------------- MODULE MCForgeWAL -----------------------------
(***************************************************************************)
(* ForgeWAL for TLC: the settings the runs look at.                        *)
(***************************************************************************)
EXTENDS ForgeWAL

Plain == [commands |-> FALSE, raft |-> {}, prune |-> FALSE,
          torn |-> TRUE, appendFails |-> TRUE, sets |-> FALSE,
          timers |-> TRUE, records |-> 4, index |-> 2, crashes |-> 1]

One == CHOOSE g \in Groups : TRUE

\* One group that prunes; the same with a longer log, and all groups, without the
\* tickers, which only add syncs and rotations.
OneShard == [Plain EXCEPT !.raft = {One}, !.prune = TRUE]
LongLog == [OneShard EXCEPT !.timers = FALSE, !.index = 3]
Shards == [Plain EXCEPT !.raft = Groups, !.prune = TRUE, !.timers = FALSE,
                        !.appendFails = FALSE, !.records = 3, !.crashes = 0]

\* Commands alone, groups that prune, and commands that share segments with a group.
Safe == {[Plain EXCEPT !.commands = TRUE],
         OneShard, LongLog, Shards,
         [Plain EXCEPT !.commands = TRUE, !.raft = {One}, !.records = 3]}

\* Where PruneKeepsAboveFloor fails: two groups, a restart, commands.
Mixed == {Shards}
Restarted == {LongLog}
WithCommands == {[OneShard EXCEPT !.commands = TRUE]}

DurableSets == {[Plain EXCEPT !.commands = TRUE, !.sets = TRUE]}
Raft == {[Plain EXCEPT !.raft = {One}, !.appendFails = FALSE]}
=============================================================================
