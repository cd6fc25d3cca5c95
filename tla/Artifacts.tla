------------------------------- MODULE Artifacts -------------------------------
(***************************************************************************)
(* The files of one runtime_id and the processes that share them: a daemon *)
(* session (run_daemon, run_loop) that may be killed at any step and       *)
(* started again, with or without --clean, one session at a time; the      *)
(* operator who approves a strategy switch; a sandbox that takes the live  *)
(* portfolio as baseline.  A file is written by truncating it and then     *)
(* filling it, a log by appending lines; a kill leaves what was written.   *)
(***************************************************************************)
EXTENDS Integers, Sequences

CONSTANTS
  Symbols,
  Strategies,     \* every strategy is configured for every symbol
  NameRank,       \* strategy -> its place among the sorted names
  ScoreMaps,      \* final scores the strategies may get in a tick
  Envs,           \* environments a daemon is started for
  ArtifactEvery,  \* --artifact-every
  MaxTicks,       \* --max-ticks
  MaxSessions,    \* bound of the number of sessions
  MaxApprovals,   \* bound of the number of approvals
  NoFile,         \* a file that does not exist, or a score never logged
  Torn,           \* a file or a last line that cannot be parsed
  Clone           \* the portfolio of the live runtime a sandbox clones in memory

Scores == [Symbols -> [Strategies -> Int \cup {NoFile}]]

EnabledMap == [Symbols -> SUBSET Strategies]

ASSUME ArtifactsConfig ==
  /\ NameRank \in [Strategies -> Nat]
  /\ \A a, b \in Strategies : NameRank[a] = NameRank[b] => a = b
  /\ ScoreMaps \subseteq [Symbols -> [Strategies -> Int]]
  /\ "live" \in Envs /\ Envs \subseteq {"live", "sandbox"}
  /\ {ArtifactEvery, MaxTicks} \subseteq Nat \ {0}
  /\ {MaxSessions, MaxApprovals} \subseteq Nat
  /\ NoFile /= Torn /\ {NoFile, Torn, Clone} \cap Int = {}
  /\ {NoFile, Torn} \cap EnabledMap = {} /\ Torn \notin ScoreMaps

VARIABLES
  pc,         \* the step the daemon is about to take; "down" when it does not run
  phase,      \* which of run_loop's write_daemon_artifacts comes next
  env, tick, sessions,
  stops,      \* --stop-on-exception of the session
  runs,       \* _tick of the session's executor: its calls to run
  enabled,    \* enabled_strategies_by_symbol of the session
  latest,     \* env -> the last score logged of each strategy
  logTorn,    \* env -> a line of its score log cannot be parsed
  proposal,   \* strategy_switch_proposal file
  writing,    \* what write_strategy_switch_proposal is about to fill it with
  approved,   \* strategy_switch_approved file
  approving,  \* what the operator read from the proposal; NoFile when idle
  approvals,  \* number of approvals
  granted,    \* maps approved since the approved file was last removed, in order
  seen,       \* how many of them there were when the session loaded its own
  snap,       \* number -> portfolio_<number>.pkl: NoFile, Torn or a version
  index,      \* the last line of portfolio_snapshots.jsonl: a snapshot's number
  indexCut,   \* the index does not end with a newline
  saves,      \* snapshots filled so far; the version of the newest
  indexed,    \* version of the last snapshot that got its line in the index
  reader,     \* the number a sandbox is about to open; NoFile when idle
  since,      \* indexed, when the sandbox read the index
  baseline,   \* the version the sandbox took, or Clone
  said        \* env -> scores of all strategies in its last tick; Torn if cut short

loopVars     == <<phase, env, tick, sessions, stops, runs, enabled>>
sessionVars  == <<pc, loopVars>>
scoreVars    == <<latest, logTorn, said>>
switchVars   == <<proposal, writing, approved, granted, seen>>
operatorVars == <<approving, approvals>>
snapVars     == <<snap, index, indexCut, saves, indexed>>
readerVars   == <<reader, since, baseline>>

vars == <<sessionVars, scoreVars, switchVars, operatorVars, snapVars, readerVars>>

DefaultEnabled == [s \in Symbols |-> Strategies]

NoScores == [s \in Symbols |-> [n \in Strategies |-> NoFile]]

Numbers == 0..(MaxTicks - 1)

(***************************************************************************)
(* _rank_strategies and write_strategy_switch_proposal: the strategy with  *)
(* the best last score of each symbol, whatever that score is.             *)
(***************************************************************************)

RankedFirst(sc) ==
  {n \in Strategies : sc[n] /= NoFile /\
     \A m \in Strategies \ {n} : sc[m] /= NoFile =>
       sc[n] > sc[m] \/ (sc[n] = sc[m] /\ NameRank[n] < NameRank[m])}

Recommended(scores) == [s \in Symbols |-> RankedFirst(scores[s])]

(***************************************************************************)
(* A session starts: run_daemon, clean_runtime_paths, build_universe_session *)
(***************************************************************************)

Boot(e, clean, stop) ==
  /\ pc = "down" /\ sessions < MaxSessions
  /\ sessions' = sessions + 1
  /\ env' = e /\ tick' = 0 /\ runs' = 0 /\ stops' = stop /\ phase' = "start"
  /\ pc' = IF clean THEN "cleanSnapshots" ELSE "load"
  /\ UNCHANGED <<enabled, scoreVars, switchVars, operatorVars, snapVars, readerVars>>

\* remove_tree takes the paths in reverse order: score log, snapshots, then the index.
CleanSnapshots ==
  /\ pc = "cleanSnapshots"
  /\ latest' = [e \in Envs |-> NoScores] /\ said' = [e \in Envs |-> NoScores]
  /\ logTorn' = [e \in Envs |-> FALSE]
  /\ snap' = [k \in Numbers |-> NoFile]
  /\ pc' = "cleanIndex"
  /\ UNCHANGED <<loopVars, switchVars, operatorVars,
                 index, indexCut, saves, indexed, readerVars>>

CleanIndex ==
  /\ pc = "cleanIndex"
  /\ index' = NoFile /\ indexCut' = FALSE
  /\ pc' = "cleanSwitch"
  /\ UNCHANGED <<loopVars, scoreVars, switchVars, operatorVars,
                 snap, saves, indexed, readerVars>>

\* An approved file the operator has opened is filled after it is removed.
CleanSwitch ==
  /\ pc = "cleanSwitch"
  /\ proposal' = NoFile /\ approved' = NoFile /\ granted' = <<>>
  /\ approving' = NoFile
  /\ pc' = "load"
  /\ UNCHANGED <<loopVars, scoreVars, writing, seen,
                 approvals, snapVars, readerVars>>

\* Mutant: a file that cannot be parsed counts as none.
LoadLenient ==
  /\ pc = "load"
  /\ enabled' = IF approved \in {NoFile, Torn} THEN DefaultEnabled ELSE approved
  /\ seen' = Len(granted)
  /\ pc' = "artifacts"
  /\ UNCHANGED <<phase, env, tick, sessions, stops, runs, scoreVars, proposal, writing,
                 approved, granted, operatorVars, snapVars, readerVars>>

\* load_approved_strategy_map raises on a torn file: the session does not start.
Load ==
  /\ pc = "load"
  /\ IF approved = Torn THEN pc' = "down" /\ UNCHANGED <<enabled, seen>>
     ELSE /\ enabled' = IF approved = NoFile THEN DefaultEnabled ELSE approved
          /\ seen' = Len(granted)
          /\ pc' = "artifacts"
  /\ UNCHANGED <<phase, env, tick, sessions, stops, runs, scoreVars, proposal, writing,
                 approved, granted, operatorVars, snapVars, readerVars>>

(***************************************************************************)
(* write_daemon_artifacts.  _read_jsonl raises on a line it cannot parse,  *)
(* which ends run_loop.                                                    *)
(***************************************************************************)

ReadEvents ==
  /\ pc = "artifacts"
  /\ IF logTorn[env] THEN pc' = "down" /\ UNCHANGED <<proposal, writing>>
     ELSE /\ writing' = Recommended(latest[env])
          /\ proposal' = Torn
          /\ pc' = "proposal"
  /\ UNCHANGED <<loopVars, scoreVars, approved, granted, seen,
                 operatorVars, snapVars, readerVars>>

FillProposal ==
  /\ pc = "proposal"
  /\ proposal' = writing /\ writing' = NoFile
  /\ pc' = IF phase = "end" THEN "down" ELSE "loop"
  /\ UNCHANGED <<loopVars, scoreVars, approved, granted, seen,
                 operatorVars, snapVars, readerVars>>

(***************************************************************************)
(* run_loop.  A tick logs the score of every strategy, enabled or not, and *)
(* runs the executor for a decision the router kept, if any (at most one a *)
(* tick here), which saves the portfolio under the number of its runs: 0,  *)
(* 1, ... in every session.  Snapshots are followed for the live store.    *)
(***************************************************************************)

LoopEnds ==
  /\ pc = "loop" /\ tick = MaxTicks
  /\ phase' = "end" /\ pc' = "artifacts"
  /\ UNCHANGED <<env, tick, sessions, stops, runs, enabled, scoreVars, switchVars, operatorVars,
                 snapVars, readerVars>>

AfterTick == IF (tick + 1) % ArtifactEvery = 0 THEN "artifacts" ELSE "loop"

TickEnds ==
  /\ pc = "run"
  /\ tick' = tick + 1 /\ phase' = "loop" /\ pc' = AfterTick
  /\ UNCHANGED <<env, sessions, stops, runs, enabled, scoreVars, switchVars, operatorVars,
                 snapVars, readerVars>>

\* One more refresh before the exception is raised again, or the loop goes on.
TickRaises ==
  /\ pc = "run" \/ (pc = "loop" /\ tick < MaxTicks)
  /\ IF stops THEN phase' = "end" /\ pc' = "artifacts" /\ UNCHANGED tick
     ELSE phase' = "loop" /\ pc' = AfterTick /\ tick' = tick + 1
  /\ UNCHANGED <<env, sessions, stops, runs, enabled, scoreVars, switchVars, operatorVars,
                 snapVars, readerVars>>

\* Mutant: only the enabled strategies log their scores.
LogScoresEnabled(sc) ==
  /\ pc = "loop" /\ tick < MaxTicks
  /\ said' = [said EXCEPT ![env] = sc]
  /\ latest' = [latest EXCEPT ![env] =
                  [s \in Symbols |-> [n \in Strategies |->
                     IF n \in enabled[s] THEN sc[s][n] ELSE latest[env][s][n]]]]
  /\ pc' = "run"
  /\ UNCHANGED <<loopVars, logTorn, switchVars, operatorVars, snapVars, readerVars>>

LogScores(sc) ==
  /\ pc = "loop" /\ tick < MaxTicks
  /\ said' = [said EXCEPT ![env] = sc]
  /\ latest' = [latest EXCEPT ![env] = sc]
  /\ pc' = "run"
  /\ UNCHANGED <<loopVars, logTorn, switchVars,
                 operatorVars, snapVars, readerVars>>

\* Mutant: the line of the index is there before the file it names.
OpenSnapshotIndexed ==
  /\ pc = "run" /\ env = "live" /\ runs <= tick
  /\ snap' = [snap EXCEPT ![runs] = Torn]
  /\ index' = IF indexCut THEN Torn ELSE runs
  /\ pc' = "dump"
  /\ UNCHANGED <<loopVars, scoreVars, switchVars, operatorVars, indexCut, saves, indexed,
                 readerVars>>

\* save_portfolio_snapshot
OpenSnapshot ==
  /\ pc = "run" /\ env = "live" /\ runs <= tick
  /\ snap' = [snap EXCEPT ![runs] = Torn]
  /\ pc' = "dump"
  /\ UNCHANGED <<loopVars, scoreVars, switchVars,
                 operatorVars, index, indexCut, saves, indexed, readerVars>>

DumpSnapshot ==
  /\ pc = "dump"
  /\ saves' = saves + 1
  /\ snap' = [snap EXCEPT ![runs] = saves + 1]
  /\ pc' = "index"
  /\ UNCHANGED <<loopVars, scoreVars, switchVars,
                 operatorVars, index, indexCut, indexed, readerVars>>

\* A line appended to one that was cut short makes one line that cannot be parsed.
IndexSnapshot ==
  /\ pc = "index"
  /\ index' = IF indexCut THEN Torn ELSE runs
  /\ indexed' = IF indexCut THEN indexed ELSE saves
  /\ indexCut' = FALSE
  /\ runs' = runs + 1 /\ tick' = tick + 1 /\ phase' = "loop" /\ pc' = AfterTick
  /\ UNCHANGED <<env, sessions, stops, enabled, scoreVars, switchVars, operatorVars,
                 snap, saves, readerVars>>

Daemon ==
  \/ \E e \in Envs, clean, stop \in BOOLEAN : Boot(e, clean, stop)
  \/ CleanSnapshots \/ CleanIndex \/ CleanSwitch \/ Load
  \/ ReadEvents \/ FillProposal
  \/ LoopEnds \/ TickEnds \/ TickRaises
  \/ \E sc \in ScoreMaps : LogScores(sc)
  \/ OpenSnapshot \/ DumpSnapshot \/ IndexSnapshot

(***************************************************************************)
(* The daemon is killed, maybe in the middle of a line.                    *)
(***************************************************************************)

Kill ==
  /\ pc /= "down"
  /\ pc' = "down"
  /\ UNCHANGED <<loopVars, scoreVars, switchVars, operatorVars,
                 snapVars, readerVars>>

\* The strategies in done have logged their scores, the next line may be cut.
KillInScores(sc, done, cut) ==
  /\ pc = "loop" /\ tick < MaxTicks
  /\ pc' = "down"
  /\ latest' = [latest EXCEPT ![env] =
                  [s \in Symbols |-> [n \in Strategies |->
                     IF n \in done THEN sc[s][n] ELSE latest[env][s][n]]]]
  /\ said' = [said EXCEPT ![env] = Torn]
  /\ logTorn' = [logTorn EXCEPT ![env] = @ \/ cut]
  /\ UNCHANGED <<loopVars, switchVars, operatorVars,
                 snapVars, readerVars>>

KillInIndex ==
  /\ pc = "index"
  /\ pc' = "down"
  /\ index' = Torn /\ indexCut' = TRUE
  /\ UNCHANGED <<loopVars, scoreVars, switchVars, operatorVars,
                 snap, saves, indexed, readerVars>>

(***************************************************************************)
(* approve_switch: reads the proposal, which must parse, truncates the     *)
(* approved file and fills it.                                             *)
(***************************************************************************)

OpenApproved ==
  /\ approving = NoFile /\ approvals < MaxApprovals
  /\ proposal \notin {NoFile, Torn}
  /\ approving' = proposal
  /\ approvals' = approvals + 1
  /\ approved' = Torn
  /\ UNCHANGED <<sessionVars, scoreVars, proposal, writing, granted, seen, snapVars, readerVars>>

FillApproved ==
  /\ approving /= NoFile
  /\ approved' = approving
  /\ granted' = Append(granted, approving)
  /\ approving' = NoFile
  /\ UNCHANGED <<sessionVars, scoreVars, proposal, writing, seen, approvals, snapVars, readerVars>>

(***************************************************************************)
(* build_sandbox_runtime_from_live: load_latest_portfolio_snapshot, and    *)
(* the clone when it finds nothing or raises.                              *)
(***************************************************************************)

ReadIndex ==
  /\ reader = NoFile
  /\ since' = indexed
  /\ IF index \in {NoFile, Torn} THEN baseline' = Clone /\ UNCHANGED reader
     ELSE reader' = index /\ UNCHANGED baseline
  /\ UNCHANGED <<sessionVars, scoreVars, switchVars, operatorVars, snapVars>>

ReadSnapshot ==
  /\ reader /= NoFile
  /\ baseline' = IF snap[reader] \in {NoFile, Torn} THEN Clone ELSE snap[reader]
  /\ reader' = NoFile
  /\ UNCHANGED <<sessionVars, scoreVars, switchVars, operatorVars, snapVars, since>>

Init ==
  /\ pc = "down" /\ phase = "start" /\ env = "live" /\ tick = 0 /\ sessions = 0
  /\ stops = TRUE /\ runs = 0 /\ seen = 0
  /\ enabled = DefaultEnabled
  /\ latest = [e \in Envs |-> NoScores] /\ said = [e \in Envs |-> NoScores]
  /\ logTorn = [e \in Envs |-> FALSE]
  /\ proposal = NoFile /\ writing = NoFile /\ approved = NoFile
  /\ approving = NoFile /\ approvals = 0 /\ granted = <<>>
  /\ snap = [k \in Numbers |-> NoFile]
  /\ index = NoFile /\ indexCut = FALSE /\ saves = 0 /\ indexed = 0
  /\ reader = NoFile /\ since = 0 /\ baseline = Clone

Next ==
  \/ Daemon \/ Kill \/ KillInIndex
  \/ \E sc \in ScoreMaps, done \in SUBSET Strategies, cut \in BOOLEAN :
       KillInScores(sc, done, cut)
  \/ OpenApproved \/ FillApproved
  \/ ReadIndex \/ ReadSnapshot

Spec == Init /\ [][Next]_vars

-------------------------------------------------------------------------------
(***************************************************************************)
(* Type invariant and properties.                                          *)
(***************************************************************************)

Steps == {"down", "cleanSnapshots", "cleanIndex", "cleanSwitch", "load", "artifacts",
          "proposal", "loop", "run", "dump", "index"}

\* Every variable has its type.
TypeOK ==
  /\ pc \in Steps /\ phase \in {"start", "loop", "end"} /\ env \in Envs
  /\ tick \in 0..MaxTicks /\ sessions \in 0..MaxSessions /\ stops \in BOOLEAN
  /\ runs \in 0..tick /\ enabled \in EnabledMap
  /\ latest \in [Envs -> Scores] /\ logTorn \in [Envs -> BOOLEAN]
  /\ \A e \in Envs : said[e] \in {NoScores, Torn} \cup ScoreMaps
  /\ {proposal, writing, approved, approving} \subseteq EnabledMap \cup {NoFile, Torn}
  /\ approvals \in 0..MaxApprovals /\ seen \in 0..approvals
  /\ granted \in Seq(EnabledMap) /\ Len(granted) <= approvals
  /\ snap \in [Numbers -> Nat \cup {NoFile, Torn}]
  /\ index \in Numbers \cup {NoFile, Torn} /\ indexCut \in BOOLEAN
  /\ {saves, indexed, since} \subseteq Nat /\ indexed <= saves
  /\ reader \in Numbers \cup {NoFile} /\ baseline \in Nat \cup {Clone}

Running == pc \in {"artifacts", "proposal", "loop", "run", "dump", "index"}

\* However approvals, kills, restarts and --clean follow each other, a session runs from
\* its first tick to its last with what the operator had approved when it started: the
\* last complete approval since the files were cleaned, or every strategy without one.
SessionKeepsItsApproval ==
  Running =>
    /\ seen <= Len(granted)
    /\ enabled = (IF seen = 0 THEN DefaultEnabled ELSE granted[seen])

\* A strategy that an approval has switched off is still scored and can come back: after
\* a refresh, no strategy, enabled or not, scored more in the last tick than the one the
\* proposal enables for its symbol.
ProposalWeighsDisabled ==
  pc = "loop" /\ phase = "loop" /\ tick % ArtifactEvery = 0
    /\ said[env] \in ScoreMaps /\ proposal \notin {NoFile, Torn} =>
      \A s \in Symbols : \A n \in proposal[s], m \in Strategies :
        said[env][s][n] >= said[env][s][m]

\* The portfolio a sandbox starts from is complete and at least as new as the last one
\* indexed when it looked, whatever is saved, cleaned or killed while it looks; it may
\* have to clone the live state instead, but not during a store's first session.
BaselineNotOlder ==
  [][reader /= NoFile /\ reader' = NoFile =>
       /\ baseline' \in Nat => baseline' >= since
       /\ sessions <= 1 => baseline' \in Nat]_vars

=============================================================================
