---------------------------- MODULE ArtifactsProofs ----------------------------
(***************************************************************************)
(* Proofs about Artifacts for any strategies, scores, environments, number *)
(* of sessions and approvals: what a session runs with, and which          *)
(* portfolio a sandbox starts from.                                        *)
(***************************************************************************)
EXTENDS Artifacts, TLAPS

-------------------------------------------------------------------------------
(***************************************************************************)
(* The approval a session runs with.  The approved file is torn just while *)
(* the operator fills it, and holds the last approval granted otherwise;   *)
(* that is what Load relies on.                                            *)
(***************************************************************************)

Maybe == EnabledMap \cup {NoFile, Torn}

SwitchTypes ==
  /\ proposal \in Maybe /\ writing \in Maybe /\ approved \in Maybe /\ approving \in Maybe
  /\ granted \in Seq(EnabledMap) /\ seen \in Nat

ApprovedIsLast ==
  /\ approving /= Torn
  /\ approved = Torn <=> approving /= NoFile
  /\ approved = NoFile => granted = <<>>
  /\ approved \notin {NoFile, Torn} => granted /= <<>> /\ approved = granted[Len(granted)]

SwitchInv == SwitchTypes /\ ApprovedIsLast /\ SessionKeepsItsApproval

switchState == <<proposal, writing, approved, approving, granted, seen, enabled>>

LEMMA RecommendedIsMap == ASSUME NEW sc PROVE Recommended(sc) \in EnabledMap
BY DEF Recommended, RankedFirst, EnabledMap

\* A step that leaves the files and the map of the switch alone keeps the invariant,
\* unless a session starts to run.
LEMMA SwitchUntouched ==
  ASSUME SwitchInv, UNCHANGED switchState, Running' => Running
  PROVE  SwitchInv'
BY DEF SwitchInv, SwitchTypes, ApprovedIsLast, SessionKeepsItsApproval, switchState, Running

LEMMA SwitchInit == Init => SwitchInv
BY ArtifactsConfig
   DEF Init, SwitchInv, SwitchTypes, ApprovedIsLast, SessionKeepsItsApproval, Running, Maybe

LEMMA SwitchStep == SwitchInv /\ [Next]_vars => SwitchInv'
<1> SUFFICES ASSUME SwitchInv, [Next]_vars PROVE SwitchInv'
  OBVIOUS
<1> USE DEF sessionVars, loopVars, scoreVars, switchVars, operatorVars, snapVars, readerVars
<1>1. CASE UNCHANGED vars
  BY <1>1, SwitchUntouched DEF vars, switchState, Running
<1>2. ASSUME NEW e \in Envs, NEW clean \in BOOLEAN, NEW stop \in BOOLEAN, Boot(e, clean, stop)
      PROVE SwitchInv'
  BY <1>2, SwitchUntouched DEF Boot, switchState, Running
<1>3. CASE CleanSnapshots \/ CleanIndex
  BY <1>3, SwitchUntouched DEF CleanSnapshots, CleanIndex, switchState, Running
<1>4. CASE CleanSwitch
  BY <1>4, ArtifactsConfig
     DEF CleanSwitch, SwitchInv, SwitchTypes, ApprovedIsLast, SessionKeepsItsApproval, Running, Maybe
<1>5. CASE Load
  <2>1. CASE approved = Torn
    BY <1>5, <2>1 DEF Load, SwitchInv, SwitchTypes, ApprovedIsLast, SessionKeepsItsApproval, Running
  <2>2. CASE approved = NoFile
    BY <1>5, <2>2, ArtifactsConfig
       DEF Load, SwitchInv, SwitchTypes, ApprovedIsLast, SessionKeepsItsApproval, Running
  <2>3. CASE approved \notin {NoFile, Torn}
    BY <1>5, <2>3
       DEF Load, SwitchInv, SwitchTypes, ApprovedIsLast, SessionKeepsItsApproval, Running
  <2> QED
    BY <2>1, <2>2, <2>3
<1>6. CASE ReadEvents
  <2>1. proposal' \in Maybe /\ writing' \in Maybe
    BY <1>6, RecommendedIsMap DEF ReadEvents, SwitchInv, SwitchTypes, Maybe
  <2> QED
    BY <1>6, <2>1
       DEF ReadEvents, SwitchInv, SwitchTypes, ApprovedIsLast, SessionKeepsItsApproval, Running
<1>7. CASE FillProposal
  BY <1>7
     DEF FillProposal, SwitchInv, SwitchTypes, ApprovedIsLast, SessionKeepsItsApproval, Running, Maybe
<1>8. CASE LoopEnds \/ TickEnds \/ TickRaises
  BY <1>8, SwitchUntouched DEF LoopEnds, TickEnds, TickRaises, AfterTick, switchState, Running
<1>9. ASSUME NEW sc \in ScoreMaps, LogScores(sc) PROVE SwitchInv'
  BY <1>9, SwitchUntouched DEF LogScores, switchState, Running
<1>10. CASE OpenSnapshot \/ DumpSnapshot \/ IndexSnapshot
  BY <1>10, SwitchUntouched
     DEF OpenSnapshot, DumpSnapshot, IndexSnapshot, AfterTick, switchState, Running
<1>11. CASE Kill \/ KillInIndex
  BY <1>11, SwitchUntouched DEF Kill, KillInIndex, switchState, Running
<1>12. ASSUME NEW sc \in ScoreMaps, NEW done \in SUBSET Strategies, NEW cut \in BOOLEAN,
              KillInScores(sc, done, cut)
       PROVE SwitchInv'
  BY <1>12, SwitchUntouched DEF KillInScores, switchState, Running
<1>13. CASE OpenApproved
  BY <1>13, ArtifactsConfig
     DEF OpenApproved, SwitchInv, SwitchTypes, ApprovedIsLast, SessionKeepsItsApproval, Running, Maybe
<1>14. CASE FillApproved
  <2>1. approving \in EnabledMap /\ approving \notin {NoFile, Torn}
    BY <1>14 DEF FillApproved, SwitchInv, SwitchTypes, ApprovedIsLast, Maybe
  <2>2. /\ granted' \in Seq(EnabledMap) /\ Len(granted') = Len(granted) + 1
        /\ granted'[Len(granted')] = approving
        /\ \A i \in 1..Len(granted) : granted'[i] = granted[i]
    BY <1>14, <2>1 DEF FillApproved, SwitchInv, SwitchTypes
  <2>3. SessionKeepsItsApproval'
    <3> SUFFICES ASSUME Running' PROVE seen' <= Len(granted') /\
          enabled' = (IF seen' = 0 THEN DefaultEnabled ELSE granted'[seen'])
      BY DEF SessionKeepsItsApproval, DefaultEnabled
    <3>1. seen' = seen /\ enabled' = enabled /\ Running
      BY <1>14 DEF FillApproved, Running
    <3> QED
      BY <2>2, <3>1 DEF SwitchInv, SwitchTypes, SessionKeepsItsApproval
  <2>4. ApprovedIsLast' /\ SwitchTypes'
    BY <1>14, <2>1, <2>2, ArtifactsConfig
       DEF FillApproved, SwitchInv, SwitchTypes, ApprovedIsLast, Maybe
  <2> QED
    BY <2>3, <2>4 DEF SwitchInv
<1>15. CASE ReadIndex \/ ReadSnapshot
  BY <1>15, SwitchUntouched DEF ReadIndex, ReadSnapshot, switchState, Running
<1> QED
  BY <1>1, <1>2, <1>3, <1>4, <1>5, <1>6, <1>7, <1>8, <1>9, <1>10, <1>11, <1>12, <1>13, <1>14, <1>15
     DEF Next, Daemon

\* However approvals, kills, restarts and --clean follow each other, a session runs with
\* the last complete approval before it started (load_approved_strategy_map).
THEOREM SessionRunsApproved == Spec => []SessionKeepsItsApproval
<1>1. SwitchInv => SessionKeepsItsApproval
  BY DEF SwitchInv
<1> QED
  BY <1>1, SwitchInit, SwitchStep, PTL DEF Spec

-------------------------------------------------------------------------------
(***************************************************************************)
(* The portfolio a sandbox starts from.  The index names a snapshot that   *)
(* is at least as new as the last one indexed, if it can be read at all;   *)
(* in a store's first session it can, for the snapshot being written has   *)
(* the number after it.                                                    *)
(***************************************************************************)

SnapTypes ==
  /\ snap \in [Numbers -> Nat \cup {NoFile, Torn}]
  /\ saves \in Nat /\ indexed \in Nat /\ since \in Nat /\ indexed <= saves /\ since <= indexed
  /\ index \in Numbers \cup {NoFile, Torn} /\ reader \in Numbers \cup {NoFile}
  /\ tick \in Nat /\ runs \in Nat /\ sessions \in Nat

\* run_loop checks max_ticks before the tick, so there is a file for every number.
RunsHaveNumbers ==
  /\ pc = "run" => tick < MaxTicks
  /\ pc \in {"dump", "index"} => runs \in Numbers
  /\ pc = "index" => snap[runs] = saves

NamedNotOlder ==
  /\ index \in Numbers /\ snap[index] \in Nat => snap[index] >= indexed
  /\ reader \in Numbers /\ snap[reader] \in Nat => snap[reader] >= since

Starting == pc \in {"cleanSnapshots", "cleanIndex", "cleanSwitch", "load"}

FirstSession ==
  sessions <= 1 =>
    /\ index \in Numbers => snap[index] \in Nat
    /\ reader \in Numbers => snap[reader] \in Nat
    /\ Running => \A k \in Numbers : k = index \/ k = reader => k < runs
    /\ Starting \/ sessions = 0 => index \notin Numbers /\ reader = NoFile
    /\ sessions = 0 => pc = "down"

SnapInv == SnapTypes /\ RunsHaveNumbers /\ NamedNotOlder /\ FirstSession

\* A step that leaves snapshots, index and reader alone keeps the invariant, unless it
\* starts to save.
LEMMA SnapUntouched ==
  ASSUME SnapInv,
         snap' = snap, saves' = saves, indexed' = indexed, since' = since, index' = index,
         reader' = reader, runs' = runs, sessions' = sessions, tick' \in Nat,
         pc' = "run" => tick' < MaxTicks, pc' \in {"dump", "index"} => pc' = pc,
         Running' => Running \/ Starting, Starting' => Starting, sessions = 0 => pc' = "down"
  PROVE  SnapInv'
<1> USE DEF SnapInv, Numbers
<1>1. SnapTypes' /\ RunsHaveNumbers' /\ NamedNotOlder'
  BY DEF SnapTypes, RunsHaveNumbers, NamedNotOlder
<1>2. FirstSession'
  <2> SUFFICES ASSUME sessions <= 1 PROVE FirstSession'
    BY DEF FirstSession
  <2>1. Starting \/ sessions = 0 => index \notin Numbers /\ reader = NoFile
    BY DEF FirstSession
  <2>2. ASSUME Running', NEW k \in Numbers, k = index \/ k = reader PROVE k < runs
    <3>1. CASE Running
      BY <2>2, <3>1 DEF FirstSession
    <3>2. CASE Starting
      BY <2>1, <2>2, <3>2, ArtifactsConfig
    <3> QED
      BY <2>2, <3>1, <3>2
  <2>3. (Starting \/ sessions = 0)' => index' \notin Numbers /\ reader' = NoFile
    BY <2>1
  <2> QED
    BY <2>2, <2>3 DEF FirstSession
<1> QED
  BY <1>1, <1>2

LEMMA SnapInit == Init => SnapInv
BY ArtifactsConfig
   DEF Init, SnapInv, SnapTypes, RunsHaveNumbers, NamedNotOlder, FirstSession, Starting, Running,
       Numbers

LEMMA SnapStep == SnapInv /\ [Next]_vars => SnapInv'
<1> SUFFICES ASSUME SnapInv, [Next]_vars PROVE SnapInv'
  OBVIOUS
<1> USE ArtifactsConfig
    DEF sessionVars, loopVars, scoreVars, switchVars, operatorVars, snapVars, readerVars,
        SnapInv, SnapTypes, RunsHaveNumbers, NamedNotOlder, FirstSession, Starting,
        Running, Numbers
<1>1. CASE UNCHANGED vars
  BY <1>1 DEF vars
<1>2. ASSUME NEW e \in Envs, NEW clean \in BOOLEAN, NEW stop \in BOOLEAN, Boot(e, clean, stop)
      PROVE SnapInv'
  BY <1>2 DEF Boot
<1>3. CASE CleanSnapshots
  BY <1>3 DEF CleanSnapshots
<1>4. CASE CleanIndex
  BY <1>4 DEF CleanIndex
<1>5. CASE CleanSwitch \/ Load
  BY <1>5, SnapUntouched DEF CleanSwitch, Load
<1>6. CASE ReadEvents \/ FillProposal
  BY <1>6, SnapUntouched DEF ReadEvents, FillProposal
<1>7. CASE LoopEnds
  BY <1>7, SnapUntouched DEF LoopEnds
<1>8. CASE TickEnds
  BY <1>8, SnapUntouched DEF TickEnds, AfterTick
<1>9. CASE TickRaises
  <2>1. pc \in {"run", "loop"} /\ pc' \in {"artifacts", "loop"} /\ tick' \in {tick, tick + 1}
    BY <1>9 DEF TickRaises, AfterTick
  <2>2. UNCHANGED <<sessions, runs, snapVars, readerVars>>
    BY <1>9 DEF TickRaises
  <2> QED
    BY <2>1, <2>2, SnapUntouched
<1>10. ASSUME NEW sc \in ScoreMaps, LogScores(sc) PROVE SnapInv'
  BY <1>10, SnapUntouched DEF LogScores
<1>11. CASE OpenSnapshot
  <2>1. runs \in Numbers /\ snap' = [snap EXCEPT ![runs] = Torn]
    BY <1>11 DEF OpenSnapshot
  <2> QED
    BY <1>11, <2>1 DEF OpenSnapshot
<1>12. CASE DumpSnapshot
  <2>1. runs \in Numbers /\ snap' = [snap EXCEPT ![runs] = saves + 1] /\ saves' = saves + 1
    BY <1>12 DEF DumpSnapshot
  <2> QED
    BY <1>12, <2>1 DEF DumpSnapshot
<1>13. CASE IndexSnapshot
  BY <1>13 DEF IndexSnapshot, AfterTick
<1>14. CASE Kill
  BY <1>14, SnapUntouched DEF Kill
<1>15. CASE KillInIndex
  BY <1>15 DEF KillInIndex
<1>16. ASSUME NEW sc \in ScoreMaps, NEW done \in SUBSET Strategies, NEW cut \in BOOLEAN,
              KillInScores(sc, done, cut)
       PROVE SnapInv'
  BY <1>16, SnapUntouched DEF KillInScores
<1>17. CASE OpenApproved \/ FillApproved
  BY <1>17, SnapUntouched DEF OpenApproved, FillApproved
<1>18. CASE ReadIndex
  BY <1>18 DEF ReadIndex
<1>19. CASE ReadSnapshot
  BY <1>19 DEF ReadSnapshot
<1> HIDE DEF SnapInv
<1> QED
  BY <1>1, <1>2, <1>3, <1>4, <1>5, <1>6, <1>7, <1>8, <1>9, <1>10,
     <1>11, <1>12, <1>13, <1>14, <1>15, <1>16, <1>17, <1>18, <1>19
     DEF Next, Daemon

BaselineStep ==
  reader /= NoFile /\ reader' = NoFile =>
    /\ baseline' \in Nat => baseline' >= since
    /\ sessions <= 1 => baseline' \in Nat

LEMMA SnapInvGivesStep == SnapInv /\ [Next]_vars => BaselineStep
<1> SUFFICES ASSUME SnapInv, [Next]_vars, reader /= NoFile, reader' = NoFile PROVE BaselineStep
  BY DEF BaselineStep
<1>1. ReadSnapshot
  BY DEF Next, Daemon, vars, Boot, CleanSnapshots, CleanIndex, CleanSwitch, Load, ReadEvents,
         FillProposal, LoopEnds, TickEnds, TickRaises, LogScores, OpenSnapshot, DumpSnapshot,
         IndexSnapshot, Kill, KillInIndex, KillInScores, OpenApproved, FillApproved, ReadIndex,
         readerVars
<1>2. reader \in Numbers /\ snap[reader] \in Nat \cup {NoFile, Torn}
  BY DEF SnapInv, SnapTypes
<1> QED
  BY <1>1, <1>2, ArtifactsConfig
     DEF BaselineStep, ReadSnapshot, SnapInv, NamedNotOlder, FirstSession

\* Whatever is saved, cleaned or killed while it looks, a sandbox starts from a complete
\* portfolio at least as new as the last one indexed when it looked, or from a clone of the
\* live state, which it never needs during a store's first session
\* (load_latest_portfolio_snapshot).
THEOREM SandboxBaselineNotOlder == Spec => BaselineNotOlder
<1>1. SnapInv /\ [Next]_vars => BaselineStep
  BY SnapInvGivesStep
<1>2. Spec => [][BaselineStep]_vars
  BY <1>1, SnapInit, SnapStep, PTL DEF Spec
<1> QED
  BY <1>2 DEF BaselineNotOlder, BaselineStep

-------------------------------------------------------------------------------
(***************************************************************************)
(* What a proposal is made from.  The last score logged of each strategy   *)
(* is its score in the last tick that was not cut short; the proposal is   *)
(* filled with the ranking of those, and when a refresh is due nothing is  *)
(* scored between filling it and the next tick.                            *)
(***************************************************************************)

LogsFollowTicks ==
  /\ env \in Envs
  /\ latest = [e \in Envs |-> latest[e]] /\ said = [e \in Envs |-> said[e]]
  /\ \A e \in Envs : said[e] \in ScoreMaps => latest[e] = said[e]

RefreshDone == pc = "loop" /\ phase = "loop" /\ tick % ArtifactEvery = 0

WeighInv ==
  /\ LogsFollowTicks
  /\ pc = "proposal" /\ said[env] \in ScoreMaps => writing = Recommended(said[env])
  /\ RefreshDone /\ said[env] \in ScoreMaps => proposal = Recommended(said[env])

\* No other strategy of its symbol scored more than the one that is recommended.
LEMMA RecommendedScoresMost ==
  ASSUME NEW sc \in ScoreMaps, NEW s \in Symbols, NEW n \in Recommended(sc)[s], NEW m \in Strategies
  PROVE  sc[s][n] >= sc[s][m]
<1>1. sc \in [Symbols -> [Strategies -> Int]] /\ NoFile \notin Int
  BY ArtifactsConfig
<1>2. n \in RankedFirst(sc[s])
  BY DEF Recommended
<1>3. n \in Strategies /\ sc[s][n] \in Int /\ sc[s][m] \in Int
  BY <1>1, <1>2 DEF RankedFirst
<1> QED
  BY <1>1, <1>2, <1>3 DEF RankedFirst

LEMMA WeighInit == Init => WeighInv
BY ArtifactsConfig DEF Init, WeighInv, LogsFollowTicks, RefreshDone

\* A step that leaves the logs and the proposal alone, and neither ends a refresh nor goes
\* on without one that is due, keeps the invariant.
LEMMA WeighUntouched ==
  ASSUME WeighInv, UNCHANGED <<latest, said, proposal, writing>>, env' \in Envs,
         pc' = "proposal" => pc = pc' /\ env' = env,
         RefreshDone' => RefreshDone /\ env' = env
  PROVE  WeighInv'
BY DEF WeighInv, LogsFollowTicks, RefreshDone

LEMMA WeighStep == WeighInv /\ [Next]_vars => WeighInv'
<1> SUFFICES ASSUME WeighInv, [Next]_vars PROVE WeighInv'
  OBVIOUS
<1> USE DEF sessionVars, loopVars, scoreVars, switchVars, operatorVars, snapVars, readerVars
<1>e. env \in Envs
  BY DEF WeighInv, LogsFollowTicks
<1>1. CASE UNCHANGED vars
  BY <1>1, <1>e, WeighUntouched DEF vars, RefreshDone
<1>2. ASSUME NEW e \in Envs, NEW clean \in BOOLEAN, NEW stop \in BOOLEAN, Boot(e, clean, stop)
      PROVE WeighInv'
  BY <1>2, WeighUntouched DEF Boot, RefreshDone
<1>3. CASE CleanSnapshots
  BY <1>3, <1>e DEF CleanSnapshots, WeighInv, LogsFollowTicks, RefreshDone
<1>4. CASE CleanIndex
  BY <1>4, <1>e, WeighUntouched DEF CleanIndex, RefreshDone
<1>5. CASE CleanSwitch
  BY <1>5, <1>e DEF CleanSwitch, WeighInv, LogsFollowTicks, RefreshDone
<1>6. CASE Load
  BY <1>6, <1>e, WeighUntouched DEF Load, RefreshDone
<1>7. CASE ReadEvents
  BY <1>7, <1>e DEF ReadEvents, WeighInv, LogsFollowTicks, RefreshDone
<1>8. CASE FillProposal
  BY <1>8, <1>e DEF FillProposal, WeighInv, LogsFollowTicks, RefreshDone
<1>9. CASE LoopEnds \/ TickEnds \/ TickRaises
  <2>1. UNCHANGED <<latest, said, proposal, writing, env>> /\ pc' \in {"artifacts", "loop"}
    BY <1>9 DEF LoopEnds, TickEnds, TickRaises, AfterTick
  <2>2. ~ RefreshDone'
    BY <1>9 DEF LoopEnds, TickEnds, TickRaises, AfterTick, RefreshDone
  <2> QED
    BY <2>1, <2>2, <1>e, WeighUntouched
<1>10. ASSUME NEW sc \in ScoreMaps, LogScores(sc) PROVE WeighInv'
  <2>1. LogsFollowTicks'
    BY <1>10, <1>e DEF LogScores, WeighInv, LogsFollowTicks
  <2> QED
    BY <1>10, <2>1 DEF LogScores, WeighInv, RefreshDone
<1>11. CASE OpenSnapshot \/ DumpSnapshot
  BY <1>11, <1>e, WeighUntouched DEF OpenSnapshot, DumpSnapshot, RefreshDone
<1>12. CASE IndexSnapshot
  <2>1. UNCHANGED <<latest, said, proposal, writing, env>> /\ pc' \in {"artifacts", "loop"}
    BY <1>12 DEF IndexSnapshot, AfterTick
  <2>2. ~ RefreshDone'
    BY <1>12 DEF IndexSnapshot, AfterTick, RefreshDone
  <2> QED
    BY <2>1, <2>2, <1>e, WeighUntouched
<1>13. CASE Kill \/ KillInIndex
  BY <1>13, <1>e, WeighUntouched DEF Kill, KillInIndex, RefreshDone
<1>14. ASSUME NEW sc \in ScoreMaps, NEW done \in SUBSET Strategies, NEW cut \in BOOLEAN,
              KillInScores(sc, done, cut)
       PROVE WeighInv'
  <2> DEFINE last == [s \in Symbols |-> [n \in Strategies |->
                        IF n \in done THEN sc[s][n] ELSE latest[env][s][n]]]
  <2>1. /\ latest' = [latest EXCEPT ![env] = last] /\ said' = [said EXCEPT ![env] = Torn]
        /\ env' = env /\ pc' = "down"
    BY <1>14 DEF KillInScores
  <2> HIDE DEF last
  <2>2. Torn \notin ScoreMaps
    BY ArtifactsConfig
  <2>3. LogsFollowTicks'
    BY <2>1, <2>2, <1>e DEF WeighInv, LogsFollowTicks
  <2> QED
    BY <2>1, <2>3 DEF WeighInv, RefreshDone
<1>15. CASE OpenApproved \/ FillApproved \/ ReadIndex \/ ReadSnapshot
  BY <1>15, <1>e, WeighUntouched
     DEF OpenApproved, FillApproved, ReadIndex, ReadSnapshot, RefreshDone
<1> QED
  BY <1>1, <1>2, <1>3, <1>4, <1>5, <1>6, <1>7, <1>8, <1>9, <1>10, <1>11, <1>12, <1>13, <1>14, <1>15
     DEF Next, Daemon

\* A strategy that an approval has switched off is still scored and can come back: after a
\* refresh the proposal enables, for each symbol, a strategy that no other outscored in the
\* last tick, enabled or not (_rank_strategies).
THEOREM ArtifactsProposalWeighsDisabled == Spec => []ProposalWeighsDisabled
<1>1. ASSUME WeighInv PROVE ProposalWeighsDisabled
  <2> SUFFICES ASSUME RefreshDone, said[env] \in ScoreMaps,
                      NEW s \in Symbols, NEW n \in proposal[s], NEW m \in Strategies
               PROVE  said[env][s][n] >= said[env][s][m]
    BY DEF ProposalWeighsDisabled, RefreshDone
  <2>1. proposal = Recommended(said[env])
    BY <1>1 DEF WeighInv
  <2> QED
    BY <2>1, RecommendedScoresMost
<1> QED
  BY <1>1, WeighInit, WeighStep, PTL DEF Spec
=============================================================================
