------------------------------ MODULE MCArtifacts ------------------------------
(***************************************************************************)
(* Values of the constants of Artifacts for TLC.                           *)
(***************************************************************************)
EXTENDS Artifacts, TLC

CONSTANTS au, spike, trend

Both == {spike, trend}
Ranks == spike :> 1 @@ trend :> 2

\* spike and trend tie, or trend scores more
SomeScores == {au :> (spike :> 1 @@ trend :> 1), au :> (spike :> 1 @@ trend :> 2)}
=============================================================================
