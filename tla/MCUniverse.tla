------------------------------ MODULE MCUniverse ------------------------------
(***************************************************************************)
(* Values of the constants of Universe for TLC: three strategies compete   *)
(* for au, one of them also trades ag.                                     *)
(***************************************************************************)
EXTENDS Universe, TLC

Two == {"au", "ag"}
Ranks == [ag |-> 1, au |-> 2]
Three == {"guard", "trend", "spike"}
Pairs == {<<"guard", "au">>, <<"trend", "au">>, <<"spike", "au">>, <<"spike", "ag">>}
Names == [guard |-> 1, spike |-> 2, trend |-> 3]
Priorities == [guard |-> 2, trend |-> 1, spike |-> 2]
Weights == [guard |-> 2, trend |-> 1, spike |-> 1]
AllModes == {"priority", "weighted_vote", "netting"}

\* Maps an operator may have approved: one strategy per symbol, two, or none for au.
Approved ==
  {[au |-> {"spike"}, ag |-> {"spike"}], [au |-> {"guard", "spike"}, ag |-> {}],
   [au |-> {"guard", "trend"}, ag |-> {"spike"}], [au |-> {}, ag |-> {"spike"}]}

Says(d, strength) == [decision |-> d, score |-> IF d = "HOLD" THEN 0 ELSE strength]

\* Any decisions of two strategies on au, the guard may hold or close; ag scores more
\* than au, the same, or less.
SomeOpinions ==
  {<<"trend", "au">> :> Says(t, 2) @@ <<"spike", "au">> :> Says(s, 1) @@
   <<"guard", "au">> :> Says(g, 1) @@
   <<"spike", "ag">> :> Says(IF t = "HOLD" THEN "HOLD" ELSE s, 2) :
     t \in Decisions, s \in Decisions, g \in {"HOLD", "CLOSE"}}
=============================================================================
