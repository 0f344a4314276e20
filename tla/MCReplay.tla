------------------------------ MODULE MCReplay ------------------------------
(***************************************************************************)
(* A window for Replay: three days, of which one has no bar; x has news    *)
(* and prices, y has news late, no indicators and no bar on the last day.  *)
(***************************************************************************)
EXTENDS Replay, TLC

CONSTANTS x, y

MCScripts == {<<"offline", "offline">>, <<"record", "offline", "offline">>}

MCWatchlist == <<x, y>>

(* x grows tenfold, so that a position becomes too large. *)
MCClose == <<x :> 2 @@ y :> 10, x :> 0 @@ y :> 0, x :> 20 @@ y :> 0>>

MCNews == x :> {1} @@ y :> {3}

Talk == [n \in Nodes |-> CASE n = "research" -> {"cited"}
                           [] n = "technical" -> {"signal"}
                           [] n \in Debaters -> {"argument"}
                           [] n = "manager" -> {"buy", "sell"}
                           [] n = "synthesis" -> {"memo"}
                           [] n = "judge" -> {"verdict", "garbled"}]

MCAnswers ==
  x :> Talk @@
  y :> [Talk EXCEPT !["research"] = {"uncited"}, !["bear"] = {"error"}, !["manager"] = {"buy"},
                    !["judge"] = {"verdict"}]
=============================================================================
