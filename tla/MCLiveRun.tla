----------------------------- MODULE MCLiveRun ------------------------------
(***************************************************************************)
(* Feeds for LiveRun: article "u" is news of both tickers, "v" is dated    *)
(* after the decision.                                                     *)
(***************************************************************************)
EXTENDS LiveRun

MCTickers == <<"x", "y">>

MCFeeds ==
  [s \in {"x", "y"} |-> IF s = "x" THEN {<<"u">>, <<"malformed">>, <<"v", "u">>}
                        ELSE {<<"skipped", "u">>}]
=============================================================================
