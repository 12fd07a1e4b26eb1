---------------------------- MODULE MCUsiEngine ----------------------------
(* UsiEngine with every kind of go and every way to end one.  No book, and  *)
(* no option but the Hash one, which discards the search.                   *)
EXTENDS UsiEngine, TLC

CONSTANTS start, tsumePosition, rules, noBook

MCPositions == {start, tsumePosition}
MCKings == (start :> "both") @@ (tsumePosition :> "defender")
MCCommands ==
         [op : {"go"}, infinite : BOOLEAN, ponder : BOOLEAN]
    \cup [op : {"mate"}, limit : {"millis", "infinite"}]
    \cup [op : {"tsume"}, side : {"attack"}]
    \cup [op : {"position"}, pos : {start, tsumePosition, Malformed}]
    \cup [op : {"setoption"}, name : {"Hash"}, value : {TRUE}]
    \cup [op : {"stop", "ponderhit", "usinewgame", "gameover", "quit"}]
=============================================================================
