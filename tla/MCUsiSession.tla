---------------------------- MODULE MCUsiSession -----------------------------
(* UsiEngine as a session: positions with two kings and with one, rules,     *)
(* TsumeMode and the book, with the searches that depend on them.            *)
EXTENDS UsiEngine, TLC

CONSTANTS start, single,   \* positions
          csa, try, here, missing, noBook

MCKings == (start :> "both") @@ (single :> "defender")
MCInBook == {<<here, start>>}

MCCommands ==
         [op : {"go"}, infinite : {FALSE}, ponder : {FALSE}]
    \cup [op : {"mate"}, limit : {"millis", "malformed"}]
    \cup [op : {"tsume"}, side : {"attack", "defense", "malformed"}]
    \cup [op : {"position"}, pos : {start, single, Malformed}]
    \cup [op : {"setoption"}, name : {"TsumeMode"}, value : BOOLEAN]
    \cup [op : {"setoption"}, name : {"Rules"}, value : {csa, try}]
    \cup [op : {"setoption"}, name : {"BookPath"}, value : {missing}]
    \cup [op : {"usinewgame", "isready", "bench", "perft", "destroy"}]
=============================================================================
