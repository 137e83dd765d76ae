---------------------------- MODULE KeyReporter ----------------------------
(***************************************************************************)
(* What the key daemon promises its subscribers, and no more.  The key     *)
(* moves at will.  A movement while the daemon listens makes it owe a      *)
(* report; until that is made it listens no more, and nothing is owed for  *)
(* what it misses.  It reports the level it has read since, or a press if  *)
(* the reading failed.                                                     *)
(***************************************************************************)
VARIABLES
  level,         \* of the key
  state,         \* "new", "deaf", "listening", "owing", "read" or "off"
  word,          \* what was read for the report under way, else "none"
  reported       \* the last report

vars == <<level, state, word, reported>>

WordFor(l) == IF l = "low" THEN "KeyRelease" ELSE "KeyPress"

Init ==
  /\ level \in {"low", "high"}
  /\ state = "new"
  /\ word = "none"
  /\ reported = "none"

KeyEdge ==
  /\ level' = IF level = "low" THEN "high" ELSE "low"
  /\ state' = IF state = "listening" THEN "owing" ELSE state
  /\ UNCHANGED <<word, reported>>

Start ==
  /\ state = "new"
  /\ state' = "deaf"
  /\ UNCHANGED <<level, word, reported>>

Listen ==
  /\ state = "deaf"
  /\ state' = "listening"
  /\ UNCHANGED <<level, word, reported>>

Read ==
  /\ state = "owing"
  /\ state' = "read"
  /\ word' \in {WordFor(level), "KeyPress"}
  /\ UNCHANGED <<level, reported>>

Report ==
  /\ state = "read"
  /\ state' = "deaf"
  /\ reported' = word
  /\ word' = "none"
  /\ UNCHANGED level

Stop ==
  /\ state' = "off"
  /\ word' = "none"
  /\ UNCHANGED <<level, reported>>

Next == KeyEdge \/ Start \/ Listen \/ Read \/ Report \/ Stop

\* A daemon that has started listens, and pays its debts.
Spec == Init /\ [][Next]_vars /\ WF_vars(Listen \/ Read \/ Report)

=============================================================================
