----------------------------- MODULE RemoteCall -----------------------------
(***************************************************************************)
(* What a program that calls another over ubus one call after the other,   *)
(* and gives up after a time, can rely on.  The call is carried out at     *)
(* most once and never before an earlier one, though maybe never, only in  *)
(* part, or when the caller has long given up.  The caller learns an       *)
(* answer only while the call is open and only of that very call.  And the *)
(* caller always comes back.                                               *)
(***************************************************************************)
EXTENDS Naturals

VARIABLES
  made,       \* calls made so far
  open,       \* the caller waits for call `made`
  begun,      \* calls that were answered
  finished,   \* calls whose every effect took place
  known       \* calls the caller has seen the answer of

vars == <<made, open, begun, finished, known>>

Init ==
  made = 0 /\ open = FALSE /\ begun = {} /\ finished = {} /\ known = {}

Make ==
  /\ ~open
  /\ made' = made + 1 /\ open' = TRUE
  /\ UNCHANGED <<begun, finished, known>>

Begin(k) ==
  /\ k \in 1..made /\ \A j \in begun : j < k
  /\ begun' = begun \cup {k}
  /\ UNCHANGED <<made, open, finished, known>>

\* One call is carried out before the next begins, or not to its end.
Finish(k) ==
  /\ k \in begun /\ \A j \in begun : j <= k
  /\ finished' = finished \cup {k}
  /\ UNCHANGED <<made, open, begun, known>>

Learn ==
  /\ open /\ made \in begun
  /\ known' = known \cup {made}
  /\ UNCHANGED <<made, open, begun, finished>>

Return ==
  /\ open
  /\ open' = FALSE
  /\ UNCHANGED <<made, begun, finished, known>>

Next ==
  \/ Make \/ Learn \/ Return
  \/ \E k \in 1..made : Begin(k) \/ Finish(k)

Spec == Init /\ [][Next]_vars /\ WF_vars(Return)
=============================================================================
