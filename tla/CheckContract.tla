---------------------------- MODULE CheckContract ----------------------------
(***************************************************************************)
(* What the Agent may rely on when it calls the check: a call ends, with   *)
(* exactly one verdict; while no call is in progress nothing is pushed;    *)
(* the verdict "ok" is given only when the whole cycle has been pushed,    *)
(* and "missing" only when nothing has.  A failed call may have pushed     *)
(* nothing, a part, or (when it is declared late) everything.              *)
(***************************************************************************)
EXTENDS Naturals

VARIABLES
  busy,      \* a call is in progress
  verdict,   \* of the last call that ended
  pushed,    \* datagrams pushed since the last call began
  complete   \* the cycle has pushed all it collected

vars == <<busy, verdict, pushed, complete>>

Init == ~busy /\ verdict = "none" /\ pushed = 0 /\ ~complete

Begin == ~busy /\ busy' = TRUE /\ verdict' = "none" /\ pushed' = 0 /\ complete' = FALSE

Push ==
  /\ busy /\ ~complete
  /\ pushed' \in {pushed, pushed + 1}
  /\ complete' \in BOOLEAN
  /\ UNCHANGED <<busy, verdict>>

Return ==
  /\ busy /\ busy' = FALSE
  /\ verdict' \in {"missing", "failed", "ok"}
  /\ verdict' = "ok" => complete
  /\ verdict' = "missing" => pushed = 0
  /\ UNCHANGED <<pushed, complete>>

\* The call finds no binary: it begins and ends at once.
Refuse ==
  ~busy /\ busy' = FALSE /\ verdict' = "missing" /\ pushed' = 0 /\ complete' = FALSE

Next == Begin \/ Push \/ Return \/ Refuse

Safety == Init /\ [][Next]_vars

Spec == Safety /\ WF_vars(Return)

=============================================================================
