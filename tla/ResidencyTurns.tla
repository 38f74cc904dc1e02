--------------------------- MODULE ResidencyTurns ---------------------------
(***************************************************************************)
(* How long a paused load waits.  A history variable counts the oversized  *)
(* loads of other versions that a version owed a turn waits out: the one   *)
(* in the slot when it was paused, and each that is admitted past the      *)
(* limit for as long as the ledger owes it the turn.                       *)
(***************************************************************************)
EXTENDS Residency

VARIABLE overtaken      \* [Key -> -1 (owed no turn) or a count]

turnVars == <<allVars, overtaken>>
MaxCount == 2           \* bound: two is already too many

OversizedOpens(k) ==
    \E p \in PermitId : permits[p].transient # k /\ permits'[p].transient = k

Count(k) ==
    CASE k \notin owed' -> -1
      [] k \in owed' \ owed -> IF transient' \notin {NoKey, k} THEN 1 ELSE 0
      [] OTHER -> IF overtaken[k] < MaxCount /\ \E j \in Key \ {k} : OversizedOpens(j)
                  THEN overtaken[k] + 1 ELSE overtaken[k]

TurnInit == Init /\ overtaken = [k \in Key |-> -1]
TurnNext == Next /\ overtaken' = [k \in Key |-> Count(k)]
TurnSpec == TurnInit /\ [][TurnNext]_turnVars
TurnFairSpec == TurnSpec /\ Fairness

(* While the ledger owes a version its turn (controller.rs keeps_out, owe  *)
(* and unowe), at most one oversized load of another version goes first.   *)
TurnKept == \A k \in Key : overtaken[k] <= 1
=============================================================================
