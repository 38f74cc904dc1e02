---------------------------- MODULE AtomicStore ----------------------------
(***************************************************************************)
(* What publication promises (docs/laws.md, "the one state owner"): a      *)
(* transaction's edit appears on all of its destinations in one step, at   *)
(* most once, on top of what is there, and nothing is ever taken back; a   *)
(* transaction is acknowledged only once its edit is there.                *)
(***************************************************************************)
EXTENDS Sequences, SequencesExt

CONSTANTS Txn, Path, EditOf

VARIABLES store, acked

Committed == {t \in Txn : \E p \in Path : Contains(store[p], EditOf[t])}

Init == store = [p \in Path |-> <<>>] /\ acked = {}

Commit(t) ==
    /\ t \notin Committed
    /\ \E W \in SUBSET Path : store' = [p \in Path |-> IF p \in W THEN Append(store[p], EditOf[t])
                                                        ELSE store[p]]
    /\ UNCHANGED acked

Acknowledge(t) ==
    /\ t \in Committed
    /\ acked' = acked \cup {t}
    /\ UNCHANGED store

Next == \E t \in Txn : Commit(t) \/ Acknowledge(t)

Spec == Init /\ [][Next]_<<store, acked>>
=============================================================================
