----------------------------- MODULE MCPublish -----------------------------
EXTENDS Publish, TLC
CONSTANTS t1, t2, t3

MCPath == {<<"notes", "plan">>, <<"receipts">>}
OnePath == {<<"notes", "plan">>}
MCPremises == {Folder(<<"notes">>), Absence(<<"notes">>, "plan")}
NoPremises == {}

(* Every transaction makes an edit of its own. *)
OwnEdit == [t \in Txn |-> t]

Symmetry == Permutations(Txn)
=============================================================================
