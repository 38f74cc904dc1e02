------------------------------ MODULE MCDoors ------------------------------
(* Small instances of Doors for TLC: b links to a, n and m are free. *)
EXTENDS Doors, TLC

CONSTANTS c1, c2, c3, a, b, m, n

Asked(door, pages) ==
    [door |-> door, pages |-> pages, births |-> {}, links |-> {}, receipt |-> FALSE,
     to |-> None, armed |-> TRUE]

AskSplice == [Asked("splice", <<a>>) EXCEPT !.receipt = TRUE]
AskPin == [Asked("splice", <<b>>) EXCEPT !.to = a]
AskSet == [Asked("set", <<a, n>>) EXCEPT !.births = {n}, !.receipt = TRUE]
AskCreate == [Asked("create", <<n>>) EXCEPT !.links = {b}]
AskRemove == Asked("remove", <<b>>)
AskRelocate == [Asked("relocate", <<a>>) EXCEPT !.to = m]
AskLockWrite == Asked("lock_write", <<b>>)
AskRun == [Asked("run", <<a>>) EXCEPT !.receipt = TRUE]
AskLink == [Asked("run", <<b>>) EXCEPT !.links = {a}, !.receipt = TRUE]

MCRequests == {AskSplice, AskPin, AskSet, AskCreate, AskRemove, AskRelocate, AskRun, AskLink, AskLockWrite}
MCStart == [p \in Page |-> CASE p = a -> {} [] p = b -> {a} [] OTHER -> None]

(* A move onto the path that a create takes. *)
Clobbering == {AskCreate, [AskRelocate EXCEPT !.to = n]}

Symmetry == Permutations(Call)
=============================================================================
