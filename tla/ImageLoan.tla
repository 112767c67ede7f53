----------------------------- MODULE ImageLoan -----------------------------
(***************************************************************************)
(* What the image pool promises the game, with no threads, atomics, free   *)
(* list or heap: an image is lent with one reference and keeps its size    *)
(* for as long as the game has references to it; AddRefImageDesc and       *)
(* ReleaseImageDesc change their number by one; and only when the last one *)
(* is returned the image may be lent again, perhaps in another size.       *)
(***************************************************************************)
EXTENDS Naturals

CONSTANTS
    Images,     \* what can be lent, named by address
    Sizes,      \* in bytes
    NoSize      \* of an image that is not lent

VARIABLES
    lent,       \* [Images -> Nat]: the game's references
    extent      \* [Images -> Sizes \union {NoSize}]: bytes the game may read

loanVars == <<lent, extent>>

LoanInit ==
    /\ lent = [i \in Images |-> 0]
    /\ extent = [i \in Images |-> NoSize]

Lend(i) ==
    /\ lent[i] = 0
    /\ lent' = [lent EXCEPT ![i] = 1]
    /\ \E s \in Sizes : extent' = [extent EXCEPT ![i] = s]

Share(i) ==
    /\ lent[i] > 0
    /\ lent' = [lent EXCEPT ![i] = @ + 1]
    /\ UNCHANGED extent

GiveBack(i) ==
    /\ lent[i] > 0
    /\ lent' = [lent EXCEPT ![i] = @ - 1]
    /\ extent' = [extent EXCEPT ![i] = IF lent[i] = 1 THEN NoSize ELSE @]

LoanNext == \E i \in Images : Lend(i) \/ Share(i) \/ GiveBack(i)

LoanSpec == LoanInit /\ [][LoanNext]_loanVars
=============================================================================
