---------------------------- MODULE LatestValue ----------------------------
(***************************************************************************)
(* What the shared memory between the game process and the SPiKE worker    *)
(* promises, with no memory words, sequence numbers, retries or events:    *)
(* every slot holds one value, the newest one published; taking it yields  *)
(* that value whole.  Values a slow reader missed are gone for good: the   *)
(* mapping holds the latest frame, it is not a queue.                      *)
(***************************************************************************)
EXTENDS Naturals

CONSTANTS
    Slots,      \* the single-writer single-reader slots of the mapping
    Parts       \* the words of a slot that have to belong together

VARIABLES
    newest,     \* [Slots -> Nat]: stamp of the newest published value, 0 = none
    delivered   \* [Slots -> [Parts -> Nat]]: the value the reader took last

absVars == <<newest, delivered>>

\* The value stamped n with nothing of another value in it.
Whole(n) == [p \in Parts |-> n]

AbsInit ==
    /\ newest = [s \in Slots |-> 0]
    /\ delivered = [s \in Slots |-> Whole(0)]

Publish(s) ==
    /\ newest'[s] \in Nat /\ newest'[s] > newest[s]
    /\ newest' = [newest EXCEPT ![s] = newest'[s]]
    /\ UNCHANGED delivered

Take(s) ==
    /\ newest[s] > 0
    /\ delivered' = [delivered EXCEPT ![s] = Whole(newest[s])]
    /\ UNCHANGED newest

AbsNext == \E s \in Slots : Publish(s) \/ Take(s)

AbsSpec == AbsInit /\ [][AbsNext]_absVars
=============================================================================
