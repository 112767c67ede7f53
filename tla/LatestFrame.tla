----------------------------- MODULE LatestFrame -----------------------------
(***************************************************************************)
(* What D4xxSource promises whoever reads its depth, with no pipelines,    *)
(* locks, timeouts or reconnects: a camera offers its newest frame or, from *)
(* the moment it fails until its next frame, nothing; frames are numbered  *)
(* for as long as the source lives, whatever happens to the camera; a      *)
(* reader who names the last number it has seen gets newer frames only.    *)
(***************************************************************************)
EXTENDS Naturals

CONSTANT Devices    \* the cameras the source was opened with

VARIABLES
    newest,     \* [Devices -> Nat]: the number of the newest frame ever
    offered,    \* [Devices -> Nat]: the frame a reader would get, 0 = none
    taken       \* [Devices -> Nat]: the newest frame the reader has taken

absVars == <<newest, offered, taken>>

AbsInit ==
    /\ newest = [d \in Devices |-> 0]
    /\ offered = [d \in Devices |-> 0]
    /\ taken = [d \in Devices |-> 0]

Publish(d) ==
    /\ newest' = [newest EXCEPT ![d] = @ + 1]
    /\ offered' = [offered EXCEPT ![d] = newest[d] + 1]
    /\ UNCHANGED taken

\* The cameras of a set fail; their last frames are gone with them.
Lose(failed) ==
    /\ offered' = [d \in Devices |-> IF d \in failed THEN 0 ELSE offered[d]]
    /\ UNCHANGED <<newest, taken>>

Take(d) ==
    /\ offered[d] > taken[d]
    /\ taken' = [taken EXCEPT ![d] = offered[d]]
    /\ UNCHANGED <<newest, offered>>

AbsNext ==
    \/ \E d \in Devices : Publish(d) \/ Take(d)
    \/ \E failed \in SUBSET Devices : Lose(failed)

AbsSpec == AbsInit /\ [][AbsNext]_absVars
=============================================================================
