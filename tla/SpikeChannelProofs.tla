------------------------- MODULE SpikeChannelProofs -------------------------
(***************************************************************************)
(* Proofs about SpikeChannel, for every number of cameras, every payload   *)
(* layout and every bound.  The inductive invariant is IInv; its parts are *)
(* proved one after the other, each from the ones before it.               *)
(***************************************************************************)
EXTENDS SpikeChannel, TLAPS

USE ChannelAssumption

\* begin_write leaves a greater odd word and end_write a greater even one.
LEMMA SequenceWords ==
    ASSUME NEW n \in Nat
    PROVE  /\ NextOdd(n) \in Nat /\ NextOdd(n) > n /\ ~Even(NextOdd(n))
           /\ NextEven(n) \in Nat /\ NextEven(n) > n /\ Even(NextEven(n))
           /\ Even(0)
BY SMT DEF NextOdd, NextEven, Even

\* The slots are the cameras and, after them, the pose.
LEMMA SlotFacts ==
    /\ Pose \in Slots /\ Pose \notin Cameras /\ 0 \in Cameras
    /\ \A c \in Cameras : c \in Slots /\ c + 1 \in Slots /\ c # Pose
                          /\ Writer(c) = "host"
                          /\ (c + 1 # Pose => c + 1 \in Cameras)
    /\ \A s \in Slots : s \in Cameras \/ s = Pose
    /\ \A s \in Slots : s \in Nat
    /\ Writer(Pose) = "worker"
    /\ Sides = {"host", "worker"}
BY SMT DEF Pose, Slots, Cameras, Writer, Sides

LEMMA CameraOrder == \A c \in Cameras : c \in Nat /\ c < Pose
BY SMT DEF Cameras, Pose

LEMMA WholeType == ASSUME NEW n \in Nat PROVE Whole(n) \in [Parts -> Nat]
BY DEF Whole

LEMMA WholeParts ==
    ASSUME NEW n \in Nat
    PROVE  Whole(n)[Stamp] = n /\ \A p \in Parts : Whole(n)[p] = n
BY DEF Whole

-----------------------------------------------------------------------------
(* Types and places.                                                       *)

TypeAndPlace == TypeOK /\ Places

LEMMA InitTypeAndPlace == Init => TypeAndPlace
<1> SUFFICES ASSUME Init PROVE TypeAndPlace
  OBVIOUS
<1>1. Whole(0) \in [Parts -> Nat]
  BY WholeType
<1>2. pc["host"] = "scan" /\ pc["worker"] = "wait"
  BY DEF Init, Sides
<1>3. pc \in [Sides -> HostSteps \union WorkerSteps]
  BY DEF Init, Sides, HostSteps, WorkerSteps
<1>4. at \in [Sides -> Slots] /\ 0 \in Slots
  BY SlotFacts DEF Init, Sides
<1>5. TypeOK
  BY <1>1, <1>2, <1>3, <1>4 DEF Init, TypeOK, HostSteps, WorkerSteps
<1> QED BY <1>2, <1>5 DEF TypeAndPlace, Places

LEMMA WriteTypeAndPlace ==
    ASSUME TypeAndPlace, NEW side \in Sides, WriteStep(side)
    PROVE  TypeAndPlace'
<1> USE DEF TypeAndPlace, TypeOK, Places, memVars, readVars, ctlVars, Goto
<1>1. ASSUME NEW p \in Parts, Store(side, p)
      PROVE  TypeAndPlace'
  <2>1. payload' \in [Slots -> [Parts -> Nat]]
    BY <1>1 DEF Store
  <2> QED BY <1>1, <2>1 DEF Store
<1>2. ASSUME EndWrite(side)
      PROVE  TypeAndPlace'
  <2>1. NextEven(sequence[at[side]]) \in Nat
    BY SequenceWords
  <2> QED BY <1>2, <2>1, SlotFacts DEF EndWrite, HostSteps, WorkerSteps
<1> QED BY <1>1, <1>2 DEF WriteStep

Located ==
    /\ pc \in [Sides -> HostSteps \union WorkerSteps]
    /\ pc["host"] \in HostSteps
    /\ pc["worker"] \in WorkerSteps
    /\ at \in [Sides -> Slots]
    /\ Places

LEMMA ReadDoneLocated ==
    ASSUME Located, NEW side \in Sides, pc[side] \in {"look", "copy"},
           NEW step \in {"expired", "state"}, ReadDone(side, step)
    PROVE  Located'
<1> USE SlotFacts DEF Located, Places, HostSteps, WorkerSteps, ReadDone, Goto,
                      Visit
<1>1. CASE side = "host"
  BY <1>1
<1>2. CASE side = "worker"
  BY <1>2
<1> QED BY <1>1, <1>2

LEMMA TryAgainLocated ==
    ASSUME Located, NEW side \in Sides, pc[side] \in {"look", "copy"},
           attempt \in [Sides -> Nat], TryAgain(side)
    PROVE  Located' /\ attempt' \in [Sides -> Nat]
<1>1. CASE attempt[side] + 1 < Attempts(side)
  BY <1>1, SlotFacts DEF TryAgain, Located, Places, HostSteps, WorkerSteps, Goto
<1>2. CASE ~(attempt[side] + 1 < Attempts(side))
  BY <1>2, ReadDoneLocated DEF TryAgain
<1> QED BY <1>1, <1>2

LEMMA ReadTypeAndPlace ==
    ASSUME TypeAndPlace, NEW side \in Sides, ReadStep(side) \/ NothingNewer
    PROVE  TypeAndPlace'
<1> USE DEF TypeAndPlace, TypeOK, memVars, ctlVars
<1>0. Whole(0) \in [Parts -> Nat]
  BY WholeType
<1>1. Located
  BY DEF Located
<1>3. CASE LookInVain(side)
  BY <1>1, <1>3, TryAgainLocated DEF LookInVain, Located
<1>4. CASE Look(side)
  BY <1>4, SlotFacts DEF Look, HostSteps, WorkerSteps, Places, Goto
<1>5. ASSUME NEW p \in Parts, CopyPart(side, p)
      PROVE  TypeAndPlace'
  <2>1. payload[at[side]][p] \in Nat
    OBVIOUS
  <2>2. copy' \in [Sides -> [Parts -> Nat]]
    BY <1>5, <2>1 DEF CopyPart
  <2> QED BY <1>5, <2>2 DEF CopyPart, Places
<1>6. CASE Accept(side)
  <2>1. /\ cursor' \in [Slots -> Nat] /\ delivered' \in [Slots -> [Parts -> Nat]]
    BY <1>6 DEF Accept
  <2>2. Located'
    BY <1>1, <1>6, ReadDoneLocated DEF Accept
  <2> QED BY <1>0, <1>6, <2>1, <2>2 DEF Accept, Forget, Located
<1>7. CASE Reject(side)
  BY <1>0, <1>1, <1>7, TryAgainLocated DEF Reject, Forget, Located
<1>8. CASE NothingNewer
  BY <1>0, <1>1, <1>8, SlotFacts, ReadDoneLocated DEF NothingNewer, Forget, Located
<1> QED BY <1>3, <1>4, <1>5, <1>6, <1>7, <1>8 DEF ReadStep

LEMMA HostTypeAndPlace ==
    ASSUME TypeAndPlace,
           \/ HostBeginDepth \/ HostSkipCamera \/ HostSignal \/ HostWantPose
           \/ HostGiveUp \/ HostAwake \/ HostCheckState \/ HostEnd
           \/ RequestStop \/ RequestShutdown
    PROVE  TypeAndPlace'
<1> USE SlotFacts DEF TypeAndPlace, TypeOK, Places, memVars, readVars, ctlVars,
                      Goto, Visit, HostSteps, WorkerSteps
<1>1. CASE HostBeginDepth
  <2>1. PICK n \in stamp[at["host"]] + 1 .. MaxFrame :
          BeginWrite("host", at["host"], n)
    BY <1>1 DEF HostBeginDepth
  <2>2. n \in Nat /\ NextOdd(sequence[at["host"]]) \in Nat
    BY SequenceWords
  <2> QED BY <1>1, <2>1, <2>2 DEF HostBeginDepth, BeginWrite, InScan
<1>2. CASE HostSkipCamera
  BY <1>2 DEF HostSkipCamera, InScan
<1>3. CASE HostSignal
  BY <1>3 DEF HostSignal
<1>4. CASE HostWantPose
  BY <1>4 DEF HostWantPose, InScan
<1>5. CASE HostGiveUp
  BY <1>5 DEF HostGiveUp
<1>6. CASE HostAwake
  <2>1. TypeOK'
    BY <1>6 DEF HostAwake
  <2>2. Places'
    BY <1>6 DEF HostAwake
  <2> QED BY <2>1, <2>2
<1>7. CASE HostCheckState
  <2>1. TypeOK'
    BY <1>7 DEF HostCheckState
  <2>2. Places'
    BY <1>7 DEF HostCheckState
  <2> QED BY <2>1, <2>2
<1>8. CASE HostEnd
  BY <1>8 DEF HostEnd
<1>9. CASE RequestStop
  BY <1>9 DEF RequestStop
<1>10. CASE RequestShutdown
  BY <1>10 DEF RequestShutdown
<1> QED BY <1>1, <1>2, <1>3, <1>4, <1>5, <1>6, <1>7, <1>8, <1>9, <1>10

LEMMA WorkerTypeAndPlace ==
    ASSUME TypeAndPlace,
           \/ WorkerWake \/ WorkerExit \/ WorkerCalibrated \/ WorkerPublish
           \/ WorkerSkip \/ WorkerSignal \/ WorkerAnnounce \/ WorkerFault
           \/ WorkerCrash
    PROVE  TypeAndPlace'
<1> USE SlotFacts DEF TypeAndPlace, TypeOK, Places, memVars, readVars, ctlVars,
                      Goto, Visit, HostSteps, WorkerSteps
<1>1. CASE WorkerWake
  <2>1. TypeOK'
    BY <1>1 DEF WorkerWake
  <2>2. Places'
    BY <1>1 DEF WorkerWake
  <2> QED BY <2>1, <2>2
<1>2. CASE WorkerExit
  BY <1>2 DEF WorkerExit
<1>3. CASE WorkerCalibrated
  <2>1. TypeOK'
    <3>1. calibrating' \in BOOLEAN
      BY <1>3, Zenon DEF WorkerCalibrated
    <3>2. UNCHANGED <<memVars, inputEvent, outputEvent, workerState, shutdown, stop, pc, at,
                      stamp, unwritten, readVars, late>>
      BY <1>3 DEF WorkerCalibrated
    <3> QED BY <3>1, <3>2
  <2>2. Places'
    BY <1>3 DEF WorkerCalibrated
  <2> QED BY <2>1, <2>2
<1>4. CASE WorkerPublish
  <2>1. NextOdd(sequence[Pose]) \in Nat
    BY SequenceWords
  <2> QED BY <1>4, <2>1 DEF WorkerPublish, BeginWrite
<1>5. CASE WorkerSkip
  BY <1>5 DEF WorkerSkip
<1>6. CASE WorkerSignal
  BY <1>6 DEF WorkerSignal
<1>7. CASE WorkerAnnounce
  BY <1>7 DEF WorkerAnnounce
<1>8. CASE WorkerFault
  BY <1>8 DEF WorkerFault
<1>9. CASE WorkerCrash
  BY <1>9 DEF WorkerCrash
<1> QED BY <1>1, <1>2, <1>3, <1>4, <1>5, <1>6, <1>7, <1>8, <1>9

LEMMA NextTypeAndPlace == TypeAndPlace /\ [Next]_vars => TypeAndPlace'
<1> SUFFICES ASSUME TypeAndPlace, [Next]_vars PROVE TypeAndPlace'
  OBVIOUS
<1>1. CASE Next
  BY <1>1, SlotFacts, WriteTypeAndPlace, ReadTypeAndPlace, HostTypeAndPlace,
     WorkerTypeAndPlace DEF Next, HostStep, WorkerStep
<1>2. CASE UNCHANGED vars
  BY <1>2 DEF vars, memVars, readVars, ctlVars, TypeAndPlace, TypeOK, Places
<1> QED BY <1>1, <1>2

\* Every variable keeps its type, and each side only ever writes the slots it
\* owns and reads the others.
THEOREM TypeCorrect == Spec => [](TypeOK /\ Places)
<1>1. Spec => []TypeAndPlace
  BY InitTypeAndPlace, NextTypeAndPlace, PTL DEF Spec
<1> QED BY <1>1 DEF TypeAndPlace

-----------------------------------------------------------------------------
(* The sequence word vouches for the payload.                              *)

AllSlotInv == \A s \in Slots : SlotInv(s)

\* The steps that touch no slot: everything but begin_write, a store of a
\* payload word and end_write.
HostQuiet ==
    \/ HostSkipCamera \/ HostSignal \/ HostWantPose \/ HostGiveUp \/ HostAwake
    \/ HostCheckState \/ HostEnd \/ RequestStop \/ RequestShutdown

WorkerQuiet ==
    \/ WorkerWake \/ WorkerExit \/ WorkerCalibrated \/ WorkerSkip \/ WorkerSignal
    \/ WorkerAnnounce \/ WorkerFault

LEMMA NextCases ==
    Next <=> \/ \E side \in Sides : ReadStep(side)
             \/ NothingNewer
             \/ HostQuiet
             \/ WorkerQuiet
             \/ WorkerCrash
             \/ HostBeginDepth
             \/ WorkerPublish
             \/ \E side \in Sides : WriteStep(side)
BY SlotFacts DEF Next, HostStep, WorkerStep, HostQuiet, WorkerQuiet

\* What such a step leaves of the variables SlotInv speaks of.
Calm(s) ==
    /\ UNCHANGED <<memVars, unwritten>>
    /\ stamp'[s] >= stamp[s]
    /\ Storing(s) => stamp'[s] = stamp[s]
    /\ Storing(s)' <=> Storing(s)
    /\ ~WorkerAlive => ~WorkerAlive'

LEMMA ReadDoneCalm ==
    ASSUME TypeAndPlace, NEW side \in Sides, pc[side] \in {"look", "copy"},
           NEW step \in {"expired", "state"}, ReadDone(side, step), NEW s \in Slots
    PROVE  (Storing(s)' <=> Storing(s)) /\ (~WorkerAlive => ~WorkerAlive')
<1> USE SlotFacts DEF TypeAndPlace, TypeOK, Storing, WorkerAlive, ReadDone, Goto,
                      Visit, Writer
<1>1. CASE side = "host"
  BY <1>1
<1>2. CASE side = "worker"
  BY <1>2
<1> QED BY <1>1, <1>2

LEMMA TryAgainCalm ==
    ASSUME TypeAndPlace, NEW side \in Sides, pc[side] \in {"look", "copy"},
           TryAgain(side), NEW s \in Slots
    PROVE  (Storing(s)' <=> Storing(s)) /\ (~WorkerAlive => ~WorkerAlive')
<1>1. CASE attempt[side] + 1 < Attempts(side)
  BY <1>1, SlotFacts DEF TryAgain, TypeAndPlace, TypeOK, Storing, WorkerAlive,
     Goto, Writer
<1>2. CASE ~(attempt[side] + 1 < Attempts(side))
  BY <1>2, ReadDoneCalm DEF TryAgain
<1> QED BY <1>1, <1>2

LEMMA ReadCalm ==
    ASSUME TypeAndPlace, NEW side \in Sides, ReadStep(side) \/ NothingNewer,
           NEW s \in Slots
    PROVE  Calm(s)
<1>0. stamp[s] \in Nat
  BY DEF TypeAndPlace, TypeOK
<1>1. CASE LookInVain(side)
  BY <1>0, <1>1, TryAgainCalm DEF LookInVain, Calm
<1>2. CASE Look(side)
  BY <1>0, <1>2, SlotFacts DEF Look, Calm, TypeAndPlace, TypeOK, Storing,
     WorkerAlive, Goto, Writer, memVars
<1>3. ASSUME NEW p \in Parts, CopyPart(side, p)
      PROVE  Calm(s)
  BY <1>0, <1>3 DEF CopyPart, Calm, Storing, WorkerAlive, memVars
<1>4. CASE Accept(side)
  BY <1>0, <1>4, ReadDoneCalm DEF Accept, Calm
<1>5. CASE Reject(side)
  BY <1>0, <1>5, TryAgainCalm DEF Reject, Calm
<1>6. CASE NothingNewer
  BY <1>0, <1>6, ReadDoneCalm, SlotFacts DEF NothingNewer, Calm
<1> QED BY <1>1, <1>2, <1>3, <1>4, <1>5, <1>6 DEF ReadStep

LEMMA HostCalm ==
    ASSUME TypeAndPlace, HostQuiet, NEW s \in Slots
    PROVE  Calm(s)
<1> USE SlotFacts DEF TypeAndPlace, TypeOK, Calm, Storing, WorkerAlive, Goto,
                      Visit, Writer, memVars, InScan
<1>1. CASE HostSkipCamera
  BY <1>1 DEF HostSkipCamera
<1>2. CASE HostSignal
  BY <1>2 DEF HostSignal
<1>3. CASE HostWantPose
  BY <1>3 DEF HostWantPose
<1>4. CASE HostGiveUp
  BY <1>4 DEF HostGiveUp
<1>5. CASE HostAwake
  BY <1>5 DEF HostAwake
<1>6. CASE HostCheckState
  BY <1>6 DEF HostCheckState
<1>7. CASE HostEnd
  BY <1>7 DEF HostEnd
<1>8. CASE RequestStop
  BY <1>8 DEF RequestStop
<1>9. CASE RequestShutdown
  BY <1>9 DEF RequestShutdown
<1> QED BY <1>1, <1>2, <1>3, <1>4, <1>5, <1>6, <1>7, <1>8, <1>9 DEF HostQuiet

LEMMA WorkerCalm ==
    ASSUME TypeAndPlace, WorkerQuiet, NEW s \in Slots
    PROVE  Calm(s)
<1> USE SlotFacts DEF TypeAndPlace, TypeOK, Places, Calm, Storing, WorkerAlive,
                      Goto, Visit, Writer, memVars
<1>1. CASE WorkerWake
  BY <1>1 DEF WorkerWake
<1>2. CASE WorkerExit
  BY <1>2 DEF WorkerExit
<1>3. CASE WorkerCalibrated
  BY <1>3 DEF WorkerCalibrated
<1>4. CASE WorkerSkip
  BY <1>4 DEF WorkerSkip
<1>5. CASE WorkerSignal
  BY <1>5 DEF WorkerSignal
<1>6. CASE WorkerAnnounce
  BY <1>6 DEF WorkerAnnounce
<1>7. CASE WorkerFault
  BY <1>7 DEF WorkerFault
<1> QED BY <1>1, <1>2, <1>3, <1>4, <1>5, <1>6, <1>7 DEF WorkerQuiet

LEMMA CalmSlot ==
    ASSUME TypeAndPlace, TypeAndPlace', NEW s \in Slots, SlotInv(s), Calm(s)
    PROVE  SlotInv(s)'
BY DEF SlotInv, Calm, memVars, TypeAndPlace, TypeOK

LEMMA CrashSlot ==
    ASSUME TypeAndPlace, TypeAndPlace', NEW s \in Slots, SlotInv(s), WorkerCrash
    PROVE  SlotInv(s)'
<1>1. UNCHANGED <<memVars, unwritten, stamp, at>> /\ ~WorkerAlive'
      /\ pc'["worker"] = "dead" /\ pc'["host"] = pc["host"]
  BY SlotFacts DEF WorkerCrash, Goto, WorkerAlive, TypeAndPlace, TypeOK
<1>2. CASE s = Pose
  BY <1>1, <1>2, SlotFacts DEF SlotInv, Storing, memVars, TypeAndPlace, TypeOK
<1>3. CASE s # Pose
  BY <1>1, <1>3, SlotFacts DEF SlotInv, Storing, memVars, TypeAndPlace, TypeOK
<1> QED BY <1>2, <1>3

\* begin_write of slot t: the word turns odd with every payload word unwritten.
LEMMA BeginWriteSlot ==
    ASSUME TypeAndPlace, TypeAndPlace', NEW s \in Slots, SlotInv(s),
           NEW t \in Slots, NEW n \in Nat, n > stamp[t],
           BeginWrite(Writer(t), t, n), UNCHANGED at,
           at[Writer(t)] = t, pc[Writer(t)] \in {"scan", "decide"}
    PROVE  SlotInv(s)'
<1> USE DEF TypeAndPlace, TypeOK
<1>0. Writer(t) \in Sides /\ Writer(s) \in Sides
  BY SlotFacts
<1>1. /\ payload' = payload /\ newest' = newest
      /\ stamp' = [stamp EXCEPT ![t] = n]
      /\ sequence' = [sequence EXCEPT ![t] = NextOdd(@)]
      /\ unwritten' = [unwritten EXCEPT ![Writer(t)] = Parts]
      /\ pc' = [pc EXCEPT ![Writer(t)] = "store"]
  BY DEF BeginWrite, Goto
<1>2. CASE s = t
  <2>1. /\ sequence'[s] \in Nat /\ sequence'[s] > sequence[s] /\ ~Even(sequence'[s])
        /\ stamp'[s] = n /\ unwritten'[Writer(s)] = Parts
    BY <1>0, <1>1, <1>2, SequenceWords
  <2>2. Storing(s)'
    BY <1>0, <1>1, <1>2 DEF Storing
  <2> QED BY <1>1, <1>2, <2>1, <2>2 DEF SlotInv
<1>3. CASE s # t
  <2>1. /\ sequence'[s] = sequence[s] /\ stamp'[s] = stamp[s]
    BY <1>1, <1>3
  <2>2. /\ Storing(s)' <=> Storing(s)
        /\ Storing(s) => unwritten'[Writer(s)] = unwritten[Writer(s)]
        /\ ~WorkerAlive => ~WorkerAlive'
    BY <1>0, <1>1, <1>3, SlotFacts DEF Storing, WorkerAlive
  <2> QED BY <1>1, <2>1, <2>2 DEF SlotInv
<1> QED BY <1>2, <1>3

LEMMA StoreSlot ==
    ASSUME TypeAndPlace, TypeAndPlace', NEW s \in Slots, SlotInv(s),
           SlotInv(at[Writer(s)]), NEW side \in Sides, NEW p \in Parts,
           Store(side, p)
    PROVE  SlotInv(s)'
<1> USE DEF TypeAndPlace, TypeOK
<1>0. Writer(s) \in Sides /\ Writer(at[side]) = side
  BY SlotFacts DEF Places, Store
<1>1. /\ UNCHANGED <<sequence, newest, pc, at, stamp>>
      /\ pc[side] = "store"
      /\ payload' = [payload EXCEPT ![at[side]][p] = stamp[at[side]]]
      /\ unwritten' = [unwritten EXCEPT ![side] = @ \ {p}]
  BY DEF Store
<1>2. (Storing(s)' <=> Storing(s)) /\ (WorkerAlive' <=> WorkerAlive)
  BY <1>1 DEF Storing, WorkerAlive
<1>3. CASE s = at[side]
  <2>1. Storing(s)
    BY <1>0, <1>1, <1>3 DEF Storing
  <2>2. ~Even(sequence[s]) /\ newest[s] < stamp[s]
    BY <2>1 DEF SlotInv
  <2>3. \A q \in Parts : q \in unwritten'[side] \/ payload'[s][q] = stamp[s]
    <3> TAKE q \in Parts
    <3>1. q \in unwritten[side] \/ payload[s][q] = stamp[s]
      BY <1>0, <1>3, <2>1 DEF SlotInv
    <3> QED BY <1>0, <1>1, <1>3, <3>1
  <2> QED BY <1>0, <1>1, <1>2, <1>3, <2>1, <2>2, <2>3 DEF SlotInv
<1>4. CASE s # at[side]
  <2>1. payload'[s] = payload[s]
    BY <1>1, <1>4
  <2>2. Storing(s) => unwritten'[Writer(s)] = unwritten[Writer(s)]
    BY <1>0, <1>1, <1>4 DEF Storing
  <2> QED BY <1>1, <1>2, <2>1, <2>2 DEF SlotInv
<1> QED BY <1>3, <1>4

LEMMA EndWriteSlot ==
    ASSUME TypeAndPlace, TypeAndPlace', NEW s \in Slots, SlotInv(s),
           NEW side \in Sides, EndWrite(side)
    PROVE  SlotInv(s)'
<1> USE DEF TypeAndPlace, TypeOK
<1>0. Writer(s) \in Sides /\ Writer(at[side]) = side
  BY SlotFacts DEF Places, EndWrite
<1>1. /\ UNCHANGED <<payload, at, stamp, unwritten>>
      /\ pc[side] = "store" /\ unwritten[side] = {}
      /\ sequence' = [sequence EXCEPT ![at[side]] = NextEven(@)]
      /\ newest' = [newest EXCEPT ![at[side]] = stamp[at[side]]]
      /\ pc' = [pc EXCEPT ![side] = "signal"]
  BY DEF EndWrite, Goto
<1>2. CASE s = at[side]
  <2>1. Storing(s) /\ ~Storing(s)'
    BY <1>0, <1>1, <1>2 DEF Storing
  <2>2. Even(sequence'[s]) /\ sequence'[s] > sequence[s] /\ newest'[s] = stamp[s]
    BY <1>1, <1>2, SequenceWords
  <2>3. \A p \in Parts : payload'[s][p] = newest'[s]
    BY <1>0, <1>1, <1>2, <2>1, <2>2 DEF SlotInv
  <2> QED BY <1>1, <1>2, <2>1, <2>2, <2>3 DEF SlotInv
<1>3. CASE s # at[side]
  <2>1. sequence'[s] = sequence[s] /\ newest'[s] = newest[s]
    BY <1>1, <1>3
  <2>2. (Storing(s)' <=> Storing(s)) /\ (~WorkerAlive => ~WorkerAlive')
    BY <1>0, <1>1, <1>3, SlotFacts DEF Storing, WorkerAlive
  <2> QED BY <1>1, <2>1, <2>2 DEF SlotInv
<1> QED BY <1>2, <1>3

LEMMA NextSlotInv ==
    ASSUME TypeAndPlace, TypeAndPlace', AllSlotInv, [Next]_vars
    PROVE  AllSlotInv'
<1> SUFFICES ASSUME NEW s \in Slots PROVE SlotInv(s)'
  BY DEF AllSlotInv
<1>0. SlotInv(s) /\ \A t \in Slots : SlotInv(t)
  BY DEF AllSlotInv
<1>1. ASSUME NEW side \in Sides, ReadStep(side) \/ NothingNewer
      PROVE  SlotInv(s)'
  BY <1>0, <1>1, ReadCalm, CalmSlot
<1>2. CASE NothingNewer
  BY <1>1, <1>2, SlotFacts
<1>3. CASE HostQuiet
  BY <1>0, <1>3, HostCalm, CalmSlot
<1>4. CASE WorkerQuiet
  BY <1>0, <1>4, WorkerCalm, CalmSlot
<1>5. CASE WorkerCrash
  BY <1>0, <1>5, CrashSlot
<1>6. CASE HostBeginDepth
  <2>1. PICK n \in stamp[at["host"]] + 1 .. MaxFrame :
          BeginWrite("host", at["host"], n)
    BY <1>6 DEF HostBeginDepth
  <2>2. /\ at["host"] \in Slots /\ Writer(at["host"]) = "host"
        /\ pc["host"] = "scan" /\ UNCHANGED at
        /\ n \in Nat /\ n > stamp[at["host"]]
    BY <1>6, SlotFacts DEF HostBeginDepth, InScan, TypeAndPlace, TypeOK
  <2> QED BY <1>0, <2>1, <2>2, BeginWriteSlot
<1>7. CASE WorkerPublish
  <2>1. /\ Pose \in Slots /\ Writer(Pose) = "worker" /\ at["worker"] = Pose
        /\ pc["worker"] = "decide" /\ UNCHANGED at
        /\ stamp[Pose] + 1 \in Nat /\ stamp[Pose] + 1 > stamp[Pose]
        /\ BeginWrite("worker", Pose, stamp[Pose] + 1)
    BY <1>7, SlotFacts DEF WorkerPublish, TypeAndPlace, TypeOK, Places
  <2> QED BY <1>0, <2>1, BeginWriteSlot
<1>8. ASSUME NEW side \in Sides, WriteStep(side)
      PROVE  SlotInv(s)'
  <2>1. at[Writer(s)] \in Slots
    BY SlotFacts DEF TypeAndPlace, TypeOK
  <2> QED BY <1>0, <1>8, <2>1, StoreSlot, EndWriteSlot DEF WriteStep
<1>9. CASE UNCHANGED vars
  BY <1>0, <1>9 DEF vars, memVars, SlotInv, Storing, WorkerAlive
<1> QED BY <1>1, <1>2, <1>3, <1>4, <1>5, <1>6, <1>7, <1>8, <1>9, NextCases

LEMMA InitSlotInv == Init => AllSlotInv
BY SequenceWords, SlotFacts DEF Init, AllSlotInv, SlotInv, Storing, Whole

-----------------------------------------------------------------------------
(* What a reader has copied, and what it has been given.                   *)

AllCopyInv == \A side \in Sides : CopyInv(side)
AllDeliveredInv == \A s \in Slots : DeliveredInv(s)

\* The word and the newest stamp of a slot never go back, and the newest stamp
\* only changes together with the word.
Grows(s) ==
    /\ newest'[s] >= newest[s]
    /\ \/ sequence'[s] = sequence[s] /\ newest'[s] = newest[s]
       \/ sequence'[s] > sequence[s]

LEMMA NextGrows ==
    ASSUME TypeAndPlace, AllSlotInv, [Next]_vars, NEW s \in Slots
    PROVE  Grows(s)
<1> USE DEF Grows, TypeAndPlace, TypeOK, memVars
<1>0. newest[s] \in Nat /\ sequence[s] \in Nat /\ SlotInv(s)
  BY DEF AllSlotInv
<1>1. ASSUME NEW side \in Sides, ReadStep(side) \/ NothingNewer
      PROVE  Grows(s)
  BY <1>0, <1>1, ReadCalm DEF Calm
<1>2. CASE NothingNewer
  BY <1>1, <1>2, SlotFacts
<1>3. CASE HostQuiet
  BY <1>0, <1>3, HostCalm DEF Calm
<1>4. CASE WorkerQuiet
  BY <1>0, <1>4, WorkerCalm DEF Calm
<1>5. CASE WorkerCrash
  BY <1>0, <1>5 DEF WorkerCrash
<1>6. CASE HostBeginDepth
  <2>1. PICK n : BeginWrite("host", at["host"], n)
    BY <1>6 DEF HostBeginDepth
  <2> QED BY <1>0, <2>1, SequenceWords DEF BeginWrite
<1>7. CASE WorkerPublish
  BY <1>0, <1>7, SequenceWords DEF WorkerPublish, BeginWrite
<1>8. ASSUME NEW side \in Sides, WriteStep(side)
      PROVE  Grows(s)
  <2>1. ASSUME NEW p \in Parts, Store(side, p)
        PROVE  Grows(s)
    BY <1>0, <2>1 DEF Store
  <2>2. CASE EndWrite(side)
    <3>1. CASE s = at[side]
      <4>1. Storing(s)
        BY <2>2, <3>1, SlotFacts DEF EndWrite, Storing, Places
      <4>2. newest[s] < stamp[s]
        BY <1>0, <4>1 DEF SlotInv
      <4> QED BY <1>0, <2>2, <3>1, <4>2, SequenceWords DEF EndWrite
    <3>2. CASE s # at[side]
      BY <1>0, <2>2, <3>2 DEF EndWrite
    <3> QED BY <3>1, <3>2
  <2> QED BY <1>8, <2>1, <2>2 DEF WriteStep
<1>9. CASE UNCHANGED vars
  BY <1>0, <1>9 DEF vars
<1> QED BY <1>1, <1>2, <1>3, <1>4, <1>5, <1>6, <1>7, <1>8, <1>9, NextCases

\* The step is not a load of this side: if the side is still copying, its locals
\* are as they were.
KeepsCopy(side) ==
    pc'[side] = "copy" =>
        /\ pc[side] = "copy"
        /\ at'[side] = at[side]
        /\ first'[side] = first[side]
        /\ copied'[side] = copied[side]
        /\ copy'[side] = copy[side]

LEMMA TryAgainLeaves ==
    ASSUME TypeAndPlace, NEW side \in Sides, NEW sd \in Sides,
           \/ TryAgain(sd)
           \/ ReadDone(sd, "expired")
           \/ ReadDone(sd, "state")
    PROVE  /\ sd = side => pc'[side] # "copy"
           /\ sd # side => pc'[side] = pc[side] /\ at'[side] = at[side]
<1> USE SlotFacts DEF TypeAndPlace, TypeOK, ReadDone, Goto, Visit
<1>1. CASE ReadDone(sd, "expired") \/ ReadDone(sd, "state")
  BY <1>1
<1>2. CASE TryAgain(sd) /\ attempt[sd] + 1 < Attempts(sd)
  BY <1>2 DEF TryAgain
<1>3. CASE TryAgain(sd) /\ ~(attempt[sd] + 1 < Attempts(sd))
  BY <1>3 DEF TryAgain
<1> QED BY <1>1, <1>2, <1>3

LEMMA ReadKeepsCopy ==
    ASSUME TypeAndPlace, NEW side \in Sides, NEW sd \in Sides,
           \/ LookInVain(sd) \/ Accept(sd) \/ Reject(sd)
           \/ NothingNewer
           \/ Look(sd) /\ sd # side
           \/ (\E p \in Parts : CopyPart(sd, p)) /\ sd # side
    PROVE  KeepsCopy(side)
<1> USE DEF KeepsCopy, TypeAndPlace, TypeOK
<1>1. CASE LookInVain(sd)
  BY <1>1, TryAgainLeaves DEF LookInVain
<1>2. CASE Accept(sd)
  BY <1>2, TryAgainLeaves DEF Accept, Forget
<1>3. CASE Reject(sd)
  BY <1>3, TryAgainLeaves DEF Reject, Forget
<1>4. CASE NothingNewer
  BY <1>4, TryAgainLeaves, SlotFacts DEF NothingNewer, Forget
<1>5. CASE Look(sd) /\ sd # side
  BY <1>5 DEF Look, Goto
<1>6. ASSUME NEW p \in Parts, CopyPart(sd, p), sd # side
      PROVE  KeepsCopy(side)
  BY <1>6 DEF CopyPart
<1> QED BY <1>1, <1>2, <1>3, <1>4, <1>5, <1>6

LEMMA HostKeepsCopy ==
    ASSUME TypeAndPlace, NEW side \in Sides, HostQuiet \/ HostBeginDepth
    PROVE  KeepsCopy(side)
<1> USE SlotFacts DEF KeepsCopy, TypeAndPlace, TypeOK, readVars, Goto, Visit
<1>1. CASE HostSkipCamera
  BY <1>1 DEF HostSkipCamera, InScan
<1>2. CASE HostSignal
  BY <1>2 DEF HostSignal
<1>3. CASE HostWantPose
  BY <1>3 DEF HostWantPose
<1>4. CASE HostGiveUp
  BY <1>4 DEF HostGiveUp
<1>5. CASE HostAwake
  BY <1>5 DEF HostAwake
<1>6. CASE HostCheckState
  BY <1>6 DEF HostCheckState
<1>7. CASE HostEnd
  BY <1>7 DEF HostEnd
<1>8. CASE RequestStop
  BY <1>8 DEF RequestStop
<1>9. CASE RequestShutdown
  BY <1>9 DEF RequestShutdown
<1>10. CASE HostBeginDepth
  BY <1>10 DEF HostBeginDepth, BeginWrite
<1> QED BY <1>1, <1>2, <1>3, <1>4, <1>5, <1>6, <1>7, <1>8, <1>9, <1>10
        DEF HostQuiet

LEMMA WorkerKeepsCopy ==
    ASSUME TypeAndPlace, NEW side \in Sides,
           WorkerQuiet \/ WorkerCrash \/ WorkerPublish
    PROVE  KeepsCopy(side)
<1> USE SlotFacts DEF KeepsCopy, TypeAndPlace, TypeOK, readVars, Goto, Visit
<1>1. CASE WorkerWake
  BY <1>1 DEF WorkerWake
<1>2. CASE WorkerExit
  BY <1>2 DEF WorkerExit
<1>3. CASE WorkerCalibrated
  BY <1>3 DEF WorkerCalibrated
<1>4. CASE WorkerSkip
  BY <1>4 DEF WorkerSkip
<1>5. CASE WorkerSignal
  BY <1>5 DEF WorkerSignal
<1>6. CASE WorkerAnnounce
  BY <1>6 DEF WorkerAnnounce
<1>7. CASE WorkerFault
  BY <1>7 DEF WorkerFault
<1>8. CASE WorkerCrash
  BY <1>8 DEF WorkerCrash
<1>9. CASE WorkerPublish
  BY <1>9 DEF WorkerPublish, BeginWrite
<1> QED BY <1>1, <1>2, <1>3, <1>4, <1>5, <1>6, <1>7, <1>8, <1>9
        DEF WorkerQuiet

LEMMA WriteKeepsCopy ==
    ASSUME TypeAndPlace, NEW side \in Sides, NEW sd \in Sides, WriteStep(sd)
    PROVE  KeepsCopy(side)
<1> USE DEF KeepsCopy, TypeAndPlace, TypeOK, readVars
<1>1. ASSUME NEW p \in Parts, Store(sd, p)
      PROVE  KeepsCopy(side)
  BY <1>1 DEF Store
<1>2. CASE EndWrite(sd)
  BY <1>2 DEF EndWrite, Goto
<1> QED BY <1>1, <1>2 DEF WriteStep

LEMMA KeptCopyInv ==
    ASSUME TypeAndPlace, TypeAndPlace', NEW side \in Sides, CopyInv(side),
           KeepsCopy(side), Grows(at[side])
    PROVE  CopyInv(side)'
BY DEF TypeAndPlace, TypeOK, CopyInv, KeepsCopy, Grows

\* A step is either no load of this side, or its look, or a load.
LEMMA CopySteps ==
    ASSUME TypeAndPlace, NEW side \in Sides, [Next]_vars
    PROVE  KeepsCopy(side) \/ Look(side) \/ \E p \in Parts : CopyPart(side, p)
<1>1. ASSUME NEW sd \in Sides, ReadStep(sd)
      PROVE  KeepsCopy(side) \/ Look(side) \/ \E p \in Parts : CopyPart(side, p)
  BY <1>1, ReadKeepsCopy DEF ReadStep
<1>2. CASE UNCHANGED vars
  BY <1>2 DEF vars, readVars, KeepsCopy
<1> QED BY <1>1, <1>2, NextCases, HostKeepsCopy, WorkerKeepsCopy, WriteKeepsCopy,
        ReadKeepsCopy, SlotFacts

LEMMA NextCopyInv ==
    ASSUME TypeAndPlace, TypeAndPlace', AllSlotInv, AllCopyInv, [Next]_vars
    PROVE  AllCopyInv'
<1> SUFFICES ASSUME NEW side \in Sides PROVE CopyInv(side)'
  BY DEF AllCopyInv
<1>0. CopyInv(side) /\ at[side] \in Slots /\ SlotInv(at[side]) /\ Grows(at[side])
  BY NextGrows DEF AllCopyInv, AllSlotInv, TypeAndPlace, TypeOK
<1>1. CASE KeepsCopy(side)
  BY <1>0, <1>1, KeptCopyInv
<1>2. CASE Look(side)
  BY <1>0, <1>2 DEF Look, CopyInv, Unusable, TypeAndPlace, TypeOK, memVars
<1>3. ASSUME NEW p \in Parts, CopyPart(side, p)
      PROVE  CopyInv(side)'
  <2>1. /\ UNCHANGED <<sequence, newest, pc, at, first>> /\ pc[side] = "copy"
        /\ copied' = [copied EXCEPT ![side] = @ \union {p}]
        /\ copy' = [copy EXCEPT ![side][p] = payload[at[side]][p]]
    BY <1>3 DEF CopyPart, memVars
  <2>2. sequence[at[side]] = first[side] =>
          payload[at[side]][p] = newest[at[side]]
    BY <1>0, <2>1 DEF CopyInv, SlotInv
  <2> QED BY <1>0, <2>1, <2>2 DEF CopyInv, TypeAndPlace, TypeOK
<1> QED BY <1>1, <1>2, <1>3, CopySteps

\* What an accepted snapshot is: the newest publication, whole.
LEMMA AcceptTakesNewest ==
    ASSUME TypeAndPlace, AllCopyInv, NEW side \in Sides, Accept(side)
    PROVE  /\ delivered' = [delivered EXCEPT ![at[side]] = Whole(newest[at[side]])]
           /\ newest[at[side]] > cursor[at[side]]
           /\ \/ cursor' = [cursor EXCEPT ![at[side]] = newest[at[side]]]
              \/ UNCHANGED cursor
<1> USE DEF TypeAndPlace, TypeOK
<1>1. /\ pc[side] = "copy" /\ copied[side] = Parts
      /\ sequence[at[side]] = first[side]
      /\ copy[side][Stamp] > cursor[at[side]]
      /\ delivered' = [delivered EXCEPT ![at[side]] = copy[side]]
      /\ \/ cursor' = [cursor EXCEPT ![at[side]] = copy[side][Stamp]]
         \/ UNCHANGED cursor
  BY DEF Accept, Consistent, Newer
<1>2. \A p \in Parts : copy[side][p] = newest[at[side]]
  BY <1>1 DEF AllCopyInv, CopyInv
<1>3. copy[side] = Whole(newest[at[side]])
  BY <1>2 DEF Whole
<1> QED BY <1>1, <1>2, <1>3

\* Only Accept hands out a snapshot or moves a cursor.
Handed == <<delivered, cursor>>

LEMMA HandedFrame ==
    ASSUME [Next]_vars, \A side \in Sides : ~Accept(side)
    PROVE  UNCHANGED Handed
<1> USE DEF Handed, readVars
<1>1. ASSUME NEW side \in Sides, ReadStep(side) \/ NothingNewer
      PROVE  UNCHANGED Handed
  BY <1>1 DEF ReadStep, LookInVain, Look, CopyPart, Reject, NothingNewer
<1>2. CASE NothingNewer
  BY <1>1, <1>2, SlotFacts
<1>3. CASE HostQuiet
  BY <1>3 DEF HostQuiet, HostSkipCamera, HostSignal, HostWantPose, HostGiveUp,
     HostAwake, HostCheckState, HostEnd, RequestStop, RequestShutdown
<1>4. CASE WorkerQuiet
  BY <1>4 DEF WorkerQuiet, WorkerWake, WorkerExit, WorkerCalibrated, WorkerSkip,
     WorkerSignal, WorkerAnnounce, WorkerFault
<1>5. CASE WorkerCrash
  BY <1>5 DEF WorkerCrash
<1>6. CASE HostBeginDepth
  BY <1>6 DEF HostBeginDepth, BeginWrite
<1>7. CASE WorkerPublish
  BY <1>7 DEF WorkerPublish, BeginWrite
<1>8. ASSUME NEW side \in Sides, WriteStep(side)
      PROVE  UNCHANGED Handed
  BY <1>8 DEF WriteStep, Store, EndWrite
<1>9. CASE UNCHANGED vars
  BY <1>9 DEF vars
<1> QED BY <1>1, <1>2, <1>3, <1>4, <1>5, <1>6, <1>7, <1>8, <1>9, NextCases

LEMMA NextDeliveredInv ==
    ASSUME TypeAndPlace, TypeAndPlace', AllSlotInv, AllCopyInv,
           AllDeliveredInv, [Next]_vars
    PROVE  AllDeliveredInv'
<1> SUFFICES ASSUME NEW s \in Slots PROVE DeliveredInv(s)'
  BY DEF AllDeliveredInv
<1> USE DEF TypeAndPlace, TypeOK
<1>0. DeliveredInv(s) /\ newest'[s] >= newest[s]
  BY NextGrows DEF AllDeliveredInv, Grows
<1>1. ASSUME NEW side \in Sides, Accept(side)
      PROVE  DeliveredInv(s)'
  <2>1. UNCHANGED newest
    BY <1>1 DEF Accept, memVars
  <2>2. CASE s = at[side]
    <3>1. delivered'[s] = Whole(newest[s]) /\ newest[s] \in Nat
      BY <1>1, <2>2, AcceptTakesNewest
    <3>2. delivered'[s][Stamp] = newest[s]
          /\ \A p \in Parts : delivered'[s][p] = newest[s]
      BY <3>1, WholeParts
    <3>3. cursor'[s] = newest[s] \/ cursor'[s] = cursor[s]
      BY <1>1, <2>2, AcceptTakesNewest
    <3>4. cursor[s] < newest[s]
      BY <1>1, <2>2, AcceptTakesNewest
    <3> QED BY <2>1, <3>2, <3>3, <3>4 DEF DeliveredInv
  <2>3. CASE s # at[side]
    <3>1. /\ delivered' = [delivered EXCEPT ![at[side]] = Whole(newest[at[side]])]
          /\ \/ cursor' = [cursor EXCEPT ![at[side]] = newest[at[side]]]
             \/ UNCHANGED cursor
      BY <1>1, AcceptTakesNewest
    <3>2. delivered'[s] = delivered[s] /\ cursor'[s] = cursor[s]
      BY <2>3, <3>1
    <3> QED BY <1>0, <2>1, <3>2 DEF DeliveredInv
  <2> QED BY <2>2, <2>3
<1>2. CASE \A side \in Sides : ~Accept(side)
  BY <1>0, <1>2, HandedFrame DEF Handed, DeliveredInv
<1> QED BY <1>1, <1>2

LEMMA InitReadInv == Init => AllCopyInv /\ AllDeliveredInv
BY SlotFacts DEF Init, AllCopyInv, CopyInv, AllDeliveredInv, DeliveredInv, Whole

LEMMA ReadInvParts == ReadInv <=> AllSlotInv /\ AllDeliveredInv /\ AllCopyInv
BY DEF ReadInv, AllSlotInv, AllDeliveredInv, AllCopyInv

\* The sequence locks work: types, places, what the words vouch for, and what
\* the readers hold.
ChannelInv == TypeAndPlace /\ ReadInv

LEMMA ChannelInvariant == Spec => []ChannelInv
<1>1. Init => ChannelInv
  BY InitTypeAndPlace, InitSlotInv, InitReadInv, ReadInvParts DEF ChannelInv
<1>2. ChannelInv /\ [Next]_vars => ChannelInv'
  <2> SUFFICES ASSUME ChannelInv, [Next]_vars PROVE ChannelInv'
    OBVIOUS
  <2>1. TypeAndPlace' /\ AllSlotInv' /\ AllCopyInv' /\ AllDeliveredInv'
    BY NextTypeAndPlace, NextSlotInv, NextCopyInv, NextDeliveredInv,
       ReadInvParts DEF ChannelInv
  <2> QED BY <2>1 DEF ChannelInv, ReadInv, AllSlotInv, AllCopyInv,
                      AllDeliveredInv
<1> QED BY <1>1, <1>2, PTL DEF Spec

\* No reader of the mapping is ever given parts of two publications.
THEOREM SnapshotsAreWhole == Spec => []NoTornSnapshot
<1>1. ChannelInv => NoTornSnapshot
  BY DEF ChannelInv, ReadInv, DeliveredInv, NoTornSnapshot
<1> QED BY <1>1, ChannelInvariant, PTL

\* A snapshot handed out later is newer than the one before it.
THEOREM DeliveryIsInOrder == Spec => DeliveryInOrder
<1>1. ChannelInv /\ [Next]_vars =>
        [\A s \in Slots : delivered'[s] # delivered[s] =>
            delivered'[s][Stamp] > delivered[s][Stamp]]_vars
  <2> SUFFICES ASSUME ChannelInv, [Next]_vars, NEW s \in Slots,
                      delivered'[s] # delivered[s]
               PROVE  delivered'[s][Stamp] > delivered[s][Stamp]
    OBVIOUS
  <2> USE DEF ChannelInv, TypeAndPlace, TypeOK
  <2>1. PICK side \in Sides : Accept(side)
    BY HandedFrame DEF Handed
  <2>2. /\ s = at[side]
        /\ delivered'[s] = Whole(newest[s])
    BY <2>1, AcceptTakesNewest, ReadInvParts
  <2>3. delivered[s] # Whole(newest[s]) /\ DeliveredInv(s)
    BY <2>2 DEF ReadInv
  <2>4. delivered[s][Stamp] # newest[s]
    <3> SUFFICES ASSUME delivered[s][Stamp] = newest[s] PROVE FALSE
      OBVIOUS
    <3>1. \A p \in Parts : delivered[s][p] = newest[s]
      BY <2>3 DEF DeliveredInv
    <3>2. delivered[s] \in [Parts -> Nat]
      OBVIOUS
    <3> QED BY <2>3, <3>1, <3>2 DEF Whole
  <2>5. delivered'[s][Stamp] = newest[s]
    BY <2>2, WholeParts
  <2>6. delivered[s][Stamp] <= newest[s]
    BY <2>3 DEF DeliveredInv
  <2>7. delivered[s][Stamp] \in Nat /\ newest[s] \in Nat
    OBVIOUS
  <2> HIDE DEF TypeAndPlace, TypeOK
  <2> QED BY <2>4, <2>5, <2>6, <2>7
<1> QED BY <1>1, ChannelInvariant, PTL DEF Spec, DeliveryInOrder

-----------------------------------------------------------------------------
(* No wakeup is lost.                                                      *)

\* The reader of slot s will be woken for it, or nobody is left to wake it.
Pending(s) ==
    \/ IF s = Pose THEN outputEvent ELSE inputEvent
    \/ Underway(s)
    \/ s = Pose /\ ~WorkerAlive

\* The read of slot s may be over.
Served(s) == UpToDate(s) \/ Pending(s)

\* A reader whose slot was written during its copy will be woken.
SeenInv(side) ==
    pc[side] = "copy" /\ sequence[at[side]] # first[side] => Pending(at[side])

LEMMA PendingParts ==
    /\ \A c \in Cameras : Pending(c) <=> InputPending(c)
    /\ Pending(Pose) <=> OutputPending
BY SlotFacts DEF Pending, InputPending, OutputPending

\* Only the wait of its reader consumes the event of a slot.
Consumes(s) == IF s = Pose THEN HostAwake ELSE WorkerWake

LEMMA ReadPending ==
    ASSUME TypeAndPlace, NEW sd \in Sides,
           ReadStep(sd) \/ (NothingNewer /\ sd = "worker"),
           NEW s \in Slots, Pending(s)
    PROVE  Pending(s)'
<1>1. pc[sd] \in {"look", "copy"} /\ UNCHANGED <<inputEvent, outputEvent>>
  BY DEF ReadStep, LookInVain, Look, CopyPart, Accept, Reject, NothingNewer
<1>2. ASSUME NEW other \in Sides, other # sd
      PROVE  pc'[other] = pc[other] /\ at'[other] = at[other]
  <2>1. CASE LookInVain(sd) \/ Accept(sd) \/ Reject(sd) \/ (NothingNewer /\ sd = "worker")
    BY <1>2, <2>1, TryAgainLeaves DEF LookInVain, Accept, Reject, NothingNewer
  <2>2. CASE Look(sd)
    BY <1>2, <2>2 DEF Look, Goto, TypeAndPlace, TypeOK
  <2>3. ASSUME NEW p \in Parts, CopyPart(sd, p)
        PROVE  pc'[other] = pc[other] /\ at'[other] = at[other]
    BY <2>3 DEF CopyPart
  <2> QED BY <2>1, <2>2, <2>3 DEF ReadStep
<1>3. Underway(s) => Underway(s)'
  BY <1>1, <1>2, SlotFacts DEF Underway, Writer
<1>4. ~WorkerAlive => ~WorkerAlive'
  BY ReadCalm DEF Calm
<1> QED BY <1>1, <1>3, <1>4 DEF Pending

LEMMA HostPending ==
    ASSUME TypeAndPlace, HostQuiet \/ HostBeginDepth, NEW s \in Slots, ~Consumes(s),
           Pending(s)
    PROVE  Pending(s)'
<1> USE SlotFacts DEF TypeAndPlace, TypeOK, Pending, Underway, WorkerAlive, Goto,
                      Visit, Writer, Consumes, InScan
<1>1. CASE HostSkipCamera
  BY <1>1 DEF HostSkipCamera
<1>2. CASE HostSignal
  BY <1>2 DEF HostSignal
<1>3. CASE HostWantPose
  BY <1>3 DEF HostWantPose
<1>4. CASE HostGiveUp
  BY <1>4 DEF HostGiveUp
<1>5. CASE HostAwake
  BY <1>5 DEF HostAwake
<1>6. CASE HostCheckState
  BY <1>6 DEF HostCheckState
<1>7. CASE HostEnd
  BY <1>7 DEF HostEnd
<1>8. CASE RequestStop
  BY <1>8 DEF RequestStop
<1>9. CASE RequestShutdown
  BY <1>9 DEF RequestShutdown
<1>10. CASE HostBeginDepth
  BY <1>10 DEF HostBeginDepth, BeginWrite
<1> QED BY <1>1, <1>2, <1>3, <1>4, <1>5, <1>6, <1>7, <1>8, <1>9, <1>10 DEF HostQuiet

LEMMA WorkerPending ==
    ASSUME TypeAndPlace, WorkerQuiet \/ WorkerCrash \/ WorkerPublish, NEW s \in Slots,
           ~Consumes(s), Pending(s)
    PROVE  Pending(s)'
<1> USE SlotFacts DEF TypeAndPlace, TypeOK, Places, Pending, Underway, WorkerAlive,
                      Goto, Visit, Writer, Consumes
<1>1. CASE WorkerWake
  BY <1>1 DEF WorkerWake
<1>2. CASE WorkerExit
  BY <1>2 DEF WorkerExit
<1>3. CASE WorkerCalibrated
  BY <1>3 DEF WorkerCalibrated
<1>4. CASE WorkerSkip
  BY <1>4 DEF WorkerSkip
<1>5. CASE WorkerSignal
  BY <1>5 DEF WorkerSignal
<1>6. CASE WorkerAnnounce
  BY <1>6 DEF WorkerAnnounce
<1>7. CASE WorkerFault
  BY <1>7 DEF WorkerFault
<1>8. CASE WorkerCrash
  BY <1>8 DEF WorkerCrash
<1>9. CASE WorkerPublish
  BY <1>9 DEF WorkerPublish, BeginWrite
<1> QED BY <1>1, <1>2, <1>3, <1>4, <1>5, <1>6, <1>7, <1>8, <1>9 DEF WorkerQuiet

LEMMA WritePending ==
    ASSUME TypeAndPlace, NEW sd \in Sides, WriteStep(sd), NEW s \in Slots, Pending(s)
    PROVE  Pending(s)'
<1> USE DEF Pending, Underway, WorkerAlive
<1>1. ASSUME NEW p \in Parts, Store(sd, p)
      PROVE  Pending(s)'
  BY <1>1 DEF Store
<1>2. CASE EndWrite(sd)
  BY <1>2, SlotFacts DEF EndWrite, Goto, TypeAndPlace, TypeOK, Writer
<1> QED BY <1>1, <1>2 DEF WriteStep

\* The announcement of a publication is not lost while its reader does not wait.
LEMMA PendingStays ==
    ASSUME TypeAndPlace, [Next]_vars, NEW s \in Slots, ~Consumes(s), Pending(s)
    PROVE  Pending(s)'
<1>1. CASE UNCHANGED vars
  BY <1>1 DEF vars, Pending, Underway, WorkerAlive
<1> QED BY <1>1, NextCases, ReadPending, HostPending, WorkerPending, WritePending,
        SlotFacts

\* A step that touches a slot announces it, or is about to.
LEMMA TouchedIsPending ==
    ASSUME TypeAndPlace, [Next]_vars, NEW s \in Slots,
           sequence'[s] # sequence[s] \/ newest'[s] # newest[s]
    PROVE  Underway(s)'
<1> USE DEF memVars, TypeAndPlace, TypeOK
<1>1. ASSUME NEW side \in Sides, ReadStep(side) \/ NothingNewer
      PROVE  FALSE
  BY <1>1, ReadCalm DEF Calm
<1>2. CASE HostQuiet \/ WorkerQuiet
  BY <1>2, HostCalm, WorkerCalm DEF Calm
<1>3. CASE WorkerCrash
  BY <1>3 DEF WorkerCrash
<1>4. CASE HostBeginDepth
  BY <1>4, SlotFacts DEF HostBeginDepth, BeginWrite, Underway, Goto
<1>5. CASE WorkerPublish
  BY <1>5, SlotFacts DEF WorkerPublish, BeginWrite, Underway, Goto, Places
<1>6. ASSUME NEW sd \in Sides, NEW p \in Parts, Store(sd, p)
      PROVE  FALSE
  BY <1>6 DEF Store
<1>7. ASSUME NEW sd \in Sides, EndWrite(sd)
      PROVE  Underway(s)'
  <2>1. at[sd] = s /\ at' = at /\ pc'[sd] = "signal"
    BY <1>7 DEF EndWrite, Goto
  <2>2. sd = Writer(s)
    BY <1>7, <2>1, SlotFacts DEF EndWrite, Places
  <2> QED BY <2>1, <2>2 DEF Underway
<1>8. CASE UNCHANGED vars
  BY <1>8 DEF vars
<1> QED BY <1>1, <1>2, <1>3, <1>4, <1>5, <1>6, <1>7, <1>8, NextCases, SlotFacts
        DEF WriteStep

\* A slot that is served stays served until its reader waits again.
LEMMA ServedStays ==
    ASSUME TypeAndPlace, AllCopyInv, [Next]_vars, NEW s \in Slots, ~Consumes(s),
           Served(s)
    PROVE  Served(s)'
<1>1. CASE Pending(s)
  BY <1>1, PendingStays DEF Served
<1>2. CASE Underway(s)'
  BY <1>2 DEF Served, Pending
<1>3. CASE UpToDate(s) /\ newest'[s] = newest[s] /\ delivered'[s] = delivered[s]
  BY <1>3 DEF Served, UpToDate
<1>4. ASSUME NEW side \in Sides, Accept(side), s = at[side], newest'[s] = newest[s]
      PROVE  Served(s)'
  <2>1. newest[s] \in Nat /\ delivered'[s] = Whole(newest[s])
    BY <1>4, AcceptTakesNewest DEF TypeAndPlace, TypeOK
  <2> QED BY <1>4, <2>1, WholeParts DEF Served, UpToDate
<1>5. ASSUME NEW side \in Sides, Accept(side), s # at[side]
      PROVE  delivered'[s] = delivered[s]
  BY <1>5 DEF Accept
<1> QED BY <1>1, <1>2, <1>3, <1>4, <1>5, TouchedIsPending, HandedFrame DEF Served, Handed

\* A read that returns nothing leaves a slot that is served.
LEMMA ReadInVain ==
    ASSUME ChannelInv, NEW side \in Sides, SeenInv(side),
           LookInVain(side) \/ Reject(side) \/ (NothingNewer /\ side = "worker")
    PROVE  Served(at[side])
<1> DEFINE s == at[side]
<1>0. /\ s \in Slots /\ SlotInv(s) /\ DeliveredInv(s) /\ CopyInv(side)
      /\ newest[s] \in Nat /\ cursor[s] \in Nat /\ delivered[s][Stamp] \in Nat
  BY DEF ChannelInv, TypeAndPlace, TypeOK, ReadInv
<1>1. CASE LookInVain(side) /\ ~Even(sequence[s])
  BY <1>0, <1>1 DEF SlotInv, Storing, Served, Pending, Underway
<1>2. CASE LookInVain(side) /\ sequence[s] = 0
  BY <1>0, <1>2 DEF SlotInv, DeliveredInv, Served, UpToDate
<1>3. CASE ~LookInVain(side) /\ sequence[s] # first[side]
  BY <1>3 DEF Reject, NothingNewer, SeenInv, Served
<1>4. CASE ~LookInVain(side) /\ sequence[s] = first[side]
  <2>1. pc[side] = "copy" /\ Stamp \in copied[side] /\ ~Newer(side)
    BY <1>4 DEF Reject, NothingNewer, Consistent
  <2>2. newest[s] <= cursor[s]
    BY <1>0, <1>4, <2>1 DEF CopyInv, Newer
  <2> QED BY <1>0, <2>2 DEF DeliveredInv, Served, UpToDate
<1> QED BY <1>1, <1>2, <1>3, <1>4 DEF LookInVain, Unusable

\* So does a read that returned a snapshot.
LEMMA ReadIsServed ==
    ASSUME ChannelInv, NEW side \in Sides, SeenInv(side), [Next]_vars,
           \/ LookInVain(side) \/ Accept(side) \/ Reject(side)
           \/ (NothingNewer /\ side = "worker"),
           NEW s \in Slots, s = at[side]
    PROVE  Served(s)'
<1>1. ~Consumes(s)
  BY SlotFacts DEF LookInVain, Accept, Reject, NothingNewer, Consumes, HostAwake,
     WorkerWake, ChannelInv, TypeAndPlace, TypeOK, Places
<1>2. CASE Accept(side)
  <2>1. newest[s] \in Nat /\ newest' = newest /\ delivered'[s] = Whole(newest[s])
    <3>1. newest' = newest
      BY <1>2 DEF Accept, memVars
    <3>2. delivered' = [delivered EXCEPT ![s] = Whole(newest[s])]
      BY <1>2, AcceptTakesNewest, ReadInvParts DEF ChannelInv
    <3> QED BY <3>1, <3>2 DEF ChannelInv, TypeAndPlace, TypeOK
  <2>2. delivered'[s][Stamp] = newest'[s]
    BY <2>1, WholeParts
  <2> QED BY <2>2 DEF Served, UpToDate
<1>3. CASE ~Accept(side)
  <2>1. Served(s)
    BY <1>3, ReadInVain
  <2> QED BY <1>1, <2>1, ServedStays, ReadInvParts DEF ChannelInv
<1> QED BY <1>2, <1>3

LEMMA NextSeenInv ==
    ASSUME ChannelInv, NEW side \in Sides, SeenInv(side), [Next]_vars
    PROVE  SeenInv(side)'
<1> USE DEF ChannelInv
<1>0. at[side] \in Slots
  BY DEF TypeAndPlace, TypeOK
<1>1. CASE Look(side)
  BY <1>0, <1>1 DEF Look, SeenInv, TypeAndPlace, TypeOK, memVars
<1>2. ASSUME pc[side] = "copy", ~Consumes(at[side]),
             at'[side] = at[side], first'[side] = first[side]
      PROVE  SeenInv(side)'
  <2>1. CASE sequence'[at[side]] # sequence[at[side]]
    BY <1>0, <1>2, <2>1, TouchedIsPending DEF SeenInv, Pending
  <2>2. CASE sequence'[at[side]] = sequence[at[side]]
    BY <1>0, <1>2, <2>2, PendingStays DEF SeenInv
  <2> QED BY <2>1, <2>2
<1>3. pc[side] = "copy" => ~Consumes(at[side])
  BY <1>0, SlotFacts DEF Consumes, HostAwake, WorkerWake, TypeAndPlace, Places
<1>4. ASSUME NEW p \in Parts, CopyPart(side, p)
      PROVE  SeenInv(side)'
  BY <1>2, <1>3, <1>4 DEF CopyPart
<1>5. CASE KeepsCopy(side)
  BY <1>2, <1>3, <1>5 DEF KeepsCopy, SeenInv
<1> QED BY <1>1, <1>4, <1>5, CopySteps

\* Neither side moves the other.
LEMMA HostLeavesWorker ==
    ASSUME TypeAndPlace,
           HostQuiet \/ HostBeginDepth \/ WriteStep("host") \/ ReadStep("host")
    PROVE  UNCHANGED <<pc["worker"], at["worker"]>>
<1> USE SlotFacts DEF TypeAndPlace, TypeOK, Goto, Visit
<1>1. CASE HostQuiet
  BY <1>1 DEF HostQuiet, HostSkipCamera, HostSignal, HostWantPose, HostGiveUp, HostAwake,
     HostCheckState, HostEnd, RequestStop, RequestShutdown
<1>2. CASE HostBeginDepth
  BY <1>2 DEF HostBeginDepth, BeginWrite
<1>3. CASE WriteStep("host")
  BY <1>3 DEF WriteStep, Store, EndWrite
<1>4. CASE LookInVain("host") \/ Accept("host") \/ Reject("host")
  BY <1>4, TryAgainLeaves DEF LookInVain, Accept, Reject
<1>5. CASE ReadStep("host")
  BY <1>4, <1>5 DEF ReadStep, Look, CopyPart
<1> QED BY <1>1, <1>2, <1>3, <1>5

LEMMA WorkerLeavesHost ==
    ASSUME TypeAndPlace,
           \/ WorkerQuiet \/ WorkerCrash \/ WorkerPublish \/ WriteStep("worker")
           \/ ReadStep("worker") \/ NothingNewer
    PROVE  UNCHANGED pc["host"]
<1> USE SlotFacts DEF TypeAndPlace, TypeOK, Goto, Visit
<1>1. CASE WorkerQuiet
  BY <1>1 DEF WorkerQuiet, WorkerWake, WorkerExit, WorkerCalibrated, WorkerSkip,
     WorkerSignal, WorkerAnnounce, WorkerFault
<1>2. CASE WorkerCrash
  BY <1>2 DEF WorkerCrash
<1>3. CASE WorkerPublish
  BY <1>3 DEF WorkerPublish, BeginWrite
<1>4. CASE WriteStep("worker")
  BY <1>4 DEF WriteStep, Store, EndWrite
<1>5. CASE LookInVain("worker") \/ Accept("worker") \/ Reject("worker") \/ NothingNewer
  BY <1>5, TryAgainLeaves DEF LookInVain, Accept, Reject, NothingNewer
<1>6. CASE ReadStep("worker")
  BY <1>5, <1>6 DEF ReadStep, Look, CopyPart
<1> QED BY <1>1, <1>2, <1>3, <1>4, <1>5, <1>6

\* The worker has read camera c since it last waited.
HasRead(c) ==
    \/ pc["worker"] \in {"wait", "decide", "store", "signal", "announce"}
    \/ pc["worker"] \in {"look", "copy"} /\ c < at["worker"]

LEMMA WakeParts ==
    TypeAndPlace =>
      /\ WorkerWakeInv <=> /\ \A c \in Cameras : HasRead(c) => Served(c)
                           /\ SeenInv("worker")
      /\ HostWakeInv <=> /\ pc["host"] = "expired" => Served(Pose)
                         /\ SeenInv("host")
BY PendingParts DEF TypeAndPlace, Places, WorkerWakeInv, HostWakeInv, HasRead, Served,
   SeenInv

ReadEnds(side) ==
    \/ LookInVain(side) \/ Accept(side) \/ Reject(side)
    \/ NothingNewer /\ side = "worker"

\* A camera counts as read when a read of it ends, and no longer when the worker wakes.
LEMMA ReadsEnd ==
    ASSUME TypeAndPlace, [Next]_vars, NEW c \in Cameras, HasRead(c)'
    PROVE  \/ HasRead(c) /\ ~WorkerWake
           \/ c = at["worker"] /\ ReadEnds("worker")
<1> USE SlotFacts DEF TypeAndPlace, TypeOK, Places
<1>1. CASE ReadEnds("worker")
  <2>1. /\ pc["worker"] \in {"look", "copy"}
        /\ TryAgain("worker") \/ ReadDone("worker", "expired")
           \/ ReadDone("worker", "state")
    BY <1>1 DEF ReadEnds, LookInVain, Accept, Reject, NothingNewer
  <2>2. \/ at'["worker"] = at["worker"] /\ pc'["worker"] = "look"
        \/ /\ at'["worker"] = at["worker"] + 1
           /\ pc'["worker"] = IF at["worker"] + 1 = Pose THEN "decide" ELSE "look"
    <3>1. CASE ReadDone("worker", "expired") \/ ReadDone("worker", "state")
      BY <3>1 DEF ReadDone, Goto, Visit
    <3>2. CASE TryAgain("worker")
      BY <3>1, <3>2 DEF TryAgain, Goto
    <3> QED BY <2>1, <3>1, <3>2
  <2>3. c < at["worker"] \/ c = at["worker"]
    <3>1. c < at'["worker"] \/ at["worker"] + 1 = Pose
      BY <2>2 DEF HasRead
    <3>2. at["worker"] \in Nat
      BY SlotFacts
    <3>3. c \in Nat /\ c < Pose
      BY CameraOrder
    <3> QED BY <2>2, <3>1, <3>2, <3>3
  <2>4. ~WorkerWake
    BY <2>1 DEF WorkerWake
  <2> QED BY <1>1, <2>1, <2>3, <2>4 DEF HasRead
<1>2. CASE UNCHANGED <<pc["worker"], at["worker"]>>
  BY <1>2 DEF HasRead, WorkerWake, Visit, Goto
<1>3. ASSUME ReadStep("worker"), ~ReadEnds("worker")
      PROVE  HasRead(c) /\ ~WorkerWake
  BY <1>3 DEF ReadStep, ReadEnds, Look, CopyPart, HasRead, WorkerWake, Goto
<1>4. CASE WorkerQuiet \/ WorkerCrash \/ WorkerPublish \/ WriteStep("worker")
  <2> USE DEF HasRead, Goto, Visit, WorkerWake
  <2>1. CASE WorkerWake
    BY <2>1, SMT DEF Cameras
  <2>2. CASE WorkerExit \/ WorkerFault
    BY <2>2 DEF WorkerExit, WorkerFault
  <2>3. CASE WorkerCalibrated \/ WorkerSkip \/ WorkerSignal \/ WorkerAnnounce
    BY <2>3 DEF WorkerCalibrated, WorkerSkip, WorkerSignal, WorkerAnnounce
  <2>4. CASE WorkerCrash
    BY <2>4 DEF WorkerCrash
  <2>5. CASE WorkerPublish
    BY <2>5 DEF WorkerPublish, BeginWrite
  <2>6. CASE WriteStep("worker")
    BY <2>6 DEF WriteStep, Store, EndWrite
  <2> QED BY <1>4, <2>1, <2>2, <2>3, <2>4, <2>5, <2>6 DEF WorkerQuiet
<1>5. CASE HostQuiet \/ HostBeginDepth \/ WriteStep("host") \/ ReadStep("host")
  BY <1>2, <1>5, HostLeavesWorker
<1>6. CASE UNCHANGED vars
  BY <1>2, <1>6 DEF vars
<1> QED BY <1>1, <1>3, <1>4, <1>5, <1>6, NextCases DEF ReadEnds

\* The host comes to its wait by a read in vain.
LEMMA HostExpires ==
    ASSUME TypeAndPlace, [Next]_vars, pc'["host"] = "expired"
    PROVE  \/ pc["host"] = "expired" /\ ~HostAwake
           \/ LookInVain("host") \/ Reject("host")
<1> USE SlotFacts DEF TypeAndPlace, TypeOK
<1>1. CASE UNCHANGED pc["host"]
  BY <1>1 DEF HostAwake, Goto
<1>2. CASE HostQuiet
  BY <1>1, <1>2 DEF HostQuiet, HostSkipCamera, HostSignal, HostWantPose, HostGiveUp,
     HostAwake, HostCheckState, HostEnd, RequestStop, RequestShutdown, Goto
<1>3. CASE HostBeginDepth \/ WriteStep("host")
  BY <1>1, <1>3 DEF HostBeginDepth, BeginWrite, WriteStep, Store, EndWrite, Goto
<1>4. CASE ReadStep("host")
  BY <1>1, <1>4 DEF ReadStep, Look, CopyPart, Accept, ReadDone, Goto
<1>5. CASE WorkerQuiet \/ WorkerCrash \/ WorkerPublish \/ WriteStep("worker")
           \/ ReadStep("worker") \/ NothingNewer
  BY <1>1, <1>5, WorkerLeavesHost
<1>6. CASE UNCHANGED vars
  BY <1>1, <1>6 DEF vars
<1> QED BY <1>2, <1>3, <1>4, <1>5, <1>6, NextCases

LEMMA NextWakeInv ==
    ASSUME ChannelInv, ChannelInv', WorkerWakeInv, HostWakeInv, [Next]_vars
    PROVE  WorkerWakeInv' /\ HostWakeInv'
<1> USE DEF ChannelInv
<1>1. \A side \in Sides : SeenInv(side)
  BY SlotFacts, WakeParts
<1>2. \A side \in Sides : SeenInv(side)'
  BY <1>1, NextSeenInv
<1>3. ASSUME NEW c \in Cameras, HasRead(c)'
      PROVE  Served(c)'
  <2>1. CASE HasRead(c) /\ ~WorkerWake
    BY <2>1, SlotFacts, WakeParts, ServedStays, ReadInvParts DEF Consumes
  <2>2. CASE c = at["worker"] /\ ReadEnds("worker")
    BY <1>1, <2>2, SlotFacts, ReadIsServed DEF ReadEnds
  <2> QED BY <1>3, <2>1, <2>2, ReadsEnd
<1>4. ASSUME pc'["host"] = "expired"
      PROVE  Served(Pose)'
  <2>1. CASE pc["host"] = "expired" /\ ~HostAwake
    BY <2>1, SlotFacts, WakeParts, ServedStays, ReadInvParts DEF Consumes
  <2>2. CASE LookInVain("host") \/ Reject("host")
    <3>1. at["host"] = Pose
      BY <2>2 DEF LookInVain, Reject, TypeAndPlace, Places
    <3> QED BY <1>1, <2>2, <3>1, SlotFacts, ReadIsServed
  <2> QED BY <1>4, <2>1, <2>2, HostExpires
<1>5. \A c \in Cameras : HasRead(c)' => Served(c)'
  BY <1>3
<1>6. pc'["host"] = "expired" => Served(Pose)'
  BY <1>4
<1>7. (/\ WorkerWakeInv <=> /\ \A c \in Cameras : HasRead(c) => Served(c)
                            /\ SeenInv("worker")
       /\ HostWakeInv <=> /\ pc["host"] = "expired" => Served(Pose)
                          /\ SeenInv("host"))'
  BY WakeParts, PTL
<1> QED BY <1>2, <1>5, <1>6, <1>7, SlotFacts

LEMMA InitWakeInv == Init => WorkerWakeInv /\ HostWakeInv
<1> SUFFICES ASSUME Init PROVE WorkerWakeInv /\ HostWakeInv
  OBVIOUS
<1>1. pc["host"] = "scan" /\ pc["worker"] = "wait"
  BY DEF Init, Sides
<1>2. \A s \in Slots : UpToDate(s)
  BY WholeParts DEF Init, UpToDate
<1> QED BY <1>1, <1>2, SlotFacts DEF WorkerWakeInv, HostWakeInv

\* The whole inductive invariant.
THEOREM ChannelIsInductive == Spec => []IInv
<1>1. Init => WorkerWakeInv /\ HostWakeInv
  BY InitWakeInv
<1>2. ChannelInv /\ ChannelInv' /\ (WorkerWakeInv /\ HostWakeInv) /\ [Next]_vars
        => (WorkerWakeInv /\ HostWakeInv)'
  BY NextWakeInv
<1>3. ChannelInv /\ (WorkerWakeInv /\ HostWakeInv) => IInv
  BY DEF ChannelInv, TypeAndPlace, IInv
<1> QED BY <1>1, <1>2, <1>3, ChannelInvariant, PTL DEF Spec

\* A side that blocks on its event has taken everything published, or the event is
\* still to be set: although two cameras share one event, a read may fail after the
\* event was consumed, and a slot may be written while it is copied.
THEOREM NoWakeupIsLost == Spec => []NoLostWakeup
<1>1. IInv => NoLostWakeup
  BY DEF IInv, WorkerWakeInv, HostWakeInv, NoLostWakeup, InputPending, OutputPending
<1> QED BY <1>1, ChannelIsInductive, PTL

-----------------------------------------------------------------------------
\* The channel is a latest-value mailbox: completing a publication is the
\* abstract Publish, accepting a snapshot the abstract Take, and no other step
\* changes what the mailbox shows.
THEOREM ChannelImplementsMailbox == Spec => ImplementsMailbox
<1>1. Init => Mailbox!AbsInit
  BY DEF Init, Mailbox!AbsInit, Whole, Mailbox!Whole
<1>2. ChannelInv /\ ChannelInv' /\ [Next]_vars =>
        [Mailbox!AbsNext]_(Mailbox!absVars)
  <2> SUFFICES ASSUME ChannelInv, ChannelInv', [Next]_vars
               PROVE  [Mailbox!AbsNext]_(Mailbox!absVars)
    OBVIOUS
  <2> USE DEF ChannelInv, TypeAndPlace, TypeOK
  <2>1. ASSUME NEW side \in Sides, Accept(side)
        PROVE  Mailbox!Take(at[side])
    <3>1. UNCHANGED newest /\ at[side] \in Slots /\ cursor[at[side]] \in Nat
      BY <2>1 DEF Accept, memVars
    <3> QED BY <2>1, <3>1, AcceptTakesNewest, ReadInvParts
            DEF Mailbox!Take, Whole, Mailbox!Whole
  <2>2. ASSUME NEW side \in Sides, EndWrite(side)
        PROVE  Mailbox!Publish(at[side])
    <3>1. Storing(at[side]) /\ SlotInv(at[side])
      BY <2>2, SlotFacts DEF EndWrite, Storing, Places, ReadInv
    <3>2. newest[at[side]] < stamp[at[side]]
      BY <3>1 DEF SlotInv
    <3>3. UNCHANGED delivered
      BY <2>2 DEF EndWrite, readVars
    <3> QED BY <2>2, <3>2, <3>3 DEF EndWrite, Mailbox!Publish
  <2>3. ASSUME \A side \in Sides : ~Accept(side) /\ ~EndWrite(side)
        PROVE  UNCHANGED Mailbox!absVars
    <3>1. UNCHANGED delivered
      BY <2>3, HandedFrame DEF Handed
    <3>2. UNCHANGED newest
      <4>1. ASSUME NEW side \in Sides, ReadStep(side) \/ NothingNewer
            PROVE  UNCHANGED newest
        BY <4>1, SlotFacts, ReadCalm DEF Calm, memVars
      <4>2. CASE HostQuiet
        BY <4>2, SlotFacts, HostCalm DEF Calm, memVars
      <4>3. CASE WorkerQuiet
        BY <4>3, SlotFacts, WorkerCalm DEF Calm, memVars
      <4>4. CASE WorkerCrash \/ HostBeginDepth \/ WorkerPublish
        BY <4>4 DEF WorkerCrash, HostBeginDepth, WorkerPublish, BeginWrite, memVars
      <4>5. ASSUME NEW side \in Sides, WriteStep(side)
            PROVE  UNCHANGED newest
        BY <2>3, <4>5 DEF WriteStep, Store
      <4>6. CASE UNCHANGED vars
        BY <4>6 DEF vars, memVars
      <4> QED BY <4>1, <4>2, <4>3, <4>4, <4>5, <4>6, NextCases, SlotFacts
    <3> QED BY <3>1, <3>2 DEF Mailbox!absVars
  <2>4. \A side \in Sides : at[side] \in Slots
    OBVIOUS
  <2> QED BY <2>1, <2>2, <2>3, <2>4 DEF Mailbox!AbsNext
<1> QED BY <1>1, <1>2, ChannelInvariant, PTL
        DEF Spec, ImplementsMailbox, Mailbox!AbsSpec
=============================================================================
