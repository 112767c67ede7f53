--------------------------- MODULE MCSpikeWorker ---------------------------
(* Values for checking SpikeWorker with TLC.  One tick stands for 100 ms:  *)
(* the dropout hold, the longest gap and the maximum input age are a tick   *)
(* each, an inference interval is the shortest time there is.               *)
EXTENDS SpikeWorker

Configuration(m, n, f) ==
    [fusion_mode |-> m, background_calibration_frames |-> n, frames_per_clip |-> f]

AllConfigurations == {Configuration("primary", 1, 2), Configuration("primary", 2, 2),
                      Configuration("calibrated", 1, 1)}
OnlyPrimary       == {Configuration("primary", 0, 2)}
OnlyCalibrated    == {Configuration("calibrated", 0, 2)}

\* Two cameras that are both processed have far more histories than one, so
\* their clock stops earlier and their frames are looked at when captured.
ClockBound   == [c \in Configurations |-> IF c.fusion_mode = "primary" THEN 5 ELSE 4]
LatencyBound == [c \in Configurations |-> IF c.fusion_mode = "primary" THEN 1 ELSE 0]
=============================================================================
