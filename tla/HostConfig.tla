----------------------------- MODULE HostConfig -----------------------------
(***************************************************************************)
(* The configuration of vp4uwrap.cpp: config_load_file stores the layers   *)
(* one after the other into g_cfg, and bounds the result at the end.       *)
(*                                                                         *)
(* A field stands for those the code treats alike: "width" (capture_w and  *)
(* capture_h), "rate" (capture_fps, preview_fps, image_pool_max), "hold"   *)
(* (the D4xx and placement fields with bounds) and "center" (those without *)
(* bounds, as d4xx_mirror_center_x). A value is named for the layer that   *)
(* gave it; "out" is a value out of bounds, "edge" the bound it is moved   *)
(* to, "profile" one the build insists on.                                 *)
(***************************************************************************)
Fields == {"width", "rate", "hold", "center"}
Builds == {"webcam", "kinect", "steamvr", "d4xx"}

VARIABLES
    build,     \* the backend it was built for; "d4xx" is also the one with SPiKE
    env,       \* the valid variables of the environment
    path,      \* g_cfgPath is not empty
    step,      \* of the call in progress
    host,      \* what the host's file says
    placement, \* what the plugin-local file says
    config,    \* g_cfg
    loaded     \* the last load has finished (history)

configVars == <<build, env, path, step, host, placement, config, loaded>>

\* A layer gives a value to some fields.
Layers(fields, values) == UNION {[S -> values] : S \in SUBSET fields}
NoLayer == [f \in {} |-> "out"]

Over(values, layer) ==
    [f \in Fields |-> IF f \in DOMAIN layer THEN layer[f] ELSE values[f]]

\* getenv: center has no variable, nor has the size; ranges are checked.
Environments == Layers({"rate", "hold"}, {"env"})

ConfigInit ==
    /\ build \in Builds
    /\ env \in Environments
    /\ path = FALSE
    /\ step = "idle"
    /\ host = NoLayer
    /\ placement = NoLayer
    /\ config = [f \in Fields |-> "default"]
    /\ loaded = FALSE

\* config_load_file with a path it can read, cannot read, or without one.
Load(withPath) ==
    /\ step' = "host"
    /\ path' = (path \/ withPath)
    /\ host' \in IF withPath
                 THEN Layers(Fields, {"host", "out"})
                 ELSE {NoLayer}
    /\ placement' \in IF build = "d4xx"
                      THEN Layers({"hold", "center"}, {"placement", "out"})
                      ELSE {NoLayer}
    /\ loaded' = FALSE
    /\ UNCHANGED <<build, env, config>>

LoadConfig == step = "idle" /\ \E withPath \in BOOLEAN : Load(withPath)

ReloadConfig == step = "idle" /\ path /\ Load(TRUE)

\* Initialize loads without a path unless one is known.
InitializeConfig ==
    /\ step = "idle"
    /\ IF path
       THEN /\ step' = "initialize"
            /\ UNCHANGED <<build, env, path, host, placement, config, loaded>>
       ELSE Load(FALSE)

-----------------------------------------------------------------------------
Continue(from, to, values) ==
    /\ step = from
    /\ step' = to
    /\ config' = values
    /\ UNCHANGED <<build, env, path, host, placement>>

ApplyJson == Continue("host", "placement", Over(config, host)) /\ UNCHANGED loaded

\* Variant: a field the host names is left to the host.
HostWins == Continue("placement", "profile",
                     Over(config, [f \in DOMAIN placement \ DOMAIN host |-> placement[f]]))
            /\ UNCHANGED loaded

ApplyPlacement ==
    Continue("placement", "profile", Over(config, placement)) /\ UNCHANGED loaded

\* The Kinect's pacing belongs to the build.
PaceKinect ==
    /\ Continue("profile", "environment",
                IF build = "kinect" THEN [config EXCEPT !["rate"] = "profile"] ELSE config)
    /\ UNCHANGED loaded

ApplyEnvironment ==
    Continue("environment", "bounds", Over(config, env)) /\ UNCHANGED loaded

\* Initialize with a path: the environment again, and no bounds.
InitializeEnvironment ==
    Continue("initialize", "idle", Over(config, env)) /\ UNCHANGED loaded

Bounded ==
    {"rate"} \union (IF build = "webcam" THEN {"width"}
                     ELSE IF build = "d4xx" THEN {"width", "hold"} ELSE {})

\* Variant: only the rates are bounded.
ClampedRate(f) == IF f = "rate" /\ config[f] = "out" THEN "edge" ELSE config[f]

Clamped(f) == IF f \in Bounded /\ config[f] = "out" THEN "edge" ELSE config[f]

\* The size of the D4xx is fixed after it was bounded.
Clamp ==
    /\ Continue("bounds", "idle",
                [f \in Fields |-> IF build = "d4xx" /\ f = "width" THEN "profile"
                                  ELSE Clamped(f)])
    /\ loaded' = TRUE

ConfigNext ==
    \/ LoadConfig \/ ReloadConfig \/ InitializeConfig
    \/ ApplyJson \/ ApplyPlacement \/ PaceKinect \/ ApplyEnvironment
    \/ InitializeEnvironment \/ Clamp

ConfigSpec == ConfigInit /\ [][ConfigNext]_configVars

-----------------------------------------------------------------------------
(***************************************************************************)
(* Between calls every bounded field is within its bounds, whatever the    *)
(* files said and however often they were loaded.                          *)
(***************************************************************************)
SettledInBounds == step = "idle" => \A f \in Bounded : config[f] # "out"

(***************************************************************************)
(* Each field keeps the value of the layer it belongs to: the environment  *)
(* wins over the build's profile, the profile and the plugin-local         *)
(* placement over the game's file, however often it is loaded again. The   *)
(* game cannot change the pacing of the Kinect or the pixel grid of the    *)
(* D4xx.                                                                   *)
(***************************************************************************)
LayersInOrder ==
    loaded /\ step = "idle" =>
        /\ \A f \in Fields \ {"width"} :
              IF f \in DOMAIN env THEN config[f] = "env"
              ELSE f \in DOMAIN placement =>
                       config[f] \in {placement[f]} \union
                                     (IF placement[f] = "out" THEN {"edge"} ELSE {})
        /\ build = "kinect" => config["rate"] \in {"profile", "env"}
        /\ build = "d4xx" => config["width"] = "profile"

=============================================================================
