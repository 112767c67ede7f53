---------------------------- MODULE NativeBridge ----------------------------
(***************************************************************************)
(* The native D4xx bridge: a library that Spice loads into the game, which *)
(* waits for the game's own VP4U wrapper, replaces its librealsense        *)
(* imports and puts itself between the game and the wrapper's API table.   *)
(*                                                                         *)
(* The wrapper may be mapped before the bridge, by the game, or by the     *)
(* bridge's entry point. Modules ask for the wrapper by name, keep the     *)
(* handle and resolve vp4uGetApiTable in it when they like. Once mapped    *)
(* the wrapper stays mapped until the bridge is destroyed.                 *)
(***************************************************************************)
EXTENDS BridgeFrames

CONSTANTS
    Modules,     \* modules of the game that use VP4U
    Candidates   \* those should_patch_loader_imports names

ASSUME ModuleAssumption == Candidates \subseteq Modules

VARIABLES
    aliasing,    \* whether Spice offers hook_library
    realtimeOnly,  \* the configuration's RealtimeOnly
    genuine,     \* the wrapper has the exports and librealsense imports expected
    entry,       \* the step of the bridge
    mapped,      \* the wrapper is mapped
    loaded,      \* the modules that are mapped
    hooked,      \* those whose loader imports lead to the bridge
    aliased,     \* Spice resolves the wrapper's names to the bridge
    state,       \* g_wrapper_state
    bound,       \* where g_original_get_api_table leads
    export,      \* where the wrapper's export vp4uGetApiTable leads
    handle,      \* handle[m]: what m loaded as the wrapper
    table        \* table[m]: the API table m got

setupVars == <<aliasing, realtimeOnly, genuine>>
linkVars == <<mapped, state, bound, imports, export>>
gameVars == <<handle, table>>
vars == <<frameVars, setupVars, linkVars, gameVars, entry, loaded, hooked, aliased>>

Init ==
    /\ FramesInit
    /\ aliasing \in BOOLEAN
    /\ realtimeOnly \in BOOLEAN
    /\ genuine \in BOOLEAN
    /\ entry = "attach"
    /\ mapped \in BOOLEAN
    /\ loaded \in SUBSET Modules
    /\ hooked = {}
    /\ aliased = FALSE
    /\ state = "waiting"
    /\ bound = "none"
    /\ export = "wrapper"
    /\ handle = [m \in Modules |-> "none"]
    /\ table = [m \in Modules |-> "none"]

Observing == entry \notin {"attach", "destroyed"}

-----------------------------------------------------------------------------
(* The loader maps a module and notifies the bridge, before anybody else   *)
(* can use the module.                                                     *)

\* patch_loader_imports, for the modules of M that want it.
HookLoader(M) == hooked' = hooked \union (M \cap Candidates)

LoadModule(m) ==
    /\ m \notin loaded
    /\ loaded' = loaded \union {m}
    /\ IF Observing THEN HookLoader({m}) ELSE UNCHANGED hooked
    /\ UNCHANGED <<frameVars, setupVars, linkVars, gameVars, entry, aliased>>

\* The load_library hooks: m, whose imports are hooked, asks for n, which is there
\* already, and the bridge sees it once more.
LoadAgain(m, n) ==
    /\ entry # "destroyed"
    /\ m \in hooked
    /\ n \in loaded \ hooked
    /\ HookLoader({n})
    /\ UNCHANGED <<frameVars, setupVars, linkVars, gameVars, entry, loaded, aliased>>

\* Variant: the export is redirected before the originals are looked up.
BindRedirected == bound' = "bridge"

\* bind_original_vp4u finds the table by the wrapper's export.
BindOriginal == bound' = export

\* patch_realsense_imports changes no import unless it knows all of them, but it may
\* fail before any of them, and leaves those it has replaced.
ReplaceImports(done) ==
    imports' \in IF done THEN {Intercepted} ELSE Replaced \ {Intercepted}

\* Variant: the wrapper's own export stays as it was.
RedirectNothing(done) == export' = export

\* install_vp4u_export_redirect, with a thunk when the bridge is far away.
RedirectExport(done) == export' = IF done THEN "bridge" ELSE export

\* loader_notification for the wrapper.
TakeOver ==
    \E replaced, redirected \in BOOLEAN :
        /\ redirected => replaced
        /\ BindOriginal
        /\ ReplaceImports(replaced)
        /\ RedirectExport(redirected)
        /\ state' = IF redirected THEN "patched" ELSE "incompatible"

\* validate_original_wrapper or bind_original_vp4u miss an export, or an import is
\* missing.
Reject ==
    /\ bound' \in {bound, export}
    /\ state' = "incompatible"
    /\ UNCHANGED <<imports, export>>

\* The wrapper is mapped, unless it is already.
Map ==
    /\ mapped' = TRUE
    /\ IF ~mapped /\ Observing /\ state = "waiting"
       THEN IF genuine THEN TakeOver ELSE Reject
       ELSE UNCHANGED <<state, bound, imports, export>>

-----------------------------------------------------------------------------
(* DllMain, spice_sdk_entry_point and destroy_callback.                    *)

\* DllMain registers the observer, or the bridge is not loaded at all.
Attach ==
    /\ entry = "attach"
    /\ entry' = "init"
    /\ UNCHANGED <<frameVars, setupVars, linkVars, gameVars, loaded, hooked, aliased>>

Fail ==
    /\ entry' = "failed"
    /\ UNCHANGED <<frameVars, setupVars, linkVars, gameVars, loaded, hooked, aliased>>

\* init, the configuration and the NVIDIA libraries, which may be missing.
Prepare ==
    /\ entry = "init"
    /\ entry' = "wrapper"
    /\ UNCHANGED <<frameVars, setupVars, linkVars, gameVars, loaded, hooked, aliased>>

PrepareFails == entry = "init" /\ Fail

\* preload_original_wrapper, when the wrapper was not seen yet.
Preload ==
    /\ entry = "wrapper"
    /\ state = "waiting"
    /\ Map
    /\ entry' = "check"
    /\ UNCHANGED <<frameVars, setupVars, gameVars, loaded, hooked, aliased>>

PreloadFails == entry = "wrapper" /\ state = "waiting" /\ ~mapped /\ Fail

NoPreload ==
    /\ entry = "wrapper"
    /\ state # "waiting"
    /\ entry' = "check"
    /\ UNCHANGED <<frameVars, setupVars, linkVars, gameVars, loaded, hooked, aliased>>

\* Variant: a wrapper that was mapped too early passes.
StateAccepted == state # "incompatible"

StateIsGood == state = "patched"

NotPatched == entry = "check" /\ ~StateIsGood /\ Fail

\* register_wrapper_aliases with hook_library.
RegisterAliases ==
    /\ entry = "check"
    /\ StateIsGood
    /\ aliasing
    /\ aliased' = TRUE
    /\ entry' = "ready"
    /\ UNCHANGED <<frameVars, setupVars, linkVars, gameVars, loaded, hooked>>

\* register_wrapper_aliases without: patch_loaded_loader_imports.
HookLoaded ==
    /\ entry = "check"
    /\ StateIsGood
    /\ ~aliasing
    /\ HookLoader(loaded)
    /\ entry' = IF hooked' # hooked THEN "ready" ELSE "failed"
    /\ UNCHANGED <<frameVars, setupVars, linkVars, gameVars, loaded, aliased>>

\* One of the five names cannot be registered; those before it stay.
AliasFails ==
    /\ entry = "check"
    /\ StateIsGood
    /\ aliasing
    /\ aliased' \in BOOLEAN
    /\ entry' = "failed"
    /\ UNCHANGED <<frameVars, setupVars, linkVars, gameVars, loaded, hooked>>

RestoreExport == export' = "wrapper"

\* Spice calls destroy_callback, when the game no longer uses VP4U. The wrapper goes
\* unless somebody else has loaded it, too.
Destroy ==
    /\ entry \in {"ready", "failed"}
    /\ \A t \in Threads : work[t].step = "idle"
    /\ entry' = "destroyed"
    /\ RestoreExport
    /\ bound' = "none"
    /\ Erase(Frames)
    /\ mapped' \in {mapped, FALSE}
    /\ UNCHANGED <<use, refs, work, pixels, setupVars, gameVars, loaded, hooked, aliased, state,
                   imports>>

-----------------------------------------------------------------------------
(* The game.                                                               *)

\* The hooks of the loader functions, or Spice, answer for the wrapper.
Redirected(m) == m \in hooked \/ aliased

\* m asks for the wrapper by name.
LoadVp4u(m) ==
    /\ m \in loaded
    /\ entry # "destroyed"
    /\ handle[m] = "none"
    /\ IF Redirected(m)
       THEN /\ handle' = [handle EXCEPT ![m] = "bridge"]
            /\ UNCHANGED linkVars
       ELSE /\ handle' = [handle EXCEPT ![m] = "wrapper"]
            /\ Map
    /\ UNCHANGED <<frameVars, setupVars, table, entry, loaded, hooked, aliased>>

\* What m gets for the name vp4uGetApiTable: get_proc_address_hook sends even
\* a handle kept from before to the bridge.
Resolved(m) == IF handle[m] = "bridge" \/ m \in hooked THEN "bridge" ELSE export

\* adapt_vp4u_api_table replaces the recorded-video entries, if it is to.
Adapted == IF realtimeOnly THEN "realtime" ELSE "full"

\* vp4uGetApiTable: the wrapper's table, adapted on the way through the bridge.
\* Without the original there is no table.
GetTable(m) ==
    /\ entry # "destroyed"
    /\ handle[m] # "none"
    /\ Resolved(m) = "bridge" => bound # "none"
    /\ table' = [table EXCEPT ![m] = IF Resolved(m) = "bridge" THEN Adapted ELSE "full"]
    /\ UNCHANGED <<frameVars, setupVars, linkVars, handle, entry, loaded, hooked, aliased>>

\* The wrapper's own threads, once somebody has its table, whatever has become of its
\* imports.
Frame(t, f) ==
    /\ entry # "destroyed"
    /\ \E m \in Modules : table[m] # "none"
    /\ FrameStep(t, f)
    /\ UNCHANGED <<setupVars, linkVars, gameVars, entry, loaded, hooked, aliased>>

Entry ==
    \/ Attach \/ Prepare \/ PrepareFails \/ Preload \/ PreloadFails \/ NoPreload
    \/ NotPatched \/ RegisterAliases \/ HookLoaded \/ AliasFails \/ Destroy

Next ==
    \/ Entry
    \/ \E m \in Modules : LoadModule(m) \/ LoadVp4u(m) \/ GetTable(m)
    \/ \E m, n \in Modules : LoadAgain(m, n)
    \/ \E t \in Threads, f \in Frames : Frame(t, f)

Spec == Init /\ [][Next]_vars

-----------------------------------------------------------------------------
TypeOK ==
    /\ FramesTypeOK
    /\ entry \in {"attach", "init", "wrapper", "check", "ready", "failed", "destroyed"}
    /\ {aliasing, realtimeOnly, genuine, mapped, aliased} \subseteq BOOLEAN
    /\ loaded \subseteq Modules
    /\ hooked \subseteq loaded \cap Candidates
    /\ state \in {"waiting", "patched", "incompatible"}
    /\ bound \in {"none", "wrapper", "bridge"}
    /\ export \in {"wrapper", "bridge"}
    /\ handle \in [Modules -> {"none", "wrapper", "bridge"}]
    /\ table \in [Modules -> {"none", "realtime", "full"}]

(***************************************************************************)
(* The bridge forwards to the wrapper's own code and never to itself, in   *)
(* whatever order the wrapper, its caller and the bridge appear: the       *)
(* originals are looked up while the export still leads to them. And one   *)
(* that reported success speaks for a genuine wrapper it has taken over    *)
(* entirely, not for one it saw too late.                                  *)
(***************************************************************************)
ForwardsToWrapper ==
    /\ bound # "none" => bound = "wrapper" /\ mapped
    /\ entry = "ready" =>
          genuine /\ bound # "none" /\ imports = Intercepted /\ export = "bridge"

(***************************************************************************)
(* Once the bridge has taken the wrapper over, and is to offer realtime    *)
(* analysis only, nobody has or gets the full table, by no route: not by   *)
(* Spice's alias, the hooked loader functions, a handle kept from before,  *)
(* or a module that is not hooked.                                         *)
(***************************************************************************)
NobodyHasFullTable ==
    realtimeOnly /\ state = "patched" => \A m \in Modules : table[m] # "full"

=============================================================================
