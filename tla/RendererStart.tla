--------------------------- MODULE RendererStart ---------------------------
(***************************************************************************)
(* From the renderer of a profile to the window of the game: launchJVM of  *)
(* JavaLauncher.m decides on a renderer and checks its Vulkan driver       *)
(* (vk_preflight.c, through the loader shim of vk_loader_shim.c), writes   *)
(* the graphics API to options.txt and starts the JVM; egl_bridge.m then   *)
(* resolves the renderer once more when the game asks for a context, fills *)
(* the bridge table (gl_bridge.m, osm_bridge.m), or hands out the layer    *)
(* for Vulkan (vk_bridge.m) and has the main thread size it anew.          *)
(*                                                                         *)
(* The environment, the latches and the drivers last as long as the        *)
(* process, over every launch that fails before the JVM; options.txt       *)
(* outlives it. A renderer and its file name are one: env is the kind that *)
(* ame_renderer_from_name gives for AME_RENDERER.                          *)
(***************************************************************************)
EXTENDS Naturals, FiniteSets

CONSTANTS
    Profile,    \* kinds a profile may ask for
    Fault,      \* what may be wrong with a Vulkan driver, "none" among them
    Config,     \* settings of MoltenVK that the player can choose
    MaxLaunch   \* bound: launches of one process

Kind == {"UNKNOWN", "AUTO", "GL4ES", "ANGLE", "MOBILEGLUES", "MOBILEGL",
         "ZINK", "MOLTENVK", "KOSMICKRISP"}

owns_egl == {"MOBILEGLUES", "MOBILEGL"}
uses_angle == {"AUTO", "GL4ES", "ANGLE", "MOBILEGLUES"}
is_vulkan_native == {"MOLTENVK", "KOSMICKRISP"}

(* The bundled file behind ame.vulkan.libpath: the shim, or MoltenVK.      *)
vulkan_library_file(r) == IF r = "KOSMICKRISP" THEN "KOSMICKRISP" ELSE "MOLTENVK"

(* The checks of ame_vk_preflight, in their order.                         *)
Check == {"load", "entry", "layers", "version", "extensions", "surface"}

ASSUME RendererAssumption ==
    /\ Profile \subseteq Kind
    /\ Fault \subseteq Check \cup {"none"} /\ Fault # {}
    /\ Config # {}
    /\ MaxLaunch \in Nat

NoConfig == "unread"    \* MoltenVK is not loaded
ASSUME NoConfigAssumption == NoConfig \notin Config

VARIABLES
    at, launches,                   \* where launchJVM is
    vulkanUnavailable, gameHasVulkanBackend,
    env, backendType,               \* AME_RENDERER; MOBILEGL_BACKEND_TYPE is set
    setting, config, readConfig,    \* MoltenVK: preferences, environment, as loaded
    fault, driver,                  \* Vulkan drivers of the device; loaded by the shim
    options, created,               \* preferredGraphicsBackend; written by this launch
    libname, available, libpath,    \* properties of the JVM
    clientAPI, inited,              \* egl_bridge.m
    table, gl_renderer, egl, display,
    window, pc,                     \* the game's window, and its render thread
    vulkanNative, sync, geometry    \* latch, block on the main queue, size of the layer

launch == <<at, launches, vulkanUnavailable, gameHasVulkanBackend>>
drivers == <<setting, config, readConfig, fault, driver>>
file == <<options, created>>
jvm == <<libname, available, libpath>>
bridge == <<inited, table, gl_renderer, egl, display>>
layer == <<vulkanNative, sync, geometry>>
vars == <<launch, env, backendType, drivers, file, jvm, clientAPI, bridge,
          window, pc, layer>>

Init ==
    /\ at = "menu" /\ launches = 0
    /\ vulkanUnavailable = FALSE /\ gameHasVulkanBackend = FALSE
    /\ env = "UNKNOWN" /\ backendType = FALSE
    /\ setting \in Config /\ config = NoConfig /\ readConfig = NoConfig
    /\ fault \in [is_vulkan_native -> Fault] /\ driver = "unloaded"
    /\ options = "none" /\ created = FALSE
    /\ libname = "UNKNOWN" /\ available = TRUE /\ libpath = "MOLTENVK"
    /\ clientAPI = "none" /\ inited = FALSE
    /\ table = "none" /\ gl_renderer = "UNKNOWN" /\ egl = "UNKNOWN" /\ display = "none"
    /\ window = "none" /\ pc = "free"
    /\ vulkanNative = FALSE /\ sync = "none" /\ geometry = "screen"

-----------------------------------------------------------------------------
(* vk_loader_shim.c: the first call loads the driver beside the shim, once *)
(* for the process. Its entry points fail when the driver has not been     *)
(* loaded or lacks one; it reports zero layers itself.                     *)
Loaded == IF fault["KOSMICKRISP"] \in {"load", "entry"} THEN "failed" ELSE "loaded"

ShimFault ==
    IF driver' = "failed" THEN "version"
    ELSE IF fault["KOSMICKRISP"] = "layers" THEN "none" ELSE fault["KOSMICKRISP"]

(* The first check that ame_vk_preflight fails, or "none".                 *)
Preflight(r) == IF r = "KOSMICKRISP" THEN ShimFault ELSE fault[r]

-----------------------------------------------------------------------------
(* launchJVM: the renderer of the profile, which AUTO leaves open, and the *)
(* environment of MobileGL.                                                *)
Start ==
    /\ at = "menu" /\ launches < MaxLaunch
    /\ launches' = launches + 1
    /\ vulkanUnavailable' = FALSE /\ created' = FALSE

SetupRenderer ==
    /\ Start
    /\ \E r \in Profile, hasVulkan \in BOOLEAN :
          /\ gameHasVulkanBackend' = hasVulkan
          /\ env' = IF hasVulkan /\ r = "AUTO" THEN "MOLTENVK" ELSE r
    /\ backendType' = (env' = "MOBILEGL")
    /\ at' = IF env' \in is_vulkan_native THEN "preflight" ELSE "checks"
    /\ UNCHANGED <<drivers, options, jvm, clientAPI, bridge, window, pc, layer>>

(* A JAR is run with the environment an earlier launch has left.           *)
LaunchJar ==
    /\ Start
    /\ gameHasVulkanBackend' = FALSE /\ at' = "checks"
    /\ UNCHANGED <<env, backendType, drivers, options, jvm, clientAPI, bridge,
                   window, pc, layer>>

(* "env first, the driver reads its config once when it is loaded"         *)
(* (JavaLauncher.m:256); the preflight loads it.                           *)
Load(c) ==
    /\ readConfig' = IF env = "MOLTENVK" /\ readConfig = NoConfig
                        /\ fault[env] # "load" THEN c ELSE readConfig
    /\ driver' = IF env = "KOSMICKRISP" /\ driver = "unloaded" THEN Loaded ELSE driver

Checked ==
    /\ vulkanUnavailable' = (Preflight(env) # "none")
    /\ env' = IF vulkanUnavailable' THEN "AUTO" ELSE env
    /\ at' = "checks"

CheckVulkanFirst ==         \* mutant: the environment after the preflight
    /\ at = "preflight"
    /\ config' = IF env = "MOLTENVK" THEN setting ELSE config
    /\ Load(config) /\ Checked
    /\ UNCHANGED <<launches, gameHasVulkanBackend, backendType, setting, fault,
                   file, jvm, clientAPI, bridge, window, pc, layer>>

CheckVulkan ==
    /\ at = "preflight"
    /\ config' = IF env = "MOLTENVK" THEN setting ELSE config
    /\ Load(config') /\ Checked
    /\ UNCHANGED <<launches, gameHasVulkanBackend, backendType, setting, fault,
                   file, jvm, clientAPI, bridge, window, pc, layer>>

(* No LWJGL, no runtime, no memory; or later, no libjli: back to the menu  *)
(* in the same process, with everything as it is by then.                  *)
GiveUp ==
    /\ at \in {"checks", "written"} /\ at' = "menu"
    /\ UNCHANGED <<launches, vulkanUnavailable, gameHasVulkanBackend, env,
                   backendType, drivers, file, jvm, clientAPI, bridge, window, pc, layer>>

(* setDefaultForKey: the graphics API is written only into an options.txt  *)
(* that names none.                                                        *)
graphicsBackendOfRenderer ==    \* mutant: forgets that the driver failed
    IF gameHasVulkanBackend /\ env \in is_vulkan_native \cup {"AUTO"} THEN "vulkan" ELSE "none"

graphicsBackend ==
    IF ~gameHasVulkanBackend THEN "none"
    ELSE IF ~vulkanUnavailable /\ env \in is_vulkan_native THEN "vulkan"
    ELSE IF vulkanUnavailable THEN "opengl" ELSE "none"

SetupOptions ==
    /\ at = "checks" /\ at' = "written"
    /\ options' = IF options = "none" THEN graphicsBackend ELSE options
    /\ created' = (options = "none" /\ graphicsBackend # "none")
    /\ UNCHANGED <<launches, vulkanUnavailable, gameHasVulkanBackend, env,
                   backendType, drivers, jvm, clientAPI, bridge, window, pc, layer>>

StartJVMSilent ==           \* mutant: no ame.vulkan.available=false
    /\ at = "written" /\ at' = "jvm"
    /\ libname' = IF env \in is_vulkan_native \cup {"AUTO"} THEN "ANGLE" ELSE env
    /\ available' = TRUE
    /\ libpath' = vulkan_library_file(env)
    /\ UNCHANGED <<launches, vulkanUnavailable, gameHasVulkanBackend, env,
                   backendType, drivers, file, clientAPI, bridge, window, pc, layer>>

StartJVM ==
    /\ at = "written" /\ at' = "jvm"
    /\ libname' = IF env \in is_vulkan_native \cup {"AUTO"} THEN "ANGLE" ELSE env
    /\ available' = ~vulkanUnavailable
    /\ libpath' = vulkan_library_file(env)
    /\ UNCHANGED <<launches, vulkanUnavailable, gameHasVulkanBackend, env,
                   backendType, drivers, file, clientAPI, bridge, window, pc, layer>>

(* The player, between launches.                                           *)
ChangeSetting ==
    /\ at = "menu" /\ setting' \in Config \ {setting}
    /\ UNCHANGED <<launch, env, backendType, config, readConfig, fault, driver,
                   file, jvm, clientAPI, bridge, window, pc, layer>>

-----------------------------------------------------------------------------
(* The game. glfwInit, and the hints before a window.                      *)
Game == at = "jvm" /\ pc = "free"
UntouchedByGame == UNCHANGED <<launch, drivers, jvm, file>>

GlfwInit ==
    /\ Game /\ clientAPI = "none"
    /\ clientAPI' = "OPENGL"
    /\ UNCHANGED <<env, backendType, libname, bridge, window, pc, layer>> /\ UntouchedByGame

(* A game asks for no GL context only if glfwVulkanSupported says so.      *)
HintClientAPI ==
    /\ Game /\ clientAPI # "none"
    /\ \/ clientAPI' = "OPENGL"
       \/ clientAPI' = "NO_API" /\ available
    /\ UNCHANGED <<env, backendType, bridge, window, pc, layer>> /\ UntouchedByGame

PickFor(version) == IF version \in {1, 2} THEN "GL4ES" ELSE "MOBILEGLUES"

HintContextVersionAgain ==  \* mutant: picks for every hint, not only for AUTO
    /\ Game /\ clientAPI # "none"
    /\ \E version \in {2, 3} : env' = PickFor(version)
    /\ libname' = env'
    /\ UNCHANGED <<launch, backendType, drivers, file, available, libpath, clientAPI,
                   bridge, window, pc, layer>>

HintContextVersion ==
    /\ Game /\ clientAPI # "none" /\ env = "AUTO"
    /\ \E version \in {2, 3} : env' = PickFor(version)
    /\ libname' = env'
    /\ UNCHANGED <<launch, backendType, drivers, file, available, libpath, clientAPI,
                   bridge, window, pc, layer>>

(* pojavInitOpenGL, once for the process, whatever becomes of it: an AUTO  *)
(* that no hint resolved is gl4es, a Vulkan driver has no GL and the game  *)
(* runs on ANGLE. An unknown renderer fills no table.                      *)
Resolved ==
    CASE env = "AUTO" -> "GL4ES"
      [] env \in is_vulkan_native -> "ANGLE"
      [] OTHER -> env

InitOpenGL ==
    /\ inited' = TRUE /\ env' = Resolved
    /\ IF Resolved = "UNKNOWN"
       THEN UNCHANGED <<backendType, libname, table, gl_renderer, egl, display>>
       ELSE /\ backendType' = (backendType \/ Resolved = "MOBILEGL")
            /\ libname' = Resolved
            /\ table' = IF Resolved = "ZINK" THEN "osm" ELSE "gl"
            /\ IF Resolved = "ZINK" THEN UNCHANGED <<gl_renderer, egl, display>>
               ELSE /\ gl_renderer' = Resolved
                    /\ egl' = IF Resolved \in owns_egl THEN Resolved ELSE "ANGLE"
                    /\ display' \in {"ready", "failed", "unloaded"}

(* br_init_context: a call through an empty table or an empty handle ends  *)
(* the process; without a display there is no context.                     *)
InitContext ==
    IF table' = "none" \/ (table' = "gl" /\ display' = "unloaded") THEN window' = "crash"
    ELSE IF table' = "gl" /\ display' = "failed" THEN window' = "none"
    ELSE window' \in {"gl", "none"}

CreateContext ==
    /\ Game /\ clientAPI = "OPENGL" /\ window = "none"
    /\ IF inited THEN UNCHANGED <<env, backendType, libname, bridge>> ELSE InitOpenGL
    /\ InitContext
    /\ UNCHANGED <<launch, drivers, file, available, libpath, clientAPI, pc, layer>>

(* pojavCreateContext without a client API: AMVulkanSurfaceLayer sets the  *)
(* latch, and the first time asks the main thread for the new size and     *)
(* waits for it, two seconds at most.                                      *)
SurfaceLayerUnlatched ==    \* mutant: the latch is set after the wait
    /\ Game /\ clientAPI = "NO_API" /\ window = "none"
    /\ IF vulkanNative
       THEN window' = "layer" /\ UNCHANGED <<sync, pc>>
       ELSE sync' = "queued" /\ pc' = "wait" /\ UNCHANGED window
    /\ UNCHANGED <<env, backendType, clientAPI, bridge, vulkanNative, geometry>>
    /\ UntouchedByGame

SurfaceLayerUnqueued ==     \* mutant: waits for what it did not ask for
    /\ Game /\ clientAPI = "NO_API" /\ window = "none"
    /\ vulkanNative' = TRUE
    /\ IF vulkanNative THEN window' = "layer" /\ UNCHANGED pc
                       ELSE pc' = "wait" /\ UNCHANGED window
    /\ UNCHANGED <<env, backendType, clientAPI, bridge, sync, geometry>> /\ UntouchedByGame

SurfaceLayer ==
    /\ Game /\ clientAPI = "NO_API" /\ window = "none"
    /\ vulkanNative' = TRUE
    /\ IF vulkanNative
       THEN window' = "layer" /\ UNCHANGED <<sync, pc>>
       ELSE sync' = "queued" /\ pc' = "wait" /\ UNCHANGED window
    /\ UNCHANGED <<env, backendType, clientAPI, bridge, geometry>> /\ UntouchedByGame

Synced ==
    /\ pc = "wait" /\ sync = "done"
    /\ pc' = "free" /\ window' = "layer"
    /\ UNCHANGED <<env, backendType, clientAPI, bridge, layer>> /\ UntouchedByGame

NoTimeout ==                \* mutant: waits for the main thread without a limit
    /\ FALSE
    /\ UNCHANGED vars

SyncTimeout ==
    /\ pc = "wait" /\ sync = "queued"
    /\ pc' = "free" /\ window' = "layer"
    /\ UNCHANGED <<env, backendType, clientAPI, bridge, layer>> /\ UntouchedByGame

DestroyWindow ==
    /\ Game /\ window \in {"gl", "layer"}
    /\ window' = "none"
    /\ UNCHANGED <<env, backendType, clientAPI, bridge, pc, layer>> /\ UntouchedByGame

(* The player chooses the graphics API in the game's own settings.         *)
ChangeOptions ==
    /\ Game /\ gameHasVulkanBackend
    /\ options' \in {"vulkan", "opengl"} \ {options} /\ created' = FALSE
    /\ UNCHANGED <<launch, env, backendType, drivers, jvm, clientAPI, bridge,
                   window, pc, layer>>

(* The game ends, and the app with it; in the next process nothing is set, *)
(* and the shim has not run its pthread_once.                              *)
Exit ==
    /\ at = "jvm"
    /\ at' = "menu" /\ launches' = 0
    /\ vulkanUnavailable' = FALSE /\ gameHasVulkanBackend' = FALSE
    /\ env' = "UNKNOWN" /\ backendType' = FALSE
    /\ config' = NoConfig /\ readConfig' = NoConfig /\ driver' = "unloaded"
    /\ created' = FALSE
    /\ libname' = "UNKNOWN" /\ available' = TRUE /\ libpath' = "MOLTENVK"
    /\ clientAPI' = "none" /\ inited' = FALSE
    /\ table' = "none" /\ gl_renderer' = "UNKNOWN" /\ egl' = "UNKNOWN" /\ display' = "none"
    /\ window' = "none" /\ pc' = "free"
    /\ vulkanNative' = FALSE /\ sync' = "none" /\ geometry' = "screen"
    /\ UNCHANGED <<setting, fault, options>>

-----------------------------------------------------------------------------
(* The main thread: updateSavedResolution scales the layer for ANGLE, for  *)
(* Vulkan, or not at all.                                                  *)
Geometry ==
    IF env \in is_vulkan_native \/ vulkanNative THEN "vulkan"
    ELSE IF env \in uses_angle THEN "angle" ELSE "screen"

UpdateSavedResolution ==
    /\ geometry' = Geometry /\ geometry' # geometry
    /\ UNCHANGED <<launch, env, backendType, drivers, file, jvm, clientAPI, bridge,
                   window, pc, vulkanNative, sync>>

(* The block of syncGeometry. While the game runs the root view controller *)
(* is its SurfaceViewController, so the test for it is left out.           *)
SyncGeometry ==
    /\ sync = "queued"
    /\ sync' = "done" /\ geometry' = Geometry
    /\ UNCHANGED <<launch, env, backendType, drivers, file, jvm, clientAPI, bridge,
                   window, pc, vulkanNative>>

-----------------------------------------------------------------------------
Launcher ==
    \/ SetupRenderer \/ LaunchJar \/ CheckVulkan \/ GiveUp \/ SetupOptions
    \/ StartJVM \/ ChangeSetting
Waiting == Synced \/ SyncTimeout
Running ==
    \/ GlfwInit \/ HintClientAPI \/ HintContextVersion \/ CreateContext
    \/ SurfaceLayer \/ Waiting \/ DestroyWindow \/ ChangeOptions \/ Exit

Next == Launcher \/ Running \/ UpdateSavedResolution \/ SyncGeometry

(* A semaphore with a limit always returns; the main thread may be busy    *)
(* for ever.                                                               *)
Spec == Init /\ [][Next]_vars /\ WF_vars(Waiting)

-----------------------------------------------------------------------------
(* Every variable has its type; the render thread waits for the main       *)
(* thread only after it has queued a block that will wake it.              *)
TypeOK ==
    /\ at \in {"menu", "preflight", "checks", "written", "jvm"}
    /\ launches \in 0..MaxLaunch
    /\ vulkanUnavailable \in BOOLEAN /\ gameHasVulkanBackend \in BOOLEAN
    /\ backendType \in BOOLEAN /\ created \in BOOLEAN /\ available \in BOOLEAN
    /\ inited \in BOOLEAN /\ vulkanNative \in BOOLEAN
    /\ env \in Kind /\ libname \in Kind /\ gl_renderer \in Kind /\ egl \in Kind
    /\ setting \in Config
    /\ config \in Config \cup {NoConfig} /\ readConfig \in Config \cup {NoConfig}
    /\ fault \in [is_vulkan_native -> Fault]
    /\ driver \in {"unloaded", "failed", "loaded"}
    /\ options \in {"none", "vulkan", "opengl"}
    /\ libpath \in is_vulkan_native
    /\ clientAPI \in {"none", "OPENGL", "NO_API"}
    /\ table \in {"none", "gl", "osm"}
    /\ display \in {"none", "ready", "failed", "unloaded"}
    /\ window \in {"none", "gl", "layer", "crash"}
    /\ pc \in {"free", "wait"}
    /\ sync \in {"none", "queued", "done"}
    /\ geometry \in {"screen", "angle", "vulkan"}
    /\ pc = "wait" => at = "jvm" /\ sync # "none"

(* "AME_RENDERER is final by then" (gl_bridge.m:17): once a GL context     *)
(* exists, the environment, the library LWJGL loads, the table, the        *)
(* renderer and the EGL library of the bridge and the environment of       *)
(* MobileGL all speak of one renderer, after any hints and any launches    *)
(* that failed.                                                            *)
BridgeMatchesRenderer ==
    window = "gl" =>
        /\ env \in Kind \ ({"UNKNOWN", "AUTO"} \cup is_vulkan_native)
        /\ libname = env
        /\ backendType = (env = "MOBILEGL")
        /\ IF env = "ZINK" THEN table = "osm"
           ELSE /\ table = "gl" /\ gl_renderer = env /\ display = "ready"
                /\ egl = IF env \in owns_egl THEN env ELSE "ANGLE"

(* Whatever a launch does about Vulkan rests on a driver that has passed   *)
(* the checks of the preflight: the game gets the layer only with it (of a *)
(* renderer that is not a Vulkan driver nothing is promised), and a launch *)
(* that writes the graphics API to options.txt itself writes Vulkan with   *)
(* such a driver and OpenGL after one that failed. An API that was saved   *)
(* before is kept, whatever the driver does.                               *)
Passed(r) == fault[r] = "none" \/ (r = "KOSMICKRISP" /\ fault[r] = "layers")

PreflightHeeded ==
    /\ window = "layer" /\ (env \in is_vulkan_native \/ vulkanUnavailable) =>
          ~vulkanUnavailable /\ libpath = env /\ Passed(env)
    /\ created /\ at = "written" =>
          options = IF env \in is_vulkan_native /\ Passed(env) THEN "vulkan" ELSE "opengl"

(* In the first launch of a process, MoltenVK has read the settings the    *)
(* player chose. After a launch that failed it keeps those of that launch. *)
SettingsRead ==
    at = "jvm" /\ launches = 1 /\ libpath = "MOLTENVK" /\ env = "MOLTENVK" =>
        readConfig = setting

(* Once the main thread has served the request for it, the layer is sized  *)
(* for Vulkan, and no later change of the resolution undoes it.            *)
VulkanSized == sync = "done" => geometry = "vulkan"

(* Asking for the layer never wedges the render thread, even if the main   *)
(* thread never answers (vk_bridge.m:27).                                  *)
WindowReturns == pc = "wait" ~> pc = "free"
=============================================================================
