------------------------- MODULE RendererStartProofs -------------------------
(***************************************************************************)
(* Proofs about RendererStart, for every set of renderers a profile may    *)
(* ask for, every driver fault and every number of launches in a process:  *)
(* type correctness, that the bridge and the environment speak of one      *)
(* renderer, that the preflight is heeded, that the first launch reads the *)
(* settings of the player, and that the layer is sized for Vulkan.         *)
(***************************************************************************)
EXTENDS RendererStart, TLAPS

USE RendererAssumption, NoConfigAssumption

(* The tuples that the actions leave unchanged.                            *)
USE DEF launch, drivers, file, jvm, bridge, layer, UntouchedByGame

-----------------------------------------------------------------------------
(* A first start has the types.                                            *)
LEMMA TypeInit == Init => TypeOK
<1> SUFFICES ASSUME Init PROVE TypeOK
    OBVIOUS
<1>1. launches \in 0..MaxLaunch /\ setting \in Config
    BY RendererAssumption DEF Init
<1>2. config \in Config \cup {NoConfig} /\ readConfig \in Config \cup {NoConfig}
    BY DEF Init
<1>3. fault \in [is_vulkan_native -> Fault]
    BY DEF Init
<1>4. /\ env \in Kind /\ libname \in Kind /\ gl_renderer \in Kind /\ egl \in Kind
      /\ libpath \in is_vulkan_native
    BY DEF Init, Kind, is_vulkan_native
<1> QED BY <1>1, <1>2, <1>3, <1>4 DEF Init, TypeOK

(* What the renderer is resolved to is a renderer with GL, or unknown.     *)
LEMMA ResolvedGL ==
    ASSUME env \in Kind
    PROVE  Resolved \in Kind \ ({"AUTO"} \cup is_vulkan_native)
BY DEF Resolved, Kind, is_vulkan_native

(* The steps of launchJVM keep the types.                                  *)
LEMMA TypeLauncher ==
    ASSUME TypeOK, Launcher
    PROVE  TypeOK'
<1> USE DEF TypeOK
<1>1. CASE SetupRenderer
    <2>1. env' \in Kind
        BY <1>1 DEF SetupRenderer, Kind
    <2>2. launches' \in 0..MaxLaunch
        BY <1>1, RendererAssumption DEF SetupRenderer, Start
    <2>3. vulkanUnavailable' \in BOOLEAN /\ created' \in BOOLEAN
        BY <1>1 DEF SetupRenderer, Start
    <2>4. gameHasVulkanBackend' \in BOOLEAN /\ backendType' \in BOOLEAN
        BY <1>1 DEF SetupRenderer
    <2>5. at' \in {"preflight", "checks"} /\ at # "jvm"
        BY <1>1 DEF SetupRenderer, Start
    <2>6. UNCHANGED <<drivers, options, jvm, clientAPI, bridge, window, pc, layer>>
        BY <1>1 DEF SetupRenderer
    <2> QED BY <2>1, <2>2, <2>3, <2>4, <2>5, <2>6
<1>2. CASE LaunchJar
    <2>1. launches' \in 0..MaxLaunch
        BY <1>2, RendererAssumption DEF LaunchJar, Start
    <2>2. /\ vulkanUnavailable' \in BOOLEAN /\ created' \in BOOLEAN
          /\ gameHasVulkanBackend' \in BOOLEAN /\ at' = "checks" /\ at # "jvm"
        BY <1>2 DEF LaunchJar, Start
    <2>3. UNCHANGED <<env, backendType, drivers, options, jvm, clientAPI, bridge,
                      window, pc, layer>>
        BY <1>2 DEF LaunchJar
    <2> QED BY <2>1, <2>2, <2>3
<1>3. CASE CheckVulkan
    <2>1. config' \in Config \cup {NoConfig} /\ readConfig' \in Config \cup {NoConfig}
        BY <1>3 DEF CheckVulkan, Load
    <2>2. driver' \in {"unloaded", "failed", "loaded"}
        BY <1>3 DEF CheckVulkan, Load, Loaded
    <2>3. vulkanUnavailable' \in BOOLEAN /\ env' \in Kind /\ at' = "checks"
        BY <1>3 DEF CheckVulkan, Checked, Kind
    <2> QED BY <1>3, <2>1, <2>2, <2>3 DEF CheckVulkan
<1>4. CASE GiveUp
    BY <1>4 DEF GiveUp
<1>5. CASE SetupOptions
    BY <1>5 DEF SetupOptions, graphicsBackend
<1>6. CASE StartJVM
    BY <1>6 DEF StartJVM, vulkan_library_file, Kind, is_vulkan_native
<1>7. CASE ChangeSetting
    BY <1>7 DEF ChangeSetting
<1> QED BY <1>1, <1>2, <1>3, <1>4, <1>5, <1>6, <1>7 DEF Launcher

(* The steps of the game and of its render thread keep the types.          *)
LEMMA TypeRunning ==
    ASSUME TypeOK, Running
    PROVE  TypeOK'
<1> USE DEF TypeOK
<1>1. CASE GlfwInit
    BY <1>1 DEF GlfwInit, Game
<1>2. CASE HintClientAPI
    BY <1>2 DEF HintClientAPI, Game
<1>3. CASE HintContextVersion
    BY <1>3 DEF HintContextVersion, Game, PickFor, Kind
<1>4. CASE CreateContext
    <2>1. window' \in {"none", "gl", "layer", "crash"}
        BY <1>4 DEF CreateContext, InitContext
    <2>2. CASE inited
        BY <1>4, <2>1, <2>2 DEF CreateContext, Game
    <2>3. CASE ~inited
        <3>1. inited' = TRUE /\ env' \in Kind /\ libname' \in Kind
            BY <1>4, <2>3, ResolvedGL DEF CreateContext, InitOpenGL
        <3>2. backendType' \in BOOLEAN /\ table' \in {"none", "gl", "osm"}
            BY <1>4, <2>3 DEF CreateContext, InitOpenGL
        <3>3. gl_renderer' \in Kind /\ egl' \in Kind
            BY <1>4, <2>3, ResolvedGL DEF CreateContext, InitOpenGL, Kind
        <3>4. display' \in {"none", "ready", "failed", "unloaded"}
            BY <1>4, <2>3 DEF CreateContext, InitOpenGL
        <3>5. UNCHANGED <<launch, drivers, file, available, libpath, clientAPI, pc, layer>>
            BY <1>4 DEF CreateContext
        <3> QED BY <2>1, <3>1, <3>2, <3>3, <3>4, <3>5
    <2> QED BY <2>2, <2>3
<1>5. CASE SurfaceLayer
    BY <1>5 DEF SurfaceLayer, Game
<1>6. CASE Waiting
    BY <1>6 DEF Waiting, Synced, SyncTimeout
<1>7. CASE DestroyWindow
    BY <1>7 DEF DestroyWindow, Game
<1>8. CASE ChangeOptions
    <2>1. created' \in BOOLEAN /\ options' \in {"none", "vulkan", "opengl"}
        BY <1>8 DEF ChangeOptions
    <2>2. UNCHANGED <<launch, env, backendType, drivers, jvm, clientAPI, bridge,
                      window, pc, layer>>
        BY <1>8 DEF ChangeOptions
    <2> QED BY <2>1, <2>2
<1>9. CASE Exit
    <2>1. /\ vulkanUnavailable' \in BOOLEAN /\ gameHasVulkanBackend' \in BOOLEAN
          /\ backendType' \in BOOLEAN /\ created' \in BOOLEAN /\ available' \in BOOLEAN
          /\ inited' \in BOOLEAN /\ vulkanNative' \in BOOLEAN
        BY <1>9 DEF Exit
    <2>2. /\ env' \in Kind /\ libname' \in Kind /\ gl_renderer' \in Kind /\ egl' \in Kind
          /\ libpath' \in is_vulkan_native
        BY <1>9 DEF Exit, Kind, is_vulkan_native
    <2>3. /\ at' = "menu" /\ launches' \in 0..MaxLaunch
          /\ config' = NoConfig /\ readConfig' = NoConfig /\ driver' = "unloaded"
          /\ clientAPI' = "none" /\ table' = "none" /\ display' = "none"
          /\ window' = "none" /\ pc' = "free" /\ sync' = "none" /\ geometry' = "screen"
        BY <1>9, RendererAssumption DEF Exit
    <2>4. UNCHANGED <<setting, fault, options>>
        BY <1>9 DEF Exit
    <2> QED BY <2>1, <2>2, <2>3, <2>4
<1> QED BY <1>1, <1>2, <1>3, <1>4, <1>5, <1>6, <1>7, <1>8, <1>9 DEF Running

(* The steps of the main thread keep the types.                            *)
LEMMA TypeMain ==
    ASSUME TypeOK, UpdateSavedResolution \/ SyncGeometry
    PROVE  TypeOK'
BY DEF TypeOK, UpdateSavedResolution, SyncGeometry, Geometry

(* So does every step.                                                     *)
LEMMA TypeStep == TypeOK /\ [Next]_vars => TypeOK'
<1> SUFFICES ASSUME TypeOK, [Next]_vars PROVE TypeOK'
    OBVIOUS
<1>1. CASE UNCHANGED vars
    BY <1>1 DEF TypeOK, vars
<1> QED BY <1>1, TypeLauncher, TypeRunning, TypeMain DEF Next

(* Every variable has its type, and the render thread waits only for a     *)
(* block that it has queued.                                               *)
THEOREM TypeCorrect == Spec => []TypeOK
BY TypeInit, TypeStep, PTL DEF Spec

-----------------------------------------------------------------------------
(* The main thread is asked for a size only after the latch is set, and    *)
(* the latch decides the size from then on.                                *)
SizedInv ==
    /\ sync # "none" => vulkanNative
    /\ VulkanSized

(* Only the first preflight of a process reads the settings, and only a    *)
(* launch that has passed one has a Vulkan renderer.                       *)
ReadInv ==
    /\ at # "menu" => launches # 0
    /\ launches = 0 => env = "UNKNOWN" /\ readConfig = NoConfig
    /\ launches = 1 /\ at = "preflight" => readConfig = NoConfig
    /\ launches = 1 /\ at \notin {"menu", "preflight"} /\ env = "MOLTENVK" =>
          readConfig = setting

(* Before the bridge is up nothing is in its table; from then on it keeps  *)
(* to the renderer that was resolved, which no hint changes any more.      *)
BridgeInv ==
    /\ backendType = (env = "MOBILEGL")
    /\ ~inited => table = "none"
    /\ inited => at = "jvm" /\ env \in Kind \ ({"AUTO"} \cup is_vulkan_native)
    /\ inited /\ env = "UNKNOWN" => table = "none"
    /\ inited /\ env = "ZINK" => table = "osm" /\ libname = env
    /\ inited /\ env \notin {"UNKNOWN", "ZINK"} =>
          /\ table = "gl" /\ libname = env /\ gl_renderer = env /\ display # "none"
          /\ egl = IF env \in owns_egl THEN env ELSE "ANGLE"
    /\ window = "gl" => table # "none" /\ (table = "gl" => display = "ready")

(* A Vulkan renderer has passed its preflight, is the library of the JVM,  *)
(* and one that failed is gone from the environment; the layer is handed   *)
(* out only while the JVM has been told that Vulkan is available.          *)
Layered == clientAPI = "NO_API" \/ pc = "wait" \/ window = "layer"

VulkanInv ==
    /\ at = "preflight" => env \in is_vulkan_native /\ ~vulkanUnavailable
    /\ at # "preflight" /\ env \in is_vulkan_native => Passed(env)
    /\ vulkanUnavailable => env \notin is_vulkan_native
    /\ at = "jvm" => available = ~vulkanUnavailable
    /\ at = "jvm" /\ env \in is_vulkan_native => libpath = env
    /\ Layered => at = "jvm" /\ available
    /\ created /\ at = "written" =>
          options = IF env \in is_vulkan_native /\ Passed(env) THEN "vulkan" ELSE "opengl"

-----------------------------------------------------------------------------
(* The size of the layer.                                                  *)
LEMMA SizedStep == SizedInv /\ [Next]_vars => SizedInv'
<1> SUFFICES ASSUME SizedInv, [Next]_vars PROVE SizedInv'
    OBVIOUS
<1> USE DEF SizedInv, VulkanSized
<1>1. CASE SurfaceLayer
    <2>1. vulkanNative'
        BY <1>1 DEF SurfaceLayer
    <2>2. sync' = "queued" \/ (sync' = sync /\ geometry' = geometry /\ vulkanNative)
        BY <1>1 DEF SurfaceLayer
    <2> QED BY <2>1, <2>2
<1>2. CASE Exit
    BY <1>2 DEF Exit
<1>3. CASE UpdateSavedResolution
    BY <1>3 DEF UpdateSavedResolution, Geometry
<1>4. CASE SyncGeometry
    BY <1>4 DEF SyncGeometry, Geometry
<1>5. CASE UNCHANGED layer
    BY <1>5
<1>6. CASE Launcher
    <2> QED BY <1>5, <1>6 DEF Launcher, SetupRenderer, LaunchJar, CheckVulkan, GiveUp,
              SetupOptions, StartJVM, ChangeSetting
<1>7. CASE GlfwInit \/ HintClientAPI \/ HintContextVersion \/ CreateContext
           \/ Waiting \/ DestroyWindow \/ ChangeOptions
    BY <1>5, <1>7 DEF GlfwInit, HintClientAPI, HintContextVersion, CreateContext,
          Waiting, Synced, SyncTimeout, DestroyWindow, ChangeOptions
<1>8. CASE UNCHANGED vars
    BY <1>5, <1>8 DEF vars
<1> QED BY <1>1, <1>2, <1>3, <1>4, <1>6, <1>7, <1>8 DEF Next, Running

(* The layer is sized for Vulkan once the main thread has been asked.      *)
THEOREM VulkanSizedCorrect == Spec => []VulkanSized
<1>1. Init => SizedInv
    BY DEF Init, SizedInv, VulkanSized
<1>2. SizedInv => VulkanSized
    BY DEF SizedInv
<1> QED BY <1>1, <1>2, SizedStep, PTL DEF Spec

-----------------------------------------------------------------------------
(* The settings of MoltenVK.                                               *)
LEMMA ReadStep == TypeOK /\ ReadInv /\ [Next]_vars => ReadInv'
<1> SUFFICES ASSUME TypeOK, ReadInv, [Next]_vars PROVE ReadInv'
    OBVIOUS
<1> USE DEF ReadInv
<1>1. launches \in Nat
    BY RendererAssumption DEF TypeOK
<1>2. CASE SetupRenderer
    BY <1>1, <1>2 DEF SetupRenderer, Start, is_vulkan_native
<1>3. CASE LaunchJar
    BY <1>1, <1>3 DEF LaunchJar, Start
<1>4. CASE CheckVulkan
    <2>1. launches # 0 /\ at = "preflight" /\ at' = "checks" /\ UNCHANGED <<launches, setting>>
        BY <1>4 DEF CheckVulkan, Checked
    <2>2. ASSUME launches = 1, env' = "MOLTENVK" PROVE readConfig' = setting
        <3>1. env = "MOLTENVK" /\ Preflight(env) = "none"
            BY <1>4, <2>2 DEF CheckVulkan, Checked
        <3>2. fault[env] # "load"
            BY <3>1 DEF Preflight
        <3> QED BY <1>4, <2>1, <2>2, <3>1, <3>2 DEF CheckVulkan, Load
    <2> QED BY <2>1, <2>2
<1>5. CASE GiveUp \/ SetupOptions \/ StartJVM
    BY <1>5 DEF GiveUp, SetupOptions, StartJVM
<1>6. CASE ChangeSetting
    BY <1>6 DEF ChangeSetting
<1>7. CASE HintContextVersion
    BY <1>7 DEF HintContextVersion, Game, PickFor
<1>8. CASE CreateContext
    BY <1>8 DEF CreateContext, InitOpenGL, Resolved, Game
<1>9. CASE Exit
    BY <1>9 DEF Exit
<1>10. CASE UNCHANGED <<launch, env, drivers>>
    BY <1>10
<1>11. CASE GlfwInit \/ HintClientAPI \/ SurfaceLayer \/ Waiting \/ DestroyWindow
            \/ ChangeOptions \/ UpdateSavedResolution \/ SyncGeometry \/ UNCHANGED vars
    BY <1>10, <1>11 DEF GlfwInit, HintClientAPI, SurfaceLayer, Waiting, Synced, SyncTimeout,
          DestroyWindow, ChangeOptions, UpdateSavedResolution, SyncGeometry, vars
<1> QED BY <1>2, <1>3, <1>4, <1>5, <1>6, <1>7, <1>8, <1>9, <1>11 DEF Next, Launcher, Running

(* In the first launch of a process MoltenVK has the player's settings.    *)
THEOREM SettingsReadCorrect == Spec => []SettingsRead
<1>1. Init => ReadInv
    BY DEF Init, ReadInv
<1>2. ReadInv => SettingsRead
    BY DEF ReadInv, SettingsRead
<1> QED BY <1>1, <1>2, ReadStep, TypeCorrect, PTL DEF Spec

-----------------------------------------------------------------------------
(* A driver that fails no check of the preflight is one that Passed        *)
(* accepts; the zero layers of the shim hide one fault of KosmicKrisp's.   *)
LEMMA PreflightPassed ==
    ASSUME CheckVulkan, env \in is_vulkan_native, Preflight(env) = "none"
    PROVE  Passed(env)
BY DEF Preflight, ShimFault, Passed, is_vulkan_native

(* The graphics API a launch writes is the one its driver allows.          *)
LEMMA BackendFits ==
    ASSUME VulkanInv, at = "checks", graphicsBackend # "none"
    PROVE  graphicsBackend =
               IF env \in is_vulkan_native /\ Passed(env) THEN "vulkan" ELSE "opengl"
BY DEF VulkanInv, graphicsBackend

(* The steps of launchJVM keep what is known of Vulkan.                    *)
LEMMA VulkanLauncher ==
    ASSUME TypeOK, VulkanInv, Launcher
    PROVE  VulkanInv'
<1> USE DEF VulkanInv, Layered
<1>1. CASE SetupRenderer
    <2>1. at = "menu" /\ ~vulkanUnavailable' /\ ~created'
        BY <1>1 DEF SetupRenderer, Start
    <2>2. at' = IF env' \in is_vulkan_native THEN "preflight" ELSE "checks"
        BY <1>1 DEF SetupRenderer
    <2>3. UNCHANGED <<clientAPI, window, pc>>
        BY <1>1 DEF SetupRenderer
    <2> QED BY <2>1, <2>2, <2>3 DEF Passed
<1>2. CASE LaunchJar
    BY <1>2 DEF LaunchJar, Start, Passed
<1>3. CASE CheckVulkan
    <2>1. /\ at = "preflight" /\ at' = "checks"
          /\ UNCHANGED <<fault, clientAPI, window, pc>>
        BY <1>3 DEF CheckVulkan, Checked
    <2>2. CASE Preflight(env) = "none"
        <3>1. ~vulkanUnavailable' /\ env' = env
            BY <1>3, <2>2 DEF CheckVulkan, Checked
        <3>2. Passed(env)
            BY <1>3, <2>1, <2>2, PreflightPassed
        <3> QED BY <2>1, <3>1, <3>2 DEF Passed
    <2>3. CASE Preflight(env) # "none"
        <3>1. env' = "AUTO"
            BY <1>3, <2>3 DEF CheckVulkan, Checked
        <3> QED BY <2>1, <3>1 DEF is_vulkan_native
    <2> QED BY <2>2, <2>3
<1>4. CASE GiveUp
    BY <1>4 DEF GiveUp, Passed
<1>5. CASE SetupOptions
    <2>1. /\ at = "checks" /\ at' = "written"
          /\ UNCHANGED <<vulkanUnavailable, env, fault, available, clientAPI, window, pc>>
        BY <1>5 DEF SetupOptions
    <2>2. created' => options' = graphicsBackend /\ graphicsBackend # "none"
        BY <1>5 DEF SetupOptions
    <2> QED BY <2>1, <2>2, BackendFits DEF Passed
<1>6. CASE StartJVM
    <2>1. /\ at = "written" /\ at' = "jvm" /\ available' = ~vulkanUnavailable
          /\ libpath' = vulkan_library_file(env)
          /\ UNCHANGED <<vulkanUnavailable, env, fault, clientAPI, window, pc>>
        BY <1>6 DEF StartJVM
    <2>2. env \in is_vulkan_native => libpath' = env
        BY <2>1 DEF vulkan_library_file, is_vulkan_native
    <2> QED BY <2>1, <2>2 DEF Passed
<1>7. CASE ChangeSetting
    BY <1>7 DEF ChangeSetting, Passed
<1> QED BY <1>1, <1>2, <1>3, <1>4, <1>5, <1>6, <1>7 DEF Launcher

(* So do the steps of the game: a hint or the bridge replaces a renderer   *)
(* only by one with GL, and asks for no API only where Vulkan is there.    *)
LEMMA VulkanRunning ==
    ASSUME TypeOK, VulkanInv, Running
    PROVE  VulkanInv'
<1> USE DEF VulkanInv, Layered
<1>1. CASE GlfwInit \/ DestroyWindow
    BY <1>1 DEF GlfwInit, DestroyWindow, Game, Passed
<1>2. CASE HintClientAPI
    BY <1>2 DEF HintClientAPI, Game, Passed
<1>3. CASE HintContextVersion
    BY <1>3 DEF HintContextVersion, Game, PickFor, is_vulkan_native, Passed
<1>4. CASE CreateContext
    <2>1. at = "jvm" /\ UNCHANGED <<launch, drivers, file, available, libpath, clientAPI, pc>>
        BY <1>4 DEF CreateContext, Game
    <2>2. window' # "layer"
        BY <1>4 DEF CreateContext, InitContext
    <2>3. env' = env \/ env' \notin is_vulkan_native
        <3>1. env \in Kind
            BY DEF TypeOK
        <3> QED BY <1>4, <3>1, ResolvedGL DEF CreateContext, InitOpenGL
    <2> QED BY <2>1, <2>2, <2>3 DEF Passed
<1>5. CASE SurfaceLayer
    BY <1>5 DEF SurfaceLayer, Game, Passed
<1>6. CASE Waiting
    BY <1>6 DEF Waiting, Synced, SyncTimeout, Passed
<1>7. CASE ChangeOptions
    BY <1>7 DEF ChangeOptions, Game, Passed
<1>8. CASE Exit
    BY <1>8 DEF Exit, is_vulkan_native
<1> QED BY <1>1, <1>2, <1>3, <1>4, <1>5, <1>6, <1>7, <1>8 DEF Running

(* So every step keeps the invariant of the Vulkan renderers.              *)
LEMMA VulkanStep == TypeOK /\ VulkanInv /\ [Next]_vars => VulkanInv'
<1> SUFFICES ASSUME TypeOK, VulkanInv, [Next]_vars PROVE VulkanInv'
    OBVIOUS
<1>1. CASE UpdateSavedResolution \/ SyncGeometry \/ UNCHANGED vars
    BY <1>1 DEF UpdateSavedResolution, SyncGeometry, vars, VulkanInv, Layered, Passed
<1> QED BY <1>1, VulkanLauncher, VulkanRunning DEF Next

(* A launch does about Vulkan what its preflight found.                    *)
THEOREM PreflightHeededCorrect == Spec => []PreflightHeeded
<1>1. Init => VulkanInv
    BY DEF Init, VulkanInv, Layered, is_vulkan_native
<1>2. VulkanInv => PreflightHeeded
    BY DEF VulkanInv, Layered, PreflightHeeded
<1> QED BY <1>1, <1>2, VulkanStep, TypeCorrect, PTL DEF Spec

-----------------------------------------------------------------------------
(* Before the JVM there is no bridge, and the environment of MobileGL      *)
(* follows the renderer.                                                   *)
LEMMA BridgeLauncher ==
    ASSUME TypeOK, VulkanInv, BridgeInv, Launcher
    PROVE  BridgeInv'
<1> USE DEF BridgeInv
<1>1. CASE SetupRenderer
    BY <1>1 DEF SetupRenderer, Start
<1>2. CASE LaunchJar
    BY <1>2 DEF LaunchJar, Start
<1>3. CASE CheckVulkan
    <2>1. env \in is_vulkan_native /\ at = "preflight"
        BY <1>3 DEF CheckVulkan, VulkanInv
    <2>2. env # "MOBILEGL" /\ env' # "MOBILEGL"
        BY <1>3, <2>1 DEF CheckVulkan, Checked, is_vulkan_native
    <2>3. UNCHANGED <<backendType, bridge, libname, window>>
        BY <1>3 DEF CheckVulkan
    <2> QED BY <2>1, <2>2, <2>3
<1>4. CASE GiveUp
    BY <1>4 DEF GiveUp
<1>5. CASE SetupOptions
    BY <1>5 DEF SetupOptions
<1>6. CASE StartJVM
    BY <1>6 DEF StartJVM
<1>7. CASE ChangeSetting
    BY <1>7 DEF ChangeSetting
<1> QED BY <1>1, <1>2, <1>3, <1>4, <1>5, <1>6, <1>7 DEF Launcher

(* pojavInitOpenGL makes everything speak of the renderer it resolves.     *)
LEMMA BridgeFilled ==
    ASSUME TypeOK, BridgeInv, at = "jvm", at' = at, ~inited, InitOpenGL
    PROVE  /\ backendType' = (env' = "MOBILEGL")
           /\ inited' /\ env' \in Kind \ ({"AUTO"} \cup is_vulkan_native)
           /\ env' = "UNKNOWN" => table' = "none"
           /\ env' = "ZINK" => table' = "osm" /\ libname' = env'
           /\ env' \notin {"UNKNOWN", "ZINK"} =>
                 /\ table' = "gl" /\ libname' = env' /\ gl_renderer' = env'
                 /\ display' # "none"
                 /\ egl' = IF env' \in owns_egl THEN env' ELSE "ANGLE"
<1>1. env \in Kind
    BY DEF TypeOK
<1>2. inited' /\ env' = Resolved /\ Resolved \in Kind \ ({"AUTO"} \cup is_vulkan_native)
    BY <1>1, ResolvedGL DEF InitOpenGL
<1>3. Resolved = "MOBILEGL" <=> env = "MOBILEGL"
    BY DEF Resolved, is_vulkan_native
<1>4. backendType' = (env' = "MOBILEGL")
    <2>1. backendType <=> env = "MOBILEGL"
        BY DEF BridgeInv
    <2>2. CASE Resolved = "UNKNOWN"
        BY <1>2, <1>3, <2>1, <2>2 DEF InitOpenGL, TypeOK
    <2>3. CASE Resolved # "UNKNOWN"
        BY <1>2, <1>3, <2>1, <2>3 DEF InitOpenGL
    <2> QED BY <2>2, <2>3
<1>5. Resolved = "UNKNOWN" => table' = "none"
    BY DEF InitOpenGL, BridgeInv
<1>6. Resolved = "ZINK" => table' = "osm" /\ libname' = Resolved
    BY DEF InitOpenGL
<1>7. Resolved \notin {"UNKNOWN", "ZINK"} =>
          /\ table' = "gl" /\ libname' = Resolved /\ gl_renderer' = Resolved
          /\ display' # "none"
          /\ egl' = IF Resolved \in owns_egl THEN Resolved ELSE "ANGLE"
    BY DEF InitOpenGL
<1> QED BY <1>2, <1>4, <1>5, <1>6, <1>7

(* The game keeps to it: a hint finds AUTO only before the bridge is up.   *)
LEMMA BridgeRunning ==
    ASSUME TypeOK, BridgeInv, Running
    PROVE  BridgeInv'
<1>1. CASE GlfwInit \/ HintClientAPI \/ SurfaceLayer \/ Waiting \/ DestroyWindow
           \/ ChangeOptions
    <2>1. UNCHANGED <<at, env, backendType, libname, bridge>>
        BY <1>1 DEF GlfwInit, HintClientAPI, SurfaceLayer, Waiting, Synced, SyncTimeout,
              DestroyWindow, ChangeOptions
    <2>2. window' = "gl" => window = "gl"
        BY <1>1 DEF GlfwInit, HintClientAPI, SurfaceLayer, Waiting, Synced, SyncTimeout,
              DestroyWindow, ChangeOptions
    <2> QED BY <2>1, <2>2 DEF BridgeInv
<1>2. CASE HintContextVersion
    <2>1. env = "AUTO" /\ ~inited
        BY <1>2 DEF HintContextVersion, BridgeInv
    <2>2. env' # "MOBILEGL"
        BY <1>2 DEF HintContextVersion, PickFor
    <2>3. UNCHANGED <<backendType, bridge, window>>
        BY <1>2 DEF HintContextVersion
    <2> QED BY <2>1, <2>2, <2>3 DEF BridgeInv
<1>3. CASE CreateContext
    <2>1. at = "jvm" /\ at' = at
        BY <1>3 DEF CreateContext, Game
    <2>2. window' = "gl" => table' # "none" /\
              (table' = "gl" => display' \notin {"failed", "unloaded"})
        BY <1>3 DEF CreateContext, InitContext
    <2>3. CASE inited
        <3>1. UNCHANGED <<env, backendType, libname, bridge>>
            BY <1>3, <2>3 DEF CreateContext
        <3>2. table = "gl" => display # "none" /\ display \in {"none", "ready", "failed", "unloaded"}
            BY <2>3 DEF BridgeInv, TypeOK
        <3> QED BY <2>1, <2>2, <2>3, <3>1, <3>2 DEF BridgeInv
    <2>4. CASE ~inited
        <3>1. InitOpenGL
            BY <1>3, <2>4 DEF CreateContext
        <3>2. table' = "gl" => display' \in {"ready", "failed", "unloaded"}
            BY <3>1, <2>4 DEF InitOpenGL, BridgeInv
        <3> QED BY <2>1, <2>2, <2>4, <3>1, <3>2, BridgeFilled DEF BridgeInv
    <2> QED BY <2>3, <2>4
<1>4. CASE Exit
    BY <1>4 DEF Exit, BridgeInv
<1> QED BY <1>1, <1>2, <1>3, <1>4 DEF Running

(* So every step keeps the invariant of the bridge.                        *)
LEMMA BridgeStep == TypeOK /\ VulkanInv /\ BridgeInv /\ [Next]_vars => BridgeInv'
<1> SUFFICES ASSUME TypeOK, VulkanInv, BridgeInv, [Next]_vars PROVE BridgeInv'
    OBVIOUS
<1>1. CASE UpdateSavedResolution \/ SyncGeometry \/ UNCHANGED vars
    BY <1>1 DEF UpdateSavedResolution, SyncGeometry, vars, BridgeInv
<1> QED BY <1>1, BridgeLauncher, BridgeRunning DEF Next

(* Once a GL context exists, the environment, LWJGL's library, the table,  *)
(* the EGL library and MobileGL's environment speak of one renderer.       *)
THEOREM BridgeMatchesCorrect == Spec => []BridgeMatchesRenderer
<1>1. Init => BridgeInv
    BY DEF Init, BridgeInv
<1>2. BridgeInv => BridgeMatchesRenderer
    BY DEF BridgeInv, BridgeMatchesRenderer
<1>3. Init => VulkanInv
    BY DEF Init, VulkanInv, Layered, is_vulkan_native
<1> QED BY <1>1, <1>2, <1>3, BridgeStep, VulkanStep, TypeCorrect, PTL DEF Spec
=============================================================================
