# Verification of Amethyst iOS

Amethyst iOS is a launcher for Minecraft: Java Edition. It downloads versions, mods and packs, starts a
JVM inside its own process, and bridges the running game to UIKit: touches become GLFW events, rendered
frames become layers of a view. This directory holds TLA+ models of the parts of it in which several
threads, failures or restarts meet, the TLC runs that check them on small instances, and TLAPS proofs
for every size of the constants.

`PROJECT.json` lists the components, the runs, the theorems, the hazards of the code with the properties
that cover them, and the source lines behind every definition.

- `tlc -config MCModBatch.cfg MCModBatch` checks a run (module and cfg as listed under "Runs").
- `tlapm ModBatchProofs.tla` checks the proofs of a module.

## 1. The system

Paths are relative to `src/Natives/` unless they start with `JavaApp/`.

### Mods of a profile — `installer/modpack/InstalledModsManager.m`, `ModrinthModInstallation.m`

*State.* The mods folder; `mod-batches/<uuid>/` with `backup/` and `journal.plist`; an index of versions
by hash; in memory the static `activeInstallation` and the fields of the operation (plan, payloads,
position).
*Operations.* List the entries (recovers first, unless an installation is active); enable or disable;
move to the trash; plan an install with its dependencies; download file after file; `commitPlan`;
`recoverDirectory`.
*Interaction.* The mods screen calls all of them; downloads come back on the main queue, file work runs
on a background queue.
*Hard.* A kill or a failure between any two file operations; files changed in the Files app while
downloads run; an interrupted clean-up; a recovery that takes a failed listing or an unreadable journal
for none, and says that it has succeeded.
*Correct when* the folder changes from the files before to the files asked for, or not at all; YES means
all of it is on disk; no file is changed that no journal names; recovery can always be carried out.

### Single-file packs — `ModrinthModInstallation.m`

*State.* One installation object for each project page (`busy`, `checking`, `installedVersions`, the
error), over a content folder and its `transactions/` directory, which all pages share.
*Operations.* `inspectWithVersions` (recovers, then lists), `installVersion`, `commitData`.
*Hard.* Pages act concurrently on one directory; the guard of an inspection looks only at its own object;
a recovery may overlook a journal as above.
*Correct when* a pack is replaced atomically, the list of a page names files that are there, and the
error message about the backup is true.

### Event queue — `input_bridge_v3.m`, `JavaApp/src/lwjgl/org/lwjgl/glfw/GLFW.java`

*State.* `events`, `eventCounter` under `eventLock`; `pollEvents`, `pollEventCount`, `pollEventsTaken` of
the render thread; cursor position without a lock; key and mouse buffers; the callbacks.
*Operations.* `sendData` and its callers; `pojavPumpEvents` for each window; `pojavRewindEvents`; cursor
functions; window creation and destruction in GLFW.java.
*Hard.* UIKit threads append while the render thread drains; two windows are pumped one after the other;
the queue is full; the cursor moves between comparison and report.
*Correct when* every accepted event reaches every window once and in order.

### Foreground gate and frames — `utils.m`, `main.m`, `ctxbridges/osm_bridge.m`, `SurfaceViewController.m`

*State.* `appIsForeground` with its mutex and condition; the current bundle with its buffer and size;
`osm_frame_pending`; `windowWidth`, `windowHeight`; the main queue.
*Operations.* Notifications of the app's life cycle; `osm_swap_buffers`, `osm_make_current`;
`updateSavedResolution`; the block that shows a frame.
*Hard.* A render thread that sleeps, a main thread that wakes it; a buffer read by a block that was
queued before it was reallocated.
*Correct when* one frame waits at a time, it is readable when it is shown, frames keep coming, and
nothing is handed to the GPU from the background.

### Downloads and launch — `MinecraftResourceDownloadTask.m`, `LauncherNavigationController.m`

*State.* A download task with its two NSProgress objects, its file list and its URL session tasks;
`self.task` of the launcher, which also decides what the Play button does.
*Operations.* `launchMinecraft`, `downloadVersion` in three phases (version JSON, asset index, libraries
and assets), completion handlers, the observer of the progress, `handleError`, `InstallModpack`.
*Hard.* Three kinds of threads; blocks read `self.task` when they run; completion is inferred from byte
counts; files of unknown size; an account that may not download.
*Correct when* the game starts once and only with its files, and Play always comes back.

### Renderer of a launch — `JavaLauncher.m`, `ctxbridges/vk_preflight.c`, `ctxbridges/vk_loader_shim.c`, `egl_bridge.m`, `ctxbridges/gl_bridge.m`, `ctxbridges/vk_bridge.m`, `renderer_info.h`

*State.* `AME_RENDERER` and other variables of the environment; the Vulkan driver and what it has read;
`options.txt`; the properties of the JVM; `clientAPI`, the latch `inited`, the bridge table, the EGL
library; the latch `vulkanNative` and the size of the layer.
*Operations.* `launchJVM` up to the JVM, with five early returns; `ame_vk_preflight`; `pojavInit`,
`pojavSetWindowHint`, `pojavCreateContext`, `AMVulkanSurfaceLayer`; `updateSavedResolution`.
*Hard.* One variable of the environment is rewritten by four parties; latches outlive a launch that
failed; a wait for the main thread has a limit, and the block may run after it.
*Correct when* everybody who reads the renderer gets the same one by the time there is a context, Vulkan
is used only with a driver that passed its checks, and the render thread is never wedged.

### Touches, gamepad, keyboard and mouse — `SurfaceViewController.m`, `customcontrols/ControlJoystick.m`, `input/ControllerInput.m`, `input/KeyboardInput.m`, `input_bridge_v3.m`

*State.* `swipingButton`, `isToggleOn` of each button; the touches of the surface, `currentHotbarSlot`,
`shouldTriggerClick`; clicks that wait for their release; `leftShiftHeld`; the last direction of each
stick; `isGrabbing` of the game and `AMControllerPassthrough`.
*Operations.* Down, up, swipe and pan of buttons; tap, double tap, long press and slide over the hot bar;
changes of gamepad buttons and sticks; key presses; mouse buttons; grabbing and passthrough by the game;
a controller or a mouse that disconnects; custom controls and preferences opened over the running game.
*Hard.* Nothing records what is held. A release is computed anew from state that others may have changed
since the press, and some ways in which a touch ends are not told to anybody.
*Correct when* every press is followed by its release, whatever happens in between.

### SDL windows — `sdl3_hook.m`, `JavaApp/src/lwjgl/org/lwjgl/sdl/`

*State.* `SDL3Windows.live`, users of each window; `windows`, `contexts` and the thread-local `current`
of `SDL3GLContext` under one lock; the main queue; the exit watchdog.
*Operations.* Creation (shared or new) and destruction of windows; creation, making current and
destruction of contexts; calls to the main thread, most of them limited to 20 s.
*Hard.* Any thread of the game may call; a call that was given up on is still queued; addresses are used
again; destruction is a chain of three calls, of which each may time out.
*Correct when* no window is destroyed in use, its view and surface go before it, what a thread believes
to be current is bound, and the process ends after the last window.

### Parts without a model so far

| Part | What matters there |
| --- | --- |
| Dependency planning (`InstalledModsManager planForEntries`, `ModrinthDependencies.m`) | a plan replaces no project twice, cycles end, the cut-offs at 512 steps and 128 projects leave no half plan |
| Modpack downloads (`installer/modpack/*API.m`) | progress totals, the file that is stored before it is verified |
| Accounts (`authenticator/*.m`) | refresh tokens survive a kill between deletion and addition of the keychain item |
| Control editor (`CustomControlsViewController*.m`) | undo restores the layout also when two buttons are equal |
| Profiles, preferences, runtimes, log view | dictionaries and straight-line code; choice of runtime and LWJGL version is a pure function |
| Process patches, hooks, views, Java desktop programs, vendored code | instruction patching, AppKit and UIKit glue: no protocol of its own |

`PROJECT.json` names the files of each part, and why it is left out.

## 2. Plan

Modules are ordered by what a defect costs the player: lost mods first, lost input next, then frames and
launches.

| Step | Module | Abstract specification | Proofs |
| --- | --- | --- | --- |
| done | `ModBatch` | `AtomicSwap` | types, five properties, refinement |
| done | `PackInstall` | `AtomicSwap` | types, `PreviousRemainUnlessMet`, `ListIsCurrent`, refinement |
| done | `InputQueue` | `InputStream` | types, `NothingLost`, refinement |
| done | `FrameGate` | | types, `OneFrame`, `FrameReadableIfCalm` |
| done | `VersionDownload` | | types, `LaunchedOnce`; `LaunchedWhenReceived` when every library has a size |
| done | `RendererStart` | | types, all four other invariants |
| done | `TouchInput` | | types, `HeldIsWanted`, `ToggleShown`, `SneakShown` |
| done | `SDLBridge` | | types, `CurrentIsBound`, `DestroyedUnused`, `ViewsGoFirst` |
| next | `DependencyPlan`: planForEntries as a worklist, feeding the plans of `ModBatch` | a closed, conflict-free set of versions | termination measure, "no project twice" |
| then | `ModpackDownload`, with `InstallModpack` added to `VersionDownload` | | |
| then | `SDL_Quit` and the SDL life cycle in `SDLBridge`; `keyDownBuffer` in `TouchInput` | | |
| then | `AccountTokens`, `ControlsUndo`, choice of runtime, log view | undo stack; token chain | undo restores |
| then | overlap of `entriesInDirectory` with a commit in `ModBatch` | `AtomicSwap` | |

Parameters are constants with named assumptions, as weak as the code allows; each operation of the code
is one action, or one action for each step at which another thread, a failure or a kill can come in
between; invariants are conjunctions of named parts; no module that is proved about uses RECURSIVE.

## 3. Modules and code

| Module | Models | Used by |
| --- | --- | --- |
| `AtomicSwap` | what a player may rely on when a content folder is changed | `ModBatch`, `PackInstall` |
| `ModBatch` | the journalled batch of the mods folder | `MCModBatch`, `ModBatchProofs` |
| `PackInstall` | several project pages over one folder of packs | `MCPackInstall`, `PackInstallProofs` |
| `InputStream` | the stream of events the windows share | `InputQueue` |
| `InputQueue` | `sendData`, pump and rewind, cursor | `MCInputQueue`, `InputQueueProofs` |
| `FrameGate` | the gate, a swap, and the frame on the main thread | `MCFrameGate`, `FrameGateProofs` |
| `VersionDownload` | from Play to the game | `MCVersionDownload`, `VersionDownloadProofs` |
| `RendererStart` | from the renderer of a profile to the window of the game | `MCRendererStart`, `RendererStartProofs` |
| `TouchInput` | what the player holds, and the keys the game believes to be held | `MCTouchInput`, `TouchInputProofs` |
| `SDLBridge` | windows, surfaces and contexts of the SDL bridge | `MCSDLBridge`, `SDLBridgeProofs` |

**ModBatch.** `dir`, `dirs`, `journal`, `backup` are the disk; `pc`, `plan`, `cur`, `todo`, `left`,
`after`, `ok` the locals of the operation and of the recovery it calls, which a `Crash` forgets. One
action is one file operation: an atomic write or a removal of one file is a step, the removal of a batch
directory is one step for every item in it, in any order. `RecoverFails`, `BackUpFails` and `CommitFails`
are the error returns; they may happen at every step, since any file operation may fail. Two failures
return no error: `recoverDirectory` lists with `error:nil`, so that a listing that fails is an empty one
(`CallRecover` may find no directory), and it goes on when `dictionaryWithContentsOfFile:` cannot read a
journal (`SkipBatch` may skip any batch). A commit may then begin over a batch that is still pending.
`unread` is history and remembers that; the properties that two pending batches break are stated up to
that point, the others for ever. A rollback of
`recoverDirectory` is `RollBack`, `Restore`, `Withdraw`, `Withdrawn`, then `EraseBackup`, `EraseJournal`,
`Erased`. Contents stand for their SHA-1. `StartDependencyOperation` may choose any plan that replaces
files it sees: more plans than `planForEntries` makes. `SetEntry` may rename to any free name.
Left out: `index.plist` (names of versions, rebuilt from the network); hand edits at names a pending
journal covers, which a rollback overwrites by design; hand edits between the hash check and the end of
a commit, a window the code cannot close; the overlap of a recovery started by `entriesInDirectory` with
a commit (hazard list).

**PackInstall.** As above, with one record `run[i]` for each installation object and a journal of one
target. `activeInstallation` is `Busy`: one object installs at a time. Nothing keeps a page from inspecting
the folder while another page is inside `commitData`, and a recovery may overlook journals as in
`ModBatch`. Both happen in the model; `met` and `overlooked` are history and remember them, and `Calm`
says that neither has happened. Left out as in `ModBatch`: the index, and hand edits while the folder is
being handled or at names a pending journal covers.

**InputQueue.** `pc`, `win`, `left`, `next` are the position of the render thread in
`glfwPollEvents`/`pojavPumpEvents`; `sending` that of the producers in `sendData`. Reading the counter,
filling the slot and storing the counter are separate steps under the lock. An event is its sequence
number: the type and arguments of an event are copied, never looked at. `stream`, `base`, `joined`,
`received`, `told`, `torn` are history. Left out: `keyDownBuffer` and the mouse buffer, callback setters,
and a `glfwPollEvents` called from inside a callback. The cursor is one place, not two floats.

**FrameGate.** `pc` runs through a swap: gate, lock, check, sleep, note the size, reallocate, exchange
the flag, finish, dispatch. `memory` records which addresses are allocated, and with which size; a
reallocation may move the buffer or keep its address. `MakeCurrent` and `MakeCurrentNull` bind and unbind
the one context. Every store of `updateSavedResolution` is a `Resize` of its own. Left out: a second
context, a failing `reallocf`, and what the layer shows after the block has cleared the flag.

**VersionDownload.** The main queue is the sequence `main` of blocks; `net` is the URL session task of
each file; `dl` the fields of each download task. The code of the task that runs in one go is a function
on a record of its effects (`Run`, `Fetch`, `Submit`, `Fail`), so that each action is one block of a
thread. The UI follows `self.task`. Abstractions: a file counts one unit, and the last byte is one
notification; "bad" is a file that is missing or fails its check; the check after a download is on (its
default); the player may tap between any two blocks of the main queue; the two reads of `self.task` of
the background block are one. A background block starts on its own task, or finds none. Left out: one that
starts when a further download is in `self.task` already, and would begin that one a second time
(`LauncherNavigationController.m:309`; it takes three downloads, the second cleared by an error of the
first before its own block starts); files without a hash, `InstallModpack`, the wait for JIT, the
details popover.

**RendererStart.** `at` is the position in `launchJVM`, `pc` that of the render thread in
`syncGeometry`. A renderer and its file name are one value, so that `env` is the kind
`ame_renderer_from_name` gives for `AME_RENDERER`. `fault` says which check of the preflight a driver
fails, if any; Kosmic Krisp is reached through the loader shim, which answers for the layers itself and
loads the driver once for the process. `GiveUp` stands for the five early returns: everything set so far
stays set for the next launch of the same process. The game is free to ask for any API the bridge lets it
have, to hint any version and to create and destroy windows. A call through an empty table, or through
the EGL functions of a library that could not be loaded, ends the process (`window = "crash"`). Left out:
settings of the other renderers, the LWJGL version, swaps, and the test of `vk_bridge.m:22` that the root
view controller is a `SurfaceViewController`, as it is while the game runs.

**TouchInput.** UIKit calls all handlers on the main thread, so that each handler is one action, with all
events it sends; the game polls, grabs and sets passthrough in between. `held` are the keys the game has
been told are down, `room` the free slots of the queue (the order of events is the business of
`InputQueue`). `lost` is history: the codes whose release was lost, noted at the step that loses it
and cleared by the next event about the code. The handlers named in the map lose a key in these ways, and
in no others:

- an event is dropped by a full queue;
- a touch on a button or on the joystick is cancelled, which neither handles (a button that is hidden
  under a finger is such a touch);
- a second finger takes `swipingButton` over;
- the state that a release is computed from changes in mid-press: grabbing (a tap, a gamepad button, a
  stick), passthrough, the slot of a long press, the two settings of gestures
  (`updatePreferenceChanges`), or a text field that takes enter or backspace;
- a controller or a mouse disconnects (`controllerDisconnect`, `mouseDisconnect`): its handlers are
  dropped, and nothing is released. A release that comes while the app is away and is not heard counts as
  such a step;
- the custom controls remove the buttons and load them again (`loadCustomControls`) while one is touched,
  swiped or latched.

Without its note in `lost`, each of them makes `HeldIsWanted` fail. There is one
controller and one mouse; a device connects with nothing pressed; a reload brings the layout of before
back, unlatched (of another layout, buttons are in `Button` that are not shown yet); a touch that UIKit
ends as a button is removed ends before the reload. Left out: drawers, the modifiers of an event except
the shift latch, input before the game is ready, the forwarding to SDL, hover, scroll and the cursor, the
special buttons that open menus, the return key of the text field, the forward lock and the dead zone of
the joystick; a stick exactly on an axis counts as centred, as in the code.

**SDLBridge.** `tasks` is the main queue; a task whose `by` is `None` was given up on. `pc[t].at` is the
place where a thread waits or, inside the lock of `SDL3GLContext`, goes on. `exists` and `views` are
SDL's, `bound` is EGL's; `live`, `windows`, `contexts` and `current` are the maps of the bridge, `uses`
what the game has been given and not handed back. Parts that hold the Java lock from beginning to end
without a call to the main thread are one action. The game is assumed to use only windows and contexts it
holds, and no context that is current in another thread. Left out: `SDL_Quit`, which destroys all windows;
`SDL_ShowWindow` on a window that is shared; failures of EGL at start; a context whose own window is gone,
made current without naming a window; the view of a `CreateView` that was given up on, which nobody
destroys; `mainThreadError`, which threads share; Vulkan surfaces, the life cycle and input. So is the
monitor of `SDL3Bridge`, under which `armExitWatchdog` runs: `registerInput` and `onInput` hold it too, the
latter on the main thread, and are taken to return.

## 4. Runs

| Run | States | Shows |
| --- | --- | --- |
| `mod_batch` | 2 539 183 | types; `OnePending`, `Restorable`, `SuccessIsInstalled`, `WriteAhead`; `Atomic`: the batch implements `AtomicSwap` |
| `mod_batch_recovery` | violation | `AlwaysRecoverable` fails |
| `pack_install` | 1 587 831 | types; `PreviousRemainUnlessMet`, `ListIsCurrent`, `Atomic` |
| `pack_install_overlap` | violation | `PreviousRemain` fails when an inspection meets a commit |
| `input_queue` | 78 612 | types; `NothingLost`, `OneStream`, `Delivered`, `CursorTold` |
| `frame_gate` | 15 642 | types; `OneFrame`, `FrameReadableIfCalm`, `FramesKeepComing`, `StopsInBackground` |
| `frame_resize` | violation | `FrameReadable` fails |
| `version_download` | 29 940 | types; `LaunchedWhenReceived`, `LaunchedOnce`, `PlayAgain` |
| `version_download_unsized` | violation | `NothingToDownload` fails |
| `renderer_start` | 647 328 | types; `BridgeMatchesRenderer`, `PreflightHeeded`, `SettingsRead`, `VulkanSized`, `WindowReturns` |
| `touch_input` | 488 480 | types; `HeldIsWanted`, `ToggleShown`, `SneakShown`, `LetGo` |
| `sdl_bridge` | 407 101 | types; `CurrentIsBound`, `DestroyedUnused`, `ViewsGoFirst`, `ShutsDown` |

Operators named as mutants in the modules (a comment says so) are defects that the properties must
detect: with the operator in place of the one that follows it, the run of the module fails.

### Bounds

- `mod_batch`: two names, two contents, two batch directories, one hand edit. Two names give a target
  that replaces in place, one that takes another name, both at once, and a removal without a target; two
  contents tell old from new; two directories are one left behind by a failed commit, or overlooked, and a
  new one. Every loop runs zero, one or two times. Names, contents and directories are symmetric; there is
  no liveness property in this run. The constraint `EditsWhileRead` leaves out behaviours that have both a
  hand edit and, later, a commit over an overlooked journal: by then only the types and `WriteAhead` still
  say anything. The proofs lift the bounds.
- `pack_install`: two pages, one with two versions and one with one, two names, one transaction
  directory, one hand edit (`EditsWhileCalm`: before anything has gone wrong without a word). A second
  transaction needs a directory of its own only beside one without a journal, which nobody removes, or one
  whose journal was overlooked; the proofs, which hold for any number of directories, cover these.
- `input_queue`: two producers, two windows, two slots, three events, two places. The queue fills and an
  event is dropped; a poll takes zero, one or two events while the other producer sends; each window is
  pumped first in some behaviour. The code has 7999 slots; the proofs hold for every capacity.
- `frame_gate`: two sizes, three addresses: the one in use, one that was freed, a fresh one.
- `version_download`: one library and one asset besides the version JSON and the index, one download.
  All combinations of what is on disk, local versions and accounts are initial states; the two files
  arrive in either order, or one fails while the other is on its way. A second download adds only
  the stale block of `LauncherNavigationController.m:385` (hazard list). The launcher ends when the game
  starts, and presses of Play are bounded by the tasks: the runs of this module do not check deadlock.
  `Unsized` is empty in this run: see `LaunchedWhenReceived` below.

- `renderer_start`: all nine kinds of renderer; a driver that is sound, absent, without the entry point
  the shim adds, or without a surface extension, independently for each of the two drivers; two settings
  of MoltenVK; two launches in a process, so that a second one meets everything the first has left.
  `options.txt` survives the process.
- `touch_input`: three buttons (one latches, two can be swiped onto, one of them latches too), one slot and
  the place beside it, two directions, two buttons of the gamepad with other codes in menus, one key, one
  mouse button. A queue of four slots takes the four events of a stick just so, and drops some after any other event. Sources are used
  together where they share a key (`Using`): others could only fill the queue for one another, which
  the absence of a poll does as well. A button has four codes, as in the code; here one of them is used, and the
  others are `GLFW_KEY_UNKNOWN`.
- `sdl_bridge`: two threads, two windows, one context, one use of a window by each thread, one late block.
  Two threads share one window or make one each; a context is taken over by another thread and another
  window; an address of a window is used again while a late block still names it.

### Fairness

- `InputQueue`: a thread inside `sendData` continues, and the game keeps polling (its main loop polls
  once per frame). Nobody is made to send, and no window is made to open or close.
- `FrameGate`: the main thread shows queued frames and runs its notifications, with strong fairness for
  `SetAppForeground`, because a render thread that wakes up without a reason takes the mutex in between,
  but cannot keep it for ever; the game draws frame after frame (strong fairness of `SwapBuffers`, which
  binding a context may disable for a while), and a swap that has begun continues, unless it sleeps at
  the gate. The wake-up itself is not fair: it has to come from the broadcast of the main thread.
- `VersionDownload`: the main queue and the background block run, and every transfer ends, if only by
  the time limit that `MinecraftResourceDownloadTask` sets for a request. Nobody is made to press Play.
- `RendererStart`: a wait on a semaphore with a limit ends. Nothing is assumed of the main thread.
- `TouchInput`: the block of `dispatch_after` runs. The player, the game and its polls are free.
- `SDLBridge`: a thread goes on with a call it has begun, and its limited waits end; a thread that wants
  the Java monitor gets it when it is free again and again (strong fairness of `windowGone`); the sleep of
  the watchdog ends, and the monitor it is armed under is not held for ever: a main thread that hangs does
  not hang inside `onInput`. Nothing is assumed of the main thread, so that `ShutsDown` holds although it may
  never run another block, which is what the watchdog is for.
- `ModBatch` and `PackInstall` have safety properties only: every step may fail, and nothing retries.

### What the violations show

- `mod_batch_recovery`. After a rollback `recoverDirectory` removes the batch directory with its backup
  and its journal. When the app is killed, or the removal fails, between a backup file and the journal,
  the journal stays pending without the backup, and every later recovery returns NO: the mods can be
  neither listed nor installed. No file is lost (`Restorable`, `Atomic`). Marking the journal complete
  before removing the directory would close the gap.
- `pack_install_overlap`. A page that is opened while another installs recovers the directory they share:
  it reads the pending journal of the running install and puts the old file back. The install writes the
  new one over it, while the page removes the journal and the backup; the complete journal is not written,
  and the install ends with neither old file nor backup, under an error message that promises a backup.
  `PreviousRemainUnlessMet` shows that such a meeting is needed.
- `frame_resize`. The block of a frame reads memory that a later swap reallocates for a new size, or that
  unbinding the context frees. `FrameReadableIfCalm` says exactly when this cannot happen.
- `version_download_unsized`. Libraries without a size are not counted: when only such are missing the
  total is zero, their transfers are never resumed, and the game is launched without them.

### What the exclusions in properties say

- `HeldIsWanted` and `LetGo` except `lost`: see `TouchInput` above.
- `OnePending`, `Restorable`, `SuccessIsInstalled` and `Atomic` of `ModBatch` are about the time until
  `unread`: a commit has begun over a pending journal that its own recovery overlooked
  (`InstalledModsManager.m:221-224`). Then two batches are pending, and what their rollbacks leave depends on
  the order in which the directory lists them; the closing recovery may undo a commit that returns YES.
  `WriteAhead` has no such limit. A recovery that overlooks a journal when the mods are listed does no
  harm, and does not set `unread`.
- `ListIsCurrent` and `Atomic` of `PackInstall` are about the time in which the folder is `Calm`: no
  inspection has met a commit (`met`), and no recovery has overlooked a journal
  (`ModrinthModInstallation.m:122-125`, `overlooked`). An inspection that overlooks one lists an unfinished
  target, which a later recovery removes; an install that overlooks one has the troubles of `ModBatch`.
- `PreviousRemain` is about folders nobody has edited and journals nobody has overlooked: when two
  journals are pending, the rollback of one may remove the name the other has put back.
- `CurrentIsBound` is about a thread that holds its window, with a context on the window it was made for,
  while no window was really destroyed. Each part is needed. A thread that gave its window up while a
  context was current on it keeps the belief; when the window is made again at the same address,
  `makeCurrent` answers YES without a surface. A context that was moved to another window is not counted
  for that window, so that destroying a context of its own takes the surface away (`dropIfUnused`).
- `SettingsRead` is about the first launch of a process: MoltenVK is loaded once, and a launch that fails
  later leaves it with the settings of that launch.
- `PreflightHeeded` is about an `options.txt` this launch has written. A saved "vulkan" is left alone
  (`MinecraftOptionUtils.m:24`), although `JavaLauncher.m:353` says that it could never start.
- `StopsInBackground` lets the swap finish that had passed the gate: it calls `glFinish` after the app went
  to the background, which `environ.h:59-61` denies ("no GPU work is ever submitted").
- `LaunchedWhenReceived` says received, not verified: the progress is complete with the last byte, before
  the SHA-1 is compared, so that the game starts and a failing check then cancels a download that nobody
  waits for.
  It also needs every library to have a size (`Unsized = {}`). A library without one is added as a child of
  the progress, its transfer complete, before its unit is added to the total
  (`MinecraftResourceDownloadTask.m:89-90`): for that moment the progress may be complete while another file is
  on its way, and a block that launches the game is queued. TLC finds this at once with a second library.
- `ToggleShown` is about codes that nothing else sends and that are not `lost`, of a button that is not
  swiped onto; `SneakShown` is about a shift that nothing else sends and that is not `lost`: the game keeps
  one state for a key, whoever pressed it.

## 5. Proofs

All proofs are for every value of the constants that satisfies the assumption of the module
(`ConstantsAssumption`, `PackAssumption`, `QueueAssumption`, `FrameAssumption`, `FilesAssumption`,
`RendererAssumption` with `NoConfigAssumption`, `TouchAssumption`, `SDLAssumption`). These say that the
values that stand for "nothing" are not values, that a version has finitely many files and a process
finitely many threads, and how the parameters of a module belong together. One hypothesis goes further, and
the theorem that needs it says so: `Unsized = {}` (`LaunchedWhenReceivedCorrect`), see section 4. What the
properties of `ModBatch` and `PackInstall` exclude is part of the properties, not of the theorems: they hold
of every behaviour, with every failure and overlap.

| Module | Theorems |
| --- | --- |
| `ModBatchProofs` | `TypeCorrect`, `InvCorrect`, `OnePendingCorrect`, `RestorableCorrect`, `SuccessCorrect`, `WriteAheadCorrect`, `AtomicCorrect` |
| `InputQueueProofs` | `TypeCorrect`, `InvCorrect`, `NothingLostCorrect`, `OneStreamCorrect` |
| `FrameGateProofs` | `TypeCorrect`, `OneFrameCorrect`, `FrameReadableCorrect` |
| `RendererStartProofs` | `TypeCorrect`, `BridgeMatchesCorrect`, `PreflightHeededCorrect`, `SettingsReadCorrect`, `VulkanSizedCorrect` |
| `VersionDownloadProofs` | `LaunchedOnceCorrect`, `TypeCorrect`, `InvCorrect`, `LaunchedWhenReceivedCorrect` |
| `PackInstallProofs` | `TypeCorrect`, `InvCorrect`, `ListIsCurrentCorrect`, `PreviousRemainCorrect`, `AtomicCorrect` |
| `TouchInputProofs` | `TypeCorrect`, `InvCorrect`, `HeldIsWantedCorrect`, `ToggleShownCorrect`, `SneakShownCorrect` |
| `SDLBridgeProofs` | `TypeCorrect`, `InvCorrect`, `CurrentIsBoundCorrect`, `DestroyedUnusedCorrect`, `ViewsGoFirstCorrect` |

**ModBatch.** None of the properties is inductive: that a rollback can be carried out depends on how far
the commit got that wrote the journal. `IInv` adds, always, that the plan still is what was asked for
(`PlanInv`) and that the batch at hand is where the step says (`HandInv`); and, until `unread`, that one
journal is pending at most, which can be rolled back or has been (`DiskInv`), what a rollback has restored
so far and that the recovery of a commit has still to look at whatever is pending (`RecoverInv`), and what a
commit has written so far (`CommitInv`). The step that sets `unread` is the only one that need not keep the
second half; `WriteAhead` needs the first half alone. `AtomicCorrect` maps the write of the
`complete` mark to `Apply`, every error return and kill in a commit to `Abort`, hand edits to `Edit`, and
all other steps to a stutter.

**InputQueue.** `LockInv` says who is inside the critical section and that the counter a producer has
read is still the counter; `PollInv` that only the first pump of a poll drains; `CountInv` places every
event of the stream: first those of ended polls, then `pollEvents`, then `events`, slot by slot, also in
the middle of a drain and of a send; `WindowInv` gives the position of every window: at the base before
it is pumped, `next - 1` beyond it meanwhile, `pollCount` beyond it afterwards. Type correctness
needs these too, since the windows must receive only events that were sent. `OneStreamCorrect` maps a
filled slot to `Accept`, a callback to `Deliver`, window creation and destruction to `Open` and `Close`,
and the rewind to `EndPoll`, or to a stutter without windows.

**FrameGate.** `BundleInv` says where in a swap the bundle has a size and a buffer; `OneFrame` needs that
between the exchange of the flag and the dispatch nothing is queued; `FrameReadableCorrect` adds what a
calm swap knows about the memory of the queued frame.

**RendererStart.** Each property has an invariant of its own. `VulkanInv`: outside the preflight a Vulkan
renderer in the environment has passed it, one that failed is gone from the environment, and
`available`, the client API, the wait and the layer never disagree with what the launch found.
`BridgeInv`: before the bridge is up its table is empty; from then on the renderer is neither AUTO nor a
Vulkan driver, so that no hint changes it; that the environment of MobileGL follows the renderer through
a failed preflight needs `VulkanInv`. `ReadInv`: nothing loads MoltenVK before the first preflight of a
process. `SizedInv`: the main thread is asked for a size only once the latch is set. TLC checked all
four over the states of `renderer_start` before they were proved.

**VersionDownload.** `OnceInv`: a game that was started leaves no `self.task`, and Play is not pressed
again, so that every block of the observer that is still queued finds nothing to launch. `IInv` says what a
download is at each stage: `Stages`, which files may be on their way; `Lists`, which of them are in the
file list and which came without a length; `Counts`, that the total is the number of listed files, and one
more for the first byte until the files are submitted, and that no more is completed than files have been
settled (`Settled`: received, or, without a length, counted by their handler). The types need `Counts`,
which bounds the counters. `Sound` ties these to the main queue: a file has at most one handler there. The code
of a task is an operator on runs, and the lemma about each of them has the same conclusion, `Result`: a sound
task with its files on their way. `LaunchInv` then follows at the launch: a complete progress means as many
settled files as listed ones, and a file that is settled before its handler has run is received; afterwards
the list stays and transfers only advance. With `Unsized = {}` all settled files are listed ones, which is
where the hypothesis is used.

**PackInstall.** `Inv` is the types, always, and, while the folder is `Calm`, one inductive invariant with a
part for each thing a step can disturb: `DiskInv` (one pending journal at most, which can be rolled back or has
been), `GoalInv` (why the object runs, and whose files its list names), `Alone` (no inspection beside a commit),
`RecoverInv` and `CommitInv` (how far a rollback and an install have got), `PostInv` (the replaced files are
in the backup or back in the folder after an install that failed), `ListInv` (no journal and no install
touches a file that an idle page lists). `ListIsCurrent` and `PreviousRemain` are
read off `ListInv`, which needs `PostInv` when an install that failed ends. `AtomicCorrect` maps the last
check of the files to `Begin`, the write of the `complete` mark to `Apply`, errors and kills in between to `Abort`,
hand edits to `Edit`, and every other step, recovery by whichever page included, to a stutter.

**TouchInput.** `HeldIsWanted` is not inductive: that a finger is on a button does not say that the end of the
touch will release its keys. `HeldIsOwed` does: every code the game holds is one that the handler which ends
the touch would release now (`ButtonsOwe`, `ClickOwes`, `LongOwes`, `PadOwes`, `SneakOwes`, `SticksOwe`,
`KeysOwe`), or it is `lost`. What is owed is wanted, which gives the property. Lemmas on sequences of events
say which codes a handler is about (`Told`) and which it leaves down (`SaidDown`), also when the queue drops
the rest of them; each handler then needs only these two sets.

**SDLBridge.** `QueueInv` says that a block somebody waits for is the only one of its thread; `CountInv` that
the bridge counts exactly the holds of the game (`live[w]` is the cardinality of `Holds(w)`, for any number
of threads); `Life` that a window is entered, used or destroyed by one party at a time, also while its
address is used again; `Placed` and `PlaceInv` what a thread inside the lock knows of its window;
`SurfaceInv` that what is bound is recorded; `ViewInv` that a view which still exists is recorded or will be
taken away by a block queued before the one that destroys the window; `Believed` when a belief is true.
`DestroyedUnused` follows from `Life` at the block that destroys, `ViewsGoFirst` from `ViewInv` and
`SurfaceInv`, `CurrentIsBound` from `Believed`.

Every invariant and every safety property of a passing run is stated by a theorem. Only model-checked are
the liveness properties (`Delivered`, `CursorTold`, `FramesKeepComing`, `StopsInBackground`, `PlayAgain`,
`WindowReturns`, `LetGo`, `ShutsDown`): liveness under fairness is beyond the temporal prover. So is
induction over data with an operator as a parameter, which the proofs above do not need, and no
module has a RECURSIVE operator.

## 6. Limits

Most of this program is Objective-C and Java; the C files beside it are declarations (`jni.h`,
`osmesa_internal.h`, `utils.h`), except the preflight and the loader shim, which `RendererStart` models.

The models assume what the platform promises: `NSDataWritingAtomic` replaces a file in one step, mutexes
exclude, the main queue is served in order, `NSProgress` calls its observers on the thread that changes
it. The rendering itself, the JVM and the network beyond loss, delay and bad content are outside.
A power failure that reorders writes which the system reported as done is not modelled.
