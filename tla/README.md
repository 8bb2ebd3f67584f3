# Verification of qml-webos-framework

TLA+ models of the parts of qml-webos-framework that keep state across events,
model-checked with TLC on small instances, with proofs of the main
invariants for every instance. Paths below are relative to the repository's root.

## The system

The repository has two halves.

**Booster** (`tools/`). `boosterd` keeps a pool of pre-started `qml-runner`
processes so that an application starts in an already initialised process.

| part | state it keeps | operations | properties that make it correct |
|---|---|---|---|
| LaunchManager (`tools/booster/launchmanager.cpp`) | pids starting up, running, closing; one launch timer, one close timer | `onConnectedRunnersCountChanged`, `onRunnerReady`, `terminate`, two timers, three QProcess signals | the pool is never overfilled, is refilled when short; SIGKILL only after the whole timeout, and in the end |
| IpcServer (`tools/booster/ipcserver.cpp`) | pool of sockets, deferred launches, maps app -> socket, app -> pid, pid -> app, pid -> callback | `setupConnection`, `readSocket`, `onDisconnected`, `launch`, `relaunch`, `removeProcess` | each callback is called at most once and for the right application; deferred launches are served in order; the maps agree with the processes |
| LunaService (`lunaservice.cpp`) and `main.cpp` | subscribers of `running` | `launch`, `close`, `running`, the callbacks | every call is answered; subscribers see the list as it is |
| runner in the pool (`tools/runner/`, `--interactive`) | stage of its AppLoader | connect, register, load, reload, SIGTERM | replies once per request it has decoded |
| runner that SAM, the application manager, starts itself (`main.cpp`, `apploader.cpp`, `applifecyclemanager.cpp`, `lunaservicewrapper.cpp`) | its window, one LS2 handle shared by two wrappers, each with a token; a connection for SAM's messages | load, SAM comes and goes, relaunch, close, signals, end of the loop | no call on the bus outlives its wrapper; it registers with each new SAM; relaunch and close have their effect |

LunaService calls the IpcServer and the LaunchManager; the IpcServer reports the
size of its pool and registrations to the LaunchManager; the LaunchManager
reports finished processes to the IpcServer and the LunaService. All of that is
direct signal/slot calls inside one event loop. Daemon and runner exchange
messages over one local socket per runner.

Hard behaviours: a process can end at any point between its fork, its
registration, its launch request and its reply; SIGCHLD, disconnect and the last
message of a process are three events the daemon sees in any order; both ends
take all that has arrived from a socket and decode only the first message; a
write to a dead runner runs `onDisconnected` inside `launch`; launches overlap.

**Eos** (`src/`). A C++ library for windows and surface groups, and QML modules
of controls and items that applications load into a runner.

| part | state it keeps | operations | properties that make it correct |
|---|---|---|---|
| WebOSQuickWindow (`src/common/webosquickwindow.cpp`) | properties and what waits for the first show, key mask, input region, window state, tablet grabber | setters, `showEvent`/`hideEvent`, tablet dispatch | a shown window has told its surface what it was asked for; a grabbed item gets its release |
| SurfaceGroup (`src/Eos/SurfaceGroup/`) | group of the owner, its layers, where a client is attached | show and hide of owner and clients, layer changes | a visible client is attached where its layer name says; layers of a live group exist in the compositor |
| VideoCapture (`src/Eos/Items/src/videocapture.cpp`) | VT window and context, two texture names, the node's texture | enable, VT events (other thread), queued calls, paint | no texture leaks or is used after it is deleted; a disabled item holds nothing |
| PageStack (`src/Eos/Controls/PageStack.qml`) | stack, length, current page, animations | `push`, `pop`, `replace`, incubators, ends of animations | the current page is on the stack; every page is destroyed or on the stack |
| ExclusiveGroup, CheckableItem | list of items, `checked` | toggle, bind | at most one item is checked |
| Picker, ComboBox, Menu | current index, model | increment, select, model changes | the index names an element |
| EditableListView, Ribbon, RibbonEditor | item being edited, source and target index, scrolling inputs, timers | pick up, move, drop, scroll by hot spot, wheel, key | the item dropped is the one picked up; scrolling stops when its input does |
| Wiper, WiperStack | state, running transition, which wiper is open | open, close, advance | one wiper is open; `isOpen` agrees with the state once the transition ends |
| painted items: Beziergon and Parallelogram over `SamplerGeometry::Item` and its materials (`src/Eos/Items/src/`) | points that follow the size until they are set, three dirty flags, a node with body and fringe, texture providers | setters, changes of source, layer, window and antialiasing, `updatePaintNode` | what is painted is the item as it is; meshes are filled and stay inside; no node keeps a texture provider that is gone |
| remaining controls, style | a pressed flag, constants | | |

A QML application calls the controls from its handlers; the controls keep their
state in QML properties and continue in signal handlers of incubators, timers
and animations, all in the GUI thread. WebOSQuickWindow reacts to show and hide,
and SurfaceGroup's owner and clients listen to its visibility. VideoCapture has
three threads: GUI, scene graph (which runs while the GUI thread is blocked) and
VT, which posts to the GUI thread. A painted item's setters run in the GUI thread
and note in flags what the scene graph's next `updatePaintNode` has to do; texture
providers live and end in the scene graph's thread.

Hard behaviours: incubators answer in any order and can fail; an animation ends
after the stack below it has changed; a window is shown again on the same or on a
new surface; a surface group's names, layers and window come in any order, before and
after the show they matter to; a frame arrives between enabling, disabling and the
first paint, and GL gives a deleted texture's name to the next one; several changes of
a painted item fall between two paints, some of which ask for no repaint.

`PROJECT.json` lists every component with what is modelled of it, and the hazards
at their lines with the properties that cover them.

## Modules

| module | models | used by |
|---|---|---|
| `Processes` | the set of pids | all of the booster |
| `LaunchManager` | `launchmanager.cpp`: the three pid sets, both timers, the QProcess life cycle; operators and actions that say nothing of the rest of the daemon | `RunnerPool`, `Booster` |
| `RunnerPool` | what the booster promises of its pool: LaunchManager, with a server reduced to two sets (who registered, who waits) | `RunnerPoolProofs`; abstract specification of `Booster` |
| `RunnerPoolProofs` | theorems | |
| `IpcServer` | `ipcserver.cpp` and `ipcclient.cpp`: pool of sockets, deferred launches, maps, both ends of each socket | `Booster` |
| `Booster` | the daemon and its runners: LunaService, AppLoader and `main.cpp` compose the handlers of LaunchManager and IpcServer into one action per event | `MCBooster` |
| `BoosterProofs` | theorems about `Booster`: its refinement of `RunnerPool`, its invariants | |
| `MCBooster` | symmetry of the applications | runs |
| `AppRunner`, `AppRunnerProofs` | `main()` without `--interactive`, AppLoader with its window, AppLifeCycleManager, LunaServiceWrapper; SAM and the bus are external | run |
| `QuickWindow`, `QuickWindowProofs` | properties, hint, addon, key mask and input region of a window over shows and hides | run, `SurfaceGroup` |
| `SurfaceGroup`, `SurfaceGroupProofs` | an owner with its layers, or a client, composed with QuickWindow, whose shows and hides it follows | `MCSurfaceGroup` |
| `MCSurfaceGroup` | symmetry of values, layers and z | run |
| `VideoCapture`, `VideoCaptureProofs` | the item, its queued calls, VT's thread and painting | runs |
| `SamplerItem` | `SamplerGeometry::Item`: members, flags, source, window, paint with nodes, materials and providers | `Beziergon`, `Parallelogram` |
| `Beziergon` | the points and the slots that follow size and each other, resolution, what it gives the paint | `PaintedItems` |
| `Parallelogram` | angle and offset, which vertices are computed from | `PaintedItems` |
| `Mesh` | counts and stored indices of the meshes, with the integer conversions of `securecoding.h` | `PaintedItems` |
| `UniformBlock` | which members reach the Qt 6 shaders: the offsets of std140 and those the writer computes | `PaintedItems` |
| `PaintedItems`, `PaintedItemsProofs` | composition: an item of either class, its sources, its nodes; the proofs include those about `Mesh`, `Beziergon` and `UniformBlock` | `MCPaintedItems` |
| `MCPaintedItems` | symmetry of sources and providers, two resolutions | run |
| `PageStack`, `PageStackProofs` | `push`, `pop`, `replace`, of pages that load or are ready at once | runs |

How state and actions correspond to the code:

- **LaunchManager.** `m_startingUp`, `m_running`, `m_closing` are the members of
  these names. `m_launchTimer` is the active flag of the single-shot timer;
  `m_closeTimer` its remaining time, -1 when inactive. `proc[p]` is the life of the
  QProcess object: *alive*, *dead* (ended, not reported), *failed* (exec failed,
  not reported), *deleting* (`deleteLater()` asked for), *destroyed*. `closeAge[p]`
  stands for the start time stored with a closing pid. `CountChanged`, `Terminate`,
  `LaunchTimeout`, `CloseTimerFires`, `OnProcessFinished`, `OnProcessError`,
  `OnProcessDestroyed` are the slots; `Tick` lets time pass, up to the next expiry.
- **RunnerPool.** `seen` are the processes that have registered, `pooled` those
  waiting. `Register`, `RegisterAndUse` (a deferred launch is served at once),
  `Leave`, `FindEmpty` (a launch found nobody) and `Close` are what the server does
  to the manager.
- **IpcServer.** `m_runnerClients`, `m_deferredMessages`, `m_runningSockets`,
  `m_runningApps`, `m_runningProcesses`, `m_launchCallbacks` are the members. A
  socket has the pid of its runner as its name. `toServer[s]` and `toRunner[s]` are
  the bytes under way: reading takes all of them and decodes the first message,
  as `readAll()` and one QDataStream do. A write to a socket whose peer is gone
  runs the disconnect inside the launch, which is why `LaunchOn` has the set `gone`
  as a parameter.
- **Booster.** One action per event of the daemon or a runner. `requests` and
  `replies` hold the Luna calls and answers; `published` what the subscribers of
  `running` were sent last; `loader` and `hosted` the runner's AppLoader.
- **QuickWindow.** A slot is one thing the shell surface is told. `asked` are the
  members, `pending` the three `m_pending...` members, `surface` what the surface
  was told last; `Show` is `showEvent` with `updatePendingWindowProperties`.
- **AppRunner.** `phase` is where `main()` is, `quitting` that the loop was told to
  end. `wrappers`, `m_token`, `m_isSubscribed` are the two LunaServiceWrappers;
  `connections` counts the connections of `messageReceived`, since connecting twice
  calls the slot twice. `lunaHandle` and `attached` are what LSRegister and LSGmainAttach
  gave, whose failures are only logged (`Regist`). `calls` are the calls the bus still has, each with the wrapper
  it calls back. `status` and `inbox` are reports and messages on their way, which
  nothing orders to one another; SAM and the bus act in `SamStops`, `SamStarts`,
  `BusRepeats`, `SamSends`. `HandleConnected`, `HandleDisconnected`, `Reload`, `Close`
  are the slots; `DeleteApp` and `DeleteBus` the two halves of the destructor.
- **SurfaceGroup.** `role` is which of the two objects there is. `m_SurfaceGroup` is
  whether it has a group; `groupLayers` and `groupAllows` what the compositor has,
  `attachedAs` how it has the client's surface. The compositor may refuse whatever the
  code tests for null: a group to the owner, a group to the client (`Attaches`), each
  layer (`CreatedLayers`); `refused` and `refusedLayers` are its history. A null group
  that is dereferenced ends the process (`role` *crashed*). `m_SurfaceGroupLayer` is
  whether a layer object has a layer, of this group or of another owner's. `WindowShows` and `WindowHides` are
  QuickWindow's steps and the slot, which is called within them once the window is
  connected. The other actions are setters, which `complete` may come before or after.
- **SamplerItem and its subclasses.** `item` are the members, `dirty` the flags
  `m_geometryDirty`, `m_materialDirty`, `m_newMaterial`; `asked` is Qt's request for a
  paint. `node` has a record for body and fringe each: geometry, and material with the
  provider it keeps. `hears` is the item's one connection to a provider's end, `marks`
  a queued `markDirtyMaterial`. A paint is one step, as the GUI thread is blocked.
  `linked` are the slots a setter has not disconnected yet; `Slots` says which follows
  which signal. Lengths are abstract: 0 and one other, of which half is distinct.
- **VideoCapture.** `queue` are the queued calls to the GUI thread. VT's handler is
  two steps, `EventEmits` and `EventSetsFlag`, because it emits first and sets the
  flag afterwards. `PaintShows` and `PaintAsks` are the two outcomes of
  `updatePaintNode`. `live` is the set of GL textures; `glGenTextures` may return
  any name that is not in it.
- **PageStack.** `pageStack`, `length`, `currentPage`, `exitItem`, `busy` are the
  QML properties; `loading` and `replacing` the incubators under way, `moving` the
  animations whose *stopped* handler is still to run. Assigning `undefined` to an
  Item property throws and ends the function: `StartsUnless` is that case. `PushIsReady`
  and `ReplaceIsReady` are the branches for a page that is ready when `incubateObject()`
  returns; `stranded` is a history variable, the pages that such a `replace()` showed
  just before it threw.

Handlers are atomic, since each runs to its end in one event loop; the exceptions
(VT's thread, the disconnect inside a write) are modelled as said. Each module has a
type predicate; those no run checks (`TypeOK`, `PageTypeOK`, `AppRunnerTypeOK`,
`GroupTypeOK`) are there for the reader. A few definitions are kept that no action uses (`TerminatePutsOffTimer`,
`ReadRegisterOnly`, `ValueOfCallback`, ...): they are slightly wrong variants of the
definition after them, and each property is shown to fail when its variant takes
the place of the real one.

## Runs

| run | bounds | distinct states | what it shows |
|---|---|---|---|
| `RunnerPool_pool` | 3 pids, pool of 2, timeout 2, exec may fail, fairness | 140,526 | the pool is never overfilled whatever order exits, registrations and timers come in; the close timer is set in time for processes that still have their QProcess object; SIGKILL only after the timeout; a closed process goes; unless an exec fails a short pool is always being refilled and in the end full |
| `RunnerPool_execfail` | as above, timeout 1 | violation | after one FailedToStart the pool stays short |
| `Booster_safety` | 3 pids, 2 applications, 3 calls, crashes, callers that do not wait | 2,316,121 | callbacks are called at most once, for the right application, and are not stranded; launches are served in order; maps, processes and subscribers agree |
| `Booster_clients` | same, exec may fail, callers wait for answers | 1,365,280 | one runner per application, every answered runner is listed; Booster implements RunnerPool |
| `Booster_answers` | 3 pids, 2 applications, 2 calls, fairness | 328,270 | each call is answered |
| `AppRunner` | 4 calls, 1 refused, registering and attaching may fail, SAM goes up or down twice, 2 reports and 2 messages, fairness | 165,376 | calls on the bus belong to a wrapper that exists; messages are heard once; the application registers with each SAM; relaunch and close have their effect |
| `SurfaceGroup` | one property, two values, 4 changes of window and object, 2 shows, surface kept or dropped, 2 layers, 2 z, groups and layers may be refused | 6,464,374 | what was asked while hidden, and key mask and region always, are on the shown surface; a client is attached only while shown, in its layer, and detaches from a group that is there unless it was refused at a second fetch; the group has the owner's layers but those refused or taken |
| `QuickWindow_again` | surface kept, 4 changes, 3 shows | violation | an old pending title overwrites a newer one |
| `VideoCapture_textures` | 3 textures, 5 toggles, 5 frames, 3 queued calls | 98,614 | the shown texture is live; none leaks; a disabled item holds nothing |
| `PaintedItems` | 4 changes, 2 sources, 2 providers, `USHRT_MAX` 40, `INT_MAX` 1000, resolutions (4,4), (0,0), (1,5) | 209,510 | a paint shows the item as it is; the screen does without one when none was asked for; fringe, providers, references and meshes are as they must be |
| `PageStack_pages` | 4 calls, delegate with a replaceTransition | 6,637 | the current page is on the stack and no page is lost, but for one that a `replace()` that throws leaves behind; a pop uncovers the page below |
| `PageStack_replace` | the default delegate | violation | `replace()` leaves a destroyed page on the stack (`ReplacementIsSaved`) |

Why the bounds suffice. Pids are taken in order (the code only compares them for
equality) and never reused. Three of them with a pool of one or two contain a
runner that is starting while one is used and one ends, which is the most any
handler of the manager tells apart; the pool's theorems then hold for every size.
Two applications with three calls include two overlapping launches of one
application with a third call that finds either. Three shows are what a value
needs to be asked for before the first, changed during the second and repeated at
the third; two suffice for what was asked for while hidden, on a surface that is kept
or new, and for a client that is attached and detached before and after each setter.
Four calls on the bus are the one of `m_bus` and three registrations: the first, and one
for each of SAM's restarts. Two reports on their way include the pair that a restart
makes, two messages a relaunch behind a close and the reverse. Two sources and two
providers are an old and a new one, and an address that is used again. Four changes
include size, a setter, and two changes of the source between paints; that `USHRT_MAX`
is 40 lets (1,5) have a fringe whose last indices saturate, while (0,0) and (4,4) stay
below. Three texture names are current, next, and one newly generated. Four
pages are two that load together over one that is shown, and one more. The
message queues of the booster need no bound: each runner sends one message per
message it gets. `CHECK_DEADLOCK FALSE` is set in every cfg since the counters of
pids, calls, pages, frames and changes run out, after which a quiet system
rightly stops.

Parameters that restrict the environment: `CommandMayFail` (exec of the runner
command can fail), `RunnersMayCrash`, `PatientClients` (no second call on an
application while one is pending, and no launch until a process that was closed
is gone), `PlatformDrops` (a hidden window loses its surface), `ReplaceTransition`.

Fairness. The daemon is a Qt event loop: whatever socket, timer, SIGCHLD or
deferred deletion stays pending is handled, hence weak fairness on each of its
actions. A runner blocks nowhere but in `waitForConnected(20000)`
(`ipcclient.cpp:72`), so it connects, reads what arrives and leaves its event loop
after `exit(-1)`. The kernel ends a process that got SIGKILL. Nothing is assumed of
crashes, of SIGTERM being obeyed, or of clients. In AppRunner, `main()` runs on and
its event loop takes reports and messages that have come, as the glib main loop that
the handle is attached to does; nothing is assumed of SAM, the bus, the user or signals.
No fairness is used for Eos.

## What the code allows

Three violations are recorded as findings: the refill after a failed exec
(`launchmanager.cpp:130`), pending window properties that are never cleared
(`webosquickwindow.cpp:427`) and `replace()` without a transition
(`PageStack.qml:183`, 213). The properties are stated to allow these further
behaviours, which contradict nothing the repository says:

- a LAUNCH_REPLY read after its process was reported lists a dead pid, and later
  launches of that application become relaunches of it (`ipcserver.cpp:136`);
- a runner that dies between LAUNCH_REQUEST and reply takes the callback with it:
  the caller gets no answer (the second disjunct of `CallIsAnswered`, which exempts every
  call of an application one of whose runners has ended; the third exempts used up pids);
- a launch directly after a close is sent to the process being closed and can stay
  unanswered (`lunaservice.cpp:75`), which patient clients avoid;
- `relaunch()` returning false is ignored (`lunaservice.cpp:76`);
- a page that becomes ready below a page that fails afterwards is on top but never
  current (`PageStack.qml:61`); `pop()` while a page loads, and `replace()` during
  another, corrupt the stack (127, 158): the model's callers avoid both;
- a page of `replace()` that is ready at once is shown, then line 203 assigns a property
  that `PageStackTransition` does not declare and throws: the page is current, neither on
  the stack nor in an animation, and the old page stays. `CurrentIsOnStack` and
  `NoPageLost` except it (`stranded`); `ReplacementIsSaved` does not, and fails with
  `ReplaceTransition = TRUE` as well as in its run;
- VT's flag is set after its call is queued, so that call can find nothing to do
  and the frame waits for the next event (`videocapture.cpp:171`).

Of the runner that SAM starts:

- the signal is connected before the call, so a call that is refused leaves a
  connection, and messages are then handled once more for each; the call itself is
  not repeated before the next report (`applifecyclemanager.cpp:98`);
- the first wrapper that is deleted unregisters the handle of both, and the other is
  cancelled with a null handle, although the comment at `lunaservicewrapper.cpp:25-29`
  has the handle live for the whole run; the calls are gone with it, so nothing is left
  to cancel;
- a relaunch of a plain Window that was not shown yet is dropped as if it were closing
  (`apploader.cpp:85`); the parameters of an Item's first load are dropped, since its
  view has no platform window before `show()` (60, 232), and empty parameters leave the
  window's old ones while the context property changes;
- when LSRegister or LSGmainAttach fails the runner goes on and hears of nothing: SAM can
  neither relaunch nor close it (`lunaservicewrapper.cpp:95-108`); `RegistersAgain`
  excepts such a runner;
- the comment at `main.cpp:187-190` names `registerNativeApp` as the default, while the
  code, and the model, default to `registerApp` (`applifecyclemanager.cpp:25`);
- a top-level object that is neither window nor item leaves `m_window` null, and it is
  used; `quit()` before `exec()` is lost, and SIGTERM before its handler is installed
  kills; when the QML does not load, the life cycle manager is not deleted.

Of surface groups:

- a layer name, layers or `allowAnonymous` that come after the client was attached or
  the group created are stored and have no effect, except at the client's next show;
- a client fetches its group again at each show, and when `componentComplete` finds the
  window shown: when that gives no group, an attached client has lost the one to detach
  from, and the next hide dereferences null (`eossurfacegroupclient.cpp:67`, 81).
  `AttachedWhileShown` says that this is the only way to the null pointer;
- a layer that `createNamedLayer` does not give, and a layer object that has a layer of
  another owner's group, are missing from the group, and nothing tries again:
  `createWebOSSurfaceGroupLayer` returns true for the one and its result is not read
  (`eossurfacegrouplayer.cpp:93-105`);
- a client that is destroyed does not detach.

Of painted items:

- `m_newMaterial` is set at the first paint and never reset: every later paint makes
  the materials anew, and only therefore do points that follow a change of size reach
  the screen, as they set no flag (`samplergeometry.cpp:63`);
- the item has one connection for two nodes: the body of an antialiased item is not
  told of the end of a texture provider and keeps the pointer until the next paint
  (227), which is why `LastNodeForgetsProvider` speaks of the last node;
- `antialiasing`, `clampToEdge` and `blending` set flags but ask for no repaint, a layer
  that is enabled later is not noticed, and the source's rotation and scale are read at
  a paint only; the destructor does not take back the reference to the source's window;
- a mesh with more than 65,536 vertices has saturated or truncated indices: they stay
  inside, and some vertices are not drawn;
- a negative resolution is not refused, and the mesh is then written past its end: for
  (-1,-1) the fringe has 2(6-2) + 2(6-2) = 16 vertices allocated (`beziergon.cpp:407`) and
  24 written, eight for each horizontal strip and four for each vertical one. `Mesh` and
  its theorems speak of natural resolutions only (`ResolutionsAssumption`).

## Proofs

Every theorem holds for all values of the constants that satisfy the named
assumptions of the modules (`PidsAssumption`: pids are positive numbers, finitely
many; `MaxAssumption`, `TimeoutAssumption`, `SlotsAssumption`, `ValuesAssumption`,
`NoneAssumption`, `ResolutionsAssumption`: no resolution is negative and its counts are
ints, ...). Theorem and property:

- `PoolTypeCorrect` (`PoolTypeOK`), `PoolNeverOverfull` (`PoolBound`),
  `TimerOnlyWithRoom`. PoolBound is not inductive: the launch timer could start a
  runner in a full pool (hence `TimerMeansRoom`: the timer is set only with room for
  one more), a runner could be counted as starting and as waiting (`CountedOnce`),
  and a late registration could add one that was not counted (`UnseenStarts`,
  `SeenWereForked`). `PoolInv` is their conjunction. `IdleShrinks` disposes of every
  step that only removes a runner; `CountedRoom` says that a reported count which
  sets the timer leaves room.
- `ClosingAlwaysRunning`, `CloseTimerInTime` (`CloseTimerCoversDeadlines`) and
  `KillIsLastResort` (`KillOnlyAfterTimeout`), from `CloseInv` (`CloseTimerCoversDeadlines`
  has the first as its first part, what the timer's handler dereferences): what is closing is
  running, was forked, and has had a signal, and the close timer never fires later
  than the first deadline.
- `ShortPoolAlwaysRefilled` (`ShortPoolIsRefilled`) under `CommandMayFail = FALSE`,
  the assumption without which `RunnerPool_execfail` refutes it.
- `BoosterImplementsPool` (`ImplementsPool`): the daemon with its runners implements
  RunnerPool, one step of `Next` after the other. Most are one step of the pool: a
  launch that takes a runner is `Leave`, also when the write finds it gone; one that
  finds none is `FindEmpty`; a registration is `Register`, or `RegisterAndUse` when a
  launch is deferred. It needs `StageInv`: a runner registers once, and what has left
  the pool never comes back. The theorems about the pool then hold of the daemon:
  `BoosterNeverOverfull`, `BoosterKillsLast`, `BoosterRefillsPool`, the last with no
  failing exec.
- `AlwaysDeferredOnlyWhenPoolEmpty` (`DeferredOnlyWhenPoolEmpty`), inductive with the types.
- The other invariants of Booster build on each other, each relative to those before it.
  `StageInv` says where a runner is between fork and exit. `MessageInv` says what may be
  on its two wires at each stage: nothing before it is taken, then the launch request
  first, and a positive reply only from a runner that loaded the application of its
  socket. `ListInv` is what the maps owe to those replies: `MapsAlwaysAgree`
  (`MapsAgree`), `SubscribersAlwaysKnow` (`SubscribersUpToDate`) and, as an action,
  `AlwaysListedUntilExit` (`ListedUntilExit`). `CallbackAlwaysHasCarrier`
  (`CallbackHasCarrier`) follows from what is on the wires. `CallInv` says where
  callbacks are: those of deferred launches are in order, those stored for a runner are
  for the application it was given, none is in two places; hence `ReplyAlwaysFromHost`
  (`ReplyFromHost`), `CallbackAlwaysInOnePlace` (`CallbackInOnePlace`) and `NeverOvertaking`
  (`NoOvertaking`). Nothing is assumed of clients, of crashes or of execs that fail.
- `OneRunnerAlways` (`OneRunnerPerApp`) and `AnsweredStaysListed`
  (`AnsweredRunnerIsListed`), under `PatientClients`, without which an application that is
  launched twice in a row gets two runners. Neither is inductive, since the list says
  nothing of a runner between its LAUNCH_REQUEST and the reading of its LAUNCH_REPLY.
  `ClientInv` follows a runner through that time: it claims its application from the
  moment it is given it, even when it dies with a positive reply on the wire
  (`OneClaim`: nobody else does); until the reply is read the callback of the launch is
  held for it, and from then on it is listed (`RunnerIsKnown`). With a call held no
  other comes (`OneCallAtATime`), and for a listed application a launch is a relaunch.
  A launch waits in the deferred queue only while its application is not listed
  (`DeferredIsNotListed`), so serving it finds no claim either. `LoaderInv` excludes that
  a runner whose load failed counts as one. Of what `PatientClients` means only
  the first part is used: that a client waits for its answer.
- `NoCallForgotten`, also under `PatientClients`: the safety half of `CallIsAnswered`. A
  call without an answer is deferred, or its callback is held for a live runner that has
  a message to read, to be read, or exits, unless a runner with its application has
  ended. `relaunch()` drops a call, with its callback, when the application has no socket
  (`lunaservice.cpp:76`), so the invariant (`HeldInv`) says that the runner which serves
  an application is the one a relaunch reaches (`RunnerIsReached`): nobody else is given
  the application meanwhile, and a socket leaves the map only when its runner is gone. That
  a later call never overwrites a callback that is held rests on the clients' patience.
- `HiddenChangesAreShown`, `MembersAlwaysShown`, `WindowTypeCorrect`, from
  `WindowInv`: what waits is what was asked for last of each slot that was asked for
  while hidden, and a surface always knows the members.
- `GroupImplementsWindow`: every behaviour of a window with an owner or a client is one of
  QuickWindow (`GroupSpec => Spec`), so the theorems above hold in the composition.
  `ClientIsAttached` (`AttachedWhileShown`), from `ClientInv`: a client that is attached
  has its window connected, so that the hide that must detach it will reach it, and its
  group unless it was refused while attached.
  `OwnerLayersAreInGroup` (`GroupHasItsLayers`), from `OwnerInv`: before there is a group no
  layer is the owner's own, then exactly those that were listed, free and created. Neither
  assumes that the compositor gives anything.
- `NoCallOutlivesItsWrapper` (`CallsAreOwned`), from `OwnedInv`: tokens are used once, calls
  need a handle, reports an attached one, and both wrappers exist as long as it does.
  `MessagesAreHeardOnce` (`HeardOnce`), from `HeardInv`. The numbers of calls, restarts, reports and refusals
  are parameters, and registering and attaching may fail.
- `MeshesAreFilled`, `MeshesStayInside`, `MeshesAreCovered`: of every natural resolution, with any
  limits of the integer types, by arithmetic on the loops' counts and indices.
  `MeshDrawn` (`MeshIsDrawn`) applies them to the item that is painted.
- `PaintTyped`, with `NewStays`: from the first paint on, materials are made anew.
  `FringeIsThere` (`FringeWhenNeeded`) and `PaintShows` (`PaintShowsItem`), from
  `GeometryCurrent`: a node's geometry is the item's, or is marked. `RefsBalanced`
  (`WindowRefsBalanced`) is inductive with the types. `LastForgets`
  (`LastNodeForgetsProvider`), from `LastHears`: the part that was painted last hears of
  its provider, which still lives.
- `DefaultsAreFollowed` (`DefaultsFollow`): after each signal the points that follow it
  are settled, for any lengths and any rounding of their half. The invariant adds
  that a Parallelogram has no points linked (`LinksOfKind`); the argument is the order of
  the slots, corners before the control points between them (`PointsRight`).
- `MembersArrive`: each of the twenty members of the uniform block is written where the
  shaders read it. The offsets of std140 and of the writer are recursive functions.
  Their values are found by the least counterexample: a function that satisfies the
  same equations and differs from the one stated does so at a least place, where the
  equation is contradicted. `ScreenShows` (`ScreenShowsItem`) cites it; its invariant
  is `OnScreen`: all that reaches the screen without a paint asks for one.
- `ShownPageIsOnStack` (`CurrentIsOnStack`), `NoPageIsLost` (`NoPageLost`) and
  `PoppedPageUncovers` (`PopUncoversPage`), from `StackInv`, for any number of pages and
  calls, under `ReplaceTransition`: `PageStack_replace` refutes them for the default
  delegate. None is inductive. A page that gets ready must find its own placeholder
  (`Placeholders`), a page is on the stack once (`StackedPages`), what moves out is off it
  (`Moves`), and, while a replacement loads or moves in, nothing else loads and `exitItem`
  is still the page whose place it gets (`Replacement`). A page that a throwing `replace()`
  left behind is never one that loads, moves or is on the stack (`Stranded`).
- `ShownTextureStaysLive`, `TexturesNeverLeak`, `VideoTypeCorrect`, from
  `TextureInv`: the wrapped texture is always the current name, so a branch of
  `updatePaintNode` is dead code; and `DisabledReleases`, from `QueueInv` about the
  order of the queued calls: of a disabled item, whatever initializes it is
  followed by a call of `enabledChanged`.

Every invariant and every action property of the passing runs is stated by a theorem.
Only model-checked is what the prover does not reach: liveness (`ClosedProcessGoes`,
`PoolFillsUp`, `CallIsAnswered`, `RegistersAgain`, `SamIsObeyed`) and anything about
ENABLED. No module has a RECURSIVE operator; the one induction over data, of the uniform
block, is done by the least counterexample. A theorem
that needs `PatientClients`, `ReplaceTransition` or `CommandMayFail = FALSE` says so; of the
last two a run shows the violation without it.

## Not modelled, and the plan

Left out for good: loggers, the glue to luna-service2 (`abstractlunaservice.cpp`), the
invoker (its message is not one the server's parser accepts), regions, registration of
QML types, drawing and style. They keep no state across events. PunchThrough passes
the rectangles of its items to a function of the platform that the source does not
show. Of the painted items, `Parallelogram::contains` and `offsetAt` (geometry of a point
that no state depends on), the scales of a texture and the shaders of Qt 5 are left
out, and the size of the window is constant. Of the surface groups, the calls that
only forward the focus to the platform are left out. Of the runner, Qt 6's `quit()`, which closes the
windows first and may be refused by one, is taken as the `quit()` of Qt 5.

Next, in this order:

1. The rest of WebOSQuickWindow: dispatch of tablet events (217-340) with the
   grabber's item disabled, destroyed or changed in between; the window state.
2. `ExclusiveGroup` with CheckableItem (two items declared checked; an item that leaves
   its group), `Picker` and ComboBox over a model that changes.
3. `EditableListView` with its delegate and hot spots; `Ribbon` with RibbonEditor.
4. `Wiper` and `WiperStack`: transitions that overlap.
5. A restart of the daemon while runners live on (`booster.upstart:23`).
6. Proofs: of each module above with the module; what liveness rests on as safety, as
   `NoCallForgotten` does for `CallIsAnswered`, for `RegistersAgain` and `SamIsObeyed`.
