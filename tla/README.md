# Verification of edmcoverlay for Linux

TLA+ models of the overlay of this repository, the TLC runs that check them on
small instances, and TLAPS proofs of what holds for every instance. Line numbers
refer to the files below `src/`.

## 1. The system

EDMC (a Python program with plugins) loads this plugin. It starts a binary, the
*overlay*, and every other plugin talks to that binary over its own TCP
connection. The binary keeps the messages as drawables and paints them on a
transparent X11 window.

```
 plugin A --OverlayImpl queue--worker--PersistentSocket--\
 plugin B --OverlayImpl queue--worker--PersistentSocket---+--TCP 5010--> AsioAcceptTcpServer
 load.py hooks --OverlayBinaryManager-- start/stop the process              |  io_context thread
                                                                       TcpSession: readHeader,
                                                                       readBody, process_payload
                                                                              |  mutex
                                                                       allDraws (std::map)
                                                                              |  mutex
                                                                       main loop, every 100 ms: X11
```

### Components

| Component | State | Operations | Talks to |
|---|---|---|---|
| Store and frame loop (`cpp/main.cpp`, `cpp/tcp_session.hpp:93-184`, `cpp/drawables.h`) | `allDraws`, per item `already_rendered`, `created_at`, `ttl`; `targetAppActive`, `commandHideLayer`, `window_was_hidden`, `lastCheckTime` | merge of a payload, anti-flickering, `removeRenamedDuplicates`; focus check, item loop with commands and expiry, redraw or hide | network and main thread share the map and its mutex |
| Threads and shutdown (`cpp/main.cpp`, `cpp/common/runners.h`, `cpp/logic_context.hpp`) | `serverAcceptThread`, stop flag, `io_context` | signal handler, exit command, loss of the compositor, `reset()` (flag and join), `stop()`, joins | all threads of the binary |
| TCP session (`cpp/tcp_session.hpp:36-89`, `cpp/asio_accept_tcp_server.hpp`) | `stream_buffer_`, pending read | `readHeader`, `readBody`, close on a bad header | the plugin's socket; hands bodies to `process_payload` |
| JSON parser (`cpp/drawables.h:213-393`) | the AUTOID counter | one item per object, ids, ttl of anonymous items | called by `process_payload` |
| SVG builder (`cpp/svgbuilder.cpp`, `cpp/drawables.h:420-519`) | none but the emoji renderer's | text, shapes, vectors to SVG; bounding box | called by `process_payload`; asks the emoji renderer for pictures and widths |
| Text spans, fonts (`cpp/common/unicode_splitter.hpp`, `cpp/common/font_size.hpp`, `cpp/luna_default_fonts.h`) | an iterator over bytes | splitting into symbols and spans of one class, sizes | SVG builder |
| X11 output (`cpp/xoverlayoutput.cpp`, `cpp/x11_colors_mgr.h`, `cpp/layer_out.h`) | display, window, GC, the picture of the window; a pixmap in the closure of each drawn item | open, banner, clean, draw, flush, focus, transparency, close | X server, lunasvg; the items of the shared map own the pixmaps |
| Emoji renderer (`cpp/emoji_renderer`) | font faces and the size set on each, a cache by symbol and size | `renderToPng`, `computeWidth` | SVG builder |
| Managed X ids (`cpp/common/managed_id.hpp`, `opaque_ptr.h`) | an id and its deleter | move, release, destructor | X11 output, and whoever destroys an item |
| Sender (`edmcoverlay.py`, `persistent_socket.py`) | queue, worker thread, socket | `send_message`, `send_shape`, `send_command`, worker, reconnect, close | TCP |
| Manager (`overlay_manager.py`) | the process and its lock | `ensure_started`, `stop`, `is_alive`, port probe | the process |
| EDMC hooks (`load.py`) | manager, intro, hide button | start, stop, journal entry, preferences, hide and show | manager, sender |
| Configuration (`_config_vars.py`) | font sizes and geometry, whether a reload is asked for | trace, load, save, `getFontSize` | sender, hooks; the binary gets the geometry once, on its command line |

### What is hard here

* *Two threads and one map.* The network thread decides `already_rendered` from
  what is in the map, the main thread draws from that flag 100 ms later. In
  between items are replaced, renamed, erased as duplicates, expire, or the
  window is hidden.
* *Commands are items.* `exit`, `overlay_on` and `overlay_off` live in the map
  until a frame executes them, in the order of string keys, and take part in the
  search for duplicates.
* *Joins under a lock.* The exit command and the signal handler join a thread
  that takes the mutex the joining thread may hold.
* *A byte stream.* Reads end anywhere and run past the `#`.
* *Undefined behaviour.* `++iter` past the end in `removeRenamedDuplicates`.
* *A process that is started, probed, stopped and restarted* by the hooks on EDMC's
  main thread and by every sender's thread, under one lock, while Tk answers other
  threads only from its main loop.
* *Settings and buttons that know nothing of each other's timing.* A binary has the
  settings of its launch, senders launch it too, and each click travels on a connection
  of its own.
* *Connections that outlive the binary*, are made by two threads, and are retried.
* *One closure per item*, which refers to its item by address and owns a pixmap of the X
  server. The main thread makes it, the network thread destroys it.
* *Font faces shared by everything*: drawing and measuring set sizes on the same faces, and
  the cache outlives each build.
* *Text as bytes.* Symbols of one to four bytes, spans as offsets, lines, tabs, symbols no
  font can draw, and coordinates as `int` and `unsigned int`.

What makes the components correct: the window shows the map (no stale, no missing
picture, nothing while hidden); no item is lost but by expiry or replacement; every
command is served, the last toggle wins; the binary stops when told and no thread
outlives what it uses; bodies are processed as they were sent; one plugin's errors do
not touch the others; the manager never leaves two binaries or none; every symbol of a text reaches a renderer once, at
its place, in the picture that was asked for; every X resource is freed once, before the display. PROJECT.json
lists the single hazards at their lines.

## 2. Modules

| Module | What it is |
|---|---|
| `DrawStore` | the map, the payload in work, both threads around it, the frame, the window |
| `MCDrawStore` | payloads, keys and contents for TLC |
| `DrawStoreProofs` | its theorems |
| `Shutdown`, `MCShutdown` | threads, stop flag, mutex, signal handler |
| `ShutdownProofs` | its theorems |
| `MessageChannel` | the promise of a connection, without bytes |
| `Framing`, `MCFraming` | one `TcpSession` on bytes, shown to implement `MessageChannel` |
| `FramingProofs` | its theorems, and that its steps are steps of `MessageChannel` |
| `Manager`, `MCManager` | the process, its lock, EDMC's hooks and the senders that start it |
| `ManagerProofs` | its theorems |
| `PluginHost`, `MCPluginHost` | settings and buttons around the manager: EXTENDS `Manager`, every step of which is a step here |
| `PluginHostProofs` | its theorems, and that it implements `Manager` |
| `Sender`, `MCSender` | one plugin's queue, worker and `PersistentSocket` |
| `SenderProofs` | its theorems |
| `Glyphs` | the emoji renderer: fonts, faces, sizes, cache, scaling, measuring |
| `SvgBuilder`, `MCSvgBuilder` | `BuildSvgTask`: text by lines, spans and symbols, vectors and markers; EXTENDS `Glyphs` and calls it |
| `SvgBuilderProofs` | theorems of both |
| `Pictures`, `MCPictures` | what the overlay holds at the X server, and the closures and map nodes that own it |
| `PicturesProofs` | its theorems |

Three views of the same item meet in the binary. `DrawStore` has the whole life of the map, with a
picture as one value; `SvgBuilder` has what happens between `ParseItem` and the map, with
one item at a time; `Pictures` has what `FrameRedraw` does to the window, call by call, and
leaves the decisions of `DrawStore` (which twin goes, which item expires) open. `Shutdown`
has the signals that come inside of a frame.

### DrawStore

State: `allDraws` (the map), `incoming` (the local `incoming_draws`), `todo` (the elements
not yet parsed), `iter` (the iterator of `removeRenamedDuplicates`), the program counters
of both threads, the mutex, the stop flag, the variables of the main loop, and `screen`,
the pictures on the window. `unframed` and `lastToggle` are history.

Two abstractions carry the module. A *content* stands for all that
`isEqualStoredData` compares (`drawables.h:165-173`), so equality of contents is that
function; the command is not part of it, as in the code. A *key* is a natural
number in the order in which the map keeps the strings; the sequence `AutoKeys`
holds the keys of anonymous messages in the order the counter makes them, which
need not ascend ("AUTOID:10" < "AUTOID:9").

| Action | Code |
|---|---|
| `Receive`, `ParseItem`, `ParseFails`, `DropPayload` | `readBody` to `process_payload`, `parseJsonString`, its catch, the early returns |
| `BuildThrows` | `BuildSvgTask` throws outside of any try: `std::terminate` |
| `GoMerge`, `Merge` | the stop check, the lock, `merge` and the anti-flickering loop |
| `DedupAdvance`, `DedupEraseHere`, `DedupEraseDup` | an iteration of `removeRenamedDuplicates` |
| `Publish` | `std::swap` and unlock |
| `Wake`, `WakeAndCheck`, `LoseTransparency` | sleep, focus check, loss of the compositor |
| `FrameRedraw`, `FrameSkip`, `FrameHide`, `FrameExit` | the lambda in `accessContext`: item loop, commands, expiry, then draw, skip, hide, or exit |
| `Joined` | `reset()` returns |

The frame is one step because it runs under the mutex and nothing else in the model
reads what it writes half-way; the merge is cut into steps because its iterator is
the hazard. When `++iter` has reached `end()` the code is undefined: the model lets
the process die, or go on at one of the last two elements, which is where the
node after the header of libstdc++'s tree leads.

### Shutdown

The main thread from start-up to `return`, with the `catch(...)` of the drawing loop
(`DrawingThrows`) and the moment between the start of the runner and the assignment of its handle (`Assign`: a
signal that arrives before is lost), the signal handler (it suspends the main
thread and runs `reset()` on it), the runner (bind, poll of the flag, `stop()`, join) and
the io_context thread (accept, disconnect, payload, check, lock, merge). `handle` is
`serverAcceptThread`; `Reset` is the `shared_ptr`'s: null first, then flag, then join.

### MessageChannel and Framing

`MessageChannel` says: bodies come out in the order sent, once each, a dropped
connection loses a tail, and a plugin that broke the protocol gets no promise for
what follows. `Framing` has the bytes: client frames (`edmcoverlay.py:62-63`), reads of any
size, `stoul` with its ignored junk, `transfer_exactly`, errors. The refinement maps
`open` to `reading # "closed"`.

### Manager

State: `process` (`_process`, as the number of a launch), `holder` of `_process_lock`,
the stage each thread is at (`at`), the calls the running hook still has to make
(`plan`), what has become of every binary launched (`binary`), and what EDMC itself
is doing (`edmc`).

| Action | Code |
|---|---|
| `GameStarts`, `GameEnds`, `PrefsChanged`, `PluginStop` | the hooks of `load.py:148-175` begin; their calls of the manager follow as steps |
| `IsAlive` | `is_alive` and what the hooks make of it |
| `AlreadyRunning`, `BeginStart`, `Launch`, `LaunchFails`, `WaitedForPort` | `ensure_started` up to the lock, to `cmd_factory` and `Popen`, to its exception, and to the end of `_wait_for_port` |
| `StopIdle`, `Terminate`, `StopEnds`, `StopTimesOut` | `stop` |
| `SenderCalls` | `PersistentSocket.connect` on a sender's thread |
| `Bind`, `BindFails`, `Die` | what the binary does meanwhile |
| `EnterMainLoop` | EDMC, after it has loaded its plugins |

`TkAnswers` is the part that is easily overlooked. `cmd_factory` reads Tk variables
(`load.py:46-54`); from a thread other than Tk's own such a read is handed to the main
loop, and the thread waits. The module takes from Tk that it is answered while the
main loop is free, not while the main thread is in a hook, that it raises before the
main loop runs, and from EDMC that `plugin_stop` is called while the window is closed.
After SIGTERM a binary may hang (that is `shutdown_stuck`), and a signal in the first
moments may have no effect; `stop` then ends with `TimeoutExpired`.

### PluginHost

State, beside Manager's: `settings` (the geometry in the Tk variables, as the number of its last change),
`reload` (`__binaryReloadRequired`), `cmdline` (what the newest binary was launched with), `button`
(`__iHideButDoNotStopOverlay`), `clicks` (the commands under way), `hidden` (the binary's
`commandHideLayer`), and two things about the past: `announced`, that the post-start callback has
followed the start of this binary, and `crossed`, that a click was lost, overtaken or under way at a start.

| Action | Code |
|---|---|
| `Edit` | the dialog writes into Tk's variables; the trace raises the flag (`_config_vars.py:57-80`) |
| `SaveAndRestart` | `saveToSettings` and the rest of `prefs_changed` |
| `LaunchWithSettings` | Manager's `Launch`, with `__build_cmd` |
| `Click` | a button: `Overlay().send_command(...)`, a sender of its own |
| `Execute`, `Lose` | the command is executed by a frame; or its attempts are used up |
| `Announce` | the hook's start ends with an open port: `__binary_started` |
| `Elsewhere` | every other step of `Manager` |

Each disjunct of Manager's `Next` is in exactly one of these, which is what
`HostRefinesManager` proves. Commands may arrive in any order, because each has a
connection of its own; within one connection order is `Sender`'s matter.

### Sender

State: `queue`, the worker's message (`hand`), the two loops' counters (`attempt`, `tries`),
`sock`, all connections with what is on their wire (`conns`), and the binary as seen from
here (`up`, `received`). A message is its number in the queue. `Threads` are the worker and a thread
of the plugin that calls `Overlay.connect()`: the same steps (`Ensure`, `Loop`, `Create`,
`CreateFails`) with the same `_sock` and no lock. A connection whose binary is gone is
`half` (closed by the peer, not tried since: `sendall` succeeds once) or `reset`.

`Put` stands for all of `send_message`, `send_shape`, `send_svg`, `send_raw` and `send_command`; `Take`,
`TakeShutdown` for the worker's loop; `Test`, `SendAll`, `SendIntoDead`, `SendFails`,
`SendTimesOut`, `SendRaises`, `Close` for an attempt of `send()`. The two statements of
`close()` that read and clear `_sock` are one step.

### Glyphs and SvgBuilder

State of `Glyphs`: the files `installed` now, the loaded `faces` with the size last set on
each, the cache `emojies`, and the call in work (`request`, `phase`, `try`, `answer`). What a font
draws at a size (`Raster`) and how far it advances (`Advance`) are constants, as FreeType is external.

State of `SvgBuilder`: the locals of the nested loops of a build. `pc` says in which loop it is,
`corner`/`extent` are the bounding box, `at`/`first`/`second` the walk along the points, `rest`, `line`,
`cursor` the text converter, `next`, `span`, `spans` the splitting; `lines` and `tags` are what is written
to the stream. `written` and `begun` are history. All variables but those of `Glyphs` are new in
each build.

| Action | Code |
|---|---|
| `Start`, `AsIs`, `Close` | `BuildSvgTask` is called, returns its argument, or returns the SVG |
| `Box`, `BadPoint` | the bounding box (`svgbuilder.cpp:301-336`), and `get<int>()` of something else |
| `Rect`, `TextItem` | the simple cases |
| `LastPoint`, `Marker`, `FirstPoint`, `LineTo` | `ForEachVectorPointsPair` and `drawMarker` |
| `ReadLine`, `LastLine`, `LineEnd` | `getline` and the loop around it |
| `Split`, `SplitEnd` | `makeSpans`, symbol by symbol |
| `TextTag` | `makeTextTag`, with `computeWidth` (`Measure`) |
| `Custom`, `Render`, `Image` | the emoji of a span: `rewindTo`, `renderToPng`, the image and the next symbol |
| `Ask`, `Hit`, `Miss`, `NextFont`, `OtherMode`, `Draw`, `Abort`, `NoResult`, `Return` | `renderToPng`: cache, loop over the fonts, results |
| `InstallFont` | a font's file appears while the overlay runs |

Text is bytes, because offsets into them are the hazard; widths and places are integers of the
width of the code's (`Wrap`, `AsInt`), because they overflow. The XML around them, colours, escaping, Base64
and kerning are left out, and floats are exact.

### Pictures

State: `heap` (the items by address, each with the address its closure refers to), `held` (the `TManagedId`
of each closure and of each local on the way), `server` (what X keeps for each id), `display`, `gc`,
`window` (what has been painted since it was cleaned: which picture, at whose place), the two
maps as functions to addresses, the two threads' program counters, the item in work, the mutex and the stop flag.

| Action | Code |
|---|---|
| `OpenDisplay`, `Unsuitable`, `CreateWindow`, `ShowVersion`, `StartServer` | the constructor of `XPrivateAccess`, the banner, the start of the server |
| `NoPicture`, `ReadsNull`, `CreatePixmap`, `NoImage`, `PutImage`, `LeaveRender`, `Install`, `LeaveMake` | `drawAsSvg` for an item without a closure: every exit, every move of the pixmap's owner |
| `UseCached`, `CreateSource`, `CreateTarget`, `TargetIsMade`, `Composite`, `FreeSource` | the closure runs |
| `BeginFrame`, `Erase`, `SkipFrame`, `Hide`, `Redraw`, `DrawItem`, `ItemDone`, `EndFrame` | the frame in `accessContext` |
| `Stop`, `ExitCommand`, `FrameThrows`, `Joined`, `FinalCleanup`, `DestroyStore`, `FreeWindow`, `CloseDisplay` | the ways out of the loop, and the destructors after it, in their order |
| `AddItem`, `DropPayload`, `GoMerge`, `Merge`, `Clear`, `EraseTwin`, `Publish`, `NetworkEnds` | the network thread |

A `TManagedId` is an id and whether its deleter is still there: after the defaulted move the
id stays in the source and the `std::function` is empty (`MovedFrom`). The allocator may give
an address again at once.

## 3. Runs

| Run | Result | Asks |
|---|---|---|
| `store_paced` | passes | do window and map agree when plugins wait for a frame between messages and keep one picture per name? |
| `store_burst` | passes | what holds whatever is sent and however fast? |
| `store_repeat` | **violated** | is an item that is sent twice before a frame shown? |
| `shutdown` | passes | threads gone, one late merge, stops outside a frame |
| `shutdown_stuck` | **violated** | does a stop always finish? |
| `framing` | passes | is the byte stream cut into what was sent? |
| `manager` | passes | (on `PluginHost`) one binary, its own port, none left behind, the settings of now, a button that is right, do hooks end? |
| `manager_stuck` | **violated** | do hooks end when a sender asks Tk meanwhile? |
| `sender` | passes | twice, in order, served, delivered but into a left-over socket? |
| `svg` | passes | does every symbol reach its renderer and its place, is a vector one line inside its box, does the cache answer with what was asked for? |
| `svg_broken` | **violated** | does every build return? |
| `pictures` | passes | one owner per X resource, each closure its item, each frame the right pictures, the display last? |

The four violated runs are disagreements of the code with its own comments and
documentation; PROJECT.json quotes both under `findings`:

1. *A repeated item is never drawn* (`tcp_session.hpp:144`). The second message finds
   the first in the map, equal and undrawn, and is marked as rendered.
2. *One bad item ends the binary* (`tcp_session.hpp:117`). A coordinate that is not a number
   (`svgbuilder.cpp:312`) throws outside of any try; an emoji of a font size that is a multiple of
   256 is scaled to a height of nothing, and libpng aborts.
3. *Shutdown deadlock* (`main.cpp:136`, `main.cpp:38`): the main thread joins with the
   mutex in hand while the network thread, past `canContinue()`, waits for it.
4. *EDMC hangs* (`overlay_manager.py:71`): a sender that restarts the binary waits for Tk
   with `_process_lock` in hand, and the main thread waits for that lock in a hook.

More shows when a condition of a passing property is dropped:

* `ExitIsServed` without `Paced`: an `exit` that is followed by another pure command before
  a frame is erased as its duplicate (`tcp_session.hpp:160`; commands have no stored data, so
  they are all equal). The obvious repair, to compare the command too, breaks
  `LastToggleWins`: then `overlay_on` and `overlay_off` both stay in the map and run in the
  order of their AUTOID strings (this is the mutant `Twins_Command`).
* `ScreenMatchesItems` with pictures that move between names: `removeRenamedDuplicates` hands
  `already_rendered` to the item that stays (`tcp_session.hpp:170`) and the former picture
  of that name stays on the window.
* `DeliveredUnlessStale` without its exception: the first message after a restart goes into the
  socket of the binary before, and `send()` returns true (`persistent_socket.py:48`).
* `InOrder` with one timeout of `sendall`, or with one call of `Overlay.connect()`: two connections
  then hold messages at the same time, and the binary reads them in either order.

* `RunsWithSettings` without `stopFailed`: `saveToSettings` has taken the flag down, `stop()` leaves
  `prefs_changed` with `TimeoutExpired`, and the old binary goes on with the old
  settings; the next visit of the dialog does not restart it either.
* `ButtonIsRight` without `announced`: a sender restarts the binary (`persistent_socket.py:28`), for which there is no
  callback; the button says hidden and the new binary shows. Without `crossed`: two clicks overtake each
  other, or one arrives at a binary started since, and the button is wrong until the next click.

What the reader of `svg` and `pictures` should know, though no property is broken: the tags of
a text that begins left of the window are printed at 2^32 - n (`svgbuilder.cpp:99`), so
`TagsFollow` holds modulo the width of `unsigned int`; a point at `INT_MAX` is taken for one that
is not set (`drawables.h:467`), which `LinesJoinNeighbours` excludes; a cache entry
made for a pixel mode that is not known stays empty for ever (`emoji_renderer.cpp:383`), which
`CacheIsRight` allows for exactly that case; a picture that lunasvg cannot read is a null pointer
(`xoverlayoutput.cpp:303`), `ReadsNull`, and ends the process.

### Assumptions of the runs

* `Paced` (of `store_paced`) is an assumption about
  plugins, not about the code: one payload per frame. `store_burst` and `store_repeat` drop it. The
  two passing runs split the properties along it on purpose: those of `store_paced` are the
  ones that finding 1, and the lost `exit` below it, break without it.
* `StablePayloads` keeps one picture per name; an anonymous sender shares the picture of a
  named one, so renaming does happen.
* *Bounds.* Two names and two AUTOID keys (the second sorts before the first, so that
  counter order and map order differ), two pictures, payloads of up to three
  elements. Three keys that hold one picture are reachable, and that is what a
  duplicate search can get wrong; a further name adds only symmetric cases.
  `MaxNow` bounds the creation of items; with `ClockBound` the clock
  then runs on until all could have expired, so liveness does not end at the bound.
  `CheckPeriod` is 2 and `AnonymousTtl` 1: focus checks and expiry fall between,
  before and after frames. `MaxSessions` is 2: `Shutdown` tells apart none, one and
  more. In `Framing` three messages with bodies that look like headers, an empty and
  a two-digit one, cut at every byte. In `Manager` two senders, so that two of them and
  a hook meet at the lock, and four calls of `ensure_started`, enough for a start, a crash, a
  restart and a late one; `PluginHost` adds one change of the settings and two clicks, enough for a
  restart with new settings and for a click that overtakes another. `manager_stuck` has the manager alone. In `Sender` two messages and two deaths of the binary (one to
  leave a stale socket behind, one more during the retries), one timeout, one call of the
  plugin; three connections and all four attempts are reached.
  In `SvgBuilder` fifteen items that between them have empty, many-line, tabbed and mixed texts with symbols
  of one to four bytes, negative and extreme coordinates, vectors of none, one and several points, all
  markers, and the two broken kinds; builds follow one another without a bound, so the cache and
  the faces reach every state. Five fonts: a colour font in two strikes and an outline font that may both appear
  late, a colour font without strikes, one of an unknown pixel mode, and one for text only. `MaxInt` is 1023
  and `UCharValues` 64 instead of 2^31-1 and 256: both limits are met by coordinates and sizes
  of the items. In `Pictures` two names, four contents (two that draw, one that is blank, one that cannot
  be read), four addresses (two items in each map) and five ids (items of a payload
  have no pixmap yet, so there are two pixmaps at most, and the two views): neither ever runs out, so
  `AddrLeft` and `IdLeft` never hide a step.
* Several plugins are the choice of the next payload: one io_context thread
  serves all connections and runs one handler at a time.
* `CHECK_DEADLOCK FALSE`: every model stops when the program has ended or died (in `SvgBuilder`
  when a build throws), and the bounded ones when the bound is reached.
* Each module's ASSUMEs are evaluated by its run. `MCDrawStore` adds two, `StableAssumption` and `MixedAssumption`: the
  payloads of `store_paced` and `store_burst` are of the kind the theorems about them ask for. `RequestAssumption` of
  `SvgBuilder` says that `Symbols` and `Sizes` are those of the items, `RasterAssumption` and `AdvanceAssumption` of `Glyphs` what
  kind of values FreeType returns.
* The type invariants of all components are proved for all constants (section 4); of the runs only `svg` repeats one.

### Fairness

Weak fairness of each thread, as the operating system schedules them: `Network`,
the main loop, the runner, the io_context thread, the signal handler once begun. Receiving, signals, the loss
of the compositor, connects and disconnects are not owed. A mutex is owed to a
thread only while it stays free (weak, not strong fairness). In `Framing`, the
session reads what has arrived. In `Manager` a thread inside a call is owed its next step, because all
waits there are bounded by timeouts, except the one for Tk; a sender that waits for the lock
is owed it only while it stays free. In `Sender` the worker, a call of `connect()` and the reading
of a binary that is up are owed; that a binary comes up, or stays, is not. In `SvgBuilder` the steps of a build
are: it is one function call without a wait in it. `Pictures` has safety properties only and no fairness.

## 4. Proofs

`DrawStoreProofs`, from `StoreAssumption`:

* `Invariance`: the inductive invariant `Inv == TypeOK /\ NetworkInv`. `TypeOK` alone is
  not inductive: that the parser finds an AUTOID key, that `Merge` has a first
  element and that `iter` is an element of the map needs `NetworkInv`. The central
  lemma is `LeastInSet` (from the well-foundedness of `<` on Nat: the next
  element of a map exists), then one lemma per action.
* `TypeCorrect`, and `HiddenIsBlank` (`HiddenScreenIsBlank` is inductive by itself).
* `ItemsSurvive`: an action property. `KeptItems` and `ErasureOfTwin` show that erasing one of two
  twins leaves a witness for every item; `ItemKeepsItself` covers the rest.
* `RenderedIsShown`, when `Paced`. Drawing and marking are 100 ms and two threads apart, so
  `RenderedIsOnScreen` needs `ShownInv`: while a payload is in work no other is waiting for its frame,
  and until that frame everything in the map has been drawn; so the item that `Merge` finds rendered is on the window.
* `ScreenIsExact`, when `Paced`, `NamesKeepPictures` (a name has one picture) and `AutoKeysAreFresh` (the counter's keys
  differ, and are nobody's name). The other half, no picture too many, is `ScreenInv`: what is on the window is in the map,
  or among `incoming` while the mutex is held; the banner alone is excepted. It rests on `KeyInv`, `TodoInv` and
  `PictureInv`: whatever item has a name has the picture of that name, so replacing and renaming lose no picture.
* `StoreHasNoTwins`, when `OneItemEach`. `TwinInv`: with no twins before and one new item there is one pair at most, and the
  iterator has not passed the first of the two. Payloads of several items need not keep it: the search goes on
  behind the element it has erased and can miss a third.
* `ToggleIsServed`, when `TogglesArePlain` and `AutoKeysAreFresh`, but without `Paced`. `ToggleInv` counts the toggles that
  are waiting: one in the map, one in the payload, two during the search, the older of which goes; with none in the map the last one
  received has been executed. `TogglesArePlain` asks for one toggle per message for a reason: with one in the map and several in a payload
  the search may skip one of the three (`tcp_session.hpp:181`), and a frame can execute an older toggle last.

`ShutdownProofs`, from `SessionsAssumption`: `Invariance` of
`TypeOK /\ StageInv /\ MutexInv /\ LateInv`, where `StageInv` relates the four
threads' stages and the stop flag, `MutexInv` says who holds the mutex and
`LateInv` that a thread that passed its check before the flag went up is the only
one that can merge after it. From it `NoThreadLeft` and `StopIsFast`.

`FramingProofs`, from `FramingAssumption`, for any bodies and noise: `Invariance` of
`Inv == TypeOK /\ KeptInv /\ OnlyBreakersAreClosed`, where `KeptInv` says that a session is `OnTrack` until it is
`Astray` (its client broke the protocol and all messages before that are processed). On track, `Stream == buffer \o net`
is the frames of the messages not yet processed: `Frames(stream, sent, k, at)` has a position `at[i]` in the
stream for the end of each, negative by what is already taken. `Begins` ties the first
position to what the session reads, `Ends` the last to the end of the stream (a dropped connection
may cut it short, noise make it longer). `FramesSent`, `FramesKept` and `FramesTaken` say what writing, cutting
and reading do to the positions, and `HeaderIsNext` and `BodyIsNext` that the first `#` and the next `size` bytes are then those
of the next message, whatever a body holds. The number that digits stand for is a recursive
function, so its recursion is proved by hand, from least counterexamples (`LeastOfSet`, `Steps`, `NumberOfDigits`).
The theorems are `TypeCorrect`, `NobodyElseIsClosed` and `SessionIsChannel`, the refinement but for its fairness.

`ManagerProofs`, from `ManagerAssumption`, for any set of senders and any
number of calls: `Invariance` of `TypeOK /\ LockInv /\ NoOrphan /\ PortIsOurs /\ LeaveInv`.
`NoOrphan` is not inductive: that `Launch` finds no binary running needs `LockInv` (the thread
that starts holds the lock, and no process is known from there to `Popen`); `NoneLeftBehind` needs `LeaveInv`, which
says that Tk's silence keeps every late sender from launching. The theorems are
`TypeCorrect`, `OneBinary`, `PortIsFree` and `NothingStays`; `TkAnswers` is used only for the last.

`PluginHostProofs`: `HostSteps` takes every step of `HostNext` to a step of `Manager` or to none, so
`HostSpec` implements `Spec` and Manager's theorems hold for it (`HostKeepsPromises`).
`SettingsAreKnown` rests on `SettingsInv`: a binary with old settings that nobody is warned of is one that
`prefs_changed` is about to stop, at `is_alive` with `stop` and `ensure_started` still to come, or in `stop`. That
`is_alive` then answers yes, and that no start is under way meanwhile, is Manager's invariant.
`ButtonAgrees` rests on `ButtonInv`: the button is what the last click under way asks for, and without one what the binary shows;
`OneClickLess` says that serving the first of several clicks leaves the last.

`SenderProofs`, for any number of messages, deaths, connections and calls: `Invariance` of
`Inv == TypeOK /\ StageInv /\ QueueInv /\ SentInv /\ OnceInv /\ WireInv /\ OrderInv`. `AtMostOnce` is not
inductive: `QueueInv`, `SentInv` and `OnceInv` say that a message is in one place, queue, hand, one wire or received;
that a message leaves the hand in the step that writes it is why a retry never sends what was already written. `InOrder` needs `WireInv`: while nothing has timed out and no plugin connected beside the worker, at most
one connection has anything on its wire, because every other way to lose `_sock` leaves the old
connection dead; `OrderInv` then has received, wire, hand and queue ascending. The theorems are
`TypeCorrect`, `ReceivedOnce` and `ReceivedInOrder`.

`SvgBuilderProofs`, for any items, texts, fonts, sizes and any `MaxInt`, from `SvgBuilderAssumption`, `RequestAssumption`,
`GlyphsAssumption`, `RasterAssumption` and `AdvanceAssumption`. Several of its operators are recursive functions; the
prover takes from such a definition only that it is what a CHOOSE picks, so `RunExists` shows first that a function with that recursion
exists (by counting up, `UpTo`), and `SymbolsBy`, `FlattenRuns` and their like that the operator is then what its recursion says:

* The renderer: `BuilderIsGlyphStep` shows that a build changes the renderer through its functions only.
  `CacheIsRight` is not inductive: that `OtherMode` may write an empty entry over what is in the cache
  needs that no picture is cached for a request whose fonts are being tried (`RendererInv`). From it
  `CacheCorrect`, `AnswerCorrect`, and the action property `PicturesAreKept`. The point of the
  proof is `SizedFace`: a face gets its size before every use, so what others set on it does not matter.
* `SpansAreTiles`: `SpanInv` adds to `SpansTile` that the open span is not empty and of another class than the
  last closed one; `TileAppend` and `TileTail` say what the two ends of the list do to a tiling.
* `VectorIsPolyline`: `JoinInv` says what `first` and `second` are for every number of points done: not
  set, the first point, or the ends of the last line.
* `SpansHaveOneClass`: `SpansTile` is about offsets and says nothing of what is between them. `UniformInv` adds the set of the
  offsets of symbols, for closed spans and the open one; `SymbolsReached` takes it to what `SymbolsOf` reads of
  the span's bytes alone, for any bytes.
* `SymbolsAreWrittenOnce`: `Decodes(src, bounds, sofar)` says that `bounds` are the offsets at which the symbols of `src` begin and
  end, and that the bytes before such an offset show `sofar` of it. `Utf8Reads` (with one lemma for each number of bytes) says that
  what was encoded is decoded again, `TextReads` that the bytes of a text decode to what it is to show, tabs and newlines included,
  `LineOfText` that cutting at a newline leaves two texts that decode, `SpanShows` that a span does. `WriteInv` ties `written` to it:
  at each loop it is `sofar` of the offset the loop has come to, and the rest of the text shows the rest.
* `AskInvariance` and `ScalingStaysInside`: `TextInv` (the line and the rest are pieces of a text of the item) and
  `GlyphsTypeInv` (requests are for emoji of the items, a face has a height of its font) show that a bitmap that is scaled
  is one that FreeType returned, at a size that is asked for; the rest is division.
* `TypeInvariance` and `TypeCorrect`: `StateInv`, that every coordinate stays an `int` or an `unsigned int`, from
  lemmas on `Wrap` and `AsInt` and on the widths that are added up.
* `TagsFollowEachOther`: `FollowInv` is about the cursor too: at the start of the line or at most three behind
  the last tag; `WrapDifference` takes the distance of two wrapped numbers to the difference of the numbers.
* `ShapesStayInBox`: `BoxInv` says that `first`, `second` and all ends of lines are places of points; `CornersBound` that
  the corners are below and above all of them. `ShapesInBox` asks that an `int` can measure the box. Its `roomy` is for a single point, whose
  box is a quarter of the window wide: that the marker fits in needs a window of at least 36 pixels and no overflow at its edges.

`PicturesProofs`, for any keys, contents, addresses and ids, from `PicturesAssumption`: `Invariance` of
`Inv == TypeOK /\ NodeInv /\ StageInv /\ TodoInv /\ HolderInv /\ CapturesItself /\ OneOwner /\ PictureInv /\ WindowInv`.
`NodeInv`: a node is in one map at one key, and every item is in a map or is the banner, so that what is
destroyed is nobody else's. `StageInv`: which stages the two threads can be at together; a frame and a merge
exclude one another. `HolderInv`: which local owns a resource at which stage, so that a `Create` or a move
never overwrites one that is owned. `OneOwner` is preserved by three ways of changing owners, each a lemma: `CreateOwns`,
`MoveOwns`, `EndOwns`. `TodoInv`, `PictureInv` and `WindowInv`: the window shows exactly the items the frame is
through with. The theorems are `TypeCorrect`, `ResourcesHaveOneOwner`, `ClosuresCaptureTheirItem`,
`WindowShowsTheStore` and `DisplayClosesLast`.

Only model-checked: liveness (`ItemsGetShown`, `AnonymousLeaves`, `ExitIsServed`,
`StopsOutsideFrame`, `HookReturnsOrTk`, `QueueIsServed`, `DeliveredUnlessStale`, `EveryBuildEnds`), which
the prover does not do, and the fairness that `MessageChannel` promises. Every invariant and every action property
that a passing run checks is a theorem; some of `DrawStore` under the hypotheses named above, which the runs that check
them meet.

## 5. Not modelled

* Of X11: the attributes of the window, its properties, the colour map, flushing and its buffer, and the
  error handlers that end the process. The focus and the transparency are free inputs of `DrawStore`. An X11 error thrown
  into the frame (`main.cpp:235`) is `DrawingThrows`. The colours are resolved once,
  in the constructor, so looking one up does not fail in a frame.
* lunasvg and FreeType are external: what draws, and how, is a constant. That `BuildSvgTask` makes no SVG that lunasvg
  cannot read is therefore not shown.
* String helpers and colours: no control depends on them but `strcontains`, which is
  a free input.
* GUI, logging, build files, helper scripts.
* A length with a sign or of many digits (`tcp_session.hpp:79`): its session waits for
  ever, or `resize()` throws and ends the process as a point that throws does.
* A signal in the middle of a `reset()` or of the assignment of `serverAcceptThread`: in the models each is one step.
* The font sizes per plugin (`getFontSize`) and the dialog: they change what messages say, not
  what is done with them. The introductory messages of the post-start callback are ordinary ones.

## 6. Plan

Done: `DrawStore`, `Shutdown`, `MessageChannel`, `Framing`, `Manager`, `PluginHost`, `Sender`, `Glyphs`,
`SvgBuilder`, `Pictures` and the proofs above. What is left, in this order:

1. `StoreHasNoTwins` for payloads of several items, under the exact condition that the search does not skip one.
2. Pure operators over bounded inputs: `getFontSize` and its fallbacks, loading and saving of
   settings, the field processors of `parseJsonString`.
