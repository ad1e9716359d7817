# A verification project for device-tester

device-tester is a desktop program for talking to devices: it opens serial, TCP client, TCP server,
UDP and CoAP client connections (README.md:10-16), sends what the user types into a console, shows
what comes back, and lets Lua plugins do the same. This directory models its concurrent core in
TLA+, checks it with TLC on small instances, and proves the central results with TLAPS. Paths below
are relative to `src/`; `LC` is `libs/libcon/src`, `GL` is `libs/gui-libcon/src`.

## 1. The system

### Threads

* **GUI thread**: draws every window, runs the button handlers, and is the only caller of `send`,
  `connect`, `disconnect`, `start`, `stop`, `setOptions`. Requests of the CoAP client come from it and
  from the strand of a Lua plugin.
* **Ten worker threads** of `ManagerImpl` (LC/manager_impl.cpp:11-14) run one `io_context` for ever.
* **One strand per connection** (a server's clients share the server's). All completion handlers of
  a connection run on it, one at a time, interleaved with the GUI thread, which calls the same
  socket and the same `startWrite` *without* going through the strand. Of the four transports only
  Serial posts.

Almost every hazard of the program comes from this last point.

### Components

| component | state | operations | meets | hard because |
|---|---|---|---|---|
| RingBuffer (LC/ring_buffer.hpp) | container, unread count, mutex, two condition variables | `push_front`, `pop_back` | GUI thread pushes, both threads pop | notify after unlock, one wake-up per operation |
| Writer and the four `startWrite` (LC/writer.cpp, tcp_client.cpp, udp_connection.cpp, tcp_server.cpp, serial.cpp) | `tx_queue_`, `tx_current_`, `write_in_progress_`, `write_lock_`, `should_run_` | `send`, `doWrite`, `startWrite`, completion handler | RingBuffer, the operating system | the handler edits `tx_current_` without the lock; partial writes; failures |
| TcpClient (LC/tcp_client.cpp, GL/tcp_client_win.cpp) | socket, resolver, `should_run_` | `connect`, `disconnect`, `setOptions`, handlers | Writer, its window | attempts overlap on one socket; late results |
| TcpServer (LC/tcp_server.cpp, GL/tcp_server_win.cpp) | acceptor, set of clients, each with socket and `do_run_` | `start`, `stop`, `setOptions`, `sendToAll`, handlers | Writer per client, its window | stop and restart against queued handlers; a set without a lock |
| UdpConnection (LC/udp_connection.cpp, GL/udp_con_win.cpp) | socket, `should_receive_` | `setReceiving`, `setOptions`, handlers | Writer, its window | start and stop against a handler; a socket that is never closed |
| Serial (LC/serial.cpp, GL/serial_win.cpp) | port, `should_run_`, posted calls | `open`, `close`, `setOptions`, handlers | Writer, its window | posted calls against late completions; exceptions in handlers |
| CoapClient (LC/coap_client.cpp, GL/coap_client_win.cpp) | session, tracked tokens, large data, two mutexes | `sendRequest`, `setOptions`, `doIO`, `messageCallback` | libcoap, its window, Lua plugins | writes under a shared lock; libcoap calls back under another; a session replaced in use |
| ManagerImpl | `run_`, work guard, threads | construction, destruction | all connections | joins threads that still have work |
| windows and consoles (GL, libs/gui-common) | registered windows, consoles and slots per connection | open, trash, check and uncheck a console, draw, send | receive signals, state signals | bare pointers across the GUI thread, the strands and the order of destruction |
| Lua plugin (plugins/lua_base) and its loading (libs/gui-plugins, libs/libplg) | Lua state, `state_mtx_`, strand, actions, plot buffers | constructor, `drawGui`, `onReceive`, `put` | all connections | the state is entered from two threads, and loaded without the mutex |
| application shell and Vulkan back end (app/src) | `run_render_loop_`, swap chain, fences, semaphores, the members of `Application` | `setup`, `renderLoop`, destruction | GPU, display, every window | frames given up half way; images and semaphores reused; set-up that fails |
| icon and fonts | tables | - | - | - |

What makes each correct: the queue loses, duplicates and reorders nothing and never leaves everyone
asleep; the send path transmits what it accepted, once and in order; a connection that says it is
connected, running, receiving or open is being served; a connection that was stopped stays so; what
the GUI thread, a handler or the GPU still holds is not destroyed or reused; the Lua state belongs to
one thread at a time; and nothing waits for ever that the environment keeps serving. Section 8 and
`PROJECT.json` list the hazards line by line.

## 2. Modules

| module | what it is |
|---|---|
| `BoundedFifo` | abstract: a bounded first-in first-out queue with waiting callers |
| `RingBuffer` | LC/ring_buffer.hpp with mutex sections, condition variables and spurious wake-ups |
| `RingBufferProofs` | theorems about `RingBuffer` |
| `OutStream` | abstract: bytes are accepted, and leave once and in order |
| `Writer` | the send path; the constant `Transports` says whose copies of the code are checked |
| `WriterProofs` | theorems about `Writer` |
| `TcpClient`, `TcpServer`, `UdpConnection`, `Serial` | the life of a connection under the buttons of its window |
| `CoapClient` | requests, token list, bodies, session and polling of the CoAP client |
| `Windows` | a connection window with its consoles, slots and connection, from the menu to the trash can or the end of `main()` |
| `LuaPlugin` | a plugin: loading, drawing, callbacks and requests, and the scrolling buffer of a plot |
| `Frames` | set-up, main loop and end of the GUI thread, with the GPU and the display |
| `ConnectionProofs` | theorems about `TcpClient`, which it extends, and about `UdpConnection` and `Serial`, which it instantiates |
| `TcpServerProofs`, `CoapClientProofs`, `WindowsProofs`, `LuaPluginProofs`, `FramesProofs` | theorems about these modules |
| `MC*` | instances for TLC; each `.cfg` is one run |

`RingBuffer` implements `BoundedFifo`; on the strength of that, `Writer` uses the queue through
atomic pushes and pops. `Writer` implements `OutStream`. The four connection modules leave the bytes
out and model what decides whether `Writer` gets a working socket and whether anything is received;
`should_run_` is the variable the two layers share (`Stop` and `Open` in `Writer` are what
`disconnect` and `doOpen` do to it). `Windows` sees a connection as one operation (a resolve, a dial or a
receive) and the handlers of operations that failed or were aborted, and adds who owns it: `Close` is
what `disconnect()` and `doClose()` do to the operation, `DestroyMembers` what the end of the socket
does. `TcpServer` holds the consoles of a server's clients itself, for they hang on its set.

### How state and actions correspond to the code

* **RingBuffer.** `container`, `unread` are `m_container`, `m_unread`. `pc[t]` says where a thread is:
  outside, before the critical section, asleep, or about to notify. A section under `m_mutex` is one
  action (`PushBlock`/`PushStore`, `PopBlock`/`PopTake`); `notify_one` comes after it, in an action of
  its own (`PushSignal`, `PopSignal`), because the code has unlocked by then.
* **Writer.** `pc["gui"]`, `pc["strand"]` walk through `startWrite` test by test: `Check` (the flag,
  before the lock), `Acquire`, `Inspect`, `Pop`, `Mark`, `Launch`, `Unlock`. The completion handler is
  `Advance`, `HandlerPop`, `HandlerAssign`, `HandlerClear`, `Release`. A buffer is an interval of
  positions in the stream of accepted bytes, which is all the properties need to see loss,
  duplication and reordering. The handler assigns `tx_current_` without the lock, and a library may empty
  the vector first (MSVC and libc++ do): `HandlerPop` leaves `tx_current` as it was or empty, and
  `Inspect` may read its size before `HandlerAssign` fills it. `torn` is a history variable that guards
  nothing: `startWrite` has found `tx_current_` empty in the middle of its assignment.
* **TcpClient.** Each `connect()` starts a chain of operations with one outstanding: an *attempt*.
  Closing the socket aborts what waits on it, but no resolve, and no operation already complete.
  `todo` holds the calls a button has yet to make, so the strand interleaves with them. Dialling
  follows `asio::async_connect`: the socket is closed, opened and dialled per endpoint, and a socket
  found closed at the end counts as an abort.
* **TcpServer.** `strand` walks through the accept handler (`Insert`, `StartClient`, `StartRead`,
  `Rearm`) and through `TcpServerManager::stop` (`StopClient`, `Erase`); `todo` through `start` and
  `stop`. The loop of `stopAll` is `StopAll`, `SweepFlag`, `SweepClose`, `SweepEnd`, `Clear`: what is
  inserted meanwhile may or may not be met. `ToggleConsole` is the box of a client in the window,
  `TellWindow` the signal that a client is lost. `overtaken` and `orphans` are history variables that
  guard nothing. `Start` on a closed server and `Apply` on a running one
  are the same calls and one action.
* **UdpConnection.** `todo` walks through `disconnect` and `startReceive`. `write` is the send path
  reduced to free, busy or stuck.
* **Serial.** `posted` is what the strand was handed, in order; completed reads arrive through the
  worker threads and are handled at any time between. `alive` turns false when an exception leaves
  `doOpen` and so the worker thread.
* **CoapClient.** `pc["gui"]`, `pc["lua"]` walk through `sendRequest` (`LockRequest`, `NewPdu`,
  `TrackStore`, `TrackCount`, `StoreBody`, `AddData`, `Send`), `pc["gui"]` through `createSession`
  (`SetOptions`, `ReplaceSession`), `pc["io"]` through `doIO` and the callback (`CheckToken`,
  `Deliver`, `Flush`, `FlushCount`). `shared` is who holds `coap_mtx_` shared. `tracked_tokens` and
  `count` are kept apart, as in the code, so that the array may be longer than the list. libcoap is
  external: what it has to do for its callers is `Receive` (a response, a block, a reset, any of them
  twice) and `GiveUp`. `raced` and `kept` are history variables that guard nothing: whether the list
  was used by two threads at a time, one of them writing, and which requests a group answered, whose
  tokens the code keeps. `untracked` is a third: the requests whose token found no memory
  (`TrackFails`), which are sent all the same.
* **Windows.** `raw_win_` and `registered` (`WindowManager::windows_`) hold a console, and so does an
  emission that has locked it (`locked`), as `track_foreign` does. `slots` is what is connected to the
  signal; nothing disconnects a slot, and one whose console is gone is skipped. The emission is
  `HandleRead`, then per slot `NextSlot`, `CallSlot` (reads `raw_win_` through the bare `this`), `AddData`.
  `op` is the operation of the connection, from a resolve to a running receive handler; `aborted` counts
  the failed or aborted operations whose handler is queued. `HandleAborted` closes the socket, whatever
  has been opened since. A TCP client (`sleeps`) is destroyed in two steps: `Release` closes its
  socket (`closing`), and `Wake` destroys its members after the 250 ms in which the strand may run the
  aborted handler. The GUI thread does nothing else in between. Other connections are destroyed at once.
  `gui` runs through the members of `Application` in the reverse of their declaration once the loop is
  left (`After`). `harm` says which use of what is gone a step has made, and nothing is modelled after it.
  `hasty` and `watching` are history variables that guard nothing: what has been done that provokes such a
  use, and which console was open all through an emission.
* **LuaPlugin.** `pc` is the GUI thread (`script`, `connections`, `setup`, then frames that `draw`),
  `strand` the handler that `guard_.strand` runs, `posted` its queue, `mutex` the `state_mtx_`. While
  a thread is in Lua the script may call what the bindings offer: `AddPoint`, `Erase`, `Put`.
  `AddPoint` is two steps, so that two threads in the state would show. An error of the script is an
  exception that ends the program. `latest` and `early` are history variables: the points to be shown,
  and whether `setup()` has sent a request. `PressRequest` is the buttons of the window of its CoAP
  client, whose responses call the plugin too.
* **Frames.** `pc` walks through `setup()` and `renderLoop()`. `queue` is what the GPU has yet to execute,
  `fence`, `acquired`, `rendered` its fences and semaphores, `owed` the images the display has handed out
  and not yet released. Acquire and present have all the results the code tells apart. `DeviceLost` is
  `check_vk_result`, which ends the program also when a resize fails.

## 3. Runs

Each component has one run with its type invariant, its safety properties, and its liveness under the
fairness below.

| run | configuration | shows |
|---|---|---|
| `ring_buffer` | 3 producers, 2 consumers, 2 items, 2 places | never all asleep (`NoMutualSleep`); implements `BoundedFifo`; a sleeping thread is served if the other side keeps coming |
| `writer` | all transports, queue of 2, 8 bytes, messages of 1 or 2, partial writes, failures, stops and reopens | no blocking pop and no forgotten message; until `startWrite` meets a move assignment half done, exclusion without the lock, and `OutStream` is implemented; a message pushed on an idle path goes out |
| `tcp_client` | 3 attempts, 2 endpoints | a running client is never deaf, a closed socket is opened only by the answer to a resolve, once, attempts settle |
| `tcp_server` | 2 starts, 2 clients | no deaf client, the accept loop survives, a stop is thorough unless it meets a running accept handler, lost clients leave, a console has its client unless `stopAll` or a late box takes it |
| `udp` | no bounds | what says it receives does; a stopped connection starts no receive but the one of a handler already behind its test |
| `serial` | 3 things in the strand's hand | an open port is served; disconnect closes |
| `coap_client` | 2 requests, 3 sessions | a request keeps its session, responses find their request and end it once, requests return, polling goes on |
| `windows` | 3 consoles, 3 receptions, 2 aborted handlers queued, with or without a plugin, a TCP client or another | a console shows what is received once and in order, each use of what is gone has its cause, the program that is left ends unless it uses what is gone |
| `lua_plugin` | a plot of 3 points of 2 values, 2 handlers in the queue, 1 request counted | one thread in the Lua state unless `setup()` sends a request, the plot shows the latest points, every handler runs |
| `frames` | 3 images | no semaphore signalled twice, nothing reused that the GPU has yet to execute, no frame hangs |

Runs that TLC must find violated, one property each; the statements are those of a comment or of the
labels of the user interface:

| run | property | the code does |
|---|---|---|
| `writer_stall` | `EverythingSent` | two messages in a row: the second stays in `tx_current_` for ever |
| `tcp_client_reconnected` | `WorksWhenConnected` | `should_run_` is never set again |

More defects are in the models without a run of their own:

* With a library whose vectors are emptied first by a move assignment (MSVC and libc++, which the
  presets build with), a message is overwritten if the GUI thread enters `startWrite` in that moment:
  `torn` records it, and `InFlightIsCurrent` and `StreamSpec` say that this is the only way.
* A resolve that is late opens a disconnected TCP client again (`OnResolve`); `ClosedStaysClosed` says
  that it is the only late result which does, and each does it once.
* The options chosen in the window of a serial port are never handed to it (`Configure`).
* A console of a server whose client is dropped by `stopAll`, or that is opened between the signal and
  the removal of the client, sends through a dangling reference (`orphans`).
* A console whose box is unchecked while its slot is called is used through a null pointer; one whose
  window goes to the trash can stays open and sends through a dangling one; a connection whose members
  are destroyed with an operation outstanding, or aborted and its handler queued, is used by that
  handler; and the slot of a plugin uses its wrapper after the plugin is gone. The third holds for every
  CoAP client, whose `doIO` is always queued, for every UDP connection and serial port that receives, and
  for a TCP client that resolves a name or whose aborted handler does not get to run in the 250 ms.
  `HarmHasItsCause` says that each of the four happens for its own reason only.
* A `setup()` of a script that sends a request may meet the callback of its response in the Lua state
  (`early`).
* A plugin without an action ends the program when it is selected (`DrawGui`), and so does an error in
  the script (`ScriptError`).
* A `setup()` of the application that fails is not noticed (`SetupOrUnready`).
* A stop of the server that meets an accept handler behind its `is_open()` test leaves it a client, or
  leaves a client that is served and not counted: `overtaken` records it, and `StopIsThorough` says
  that this is the only way.
* A UDP connection cannot start receiving a second time: its socket is never closed, and `open()`
  throws (`Open` of `UdpConnection`). One that never received has no open socket, so that its first
  send sticks (`Send`). Any `cancel()` may hit a send, which sticks as well (`Cancelled`). A stop that
  meets the receive handler behind its test of `should_receive_` leaves a receive outstanding
  (`ReadAgain`); `SilentStaysSilent` says that it is the only one.
* A serial port whose parity is odd is set to even (`PortParity`).
* The token list of the CoAP client is written by threads that hold a lock they share. A request that
  meets the callback or another request in the list may lose a token, so that its response is dropped:
  `raced` records it, and `ResponsesFound` and `AnsweredOnce` say that this is the only way (`TokensMatch`
  joins the two), but for a token that finds no memory, whose request is sent and whose response is
  dropped (`TrackFails`).

### Bounds, and why they are enough

* RingBuffer: two places, three producers and two consumers give full, empty and in between, a
  notification to each of several sleepers, and a thread that overtakes a notified one (the program
  has one producer and two consumers). The safety theorems remove the bound.
* Writer: a queue of two is full while a third message waits in `push`; eight bytes are four messages
  of two, so that one is in flight, one in `tx_current_` popped by the handler, and two queued. The
  theorems remove the bounds.
* TcpClient: three attempts are one that is stale, one that is current, and one that an Apply adds;
  two endpoints give a refused and a last one. A button is not pressed when too few attempts are left.
* TcpServer: two starts are an old and a new accept loop; two clients are one that the loop of
  `stopAll` meets and one that it misses.
* Serial: `MaxWork` limits when a button may be pressed, not what the strand does; three allow two
  opens and a close, or an open on top of a read and its abort.
* CoapClient: two requests are two in the list at a time, from one thread or from two, and a flush
  with one slot behind the token; three sessions are two replacements, so that a request may be late
  by two. The two requests do not limit duplicates, losses or polls.
* Windows: three consoles are one that is gone, one that is being called and one that replaces it;
  three receptions are one for each, and enough for a swap of two to show. Two aborted handlers
  (`MaxAborted`) are one of an earlier connect and one of the current; `Connect` waits while both are
  queued, and nothing else is limited by it.
* LuaPlugin: three points wrap the offset past one that is left of the last round; two handlers are one
  that runs and two behind it. A request beyond the one counted is answered like the first.
* Frames: three images are one on the screen, one in the queue and one being recorded, and let the
  order of the images depart from that of the semaphores. The queue needs no bound: the fences and the
  images limit it.
* Deadlock is checked except where the system may stop: the buttons need not be pressed, the program may
  end, and the bounds of the instances run out. `udp`, `ring_buffer` and `coap_client` check it.

### Fairness, and why the code justifies it

* A thread inside `send`, `startWrite`, a button's calls or a handler is not suspended for ever: weak
  fairness on its steps.
* Every queued handler is run: the workers never leave `io_context::run` while the manager lives
  (LC/manager_impl.cpp:31-42), and a strand serves its handlers in order. A handler waits while another
  runs, so this is strong fairness on the handler.
* The operating system ends a resolve, a dial and a send at last, if by a time-out. It owes no data.
* libcoap returns from `coap_io_process` after 250 ms, and the callback returns to it. Weak fairness on
  `StartIO` is the strand's; strong fairness on `EndIO`, for callbacks may come first again and again.
* A mutex (`state_mtx_`) that is free again and again is got at last: strong fairness on `Lock`. The GUI
  thread leaves it free while it waits for the display. That it goes on drawing is assumed nowhere.
  The functions of a script return: strong fairness on `Drawn` and `CallbackReturns`, for the
  script may do other things first.
* A GPU that is not lost executes what it can, and the display releases images: weak fairness on `Gpu`
  and `Release`.
* Nobody has to press a button, call `send`, or connect to the server.
* `SpuriousWakeup` is never fair; the liveness of the queue does not lean on it.

## 4. What is proved

TLAPS proves, for all values of the constants:

* `RingBufferProofs`: `TypeCorrect`, `NoLostPlace`, `NoLostItem`, `NeverAllAsleep`, `ImplementsFifo`.
  From the assumptions on the constants alone (disjoint finite sets of threads, a capacity above
  zero). The inductive invariant is `TypeInv` and `PlacesAndItems`. The second counts: free places are
  covered by producers that are awake on their way to a place or by consumers that have yet to
  notify, as long as a producer sleeps; items and consumers likewise. `NoMutualSleep` alone is not
  inductive: it says nothing of a state in which one notification is on its way and serves two.
* `WriterProofs`: `TypeCorrect`, `BufferUntouched`, `NeverBlocksInPop`, `NothingForgotten`,
  `StalledForever`, `ImplementsStream`, for every transport, capacity and length and for every library. The
  invariant `Inductive` of module `Writer` has two halves. `Always` holds whatever a move assignment does:
  the types, `FlightInv` (one send outstanding at most, and nobody takes a message meanwhile),
  `HandlerInv` (up to its edit the handler is alone with `tx_current_`, which is not empty: that keeps the
  other thread's `Inspect` out, the flag and the lock alone do not), `TakeInv`, `MarkInv` (the flag
  stands for something) and `MessagesInv` (no message is empty). `Untorn` holds until `startWrite` has met
  an assignment half done: `MarkedInv` (who took a message has marked it, and what is in flight is
  `tx_current_`), `QueueInv` (the queue continues the stream), `WireInv` (the wire is a prefix).
  `TypeCorrect`, `NeverBlocksInPop`, `NothingForgotten` and `StalledForever` rest on `Always` and so hold
  even then; `BufferUntouched` and `ImplementsStream` hold up to that moment, as their statements say.

* `ConnectionProofs`, TCP client: `TypeCorrect`, `NeverDeaf`, `StaysClosed`, for any number of
  attempts and of endpoints above zero. `TypeInv` adds to the types what a button may have left to
  call and that the attempts suffice for it (`Budget`), that the attempts begun are the first ones and
  a name that is resolved has an endpoint (`Chains`), and that the strand receives for an attempt that
  has begun (`Reader`). `StaysClosed` says that a closed socket is opened only by a step that uses up
  a resolve under way, and that such a step starts none. It needs one fact more, of two actors: a
  closed socket is not being dialled (`NoDialOnClosed`), for `close()` has aborted the dial.
* `ConnectionProofs`, UDP: `UdpTypeCorrect`, `ReceivesWhatItSays`, `StoppedStaysStopped`.
  `ReceivingIsArmed` is inductive only with who owns the receive: whatever has to do with one happens
  on a bound socket, which stays bound (`BoundForReads`); what a button has yet to call is one of
  eight lists (`Plans`), so that an `open` is followed by its receive; and `disconnect()` has cleared
  the flag when it comes to its `cancel`, no handler having set it in between (`CancelIsUnflagged`).
  `StoppedStaysStopped` begins when the calls of the stop are made and covers the handler that was
  behind its test by then: it starts one receive, and no handler gets behind the test again.
* `ConnectionProofs`, serial: `SerialTypeCorrect`, `OpenPortIsHeard`, `DisconnectKept`, for any amount
  of work in the strand's hand. `OpenIsServed` is inductive with the types alone: its premise that no
  `doClose` is posted carries what it needs of the order of the calls (lemmas `PostedIsPosted`,
  `OthersStayPosted`). `DisconnectKept` is the safety half of `DisconnectCloses`: no open, read or
  error that comes first takes the place of the close.
* `TcpServerProofs`: `TypeCorrect`, `ClientsListen`, `GoesOnAccepting`, `ConsolesKeepClients`,
  `StopsThoroughly`, for any number of starts and clients. `ServerInv` says in which order the calls of a
  button come (`CallsInv`), that every `start()` has an accept loop for itself, which is over while the
  strand works for it (`LoopsInv`, `StrandInv`), and which clients exist (`ClientsInv`).
  `StopIsThorough` speaks of a server at rest and is far from inductive: `StopInv` says for every stage of
  `stop()` what has been closed (`ClosedInv`, `SweptInv`) and where an open connection that is not in
  the set is on its way (`KnownInv`).
* `CoapClientProofs`: `TypeCorrect`, `SessionStays`, `TokensLead`, `LocksAreGivenBack`, for any number
  of requests and sessions. `TypeInv` ties the place of each thread to the lock, the request and the
  session it holds (`SenderInv`, `CallbackInv`) and counts: `tokens_count_` is at most the number of
  tokens sent (`CountInv`). `TokensMatch` is proved from `ListInv`: as long as no two threads were in
  the list with one writing (`RaceInv`), its slots hold different requests, the open ones are among
  them, an answered one is not, except while it is flushed, and the token that is stored before it is
  counted stands right behind the last (`InOrder`). `LocksAreGivenBack` is why no thread hangs in a
  lock: `LockInv` says at which steps each of the two mutexes is held, and it follows that a thread
  which holds one that another waits for waits for none itself.
* `WindowsProofs`: `TypeCorrect`, `GivenOnce`, `HarmIsCaused`, for any number of consoles, data and aborted
  handlers. `WindowsInv` says who owns what and that slots, outstanding calls and contents rise; `LineInv`
  which operation a connection can have in which state, and how many handlers are queued; `EmissionInv`
  that in an emission the consoles yet to be called have not been given the datum and the one that is
  watched has it or will get it. `HarmHasItsCause` speaks of the step that does harm, `CauseInv` of the
  states before it: whatever could be used although it is gone (a registered console without its window,
  a locked slot without its console, a call of a wrapper without its plugin, an operation or a queued
  handler of a destroyed connection) has its cause on record already.
* `LuaPluginProofs`: `TypeCorrect`, `OneThreadInLua`, `PlotIsLatest`, for any bounds and any size of
  the plot above zero. `TypeInv` says who holds the mutex where (`LockInv`) and that nothing reaches
  the strand while the script is loaded, unless `setup()` has sent a request (`QuietInv`), which is
  what keeps the constructor alone without the mutex. `RingInv` is the scrolling buffer: in order from
  the front while it fills, then a ring whose oldest point is at the offset, or one behind it between
  the two assignments of `AddPoint`. The lemmas `WrapsOnce`, `IndexMoves` and `Overwritten` are the
  arithmetic modulo the size.
* `FramesProofs`: `TypeCorrect`, `GpuNotDisturbed`, `SignalledOnce`, `NeverStuck`, for any number of
  images from two on, as the code asks of the swap chain. `FramesInv` says that an image is drawn at
  most once in the queue and not with its fence signalled (`FenceInv`). `SemaphoreInv` is why the
  semaphores, taken in turn, never overtake the images, taken in any order: the queue alternates draws
  and presents, and a pair stands where its turn has put it (`TurnInv`); so when the pair comes round
  again, every image has been drawn since (lemma `FullQueue`, a pigeonhole argument), and the display
  cannot have handed out the image without the draw that waits for the earlier signal (`AcquiredInv`,
  `RenderedInv`). `NeverStuck` is the safety half of `FramesGoOn`: the fence the loop waits for has
  its draw in the queue, and the GPU can take its next command, now or as soon as the display gives a
  signal that nothing keeps it from giving. `WaitInv` is the invariant: a fence not signalled has a
  draw (`FencesInv`), the draws have different pairs (`PairsInv`), no image is drawn while it is shown
  (`ScreenInv`), a present has its draw before it or its signal (`CompleteInv`), and every draw, and
  the frame that is made, has a signal of its own, given or owed (`SupplyInv`).

Every theorem assumes of the constants what the module that declares them states in its `ASSUME`,
which TLC evaluates on the instances, and nothing else. Most say for every value what a run checks for
a small one: every invariant of a passing run, every action property and both refinements are stated
by one. The types of `RingBuffer`, `Writer` and `UdpConnection`, the two halves of `PlacesAndItems`,
the finality of a stall and the safety halves of three liveness properties (`DisconnectKept`,
`LocksAreGivenBack`, `NeverStuck`) are theorems alone. The strengthened invariants were model-checked
on the instances of the runs before they were proved.

Only model-checked:

* What needs fairness, which is out of the prover's reach: `SleepersServed`, `SentFromIdle`,
  `AttemptSettles`, `LostClientRemoved`, `DisconnectCloses`, `RequestReturns`, `PollsForEver`,
  `HandlersRun`, `ExitEnds`, `FramesGoOn`. Of `DisconnectCloses`, `RequestReturns` and `FramesGoOn`
  the theorems have the part that is safety: that what is waited for has not been lost.
* The two claims that the code does not keep, `EverythingSent` and `WorksWhenConnected`: their runs show
  the behaviour that breaks them.
* `NoLostKick` of a particular transport, which the theorem covers for all but Serial (what is queued
  while a port is closed stays there until the next send after it opens).

## 5. What is not modelled

* Icon and fonts: data tables. The contents of the structures handed to Vulkan, which are fixed.
* The frames of windows dragged outside the main one, which ImGui acquires and presents itself, and a
  resize after which the swap chain has fewer images: `SemaphoreIndex` is kept and might then be out of
  range.
* Names, formatting, logging, the contents of the windows.
* Data races as such. The steps of the models are atomic accesses; a torn access is modelled only where
  an outcome differs in a way the properties see (the move assignment of `tx_current_`). The race on
  `std::set` in `stopAll` is modelled as a loop that may miss what is inserted. If a handler removes
  the client the loop stands on (`Erase`), C++ says nothing of what follows: the model goes on with the
  other clients, so what it shows of `stopAll` is for the orders in which this does not happen.
* The destruction of a member at a time: what `~Impl` does to its members is one step, after the sleep
  of the TCP client.
* What follows a use of something that is gone. An exit of the program that comes to one is left out of
  `ExitEnds`, whose formula ends in `harm # "none"` for it: a UDP connection, serial port or CoAP client
  let go with an operation outstanding, a TCP client let go while it resolves, and one whose aborted
  handler has not run when the sleep is over. An exit with a TCP client that receives is not left out:
  its handler runs in the sleep, the threads run out of work, and the join returns.
* Several windows at once, hidden windows, the button Clear, a plugin beside another: they share nothing
  but the list of windows and the threads.
* The address of a client reused by a later one, which `client_wins_` would take for it; the destructor of
  the server; `sendToAll` and `DiscoverServers`, which no code calls.
* `RollingBuffer`, which no binding offers to a script, and the plot of an empty buffer or of one made
  with a size of zero.
* libcoap itself: its queues and retransmissions are what `CoapClient` lets happen to a message.
  Observing is not modelled because the code never sets `doing_observe`.
* Sockets that fail to open for lack of descriptors, and `listen()` that throws.

## 6. Plan

In order of what matters most to the program:

1. **Done**: every module of section 2 checked; the theorems of section 4, which state all the safety
   properties of the passing runs.
2. Left: nothing of the plan. What could follow are the safety halves of the other liveness properties
   (`AttemptSettles`, `LostClientRemoved`, `ExitEnds`), stated like `NeverStuck`.
3. Not planned: the abstract specification that each CoAP request is answered at most once; `TokensMatch`
   says it where it holds.

## 7. Running

    tlc -workers 2 -config MCWriter.cfg MCWriter.tla
    tlapm WriterProofs.tla

Each property has a mutant, an operator next to the definition it changes ("Mutant of ..."), that
puts a plausible bug into the model and breaks the property.

## 8. Hazards

`PROJECT.json` lists each at its line with the properties that cover it. In short: unlocked edits and
stale tests in the send path; wake-ups of the queue; overlapping attempts and late results of the TCP
client; stop and restart of the server against handlers in flight; the UDP socket that is never
closed; the serial port's late errors and exceptions; the token list, the session and the locks of the
CoAP client; consoles, windows and connections that outlive each other; the Lua state entered by two
threads; frames given up half way; and, without a property, data races as such, two receive loops of
one client, and sequential faults such as the options that are never applied.
