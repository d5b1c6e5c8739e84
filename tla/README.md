# playdate-e2e: a verification project

playdate-e2e drives a Playdate game from a test script.  A small C module,
`pdk_e2e.c`, is compiled into the game and opens a TCP connection to the test
process; there the TypeScript class `PlaydateGame` sends commands (press a
button, wait for frames, take a screenshot, query a state) and awaits their
replies.  The modules here model both ends, the stream of bytes between them, the
life of the simulator process, and what a test makes of the states and screens it
is sent, in TLA+.  TLC checks small instances; TLAPS proves the safety properties, two
refinements among them, for instances of every size.

Paths are relative to the repository.

## The system

| Part | Source | State | Operations |
| --- | --- | --- | --- |
| Game module | `pdk_e2e.c`, `pdk_e2e.h` | connection state, receive buffer, injected buttons and crank, button snapshots, registry of exposed state, query hook | `pdk_e2e_init`, `pdk_e2e_update` (once a frame), the SDK's callbacks, `pdk_e2e_get_buttons`, `pdk_e2e_crank`, `pdk_e2e_expose_*` |
| Framing | `src/connection/protocol.ts`, `try_parse_message` and `send_message` in `pdk_e2e.c`, `src/types.ts` | the two receive buffers | encode, push, parse |
| TcpServer | `src/connection/tcpServer.ts` | server, socket, `pendingMessages`, `waiters` | `listen`, `waitForConnection`, `waitForReady`, `send`, `receive`, `receiveAny`, `close`, `onData` |
| PlaydateGame | `src/PlaydateGame.ts` | `lastCrankAngle`, `queryInFlight`, `closed`, the simulator process | `launch`, `close`, `waitFrames`, `screenshot`, `query*`, `waitUntil*`, input helpers, `toMatchScreenshot` |
| Launcher | `src/lifecycle/Launcher.ts` | the child process and two timers | resolve, validate, spawn, kill |
| Screenshot comparison | `src/assert/*`, `src/vitestSetup.ts` | files on disk, vitest's update mode | decode, count, encode; compare, create, update |
| Lua bridge | `pdk_e2e_ext.c`, `pdk_e2e.lua` | the Lua callback table | `update`, `crank`, `expose`, `_dispatch` |

How they interact.  The game calls `pdk_e2e_update()` at its own rate; nothing
makes it wait for the runner.  A frame handles at most one command, so commands
queue in the receive buffer.  Replies carry no number: the runner matches them
to calls by type, in order.  On the runner's side everything runs on Node's event
loop: `onData()` fills `pendingMessages` or settles a waiter, a timer rejects it,
and the calls resume as microtasks afterwards.  A query is answered on the frame that
handles it, by the registry of C pointers or by the Lua table behind the hook.
Screenshots are compared with files that earlier test runs have left.

What is hard here:

* the order of frames, chunks, timers and calls, none of which is under the
  control of another;
* a reply that comes after its call has given up, in a protocol without numbers;
* state held twice: `lastCrankAngle` and the game's `injected_crank`, this frame's
  injected buttons and the last frame's, `proc.killed` and the process;
* messages cut and joined anywhere by TCP, into a buffer of fixed size;
* partial failure: `launch()` has five steps, and what was started must be stopped;
* who answers a name: a registry of 32, a hook, a Lua table, any of which may be
  filled or emptied between two queries;
* files that are read at one await and written at another, by several flows, and
  that outlive the run, or the crash, in which they were written;
* liveness: calls on a connection that is gone, a simulator that never exits,
  loops that poll until a deadline.

`hazards` in PROJECT.json lists each at its line, with the properties that cover it.

What makes each part correct:

* game module: no wait without a callback to come; every injected edge shown to
  the game once; every command answered once and in order;
* framing: never out of step with the stream; nothing left in the buffer that
  could be handled;
* TcpServer: a message and a waiter that suit never miss each other; order kept;
  every call settled exactly once;
* PlaydateGame: a call gets its own reply, lasts its frames, and ends; its copy of
  the crank is right; one query at a time;
* launcher and lifecycle: no orphan process, no port or timer left, no hang;
* registry, hook and Lua table: a name has one source, and a query reports what it
  holds, unaltered;
* screens: the verdict on a screenshot is the number of pixels that differ; a
  reference is written only as a test asked; a wait says what it saw.

## Modules

| Module | What it is |
| --- | --- |
| `GameModule` | `pdk_e2e.c` with whole messages: one action per callback and per outcome of a frame |
| `GameModule_proofs` | its theorems |
| `TcpServer` | `onData()`, `receiveAny()`, the timers and `close()`; actions only, no users |
| `TcpServerSystem` | TcpServer with a game that writes anything and calls that wait for anything |
| `TcpServer_proofs` | its theorems |
| `FrameSync` | the abstract specification: what a script is promised about time |
| `Session` | PlaydateGame on TcpServer, joined to GameModule by two queues; shown to implement `FrameSync` |
| `Session_proofs` | its theorems, the refinement among them |
| `Lifecycle` | `launch()`, `close()`, `killSimulator()` and the process |
| `Lifecycle_proofs` | its theorems |
| `Framing` | both receive buffers, byte by byte |
| `Framing_proofs` | its theorems |
| `Exposure` | the abstract specification: what a game that exposes its state promises |
| `StateQueries` | registry, hook, Lua extension and table, and the runner's queries; shown to implement `Exposure` |
| `StateQueries_proofs` | its theorems, the refinement among them |
| `FrameBuffer` | `FrameBuffer.ts`: packed framebuffers, pixels, PNG; operators only |
| `Screens` | `waitUntilScreenChanges()`, `waitUntilStable()`, `toMatchScreenshot()`, `compareScreenshot()` and the files |
| `Screens_proofs` | its theorems, and those about FrameBuffer |
| `SequenceLemmas` | lemmas, on sequences most of them, that the proofs of several modules share |
| `MC*` | the instances for TLC |

`Session` takes the actions of `GameModule` (as `Game`) and `TcpServer` (as
`Server`) by `INSTANCE`, with `toGame` and `toRunner` shared.

### How they correspond to the code

**GameModule.**  The file-scoped variables of `pdk_e2e.c` are variables of the same
name.  Button masks are sets.  `recv_buf` holds the commands that were read whole;
a command counts as read on the frame that reads its last byte, which is what makes
it dispatchable, and `Framing` shows that the bytes say the same.  `UpdateConnected`
is a whole frame: snapshot, read, dispatch of one command, compaction.  The commands fit the
buffer here (`MaxCommands` is a number for which they do); the frame that finds the buffer
full and discards it is `Frame` of `Framing`.  `UpdateLost`
is a frame on which `getBytesAvailable()` or `read()` fails.  `access_pending` and
`open_pending` say which callbacks the SDK still owes.  The hardware is a set of
buttons chosen anew on each frame; `getButtonState()`'s edges are the difference
between two frames.  `input_injected` is left out: it is written and never read.
What `QUERY_STATE` answers is left open here, for `StateQueries`.  The `owed_*` variables and `snapshotted`,
`issued` and `ignored` are history.

**TcpServer.**  A waiter is its call and the types it accepts.  `parsed` is what
remains of the loop of `onData()`; while it is not empty no other callback runs.
`settled` holds the promises whose calls have not resumed; they resume before the
next callback, in any order, for calls await them through stacks of async functions
of different depths.  A call that resumes may call `receive()` again at once.
`close()` leaves waiters, timers and `pendingMessages` in place, and `this.server`
to `Lifecycle`.

**Session.**  A call is the list of commands it sends (`Steps`); it sends the next
when the promise of the last resumes it (`Continue`), and ends with `Resolve` or
`Reject`.  `Refuse` is a call that throws before it has sent anything: a second query,
`pressButtons()` without a button, any call once the session is closed.  `send()` on
a connection that the game has lost succeeds and goes nowhere.  Its `Init` is the
state in which `launch()` resolves.  The hardware is left alone.  Angles are
integers, and the sentinel is -1 among them.

**Lifecycle.**  `phase` is the await at which `launch()` or `close()` stands.  Node
sets `proc.killed` when a signal was sent, and `exitCode` only if the process was not
ended by a signal; `exitEmitted` is the 'exit' event, which comes some time after
the process has exited.  `SpawnFails` is a binary that cannot be executed: `spawn()`
does not throw, and the 'error' event is an exception in the test runner, which
reports it and goes on; `launch()` waits for a connection and gives up.  `PollFires` is the
interval timer of `waitForConnection()`, which calls `resolve()` whether or not the promise
is settled; JavaScript ignores the second settlement, and so does the action.  `gaveUp` is
history.

**Framing.**  A byte has `Base` values in place of 256; the largest payload and the
buffer follow.  `end` selects the receiving end, since the two never share bytes.
`Complete`, `FrontMessage` and `Rest` are common to both; `TryParse` is the game's
test, with its 16-bit length.

**StateQueries.**  `exposed_states` is the registry in the order of the calls;
`state_query_hook` says whether the pointer is set.  `stage` is how far the game has
started: a C game may call `pdk_e2e_init()` again at any time, and set or clear a hook of its
own (`SetHook`); a Lua game goes through the events of `pdk_e2e_ext.c` and the `import` of
`pdk_e2e.lua`, and `expose(name, nil)` withdraws a callback.  `callbacks` is what is behind the
hook, the Lua table or what the C game's hook answers by.  A content is a number
by its value or a string by its length, since what can go wrong with it is its type,
its length and its being another's.  The frame that answers is one action (`Answer`):
the pointers are read and the callbacks called there and nowhere else.  `Receive`,
`Poll` and `TimesOut` are the runner; replies come in time unless there is none
(an ERROR, or a query lost with its connection), the late ones being `Session`'s.
`calls` and `promised` are history.

**Exposure.**  A name has one source or none.  A variable keeps its name until the
module is initialised again; a callback gives way, or is withdrawn (`Bind` with no source), and a
C game may replace all of its own at once (`Rebind`).  A query is answered by the content
of its name's source at that moment, or by nothing else.  The mapping takes `Bound(n)`
for the source of `n`: the first entry of the registry with that name, or else the Lua
callback, or that of the C game's hook, if the hook is set and what it calls is there.

**FrameBuffer** has the operators of `FrameBuffer.ts` under their names, for a display
of any height, row size, padding and byte width.  A PNG is its size and its channels.

**Screens.**  A flow runs one call at a time, and `pc` is the await at which it
stands: the screenshot `sent`, `captured`, then for a comparison `again` (called once
more to create what is missing), `write` and `filling` (`writeFile()` has opened the
file, which truncates it, and has not yet written it) or `diff`.  `Read` is all that
follows `readFile()`.  `FileFails` is a file system that refuses, at any of these
steps.  `NewRun` ends or kills the test run, with whatever was in progress, and starts
another with a mode of its own; the files stay.  `source`, `cut`, `against`, `shown` and
`rivals` are history.  `cut` has the names of which a write ended early since the file was last
opened.  Taking a screenshot is three actions here; `Session` has its messages.

## Runs

| Run | States | Shows |
| --- | --- | --- |
| `game` | 74,526 | handshake, edges, one command a frame, replies in order; settles and dispatches |
| `server` | 8,368 | no lost wake-up, no loss, order, one outcome, every receive settles |
| `session` | 219,645 | own replies, query guard, crank in sync, frames lasted, every call ends |
| `queries` | 149,910 | implements `Exposure`; what is exposed is found; every query ends |
| `screens` | 241,459 | verdict is the packed count, references kept and not torn, waits truthful, every call ends |
| `lifecycle` | 283 | no orphan, nothing left, no exit missed, launch and close end |
| `framing` | 1,976 | in step with the stream, nothing stuck |
| `game_hardware` | - | refutes `HardwarePassesThrough` |
| `session_stale` | - | refutes `NeverEarly` |
| `session_crank` | - | refutes `RotatesTheCrank` |
| `lifecycle_sigkill` | - | refutes `FallsBackToSIGKILL` |
| `framing_wrap` | - | refutes `CompleteIsFound` |

**Bounds.**  `game`: one button and three commands.  Buttons never interact with one
another, and three commands are a press, a release and one that is queued behind
them.  The crank is one value here (the sentinel); `session` has two.  `server`: two
calls, two types, three messages: a waiter ahead of another, a message ahead of
another, and a third in the next chunk.  A call may be made again without end.
`session`: `MaxCommands` is 8, which no script reaches, and scripts of at most three
calls; they are chosen for the meetings that matter (input next to frame counting,
two screenshots in flight, two queries, a call after one that failed).  `frames` is
counted to one more than needed.  `lifecycle` has no bound.  `framing`: byte values 0
to 2, hence a 16-bit length of 9 values and a buffer of 11 bytes; at most 8 bytes in
flight, so that the wrap-around of `framing_wrap` is out of reach, and three
messages, with legal, illegal and unknown ones.  `session_crank` has the angles -1, 0
and 1 and three turns.  `queries`: two names, two variables (a number and a string), one
callback and room for two entries, so that the registry overflows and a name may be
entered twice, next to another or to a callback; strings that fit exactly and that are
one character too long; at most two polls.  Lengths stay below the wrap of the 16-bit
sum (`StringsShort`), and so nothing is claimed of strings of 65,534 bytes or more.  At 65,534
and 65,535 bytes the sum wraps to 0 or 1, passes the test, and the copy in
`send_state_string()` overruns its buffer, of which C says nothing more; from 65,536 on the
length itself is taken modulo 65,536, and the string is sent cut short, as a value, without an
error (or as too long, or with an overrun, by what remains of its length).  `screens`: two rows of two pixels, each row in a
byte of two bits and followed by one of padding; three framebuffers (blank, blank with
other padding, one pixel); a file that is missing, truncated, of another size, or made
from any of these; one flow that waits, with two settling frames and three polls; or two
flows on one name, in vitest's every mode: both creating it and one of them also updating it,
or one creating it while the other only reads.

**Fairness.**  The SDK calls back, and the simulator keeps calling `update()` (only
`game` and `framing` need it).  Node runs the callback in progress and the promises
that are settled; timers fire in the order they fall due, so that the timer of one
waiter is not put off for ever by those of others, although other callbacks come in
between: strong fairness for each call's timer.  A process that does not hang obeys
SIGTERM.  Nothing is assumed of the network, of the game in `session`, or of when a
script makes its next call.  `framing` assumes that what has arrived is read.
`queries` assumes that the game runs its frames and Node what is ready; `screens` that
a screenshot ends, by its timer at the latest, and that file operations return, with
success or not.

**Deadlock** is checked in `game`, `server`, `queries` and `screens`.  In `session`, `lifecycle` and
`framing` the system stops when the script is done, the session over or the
messages sent.

## Where the code and its documents disagree

Five runs refute a sentence of the repository (PROJECT.json `findings` quotes them):

1. Hardware buttons do not pass through while the game is not connected.
2. After a call that timed out, the late reply answers the next call of its kind.
3. A crank that `rotateCrank()` has turned to -1 degrees is given back to the hardware,
   and the next turn counts from 0.
4. `killSimulator()` never sends SIGKILL.
5. A full game-side buffer is parsed with a length that wraps to 0.

Others were met on the way and are modelled as the code has them, without a run:

* An injected press is pushed on the frame after its INJECT_INPUT, not on it
  (`README.md:285`, `README.md:308`): the snapshot precedes the command.
* `waitFrames(n)` takes at least, not exactly, n frames (`PlaydateGame.ts:143`): the game
  runs on while a PING or PONG is under way; `CallsLastTheirFrames` says at least.
* `README.md` (Connection failures) says that after a lost connection commands throw
  immediately: the socket stays set, so they time out.
* No call receives ERROR: a command that the game refuses waits out its timeout.
* `setCrank()` and `rotateCrank()` send an empty button mask and so release held
  buttons.
* `NONDETERMINISM.md` asks for an ERROR in reply to an unknown type; it is logged.
* PONG is sent by the frame that reads PING, before the game's own update, not after
  it; `tap(b, h)` therefore shows the button on at least h + 1 frames.
* `waitForConnection()` leaves its interval timer running when it times out; `NothingLeftRunning`
  allows that one timer, after that one failure.
* A simulator that a signal has ended before `killSimulator()` is called has neither an
  `exitCode` nor `killed`, and the call waits out its deadline of 2.5 seconds for an 'exit'
  that has already been; `NoExitMissed` is about exits after a SIGTERM that was delivered.
* Two flows that send input at the same time make `lastCrankAngle` wrong; `Session`
  assumes one flow that does (`OneDriver`).
* A `writeFile()` that is interrupted leaves a reference that no later comparison can
  decode, in any mode but an update.  `NoTornReference` says that nothing else leaves one: not
  the order in which several flows open and fill a file.
* Two flows that create one reference at once may each find none, and the later
  overwrites the earlier; `ReferencesKept` says so, and `NoTornReference` that the file is one
  or the other's once both have ended well.
* A flow that reads a reference while another is filling it finds it truncated, and fails.

## Proofs

`GameModule_proofs`, for every set of buttons, every set of cranks that contains the
sentinel and every bound on the commands (`GameAssumption`), checked by TLAPS without
assumption beyond it:

* `TypeCorrect`: `TypeOK`, by a step per action; lemmas say what `SendMessage`,
  `DispatchCommand` and `SnapshotButtons` leave typed.
* `NoVainWait`: `NeverWaitsInVain` is inductive once types are known.
* `InjectedEdgesKept` and `EdgesAgree`: the invariant `InputInv` ties the history of
  owed edges to the difference of the two bitmasks, and each frame's snapshot to the
  mask it left as the previous one.  `EdgesMatchFrames` is an action property and
  needs it in the state before the frame.
* `CommandsAccounted`: the numbers of the replies, of the commands in the buffer
  and of those on the wire make one increasing sequence.  The inductive invariant
  also says where READY stands and that only dispatched commands are ignored;
  `QueueAdvances`, `AppendReply` and `FrameKeepsAccount` carry the step of a frame.

`TcpServer_proofs`, about `TcpServerSystem` for every set of calls, every set of message
types and every bound on the messages (`SystemAssumption`):

* `ServerTypes`: `TypeOK`; lemmas say what `RemoveAt`, `SubSeq` and `SelectInSeq` return.
* `NoWakeupLost` and `SettledOnce`: `NoMatchMissed` and `OneOutcomePerCall` are inductive
  once types are known.  A message is kept only when `FirstWaiter` found no waiter, a
  call enlisted only when `FirstPending` found no message, and a waiter that is
  resolved leaves `waiters` in the same action.
* `FirstWrittenFirstHanded` and `AllAccountedFor`: `pendingMessages`, `parsed` and
  `toRunner` are one queue, `Here`.  `HereChanges` shows that a step leaves it alone,
  appends what the game writes, or takes out one message that is the first of its type;
  for `DeliverNext` that last part needs `NoMatchMissed`.  The inductive invariant
  `QueueInv` adds that the queue is in the order of the tags, so that the first of a
  type is the oldest, and that `handed` is finite, so that it can be counted.

`Lifecycle_proofs`, which has no constants to range over and is proved for every
interleaving: `LifecycleTypes`, `SimulatorTold` (`NoOrphan`), `AllReleased`
(`NothingLeftRunning`) and `ExitNotMissed` (`NoExitMissed`).  The inductive invariant
says what Node knows of the process (`ProcessInv`: `exitCode` only after 'exit', `killed`
only after SIGTERM), that the two timers run only while the promise is pending and that it is
pending on an exit still to come just if SIGTERM was delivered (`KillInv`),
that past `killSimulator()` every process was told to end (`StoppedInv`), and that what is
closed stays closed and a poll outlives `waitForConnection()` only if that gave up
(`NetInv`).

`StateQueries_proofs`, for any names, variables, callbacks, contents and registry size
(`StateQueriesAssumption`, `StringsShort`):

* `QueryTypesKept`, and `ExposedStaysFound`: `ExposedIsFound` needs that the registry has an
  entry for every name promised to it, that `calls` counts its length, and that only a
  Lua game comes as far as the table, and then has its hook.
* `PromiseIsKept`: the refinement of `Exposure`.  The lemmas on the registry say where the
  first entry of a name is and that appending moves no first entry; `Sent` says that what
  is sent for a content reports it; then each action is shown to be a `Bind`, `Reset`,
  `Rebind`, `Change`, `Ask`, `Answer`, `Forget` or a stutter under the mapping.

`Screens_proofs`, for any flows, scripts, names, framebuffers, and bounds
(`ScreensAssumption`):

* `ScreenTypesKept`; the count of `waitUntilStable()` stays below its target while it runs.
* `FilesKept`: `ReferencesKept`.  The inductive invariant says that flows on one name know
  of each other (`RivalsInv`), and that a flow about to write was told to, or may create and
  has found nothing, which is still so unless a rival has come (`WriteInv`).
* `NoneTorn`: `NoTornReference` is inductive given types.  A file is truncated only by the flow
  that opens it, which is then filling it; that flow leaves off by filling it, which makes it
  whole, or by failing or being stopped, which is noted in `cut`.
* `XorCountsPixels`: for a display of any size and padding, `xorFramebuffers()` is the number of
  pixels that differ, so above 0 exactly when the pictures do.  `PixelAt` and `PixelIs` say
  which bit of which byte each pixel is; `BitsMade` that there is a byte of whichever bits,
  so that `Xor` is one; `PopcountCounts` that the table counts the bits of a byte; `ByteCounts`
  that the pixels of a byte that differ are as many; `CountIsASum` and `SumIsTheCount` that
  the sum over the bytes is their number.  These are inductions, made by way of the least
  number for which something fails (`LeastExists`), as TLAPS cannot use a rule with an operator
  parameter.
* `VerdictsAreXor` (`VerdictIsXor`): a reference that is compared with is the PNG of the
  framebuffer it was made from (`SourceInv`), which decodes to the same pixels (`PngKeeps`), so
  that a comparison counts what `XorCountsPixels` counts.  The assumption that the display is
  not of one pixel tells a picture of another size from its own.
* `WaitsTellIt` (`WaitsTellTheTruth`): `WaitInv` says what a wait has found out about the frames
  it has looked at: none of them was the moment it waits for, and (`Settling`) the last
  `settleCount` show the picture of the one before them, which is kept as the baseline, and
  which follows another picture or none.  `SettlesOn` and `SettlesAnew` are the two ways on.

`Session_proofs`, for any flows, buttons, angles and bound on the commands, and for any
scripts of calls of which one flow sends input (`SessionAssumption`, `OneDriver`).  What is
proved of the server and the game alone does not carry over, for here each is the
other's environment; the invariant is built in layers, each inductive given those before:

* `SessionTypes`, with the structure of the runner: a flow makes the calls of its script
  (`TodoInv`), a call waits once or is settled once (`CallInv`), and what it awaits and has
  still to send are a place in its plan (`ProgressInv`).
* `QueryGuard` (`QueryGuardHolds`): inductive given that structure.
* `OwnReplies` (`OwnReply`): tags rise along every leg of the way, from the runner's
  commands through the game's buffer to the messages kept (`OrderInv`); the waiters stand in
  the order of their commands (`WaiterInv`), and no message that suits one is left lying
  (`MatchInv`); whatever is on its way is claimed by the waiter whose command it answers, or
  is a stray, of a command given up on or behind an ERROR (`AccountInv`); the reply to a
  waiter's own command comes before those to later ones, and is not lost while the connection
  is up (`ReachInv`); so a call that resumes has its own reply unless it was disturbed
  (`SettledInv`).
* `CrankKnown` (`CrankInSync`): the call that drives the input has one input command on its
  way at most; once it is answered the game has done what it says (`InputInv`).  This rests
  on `OwnReplies`: an answer that were another's would come too soon.
* `FramesLast` (`CallsLastTheirFrames`): Session implements `FrameSync`.  `FramesInv` says how many
  frames a call has lasted at each place in its plan, before and after its reply has been
  sent; then each action is shown to be a `Begin`, `Frame`, `End` or a stutter under the
  mapping.

`Framing_proofs`, for any base of a byte, any messages and any sizes that the runner accepts
(`FramingAssumption`):

* `FramingTypes`: `TypeOK`; what is cut from a buffer is a message within it.
* `StaysInStep` (`InSync`), for the runner's end always, for the game's as long as
  `MaxInFlight` is at most the size of `recv_buf` (`Roomy`), without which `framing_wrap` shows
  what happens.  `InStep` says that buffer and wire together are the encodings of the
  messages after the first k, one after the other; `Found` that their front is then read
  back as the message that was encoded, `HoldsSent`, `HoldsSame` and `HoldsTaken` what a step
  does to it.  `InSync` counts the messages passed on, rather than select them with
  `SelectSeq`, of which the prover knows nothing.

TLC checked each inductive invariant on the runs' instances before it was proved.

Every invariant and every action property that a passing run checks is proved, and so are
both refinements.  Only model-checked: the liveness properties (`Settles`,
`CommandsDispatched`, `EveryReceiveSettles`, `EveryCallEnds`, `EveryQueryEnds`,
`LaunchAndCloseEnd`, `AllReceived`), since fairness and ENABLED are out of the prover's reach,
and the five runs that expect a violation.

## Plan

Built, most important first: the game module, the message server, the session that
joins them, the lifecycle, the framing, the queries, the screens; and the proofs of all
their safety.  What would come next:

1. In `Session`, a `tap()` that fails between press and release, and what is then held in the
   game until the next call that drives the input.
2. In `Lifecycle`, a `close()` that returns while another is under way, and the session its
   caller starts on the same port.
3. The conversions of payloads, with the widths of the C side.

## Not modelled

* The pixels of the diff picture (`diffBuffer` of `xorFramebuffers()`, which no caller in
  the repository reads, and the diff PNG, which nothing reads back).
* The choice of the snapshot directory, the search for the simulator's binary, the
  collection of its stderr: paths and text, with errors that a caller sees at once.
* The float and integer conversions of payloads.
* `waitMs()`, which changes nothing; a second `close()`, which returns at once.
* Two writes to one reference that mix their bytes: a write fills the file in one step.
* Which end of a byte its first pixel is at: the two sides of a comparison are decoded alike,
  so that no verdict depends on it; that the PNGs look like the screen is for the eye.
* A frame that finds the game's receive buffer full, outside `Framing`; there `InSync` and
  `AllReceived` are about `MaxInFlight` within the buffer, and only `framing_wrap` goes beyond.
* Strings of 65,534 bytes or more (see Bounds).
* The C test harness, and the accessors at the end of `pdk_e2e.c` that only it calls.
