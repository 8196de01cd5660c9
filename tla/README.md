# A TLA+ model of the Tekken 3 product

The repository runs the retail game on a PSX framework. The game's own code is
interpreted; some guest functions are replaced by native overrides, and the
main loop is native too. What the repository adds is therefore mostly *order*:
which guest code runs in which display field, what may be suspended and
resumed, what may happen in between. This directory models that order, checks
it with TLC and proves the central part of it with TLAPS.

Guest code, drive, GPU and framework are environment: they are modelled from
how `game/` uses them, by nondeterministic choice among what they may do.

## 1. Inventory

| Component | State it keeps | Operations | Interacts with | What is hard |
|---|---|---|---|---|
| Frame driver and finite frame (`game/frame/frame_driver.*`, `finite_frame.*`) | `bootStarted_`, `bootComplete_`, `StepState` (stage, call pending, buffer), the spanning call; guest words: frame counter, current, prior and active buffer | boot prefix, `main`/barrier/display-init overrides, `stepFrame` | the host (one call a field), guest functions, RCntCNT2 event, pad, presentation, audio, renderer attribution | a guest call that outlives its field; guest memory changing inside a call; which buffer is finished; aborts |
| Fight warp (`fight_warp.*`) | armed request, started flag | `arm` (console), `apply` (boundary) | the retail menus, the frame driver, `Runtime::titleCommand` | re-arming half way; menus that move by themselves; acting only between guest calls |
| CD sector-ready order (`game/cd`) | none of its own; the loader's held byte and callback record | three overrides: ready hook, INT flush, chain completion | loader, VBlank timer chain, command writer, drive, interrupt service | every order of those five; a sector nobody consumes is a permanent spin |
| GPU queue timeout (`game/render`) | guest words: deadline, poll count, ring indices | arm, poll, reset | field clock, libgpu ring, critical section | signed comparison of wrapping words; frozen clock |
| Field clock (`game/fieldclock`) | one guest word | read | VBlank callback | wraps |
| Stage tile wedge (`game/widescreen/stage_tile_wedge.*`) | none between calls | `select`: two marches, border walk, row fill, near drop | stage data, widened projection | bounds replacing unbounded guest loops |
| Widescreen projection, stage and effect clippers (`widescreen.*`) | the session's projection plan | publish dimensions, clip stage, clip effect | projection latch, guest packets and ordering tables | packet capacity, unknown opcodes |
| Finite guest call (`game/execution`) | none | call to return or abort; report of a call cut off in the decompressor | every override that calls the guest | partial failure; a stream scanned in memory its output may have reached |
| Runtime, session, product (`game/runtime`, `game/product`) | wiring; the session's plan | start program, register overrides, title command | framework | registration order only |
| Provisioning, launcher, bootstrap (`tools/`, `bootstrap.py`) | files under `scratch/`, `build/` and `external/` | fetch, configure, build, resolve, extract, verify, replace, launch | disc images, `.env`, environment, other launchers | failure half way, what earlier runs left, an unlocked tree |
| Pair probe (`tools/probe_widescreen_pair.py`) | the leg in hand, its result; captures, logs and reports under the leg's directory | launch, drive to a checkpoint, shoot, quit, wait, terminate, read the log, compare | a product it launches, other products, one port for all | a product that stalls, exits early or is not the one on the port; files of earlier runs |
| Endpoint probes (`probe_cd_completion.py`, `probe_loader_state.py`) | the words read so far, the row before | connect and retry, read word by word, conclude | a running product over its debug port | words read at different moments; an endpoint that is open before it answers, or goes |
| VSync gate (`verify_vsync_field_clock.py`) | the image loaded, the calls counted | load, hash, census of the calls, compare, selftest | the executable, the manifest, the shipping header | a mode inferred from instructions before a call; a file read more than once |
| Ghidra query (`ghidra_query.py`) | what a batch has listed so far | func, calls, data, disasm, scan, xrefs | a saved Ghidra program | holes in listings and function bodies; the exit status of a batch |

What makes each correct:

- *Frame driver.* One record of the suspended call, not two that disagree; a
  frame's tables opened once, finished once, under one identity; the
  host served in order; the warp kept out of suspended calls; boot ends.
- *Fight warp.* One game start per request; a request consumed whole; it lands.
- *Sector order.* No sector lost; no callback left installed for nobody; a read
  answered by its own sector, once; every wait for a sector ends.
- *GPU timeout.* Neither early nor late; honest report; every wait ends.
- *Tile wedge.* Marches and walk end where the guest's do; guards never fire.
- *Clippers.* A table is one finite list; packets never overlap; what the guest
  is told of is what was written; nothing visible is dropped.
- *Decompressor report.* A consistent report comes true; an orderly call gets one.
- *Provisioning and launcher.* Only verified executables are installed; a run
  launches its own build; launcher and provisioner mean the same disc.
- *Probes.* One product at a time; what is reported was seen in this run; a
  verdict was true at some moment while its words were read; every probe ends.
- *Gate and query.* What passes agrees with the header and hides no wait; an
  answer is complete.

`PROJECT.json` lists the hazards at their lines, each with the properties that
would catch it or the reason that none does.

## 2. Modules

| Module | Models | Uses |
|---|---|---|
| `FightWarp` | the warp and the menus around it | |
| `FrameProtocol` | abstract: what the driver promises the renderer | |
| `FrameDriver` | the driver, a field cut into steps | extends `FightWarp`, instantiates `FrameProtocol` |
| `SectorHandshake` | abstract: what the CD overrides promise the loader | |
| `SectorReadyOrder` | the three CD overrides in their environment | instantiates `SectorHandshake` |
| `SectorWait` | the loader's wait inside the driver's fields | extends `FrameDriver`, `SectorReadyOrder` |
| `GpuQueueTimeout` | arming, polling, reset | |
| `StageTileWedge` | the tile selector | |
| `StageClip` | the published plan, both clippers, tables and packets | |
| `LzExtent` | the report of a call cut off in the decompressor | |
| `Provisioning` | launchers in one build tree | |
| `PairProbe` | the pair probe, its products, the port they share | |
| `EndpointWait` | waiting for a product's debug endpoint | |
| `CompletionProbe`, `LoaderProbe` | the two endpoint probes | extend `EndpointWait` |
| `VsyncCensus` | the census of VSync calls, and the guest that makes them | |
| `VsyncGate` | the gate and its selftest | extends `VsyncCensus` |
| `GhidraQuery` | five modes of the query | |
| `Probes` | the three probes, one of which is run | extends `PairProbe`, instantiates the other two |
| `ImageTools` | gate and query, one of which is run | extends `VsyncGate`, instantiates `GhidraQuery` |
| other `MC*` | constants for TLC | the module of their name |
| `*_proofs` | theorems | the module of their name and what that extends |

### FrameDriver

`at` is the place of the host thread. A field (`FrameDriver::stepFrame`) is cut
where the code calls into the guest, since there guest words change under it
and there it can abort:

    StepFrame -+- held body ----> ResumeBody --+-> idle (suspended again)
               |                               +-> FinishFrame -> idle
               +- boot ---------> BootCall (first, then second initializer)
               +- fresh field --> Barrier -> Deliver -> Present -> ClearTables
                                  -> ModeBody / NoModeBody -> FinishFrame

- `callPending`, `stage`, `stepBuffer` are `StepState`; `spanning` is the
  framework's `ResumableGuestCall`, a separate object, so their agreement is a
  property and not a modelling decision. An advance has three outcomes:
  `Returned`, `Suspended` and `Refused` (abort). Resuming when nothing is
  suspended can only be refused.
- `GuestBody` is what a body may do meanwhile: move the menus, switch the frame
  timer, make another buffer active.
- `roots` is the buffer the two ordering-table root words select;
  `finishFrame` reads those words, so they belong to a frame's identity.
- `building`, `finished`, `submitted`, `stamp` and `services` are history: they
  record what the code did and influence nothing.
- An abort stops everything (`fault` keeps the reason). A finite call in the
  middle of a field may fail to return (`FiniteCallFails`).
- Field numbers and the frame counter wrap at `WordModulus`.

A field whose mode is outside the function table has no body (`NoModeBody`).
The warp is `FightWarp`'s own `Apply` at a fresh field of the running loop, so what the
warp's steps may do is stated in that module; what the driver adds, and what is
checked of it, is when they may happen (`WarpOnlyAtOpenBoundary`).

### FightWarp

`Arm` takes exactly two character words; anything else is refused and changes
nothing. `Apply` is the boundary: `StartVersus` from the menu waiting for a
choice, `TakeSelect` when character select waits, `PassBy` otherwise. The
screens distinguish just what the two guest words tell apart for anyone here:
the two the warp acts in, other modes, and modes with no body. The
game-start calls may leave any screen behind, and players choose for
themselves (`GuestMenus`).

### SectorReadyOrder

The state is one record, so that guest code called from guest code is a
function applied in an action: `TakeInterrupt` applies `InterruptService`,
which for a sector applies `ReadyHook`, which applies the completion first if it
is owed. The held byte is 0 or 1 in the code; the model keeps the identity of
the read it stands for, and no override looks at anything but whether it is
zero. The drive may raise the sector any time after the acknowledgement
(instant reads), so before or after the timer's completion, and before or after
the command writer's flush. The command writer waits for an acknowledgement
before it writes another command, and the loader issues one sector per read
(`kIssueOneSector`) and none while one is held.

The loader has two bytes. `held` (0x800A069F) is raised with a read; the sector
callback clears it. `busy` (0x800A069E) is what `FUN_8006BEA8`, the wait, spins on
(`SpinIsOver`); only the sector callback clears it, and the wait, falling out of its
spin, clears the held byte itself (`LeaveWait`, `loader_lifecycle.h:13-16`). Nothing in
`src/` shows who sets the busy byte: the model has the wait's own request do it
(`kIssueOneSector` finds a read in flight), and lets nobody be in the wait
unless a read is held. The guest has one thread, which asks for no read while
it is in the wait. So `busy` 0 with `held` 1, the state `docs/issues/0020` measured, is
a reachable state of the model: nobody waits, and somebody polls the held byte.

An override's service and the flush after it are one action: what
interrupts the framework would let through in between is its own business, and
that window is listed as a hazard no property covers.

### SectorHandshake and SectorWait

`SectorHandshake` knows the read the loader holds and the one on its way:
asked, sent, consumed. `SectorReadyOrder` implements it with `held` and with
whatever of chain, drive and controller has the read.

`SectorWait` puts both parts into one state. A spanning call may ask for a sector
and enter the loader's wait, which has no timeout (`CallEntersWait`); while it is
there its turn can only end suspended or refused (`MayEnd`), which turns
`FrameDriver`'s free choice of an outcome into the guest's own condition.
Everything that could clear the busy byte runs in guest time only: inside a turn or a
finite call, not at the host's boundary (`InGuestTime`). So a wait ends only if
the driver goes on resuming the call. `WaitsEnd` is three claims: the spin ends
(`SpinEnds`), the held byte falls also when nobody is in that wait and it is polled
(`HeldByteFalls`), and a frame whose body waited is finished (`WaitingFrameFinishes`). The warp is left out of this composition; it
shares nothing with the loader.

### GpuQueueTimeout

`field`, `deadline` and `pollCount` are words compared as signed numbers,
`head` and `tail` are indices of a ring. The history variables count what really
happened: entries queued, fields and polls since arming, and whether the sign
of the clock has changed. Enqueuing happens outside the wait, draining at any
time. The reset is one action: the code runs it in the guest's critical section.

### StageTileWedge

`select` is a sequential algorithm; the model runs it from every query of a
small set, one iteration at a time. Division rounds toward zero and the shift
rounds down, as in the code. The border walk's loop body makes up to four moves;
an action is one move, and the bound is counted in moves, the stricter
reading; `NeverGivesUp` says the bound is not met under it.
The block's origin is `-3*tile` (what the stage publishes and the code relies
on, `stage_tile_wedge.cpp:44`, `:263`). Direction words are arbitrary: their
lookup and the floating-point widening are left out.

### StageClip

The packet buffer is a function from word addresses to headers; of a packet only
the header is kept, since the payload words are copied unread. `cursor` is where
the guest puts its next packet, `call` the stage clipper's local state
(`inputRemaining`, `capacityRemaining`, `packet`, `produced` as in the code), one
command an action. An opcode of no known kind has no size: it uses up an input
and leaves the command pointer on itself. Without a wide plan the clippers are
the guest's own: the same loop, in which any subset of the primitives may be
kept. `clipEffectPrimitive` handles one sprite; the guest keeps its slot
whether it is linked or not. `drawn` is history. `OnlyTheHiddenIsDropped`
compares the rejects with a reference: the pixels of the triangles the GPU
would draw. Plans have an even margin.

### LzExtent

`CutOff` is the end of the budget inside the game's decompressor: `Describe`
resolves the table entry and scans its stream in memory as it then is. The process
aborts after that; the model lets the decompressor go on as it would with a
longer budget, so that the report can be held against what it would have done.
The decompressor is environment, modelled from the registers and the token format
the report relies on; a reference may copy any byte of memory, and beyond main
memory it is not followed (`strayed`). Whether the wrapper's registers name
the entry being decompressed is one bit of the call (`listed`).

### Provisioning

`run[l]` is the place of one `tools/run.py` in its stages, each an action with
its success and its failures; what a failed stage may leave behind is part of
its failure. `configured`, `discdump`, `player` and `installed` are what the
stages leave in the build tree and in `scratch/`, for later runs to find. The
eight facts the manifest records of the executable are one verdict, and staging is
per process. A launcher may be killed at any place; the user changes disc images
and `.env` at any time. `shared` is history: whether another launcher was at work at
some moment of this run. `NoDisc` in `.env` stands for no file, no line and an
empty value alike. Relative paths are taken from the repository root, where
`run.sh` changes to; `bootstrap.py` started elsewhere with a relative
argument is not covered. Nothing the launcher does after starting the player
changes anything, so `Launch` ends the run.

### PairProbe

A leg at a time, one action per call on the product or on its process, since the
product may move, stall or go in between. `client` says whose product answers on
the port: the leg's own, or one another person started, which
`other_product_running` passes over when it is of this title. The `finally`
(wait, terminate, wait again) is the two actions `Wait` and `WaitAgain`, and an
exception on its way through it is `raised`. Of a log the model keeps the lines
that announce a picture, and others; the file may still hold an earlier run's
lines when the product opens it, and does so when the product ends before that.
`had` and `stale` are history: which captures there were before, and whether the log
still holds an earlier invocation's lines.

### EndpointWait, CompletionProbe, LoaderProbe

An endpoint is closed, open without answering, or answers, and changes at any
time. Both probes wait for it in the same way (`EndpointWait`). The completion
probe then reads one word per action while commands are submitted, written and
completed; `truth` is history, whether a command was in flight while they were
read. A word that cannot be read is -1 and, in Python, has every bit set. The
loader probe waits for a field, reads rows word by word and marks what changed.

### VsyncCensus and VsyncGate

A text is a function from addresses to what the decoder can tell of an
instruction; the census names a call's mode from its delay slot or by walking
back (`ModeOf`). Afterwards the same text is executed, delay slots included, with any
branch taken or not and any value in a0 after a call, so that `passed` is the
mode really passed. `Misled` lists the five things the walk does not look at;
`NamedUnlessMisled` is the claim for all other sites.

`VsyncGate` is `main`: loading, hashing, the selftest's second load, the census, the
comparisons, and the exit status. Loading is two steps, the read and the look at the
file's size (`Load`, `CheckSize`), and the file may be replaced between any two
reads. Of an executable it keeps exactly what the gate can tell apart. An image's
text is a variable of its own: the image that is measured is the one whose text
is counted.

### GhidraQuery

A program is the disassembled words, the function around each word (bodies may
have holes), and the words with the mnemonic `scan` looks for. A command line is up
to two addresses, malformed ones included. `data` and `disasm` go through memory,
`func` through its addresses, `scan` through the listing and then through its hits.
`AnswersInFull` has a conjunct for each mode and what its status says: a batch lists
or counts every address and ends with 1 exactly when none resolves, and breaks off
exactly at a malformed one; `data` prints the words asked for up to the first outside
memory; `disasm` and `scan` list all and only their range and their matches; `calls`
succeeds exactly when a function contains its address. The callees `calls` prints are
a list of Ghidra's, of which the model keeps nothing.

## 3. Runs

| Run | Instance | Shows |
|---|---|---|
| `frame_safety` | 2 buffers, 1 character, words wrap at 3 | type invariant, `PendingAgrees`, `HeldFrameOwnsItsTables`, `FrameIdentity`, `FieldServices`, `WarpOnlyAtOpenBoundary`, `ImplementsProtocol` |
| `frame_liveness` | 2 buffers, 2 characters, lines of up to 3 of 4 words, no clock | `StartBelongsToRequest`, `RequestConsumedWhole`, `DriverProgresses`, `WarpLands` |
| `sector_wait` | 3 reads, chain of 2, 1 buffer, no clock | type invariant, `NoSectorLost`, `SectorOnItsWay`, `CallbackOnlyWhileOwed`, `ImplementsHandshake`, `WaitsEnd` |
| `sector_order_late` | 3 reads, chain of 2, the overrides alone | violation, see Findings |
| `gpu_timeout` | words of 16, timeouts 2 and 3, ring of 4 | `ReportNamesTheBacklog`, `TimesOutOnTime`, `EveryWaitEnds` |
| `tile_wedge` | tile 0 or 3, 4 coordinates, 5 direction words | `WalkCloses`, `OnlyClampedMarchesAreCut` |
| `tile_wedge_bound` | tile 3 | violation, see Findings |
| `stage_clip` | tables 0 and 5, 3 plans, 6 primitives, calls of up to 3, capacity up to 2, 30 words | `TablesAreSound`, `CountsAreOfPackets`, `OnlyTheHiddenIsDropped` |
| `lz_extent` | 6 bytes of memory of 5 values each, 13 calls | `ReportIsSound`, `OrderlyCallIsConsistent` |
| `provisioning` | 2 launchers, 2 discs, pin and 1 clone, 4 command lines | `InstalledIsVerified`, `LaunchesItsOwnBuild`, `PlayerReadsProvisionedDisc` |
| `probes` | logs of 2 lines; 7 words of a verdict; 3 rows of 2 words | `OneProductAtATime`, `ReportsWhatItSaw`, `CompletionProbeIsTruthful`, `LoaderProbeIsTruthful`, `ProbesEnd` |
| `image_tools` | texts of 5 instructions, walks of 3, 4 kinds of replacement; 3 words, 2 functions, 2 arguments | `NamedUnlessMisled`, `PassIsEarned`, `PassHidesNoWait`, `QueryAnswersInFull` |

`WalkCloses`, `TablesAreSound`, `ReportIsSound`, `ReportsWhatItSaw`, `PassIsEarned`
and the probes' and the query's properties are conjunctions of named parts, the
module's type invariant among them; `DriverProgresses`, `WaitsEnd` likewise of
leads-to properties. The type invariants of `GpuQueueTimeout` and `Provisioning`
are proved (section 4) and not checked again.

`probes` and `image_tools` are sums: one tool is run, the others stay at one of
their initial states and take no step.

Why the bounds are enough:

- *Two buffers* is what the game has. Only `frame_safety` uses symmetry: all its
  properties, the refinement included, are safety properties and treat the
  buffers alike. Words that wrap at 3 tell
  a stale field number from the current one and the one before. Character
  numbers play no part in the driver. The liveness run keeps one word value:
  its properties do not look at the clock.
- *Warp.* Two characters make a mixture of two requests visible; the words
  include no number and the first number past the last.
- *Reads.* Identities are reused in turn, and more of them than the chain can
  hold are needed to tell a finished read from the next: three for a chain of two.
  The state space is cyclic, so histories are unbounded. One buffer and no clock,
  since the loader looks at neither.
- *GPU words.* Sixteen values hold both timeouts twice over on
  either side of the sign; the clock runs round, so waits are armed at
  every phase, including across the sign change.
- *Tiles.* Three units are the fewest with a first, middle and last
  coordinate in a cell; the coordinates are past the low clamp, in a cell
  of the lower and upper half, and past the high clamp. The steps are 0, 1 and
  2 units up and 0, 1 and 2 down, one of them a rounded-down half, for each axis
  of each edge, and their march may be cut by either axis' bound. A step longer than
  a tile could leave the block from inside it; the instance has none, and
  `ExitsOnBorder` is not claimed of one.
- *Clippers.* Two calls fit the buffer, so that packets of one follow those
  of another; three commands are one more than the capacity; the tables
  are an index and the same less five. The primitives lie in each margin, across
  an edge, above, behind an unknown opcode, and one is shown with no vertex shown.
- *Report.* A token, its two bytes, a terminator and output fit six
  bytes in every arrangement: output before, over, inside and behind the stream.
  Bytes of three bits with lengths of two keep every case of the format, and
  a bound of two is met exactly, exceeded, and not reached.
- *Launchers.* Two can share a tree, kill and follow each other; more meet in
  pairs. The command lines have an argument against the environment, the
  environment alone, neither with a clone, and neither with `PSXPORT_DIR` empty.
- *Probes.* Two lines hold an old log's announcement and a new one, or a new one and
  one that changes it; the theorem is of logs of any length above one. Two words of a row and three rows are the fewest in which a word may
  change, stay and change back while another is read.
- *Texts.* Five instructions have room for a write, a call with its delay slot and
  another call with its own; three words of walk are met exactly, exceeded and not
  reached. Every text with one call near its end is taken, and every one with several calls
  of a smaller instruction set against every record. Files are replaced for one of
  them only, since what a file can differ in is independent of the text.
- *Query.* Three words have a hole between two instructions and between two parts
  of a function; two addresses are the fewest for a batch or a range.

`Aborted`, `Over` and `Ended` stutter where the process ends, so deadlock is checked in
every run.

### Fairness

- `frame_liveness`: the host keeps calling `stepFrame` and the field's own code
  runs (weak fairness). A spanning call that is advanced field after field
  returns in the end (strong fairness on its returning outcome): the point of
  spanning calls is that the guest's waits get host turns and interrupts
  (`finite_frame.h:41`), and `sector_wait` shows for the loader's wait that what it
  waits for comes. Aborts stay possible and are named in the properties.
  `WarpLands` assumes that the console arms no more from some point on (no `ArmWarp`
  step of the driver) and that both screens keep coming back to open boundaries, and
  then needs only that the host calls.
- `sector_wait`: the driver as above, but nothing is assumed of a call that waits.
  A turn is one display field of guest time (`kFieldTurnCycles`), so over
  endlessly many turns the timer runs, the drive delivers what it owes, a pending
  interrupt is taken and a wait that is over is left: strong fairness, of these steps
  *inside turns*. Asking for a read is never forced. `HeldByteFalls` adds, as its own
  premise, that the guest goes on getting turns, since a guest that polls need not
  be suspended.
- `gpu_timeout`: only the waiting guest itself. No progress of clock or GPU is
  assumed, which is what the poll count is for.
- `probes`: the probe runs (weak fairness), and its deadlines pass (strong
  fairness of giving up, which a busy endpoint interrupts again and again; weak
  fairness of the loader probe's). Nothing is assumed of products or endpoints:
  `wait(timeout=...)` ends by itself.

### Findings

1. `sector_order_late`. `sector_ready_order.h:28` says that
   `chainCompletionApplies` is "False for a class-2 completion that arrives after
   its read already finished." The code tests only the held byte. The sector of
   read *n* comes early, the override delivers the completion, the read ends, the
   loader asks for read *n+1*, and then the timer delivers read *n*'s own
   completion: the byte is up again, and it is applied. `sector_wait` shows it
   does no harm: what it installs is what read *n+1* is owed anyway.
2. `tile_wedge_bound`. `marchStepBound` is "Iterations a march needs to leave the
   block, ceil(6*tile/|step|)+1" (`stage_tile_wedge.cpp:104`). Division rounds
   toward zero, so coordinates in `(-tile, 0)` still count as cell 0, and a march
   from a camera clamped to `3*tile-1` with a negative step may need about a tile
   more. With tile 20480 and steps (-1445, 1060) a march from that clamp is bounded by
   87 iterations where the unbounded loop takes 100. `OnlyClampedMarchesAreCut` bounds the damage: no
   other march is cut, and (`ExitsOnBorder`) a cut march is on the border already,
   so the walk still ends; cells along the border may be missing.

Differences between code and comments that no run states as a violated claim. Each is
in the model, and a property that would deny it is weakened by name to what holds:

- The pair probe refuses when a capture is missing: "The run that was supposed to write
  it never reached the checkpoint or failed before the shot" (`probe_widescreen_pair.py:400`).
  It looks for a file only (`:398`), and nothing removes one an earlier invocation
  with the same frame left (`:146`), so it compares that one. `ComparesWhatItShot`
  is therefore about captures that were not there before; of all captures it is false.
- Of a product without an announcement "there is nothing to read" (`:95`), but the log is
  read from the file (`:215`), and nothing removes the one of an earlier invocation
  (`:145`): a product that ends before it opens its log gets the earlier run's width.
  `VerdictIsSteadyState` excuses exactly that leg, by `stale /\ picture = "none"`;
  without the excuse it is false.
- The pair probe may also drive, shoot and stop a product of this title that somebody
  else started (`:64`, `:205`).
- The completion probe refuses a verdict without its two command words, but makes
  verdicts of any other word that reads as -1 (`probe_cd_completion.py:121`).
- The VSync walk stops at branches it meets, not at branches into the code it walks
  over, nor does it see a delay slot (`verify_vsync_field_clock.py:241`); `Misled`.
- The gate calls a passed executable authenticated ("all match the authenticated image",
  `:524`) when the manifest has no hash (`:492`), and hashes another reading of the file
  (`:491`) than the one it measures (`:488`; in the selftest `:367`). Without `~replaced`,
  `UndisturbedPassIsRetail` is false.
- "Unresolvable ones are counted and exit non-zero" (`ghidra_query.py:69`); a batch
  exits with 0 as soon as one of its addresses is resolved (`:87`).
  `BatchAccountsForAll` states the code's rule; by the comment's rule,
  `mode = "func" /\ exit = 0 => miss = 0`, two addresses of which one resolves are a
  counterexample.

## 4. Proofs

For every value of the constants, from the named assumptions of the modules
(the size of a word, that an absent value is none of the values, what a
configuration may consist of), which TLC evaluates in the runs:

| Theorem | Statement |
|---|---|
| `DriverTypeOK` | `TypeOK` always |
| `PendingAlwaysAgrees` | `PendingAgrees` always |
| `HeldFrameAlwaysOwnsItsTables` | `HeldFrameOwnsItsTables` always |
| `FrameKeepsItsIdentity` | `FrameIdentity` always |
| `FieldsServeInOrder` | `FieldServices` always |
| `DriverImplementsProtocol` | the driver implements `FrameProtocol` |
| `StartAlwaysBelongsToRequest` | `StartBelongsToRequest` always, inside the driver's fields |
| `RequestsAreConsumedWhole` | `RequestConsumedWhole`, inside the driver's fields |
| `WarpActsOnlyAtOpenBoundary` | `WarpOnlyAtOpenBoundary` |
| `NoSectorIsLost` | `NoSectorLost` always |
| `HeldReadIsOnItsWay` | `SectorOnItsWay` always |
| `CallbackIsOwed` | `CallbackOnlyWhileOwed` always |
| `OverridesImplementHandshake` | the overrides implement `SectorHandshake` |
| `WaitIsDriven` | the composition with the loader's wait refines `FrameDriver` |
| `WaitedSectorIsOnItsWay` | the same three and `ImplementsHandshake`, in the composition |
| `WaitsBelongToTheCall` | `WaitTypeOK` always |
| `QueueTypeOK` | `GpuQueueTimeout`'s type invariant |
| `ReportAlwaysNamesTheBacklog` | `ReportNamesTheBacklog` |
| `AlwaysTimesOutOnTime` | `TimesOutOnTime` |
| `TablesAreAlwaysSound` | `TablesAreSound` always |
| `CountsAreAlwaysOfPackets` | `CountsAreOfPackets` always |
| `OnlyTheHiddenIsEverDropped` | `OnlyTheHiddenIsDropped`, of plans with an even margin |
| `OnlyClampedMarchesEverCut` | `OnlyClampedMarchesAreCut` always |
| `WalkAlwaysCloses` | `WalkCloses` always, of steps no longer than a tile |
| `OneProductAlwaysAtATime` | `OneProductAtATime` always |
| `PairReportsWhatItSaw` | `ReportsWhatItSaw` always |
| `CompletionTellsTheTruth` | `CompletionProbeIsTruthful` always |
| `LoaderTellsTheTruth` | `LoaderProbeIsTruthful` always |
| `PairProbeAmongThem` | the pair probe's two properties in the composition |
| `PassIsAlwaysEarned` | `PassIsEarned` always |
| `NamedModesArePassed` | `NamedUnlessMisled` always |
| `NoWaitIsHidden` | `PassHidesNoWait` always |
| `GateAmongThem` | the gate's three properties in the composition |
| `QueryAlwaysAnswersInFull` | `QueryAnswersInFull` always |
| `ReportsAreSound` | `ReportIsSound` always |
| `OrderlyCallsAreConsistent` | `OrderlyCallIsConsistent` always |
| `ProvisioningTypeOK` | `Provisioning`'s type invariant |
| `InstalledIsAlwaysVerified` | `InstalledIsVerified` always |
| `AlwaysLaunchesItsOwnBuild` | `LaunchesItsOwnBuild` always |
| `PlayerAlwaysReadsProvisionedDisc` | `PlayerReadsProvisionedDisc` always |

*The warp.* `WarpTypeOK /\ StartBelongsToRequest` is inductive as it stands:
`startsSinceArm` is the history that ties the flag to the request. That a
consumed request was started is the third fact `RequestConsumedWhole` needs. That
the driver changes the warp's variables by `FightWarp`'s actions alone (lemma
`DriverUsesWarp`, which the definitions make plain) carries both into the driver.

*The driver.* None of the driver's properties is inductive: they speak of one
place (`splice`, `idle`) while what makes them true was done places, and
possibly many fields, earlier. `DriverInv` carries it along. Its conjuncts say,
for every place, which call is suspended, which stage that place belongs
to, which tables are open, which buffer the open frame remembers, which stamp
it was opened under, what the field has served so far, and what was handed over
last. `DriverInv` is preserved one action at a time (a lemma per action, a step
per conjunct the action can disturb); the properties follow from it, and the
refinements use it as the invariant under which every step is a step or a
stutter of the abstract one. `BufferToHandOver` in `{finished, submitted}` is the
fact that refinement of `FrameProtocol` stands on: the current buffer is the one
finished last, and the prior buffer the one handed over last.

*The sector order.* `SectorOnItsWay` says that a held read is somewhere on its
way; it is not inductive, since nothing in it stops a flush from meeting a
pending command or a second read from being asked for behind the first.
`OrderInv` adds the shape of the chain (only its last entry can be still to
acknowledge, it is the held read, and its command is written only at the head)
and ties the controller's flag to the chain and the drive. It is a predicate of
the record rather than of the variable, so that two lemmas can say what holds
in the middle of an action: `ServiceKeeps` of the interrupt service,
`FlushKeeps` of a flush around it. The second is where the fix under proof
does its work: what the flush would discard has been serviced.
`OverridesImplementHandshake` sorts every action by what it does to the held
read and to the read under way; `OrderInv` says that the two are never different
reads, which is what the abstract `Consume` needs.

*The wait.* Every step of `SectorWait` is a step of the driver or a stutter of it
(`WaitIsDriven`), and the same of the overrides, so whatever is proved of either
part holds in the composition, and `SectorOnItsWay` says of every wait that what it
waits for is coming. `SpinAgrees` is what the bytes say of each other: the busy byte is
set exactly while somebody waits for a read that is held, so a wait whose spin is over
finds its read ended and withdraws no later one. `WaitTypeOK` needs the driver's `DriverInv`: which call runs
at which place is what makes the wait belong to it.

*The GPU timeout.* The words say nothing of how much time has passed; the
histories do. `ClockAgrees` ties them together: while the clock keeps its sign, the
signed distance of the field word to the deadline is the number of fields
passed. Two lemmas about wrapping words (`SignedSuccessor`, `SignedDeadline`) are all
the arithmetic it takes, for any even modulus. `RingAgrees` is the same for the ring.

*The clippers.* One fact holds the lists and the packets together: everything in the
buffer lies before the place of the next packet (`HeadersFit(Fill)`), so a packet is
new to every list and overlaps nothing. `LinkKeepsHeaders` and `LinkKeepsLists`
say so of one packet, for both clippers. `CallAgrees` keeps ten words of room for
every packet the call may still produce. The counts follow from `CountsAgree`,
which splits the kept commands by their opcode, one command a step. `PassedAgree` says
of every command the loop has passed that it was kept if it was visible;
`OnlyTheHiddenIsDropped` then needs that a pixel of a triangle is never outside
all its corners. A point of the triangle is the mean of the corners weighted by the
turns around it (`TurnsWeigh`, `TurnsAddUp`), so it lies between their least and
greatest column and row (`PointIsBetweenCorners`). It is proved for margins of a
whole number of columns (`EvenMargins`, see section 5).

*The tile selector.* `QuotientInBlock` says what division toward zero does at the
block's edges. `WedgeInv` keeps the camera's ray: where the march stands is its
origin and so many steps (`OnItsRay`), and what it reached is the cell one step
back (`ReachedBehind`). The bound is enough steps to cross the block on some axis
(`AxisStepsCross`, `BoundIsOfAnAxis`), so only the tile of quotients that round up
to zero is left for it to cut. `WalkInv` adds that exits are on the border, and the
distance left between them along it: `Place` numbers the border's twenty cells in
the order of the walk, and each move shortens the distance by one
(`WalkGetsNearer`). That a march ends on the border is true only of steps no longer
than a tile: a longer one could leave from the middle. `StepsWithinATile` is the
hypothesis, and what the stages publish: "tile 10*unit" with "step scale 7*unit"
(`tests/widescreen_stage_wedge_contract.cpp:51`), directions of amplitude 4096
shifted by 15 (`stage_tile_wedge.h:45`). The run evaluates it for its instance.

*The pair probe.* Only the current leg's product lives, and it is gone before the
leg's report: the two ways out of the `finally` are the only ways to the report.
`ReportInv` says what a leg has shown at every place of its way (`LegIsHonest`,
`ShotsAgree`), and, by `WidthAgrees`, that the picture on the product's screen
is the one its log announced last, older lines in the file notwithstanding. As long as
an earlier log may be in the file, a product still booting has written nothing to it, and
one that truncated it owns every line. The excuses of `ReportsWhatItSaw`, an
earlier log never opened and an earlier capture, are the theorem's too. It needs room for
two lines in a log (`MaxLinesAssumption`).

*The endpoint probes.* A verdict of the completion probe joins words read at
different moments. `ChainWasSo` and `CommandWasSo` say what each word proves about
the moment it was read; since only a chain in flight can have a command outstanding
(`GuestAgrees`), the one read first settles the verdict whenever the other does not.
For the loader probe `ComparesWithTheLast` ties the row kept for comparison to the
row printed last. `ToolInv` is the three tools' invariants, one of which is run.

*The census.* `CensusInv` ties the guest to the census: between a literal write the
walk stops at and its call, the guest's a0 holds the value written (`A0Holds`),
however it got there, unless the site is one of those `Misled` lists.
`NamedIsWritten` is what the walk proves of the text, `ExecutionKeepsA0` what a
step of the guest keeps. A text that passed has only the recorded calls
unresolved, so `NoWaitIsHidden` follows.

*The query.* `BatchSoFar`, `RangeSoFar`, `ScanSoFar` and `EnclosingSoFar` say that the
answer so far is the answer for what is behind `pos`, and `DataSoFar` the same of `data`. A batch is compared by rank: the
function of the i-th address is listed at the number of addresses resolved up to
it. That a listing's iterator skips nothing is `NextIsLeast`, from the well-foundedness
of the numbers.

*The gate.* `PassIsEarned` is about the end of a run; `Hashed` carries what was
compared from the place of the hash to there. That the census' modes have their types
rests on the walk finding the nearest stop (`MaxIsElement`, from the
well-foundedness of the numbers).

*Provisioning.* `LaunchesItsOwnBuild` speaks of the last place of a run; `Inv`
carries each stage's result from the place that produced it (`OwnTree`,
`DiscAgrees`, `OnlyVerifiedMoves`). That nobody else changes it meanwhile is
`SharingIsMutual`: of two launchers at work both know that the tree is shared. So
another's step disturbs no claim (`OneLauncherMoves`, used by every action), and
a run may end anywhere whatever its failing stage leaves (`AnyRunMayEnd`).

*The decompressor's report.* The scan is a recursive function, and what makes it one
is that every turn of its loop reads on: `ScanLoops`, its equation at any point of the
loop, comes from the bytes left (`SolutionsExist` takes the least number of them for
which there would be no solution). The report reads memory the decompressor has
been writing to and goes on writing to, so the invariant cannot speak of one
memory. Before the report `StreamParsed` says it of every memory that holds the
stream read so far: a scan of it passes the point where the decompressor is
(`Passes`), or has exceeded the limit. After it `Reported` says so of the one memory the
report was made of, which differs from the present one only inside the output.
Both hold while the output is apart from the stream (`Apart`), and a consistent
report keeps them apart: a complete scan that passes a point has a whole token
there, and room for it (`CompleteLooksAhead`), so no step leaves the extents
(`StepKeepsPromise`). `ReportIsSound` and `OrderlyCallIsConsistent` are what that says of
a call that is over.

Only model-checked: the five liveness properties (`DriverProgresses`, `WarpLands`,
`WaitsEnd`, `EveryWaitEnds`, `ProbesEnd`), since no prover here handles liveness under
fairness. Every other property of the runs is a theorem.

## 5. Not modelled

- Register, stack and tick bookkeeping of the overrides, and the words
  `runDisplayInit` writes: nothing here reads them.
- Aborts only a host calling out of order could reach (a field before the boot
  prefix, a second boot prefix): the framework calls each once, in order.
- A packet's payload words, the view presets and the guest's own dimension body;
  the floating-point widening of the tile wedge's direction.
- The decompressor report's copy and output progress figures.
- Host package advice, messages and help of the launcher; the provisioner's
  selftest.
- The pair probe's selftest and its search of logs for frame rates; the query's
  mode `xrefs`, which prints one list; `verify.py`, which hands over to the
  framework.
- Tests and build: not part of the running system.

Three hazards of the code have no property and no entry under "hazards", which
keeps to those the checks reach:

- `sector_ready_order.cpp:87` services pending interrupts once; one raised between
  that service and the guest's own flush is still lost. How often a
  device raises one there is the framework's timing, not this code's.
- `widescreen.cpp:65` halves the margin: with an odd difference of presentation
  and draw width the columns are one fewer than presented. The plan comes from the
  framework, and the modelled plans have an even margin.
- `widescreen.cpp:238`: an opcode of no known kind leaves the command pointer on
  itself, so everything behind it is skipped. The model does the same; whether a
  guest stage list can hold one is not in this code.

## 6. Plan

Done: every part of section 2, checked, and its safety proved; three refinements,
and the composition `SectorWait` refines both of its parts.

Worth doing next:

1. `LzExtent`: the copy-loop figures, and the wrapper's table in memory the
   output may reach.
2. `StageTileWedge`: the widened direction as an interval of directions, so that
   the dropped floating point becomes a bound.
