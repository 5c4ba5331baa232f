# TLA+ models of the Simulink target support for ED247

This directory holds the specifications of the ED247 blocks, their model-checking
runs and their proofs. Source paths are relative to the root of the repository;
`interface.cpp` stands for `c_sources/src/ed247_interface.cpp`, `receive.cpp`,
`send.cpp` and `configure.cpp` for the files `ed247_sfun_*.cpp` in
`libraries/ed247/sources/`, `sfun.cpp` for `libraries/ed247/ed247_sfun.cpp`.

## 1. The system

An ED247 simulation exchanges avionics data (analog, discrete, NAD, VNAD, A429,
A664, A825) with other simulations over UDP frames. The ED247 library does the
networking. This repository connects it to Simulink.

| Component | State | Operations | Hard behaviour |
|---|---|---|---|
| **ED247 connector** (`interface.cpp`) | two sides (`inputs`: what the model sends; `outputs`: what it receives), each with a fixed array of streams and one of signals; the library context | `readED247Configuration` (with `localSignalsFromECIC`, `localSignalsFromICD`), `sendSimulinkToED247`, `receiveED247ToSimulink`, `allocateMemory`, `freeMemory` | array limits, early returns in the middle of a loop, ignored statuses, frames of several channels that are lost or wait, samples attributed by position |
| **CMD reader** (`ed247_cmd_xml.cpp`) | one static structure of messages | `readData` and its `fill*` helpers | limits; attributes kept from the file read before |
| **Receive block** (`receive.cpp`) | a counter per signal (DWork), the flags `do_refresh` in the connector | `initialize`, `start`, `outputs`, `update`, `RTW` | validity durations against a saturating counter, minor time steps, stale flags |
| **Send block** (`send.cpp`) | port numbers and flags in the connector | `initialize`, `outputs`, `RTW` | partial refresh |
| **Configure block** (`configure.cpp`) | owns the connector | `initialize`, `terminate`, `RTW` | ignores the status of the reading |
| **S-function shell** (`sfun.cpp`) | static pointers: one connector, one object per kind of block | the `mdl*` callbacks | order of the callbacks, stale pointers, re-initialisation |
| **TLC files** (`*.tlc`) | as the Receive block, in generated code | `Start`, `Outputs`, `Update`, `Terminate` | must behave like the S-function |
| **MEX gateway** (`ed247_mex.cpp`) | none | configuration to a MATLAB structure | walks arrays by unchecked counters |
| **Mask classes** (`+blocks/*.m`) | mask parameters, configuration cached in the model workspace | `getPorts`, `enableRefresh`, ... | labels must agree with the ports of the S-function |
| **Settings** (`Configuration.m`, `ConfigurationUI.m`) | a settings file with a group per platform; handle objects with a dirty flag | `save`, `reload`, `reset`, set methods, destructor, buttons of the dialog | two objects on one file, unsaved values, files of older versions |
| **Packing for the target** (`addXmlFile.m`, `*.tlc`, `tools.cpp`) | the files in `/misc` of the application | build hook, start of the generated code | files found on the host but not on the target, old lists of files |
| Compilation (`compile.m`, `Speedgoat.m`, `+ci`), other utilities, analysis wrappers | none that outlives a call | | external tools |

How they interact. Simulink calls the S-function shell, which dispatches to the
block objects. The Configure block makes the connector, which reads the
configuration; the Send and Receive blocks build their ports from its arrays. At
each step Send copies port pointers and refresh flags into the connector and
calls `sendSimulinkToED247`; Receive calls `receiveED247ToSimulink`, which
copies samples to the ports and sets `do_refresh`, and then derives its refresh
ports from these flags and its counters. Two simulations interact only through
frames.

What must be right, per component:

* reading: streams and signals agree with each other, with the arrays and with
  the file; what is lost is reported;
* receiving: a refresh port tells the truth about the age of the data;
* sending and receiving together: a signal shows data that was sent for it, in
  order, and the signals of a step belong together;
* S-function shell: no block uses a connector that was deleted, nothing leaks;
* masks and TLC files: they agree with the S-function, port by port;
* settings: nothing that was saved is lost, what was set is saved;
* packing: the program on the target reads the signals that its code was made for.

## 2. Modules

| Module | Models |
|---|---|
| `Freshness` | abstract specification of the refresh ports: elapsed time since the last delivery, nothing else |
| `ReceiveBlock` | `Receive::start`, `outputs`, `update` with the flags of `receiveED247ToSimulink` |
| `ReceiveBlockProofs` | theorems about `ReceiveBlock` and `GeneratedCode` |
| `Delivery` | abstract specification of two connected simulations whose sends are whole: a line of steps per channel, nothing else |
| `Transmission` | `Send::outputs`, `sendSimulinkToED247`, the channels of the library and the network between, the data of `receiveED247ToSimulink` with its returns |
| `GeneratedCode` | `ed247_sfun_receive.tlc` beside `ReceiveBlock`, both on one connector |
| `ConfigurationReader` | `readED247Configuration`, `localSignalsFromECIC`, `localSignalsFromICD` |
| `CmdReader` | `Cmd::readData` and its helpers, file after file into one static structure |
| `Ports` | the port numbers of `Receive::initialize` and `Send::initialize`, the tables of `RTW`, the MEX gateway, `getPorts` and `createBus` of the masks, the configuration in the model workspace |
| `SFunctionLifecycle` | the callbacks of the S-function shell with the static pointers, `Configure::initialize`, `terminate`, `allocateMemory`, `freeMemory` |
| `Settings` | `Configuration.m` and the callbacks of `ConfigurationUI.m` |
| `Deployment` | from the files on the host to the program on the target: MEX gateway, `RTW`, `addXmlFile`, `ConfigureStart`, `Tools::fileexists` |
| `TransmissionProofs`, `ConfigurationReaderProofs`, `CmdReaderProofs`, `PortsProofs`, `SFunctionLifecycleProofs`, `SettingsProofs`, `DeploymentProofs` | the theorems about each of these modules |
| `MCReceive`, `MCGenerated`, `MCTransmission`, `MCConfiguration`, `MCCmd`, `MCPorts`, `MCLifecycle`, `MCSettings`, `MCDeployment` | values of the constants for TLC |

How they fit together. `GeneratedCode` composes the generated code with
`ReceiveBlock`: one step is a call of both on the same data. `ReceiveBlock`
implements `Freshness` under `KeepsPromise`; `Transmission` implements `Delivery` while
all sends are whole and no reception leaves data waiting (`WholeSendsAreSteps`). `Ports` and `Deployment` each compose
several parts of the system that look at the same file at different times; they
take from the connector only the list of signals that a file gives, which
`ConfigurationReader` justifies: for files that fit into the arrays
(`RoomIsEnough`) this list is complete, and in the order of the file
(`ListsEnumerateSignals`). The messages that `ConfigurationReader` takes as given
for a stream are those that `CmdReader` shows to be found for the name of its bus
(`LookupIsExact`).

Operators commented "Mistake:" are plausible bugs that the properties were tried
against; no specification uses them.

### ReceiveBlock

State: `phase` (where the engine is), `doRefresh` and `lastUpdate` (the fields of
the code), `refresh` (the ports), `status`. The variables `age` and `stale` are
history: how long ago data was really copied, and which signals the last calls
did not look at.

`Start`, `Outputs`, `Update` are the three callbacks. `Outputs` takes what the
stream loop did as parameters: `read` (signals whose flag was decided), `got`
(those that were copied), `ret` (the status). `StreamLoop` says which of these
are possible: streams before `stop` are walked through completely, nothing
happens behind it, and `LeaveLoop` is the early return at `stop` (a read failure
in the middle of a stream of an assistant, or a stream of unknown type). A
library call has any outcome the code tests for. Initially `doRefresh` is
arbitrary, because `allocateMemory` does not clear the arrays.

Time is in multiples of an arbitrary unit. With `SampleTime = 0` (continuous
block, inherited sample time) `Outputs` may happen several times before `Update`:
`mdlOutputs` does not test for major steps.

Three facts that the model made explicit:

* The counter is 0 one step after a reception, so a signal stays fresh one period
  longer than its validity duration. `Recent` and `Freshness` state the behaviour
  as it is.
* With a continuous sample time the elapsed time is always 0, so a signal with a
  validity duration is reported as refreshed for ever, even if it was never
  received; and a reception at a minor step can be overwritten before `update`
  sees it. Completeness is therefore stated for discrete blocks.
* With a validity duration above `MAX_COUNTER` periods a silent signal stays
  fresh. `ValidityCountable` excludes this (10^7 periods in the code).

### GeneratedCode

The template writes the code of the Receive block signal by signal, for the
signals that `RTW` named. `dwork` and `port` are its counters and refresh ports.
Only signals with a refresh port have code for the counter, so the other counters
never change on the target, while the S-function counts for all of them.
`GeneratedAgrees` says that the ports do not show this. The Send block is the
same loop in both forms (`ed247_sfun_send.tlc`), and is not modelled again.

### Transmission

A sample is the number of its send and the set of signals it carries. Streams
with an assistant carry all their signals in one sample; A429, A664 and A825
streams push one sample per signal with `do_refresh`. `outbox` is what the
library has of each stream before `ed247_send_pushed_samples`; a call that
returns early leaves it as it is. Each stream belongs to a channel, which has sockets of
its own: `network` is the sequence of frames of each channel, and a frame holds the
samples of the channel's streams. `inbox` is what was received but not popped. `Receive`
takes the oldest frame of one or several channels, and then the stream loop (`StreamLoop`)
copies the j-th sample that waits on a stream to its j-th signal, as the loop of the code
does, and leaves the rest. When no frame comes the loop is not entered (`ReceiveNothing`),
and samples in `inbox` wait.

The loop may return from the middle (`ReturnsAt`): at a stream of unknown type
(`interface.cpp:284`), or where an assistant has popped its sample and cannot read a
signal (line 238). Signals in front of that point are assigned, the sample of the failing
assistant is gone, later streams are not popped. The streams of unknown type are those
that the receiver has counted without getting an assistant (`unknown`, which does not change).

What the model shows of these returns: the samples of the streams behind wait, and go to
the right signals later, oldest first (`WholeSendsMatch`, `NeverGoesBack`). But each call
pops one sample per signal only, so such a stream is read one frame behind the others from
then on, and its last sample is never read when no further frame comes. `skipped` is the
history of this: the streams that had data when a call returned before or at them.
`WholeSendsAreSteps`, `WholeSendsAreCoherent` and `LastSendArrives` name it as an
exception, and make no statement about those streams; the last two still speak of the others.

`Delivery` says what this comes to as long as every send pushes all signals and no stream
is skipped: the steps of the sender wait in a line for each channel; the network loses the
oldest of a line, or the receiver takes the oldest of one or several lines and shows it in
all signals of these channels at once and sets all their flags. In the refinement mapping a
frame stands for the step of its first sample, and a signal shows the step of its sample if
the sample is for it. `WholeSendsAreSteps` asks that every step that leaves `whole` true and
`skipped` empty is a step of `Delivery`. After the first partial or failed send nothing of
the kind holds. `WholeSendsAreCoherent` is the consequence for the receiver alone, and
holds for the streams that were not skipped even when others were; it is proved and not
checked by a run.

`Lose` drops a frame of a channel. The limits of the library's own stacks and samples that
overtake each other are not modelled. `whole` (all the sends so far pushed
everything and succeeded), `lost` and `skipped` are history. The model starts with
configured connectors that have the same streams on both ends.

### ConfigurationReader

One step is one call of the library or one message. The file is chosen in
`Init`: a sequence of streams with kind, direction and messages. For ICD streams
the messages are those the CMD reader found for the bus of the stream (one bus
entry per name; an `icd` attribute without a bus name is left out). A signal is
the pair of its stream and its message, so the properties can tell where it came
from; data types and sizes are abstracted. A slot with `of = 0` was never
filled: its type and number of signals are uninitialised memory.

What the model shows about the limits:

* `localSignalsFromECIC` counts a stream before it tests the limit, so `nstreams`
  passes `MAX_STREAMS` (`OverflowIsReported` says that the warning comes with
  it). Send and receive test both limits; the MEX gateway only `nstreams`.
* The A429 loop tests the limit for each message, even when the stream of the
  message exists. A bus that takes the last place keeps only its first message.
  Hence the strict "fewer streams than places" in `RoomIsEnough`; with "at most"
  TLC finds three streams in three places that lose a message.
* A NAD signal with too many dimensions ends its stream without any message.
* If `ed247_stream_get_assistant` fails, a counted stream is never filled.

### SFunctionLifecycle

`connector` and `holds` are the static pointers of `sfun.cpp`: the connector, and
for each block object the connector it was made with (0 without an object). They
live on from one simulation to the next; `deleted`, `arrays` and `loaded` say what
became of the connectors. The engine (`Begin`, `Run`, `Stop`, `End`; external) edits
the model between simulations, initialises its blocks in any order and any number
of times, may give up before the run, and terminates the blocks in any order.
`after` and `disorder` are history: whether the blocks were initialised after
the Configure block. A null pointer or a deleted connector behind a callback sets
`fault`, which ends the behaviour.

A model may have several blocks of a kind. There is one static object for each
kind, so the block that is initialised last is the one it works for (`serves`),
whichever block the engine calls. An object may also work for a block that the
model no longer has (`"gone"`).

What the model shows: without a Configure block, or with one that comes last, the
Send and Receive blocks keep the object of an earlier simulation
(`mdlInitializeSizes` returns early) and work on its deleted connector, or on a
null pointer in the first one. `FaultNeedsDisorder` says that nothing else leads to
a fault in a model with one Configure block, and in particular that the pointers
left by earlier simulations are then harmless. With two, the
second is terminated on a connector that the first has deleted. `BlocksServeThemselves` holds for the only
block of its kind; with two Receive blocks the callbacks of both work on the ports
and counters of one. `NothingLeaks` names the two exceptions: a connector that was
replaced by a second `mdlInitializeSizes`, and a context that could not be unloaded.

Not modelled: allocations that fail (`Configure::initialize` ignores them); the
pointer to `Tools`; a parameter count that does not match. The file name parameter
is never null, because the mask (`Configure.m`) passes an array of at least one
character.

### CmdReader

One step is one node of the file or one child of a bus. `slot` and `message` are the
fields of the static `cmd_data_t`, `counter` and `n_messages` its counters. Only the
counters are cleared for a new file; an attribute that a node lacks keeps what an
earlier file left at that place. `past` is the history of the files, from which
`Expected` computes, independently of the loop, what must be in each place.

`LatestFileWins` says exactly how far values leak from one file to the next.
`LookupIsExact` says that the lookup by name never finds a leaked entry, provided
that every node has a name. `OnlyMessagesGetLostInSilence` records that the limit on
messages of a bus has no warning, unlike the other four. The attributes that are
copied as they are (label, SDI, period, sizes, comment) behave alike;
`ValidityDurationUs` stands for all.

### Ports

The S-function numbers ports from the two lists of the connector; the mask labels
them from one list, the structure that the MEX gateway made when the file was last
put into the model workspace. The workspace is not refreshed while the name of the
file stays the same. `EditFile`, `SetFileName`, `Browse`, `LoadOrInit`, `SetRefresh`,
`InitializeSizes` and `CreateBus` may come in any order. `Seen` is nondeterministic:
the refresh parameter of the mask is a `uint8` that the S-functions read through a
pointer to `int_T`.

What the model shows:

* The labels filter both directions out of one list with inputs first. An A825
  stream is in both lists, with direction IN among the inputs and OUT among the outputs, so its labels come first for the Receive block
  and last for the Send block, whatever its place in the file. `LabelsRightExactly`
  gives the exact condition under which labels and ports agree.
* An A664 message takes its direction from the CMD file and its side from the
  stream. If the two disagree, the mask counts it on the other side, on both, or on none.
* `createBus` strikes refresh ports out with indices into the signals.
  `BusRightExactly` gives the exact condition under which a plain signal still
  reaches the bus; `bus_wiring` shows a case where it does not.

Files fit into the arrays, widths and data types are abstracted.

### Settings

`file` is a sequence of named groups (`Common`, and one for each platform). Objects
are MATLAB handles: `Delete` is the destructor, which saves a dirty object.
`Save` does not clear the dirty flag. A value may be any text (`Texts`): the set methods and
the fields of the dialog store what they are given, `save` writes it, and only `reload`
asks whether a folder exists. So a text in an object that is no folder was set there, or was in the
object when a file was loaded that had no folder for this field (`TypeOK`). `ConfigurationUI` holds one object while it
is open: `OK` is a save followed by the destructor; the Cancel button and the close
button only drop the object, so they save what was set as well.

`save` removes values of groups with an empty or repeated name but not their names
(`KeptPlaces`, `Places`, `Unfilled`): on a file of that kind it raises an error, or
stops in the middle of the file. Such files are in the runs; the properties about
what is kept need a well-formed one. `stale`, `unsaved`, `kept` and `writer` are history.

### Deployment

`Generate` is the code generation with the configuration of the model workspace
and of the connector, `Pack` is the build hook, `StartTarget` the start of the
program. The hook takes the list of ICD files from the workspace, drops their
folders, and stops at the first file that is gone. On the target `fileexists` ends
the program for any file that is not there; on the host it returns, and the stream
has no signals.

`ExitsExactly` gives the exact condition: some ICD file is in a folder of its own, or
not listed. A stream is listed when its ICD was read, an A429 stream only from its
first message on: a configuration with a missing or an empty ICD simulates on the
host and exits on the target. `RunningPortsAreRight` says that an old list of
files never leads to a running program with wrong ports.

A path is a folder and a name; `""` is the folder of the ECIC file. ECIC files
without a folder in their own name are left out: `Tools::fileparts` gives an empty
folder for them and the connector looks for their ICD files in the root directory.

## 3. Runs

| Run | Module, cfg | Shows |
|---|---|---|
| `receive_nominal` | `MCReceive`, `MCReceiveNominal.cfg` | without failures the block implements `Freshness`; silence is detected; saturation is harmless |
| `receive_degraded` | `MCGenerated`, `MCReceiveDegraded.cfg` | read failures and an unknown stream: refresh ports sound and complete, stale flags only after early returns; the generated code shows the same ports |
| `transmission` | `MCTransmission`, `MCTransmission.cfg` | partial and failing sends, losses, early returns of the receive loop: no signal ever goes back in time; while sends are whole each signal has data of its own; where no return left data waiting both simulations implement `Delivery`, and without loss the last data arrives |
| `partial_refresh` (violation) | `MCTransmission`, `MCPartialRefresh.cfg` | a partial refresh sends data to the wrong signal |
| `a825_skip` (violation) | `MCTransmission`, `MCA825Skip.cfg` | a failure on an A825 stream is not ignored: other streams are not sent |
| `lifecycle` | `MCLifecycle`, `MCLifecycle.cfg` | across simulations, with several blocks of a kind: a fault needs blocks in disorder; otherwise all blocks share one live connector, and a block that is alone of its kind serves itself; what is loaded is freed at the end |
| `configuration` | `MCConfiguration`, `MCConfiguration.cfg` | consistency and completeness of the reading, at and beyond the limits, with failures |
| `cmd_reader` | `MCCmd`, `MCCmd.cfg` | file after file: which values leak, that names are found exactly, what is lost without a warning |
| `ports` | `MCPorts`, `MCPorts.cfg` | the tables name every port once; when labels and bus are right, exactly |
| `bus_wiring` (violation) | `MCPorts`, `MCBusWiring.cfg` | `createBus` does not connect all signals |
| `settings` | `MCSettings`, `MCSettings.cfg` | saving keeps other groups; updates are lost only for three reasons; what was set reaches the file |
| `deployment` | `MCDeployment`, `MCDeployment.cfg` | when the program exits on the target, exactly; a running one has the right ports |

Bounds, and why they are enough:

* `receive_*`: three signals. Nominal has one stream of each behaviour, A825
  first because it changes the status without a frame; the validity durations are
  one between two multiples of the period and one at the largest countable value.
  Degraded has two signals on one stream (a failure between them), an ICD
  stream behind it and an unknown stream last, so that every call that receives a
  frame returns early, at one stream or the other (the calls that end normally are
  those of the nominal run). `MaxCounter = 3` so that saturation happens within a
  few steps. The theorems remove these bounds.
* `transmission`: an A429 stream of two signals (partial refresh) and a NAD stream of two
  (reading fails at the first or the second) on one channel, an A825 stream on another; the
  loop can return at the NAD stream, with a stream in front of it and one behind it, and
  pushing can fail at the first stream and at the last. Two sends (`MaxSends`) with every
  choice of refreshed signals are enough for samples of an aborted send to go out with the
  next one, for two frames to wait or be lost on each channel, and for a skipped stream to lag
  behind the others. The theorems remove these bounds.
* `configuration`: all files of up to four streams out of seven, three places for
  streams and four for signals on each side. Each side can be filled before, at
  and after the last stream, by streams and by signals independently. The reading
  ends, so deadlock is not checked (`CHECK_DEADLOCK FALSE`).
* `lifecycle`: two Configure, two Receive and one Send block and three connectors
  (`MaxConnectors`), so that a simulation can replace its connector, a later one
  meets the pointers of an earlier, and a block can be replaced by another or leave
  the model. The second Send block would be treated as the second Receive block is.
  Blocks of a kind are interchangeable, hence the symmetry. Models without a
  Configure block may be simulated without end. A fault ends the behaviour, so
  deadlock is not checked.
* `cmd_reader`: three files (`MaxReads`), so that a value can leak over a file that
  does not touch its place; two places for buses and messages and one or two for
  the rest, fewer than some files need. Nodes have every combination of a full and a
  bare set of attributes, with unknown names of types and directions.
* `ports`: two names of files and one change on the disk (`MaxEdits`): enough for
  the workspace and the connector to read different files, or one file before and
  after a change. The files have up to seven signals: every kind, every direction,
  A825 first, in the middle and last, an A664 message that disagrees with its stream.
* `settings`: two objects, two platforms, two folders, the empty text (which stands for
  any text that is no folder) and two fields, and two
  changes (`MaxChanges`: values, platforms, resets, edits by hand), so that two
  objects can both change the same field, or one changes what the other has
  loaded; saving, loading and deleting are not bounded. The objects are
  interchangeable, hence the symmetry; no liveness is checked in runs with symmetry.
* `deployment`: two ECIC files, ICD files of the same name in two folders, one
  change (`MaxEdits`) at any moment, also between generation and packing. `Pack` waits
  until no program of an older build runs: it would have its own copy of the files.
  The files of the host may be gone for good, so deadlock is not checked.

Deadlock is checked in all the other runs.

Fairness. `ReceiveBlock`: the engine keeps calling a running model, so `Start`,
`Update` and "some outputs" are weakly fair; nothing is assumed about frames.
`SilenceIsDetected` has no premise about the network: a signal is silent when it
is no longer received and its flag is decided. `Transmission`: the sender takes
its next step and the receiver keeps calling `ed247_wait_frame`, which returns a
waiting frame of some channel. Nothing is assumed of the stream loop, which may return early every
time. `LastSendArrives` has as its premises that no frame was lost, that all sends were
whole, and that no call left the stream in question with data waiting.

Findings. (1) `partial_refresh`: `sendSimulinkToED247` skips signals that are not
refreshed and `receiveED247ToSimulink` attributes samples by position, so a send
that refreshes only the second message of a bus overwrites the first one in the
receiver. (2) `a825_skip`: the comment says that the failure is ignored, but the
function returns before the remaining streams and before
`ed247_send_pushed_samples`. What was already pushed waits for a later send.
(3) `bus_wiring`: `createBus` removes the refresh ports from the list of ports with
indices into the list of signals. With an A429 bus of two received signals in front
of a plain signal and an A664 signal behind it, the plain signal is connected to a
port that is not its own.

## 4. Proofs

Every theorem holds for all values of the constants that the assumption of its module
allows (`ReceiveAssumption`, `ConfigurationAssumption`, ...). These say that the sizes of
arrays are numbers, that files consist of the elements that the code tells apart, and the
like; they restrict neither the number of signals, streams, files, blocks or steps, nor
their order. The history variables and the bounds on actions (`MaxSends`, `MaxReads`,
`MaxEdits`) are parameters as well: the theorems hold for each of their values.

| Module | Theorem | Statement |
|---|---|---|
| `ReceiveBlockProofs` | `TypeCorrect` | `Spec => []TypeOK` |
| | `RefreshIsSound` | `Spec => []RefreshSound`, minor steps and failures included |
| | `RefreshIsComplete` | `Spec => []RefreshComplete` |
| | `RefreshIsBacked` | `Spec => []RefreshMeansReceived` |
| | `StaleNeedsEarlyReturn` | `Spec => StaleOnlyAfterEarlyReturn` |
| | `ReceiveImplementsFreshness` | under `Nominal`, `Spec => KeepsPromise` (every step of the block is a step of `Freshness` or a stutter) |
| | `GeneratedCodeAgrees` | `GenSpec => []GeneratedAgrees` |
| `TransmissionProofs` | `TypeCorrect` | `Spec => []TypeOK` |
| | `PositionsAreEnough` | `Spec => []WholeSendsMatch` |
| | `StepsAreNotMixed` | `Spec => []WholeSendsAreCoherent` |
| | `WholeSendsAreDelivered` | `Spec => WholeSendsAreSteps` (while all sends are whole and no stream is skipped, every step of the simulations is a step of `Delivery` or a stutter) |
| | `DataOnlyGetsNewer` | `Spec => NeverGoesBack` |
| `ConfigurationReaderProofs` | `TypeCorrect` | `Spec => []TypeOK` |
| | `ListedSignalsBelong` | `Spec => []SignalsOfTheirStream` |
| | `ListsAreTheSignals` | `Spec => []ListsEnumerateSignals` |
| | `CountedAreFilled` | `Spec => []CountedStreamsAreFilled` |
| | `OverflowIsSaid` | `Spec => []OverflowIsReported` |
| | `NothingLostInSilence` | `Spec => []LossIsReported` |
| | `RoomSuffices` | `Spec => []RoomIsEnough` |
| `CmdReaderProofs` | `TypeCorrect` | `Spec => []TypeOK` |
| | `TheLatestFileWins` | `Spec => []LatestFileWins` |
| | `LookupsAreExact` | `Spec => []LookupIsExact` |
| | `OnlyMessagesAreLost` | `Spec => []OnlyMessagesGetLostInSilence` |
| `PortsProofs` | `TypeCorrect` | `Spec => []TypeOK` |
| | `TablesNamePortsOnce` | `Spec => []EveryPortOnce` |
| | `LabelsAreRightExactly` | `Spec => []LabelsRightExactly` |
| | `BusIsRightExactly` | `Spec => []BusRightExactly` |
| `SFunctionLifecycleProofs` | `TypeCorrect` | `Spec => []TypeOK` |
| | `StalePointersAreHarmless` | `Spec => []FaultNeedsDisorder` |
| | `OneConnectorForAll` | `Spec => []BlocksShareConnector` |
| | `ObjectsServeTheirBlock` | `Spec => []BlocksServeThemselves` |
| | `TerminationFrees` | `Spec => []NothingLeaks` |
| `SettingsProofs` | `TypeCorrect` | `Spec => []TypeOK` |
| | `OthersStay` | `Spec => OtherGroupsKept` |
| | `NoOtherUpdateIsLost` | `Spec => UpdatesKept` |
| | `ChangesGetSaved` | `Spec => SetValuesReachFile` |
| `DeploymentProofs` | `TypeCorrect` | `Spec => []TypeOK` |
| | `ExitIsExact` | `Spec => []ExitsExactly` |
| | `PortsStayRight` | `Spec => []RunningPortsAreRight` |

The arguments, module by module.

**ReceiveBlock.** The properties compare the ports with the real `age`, while the code
only has a counter and a flag. The inductive invariants say how these are
related. For soundness (`SoundInv`): the counter is not behind the age by more
than the one period of tolerance (`CounterBehindAge`), and in phase `output` a
set flag of a signal that is not stale means that data was copied now
(`FlagMeansCopied`). For completeness (`CompleteInv`): the counter is not ahead
of the age (`CounterAheadOfAge`), and outside phase `output` nothing was copied
(`NothingCopiedYet`). `TypeOK` comes first, because the counter arithmetic needs
it. The two directions need different invariants because a stale flag can only
make the counter too small. For the refinement both hold together, and
`NominalNeverStale` shows that without early returns no signal with a port is
stale. Multiplication by the period is isolated in `TimesMonotonic` and
`RecentEnough`.

**GeneratedCode.** The inductive invariant is `Lockstep`: the counters agree for
the signals with a refresh port, and the ports agree. It needs neither type
correctness nor any assumption on the streams, so the theorem covers failing calls
and minor steps as well.

**Transmission.** The samples of a stream pass from `outbox` through the frames of its
channel to `inbox` and then to `value`. `StreamInOrder` says that along this way, and
inside each queue, a sample that is further on was sent earlier; `ValueInOrder` says that
no signal shows data that is newer than what still waits for it. Both survive losses and
early returns of either loop, and give `NeverGoesBack`: each part of the way has its lemma
(`PushKeepsOrder`, `ShipKeepsOrder`, `LossKeepsOrder`, `ArrivalKeepsOrder`, `PopKeepsOrder`).

`OnlyWholeBatches` says what is on the way while all sends were whole: nothing in `outbox`, in
each frame the samples of one send, and in the inbox of each stream whole batches, a batch
being the samples of one send on this stream, in the order of its signals. A loop that
returns early pops a batch or leaves it, so positions stay signals (`WholeConcat`,
`WholeRest`, `WholeSample`): this is `WholeSendsMatch`. The inbox of a stream outside
`skipped` is empty, so a call shows there just what the frame has brought, which makes the
signals of a channel coherent (`ReceiveKeepsCoherent`).

The refinement of `Delivery`, with the channels as its lines, rests on what a whole send appends to
each channel (`WholeSendIs`) and what a call that skips nothing does to the signals
(`UnskippedStream`). `LineGrows` and `LineShrinks` carry these from frames to steps, and each
action has its lemma (`SendIsStep`, `LoseIsStep`, `ReceiveIsStep`, `NothingIsStep`).

**ConfigurationReader.** `SidesInv` has, for each side, what the lists of the slots have to
do with the array of signals: every index is listed once, in order, and only in slots that
were counted; the slot that is current for a side is the one counted last, and belongs to
the stream being read. A signal is only stored in the current slot, which keeps the
order (`ListsGrow`, `OwnersGrow`). `StoredSoFar` is the invariant behind the two theorems
on losses: what a side has stored is what the file asks for in front of the reader, and
each signal once. It holds as long as nothing was reported, or if the file fits. For the
latter, `Taken` is needed: no more streams are counted than are needed so far, so a place
is left for the next one (`EnoughRoom`). Every branch of `Next` either passes no message that is
asked for or stores the one it passes (`StepPasses`).

**CmdReader.** `CountersAreRight` and `MessagesAreCounted` tie the counters of the code to the
nodes and children read so far. `AllLatest` says of each attribute in the static structure
that it comes from the latest of the nodes and children, of all files so far, that gave one
for its place. The properties about the end of a file, in which nothing of the reader
occurs, follow from this.

**Ports.** Numbers: they are a sum over the list of signals, which the module defines by the
number of signals in front; `Before(k)` grows by one or two from a signal to the
next (`BeforeNext`). So each port belongs to the one signal k with
`Before(k) <= p < Before(k + 1)`; this signal is found as the least one that ends behind p.

Labels: the ports and the labels are both lists of slots (`<<k, 0>>` for the data of the
k-th signal, `<<k, 1>>` for its refresh flag) in their order. `CarriesIs` says so for the
numbers of the S-function, whose formula has nothing of it, and `LabelsAre` for the mask.
A set of pairs has one such list only (`OneList`). The mask lists the same signals as the
S-function (`ListedAll`, here the A664 messages must agree with their streams), but takes them
from a structure in which A825 messages are on the opposite side of all others
(`A825IsSwapped`, `OthersAreRight`): `ListedOrder` gives the order of any two of them.
`LabelsFit` and `FitMeansInOrder` compare this with the file.

Wires: `LeftCount` says how many of the ports that `createBus` leaves are in front of a
given one, `LabelPlace` where the label of a signal stands. The k-th port left is the one with
that label if the two counts agree, which `RemainingAt` turns into the condition of
`BusRightExactly`.

The inductive invariant `PortsInv` has the types, the range and uniqueness of the numbers
(`NumbersRight`), and where the two copies come from: unless the file was changed
since, the configuration in the workspace is what the MEX gateway makes of it
(`ConfigurationTraced`), and the ports are those of its signals with the parameters seen
(`PortsTraced`). `BusRightExactly` is part of it, because a bus that was drawn stays.

**SFunctionLifecycle.** `LifecycleInv` says that a static connector is alive and was made for
the present Configure object (`ConnectorIsLive`, `ConnectorIsThere`), and that the blocks in
`after` hold it and have an object of the present model (`OrderedBlocksAreSet`). What may
be still allocated is accounted for by `ArraysAreOwned`. Nothing is said about the
pointers of blocks outside `after`: they are the stale ones.

**Settings.** Two lemmas say what `save` writes. For any file that it can be called on,
`WrittenFile`: the result is a file, and a group of the platform in it has the values of
the object or none. For a well-formed one, `WellFormedSave`: the lists of names and of
groups have the same places, so nothing fails and every other group is where it was. They
rest on `InOrder`, the elements of a set of places in their order (`RankExists`: every
rank below the size of the set is that of an element). The inductive invariant `IInv` adds
to the types that an object that knows the file has its values, but for those that were
set or not taken (`InSync`), that the values of an object which were neither are folders
(`OthersAreFolders`), and that an object with set values is dirty (`SetIsDirty`).
`StepKeepsIInv` treats all steps of objects alike: one object changes, and if the file
does, the others no longer know it. `SavesAre` finds the three actions that can save, of
which OK may write twice.

**Deployment.** `DeploymentInv` follows the files from one copy to the next: the workspace
against the disk, the code against the disk while the build runs, the application against
the host at the moment of packing, the target against the application; each as long as no
file was changed since. Which file wins when two have one name is decided by the greatest
place in the order of adding.

Model-checked only: `SilenceIsDetected` and `LastSendArrives`, because liveness under
fairness is out of the prover's reach, and the findings, which are counterexamples. Every
safety invariant and every action property of the runs is proved.

Definitions that help the proofs. What a loop of the code computes is stated for the whole
array rather than by recursion or by filtering: counts of a set (`Count` in `CmdReader`,
`Places` in `Ports`), elements in their order (`InOrder` in `Settings` and in
`Ports`, there of pairs, as nested loops come to them), sets of paths with the place of each (`Place` in `Deployment`),
functions on the slots. The runs check the same definitions.

## 5. Not modelled

* Data types, dimensions, sizes, periods and names of signals, and printing
  (`displayConfiguration`, `checkStatus` but for its result). `ed247_mex.cpp` calls
  64-bit integers "double" (line 164).
* Floating-point rounding of `last_update * sampleTime`.
* Allocations that fail: `allocateMemory` reports them, its callers go on.
* The limits of the ED247 library's own stacks, and samples that overtake each
  other. The library is not in the repository.
* Sending and receiving: the statuses `NO_DATA_TO_SEND` and `NO_DATA_TO_RECEIVE` (a side without
  signals, where nothing happens), a stream of unknown type on the sending side, and an
  uninitialised stream whose type happens to be a valid one. Port pointers that are null and calls
  that succeed without data are in `ReceiveBlock` (the flag is cleared) but not in
  `Transmission`, nor is an assistant that fails to pop a sample although it has one. A
  channel none of whose streams has a sample sends no frame.
* Settings with an equals sign or a line break in a value, which `saveFile` writes as they are.
* An `icd` attribute without a colon, where `busname` is never assigned
  (`interface.cpp:579`): what is compared is whatever the memory holds.
* `filename` of a stream with an assistant, which the MEX gateway returns although it
  is never set; `Deployment` leaves such entries out.
* The texts, dialog visibility and log file of the masks.
* `ConfigurationUI.m:59` attaches a callback that the class does not define.
* `addXmlFile` writes the name of a file without its extension and adds ".xml";
  the model has ".xml" files only. `Speedgoat.m` packs files under `/bin`, which the
  generated code does not read; only the build hook is modelled.
* Compilation, continuous integration, menus and scripts: sequences of calls of
  external tools without state of their own.
* `analysis/include_wrappers`: two headers of the Simulink engine, copied for static
  analysis, which make up about two thirds of the lines of C and C++ in the
  repository. They declare the engine's data structure and have no behaviour of this
  program; the modules cover about two thirds of the C and C++ code that remains.

## 6. Plan

The modules of the plan are written, and every safety invariant and action property of the
runs is proved. What could follow:

1. Liveness stays with TLC (`SilenceIsDetected`, `LastSendArrives`): larger instances would
   be the only gain.
2. Data types and dimensions of the signals, with the copies between sample and port.
3. Allocations that fail in `allocateMemory`, whose callers go on.
4. Abstract specifications of the settings file and of the deployment, as `Freshness` and
   `Delivery` are for the blocks.
