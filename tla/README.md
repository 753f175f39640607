# A TLA+ model of benthos-dc

benthos-dc downloads dive logs from dive computers. This directory holds TLA+
modules that model its parts, TLC configurations that check them on small
instances, and TLAPS proofs of what matters most for every instance.
`PROJECT.json` lists the runs, the properties, the mutants that break them, the
source lines each definition models, the hazards of the code and the theorems.

## 1. Inventory

| Part | State | Operations | Hard behaviour |
|---|---|---|---|
| **smartid** daemon: `smartid_main.c`, `smartid_server.c` | event base, listener event, listening descriptor | start, event loop, stop on SIGTERM, cleanup | a failed start shares cleanup with a normal end; the signal comes at any time |
| smartid connections: `smartid_conn.c` | doubly linked list with a sentinel; per connection two descriptors, device handle, buffers | accept, read, event, write, dispose | connections come, fail half way and go in any order; one line per read event |
| smartid commands: `smartid_cmd.c` | the connection's device handle | eleven commands | parameter and device checks; failures dispose the handle |
| smartid device: `smartid_device.c` | token, tick count, chunk size | connect, handshake, ask, transfer | late answers, a device that leaves, a transfer loop |
| IrDA sockets: `common-irda/irda.c` | one socket | open, connect, read, write, discover, close | timeouts, end of file, blocking calls in a single-threaded daemon |
| **smarti** driver and client: `plugins/smarti` | TCP socket, last error, device name, model, serial, ticks | open, transfer, close, shutdown | replies are matched to commands by order; timeouts; the daemon ends |
| smart driver: `plugins/smart` | IrDA socket, the buffer of the transfer | the same interface, locally | dives recorded during a transfer, short reads, a computer that leaves, close then shutdown |
| Smart dive data: `common-smart` | position, current readings, clock, calibration | extract, parse header, parse profile, reset | records that run over byte boundaries; one parser for all dives |
| libdc driver: `plugins/libdc` | libdivecomputer handles, dive list | the same interface | callbacks from the library |
| transferapp: `transferapp/main.cpp` | token file, options, extracted dives | create, open, transfer, extract, parse, store token, close, shutdown | a kill or a failure between any two of them |
| output: `output_uddf.cpp`, `output_csv.cpp` | the document or file, the dive and the waypoint in hand | prolog, header, waypoint, epilog, close | one formatter for all dives; a waypoint comes in several calls |
| registry: `library/registry.cpp` | files and paths, manifests, drivers, loaded libraries | init, add, scan, look up, load, cleanup | calls in any order, duplicates, failed loads, shared libraries |
| manifests: `library/manifest.cpp` | none | parse | elements in any order and number |
| utilities: `base64.c`, `arglist.c`, `unpack.c` | none | encode, decode, parse | boundaries of lengths, doubled separators |

**Interactions.** transferapp loads a driver through the registry and calls it
in a fixed order. The smarti driver speaks the Smart-I protocol (a line for
each command, one or more lines in reply, TCP) with smartid; smartid turns
commands into exchanges with the device over IrDA. smartid is one thread
around a libevent loop: callbacks run to their end, IrDA calls block, and every
client waits meanwhile. The only concurrency inside the daemon is the signal
handler; between client and daemon everything is concurrent.

**What makes each part correct.** The connection list stays consistent and
complete and no descriptor is leaked or closed twice; a device handle is never
used after an exchange failed; every line is answered; departed clients are
released and a stop request ends the process; the client takes no reply for
another's, a successful transfer is the one that was asked for and is complete,
and each call returns. The token file never passes a dive the user has not been
given; the dives arrive in their order, none twice or missing; the output has
each dive with its own readings, tanks and times and nothing of the dive before;
the registry lists the drivers of the registered manifests, finds them by name
and undoes every load.

## 2. Modules

| Module | Models |
|---|---|
| `SmartidCmd` | One command line: the handlers as functions from a session (device handle, IrDA link, "an answer is still outstanding") to the set of outcomes the device may cause. No variables. |
| `Smartid` | The daemon: process phases, list, descriptors, callbacks, clients. Extends `SmartidCmd`. |
| `SmartiSession` | One driver session of transferapp against one connection of the daemon over TCP. Extends `SmartidCmd`, so both ends run the same handlers. |
| `DiveLog` | Abstract specification: what benthos-xfr promises its user about dives and the token. |
| `SmartDriver` | The smart driver and the extraction of dives, against a dive computer. |
| `TransferApp` | Runs of benthos-xfr: `run_transfer`, `run_parser` and the token file. Extends `SmartDriver`, implements `DiveLog`. |
| `SmartParser` | The parser of Smart dives as functions on a parser record. No variables. |
| `DiveOutput` | The UDDF and the CSV formatter as functions on a formatter record. No variables. |
| `ParseDives` | The loop of `run_parser` over the dives: composes `SmartParser` and `DiveOutput`. |
| `Manifest` | The manifest parser as functions on abstract documents. No variables. |
| `Registry` | The plugin registry, and transferapp's loops over the drivers. Extends `Manifest`. |
| `Codecs` | base64, argument lists and manifests, one call with one input at a time. Extends `Manifest`. |
| `Library` | The library as its client sees it: composes `Registry` and `Codecs`. |
| `ListLemmas` | Lemmas on lists and least numbers the proofs share. |
| `SmartidCmdProofs` | Lemmas about the command handlers. |
| `SmartidProofs`, `SmartiSessionProofs`, `TransferAppProofs`, `RegistryProofs`, `ParseDivesProofs`, `CodecsProofs` | Theorems about the module each is named after. The first two extend `SmartidCmdProofs`, the others but `TransferAppProofs` `ListLemmas`; `CodecsProofs` takes the lemmas on manifests from `RegistryProofs`. |
| `MCSmartid`, `MCSmartiSession`, `MCTransferApp`, `MCParseDives`, `MCLibrary` | Constants for TLC. |

Definitions carry the names of the C functions they model. A definition whose
comment begins with "Variant" is a plausible bug; the mutants put it in place
of the real one and TLC must then find the property violated.

### SmartidCmd

A session is `[dev, link, late]`. `link` is the connection's IrDA socket
(idle, connecting, connected, lost): it belongs to the connection, not to the
handle, so it survives CLOSE. `late` says that the device may still deliver an
answer nobody waits for. A reply is a status code, what its text is about and
where the number in it comes from: "fresh" (the device's answer to this
command), "late" (to an earlier one), "junk" (memory nothing was written to).
This is what the properties tell apart; the text is left out.

An exchange (`smart_driver_cmd`) writes and reads. Each may fail or time out; a
read that gives up leaves an answer outstanding; `recv()` returning 0 is a
success to `irda_socket_read`. A write to a link that is gone may raise
SIGPIPE, which the daemon does not handle. The transfer loop is modelled by its
ends: complete, failed (`free(buf)` frees the wrong pointer: the process aborts
or goes on), or endless once the device is gone. A complete transfer is sent by
`smartid_conn_send_buffer`, which returns without a word when `base64_encode`
has no memory.

### Smartid

The process goes boot, init, start, run, cleanup, exited, or ends in segv,
abort, sigpipe, or hangs in a handler. Each libevent callback is one action.
`conn_read(c, k)` moves k lines to the input buffer (k = 0: only part of a
line, which still triggers the callback) and handles at most one, as the code
does. `conn_event` fires at end of file, on an error, or after 300 s of
silence. The kernel gives the lowest free descriptor, so a descriptor closed
twice could be somebody else's. Undefined behaviour is a choice: freeing a
dangling base aborts or does nothing.

Outside `src/` and modelled from its use: libevent's order of callbacks, TCP
clients, descriptor allocation, the Linux IrDA stack (connect() on a socket
that is or was connected fails).

### SmartiSession

`app` is the driver call in progress or the last one made, `step` the command
in hand, `waiting` whether it was sent. Every line sent and every line read is
one step, so the daemon moves between them. `net` holds lines received and not
read. The base64 line spans many segments and may be cut; the others are
short and come whole, though not together. `tcp` is the client's socket: after the daemon
closed in order (`fin`) the first write is taken and lost and later ones raise
SIGPIPE (`broken`); after a reset (`rst`) the error is reported once. A line
read at end of file before the first byte is uninitialised memory: one that
does not parse, or, in MODEL, SERIAL and TICKS (three functions with the same
locals, called in turn by the same caller), what the one before received.
Driver error codes are reduced to success and error.

transferapp makes one transfer per handle and so does the model. A program
that repeated transfers after a timeout would work with a connection that stays
out of step: an analysis by hand shows the data of an older token accepted
after eight transfers, of which three timed out.

### SmartDriver, TransferApp and DiveLog

`call` is where the driver call in progress stands, `pc` where `run_transfer`
stands. Dives are numbered from the oldest, and the numbers stand for their
tokens, which are times and grow; a byte is a dive and a place in it. The
transfer is modelled command by command and read by read: the size (0xC6), the
data (0xC4), whose announced length must be the one of the first command, then
rounds of the chunk loop that each bring any number of the bytes asked for.
Meanwhile the computer may record a dive or leave the link; then `recv()`
returns 0, answers are what the memory held (any size, here 0 or 1) and the
chunk loop goes round without progress. The extraction works on the buffer as
the code does: the dive's header, its length, what lies past it. A dive has a
form: good, without header, with a length that is too long, or 0, or so large
that `pos + dlen` wraps (`wraps`: the length check then passes, and `extract_cb`
copies almost 2^32 bytes, which ends the process), or one the parser rejects. The options of a run are chosen where the code looks at them:
the token (given, `-`, from the token file, or no number), the format,
`--no-store-token`.

`TransferApp` tells three records of the dives apart: the token file, `saved`
(dives in an output file that was written) and `delivered`, what the program
itself believes: dives of runs whose `run_parser` returned success. `DiveLog` has the dives, a mark,
and the set of settled dives; the mark may be set only when all dives up to it
are settled. The refinement mapping (`Promise` in `TransferApp`) takes the token
file for the mark and `delivered` with the dives a user skipped by a token of
their own for the settled ones. It holds because the token stored is that of the
last dive extracted, of a transfer that began at the stored token; a truncated
token file is `Forget`. `MarkedDivesAreSaved` asks the same of the output files
and does not hold (run `lost_dives`).

### SmartParser, DiveOutput and ParseDives

The DTI tables are those of the source. A parser is a record with the fields of
`smart_parser_` that decide anything, a formatter one with the fields of its
`fmt_data`. Events are the calls of the two callbacks. `ParseDives` takes a
record of the profile (`ParseDti`) or sends a waypoint (`SendWaypoint`) per
step. The test `id > dti_size` lets the first code behind a table through: what
is there depends on the build, and `ParseStrayDti` takes any entry of the
constant `Strays`. `hdr_complete` of the CSV formatter has no initial value:
both are initial states. Pressures of waypoints go to neither format's rows in
the model, the alarms are counted. Header fields that go to the file as they
come are left out.

### Manifest, Registry, Codecs and Library

An XML element is a record with what the parser tells apart. An attribute with
an empty value has no text node and the parser follows a null pointer: result
`crash`, which in `Registry` ends the process (`parser_crash`). Where an element
has both an empty and an unsupported attribute, the code's result depends on
their order; the model says crash, and neither gives a manifest. `conv_xmlstr`
turns every string that does not fit into ISO-8859-1 or into its buffer into
the same fixed string, so that names which differ in the document may be equal
behind it. A version is an error only if it is blank (`sscanf` returns -1 for
that alone). A name is the sequence of its parts between dots, so that `Split`
can cut `plugin.driver` at the first dot, as the code does. `Registry` has the file system as constants (documents, libraries,
directories with their order); `Lower` gives the spelling in lower case, since
plugin and driver names are compared without case. Each call of the API is one
action, except that a call which scans a directory for manifests is followed by
one step of `scan_manifest_path` for every entry it meets, down into the
subdirectories, and no other call is made before the scan is over (the recursion
of the code is the list `scan` of paths yet to be looked at). `load_plugin` may
find no file, a file `dlopen` refuses, a library without an entry point, or one
whose `plugin_load` fails; the last two open the library and close it again
(`GiveUp`). `Codecs` is not a system but a way to have TLC
evaluate functions: one step takes an input, and the invariants compare the
result with a reference definition that is not written like the code (bits in
place of triples, a predicate on documents in place of a parser). The loop of
`arglist_parse` is a recursive function over its rounds (`ScanArgument` is one
round). Its two arrays have 258 bytes and no check, so longer names and values
are no inputs of the model (`TextSize`); documents have the shape libxml2 gives
them (`IsDocument`). `Library` puts the two together, as the one library they
are: calls of the registry, and conversions while it is not in use.

## 3. Runs

Passing runs:

| Run | Instance | States | Shows |
|---|---|---|---|
| `table` | 3 connections, 7 descriptors (2 each and the listener), no commands, symmetric in the connections | 3,097 | `ListConsistent`, `ListReachesAll`, `FdOwnership`, `CleanExit` |
| `commands` | 1 connection, every command and syntax error and an unknown word, 2 tokens, up to 2 unhandled lines, a client that goes, stop requests | 164,000 | `TypeOK`, `DeviceIsSettled`, `NoLateAnswer`, `OnlySilentLinesUnanswered`, `ClientGoneReleases`, `StopEnds` |
| `session` | 1 session, 2 tokens, device lists of 0 to 2 devices | 2,459 | `TypeOK`, `AnswersMatch`, `TransferMatchesToken`, `CallsReturn`, `ServerReleased` |
| `app` | up to 3 dives of 6 kinds, 2 bytes each, chunks of 3 bytes, any number of runs | 937,000 | `TypeOK`, `BufferFollowsStream`, `DivesInOrder`, `GroupedDivesAreKept`, `SocketIsReleased`, `TokenKeepsPromise` (refinement), `RunEnds` |
| `parse` | 2 dives per run, 3 models, profiles of up to 3 bytes over 4 values and 8 longer ones, 3 headers | 128,000 | `TypeOK`, `ReadsInside`, `WaypointsAreSpaced`, `ReadingsAreTheDivesOwn`, `UddfSamplesAreComplete`, `CsvRowsAreOwn`, `TanksHaveTheirGas`, `ParsingEnds` |
| `library` | 6 manifests (two names that differ in case, a plugin and a driver with a dot in their names, one that does not parse, one that crashes the parser, three on one library), 3 libraries, 5 directories, 4 files and paths added; up to 4 octets, 1 or 2 arguments of up to 2 characters, manifests with pairs of good and bad parts | 193,000 | `TypeOK`, `DriversOwned`, `DottedNamesResolve`, `LoadsBalanced`, `EncodeKeepsBits`, `DecodeInvertsEncode`, `ArgumentsRoundTrip`, `AcceptedIsSound` |

Three connections give the list a first, a middle and a last element, which is
every case unlinking distinguishes; two pending lines are what it takes for a
command to arrive before the reply to the one before it was read. Commands of
different connections share nothing but the process, so commands are checked
with one connection and the table without commands; the proofs have no such
bounds. Three dives of two bytes and chunks of three make chunks that end
inside a dive and at its end, a last chunk that is shorter, and a run that
starts between dives; the third dive is there so that one may follow a run that
marked one and dropped one. `DiskFull` is FALSE in both runs of `TransferApp`:
a failed write changes only `saved`, which none but `MarkedDivesAreSaved`
speaks of, and with TRUE `MarkedDivesAreSaved` has a second kind of
counterexample (the other properties hold then too, in 1,541,000 states). Two
dives are what it takes for something to be left over from one to the next, and
the models of `parse` are one of each kind of table and header. `MaxTime`
bounds the clock; only a profile with a stray entry reaches it (`ParsingEnds`
would fail otherwise). Four additions give the registry every pair of manifests
with the paths their libraries are in. Four octets are more than one triple,
with every padding. Deadlock is not checked where a system may stop: the
process ends, the session is over, the dives are parsed.

Runs that show a disagreement between the code and its documentation (details
in `PROJECT.json`, findings):

- `stop_exits`: the transfer loop never ends when the device has left;
- `unanswered`: a line with an unknown word gets no reply, because the search
  leaves its variable on the last entry of the table. `OnlySilentLinesUnanswered`
  in `commands` is what holds in its place;
- `enum_lines`: enumeration stops before all device lines have come;
- `lost_dives`: a dive without a repetition group is left out of the UDDF
  document, and its token is stored all the same. The models Smart Pro, Com, Tec
  and Z send no repetition number, so none of their dives reach the document;
- `csv_last`: the last waypoint of a dive never becomes a row of the CSV file,
  while the repository's README speaks of all points. `CsvRowsAreOwn` in `parse`
  is what holds: every row has its own values, and only the last is missing;
- `plugin_scan`: the first subdirectory ends the search of a plugin directory.

The model has further outcomes that no property rules out, because they are
what the code does: an XFER whose data cannot be encoded gets no reply
(`smartid_conn.c:377`), CLOSE leaves the IrDA socket connected
(`smartid_device.c:223`), a connection whose IrDA socket cannot be opened takes
the daemon down (`smartid_conn.c:217`), a failed read of the transfer frees the
wrong pointer (`smartid_device.c:431`), an open succeeds with values that were
never read (`smarti_client.c:1086`), close followed by shutdown frees the smart
driver's socket twice (`smart_driver.c:331`), an output file that could not be
written is not noticed (`output_uddf.cpp:130`), a dive of length 0 is extracted
for ever (`smart_extract.c:45`), one whose length makes a `uint32_t` sum wrap
ends the process (`smart_extract.c:46`), the first DTI code behind a table is used
(`smart_parser.c:921`), the titles of the CSV file are missing if `hdr_complete`
starts with another value than 0 (`output_csv.cpp:380`), an empty attribute of a manifest is a null pointer
(`manifest.cpp:269`), a driver of a plugin whose own name has a dot is not found
under `plugin.driver`, although `registry.h:154-156` offers that form without a
restriction, for `driver_info` takes the first dot for the end of the plugin's
name (`registry.cpp:505`; `DottedNamesResolve` is stated for the other plugins),
two models of a driver may not have the same name (`manifest.cpp:464`), which
makes the parser refuse the repository's own `src/plugins/libdc/libdc.xml`
(two models "Aeris Elite T3" in lines 15 and 16, two "Aeris Epic" in 17 and 18;
`AcceptedIsSound` therefore speaks of accepted manifests and not of those that
should be), a value that begins with `=` cannot be written in an
argument list (`arglist.c:76`), a value never read is sent when the device leaves during a
command ("junk"), a failed `smartid_start` leaves a dangling event base to
`smartid_cleanup`, the client dies of SIGPIPE at its second write after the
daemon ended, and end of file in place of the data line lets the trim loop of
`smarti_client_xfer` run off the start of its buffer.

**Fairness.** In `Smartid`: the event loop serves what is ready, so a
connection with unread lines is read, one at end of file gets its event, a
requested exit is taken and the code after the loop runs. Nothing is assumed of
clients, signals, devices or output. In `SmartiSession`: a call runs to its end
because each wait is a `select()` with a limit; the daemon reads and notices
the end of file as above. The daemon need not answer. In
`TransferApp`: the steps of a run that do not depend on the outside are taken;
nothing is assumed of users, dives, failures, kills, or of a computer that has
left. `RunEnds` therefore has two exceptions, a computer that leaves and a dive
of length 0, where the code has no limit. In `ParseDives`: the program is one
thread and goes on as long as it can.

## 4. Proofs

The theorems hold for every value of the constants that satisfies the
assumptions stated with them: any set of connections, descriptors, tokens,
device names and client lines; any number of dives, any lengths of dives and
chunks; any manifests, directories and libraries; any dive data of bytes; octets,
argument lists and documents of any length.

| Module | Theorem | Property |
|---|---|---|
| `SmartidProofs` | `TypeCorrect` | `TypeOK` |
| | `ListIsConsistent` | `ListConsistent` |
| | `CleanupReachesAll` | `ListReachesAll` |
| | `DevicesAreSettled` | `DeviceIsSettled` |
| | `NoReplyIsLate` | `NoLateAnswer` |
| | `DescriptorsAreOwned` | `FdOwnership` |
| | `ExitIsClean` | `CleanExit` |
| | `OnlySilentLines` | `OnlySilentLinesUnanswered` (an action property) |
| `SmartiSessionProofs` | `TypeCorrect` | `TypeOK` |
| | `AnswersAreTheirs` | `AnswersMatch` |
| | `TransferIsTheTokens` | `TransferMatchesToken` |
| `TransferAppProofs` | `TypeCorrect` | `TypeOK` |
| | `SocketReleased` | `SocketIsReleased` |
| | `BufferCorrect` | `BufferFollowsStream` |
| | `ExtractionCorrect` | `DivesInOrder` |
| | `GroupingCorrect` | `GroupedDivesAreKept` |
| | `KeepsPromise` | `TokenKeepsPromise`: `TransferApp` implements `DiveLog` |
| `RegistryProofs` | `TypeCorrect` | `TypeOK` |
| | `LoadsAreBalanced` | `LoadsBalanced` |
| | `DriversAreOwned` | `DriversOwned` |
| | `DottedNamesAreEnough` | `DottedNamesResolve` |
| `ParseDivesProofs` | `TypeCorrect` | `TypeOK` |
| | `ReadsAreInside` | `ReadsInside` |
| | `ClockIsTheDives` | `WaypointsAreSpaced` |
| | `ReadingsAreOwn` | `ReadingsAreTheDivesOwn` |
| | `SamplesAreComplete` | `UddfSamplesAreComplete` |
| | `RowsAreOwn` | `CsvRowsAreOwn` |
| | `TanksHaveGas` | `TanksHaveTheirGas` |
| `CodecsProofs` | `DecodingInverts` | `DecodeInvertsEncode` |
| | `EncodingKeepsBits` | `EncodeKeepsBits` |
| | `ArgumentsComeBack` | `ArgumentsRoundTrip` |
| | `AcceptedManifests` | `AcceptedIsSound` |

In each module but the last one theorem, `Invariance`, shows an inductive
invariant; the others follow from it (and from `GasInv` for the tanks). Each
invariant was checked with TLC on the instance of the component's run before it
was proved.

**Smartid.** *The list.* `ListOK` joins the links in both directions
(`BackLinks`, `ForwardLinks`), that free blocks have null pointers, and that
every set closed under next from the sentinel is the whole list. The last part
says "reachable" without recursion; for unlinking, a set closed in the shorter
list becomes closed in the longer one when the removed connection is added to
it. *Sessions.* `DeviceIsSettled` is inductive together with "no reply in the
output is late": a handle exists only on a settled session, a command reads a
late answer only where one is outstanding, and every failed exchange disposes
the handle. One lemma of `SmartidCmdProofs` for each handler shows its outcomes
settled; `ProcessOK` collects them. *Descriptors.* `FdInv` adds what each phase
of the process owns, because `FdOwnership` speaks of the running loop only and
`CleanExit` of the end. *Answers.* `OnlySilentLines` has no hypothesis on
the lines: one lemma for each handler shows that it answers, the one for XFER
(`XferAnswers`) that it does or that nothing was encoded, and `SearchedXfer` that
the search ends at XFER only for that very word. The word the theorem names is
that of the line `conn_read` hands over (`NextLine`).

**SmartiSession.** Replies are matched to commands by their order alone, so the
invariant has to say what may be on its way at each step of each call
(`FlowInv`: at most one line, or the device lines ENUM left and perhaps the
answer to OPEN behind them, or one line and the data), what those lines say
(`AnswerInv`), and that the daemon's handle has the session's token from the
answer to TOKEN on. It holds only while a call that keeps values can still be
made (`Live`): after a failed transfer the connection may be out of step for
good. What a handler may answer is taken from lemmas of `SmartidCmdProofs`
(`ProcessValue`, `ProcessToken`, `ProcessOpen`, `ProcessEnum`, `ProcessXfer`).

**TransferApp.** `IInv` has a layer of control (which driver call and which
socket go with each step of `run_transfer`) and one of data: the stream is a
whole number of dives after the token (`StreamInv`), the buffer agrees with it
up to the position of the loop unless the computer has left (`LoopInv`), the
dives extracted are the first of the stream and the extraction stands at the
front of a dive or one byte into it (`ExtractInv`), and all dives up to the
token file, and up to a token that came from it, are settled (`TokenInv`). The
last one is what the refinement needs: `KeepsPromise` maps every step to one of
`DiveLog` or to a stutter. The lemmas on division place a byte in its dive.

**Registry.** `DriversOwned` counts drivers, so `TableInv` has besides ownership
that no entry of the driver list is there twice; that the names inside a
manifest differ comes from `parse_driver`, by induction over the loop. An
induction over data is done by the least counterexample (`Least` in
`ListLemmas`: a set of naturals that is not empty has a least element, which
needs no operator parameter), for the recursive function that is the loop.
`LoadsBalanced` is kept by cardinalities of the set of plugins of one file.
`DottedNamesResolve` needs that names are sequences of parts that are not empty
(`SplitDotted`: a name of one part before a name is split off again) and that
names within a manifest are converted ones (`ConvertedNames`).

**ParseDives.** `PlaceInv` has the offset inside the data, with a lemma for each
table that its entries end where `identify` found them; `ClockInv` ties the
clock to the number of waypoints sent; `OwnInv` and `SurfaceInv` say that what
the parser has was read in this dive and that the first depth is calibrated
when it is read and sent before the next record is; `OutputInv` says that the
formatter has what was sent. The CSV part shows on what `CsvRowsAreOwn`
rests: `csv_waypoint_cb` keeps the last waypoint's depth and temperature, and
rows are right only because the parser, once it has a depth or a temperature,
sends it in every later waypoint of the dive.

The gas of the tanks has an invariant of its own, `GasInv`, because it follows a
value through three places: the header's events, in whatever order mixes and
pressures of a tank come, to what the formatter keeps for the dive
(`cur_mixes` and `tanks`, or the CSV tank table), which no waypoint touches, and
from there to the links or rows of the output. For UDDF the links of a dive go
through mixes that all dives share, so it also says that the mixes have
different numbers below their count and that air is among them: then a mix the
epilog adds cannot take over the number of one that is linked already.

**Codecs.** A state shows one call and its result (`Calls`), so the theorems are facts about
functions, for inputs of any length. *base64.* The data is cut into groups: three
octets and four letters that hold the same 24 bits (`SextetsOfTriple`,
`OctetsOfSextets`, `BitsOfTriple`, arithmetic on `\div` and `%`), the tables
invert each other, and `DecodedLength` finds the length again from the padding.
*Arguments.* `Reached` says that a round of the scan stands at a position with a
state; scanning a quoted word brings it behind the word (`ScanWord`), a written
argument behind the argument (`ScanWritten`), and so on to the list
(`ParseWritten`). What has to be excluded appears in `ScanEquals` and
`ScanSeparator`: a separator is read as one only if the character behind it is
not the same, which is `~AmbiguousList`. *Manifests.* The loops of the parser are
recursive functions (`RunExists`, `IsRun`). For each there is a predicate "well
formed so far" (`ParamsOk`, `ModelsOk`, `ElementsOk`, `DriversOk`) and a relation
between the elements read and what has been built (`ParamsBuilt` and so on), and
one step keeps: no error exactly if well formed so far. `AcceptedDocument` draws
from it what the property says of a document without error. The relation is needed
because the parser finds duplicates in what it has built, also in lists of an
earlier element of the same kind, while the reference speaks of the document.
Inductions run over a set of numbers (`Upwards`, `Downwards`), by `Least`.

Assumptions: those named in the modules. `ManifestAssumption` says that the two
marks for absent and empty values are no names of interfaces or types, no
numbers and no converted names; `RegistryAssumption` that names have parts and
documents the shape libxml2 gives them; `CodecsAssumption` gives the inputs their shape, that octets are not
empty (`base64_encode` of nothing is never called) and that names and values fit
into `arglist_parse`'s arrays.

Only model-checked: liveness (`ClientGoneReleases`, `StopEnds`, `CallsReturn`,
`ServerReleased`, `RunEnds`, `ParsingEnds`), which is out of the prover's reach,
and the violations. Every invariant and the one action property of the passing
runs, and the refinement, are proved (for the components: the theorems about
`Registry` and `Codecs` are about their own specifications, of which `Library`
is the interleaving).

## 5. Not modelled, and abstractions

- SIGTERM inside a device exchange (it makes `select()` fail and the read
  report 0 bytes); in the model the signal comes between callbacks and while a
  handler hangs. SIGTERM before `smartid_init` has a base to stop.
- Device answers of one or four bytes come whole. `malloc` failing in
  `irda_enum_cb`, a failing libevent backend.
- A failure of `irda_socket_set_timeout` has the consequence of one of
  `irda_socket_open`.
- A client write that times out, address resolution beyond success and failure,
  the text and lifetime of error messages.
- The libdivecomputer driver: it passes values on to libdivecomputer, which is
  not part of the repository, and is unfinished (extract reports "unsupported"
  after a success, `join_dive_list` copies the bytes of a pointer, the
  application's callbacks are never called), so that no behaviour is left to
  state a property of.
- The signal handler interrupting libevent itself; `errmsg` of the smarti client
  pointing into a stack buffer that is gone; a program that makes several
  transfers on one smarti handle.
- The clock correction of the drivers; widths of integers in the parser (its
  values stay far from their limits for profiles of the lengths checked).
- Logging, reading of the command line, printing of lists, the layout of the
  output, header fields that are only copied, `unpack.c`.

## 6. Plan

Done: all modules of section 2, their runs, and the theorems of section 4, which
cover every property of the passing runs that is not liveness. Worth adding when
the code grows: the libdivecomputer driver once it is finished, and a model of
several transfers on one smarti handle if a program makes them.
