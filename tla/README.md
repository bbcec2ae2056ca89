# A TLA+ model of scyrox

scyrox drives a gaming mouse from Linux. The `scyrox` crate talks to the mouse over HID;
`scyroxd` is a daemon that owns the mouse and serves gRPC over a Unix socket; `scyroxctl`,
`scyrox-tray` and `scyrox-gui` are its clients. What is hard in it is that little is
locked and much can fail: an I/O thread that pairs commands with answers by their order
alone, settings spread over many packets, one `Option<Mouse>` shared by every RPC and by
the hotplug handler, a profile store without a lock, a configuration that lives in memory,
in a file and in an open log, and clients that follow all this through lossy event
channels.

Paths below are relative to `src/crates/`.

## The system

| Component | State | Operations | Hard part | What makes it correct |
|---|---|---|---|---|
| HID I/O (`scyrox/src/io.rs`, `mouse.rs`) | command channel, pending command, deadline, notification channel | `send_command`, `shutdown`, the task's accept / read / deadline loop | cancelled callers, late answers, unplugging, closing with commands queued | every caller is answered once, with the answer to its own command |
| Mouse operations (`mouse.rs`) | memory of the mouse | `read_memory`, `write_memory`, flash writes, getters and setters, `get_config`, `set_config` | many packets per operation, refusals and failures in between | what a call reports as done is done; what fails leaves a mouse that can be read and set again |
| Codecs (`protocol.rs`, `types.rs`, `scyrox-proto/src/convert.rs`) | none | build, parse, check, convert | ranges, checksums, rounding, short answers | decoding inverts encoding; damage is noticed where it can be |
| Hotplug monitor (`scyroxd/src/hotplug.rs`) | known paths, active mode | enumerate every second, broadcast events | several changes between two enumerations, a bounded channel | mode and events agree with what is plugged in |
| Mouse slot (`scyroxd/src/server.rs`) | `Mutex<Option<Mouse>>` | `with_mouse!`, `ensure_mouse`, `invalidate_mouse`, event handler, poll task, forwarder | check and use in two critical sections, opening without the lock, disposal under it | nobody uses a disposed mouse; the service recovers |
| Profiles (`profiles.rs`, `fs_util.rs`, profile RPCs) | one file per profile, active profile | create, update, delete, default, apply, auto-apply | no lock at all, a shared temporary file, dropped calls that go on writing | a saved profile is there, whole; at most one default; the record names what the mouse was last given |
| Battery (`server.rs`) | threshold, latch, refreshes | poll, refresh with retries, `low_battery_transition` | outdated thresholds, updates sent after the lock is released | one alert per discharge, but always one; clients end with the right level |
| Daemon configuration (`config.rs`, `fs_util.rs`, two RPCs of `server.rs`) | memory, `daemon.toml`, temporary file | load, save, set threshold, set log path | partial failure, crashes, dropped calls that go on writing | memory, file and log agree; the daemon starts again |
| Battery log (`battery_log.rs`) | open file, boundary flag | prepare, replace, append | switching while in use, partial writes | records land in the log that was configured |
| Client events (`server.rs`, `watch_events`) | broadcast channel of 32 | publish, stream | lag, order, reconnection | a client that skips nothing knows the state |
| Lifecycle (`main.rs`), tray, GUI, client library, CLI | last state shown | subscribe, read, consume | subscribe-then-read order | |

Components interact through: the bounded mpsc channel and oneshots between callers and
the I/O task; a broadcast of notifications per mouse; a broadcast of device events from the
monitor (16); a broadcast of client events (32); the mutexes around the mouse, the
configuration, the log sink and the active profile; the memory of the mouse; and files.

`PROJECT.json` lists the components with the lines modelled, and the hazards at the line
where each one bites, with the properties that cover it.

## The modules

| Module | Models | Actors |
|---|---|---|
| `SerialService` | what a `Mouse` promises its callers, with no queue, clock or packets | callers |
| `HidIo` | `send_command`, `shutdown`/`abort`, `IoTask::run` | callers, task, clock, device |
| `MouseRead` (extends `HidIo`) | what `read_memory` makes of its answer | |
| `Protocol` | memory map, commands, checksums, packet builders, DPI and brightness codes, voltage table | pure |
| `MouseTypes` (extends `Protocol`) | enumerations and their codes, key functions, shortcuts, macros, status flags | pure |
| `Conversions` (extends `MouseTypes`) | conversions between messages and the library's types | pure |
| `Answers` (extends `MouseTypes`) | how `mouse.rs` checks and parses each answer | pure |
| `Codecs` | a value encoded, damaged or cut short on the way, and decoded | one wire |
| `MouseSettings` (extends `Conversions`) | every getter and setter of a setting, and the RPCs that call them | one caller, device |
| `Hotplug` | `DeviceState`, `HotplugMonitor`, the event channel | user, monitor, receiver |
| `DeviceSlot` (extends `Hotplug`) | every access to the mouse slot | monitor, RPCs, handler, poll task, forwarders |
| `Profiles` | `ProfileStore`, `write_atomic`, the active profile | RPCs, device event handler, crash |
| `Battery` | poll task with its alert, refreshes, connection events, the event stream | poll, refreshes, handler, forwarder, RPCs |
| `DaemonConfig` | configuration RPCs, `write_atomic`, log switch, restart, tray | one caller under the mutex, threads of dropped calls, log, tray, crash |
| `MC*` | symmetry and constants for TLC | |
| `*Proofs` | theorems on `HidIo`, `DeviceSlot` with `Hotplug`, `MouseSettings`, `Battery`, `Profiles`, `DaemonConfig`, `Codecs`; lemmas on `Conversions` | |

The composition follows the program's layers. `MouseRead` puts memory reads on the I/O
task, `DeviceSlot` puts the daemon's tasks on the hotplug monitor, `MouseSettings` and
`Codecs` use the same codecs. `MouseSettings`, `Profiles` and `Battery` take from
`DeviceSlot` and `HidIo` what those establish: calls on the mouse do not overlap
(`BorrowedFromSlot`), commands reach the device in order, and a call can end at any await.

**HidIo.** `queue` is the mpsc channel, `pending` and `deadline` the task's locals, `pc`
its place in the loop (accept, read, check deadline), `reply` the oneshots, `wire` and
`inbound` what is between host and mouse. A call is one future of `send_command`; it may be
dropped at any await (`Cancel`) and leaves its command behind. The device answers in order,
late or never; packets are who they answer, not bytes. Time is one bit: the 200 ms have
passed or not. A notification channel that lags is not modelled here, `notices` is what was
broadcast.

**Protocol, MouseTypes, Conversions, Answers.** Operators with the names of the functions
they stand for, over sequences of bytes. Integers have the width the code gives them
(`AsU16`, `% 256`), and what the code refuses is `Invalid`. The builders of packets are
modelled with their checksums, the checks on answers in the order in which the code makes
them. The name of a macro is a Rust string, that is, a sequence of bytes that are UTF-8
(`IsText`): `EncodeMacro` cuts it at 30 bytes, wherever that is, and `DecodeMacro` reads what
is left with `Lossy`, the library's `from_utf8_lossy`, which puts U+FFFD for each longest piece
that is not a whole character.

**Codecs.** `subject` is a value of one of twenty kinds; `Encode` puts its bytes on the wire, `Damage`
changes one byte by a value of `Damages`, `Cut` shortens an answer, `Decode` reads what is
left. Where the two sides of a wire are both in the repository, they are the code's encoder
and decoder; where the other side is the mouse, it is the decoder that the protocol
constants describe.

**MouseSettings.** `device` is the mouse's memory, as a function from addresses to bytes,
with its two settings that are not in memory. A call is a script of packets (`steps`), in
the order the setter sends them; `Accepted` stores the next one, `Refused` does not,
and goes on where the code does not look at the answer's status (`unseen`), `Interrupted`
ends the call at any packet, which may have been stored or not, `Rejected` is a check that
fails in the middle. `asked` is what the call wants each setting to read as, computed from
the request and not from the script.

**Hotplug.** Each enumeration of a device is a number that stands for its HID path; `known`
is `wired_path`/`wireless_path`, `Detect` the match of `DeviceState::update`. `Send` drops
the oldest event of a full channel, which is the receiver's `Lagged`.

**DeviceSlot.** `slot` is the mutex's content, `at` where each task stands between two
awaits, `using` the handle it has borrowed or owns. Whoever is in "body" holds the lock; all
else that happens under the lock is one action. `mouse` says what became of each handle: its
I/O task runs, failed, had its failure forwarded, or is gone. `view` is the last connection
the clients were told of. `Reachable` ties a handle to the enumeration it opened: a device
that was unplugged and plugged in again does not answer the old handle.

**Profiles.** `file` and `temp` map a profile's two names to inodes, `data` inodes to
contents: a write goes to the inode that was opened, whatever has become of its name. One
action per await of the store's functions. `Drop` is the client going away: the future is
dropped, but a file operation that had begun on tokio's blocking threads is carried out
all the same. `SaveFails` removes the temporary file or fails to. `onMouse` is the profile
whose settings the mouse has, `active` the record. A `set_config` that fails leaves the mouse
as it was, with a part of the profile, or with all of it, when only the last answer was lost
(`SetConfigFails`). `Crash` keeps the disk and the mouse, and forgets the rest; a mouse that
is connected brings what it has in its flash. `saved`, `shared`, `crossed` and `sure` are
history: what was last saved as a profile, which profiles two saves overlapped on, which
kinds of call overlapped, and whether the running daemon was told of the application the
mouse took last.

**Battery.** A reading is a percentage, or that of a charging mouse, on whose percentage no
decision depends. `poll` and `refresh` are the tasks between their awaits: the threshold is
read before the lock, the update is broadcast after it. `told` is what the event stream
last said, `peak` is history, the highest level polled since the last alert.

**DaemonConfig.** `step` is how far the holder of the config mutex is (prepare, create,
write, sync, rename, commit); every step may fail, and at every step the client may go away
(`Drop`): the mutex is released and the memory left as it is, while the file operation the
call was at is over or left to a thread (`late`), which carries it out at any later time
(`Late`), next to whatever saves follow. The removal of the temporary file after a failure can
be left in the same way. Names map to inodes, because the log keeps appending to the inode it
opened whatever happens to its name. A crash may lose what was not synced, the last rename,
and what threads had still to do. Two variables are history: `stray`, what a dropped call put
into `daemon.toml` last, and `mixed`, whether a save, or what another dropped call left, met
an operation on the temporary file that a dropped call had left undone. The tray subscribes,
reads the configuration, asks for the battery, then consumes.

## The runs

| Run | Instance | Distinct states | Shows |
|---|---|---|---|
| `hid_io_safety` | 3 calls, channel of 1, 1 unasked packet, wireless | 92,737 | no orphaned or doubly answered call; commands and answers in step until one times out; skew bounded by the number of timeouts |
| `hid_io_liveness` | 2 calls | 24,065 | calls and shutdown end, unplugging is announced, `SerialService` is implemented |
| `mouse_read` (violation) | 2 reads, 1 write | until violated | a late answer is returned as the data of another address |
| `mouse_settings` | 2 calls of every setter and RPC, 1 fault, requests on both sides of each limit | 180,451 | a call that succeeds did what it was asked and nothing else; one that fails leaves every one-packet setting old or new, and a mouse that can be read and set again |
| `codecs` | every voltage, DPI step, key code and count on both sides of its limit, names with letters of 1 to 4 bytes around byte 30, every one-bit error | 33,210 | what is sent is read back; damage is noticed |
| `device_slot_safety` | 2 RPCs, 2 handles, 2 enumerations, polling, flaky device, cancellation | 807,774 | exclusive use of a live handle; events that tell one story |
| `device_slot_liveness` | 1 RPC, 2 handles | 126,170 | RPCs return, departures are told, calls recover, the mode settles |
| `device_slot_unwrap` (violation) | 1 RPC | until violated | finding 2 |
| `profiles` | 2 RPCs and the handler, 2 profiles, 2 configurations, 2 calls, 2 faults | 2,712,805 | a profile no two saves overlapped on is there, whole; nothing but delete removes one; one default as long as calls do not overlap; a record that names the profile of a mouse whose last application the daemon was told of |
| `battery` | 3 levels, 2 thresholds, 1 refresh, 2 attempts | 790,112 | one alert per discharge, and always one; the stream ends with the mouse's level |
| `daemon_config` | 2 thresholds, 2 log names, 5 inodes, 3 calls, 2 threads, channel of 2 | 593,640 | old, new, or what a dropped call asked for, never torn, until a save shares the temporary file with a dropped call; log and tray follow |
| `daemon_config_alias` (violation) | log name `daemon.tmp` | until violated | finding 3 |

**Why the bounds suffice.** Three calls are a pending one, a queued one and one blocked on a
full channel of one, and a cancelled or timed-out command followed by two more. One
unsolicited packet is treated alike wherever it falls. Two enumerations are a device and its
replacement, or both interfaces at once. Two RPCs and
the daemon's own tasks contend for the lock, and two handles are the one in the slot and the
one being opened (a third would need two openers without the lock; only the handler is one).
In `mouse_settings`, the second call starts from whatever the first one left, with its fault
in either; a setting depends on at most the packets of two settings (the shared sleep
register). The numbers are 0, 1, the first out of range of each check, and one that the
truncation to 16 bits makes small. In `profiles`, two calls are two that overlap and two
faults a dropped call followed by a crash; the second profile shows that saves do not
disturb others, and is the other default. In `battery`, 10 is
low for the threshold 10 and a recovery from 5, 12 hovers above 10, 15 recovers from it. In
`daemon_config`, three calls are one that is dropped, one that saves beside what it left, and
one after both; two threads are two dropped calls with something left to do at the same time.
Five inodes are the file, its predecessor, the temporary file, the log, and a file without a
name that a thread still writes to; a channel of two already lags. In `codecs`, letters of
every length stand before, across and behind the limit of 30 bytes. Deadlock is not checked
where the system may really stop: every plug-in, call or fault has been used up, every RPC
has panicked, or the daemon finds a torn `daemon.toml` (after a save that shared the
temporary file with a dropped call, finding 19) and does not start.

**Fairness.** `HidIo`: the task's thread runs, the clock advances, a runnable caller is polled;
nothing about the device or about when handles are dropped. `DeviceSlot`: the runtime polls
tasks that can run, tokio's mutex hands itself over in order of arrival (hence strong
fairness for those who wait for it), the monitor and the ticker go on; clients and users owe
nothing, except in `Insistent`, where clients keep calling, which `RpcRecovers` is about.
`Battery` (`LiveSpec`): the poll's timer fires, and the poll, the refreshes, the handler in
the middle of an event and a forwarder with something to pass on go on; the mouse, the user
and the clients owe nothing.

Every property of a passing run comes with a mutant of the model, a plausible mistake in the
code (a dropped guard, a lost notification, an early release, a rename before the sync, two
packets in the wrong order, an off-by-one in a limit), for which TLC finds the property
violated. Mutants stand before the definition they replace.

## What is proved

The theorems hold for every set of calls, RPCs, handles, profiles, requests and levels, and
every capacity and bound, from the `ASSUME`s of the modules: a channel has room for
something, model values are distinct, requests have the types of their fields
(`RequestsAssumption`, and `ValuesAssumption` for lights, effects, shortcuts and macros), a
new mouse is one whose settings the setters accept (`FactoryAssumption`), a rejection is no value (`InvalidAssumption`), the constants of a
profile are profiles (`ContentsAssumption`), and what the codecs are given to send is of a
kind the library can build (`SubjectsAssumption`).

- `HidIoProofs`. `TypeCorrect` first. `EachOnce` is inductive with types and gives
  `NoOrphan` (a caller's command can leave the channel only to
  become pending, and pending only by an answer) and `ResolvedOnce`, an action property.
  `InStep` is inductive given those: a command is written only when none is pending, and a
  pending command is only given up by an answer or a timeout; `NoTimeoutNoMixup` follows as
  the answer at the head of `inbound` is then the pending command's. `SkewBounded` is
  inductive with the finiteness of `TimedOut`: a write, the device's answer, a read and a
  timeout each move at most one response from one side of the inequality to the other, which
  the lemmas on `Responses` count. `RefinesService` maps
  each step to a step of `SerialService` or a stutter, with two small invariants on the
  mapping (`StoppedIdle`: a stopped task has nothing pending; `NewUnanswered`).
- `DeviceSlotProofs`, first of the monitor alone. `ActiveFollowsPaths` is inductive because
  `Detect` computes the mode `Best` of the new paths in each of its cases (`DetectIsBest`).
  `EventsTellOneStory` needs in addition that nothing is queued before the monitor runs
  (`QuietUnlessRunning`). `HotplugStep` shows that the daemon's steps are monitor steps or
  stutters, so the monitor's theorems carry over (`DaemonMonitors`, `HotplugInvCorrect`).
  `SlotInv` strengthens `BorrowedFromSlot` and `SlotNotShutDown` with `HandlerOwns` (between
  opening a mouse and storing it the handler alone owns it, so no RPC can find it in the
  slot) and `StartsAlone` (no RPC is served before the service has opened the mouse).
- `MouseSettingsProofs`. For what holds at every moment, a call is looked at as the set of its
  packets (`Packets`): one lemma per setter says what it sends, for any argument. For what a
  call has done in the end, it is a path through devices.
  - `ReadableCorrect` and `ReapplicableCorrect`. Neither property is inductive, because a
    packet on its way may write anything. The invariant `Inv` says that the memory is one whose
    settings the setters accept (`AcceptableIn`) and that every packet of the rest of the
    script is `Harmless`: it writes beyond the first 187 bytes, or a legal value of one of the
    settings there. `HarmlessKeeps` shows that such a packet keeps the memory acceptable,
    `SafeScript` holds of every setter's script (of a configuration's, `ConfigSafe`), and
    `ConvertedIsConfig` that what an RPC converts is a configuration. A failed or dropped call
    leaves a prefix of a safe script. That what was read can be sent again follows from
    `AcceptableIn`, through the library and through the daemon's messages.
  - `OldOrNewCorrect` compares the mouse with itself before the call. Each packet `Fits` the
    call: it leaves what a setting of one packet reads as, or makes it what the call asks. For that
    each getter is written as a function of its own bytes (`MemoryValue`, `GotIs`), and what
    an encoder makes is read back by its decoder. `Between` says that every setting reads as
    before or as asked, and that what is still to be sent fits. It needs the hypothesis
    `FewStages`: a request with 257 stages violates `OldOrNew` (finding 17).
  - `OkMeansAppliedCorrect`. `Leads(script, dev, goal)` says that the packets of a script take
    a device to another, and `Makes(script, X, L, want)` that from any device they lead to one
    that reads as wanted on `X`, anything on `L`, and as before elsewhere. A setting owns the
    bytes from `Base` on, and no two areas overlap (`AreasApart`), so a write within one leaves
    the others alone (`StoreMakes`). Scripts compose (`ThenMakes`): what the second upsets must
    not be what the first made, or be made again. That is how `set_config` is right although
    the sleep timeout also writes the register of the performance time, which follows. Lights and
    effects are made piece by piece, slots ten bytes at a time (`ChunksMake`) and the
    stages by a trace of their packets (`StageWritesMake`). Each call `Turns` what it
    asks for into that (`DaemonTurns`, `LibraryTurns`).
    The inductive invariant `Pending` says of a call on its way without an unseen refusal that
    what is still to be sent holds a rejection or leads from the present device to one that
    reads as asked, and as before the call elsewhere: an accepted packet is one step on that path, and
    at its end the device is the goal. The theorem assumes `RequestsFit`: the
    encoders cut a shortcut of more than 10 events or a macro of more than 70 or with a name of
    more than 30 bytes without an error, and a name ends at its first zero byte. Such a
    request is reported as done and reads back shorter, or with U+FFFD at its end. That a name
    that fits is read back as it was is `LossyText`: a name is a Rust string, and the lossy
    decoding leaves one alone. The requests of the run
    `mouse_settings` satisfy it, a macro that fills its slot among them.
- `BatteryProofs`. `HoveringIsQuietCorrect` compares an alert with all polls since the one
  before. The invariant relates the latch to that history: while the latch is open after an
  alert, the peak is a recovery from the threshold in force (`RecoveredSince`), and a poll
  under way, if an alert was sent since, works with that threshold (`PollUpToDate`): a
  poll with an outdated one can only be the first after a change. `BatteryTypeCorrect` is
  the types (`TypeInv`), for any number of attempts.
- `ProfilesProofs`. `SavedIsThereCorrect` is about unlocked writers of shared files. The
  invariant says that no two names share an inode (`Disjoint`), that a save can only reach
  inodes of its own profile (`Owned`), and that on a profile whose saves never overlapped
  the one under way has its temporary file to itself, filled as far as it has come
  (`Alone`). A new file needs an inode that nobody has: `FreshIsFree` counts them.
  `RecordNamesMouseCorrect` follows the one application that may be under way: what it has
  applied, it is about to record (`Applied`, `MouseInv`), unless the mouse is one this daemon
  does not know. A failed application that left the mouse as it was leaves it known, one that
  left all or a part of its profile there does not, and neither does a restart: those are the
  cases in which the record does not name the mouse (finding 21), and the next application
  that succeeds ends them. `AtMostOneDefaultCorrect` uses
  `SavedIsThere`: while calls do not overlap, the handler knows every stored default
  (`KnowsDefaults`) and clears it before it marks another (`Orderly`).
  `OnlyDeleteRemovesCorrect` follows from the types, which tie the step "remove" to
  delete, and from the rename putting an existing file in place.
- `DaemonConfigProofs`. The invariant `LogInv` says that names stand for different files and
  none for the one replaced last (`Named`), that the log opened is the candidate's (`Opened`),
  and what a running and a stopped daemon find (`Running`, `Stopped`). It holds whatever
  dropped calls leave running, because nothing they do makes a name of the log another file's,
  and gives `LogFollowsConfigCorrect`. `FileInv` adds `Ready`, as long as the temporary file
  was not shared (`~mixed`): one dropped call at most has something to do to the temporary
  file, and no save beyond its first step does (`Apart`); only that file is unsynced
  (`TempUnsynced`); it holds the candidate from the write on, and is synced before the rename
  (`Progress`); what a thread has still to write goes to it or to a file without a name, and
  what a thread has still to rename is whole (`LateProgress`); the file a crash may bring back
  is whole (`PriorWhole`). `OldOrNewCorrect` and `RestartableCorrect` follow. A start that
  finds a whole `daemon.toml` ends the sharing, since threads end with the daemon. The three
  assume `LogIsNoTemp`, that no client puts
  the log at `daemon.tmp`: the code means to refuse that and does not (finding 3).
  `CaughtUpCorrect` needs no such assumption: the last change in the stream is the one in
  force (`LastIsCurrent`), and a tray whose stream holds none shows it (`Informed`).
- `CodecsProofs`. The invariant `Inv` says that what is on the wire is what was sent, or that
  with one byte damaged or the end cut off (`OnWire`), and that what was decoded was decoded
  from the wire. The values' own lemmas are in `ConversionsProofs`, which
  `MouseSettingsProofs` uses too.
  - `ReadsBackWhatWasSentCorrect` has one lemma per kind of value (`PacketReadsBack`,
    `DpiReadsBack`, ...). Shortcuts and macros are tables of events of one size:
    `FlattenedIs` finds an event's bytes in the table, `EntriesAre` reads them back,
    `AllValid` says that the filter of valid events drops none. Of a name, `LossyCut` says what
    its first bytes read as, at whatever byte they end: the characters among them, and U+FFFD
    for one that is cut. No character of UTF-8 begins inside another (`FirstBytes`), so the
    pieces of the lossy decoding are the characters. `CutNameReads` takes this to the 30 bytes
    of a slot.
  - `DamageDetectedCorrect` rests on `Spoiled`: a checksum does not survive the change of one
    byte, because the sum changes by less than 256. An answer carries no checksum that is
    read; of a shorter one `AnswerIs` says what each parser requires of its length and flags.
  - `PercentFollowsVoltageCorrect` compares two voltages in the same row of the battery's
    table and in different ones (`BetweenRows`).
  - `Total` and `ValidOnes` are recursive functions. The library's induction takes an operator
    and cannot be instantiated, so `Induction` states it for a set of numbers, and follows
    from the least element outside it, whose existence finite sets give.

Only model-checked: all liveness, because the prover has no fairness. Every invariant that a
passing run checks is also a theorem.

## Findings

With a run that shows them:

1. **A late answer is taken for another command's** (`scyrox/src/mouse.rs:334`, run
   `mouse_read`). The comment says the address is verified; the code warns and goes on.
2. **`with_mouse!` can panic** (`scyroxd/src/server.rs:50`, `device_slot_unwrap`).
   `ensure_mouse` and the body's lock are two critical sections.
3. **The battery log can become `daemon.toml`** (`fs_util.rs:20`, `daemon_config_alias`). The
   reserved temporary name is `daemon.toml.tmp`; the one used is `daemon.tmp`.

Stated in a module and violated there, without a run of their own:

4. **An error disposes the wrong mouse** (`server.rs:56`, `DeviceSlot!OnlyDeadInvalidated`).
   It is handled after the lock was released.
5. **The battery poll may never work again** (`server.rs:481`, `DeviceSlot!PollDelivers`) after
   a replacement between two enumerations, if no RPC comes.
6. **A level is shown of a mouse that is gone** (`server.rs:452`, `Battery!NoLevelOfNothing`). The
   update is broadcast after the lock is released, and can follow `Disconnected`.

Met while modelling; a property says what holds in spite of them:

7. Flash writes do not look at the status of the answer (`mouse.rs:271`): a refused write is
   reported as done. `OkMeansApplied` excludes calls that met one.
8. The secondary sleep register is also the performance time (`mouse.rs:1150`): `set_config`
   overwrites the one with the other, `set_sleep_timeout` alone changes both.
9. The sleep timeout is cut to 16 bits before its limit is checked (`server.rs:911`,
   `convert.rs:145`): 65546 seconds becomes 10.
10. `add_key_press` accepts more events than a shortcut's slot holds (`types.rs:1113`).
    `ReadsBackWhatWasSent` sends the ones that fit.
11. The comment on the macros' address range ends at 0x0BFF, the slots at 0x0EFF
    (`protocol.rs:190`).
12. `validate_response` and `verify_response_checksum` are called by nothing, and the retries
    that `docs/protocol.md` asks for do not exist (`protocol.rs:294`).
13. Two saves of one profile share its temporary file: a crash can leave an empty profile, and one of the calls
    can fail with its change stored (`fs_util.rs:20`). `SavedIsThere` is about the others.
14. Overlapping `set_default` calls leave two defaults, and an update that read before a
    delete writes the profile back (`profiles.rs:154`).
15. The profile applied on reconnection falls back to `default_profile_id` of `daemon.toml`,
    never to the default that `set_default_profile` sets (`server.rs:694`).
16. A profile whose name has no letter and no digit is saved as `.toml`, which `list` does not show
    (`profiles.rs:211`).
17. `set_config` casts the number of stages to a byte before the limit of eight is checked
    (`mouse.rs:1160`): 257 to 264 stages pass as one to eight, the count is written, and
    the ninth stage is then refused. `OldOrNew` is proved for requests with at most 256 stages.
18. A setter of the configuration that is dropped at its rename leaves `daemon.toml` new and the
    memory old (`server.rs:1325`). Asking for the old value again is answered with success
    without a save, and the next start brings the value of the dropped call. `OldOrNew` says
    that this is the only way in which they differ, and that the file is then whole and what
    that call asked for.
19. The rename of a dropped call may still be pending when the next save truncates `daemon.tmp`
    (`fs_util.rs:27`): it then installs an empty or half-written `daemon.toml`, and a crash
    leaves the daemon at its defaults or unable to start. `OldOrNew` and `Restartable` are about
    what happens before a save shares the temporary file in this way, and after the restart
    that ends it.
20. The name of a macro is documented as ASCII, which nothing checks, and is cut at 30 bytes
    (`types.rs:1308`): a name with a character across that limit reads back ending in U+FFFD.
    `ReadsBackWhatWasSent` says so (`CutName`).
21. The record of the active profile can name another profile than the mouse has, or none: after
    a `set_config` that stored all of it and lost its last answer, after a call dropped there,
    after two applications that overlap, because the record is written once the mouse is
    unlocked, and after a restart of the daemon (`server.rs:1190`). `RecordNamesMouse` is about
    the rest.

Two more behaviours a reader of `Profiles` meets: `apply_profile` broadcasts nothing, while
`auto_apply_profile` does; and deleting the active profile leaves its id recorded, and the next
auto-apply fails on it.

## Hazards

`PROJECT.json` lists forty. Four of them no property covers: a poll task whose handle stays dead
(the code promises nothing, finding 5), the boundary a failed write leaves in the battery log
(sequential, and driven step by step by the repository's tests), the GUI's
read-then-subscribe order (a property would not hold, and nothing recovers it), and a second daemon that removes the
socket of the first (unconditional in the code).

## Not modelled

- The lifecycle of the daemon (`main.rs`): one pass without state of its own. What runs from
  when is in `DeviceSlot`, what a crash and a restart leave in `DaemonConfig` and `Profiles`.
- The GUI and drawing, icons and notifications of the tray; the tray's protocol is in `DaemonConfig`
  and `Battery`.
- The client library and the command line: they forward one call each. Their conversions are
  those of `Conversions`.
- The contents and boundaries of battery log records, with the time and BCD formatting around
  them; which file they land in is modelled.
- In the codecs: the official voltage table and BCD decoding that nothing calls, `Display` and
  serde formatting, firmware version strings.
- The name a profile's id is made from (`slugify`), and the broadcasts that clients ignore
  (`ProfileApplied`, `SettingsChanged`).
- gRPC and HTTP/2, generated protobuf code, Nix and build files,
  `scripts/plot_battery.py`. Hard and symbolic links to the reserved files appear only as
  the check that the code makes.
