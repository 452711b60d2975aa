# sendspin-cpp-cli in TLA+

TLA+ modules, TLC configurations and machine-checked proofs for the command-line
player in `src/`: a program that receives synchronised audio from a Sendspin
server (through the `sendspin-cpp` library, which is not part of the repository)
and plays it through PortAudio, PulseAudio, PipeWire or ALSA, alone or as a
daemon. `PROJECT.json` maps every definition that models code to the lines it
models. Paths below are relative to `src/src/`.

## 1. The system

### Components

| Component | State it keeps | Operations | What makes it correct |
|---|---|---|---|
| Output recovery policy, `sink_recovery.{h,cpp}` | one-shot flags of the reopen and of the rescan, attempts made, deadline | `arm_reopen`, `arm_rescan`, `poll_due`, `note_rescan`, `reset` | a budget that late or repeated reports cannot stretch; delays that grow; an owed rescan is made |
| PCM ring, `pcm_ring.{h,cpp}` | storage, two atomic positions, a clear request | `write`, `free_space`, `request_clear` (producer); `read` (consumer); `reset`, `drop` (neither running) | a lock-free bounded FIFO; no byte is touched by two threads |
| PortAudio output, `portaudio_sink.{h,cpp}` | the stream, its format, the ring, the gain, `stopping_`, `stream_generation_` | `configure`, `clear`, `poll`, `set_volume`, `stop`; `write`; `pa_callback` | audio is played in its own format, whole frames, never after it was dropped; shutdown releases a parked write |
| PulseAudio, PipeWire and ALSA outputs, `*_sink.{h,cpp}` | the same policy over other device interfaces: a server's queue, a ring and a thread loop, a card's buffer | the same interface, `audio_sink.h` | as above; no stream outlives the connection it is on |
| Software volume, `pcm_volume.{h,cpp}` | none | a gain for a volume, a ramp over a buffer | the gain of neighbouring frames never jumps |
| Output selection and formats, `audio_sink.cpp`, `supported_formats.cpp` | none | a device name to a backend; a device's report to the list offered | every device can be named on every build; what is offered can be played |
| Player listener, `player_listener.{h,cpp}` | `streaming_`, refused and discarded bytes, volume and mute | stream start, end, clear, write; volume and mute callbacks | every stream gets one start and one stop event |
| Hook runner, `hooks.{h,cpp}` | one running child, one pending hook | `run`, `poll`, `flush` | one hook at a time; the last event wins |
| Main loop and shutdown, `main.cpp` | `g_running`, the context of the stream, the modes | a 10 ms tick; the drain | shutdown ends; the stop hook gets its chance |
| State store, `state_store.{h,cpp}`, `key_value_file.{h,cpp}` | three keys in memory, one file, a temporary | `load`, `set_*`, `set_all`, `write` | the file is never torn; memory and file agree |
| Outbound dialler, `outbound.{h,cpp}`, `OutboundMode` in `main.cpp` | backoff, the last dial, the remembered server | `next_retry_delay_ms`, `note_connection_state`, `should_dial`, `note_dial` | dials back off; a slow server is reached in the end; what is remembered and exported is of the right server |
| mDNS, `mdns_dnssd.cpp`, `mdns_common.cpp` | service references, candidates, a restart timer | `advertise`, `browse`, `poll`, `stop`, `select_server`, callbacks | references are released once and outside their callbacks; a reported server is followed; a service comes back with its daemon |
| Daemon and pidfile, `daemon.cpp` | a lock, a file | `probe`, `daemonize`, `acquire`, the destructor | a pidfile that has its name tells of its holder, and nobody is refused for one that is gone |
| Control socket, `control_socket.cpp`, `control_client.cpp`, `control_common.cpp` | listener, lock, clients with partial lines | `open`, `poll`, `close`; the subcommands; parse, format, dispatch | bounded clients; one player per socket; what a subcommand reports is what happened |
| Command line and config file, `cli.cpp`, `config_file.cpp`, `key_value_file.cpp` | the options | `parse_options`, `load_config` | the layers are what the documentation says; a daemon means the files its user meant |
| Logging, `log.cpp` | level, file, reopen flag | `log_open`, `log_reopen_if_requested` | a rotation is followed, or the reader told |
| Null output, audio source capture | a latch; a device | `write`; `poll` | |

### Threads, processes and how the parts meet

* The **main loop** ticks every `LOOP_INTERVAL_MS` = 10 ms: the library's `loop()`
  (which calls the player listener's callbacks: stream start and end, volume,
  mute), mDNS, the control socket, the dialler, `sink.poll()`, `hooks.poll()`,
  the log. `configure`, `clear`, `poll`, `set_volume` and `stop` of a sink are
  therefore one thread's calls, in sequence.
* The library's **sync task** calls `sink.write()` with a timeout.
* The **audio thread**: PortAudio's and PipeWire's callbacks take no lock;
  PulseAudio's mainloop thread runs its callbacks under its own.
* **Signal handlers** clear `g_running` or set the log's reopen flag.
* **Hooks** are child processes, reaped by the main loop.
* **Other processes**: players started on the same pidfile, socket or state
  directory, subcommands and anything else that opens the control socket, the mDNS
  daemon, `logrotate`.
* Shutdown, on the main loop: mDNS and the control socket are closed, the client
  disconnects, the loop is pumped until the stream has ended or
  `SHUTDOWN_DRAIN_MS` has passed, `hooks.flush()` runs, `sink.stop()` runs once.

### What is hard to test here

`PROJECT.json` lists the hazards by line, with the properties that cover each.
In short: what another thread does while `write()` waits with a part of a buffer
in hand; the mutex-free latch of `stop()`; recovery of a dead device from two
threads, with delays; two lock-free threads on a ring with one spare byte; a server
or a daemon that goes in the middle of a callback; crash points inside a save and
between a lock and a file; two players started at once; a line cut anywhere; a hook
that never finishes; late answers at shutdown; the order in which a command line
overrides a file that was read after it.

## 2. Modules

| Module | Models | Checked by |
|---|---|---|
| `SinkRecoveryOps` | `SinkRecovery`, as operators | the modules that use it |
| `SinkRecovery` | that policy under the most general caller, with a clock | `sink_recovery`, proofs |
| `PcmFifo` | what a ring promises: a bounded FIFO with a drain | through refinement, which is proved |
| `PcmRing` | `PcmRing`, at the granularity of its atomics and copies | `pcm_ring`, proofs |
| `PortAudioSink` (`MCPortAudioSink`) | `PortAudioSink` and its four threads; composes `SinkRecoveryOps` and a ring that behaves as `PcmFifo` | `portaudio_sink`, `portaudio_sink_live`, proofs |
| `PcmVolume` | gain, ramp step and ramp | the modules that use it, proofs |
| `OutputSink` | what the other three sinks share: the interface, the two threads, the ramp a write carries; composes `SinkRecoveryOps` and `PcmVolume` | with the next four, proofs |
| `PulseSink`, `PipeWireSink`, `AlsaSink` | the sinks, extending `OutputSink` | `alsa_spins`, and `Outputs`, proofs |
| `Outputs` | the three as instances, one chosen at the start | `outputs`, proofs |
| `StreamHooks` | `HookRunner`, the listener's stream events, `main()`'s loop and drain | `stream_hooks`, proofs |
| `RetryDelays` | `next_retry_delay_ms()`, with its constants | `outbound`, `mdns`, proofs |
| `Outbound` (`MCOutbound`) | `RetryPacer`, `LastDial` and `OutboundMode::tick()`, among servers that dial in, discovery and restarts | `outbound`, proofs |
| `Mdns` (`MCMdns`) | `MdnsService` over `dns_sd.h`, and the choice of a server; waits as `RetryDelays` says | `mdns`, proofs |
| `Instances` | players starting, ending and crashing on one pidfile and one control socket | `control`, proofs |
| `ControlSocket` | connections and subcommands, over the players of `Instances` | `control`, proofs |
| `ControlProtocol` | what is said on a connection, from a shell's words to the player's dispatchers and back | `control`, proofs |
| `ControlPlace` | where the socket is put, and looked for | `control`, proofs |
| `MCControl` | the four above, in four scenes | `control` |
| `StateStore` | `StateStore` and the volume callbacks, with kills, power cuts and a second player | `host`, proofs |
| `VolumePair` | which pairs of volume and mute were chosen, beside `StateStore` | `volume_pair` |
| `Options` | `parse_options()` over a command line and the config files | `host`, proofs |
| `OutputChoice` | `-o` to a backend, a device's report to the formats offered | `host`, proofs |
| `LogFile` | the log under rotation | `host` |
| `MCHost` | the four above, in five scenes | `host` |
| `SinkProofs`, `PcmRingProofs`, `PortAudioSinkProofs`, `ServersProofs`, `HooksProofs`, `ControlProofs`, `HostProofs`, `FirstOrderInduction` | proofs | |

Operators named `bug_...` are plausible mistakes, each placed before the
definition it would replace. Nothing uses them; substituting one must make the
property it is paired with in `PROJECT.json` fail.

**Scenes.** `MCControl` and `MCHost` hold components that share a process and little
state. A variable `scene`, chosen at the start and never changed, says which of them
acts; the others stay in their initial states. One run then asks each its questions,
and no question gets a product of unrelated states.

### Recovery policy

`recovery` is the record of the class's fields; each member function is an
operator from record to record. `SinkRecovery` lets any caller make any call in
any order as `audio_sink.h` allows, reports of attempts included, and the clock
move by one at a time. Histories keep when the last attempt was handed out and what
became of it.

### The ring

One action per access to a shared atomic, one per `memcpy` (two where the copy
wraps). A copy can be one step because `SharedWithoutALock` shows that nobody else
touches the cells in it; that property is what justifies the granularity of
everything else. The relaxed store that takes a clear request may be seen before or
after the acquire load that follows it, as the memory model allows; the history
`overtaken` says that the load did go first and a request was made in between.
`Start`, `Stop`, `drop` and `reset` are the backend's part:
the last two are only called with no callback running.

### PortAudio

Actions are critical sections of `mutex_`, cut at each place where another
thread can come between: each reading of `stopping_`, which `stop()` sets without
the mutex, and the wait of `write()` (`waiting`, then `parked`: in between, a
notification sent without the mutex is lost). The callback is cut between reading
the ring and notifying. Bytes carry the format they were sent in and whether the
player has asked since for them to be dropped; that is all the properties tell
apart. `stream_generation_` is compared only with the value a waiting write took
with it, so it is modelled by whether it moved. The clock of `poll()` is either
`0` or far enough for a deadline to pass. The device may die at any time, may
fail to open, and its name may stop resolving. `stranded` marks a stream left
running by a `configure()` that failed before closing it (section 5), so that
the other properties say what holds apart from that.

### PulseAudio, PipeWire, ALSA

`OutputSink` has the state all three keep (stream, gain, the format to reopen in, the
recovery record, the latch) and the parts of `write()` they have in common. Each
module adds its `configure`, `clear`, `poll`, `stop` and callbacks, with the mutex held
where the code holds it: PulseAudio's `write()` lets go of it for a slice at a time
with no predicate and may wake at any moment, PipeWire's waits with a predicate for
its whole deadline, ALSA's never lets go. Audio is whole frames here, where
`PortAudioSink` goes down to bytes; what is followed instead is the gain. A buffer is
ramped once, when `write()` starts, and its frames land in parts: `smooth` says
whether every two neighbours on a stream were within a step of the ramp.
`PulseSink.server` is the connection, `PipeWireSink.server` the thread loop: a stream
may not outlive it. `fruitless` counts the writes in a row that a device which is gone
has taken nothing of.

### Hooks and shutdown

A turn of the loop is the library's callbacks, then `hooks.poll()`, in the
code's order. `opts`, chosen at the start, is which of the two hooks the command line
gives. Children finish at any time or never; `fork()` may fail; the end of
a disconnected stream may come in any turn of the drain, or not at all. An
interrupted `waitpid` is left out: the handlers are installed with `SA_RESTART`.

### Dialler

An action is one call of `OutboundMode::tick()`: a connection is seen and remembered
(`TickConnected`), it is too early or there is nothing to dial (`TickWaits`, which
is also where a lost connection is noticed), or `connect_to()` is called
(`TickDials`). `lost`, `note_connection_state`, `should_dial` and `note_dial` are
the pacer's methods on a record of its fields, `last_dial_ms_` kept as how long
ago it was, up to the longest delay. The library holds one attempt and one
connection; a connection may be lost and made again, or replaced by one of another
server, any number of times between two ticks. `discovered` is any sequence of
distinct servers; `select_server` is the code's choice from it. A server's id and
the URL it is discovered at are one value. `Restart` keeps what the store holds.

### mDNS

One `poll_once()` is several steps: the snapshot of the references, then
`DNSServiceProcessResult()` on each that is readable, which calls back any number of
times before it returns or fails, then the clearing up. A callback is one step. A
reference is what it was made for (the browse, a candidate's resolve or its address
query, the registration); `allocated` is the library's count of them, which what the
program holds and has retired must match. The daemon is external: it goes down, comes
up one service at a time, and reports services on one interface or several, resolves
that fail, TXT records with and without a name, addresses that come, go and cannot be
used. `restart.at` is what is left of the wait. The snapshot is a set, read in the order
of `place`. A candidate's `resolved_seq` is renumbered without gaps whenever one is given
out or goes, since only the order of the numbers is used: the first of `servers()` has the
least of them.

### Players, pidfile and control socket

`Instances` cuts `main()` and the two classes at each call on a file or a lock.
A pidfile is a name for an inode, which lives on while somebody has it open, and a
lock is on the inode: this is where the races are. `Inodes` has one more than there
are players, which is as many as can matter at once. A player may crash anywhere and
be started again. `ControlSocket` adds the kernel's connections and the subcommands:
each is a client that connects, writes, reads and exits with a status, may trickle or
hang up, and is reset when the player closes over what it has not read.
`ControlProtocol` follows one request: typed words, the line, reads that cut it
anywhere, `LineReader`, the dispatchers of `main.cpp` over a server that changes in
between, the reply, the exit status. A token stands for a byte, a numeral for its
digits. `ControlPlace` is the choice of a directory and the path limit.

### State store

`set_all()` and `write()` are cut at each call that reaches the file system; any
of these may fail, the process may be killed between any two, and the machine may
lose power. `disk` is what processes see and `durable` what a power cut would
leave: a rename is durable some time after it is made, possibly before the bytes
of a file that was not synced. A volume callback changes the mixer, then persists
the pair; a server command may bring both callbacks.

### Options, output, log

`Options` reads one word, then one line, at a time, as `getopt_long` and the config
reader do, with the marks that tell a typed option from one that is not, and then
resolves: server, modes, paths. Values are sequences of tokens; the entries of a config
file are kept by their lines, and the merge goes from the first to the last. `OutputChoice` goes
from a device name through the probe's report to the list that is offered, one step
of `main()` each. `LogFile` is the file under fd 2, a `logrotate` that renames and
signals at any time, and the reopening, cut at its calls.

## 3. Runs

| Run | Shows | Bounds, and why they are enough | States |
|---|---|---|---|
| `sink_recovery` | the budget (`KeepsItsBudget`); spacing and backoff (`AttemptsPaced`); what is owed is attempted (liveness) | 3 attempts, delays 2 to 5 (a ceiling that is not a multiple of two of the first), clock to 20: the whole ladder and repeats after `reset` fit | 9 194 |
| `pcm_ring` | no byte is touched by two threads and a clear request drops everything, unless its load overtakes its store (`SharedWithoutALock`); room reported stays (`RoomIsKept`); the ring implements `PcmFifo` | capacities 0 (never configured), 3 and 4, transfers to 3 bytes, 6 bytes in all: wraps, full, empty, partial writes, a reset to another capacity | 2 171 861 |
| `portaudio_sink` | audio of one stream, in its format, in whole frames (`OneStreamAtATime`); what was dropped is not heard (`DroppedIsGone`); one try of each, at its gain, none after `stop()` (`OpensAreBounded`); a rescan closes no stream that works | formats of 2 and 3 bytes per frame, so that frames of one never line up in the other; a ring of 2 frames and transfers of 1 or 2, so that it fills and writes are cut; 2 rescans | 3 727 629 |
| `portaudio_sink_live` | a parked write is released by `stop()` | one format, a ring of 1 frame (parking is the common case) | 227 172 |
| `outputs` | of PulseAudio, PipeWire and ALSA: what is queued is the stream's, in its format and not dropped; the gain never jumps; a stream is open only while its connection is and before `stop()` ends; a dead device discards; `stop()` returns | 2 formats; queue and writes of 2 frames, so that a buffer lands in parts and in two streams; volumes 0, 50 and 100 over a ramp of 3 frames, longer than a write; 2 rescans | 333 891 |
| `alsa_spins` | a counterexample (section 5) | the same, a queue of 1 | 392 |
| `stream_hooks` | hooks run one at a time, each in its own stream's context (`HooksDoNotMix`), and end in the final state (`LastEventWins`); shutdown ends | one hook, the other, or both; 4 streams, a drain of 2 turns: a hook running, one pending, one replaced and one more | 2 445 |
| `outbound` | redials back off, whatever connections come and go; what is remembered and what a hook is told is of the right server (`KnowsItsConnections`); a slow server is reached in the end | delays 1, 2, 4 (three rungs: the first, one doubled, the ceiling), an answer after 3, more than the second delay and less than the ceiling; 2 servers; a URL, any server, and one by name | 348 580 |
| `mdns` | references are released once, never in use (`RefsAreManaged`); a server that is reported is followed; what is chosen can be dialled, and is the remembered server or the first; the service returns | 2 servers, one of them on two interfaces (one leaves, the other stays); one address; delays 1 and 2 (a first and a doubled) | 593 070 |
| `control` | players keep their places; a subcommand says what happened; a line arrives however it is cut; an answer is true; a socket has a place or a reason; slots are freed | 2 players and 2 clients for 1 slot; every subcommand with values on both sides of each limit (`INT32_MAX` 2, volumes to 1, delays to 2); lines to 4 tokens, cut anywhere; foreign bytes with separators, NUL and signs; directories of every mode and of lengths around the path limit | 262 970 |
| `host` | the file is never torn; what is held is on disk; options mean what they say; a detached player means the same files; every device has a name; what is offered can be played and is in order of codec, rate and depth; a rotation is followed or told of | 2 players, one of them down in the first scene; 1 volume and 1 server, saves failing anywhere; up to two words over the files, every layer, every subset of 4 backends, reports over 3 rates, 3 depths and 4 sets of channels, 4 pins; 3 log files | 489 990 |
| `volume_pair` | a counterexample (section 5) | 1 player, 1 volume | 429 |

With three players instead of two `control`'s first scene has 2.25 million states and
the same answer.

`StreamHooks` runs with deadlock checking off because the program really ends, and
`MCHost` because a scene does: options are accepted or refused, an output is chosen,
the files of the log run out. Everywhere else deadlock is checked.

**Fairness.** Safety properties assume none.

* `SinkRecovery`: the main loop polls and time passes.
* `PortAudioSink`: weak fairness of the steps of a `write()` that has begun, and of a
  callback that has begun; strong fairness of `stop()` getting the mutex, since
  `write()` may be called over and over (this is that the mutex starves nobody). None
  for a deadline, for a new callback, or for the device.
* `Outputs`: the same for `write()` and `stop()`, and a clock that reaches a `write()`'s
  deadline, since these sinks wait under the mutex. No server or card need ever play.
* `StreamHooks`: the main loop takes its turns; nothing is assumed of hooks or of the
  library.
* `Outbound`: the loop ticks, time passes, and an attempt that has been left alone for
  `ANSWER_MS` is answered (`AnsweredLate`; while `healthy`, time does not pass it by).
  Nothing makes an answer come sooner, and with an answer as slow as the longest delay
  the property fails, as it should. It speaks of a world where every candidate answers:
  one that is advertised, first in the list and mute is dialled for as long as it is
  advertised.
* `Mdns`: the main loop polls for ever and a library call returns (weak), and the clock
  moves between polls (strong: it moves only there). The daemon owes nothing;
  `ServiceReturns` is about one that is up for good from some point on.
* `MCControl`: a player's clock and its polls of a connection, which are strong because
  each poll serves the connections in turn and another may be in its way, and a client
  that has connected goes on. A client may trickle bytes as long as it likes.
* `MCHost`: the main loop gets on with a reopening it has been asked for.

## 4. Proofs

For every value of the constants that satisfies the named assumptions:

| Module | Proves | Of the run |
|---|---|---|
| `SinkProofs` | `BudgetKept`: `KeepsItsBudget`; `Paced`: `AttemptsPaced`; and their parts | `sink_recovery`, all of its safety |
| `SinkProofs` | `QueuesKept`: `QueueIsItsStreams`; `RampsSmooth`: `GainNeverJumps`; `StreamsBracketed`: `StreamsAreBracketed`; `DeadStreamsDiscard`: `DeadStreamDiscards` | `outputs`, all of its safety |
| `ServersProofs` | `ConnectionsKnown`: `KnowsItsConnections`; `DialsBackOff`: `RedialsBackOff`; and their parts | `outbound`, all of its safety |
| `ServersProofs` | `RefsManaged`: `RefsAreManaged`; `ServersFollowed`: `ReportedServersAreFollowed`; `ChoiceIsDialable`: `ChoosesWhatCanBeDialled` | `mdns`, all of its safety |
| `HooksProofs` | `OneAtATime`: `HooksDoNotMix`; `FinalStateReached`: `LastEventWins` | `stream_hooks`, all of its safety |
| `ControlProofs` | `PlacesKept`: `PlayersKeepTheirPlaces`; `StatusIsTrue`: `SaysWhatHappened`; `AnswersAreTrue`: `AnswerIsTrue`; `LineCarried`: `LineArrives`; `PlaceFound`: `PlacedOrToldWhy` | `control`, all of its safety |
| `HostProofs` | `FileIsWhole`: `NeverTorn`; `MemoryMatches`: `HeldIsOnDisk`; `OptionsKept`: `OptionsMeanWhatTheySay`; `DetachedKept`: `DetachedMeansTheSame`; `DevicesHaveNames`: `EveryDeviceHasAName`; `OffersKept`: `OffersWhatCanBePlayed` | `host`, all of its safety |
| `PcmRingProofs` | `LockFree`: `SharedWithoutALock`; `RoomKept`: `RoomIsKept`; `RingIsFifo`: `ImplementsFifo` | `pcm_ring`, all of it |
| `PortAudioSinkProofs` | `StreamsDoNotMix`: `OneStreamAtATime`; `NothingLivesOn`: `DroppedIsGone`; `OpensBounded`: `OpensAreBounded`; `RescanIsHarmless`: `RescanTearsNothingDown` | `portaudio_sink`, all of it |
| `FirstOrderInduction` | what the proofs about delays, lines and recursive readers rest on: the policy, the dialler, mDNS, the PortAudio sink, the options, the formats, a connection | |

The assumptions are the named ones of the modules: counts and delays are positive, a
ceiling is no less than what it limits, a frame has bytes, a ramp has frames (it is 20 ms
at a rate the sink has accepted), volumes are naturals, a build's backends are among
the four there are, and what is probed, and found by a probe, is each value once and none
of them 0. What is typed, is in a file or comes from a peer is text, and a
token of text is not the mark of an option that is unset. Numbers have one decimal
notation each, which is no sign and no separator (`NumeralsAssumption`; TLA+ does not
say so of `ToString`), and the longest request fits in a line. Sizes of rings, of queues, of buffers
and of messages, formats, players, clients and the numbers of attempts are any.

*The policy.* `AttemptsWithinBudget` is not inductive: `poll_due()`
adds to the count without looking at the budget, and relies on a rescan being
armed only while the budget lasts. `IInv` therefore adds `BudgetInv` (whatever is
armed or out has an attempt left) and `DeadlineInv` (a deadline lies one delay of
the ladder after the attempt it follows), besides `TypeOK` and
`NothingOwedOnceOut`. `InitIInv` and `NextIInv` are the two facts of induction,
one case per action; the safety theorems follow by `Safe`.

*The dialler.* That dials back off is a fact about a
history (`since_dial`, `unanswered`) which the pacer does not keep. `PaceInv` ties it
to what the pacer does keep: its clock never runs ahead of the history, and its
delay is never below the rung of the dials nothing has answered (`DialClimbs`). A
connection that comes and goes between two ticks resets nothing, since
`unanswered > 0` implies that no tick has seen one. `MemoryInv` says that the latch of
`remember()` belongs to the connection last seen, and `UrlInv` that an attempt in
flight, and a connection that came of one, carry the URL of `last_dial_`: this is
why what a hook is told needs no check of how the connection came about.

*mDNS.* `IMdns` is about the whole of `poll_once()`, in whose middle none of the three
properties is inductive. `RefsAccountedFor` is: a callback that opens a reference holds it
(`Opens`), one that is done with its own retires it, and `teardown()` and the end of the
poll give back exactly what is held or retired (`Counts` and `Books` read the sequence of
retired references as a count). `HeldInv` keeps the reference that is being processed
among these, and a retired one with a candidate that is still there, so that its context
is. `FollowInv` says of each candidate what is put off until the poll ends: it knows the
interfaces it is reported on, and one that is on none or is no use is doomed. That the
browse never reports a useless candidate anew, which would be taken for known and then
purged for good, rests on an order the code does not mention: a candidate becomes useless
in a callback of its own, `live_refs()` lists the browse before all of these (`Places`),
and the purge comes before the next poll. `OrderInv` says that no two candidates have one
number, which `Numbering` shows of the model's renumbering; a least one then exists
(`LeastElement`) and is the first.

*The hooks.* "Nothing runs and nothing waits, so the last event was tried" says nothing
of the states in between. `SlotInv` does: the last event waits, or it has been tried;
and an event waits only behind a hook in the table. That second part is what `run()`
leans on when it finds the table empty and spawns without a look at the slot.
`StreamInv` adds that the shared context is that of the stream which is running, so
that an event made of it is in `Events`, where context and stream are one;
`still_running` of at most one child is that child or nobody (`StillRunning`). `flush()`
is the only step that may put a second child beside the first.

*The players.* `IInv` ties each lock to a place in `main()`. `PidInv`: who is past the
lock on a pidfile holds the lock of the very inode it has open, whoever holds a lock is
at such a place, and from `acquired` on the inode says its holder's pid. `CtlInv`: the
path of the control socket is touched only at a place where its lock is held, and a
listener's socket is the one at the path. A probe opens the inode, and may be given one
whose name goes the next moment: the inode is then nobody's, which is why the invariant
speaks of inodes and not of the name. A file that is created gets an inode no
descriptor is on (`FreshIsFree`: there is one more than there are players, and a map
from inodes to players that had one each would be injective). `NobodyIsRefusedAlone`
then needs no more than that a lock which turns a player away has a holder, who is
alive (`NotAlone`).

*The connections.* `ReplyInv`: the player replies as it closes, once, and the reply is
an answer exactly when it has handled the request. `StatusInv`: a status is the reply
that the client has read, or tells that there was no connection. The two sides move
apart, so each is carried through the other's steps. The count of open connections is a
cardinality; a client that is let in is put in a set with room for it (`Slots`).

*The store.* `WholeInv` says more than that the file is whole: a temporary is, once
printed, its process's own values, and is safe when it comes to the rename
(`TemporaryInv`). This holds of any number of players, because the name of a temporary
has the process in it. `MemoryMatches` is about the scene in which one player starts
and the others never do, as a second one replaces the file of the first. There
`SoloInv` ties `previous` to the file for as long as a write lasts, so that a write
that fails rolls back to what is there.

*The ladder.* The delays of the first two are a recursive function on the number of
attempts. `FirstOrderInduction` derives, with an induction whose statement quantifies
over sets instead of operators, that such a function exists and obeys its equation;
`DoubledDef`, `LadderDef`, `DelayIsLadder` and `DelayBounds` then say what
`rescan_delay_ms()` returns for every count, and `NextDelayDef`, `RungDef`,
`NextDelayBounds` and `DelayClimbs` what `next_retry_delay_ms()` does: halving the
ceiling before comparing, as the code does, never gives less than doubling first.

*The ring.* Remainders by a capacity that is any number are out of the provers' reach, so
the positions are read as distances: `gap` is how far one is behind the other and `cell`
the position so many bytes on, and a handful of lemmas (`UsedIsGap`, `WrapIsCell`,
`GapOfMoved`, `CellsDiffer`) say that the code's remainders are these. `QueueInv` says
what the bytes that can be read are: the ones accepted last, in order, numbered from
`Gone + 1`. A write works outside of them (`WriteInv`: it keeps to room it found, and the
reader only makes room larger) and a read at their end (`ReadInv`: what it found is still
there, since the writer only adds). So neither side needs to know where the other is
between two of its steps, which is what the relaxed loads of `pcm_ring.cpp` rely on.
`ClearInv` says that a clear no longer asked for has dropped all that was written before
it, or is about to, unless a load `overtaken` by its store lost it (section 5). In
`RingIsFifo` each step maps to one of `PcmFifo` or a stutter: the queue is
`Stretch(Gone, Held)`, the numbers of the bytes held, and what a step does to it is a
fact about cutting and joining stretches.

*The PortAudio sink.* `IInv` has a part per actor, each about that actor and the stream.
`StreamInv`: no stream, no bytes; with one, whole frames of its format, none of them
dropped unless a drain is asked for. `PlayerInv`: the stream is the player's, until
`stop()` closes it or a `configure()` leaves it `stranded`. `WriterInv` is what the
generation is for: a `write()` that waits lets go of the mutex, and on waking knows no
more than whether the generation has moved; if it has not, there is a stream, its frames
are as large as the ones the write has in hand, and what it holds may be heard.
`CallbackInv`: what the callback has taken may be heard, for nobody closes a stream
while a callback is in it. `RecoveryInv`: an attempt is spent as it is made, and a rescan
is owed only by a stream that is dead, which gives `RescanIsHarmless`. A cut to whole
frames is a quotient, so `WholeFrames`, `CutToFrames` and their like hold for a frame of
any size.

*The other sinks.* `OInv` is one invariant of all three; a lemma says per kind of step what
it needs (`MainOpens`, `WriteOpens`, `WriteEnds`, `WriterMoves`, `StopCloses`,
`DevicePlays`), and each sink's actions are shown to be of these kinds. `Owns` is what a
`write()` must know before it puts a frame on a queue: there is a stream, in the format of
its buffer, and nobody has asked for the buffer to be dropped. `WriterInv` says that it
does while it has the mutex, and that a `write()` which waits without the mutex does as
long as the generation has not moved, which is all it looks at on waking. `FormatInv` is
why the format is right: what is remembered to reopen a stream in is what the player last
announced. `RampInv` says of a ramp in progress what `GainNeverJumps` cannot: the last
frame on the queue has the gain that the ramp has come to (`reached`), in the middle of a
`write()` by the frames it has written, between two by `current_multiplier_`. A `write()`
that is cut short commits what it has written, so the two agree (`Ends`); a stream that is
opened or flushed has no last frame to compare with. That two frames of a ramp are a step
apart for any distance and step is `Travel`, and that a ramp moves at all `RampMoves`.
`AmplitudeIsGain` says that every volume has an amplitude no greater than unity, which
`LeastElement` finds. `FruitInv`: a write of which a dead device took nothing leaves a
stream that the next does not find alive; ALSA's may (section 5).

*The options.* `OptionsInv` speaks of the reader in the middle of its work. `Layered`
says where the value of each option came from so far: the last word on the line that
sets it (`Setters`), else the last line of the file that does, once that line has been
merged (`Merged`), else nobody, and then it is unset. `EntriesInv` is what makes the
merge right: what is still to be merged is a tail of the file's own entries, so a line
that has been taken is before all that have not. The file that is used is the one named, else the first that is
there (`LeastElement`). When a run is accepted all layers have been read, so `Layered`
is `LayersAsDocumented` but for what the resolution itself changes: a path that has been
made absolute, which is also all that `DetachedMeansTheSame` needs.

*The line.* A read may end anywhere, so what the assembler holds in the middle is said of
the whole: `After(bytes, k)` is what k of the bytes leave it with, and `Stop` where it
would stop. One byte more is one place further (`EatenNext`), and by induction on the
piece so is a whole read (`FeedIs`): reading in pieces is reading at once. `LineInv` is
that the player holds `After(wire, delivered)`, and that what is on the wire is one
request that its own line is parsed as (`Sent`). That it is so of every request that can
be typed is `RequestIs`: a sign and a magnitude come back as the number they were
(`Int32Is`, of both ends of the range), a word as that word (`ArgumentIs`), and the line
is split into the words it was joined from (`CommandSplit`), since nothing in them is a
blank, a newline or a carriage return. The line then fits and nothing ends it early
(`WholeLine`).

*The answers and the place.* `AnswerInv` adds to `AnswerIsTrue` what it leans on: a
connection that is lost leaves nothing to offer or to show, and what is shown was told by
the server there is. The place is a function of the host and the flags, so its invariant
is `PlaceInv`, what a host may be, and `Placed` does the cases.

*The choice of an output.* `choice` is what `resolve_device_spec()` makes of the build and
of `-o`, which is all that `ChoiceInv` has to say; the rest is about that function, for a
build with any of the backends and a spec of any pieces (`Prefixed`: `alsa:` put before a
spec comes off again; `PluginsAreKept`: `pulse` and `pipewire` are ALSA's again without
their backend).

*The formats.* `std::stable_sort` is modelled by what it promises: the place of a value is
one past all that precede it (`precedes`, a total order by `PrecedesIs`). That this gives
each value a place of its own, and so a list of the same values in the order of the
ladder (`OrderIs`), is the pigeonhole of `PlacesAre`: places differ, and there are as
many as values. The property does not speak of places: one value is to come before
another because the ladder names it first, or alone, or names neither and it was reported
first (`ranked`), which is what `PrecedesRanked` gets from the places. A block of a codec
is a table written row by row (`Cells`, `AllIs`), so by rate and, at the same rate, by
depth; FLAC comes before Opus and both before PCM (`Ahead`), so that the three after one
another have nothing twice and are in `in_priority_order` throughout (`OffersJoin`). The
pin moves one format and keeps the order of the others (`PinIs`). It is assumed of the
constants that the decoder's own shape is one that `--audio-format` may name. `OffersInv` says no more than which of these lists is out,
and that the report has each value once.

Each `IInv` was tried with TLC first, as an invariant of the run's instance.

The proof of `PlaceFound` failed at first, and the model was at fault: arms of a `CASE`
that overlap leave TLA+ any of those whose guards hold, where TLC takes the first, as the
code does. `ControlPlace`, `ControlProtocol`, `Options` and `OutputChoice` now
say the order, with `IF` and `ELSE`.

Only model-checked: liveness (`OwedIsAttempted`, `StopReleasesWrite`, `StopReturns`,
`ShutdownEnds`, `ConnectsInTheEnd`, `ServiceReturns`, `SlotsAreFreed`,
`RotationFollowedOrToldOf`), which is beyond the provers.

## 5. Findings

1. **A volume and a mute that were set together can be remembered as a pair nobody
   chose** (`volume_pair`, `player_listener.cpp:120`). The library's two callbacks save
   one after the other; `state_store.h:139` has one write for the two so that a kill
   cannot come between them. Only whoever calls the callbacks could say that the two
   belong together.
2. **An ALSA device that is unplugged keeps the sync task spinning** (`alsa_spins`,
   `alsa_sink.cpp:616`). `write()` leaves its loop without setting `failed_`, which
   `alsa_sink.h:130` says is there so that it does not return 0 for ever. PulseAudio and
   PipeWire do discard (`DeadStreamDiscards` of `outputs`).

Seen while modelling, and stated in a model as what the code does, without a run of
their own:

* `--audio-format` also sets the input device: its `case` falls through to that of `-i`
  (`cli.cpp:897`). `LayersAsDocumented` makes the exception by name.
* A `configure()` whose device name no longer resolves returns with the old stream open
  and the new format recorded (`portaudio_sink.cpp:491`); `OneStreamAtATime` leaves a
  `stranded` stream out.
* A clear request can be lost when the relaxed store that takes one is seen after the
  load that follows it (`pcm_ring.cpp:57`); `SharedWithoutALock` says `~ overtaken`.
* The last hook of the program can be a start hook, when the drain gives up with a start
  event pending (`hooks.cpp:159`).
* A redial cancels an attempt still in flight (`outbound.cpp:60`), which `outbound.h:43`
  says it never does. `ConnectsInTheEnd` shows that the growing delays make good for it.
* A client over the cap is answered and closed with its request unread
  (`control_socket.cpp:236`), so it may be reset before it has read the answer; the
  comment there expects it to read "busy". `SaysWhatHappened` allows the failure.
* A candidate forgets its interfaces when its resolve fails; a look at the lock of the
  control socket may get another player that starts at the same moment refused; a
  pidfile may be acquired on an inode that has just lost its name, so that two players run
  on it, as `daemon.cpp:70` accepts: `PlayersKeepTheirPlaces` does not exclude it.
* `no-control = false` in a config file beside `--control-socket` is refused as a
  contradiction (`cli.cpp:1026`); a directory given to `--config` reads as an empty file.

## 6. Not modelled, and the plan

| Part | Why not, or when |
|---|---|
| `sendspin-cpp`, PortAudio, PulseAudio, PipeWire, ALSA, the DNS-SD library, the kernel's files, locks and sockets, child processes | outside the repository: modelled as the environment, from how the code uses them |
| Null output | one latch, set by a pipe that has closed, and no second thread that changes it; a write to a full pipe waits for as long as the pipe's reader likes, in the host |
| Audio source capture | a poll that copies bytes from a device to the library, with no state of its own that a second actor changes |
| Byte accounting of the player listener | a count for a log line, read and reset by the main loop beside the sync task |
| The listing of devices, probing, log levels, usage, help, warnings and the wording of a status | queries, layout and wording |
| PulseAudio's `poll()` with the mutex released between a reconnection and the reopening; the log line about PipeWire's quantum | one step each; the first is how far apart the two may be, the second is not state |
| Numerals cut in mid-digit, leading zeros | a token is a whole numeral; the line reader's cuts are between tokens |

What has no theorem yet is what section 4 says is only model-checked.
