# TLA+ models of the wmbusmeters serial layer

This directory holds TLA+ models of the concurrent and protocol parts of the
C++ sources under `src/src/`, with TLC configurations and TLAPS proofs.
`PROJECT.json` lists the components, the runs, the mutants, the definition-to-line
map, the findings and the hazards.

## The system and how its parts interact

`meter_multical603.cc` holds more than the Multical 603 driver. It also holds
`SerialCommunicationManagerImp` and the `SerialDevice` classes (tty, command,
file and simulator). The manager owns a list of devices, `serial_devices_`,
and runs three threads:

* **The event loop** (`eventLoop`, 1199-1319). Each round it builds an fd set
  from the listed devices and waits in `select`. It then calls each ready
  device's `on_data` callback. At the end of the round it sweeps: every opened,
  non-working device is closed, and `removeNonWorkingSerialDevices` erases it.
  It stops the manager (the emergency stop) when devices are expected to work
  and none does.
* **The main thread.** It sets up the devices and then sits in `waitForStop`
  (1032-1061). Once woken, it closes every device (`closeAllDoNotRemove`) and
  joins the other two threads.
* **The timer loop** (`timerLoop`, 1169-1197). It sleeps one second per round,
  stops the manager after `exit_after_seconds`, and runs the regular callbacks
  in `executeTimerCallbacks`.

The meter drivers (`meter_multical603.cc` lines 1-257, `meter_multical302.cc`,
`meter_compact5.cc`, `meter_unknown.cc`, and the Lansen pulse counter
`MeterLansenPU` at the end of `mbus_rawtty.cc`) are called on the event-loop thread.
The dispatcher (outside `src/`) hands each decoded telegram to the
`processContent` of the matching meter, which updates the meter's readings.

Two consumers of the device layer are modelled:

* **`MBusRawTTY`** (`mbus_rawtty.cc`). Its `processSerialData` is the
  `on_data` callback of a raw M-Bus tty. It buffers the bytes it reads and
  splits them into frames.
* **`WMBusSimulator`** (`wmbus_simulator.cc`). It replays a script of
  telegrams with relative times, and then calls `stop()` on the manager.

## Modules

| Module | Models | State | Actions |
|---|---|---|---|
| `SerialManager` | the manager, its three threads and the three device kinds | `fd`, `present`, `pid`, `onDisappear`, the device list, `running_`, `expect_devices_to_work_`, the main thread's hold of `serial_devices_mutex_`, a `pc` per thread, and per closing thread the device and the step of `close()` it is at | the setup's `open()` calls, `startEventLoop`, the event-loop round (snapshot, select stopped/timeout/ready, on_data, notify, sweep, sweep close, remove), `waitForStop` (wake, close all, join), the timer loop (end, exit_after_seconds), the environment (tty unplugged, child exits) and one action per step of `close()` |
| `SerialManagerProofs` | TLAPS proof of `TypeOK` of `SerialManager` | | |
| `WMBusSimulatorProofs` | TLAPS proofs of `TypeOK`, `SimInv`, `NotEarly` and of the refinement of `TimedReplay` | | |
| `MeterDriversProofs` | TLAPS proofs of `TypeOK` and `LatestReading` of `MeterDrivers` | | |
| `TimersProofs` | TLAPS proof of `PeriodRespected` of `Timers` | | |
| `TimedReplay` | what `simulate()` promises, without its wait loop | clock, start time, `running`, the lines handed on, `finished` | `Replay(i)`, `Finish`, `Tick`, `Stop` |
| `Timers` | `startRegularCallback`, `stopRegularCallback`, and the timer loop's sleep, EINTR, `executeTimerCallbacks` and callback invocations | `timers_` as a sequence of records, the clock, `running_`, the timer loop's pc, the copy `to_be_called`, the id each client holds, and two history variables: the serial number `reg` of each timer's registration and `last_fired`, per registration the time it was made or last copied by `executeTimerCallbacks` | `startRegularCallback`, `stopRegularCallback`, `LoopTop`, `Interrupted`, `WakeUp` (which runs the locked part of `executeTimerCallbacks`), `InvokeCallback`, `Tick`, `Stop` |
| `MBusRawTTY` | `processSerialData` and `sendTelegram` | the stream, the unread bytes, `read_buffer_`, the telegrams handed to `handleTelegram` | `Receive`: one read of any nonempty chunk, followed by the whole frame loop |
| `MeterDrivers` | `processContent` of the five drivers | the fields of a Multical603, a Multical302, a Compact5 and a LansenPU object, the explanation offsets and frame length of the last telegram, the telegrams each multical has received (history) | `Process603`, `Process302`, `ProcessCompact5`, `ProcessLansenPU`, `ProcessUnknown`: one whole `processContent` each |
| `WMBusSimulator` | `simulate()` | clock, start time, `isRunning()`, line index, the wait loop's `curr`, the deliveries | `NextLine`, `WaitCheck`, `WakeUp`, `SimulateEnds`, `Tick`, `StopElsewhere` |

`MC_*.tla` instantiate each module with small constants.

### How each model follows the code

* **`close()` is split into steps.** A device's `close()` takes no lock. It is
  split at every shared access:
  * the tty: check fd, `::close`, call `on_disappear_`, clear it, tickle;
  * the command: check, `stop` pid, hook, clear, `::close`, tickle;
  * the file: check, `::close`, tickle.

  So two threads can be inside `close()` of one device at once. Everything
  else that `serial_devices_mutex_` protects is one step per critical section.
* **One `Receive` is the whole call.** A `Receive` in `MBusRawTTY` covers the
  whole of `processSerialData`: the append and then the frame loop to its break.
  The loop is the RECURSIVE operator `eatFrom`.
* **`executeTimerCallbacks` is split at the lock.** The locked copy is one step
  (`WakeUp`). Each unlocked callback invocation is a step of its own.
* **Telegrams are sets of decoded records.** In `MeterDrivers` a record has
  a measurement type, a value information, a storage number and a value.
  `findKey` and the `extractDV` helpers are outside `src/` and follow spec
  4.E: a linear search in key order, where `Unknown` matches any type. A
  fixed-key extraction whose key is missing leaves either the old value or 0;
  the Lansen pulse counters are read this way. A fixed-key record is named by
  its key without the DIF (`"04FF22"` is `FF22`, the subunit-1 `"8E40FD3A"` is
  `40FD3A`).
  A Compact5 read past the end of the payload is undefined behaviour, so it
  returns any byte.
* **The simulator refines an abstract replay.** `TimedReplay` states what
  `simulate()` promises: the telegram lines are handed on in script order,
  none skipped, each no sooner than its `|+N` unless the manager was stopped,
  and then the manager is stopped. `WMBusSimulator` instantiates it with
  `sent <- deliveredLines` (the line numbers of the deliveries) and
  `finished <- (pc = "done")`; clock, start time and `running` map to
  themselves. Skipping a non-telegram line, entering the wait loop and each
  wait check that does not deliver are stutter steps of `TimedReplay`.
  `ImplementsReplay == Replay!Spec` is checked as a property, fairness
  included.
* **stop() from outside the event loop.** `stop()` is public: the
  simulator calls it at the end of `simulate()` (`wmbus_simulator.cc:180`),
  and signal handlers call it too. In `SerialManager` the action
  `ExitAfterSeconds` is a `stop()` from the timer thread at any moment while
  running, so it stands for every such call. With `ExitAfter = FALSE` only the
  event loop's emergency exits stop the manager. That configuration is the
  daemon with no outside stop; the races of `close()` need `ExitAfter = TRUE`
  (`exit_race`).
* **Ids are computed as in the code.** `startRegularCallback` gives a new
  timer `Len(timers)` as its id, because the code uses `timers_.size()`.

## Runs

| Run | Checks | Shows |
|---|---|---|
| `serial_manager` | TypeOK, Termination, EmergencyStop | one tty, command and file, without exit_after_seconds: in every interleaving of the event loop, main and the environment all threads end after the event loop's stop, and the emergency stop fires |
| `exit_after` | Termination | with exit_after_seconds, the three threads still end |
| `exit_race` (violation) | DisappearExactlyOnce | with exit_after_seconds, `on_disappear` of a command fires twice |
| `sweep_race` (violation) | RemovedOnlyIfClosed | a device going bad between the sweep's snapshot and the removal is erased unclosed |
| `mbus_framing` | TypeOK, CleanSplitInvariance, BufferHoldsPartialFrame, SplitOnlyRecovers, RoundTrip | clean and noisy streams of 1-3 frames (the noise first or between two good frames) in every split: if one read of a stream meets no protocol error, every split gives its telegrams; the buffer holds at most a frame's start; splits only recover telegrams; `sendTelegram` output reads back |
| `mbus_noise` (violation) | SplitInvariance | on a noisy line, the telegrams depend on the split |
| `simulator` | TypeOK, NotEarly, Termination, ImplementsReplay | timed lines are never early unless stopped, `simulate` returns, and it implements `TimedReplay` (every telegram line handed on once, in order, none skipped, none before its time unless stopped) |
| `simulator_stop` (violation) | OneTickAfterStop | after `stop()`, each remaining timed line still sleeps a second |
| `timers` | TypeOK, PeriodRespected, DueTimerFires | three callbacks started and stopped in every order against the loop: none fires early, and each due one fires unless it or the manager is stopped |
| `meters` | TypeOK, LatestReading | four telegrams to the five drivers in every order: every multical reading is the record of the latest telegram carrying it |
| `meters_explain` (violation) | ExplanationsInFrame | a short Compact5 payload gets an explanation entry past the end of its frame |
| `timer_ids` (violation) | HandlesValid | a reused id makes `stopRegularCallback` erase another client's timer |

Each property of a passing run has a mutant in `PROJECT.json`: a plausible bug
in a mapped definition, which TLC then reports as a violation of that property.

### Bounds and why they are enough

* **SerialManager.** One device of each kind reaches every branch of
  `working()`, `close()` and `receive()`. Each race needs only two threads on
  one device. The device sets are constants, so the proofs cover any number of
  devices.
* **MBusRawTTY.** The streams are one to three frames: 0xE5, a short frame,
  and a long frame whose data contain 0x68 and 0xE5. The noisy streams add a
  garbage byte or a frame whose two L bytes differ, first or between two
  good frames. Noise in the middle is what lets one read hand on the frames
  before it and lose those after, which a split can recover
  (`SplitOnlyRecovers`, e.g. `<<229, 0, 229>>`). Every chunk size is
  explored, which includes splits inside the four-byte header. The contents
  given to `sendTelegram` are all 2- and 3-byte words over the bytes that
  start or end frames (0, 0x16, 0x68, 0xE5).
* **WMBusSimulator.** The script is five lines:
  1. a timed line at +0, which is due at once;
  2. a line that is not a telegram;
  3. a timed line at +2;
  4. a timed line at +3;
  5. a line with no time.

  The clock runs to 5, one second past the last possible sleep. Two timed
  lines after a stop are enough to show the extra sleeps.
* **Timers.** The model has three names, periods 1 and 2, 3 starts and clock
  values 0..3. Reusing an id needs two starts, a stop and a third start. The
  names are symmetric, but the `timers` run checks a liveness property, so it
  does not use symmetry reduction.

* **MeterDrivers.** Four telegrams are dispatched. The multical telegrams
  include:
  * the full one of spec scenarios a and b, with two sets of values;
  * one without temperatures;
  * one with an instantaneous and a maximum flow record;
  * one with only a maximum flow record;
  * one with only a date.

  The LansenPU telegrams carry both pulse counters, or counter a alone.
  Three telegrams are enough for a missing record to keep a value two
  telegrams old; the fourth lets a driver's telegram follow telegrams to all
  the others. The Compact5 telegrams have payloads of 9 and 5 bytes; one
  byte is at least 128, so a sign error would show.

### Fairness

* **SerialManager.** Each thread is weakly fair: the OS schedules runnable
  threads. The environment (unplug, child exit) has no fairness, since a
  device need never go away.
* **WMBusSimulator and Timers.** The simulating thread or the timer loop is
  weakly fair, and so is the clock: `time(NULL)` advances. `stop()` from
  elsewhere has no fairness. `DueTimerFires` assumes, as its premise
  `<>[][~Interrupted]_vars`, that the timer thread is interrupted finitely
  often: the only signal aimed at it is the one `stop()` sends.
* **MBusRawTTY.** `Receive` is weakly fair: the event loop reads a tty that
  has data.

## Findings

The five violation runs each record a disagreement between the code and the
spec or a comment. They are listed in `PROJECT.json`:

* **exit_race.** Two closers run one `close()` at the same time, and
  `on_disappear` fires twice.
* **sweep_race.** A device is removed from the list without being closed.
* **mbus_noise.** A protocol error drops the later frames of the same read,
  which violates spec invariant 1.
* **simulator_stop.** The simulator takes more than one tick to return after
  `stop()`.
* **timer_ids.** The id `timers_.size()` can belong to a live timer.
* **meters_explain.** Compact5 does not check the payload length, so a short
  telegram gets an explanation entry outside its frame.

## Proofs (TLAPS)

`SerialManagerProofs` proves **`TypeCorrect`**: `Spec => []TypeOK`, for all
sets of ttys, commands and files that satisfy `DevAssumption`, with or
without exit_after_seconds.
* `InitTypeOK` and `NextTypeOK` prove the two steps.
* Lemmas cover the step sequences of `close()` (`CloseStepsLen`,
  `AdvanceType`, `CloseStepType`).
* `DisappearExactlyOnce` is not proved: it holds only when nothing but the
  event loop stops the manager, and `stop()` is public. With a stop from
  another thread, `exit_race` shows the hook firing twice.

`WMBusSimulatorProofs` proves **`SimulatorNotEarly`**: `Spec => []NotEarly`.
It holds for every script `Lines` (a sequence of `[tele, rel]` records, as
`SimAssumption` states) and every `MaxTime`.
* `NotEarly` is almost inductive by itself. Each delivery is appended with
  `at` = the current clock, and each of the three places that deliver a
  timed line has a guard:
  * `NextLine`: `~(clock < target)`;
  * `WaitCheck`: `clock > target`;
  * `WakeUp`: `~running`, which sets `stopped`.
* The strengthening `SimInv` adds two facts:
  * `TypeInv`: the types, with `wake` only a natural, since the runs' bound
    on `wake` depends on the instance;
  * `WaitingOnLine`: while waiting, `idx` is a line of the script, so
    `Lines[idx].rel` is a natural.
* Lemmas `InitSimInv`, `DeliverSimInv` (one delivery) and `NextSimInv` (one
  case per action and branch) carry the argument.
* **`SimulatorInvariant`** states `Spec => []SimInv` itself.

`WMBusSimulatorProofs` also proves **`SimulatorTypeCorrect`**:
`ClockOutlastsScript => (Spec => []TypeOK)`.
* `TypeOK` bounds `wake` and `curr` by `MaxTime`. This holds only when the
  clock outlasts the script. `ClockOutlastsScript` requires `MaxTime >= 1`
  and `N + 2 <= MaxTime` for every `|+N` of the script.
* The argument: `start_time` is 0 or 1. The wait loop sleeps only while
  `clock <= start + N`, and each sleep lasts one second, so it ends by
  `N + 2`.
* The inductive invariant is `SimInv /\ TypeOK`. `NextTypeOK` proves the
  step; it uses `WaitingOnLine` and `ScanInv` to know the line waited on is
  timed.
* `MC_WMBusSimulator` ASSUMEs `ClockOutlastsScript`, so TLC checks that the
  instance meets the hypothesis.

`WMBusSimulatorProofs` also proves **`SimulatorImplementsReplay`**:
`Spec => Replay!SafeSpec`, the safety part of the refinement, for every script.
* `SimInv` gains `ScanInv`: the last delivered line is before `idx`, no line
  between them is a telegram, and while waiting or sleeping `idx` is a timed
  telegram line. This is what makes a delivery of line `idx` the abstract
  `nextTelegram(idx)`.
* `ReplayLastSent` shows the abstract `lastSent` is the last delivered line;
  `ReplayAppend` shows a delivery appends `idx` to `deliveredLines`;
  `DeliverReplay` combines them into a `Replay(idx)` step.
* Each action is a case: the delivering branches of `NextLine`, `WaitCheck`
  and `WakeUp` are `Replay(idx)`, `SimulateEnds` is `Finish`, `Tick` and
  `StopElsewhere` are `Tick` and `Stop`, and the other branches stutter.

`MeterDriversProofs` proves two theorems for all telegram sets that satisfy
`DriversAssumption` and every `MaxTelegrams`:

* **`DriversTypeCorrect`**: `Spec => []TypeOK`.
  * `FindKeyIn` shows that `findKey` returns one of the telegram's records or
    `NoRecord`. Its minimum exists because `keyRank` takes only four values
    (`KeyRankValues`).
  * `ValueNat`, `FixedNat` and `FromKeyNat` follow from it. So do
    `Content603Type` and `Content302Type`: a `processContent` maps a meter
    state of its type to one of the same type.
  * `ContentByte` shows that the Compact5 reads a byte, inside or past the
    payload. Hence both energies fit in 16 bits.
* **`DriversLatestReading`**: `Spec => []LatestReading`.
  * `LatestReading` alone is not inductive. The step needs the histories to
    be sequences of record sets, and the old fields to be those of a meter
    state. The inductive invariant is `IInv == TypeOK /\ LatestReading`.
  * `LatestAppend` carries the argument: `latest` of a history with one more
    telegram is the new telegram's value when it carries the record, and
    `latest` of the old history otherwise. It rests on `MaxIndex`, the
    greatest index of a nonempty index set, which follows from the
    well-foundedness of `<` on `Nat`.
  * `EverCarriedAppend` is the same for `everCarried`.
  * `FromKeyLatest` and `HasFromKeyEver` turn these into one step per
    findKey-guarded assignment of `processContent`.

`TimersProofs` proves **`TimersPeriodRespected`**: `Spec => PeriodRespected`,
for all names and periods that satisfy `TimersAssumption`, and every bound on
the clock and on the starts.
* It rests on the invariant **`TimersInvariant`** (`Spec => []IInv`). `IInv`
  has two parts besides the types:
  * `FiredIsLastCall`: a registration still in `timers_` is at most `starts`,
    and its `last_fired` is its timer's `last_call`;
  * `OneTimerPerReg`: two timers of one registration are equal.
* Why it is needed: `PeriodRespected` compares `last_fired` before and after
  a step. The bound comes from the `last_call` that `isTime` tested.
  * `executeTimerCallbacks` writes the clock for the registration of a due
    timer. Every timer of that registration is then due too
    (`DueOfReg`, from `OneTimerPerReg`).
  * `startRegularCallback` writes at a registration above every one in
    `timers_`.
* `stopRegularCallback` keeps both facts, because `vector::erase` leaves a
  sequence of old elements (`EraseAtProps`). The index it erases is the
  least of a nonempty set (`MinIndex`).
* The lemmas `InitIInv`, `StartIInv`, `StopIInv`, `WakeUpIInv` and
  `OtherIInv` prove the invariant one action at a time. `NextPeriodStep`
  proves the action property from it.
* `IInv` was checked by TLC on the `timers` instance before it was proved.

## Checked by TLC only

* **Liveness.** `Termination` and `EmergencyStop` (SerialManager), the
  simulator's `Termination`, and `DueTimerFires` (Timers) are
  checked by TLC only. The prover does not handle fairness or ENABLED.
* **Driver explanations.** `ExplanationsInFrame` of `MeterDrivers` is a
  violation found by TLC. It has nothing to prove.
* **Timer types.** `TypeOK` of `Timers` mentions
  `to_be_called`, which is a `SelectSeq` of `timers_`. `SelectSeq` is a
  recursive function over the sequence, so what it returns for every
  sequence needs induction over data, which the provers cannot do here.
  It is model-checked only. `PeriodRespected` is proved without them: its
  invariant does not mention `to_be_called`.
* **RECURSIVE modules.** `MBusRawTTY` uses a RECURSIVE operator (`eatFrom`),
  which rules out its SMT backend, so its properties are model-checked only.
  Of `WMBusSimulator`, `TypeOK`, `NotEarly`, `SimInv` and the
  safety part of `ImplementsReplay` are proved; the fairness part of
  `ImplementsReplay`, `Termination` and `OneTickAfterStop` are model-checked
  only.

## Not modelled

* **Driver output.** The drivers' `status()` renderers, the unit-converting
  getters and the print schemas are formatting, so they are not modelled.
* **Decoding.** BCD decoding and VIF scaling are not modelled: a record's
  value is already a decoded number.
* **I/O and formatting.**
  * tty listing and termios printing (1501-1860);
  * termios setup in `openSerialTTY`;
  * `send`/`waitFor`;
  * the simulator's file loading;
  * the `ping` and link-mode answers of the devices.
* **Data the model does not track.**
  * The fd numbers and `max_fd` are not modelled: an fd is unopened, closed or
    open.
  * The bytes read by the command and file devices are not modelled; the
    model only knows whether there is data.
* **The container start script** (`src/unnamed/part_000`).
* **`checkMBusFrame`** is outside `src/`. It is modelled from spec 4.C and
  marked spec_modelled.
