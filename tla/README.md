# A TLA+ verification of LenovoLegionLinux

This directory holds TLA+ models of LenovoLegionLinux, the TLC configurations
that check them on small instances, and theorems about them that the TLA+ proof
system checks for every value of their constants. The models are read off the
source (`src/` below stands for the root of the repository); paths and line
numbers refer to this commit. `PROJECT.json` lists, for every definition, the
lines it stands for.

## 1. The system

LenovoLegionLinux has no central program: a kernel driver turns the embedded
controller (EC) and the ACPI/WMI methods of the laptop into files, and several
user-space programs, which do not know of each other, read and write them.

| Part | State | Operations | What is hard |
|---|---|---|---|
| **EC RAM access** (`kernel_module/legion-laptop.c` 2675-2842) | the super-I/O chip's index register and two offset latches, `io_port_mutex`, `ec_readonly` | `ecram_read`, `ecram_write` as twelve `outb`/`inb` | concurrent threads; chip state shared by all |
| **Fan-curve store** (2890-3152, 3683-4385, 4912-5060, 6681-6914) | table in the EC, `priv->fancurve`, `fancurve_valid`, `fancurve_mutex`, the lock register | hwmon and sysfs show/store, debugfs read, defaults, fan-control lock | read-modify-write of a whole table; firmware that replaces it; failing ACPI calls |
| **Power mode, platform profile** (4528-4698, 5980-6030, 6329-6530) | EC/WMI mode, `fancurve_defaults_powermode` | show/store, profile get/set, notify, toggle | two numberings; delays instead of acknowledgements; handlers without the mutex |
| **Driver lifecycle** (3244-3284, 6183-6320, 7688-8018) | `legion_shared`, `_priv`, `loaded` | probe with its error labels, remove, WMI events | partial failure, events during removal, second probe |
| **Model tables** (139-268, 278-2001, 7726-7764) | constants | the choice `legion_add` makes | one address for several registers |
| **Sensors, lights, simple WMI attributes** (2332-2557, 3286-3680, 4709-4860, 5099-5978, 7401-7680) | none | one call each | method numbers shared by classes of files, inversions, bytes read one by one |
| **legiond** (`extra/service/legiond`) | `config`, `delayed`, `triggered`, a POSIX timer | timer thread, commands A/B/R, inotify | data races of the timer thread with the main loop; overlapping runs |
| **Python library** (`python/legion_linux/legion_linux/legion.py`) | files of the driver and of `/etc` | presets, fan-curve write/read, charging modes, boot logo, monitors | many writes that are not one; mutual exclusion by convention |
| **CLI, GUI, smartfan scripts** | PID/stop files, Qt worker threads | front ends and a shell daemon | several instances at once |

They meet at the driver's files: legiond runs `legion_cli`, which writes the
hwmon files; each hwmon store takes `fancurve_mutex` and moves the table with
`ecram_read`/`ecram_write` or one WMI call; each EC access takes
`io_port_mutex`; meanwhile the firmware changes the table whenever the power
mode changes.

What makes each part correct:

* EC RAM: twelve port accesses behave as one atomic byte access.
* Fan-curve store: a store changes what it names and nothing else; reads are
  never half of a curve, in any layout; the cached copy is the last known curve; a locked
  controller is left alone; every handler returns.
* Power mode: readers that were notified see the new mode; toggling comes back
  to the old mode; values are translated consistently.
* Lifecycle: whatever was registered is unregistered, in an order in which
  nothing is used after it is gone; a failed probe can be repeated.
* legiond: the profile that is applied last is the one of the current power
  state; nothing is skipped or postponed forever.
* Python: a curve written to the hardware is the preset or an error is seen;
  rapid charging and conservation are not both on.

`PROJECT.json` ("hazards") lists what can go wrong at which line, and which
property covers it. Seven of them the code does run into. They have no property
but a note: the models contain them, history variables (`clobbered`, `overlapped`,
`moved`, `misread`, `overwritten`, `lost`) and `Disturbs` mark the behaviours, and the
properties named in the note except these.

## 2. Plan

| # | Modules | Contents | State |
|---|---|---|---|
| 1 | `EcRam`, `EcPortIo`, `EcPortIo_proofs` | abstract EC RAM, the port protocol, refinement and its proof | done |
| 2 | `CurveStore`, `FanCurve`, `FanCurve_proofs` | the store as one atomic change of one attribute; the handlers with mutex, cache, lock and failures that implement it; proofs of all safety properties and of the refinement | done |
| 3 | `PowerMode`, `PowerMode_proofs` | two numberings, store/profile/notify, toggle, defaults mode; proofs of all safety properties | done |
| 4 | `DriverLifecycle`, `DriverLifecycle_proofs` | probe, error labels, remove, events, second probe; proofs of all properties | done |
| 5 | `Legiond`, `Legiond_proofs` | timer threads, commands, inotify, reloading; liveness; proofs that no trigger is forgotten and that the settings settle | done |
| 6 | `ModelConfig`, `FanRegisters`, `FanPreset`, `FanPreset_proofs` | the model tables; the five layouts of the table and the three controls beside it; the Python writer on top, with the conversions of speeds; proofs of all properties | done |
| 7 | `Attributes`, `Attributes_proofs` | switches, power limits, lights and fan speeds of all models; proofs that the files keep apart | done |
| 8 | `Charging`, `Charging_proofs` | conservation and rapid charging, GUI and CLI; proofs of all properties | done |

`FanPreset` extends `FanRegisters`, which extends `ModelConfig`; `Attributes`
extends `ModelConfig`. `EcPortIo` implements `EcRam`, `FanCurve` implements
`CurveStore`. None of these modules has a RECURSIVE operator, so that each can be
proved about.

Theorems worth having: the atomicity of EC accesses, mutual exclusion and exactness of
the fan-curve store and its refinement, respect for the fan-control lock, the balance of
registration and removal, that toggling comes back, that legiond's timer is armed
whenever something is left to apply and that its settings settle, that files of the
firmware's methods keep apart, the exclusion of the charging modes, that every layout of
`FanRegisters` keeps every attribute it has a place for, and what the Python writer
leaves behind: all proved (section 5). Of the properties that the runs check, only
liveness has no theorem.

## 3. Modules

### `EcRam` - what the callers rely on

An array `mem` of bytes. A thread calls (`RamCall`), the access takes effect at
one instant (`RamRead`, `RamWrite`, or `RamSkip` when the driver was loaded with
`ec_readonly`) and returns (`RamReturn`). The firmware may change any byte at any
time (`RamFirmware`).

### `EcPortIo` - what the driver does

One action per `outb`/`inb`. `pc[t]` and `at[t]` place thread `t` inside
`ecram_portio_read/write`; `PortBytes` is the program text, the twelve bytes in
order; `ChipTakes` is the chip, which is not part of the repository: it keeps the
index (`sioIndex`), the selected register (`d2Index`) and the two latched bytes
of the offset (`hi`, `lo`) and has no idea which thread is talking to it.
Accesses outside of `Offsets` hit RAM that is not modelled and read as anything.

* `LatchesAreOwn`: a thread issues a port access only while the chip holds the
  selection and the latched bytes of that thread's own access.
* `RamImplemented`: the sequences implement `EcRam` (refinement; the mapping is the
  identity on the shared variables).
* `EveryAccessReturns`: liveness.

### `CurveStore` - what the users of the fan-curve files rely on

One curve; a store or show takes effect at one instant between its call and its
return (`StoreApplies`, `StoreAnswers`); a store changes the attribute it names. Two
things the driver cannot exclude are said openly: the firmware loads a curve at any
time (`StoreLoads`), and a table that cannot be read is replaced by an older one
(`StandIn`). A call that meets either is `overlapped`, and nothing is promised of the
curve it leaves or shows. The operators `IsStore`, `Stored` and `Seen` are parameters.

### `FanCurve` - read, change, write back

Threads run `autopoint_show` ("show"), `autopoint_store` ("pwm", "temp", "size"),
the debugfs read, `fancurve_defaults_powermode_store` and
`lockfancontroller_store`. `pc` follows the handler: take the mutex, check the
fan-control lock, read the curve, modify it, write it, on N2CN read it back,
release the mutex. `method` selects the kind of model: "EC" moves the table
point by point (each point is an action, so that interleavings inside the table
exist), "WMI3" moves the speeds in one ACPI call that may fail, "N2CN" is a WMI3
model with a fan-control lock, a table length of its own and a firmware that may
drop a table silently. `FirmwareLoads` is the change of the power mode by key,
profile or power supply: it replaces the table whoever holds the mutex.

Ten attributes of a point are represented by two: `pwm` is checked against the
size and converted to the unit of the model, `temp` is not. Reads and writes of
one point are one action: `EcPortIo` shows that each byte access is atomic, and
bytes of one point interleave only with the firmware. The registers written for
the controller's own algorithm (0xC5FE, 0xC634-0xC636, the current point) are
not kept, because no other code of the driver reads them back. `autopoint_store`
writes the size register only for `auto_points_size`, and `fancurve_set_size`
does not change the size in the curve, as `README.md:767` describes: points are
disabled by a limit of 127.

The variables `before`, `disturbed`, `fresh` and `clobbered` are history: the
properties compare with them and no action reads them to decide anything.

* `StoreIsExact`: a store changes what it names and nothing else, whoever runs at
  the same time, and one that reports an error changes nothing else either.
  Exceptions, named in the property: the firmware loads a curve meanwhile, or a
  cached curve had to stand in for the hardware's.
* `CurveStoreImplemented`: the handlers implement `CurveStore`. The abstract curve is
  the hardware's, or, while a table is being written or verified, the one before: a store
  takes effect with its last register. So a show never reports half of a curve
  and a store that overlaps another one is not lost.
* `CacheAgrees`: between handlers `priv->fancurve` is the curve in the hardware
  unless the hardware was changed otherwise since. Exception `clobbered`:
  `debugfs_fancurve_show` passes `&priv->fancurve` itself to `read_fancurve`
  (`legion-laptop.c:5047`), and `wmi_read_fancurve_custom` clears the curve it is given
  and gives up at the first speed above 255 (3720-3731); half a table and zeros then
  stand in as the last known curve.
* `LockRespected`: while the fan-control lock is on the driver writes no curve.
* `EveryHandlerReturns`: liveness, on every error path.

### `PowerMode` - two numberings and half a second

`method` is the model's access method: "EC" keeps the mode in a register, under
the controller's numbers, and a write takes effect at once; "WMI" hands it to the
firmware, which does it later (`due`, a queue) and may fail. `Begin` .. `Forget`
are `powermode_store`, `legion_platform_profile_set`, and
`fancurve_defaults_powermode_store`/`_show`, split where the mutex is taken and
released and around every call; `Key` is Fn+Q, which sends the WMI event first and
changes the mode afterwards; `TakeEvent` and `Notify` are `legion_wmi_notify`;
`Listen` is a user who was notified and reads the profile; `Remove` .. `ComeBack`
are the part of `legion_remove` that toggles the mode.

The code waits 500 ms (1500 ms when toggling) in place of an acknowledgement.
The model takes it that the firmware needs less: `WaitsFor` lets a thread go on
when the changes it waits for are done. It does not assume that *other* changes
are done, and it gives no such time to `legion_platform_profile_set`, which does
not wait. An unset variable after a failed `read_powermode` is any number.
`early`, `moved`, `asked`, `away` and `misread` are history.

* `ListenersCurrent`: once nothing is under way, the profile read after the last
  notification is that of the hardware. Exceptions: a profile set through the kernel,
  whose notification comes before the change, and a failed reading.
* `MemoryIsTable`: the remembered defaults are those loaded last, as long as the
  firmware has not replaced the table.
* `DefaultsKept`: showing the defaults forgets them only outside of the custom mode.
  Exception: the mode changed between reading and comparing, which the code does after
  releasing the mutex.
* `ToggleComesBack`: unloading the driver leaves the mode there was (or was due), or
  one that a store, the profile or a key has asked for since (`asked`), never the one
  that `toggle_powermode` goes through; other writers and failing writes are included.
  Exception `misread`: the old mode could not be read.

### `DriverLifecycle` - probe, fail, refuse, remove

One structure `_priv` serves all devices. `todo[d]` is the list of steps that
`legion_add` (`ProbeSteps`), its labels (`Undo`) or `legion_remove` (`RemoveSteps`)
still has to do for device `d`, one action per step, so that other devices, users
inside of a file (`inside`) and WMI events come in between. `held` is what `_priv`
has acquired; `groupOn` and `profiles` are the devices that carry the attributes
and the profile, because `legion_add` notes the device in `_priv` before it knows
whether it will be refused, and the attributes are added to and removed from the
device noted *at that moment*. `devm` tells Linux 6.14 and later, where the profile
is released by the driver core after `legion_remove`. The kernel's part is external:
removing a file waits for the handlers inside and lets no new ones in, and
unregistering the WMI driver waits for a running event.

* `SingleOwner`, `NothingLeft`: one device at a time; a driver that has left every
  device has taken everything back.
* `NotifierSafe`: an event finds `legion_shared`, and half a second later a profile.
  The code's own test, `(!priv) && (priv->loaded)`, would not help: this rests on
  the order of registration and removal.
* `UsersSafe`, `QuietToggle`, `MutexFresh`: nobody is inside of a file without the
  controller, no event is left when the mode is toggled, and `fancurve_mutex` is
  initialised again only while nobody can hold it.

`overwritten` (history) excepts what follows when a second device is probed while
the first is in use: its attributes are then removed from the wrong device and stay.
The code expects one device.

### `Legiond` - a timer, threads, and globals without a lock

The main thread (`Main`) and the threads that `SIGEV_THREAD` starts (`Handlers`)
move through `pc`, one action per access to a shared variable or file. `config`,
`delayed`, `triggered` are the globals; `timer` says who armed it, without a
time: an armed timer may expire at any later moment. `parseconf` is two steps
(`ClearConfig`, `FillConfig`), because other threads read `config` in between;
`get_powerstate` is two, because it reads two files. `applied` is what was last
given to the fan, the CPU and the GPU. `Send`, `Change`, `Edit` and `Restart` are
`legiond-ctl`, the kernel, the user's editor and systemd.

* `NothingForgotten`: as long as a trigger (start, command, reported change) was not
  followed by a new reading of the power state, something is under way that will do
  it. Exception `lost`: `set_timer` itself leaves the timer off, see below.
* `Settled`: at rest the settings are those of the current power state. Exceptions:
  `lost`, and `overlapped`, when a timer thread was started while another one ran:
  the older may apply its older state last.
* `TriggersServed`: each trigger is eventually followed by a reading.
* `ChangesTakeEffect`: once profile, supply and `legiond.ini` no longer change, the
  settings come into effect and stay. It is more than the two before it: a report that
  is left in the queue of inotify is no trigger yet, and keeps the daemon from being at
  rest, so that neither of them notices a main loop that does not look at the queue.

Two things the model contains and no property complains about: `power_state++`
(`powerstate.c` 61) makes "extreme on charger" of "performance on battery"; and while
`parseconf` has cleared `config` a timer thread finds a `gpu_control` that is neither
`false` nor a tool, and runs an uninitialised command (`setapply.c` 114-171).

### `ModelConfig` - the tables

`struct ec_register_offsets`, the configurations and the allow-list, with the members
the other modules look at, and the configurations `legion_add` may choose (`Configs`).
A later entry of the list never matches when an earlier one does: the second entry of
J2CN is never reached.

### `FanRegisters` - five layouts, three controls

A table is a function `ram` from addresses to bytes. `WrittenTo` and `ReadAt` give, for
each layout ("EC", "EC2" ideapad, "EC3" LOQ, "EC4" Legion of 2024, "WMI3"), to which
cells the writer puts attribute `a` of point `i` and from which one the reader takes it.
WMI methods are given addresses beyond the EC's. Beside the table are `minifancurve`,
`lockfancontroller` and `fan_fullspeed`. A store is `Begin` (what it reads and changes)
and `Finish...` (what it writes), because only the firmware comes between under the
mutex: `Execute` (an LOQ machine takes the table it was given), `FirmwareLoads`,
`WmiFails`. `meant` and `lost` are history.

* `ShownIsMeant`: every file shows what the last successful store of it meant, whatever
  was stored to other files. Exceptions (`Disturbs`): a cell that shares its address
  with a control, and on LOQ machines a cell of a table not yet executed.
* `CopiesAgree`: where a layout keeps a value twice the copies agree.

What the model shows of the code, and the exceptions stand for:

* Registers "not found yet" have one address (`legion-laptop.c` 380-444). On LOQ
  machines `minifancurve` and `lockfancontroller` are one register; on ideapad
  machines it is the speed of point 1, which a store of `minifancurve` overwrites.
* On LOQ machines a store that begins before the firmware has executed the previous
  table reads the table in use and thereby undoes the previous store.
* On EC models a temperature of a point behind the size is accepted and has no
  effect; a store of the size does not change the size.
* Points 9 and 10 of ideapad machines are never set by the reader: uninitialised
  stack data goes through the handler and is dropped by the writer. The model lets it
  be any value.

### `FanPreset` - the Python writer

`FanCurveIO.write_fan_curve` of `legion.py` over `FanRegisters`: `Starts` trims the
empty entries, and every file is a `Begin`/`Finish...` of the driver, until one is
refused (`WriterHears`). Another user may store, the mode may change, WMI may fail.
`StartReadBack` writes the curve that `read_fan_curve` has just read.

* `PresetIsPrefix`: a preset that fails half way leaves the preset up to some point and
  the old curve behind it.
* `PresetWritten`: when it is done the driver shows the speeds asked for, in steps of 100
  rpm, and all other values as asked.
* `WriteBackHarmless`: writing back a curve just read changes nothing. Exception:
  percentages (WMI3), which both conversions round down, so that repeated saving and
  restoring drifts.

On EC2, EC3, EC4 and WMI3 the file of the acceleration reads as 0, which no store
accepts: where the machine has the file, writing back stops at the first point.
`get_fan_2_speed_rpm` rounds with 225 in place of 255 (`legion.py:915`), which is
harmless.

### `Attributes` - one value through

The files that hand one value of the firmware through. `WmiFiles` is each file's WMI
class with the numbers of its get and set methods, `StoredFeatures` and `ReadFeatures`
the numbers that replace them on models whose power limits are accessed by WMI3;
`Visible` is the visibility by the classes the firmware has. `expected` (history) is
what each file is to show. The external assumption is `GetOf`: a set method changes what
the get method of the same name returns, and nothing else. Lights are registered if
they could be read at first. A fan speed of the EC is two reads with `FanTurns`
in between; the order is nondeterministic, since C leaves it open. One of ACPI is one
call, in rpm or in hundreds (`InHundreds`; the one such machine of the tables counts in
rpm).

* `ShownIsStored`: after any stores each visible file shows what was stored to it, and
  no other one changed. Exceptions (`Entangled`): `cpu_peak_powerlimit` and
  `gpu_temperature_limit` are both methods 8 and 9 of the GPU's class on classic models;
  on WMI3 models the latter shows a feature but stores by its method.
* `FanShown`: a speed is one that the fan had while it was read, on EC models within 255
  rpm of one, on ACPI models that count in hundreds rounded down. Exception: ACPI models, whose `fan1_input` reads the second fan
  (3450-3451) and whose `fan2_input` is refused.

Also visible in the model: the files of the CPU's and GPU's classes are hidden without
these classes on WMI3 models too, which do not use them; `cpu_temperature_limit`,
`cpu_l1_tau` and `gpu_power_target_offset` are visible everywhere and always refuse
stores; the I/O port light has the limits 0 and 2 although the comment (4774) says 1.

### `Charging` - exclusion in two writes

The firmware's two bits, and two processes: the GUI (two check boxes and two tray
actions) and a command of `legion_cli`, either `...-enable`/`-disable` or
`custom-conservation-mode-apply`. `todo[p]` is the list of accesses that process `p` has
still to do for its request: `SetSteps` is `BatteryConservation.set` and
`RapidChargingFeature.set`. `shows` is the list of the GUI's controllers that then read
their file again, `Dependents` the wiring they follow from. Any access may fail (`Raises`,
`ShowFails`); without root the GUI writes through `pkexec legion_cli set-feature`, whose
exit code is only logged (`FailsSilently`). That the firmware's bits are independent is
an external assumption: `conservation_mode` belongs to another driver.

* `NotBoth`: the two are never on together, at no moment, unless two processes'
  requests have met or the GUI did not hear of a failure. Both do happen in the model:
  the exclusion is a convention of one library.
* `AskedIsDone`: a request that was carried out without an error is in effect, and if it
  switched a feature on, the other is off. Exception: `set_if_not_set` that finds
  its value does not look at rapid charging.
* `ViewAgrees`: after a click all four controllers show the firmware, unless their read
  failed or another process wrote since.

## 4. Runs

| Run | Instance | Result |
|---|---|---|
| `EcPortIo` | 2 threads, registers 0xC420 and 0xC534 (they differ in both bytes, so a torn offset is never right by accident), values 0 and 127, both settings of `ec_readonly`, any chip state left over | passes, 65 688 states |
| `FanCurve` | 2 processes, tables of 2 points, 3 calls, 1 curve loaded by the firmware, curves of sizes 1 and 200 (the hardware "might suddenly report a larger size"), all three kinds of models and all lock states | passes, about 300 000 states |
| `PowerMode` | 2 processes, 2 calls, 1 key, 1 failing ACPI call; users write 3, 255 and 258, whose low byte is a mode; both methods, every mode at the start; the driver removed at any moment | passes, 1 520 230 states |
| `PowerModeToggle` | no calls and no keys | violates `TogglesAway` |
| `DriverLifecycle` | 2 devices, 3 probes, 1 failing step, listed or not, both profile interfaces | passes, 69 337 states |
| `DriverLifecycleList` | the same without failures | violates `RefusesSecondOnly` |
| `Legiond` | 1 timer thread, 2 commands (a delay of -1, 0 or 3, a CPU command, a reload), 1 change, two configurations | passes, 431 212 states |
| `LegiondOverlap` | 2 timer threads, 2 profiles, 1 command, 1 change, 1 restart | passes, about 3.1 million states |
| `LegiondLost` | 1 timer thread, 2 commands | violates `LastTriggerServed` |
| `FanPreset` | 8 machines, one for each way a table is kept and written (`EveryLayout` of `MCFanPreset` says that each configuration of the tables is like one of them), real addresses and 10 points; 2 presets (one with an illegal value), 2 curves, read-back; 1 disturbance (another user's store or a change of mode) at two moments of the writing | passes, 22 698 states |
| `Attributes` | 8 machines that stand for all configurations (`EveryMachine` of `MCAttributes`), with and without each class, any 2 stores of 0 or 300 or readings of a fan, speeds around the turn of the high byte, 2 changes during a read | passes, 198 616 states |
| `Charging` | 2 requests of each process, 2 failing accesses, files that are missing, root or not, charges in and outside of both pairs of limits | passes, 2 647 201 states |

`PowerMode` and `DriverLifecycle` use symmetry of processes and devices (they check
safety only). Two calls, a key and the removal are enough for each handler to meet
every other one between its steps; one failure reaches every error path; in
`DriverLifecycle` the third probe is the one that comes after a refused or failed
second. In `Legiond` two commands are what it takes to extend a delay, and two
timer threads what it takes to overlap; `Legiond` checks liveness and has one, where a
second expiry waits, and `LegiondOverlap` checks `NothingForgotten` and `Settled` with two.

In `FanCurve`, three calls are enough for two overlapping stores and a reader or a change of the
lock; two points are enough for a point inside and one outside of the size, and
for half-moved tables; one firmware load hits every step of every handler.

`FanPreset` gives the other user one moment inside the first point and one in the
second, so that both a point written and one not yet written are hit. In `Attributes`
one store changes a value and the second one shows whether files are kept apart; 300
does not fit a byte. In `Charging` two requests of each process let every pair of
requests overlap or follow each other; of two failures one may hit the write that
switches off and one the reading of a controller.

Only `EcPortIo` checks for deadlock: in the other models the bounded calls, probes
and commands run out and the system rests.

**Fairness.** A thread inside a handler keeps running (weak fairness of its steps),
and a kernel mutex serves its waiters in order (strong fairness of taking it: the
kernel's mutex hands over to the first waiter, it cannot starve one). In `Legiond`
the main thread and each timer thread keep running, and an armed timer expires.
Nothing is assumed of users, of the firmware and of the kernel's events.

### Finding: toggling the power mode mixes two numberings

`toggle_powermode` is to "shortly toggle powermode to a different mode and switch
back" (4684). It picks 1 if the old mode is 0 and 0 otherwise (4693), the
controller's numbers for performance and balanced; but `read_powermode` and
`write_powermode` speak WMI, where no mode is 0. WMI models refuse the value and the
mode is never left; EC models translate it to balanced, which may be the mode that
is set already. `PowerModeToggle` shows it; `ToggleComesBack` holds all the same.

### Finding: a laptop that is not listed keeps the driver's structure

`legion_add` takes `legion_shared` and then leaves through `err_model_mismtach`,
which lies below `legion_shared_exit` (7742, 7905). Each later probe, also of the same
device, is refused with "Found multiple platform devices" until the module is
reloaded. `DriverLifecycleList` shows it.

### Finding: legiond may lose the last trigger

The main thread tests `delayed` and reads it again for `set_timer` (`legiond.c` 129,
131); a timer thread that ends in between has set it to 0, and the timer is disarmed.
The README's "just need to make sure it gets triggered last time" fails. `LegiondLost`
shows it.

## 5. Proofs

Every module of proofs extends the module it is about. The theorems hold for every
value of the constants that meets the named assumptions of that module: any number of
threads, devices and timer threads, any bounds on calls, failures and changes. TLC
evaluates the assumptions on the instance of the run, and each inductive invariant was
checked by TLC on that instance before it was proved. Every module has one lemma per
action that says the action preserves the invariant, and a lemma `Invariance` (or the
theorem itself) that puts them together; a theorem then says that the invariant implies
the property.

| Theorem | States | Why it needs more than the property |
|---|---|---|
| **`EcPortIo_proofs`** (`OffsetsAssumption`, `TokensAssumption`) | | |
| `TypeCorrect`, `LatchSafety` | `TypeOK`, `LatchesAreOwn` | only the holder of the mutex is at the ports (`MutexInv`), and how far its request has come (`ProgressInv`) |
| `Implementation` | `RamImplemented` | see below |
| **`FanCurve_proofs`** (`ThreadsAssumption`, `SizeAssumption`, `MethodsAssumption`, `BoundsAssumption`, `LoadsAssumption`, `RequestsAssumption`) | | |
| `FanCurveTypeCorrect`, `MutualExclusion` | `TypeOK`; one process between taking and releasing `fancurve_mutex` | which call may be at which place (`CallInv`) |
| `ExactStores` | `StoreIsExact` | the property speaks of the end of a store: `HandlerInv` says of every place on the way what has been read, changed and written so far |
| `CacheAgreement` | `CacheAgrees` | the cache agrees while handlers run too, but for the points of a table under way (`CacheInv`) |
| `LockIsRespected` | `LockRespected` | a store past its check finds the lock off (`LockInv`): the lock's file takes the same mutex |
| `DriverImplementsStore` | `CurveStoreImplemented` | see below |
| **`PowerMode_proofs`** (`ThreadsAssumption`, `BoundsAssumption`) | | |
| `PowerModeTypeCorrect` | `TypeOK` | who may be where (`PlaceInv`, `CallInv`) |
| `ListenersKnow` | `ListenersCurrent` | whoever asked for a change that is due has still to notify (`DueInv`) |
| `MemoryMatchesTable` | `MemoryIsTable` | between loading and remembering the mutex keeps others away (`MutexInv`, `TableInv`) |
| `DefaultsForgotten` | `DefaultsKept` (a property of steps) | an unmoved reader holds the present mode (`ForgetInv`) |
| `TogglingComesBack` | `ToggleComesBack` | not only the mode that is left: all that are due and the one `legion_remove` remembers were asked for too, while the present one may be the toggle's own (`ToggleInv`) |
| **`DriverLifecycle_proofs`** (`BoundsAssumption`) | | |
| `LifecycleTypeCorrect` | `TypeOK` | the steps left are the end of one of the three lists (`StepsInv`) |
| `OneOwner`, `EverythingTakenBack` | `SingleOwner`, `NothingLeft` | what is held is what the owner's list has passed, or has not come to (`OwnerInv`, `HeldInv`) |
| `NotifierFindsAll`, `UsersFindController`, `TogglesQuietly`, `MutexIsFresh` | `NotifierSafe`, `UsersSafe`, `QuietToggle`, `MutexFresh` (a property of steps) | nothing is released under its users (`UseInv`); without an overwritten device the attributes are those of the one device (`AloneInv`) |
| **`Legiond_proofs`** (`ThreadsAssumption`, `DelaysAssumption`) | | |
| `LegiondTypeCorrect`, `TriggerSafety` | `TypeOK`, `NothingForgotten` | inductive together: a timer thread is looked up in `pc`, and `set_timer` splits on the sign of the delay |
| `SettingsSettle` | `Settled` | the property speaks of the daemon at rest; `SettleInv` says that, unless a timer thread has still to read the power state, every thread works with the present one and every enabled setting is right or about to be set |
| **`FanPreset_proofs`** (`MachinesAssumption`, `CurvesAssumption`, `PresetsAssumption`, `UserStoresAssumption`) | | |
| `FanPresetTypeCorrect` | `TypeOK` | a store in progress is one the handler let pass, of a curve of bytes (`InvTypes`), and the writer is where it can be (`InvWriter`) |
| `FilesShowWhatWasStored`, `CopiesStayEqual` | `ShownIsMeant`, `CopiesAgree` | see below |
| `PresetLeavesPrefix`, `PresetIsWritten`, `WriteBackChangesNothing` | `PresetIsPrefix`, `PresetWritten`, `WriteBackHarmless` | see below |
| **`Attributes_proofs`** (`MachinesAssumption`, `ValuesAssumption`, `RpmsAssumption`) | | |
| `AttributesTypeCorrect` | `TypeOK` | |
| `FanSpeedsShown` | `FanShown` | the byte read first is one of a speed the fan had since (`ReadingInv`) |
| `StoresAreShown` | `ShownIsStored` | the tables: no two files share a method of one class, or a feature, but for `Entangled` |
| **`Charging_proofs`** (`LimitsAssumption`, `BoundsAssumption`) | | |
| `ChargingTypeCorrect` | `TypeOK` | what is left of a request is one of four lists (`StepsInv`) |
| `ExclusionKept`, `RequestsTakeEffect` | `NotBoth`, `AskedIsDone` | before the last write switches one feature on the other one is off (`ExclusionInv`, `RequestInv`) |
| `ViewIsCurrent` | `ViewAgrees` | a controller that could be wrong is still to be read (`ViewInv`) |

**The refinement of `EcRam`.** The twelfth access is the abstract read or write, because
`LatchesAreOwn` at `at[t] = 12` gives `Joined(hi, lo) = call[t].off` by the lemma
`JoinedHalves` on the two halves of a 16-bit number; all other accesses stutter.

**The refinement of `CurveStore`.** The abstract curve, `StoreCurve`, is the hardware's,
or the one before while a table is being written or verified. Step by step
(`CheckAllowedStep` .. `FirmwareLoadsStep`): a store applies with the write of its last
register or WMI call, a show answers when its curve has been read, a change of the power
mode is `StoreLoads` with every call under way overlapped, a cached curve is `StandIn`;
every other step stutters. What a store is to have changed when it applies is
`HandlerInv`, and that nobody else moves the curve meanwhile is `MutexInv`.

**`Legiond`** goes by who acts: the environment, which only adds triggers together with
an armed timer, or queues them; a timer thread, which reads the power state before it
does anything that could disarm; and the main thread, where each command either arms the
timer, sets `lost`, or stays at the two places that will. For `Settled`, a change of the
profile or the supply sets `changed`, a command A arms the timer, and a thread that has
read the state is past `get_powerstate` with the present one, or there is a rerun.

**`Attributes`** is proved in two parts. The first is about the tables alone: within a
class no number is stored by one file and shown by another (`SwitchMethods`,
`GpuMethods`, .., `FeatureNumbers`, put together in `TargetsApart`). The second is about
the state, and follows.

**`FanPreset`** is proved for every machine of the tables, any curve the firmware may
load, any presets of up to ten points and any stores of other users, in four parts.

1. The tables. Every configuration has registers that fit its method (`EveryModelFits`).
   For every layout: no two cells are written to one address (`LayoutSeparate`) or read
   from one (`ReadSeparate`); but on LOQ machines a cell is read where it is
   written (`ReadCells`); counters, the size and the command byte are no cells, and a
   control whose register is read as a cell is one that is written as a cell too
   (`SpecialAddresses`), which `Disturbs` names.
2. The store. `IInv` says that the controls show what is meant (`InvControls`), so do all
   cells but the lost ones and, unless it is set by WMI, the one being stored to (`InvShown`, and
   `InvCopies` for the copies), and of the curve that a store has read and is about to
   write that it is what is meant, cell by cell, but for lost cells (`InvStore`): this is
   what the whole-table write needs in order to disturb nothing. `InvBeyond`, that N2CN's
   table is empty behind its length, is needed because its reader stops there and its
   writer does not; `InvShared`, that a control which is also a cell has that cell lost.
3. The writer. As long as nobody disturbs it, each cell is determined by the number of
   the next file: `InvProgress` says that a cell is as the preset asks if its file has a
   lower number (`NumberOf`), and as it was when the writer started otherwise. `InvTurn` and `InvGoal`
   carry this through a store, `InvDone`, `InvMini`, `InvEntries` to the end of the
   writing. `InvAccepted` holds because the driver refuses speeds that do not fit a
   pwm value: a preset with such a speed never gets beyond it. Files are numbered point by
   point, so that `InvProgress` gives the prefix.
4. The conversions. `SpeedKept` says that a speed the driver accepts comes back in steps
   of 100 rpm, or in plain percent at most one step less, and `SpeedReadBack` that what
   `read_fan_curve` makes of a byte is converted to the same byte again, for each
   unit but plain percent. With it `InvReadBack` says that a curve that was read asks for
   what is shown already.

**Only model-checked.** Liveness (`EveryAccessReturns`, `EveryHandlerReturns`,
`TriggersServed`, `ChangesTakeEffect`) is out of the prover's reach. That the machines of `MCFanPreset` and
`MCAttributes` stand for all configurations (`EveryLayout`, `EveryMachine`) is an
assumption that TLC evaluates; the theorems do not need it.

## 6. Not modelled

Listed with reasons under "components" in `PROJECT.json`. Within the modelled
parts: `FanCurve` runs with `ec_readonly` off (with it on, writes succeed
without effect and the cache keeps what was asked for); a request with an
unparsable number returns before the mutex and changes nothing; the second fan
speed, accelerations and the other temperatures behave as `pwm` or `temp` do.
`PowerMode` leaves out `powermode_show` (it changes nothing), the ACPI access method
(no model of the tables selects it for the power mode) and
`enable_platformprofile=0`. `DriverLifecycle` leaves out the flag `loaded`, which only
the ineffective test of `legion_wmi_notify` reads, and the lights, which are one
step; it takes the kernel's waiting for handlers and events as given. `Legiond`
leaves out time, the error paths of `get_powerstate` and the tool radeon, which is
treated as nvidia is.

`FanRegisters` leaves out the registers that no code of the driver reads back.
`Attributes` leaves out temperatures and fan targets (one byte times a constant),
`gpu_ctgp2_powerlimit` (another byte of the answer `gpu_ctgp_powerlimit` shows) and
errors of WMI calls other than a missing class: the stores have no state to leave
behind. `Charging` leaves out the other features of the GUI, which have no
dependents that could contradict them.

Whole parts that are left out: the EC memory window (a debugging aid without state), the
YAML files of presets and settings, the boot logo (copies files to the EFI partition), the
monitors and menus (presentation), packaging, and the smartfan scripts, which use
`acpi_call` without this driver. Of the latter two things were seen while reading:
`set_fan_speed 0`, called to "Restore EC auto", sets 20 %; and `TEMP_HISTORY` is updated
in a subshell, so that the average over eight samples is never taken.
