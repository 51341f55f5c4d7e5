# A verification of the electronic clock

The repository is a program for an embedded PC: a clock with a stopwatch, four
seven-segment digits and three keys, on a PC/104 bus. This directory holds TLA+
models of it, model-checked with TLC, and theorems about them, checked with
TLAPS. Paths below are relative to the root of the repository.

## The system

| Component | State | Operations | Talks to |
|---|---|---|---|
| `src/main.c` | `g_running` | start, main loop (poll the keys every 10 ms), signal handler, shutdown | everything below, in a fixed order |
| `src/clock_driver.c` | mode, stopwatch (`g_stopwatch_ms`, `g_stopwatch_running`, `g_last_timer_tick`), `g_current_time`, `tick_count` | key callback, timer callback, set mode, set time, start/pause/reset/save | RTC, display, storage; called by keypad and interrupt handler |
| `src/interrupt_handler.c` | handler table, mutex, thread flag; mask and status of the controller | init, register, enable, disable, close; the service thread | bus; calls the timer callback |
| `src/pc104_bus.c` | one file descriptor (its position!); the latches of the device | init (three tries), read register, write register, close | `/dev/port` |
| `src/rtc_driver.c` | `g_rtc_cache`, `g_rtc_set_manually`, `last_hw_time`, `last_read_time` | init, get time, set time | bus |
| `src/display_driver.c` | display mode, blink position, digits | init, set mode, update time, update stopwatch, close | bus |
| `src/keypad_driver.c` | callback, last key | init (tries again in an error state), register, poll, close | bus; calls the key callback |
| `src/storage_driver.c` | none of its own; the record memory | save record, read record | bus |

**Two threads.** The *main thread* polls the keypad and runs the key callback.
The *service thread* polls the interrupt status and runs the timer callback. They
share the clock driver's globals, the drivers' statics, the display and the bus.
The only mutex of the program guards the table of handlers; the timer callback
runs with it held, and the key callback never takes it. So the two callbacks
overlap freely, down to single loads and stores.

**What makes it hard.**
- *Interleaving*: a start, a pause, a reset or a mode key in the middle of a timer
  callback; two register accesses at once through one file position.
- *Failure*: any register access may time out; most callers cut the `-1` down to a
  `0xFF` byte and use it.
- *Shutdown order*: display, keypad, interrupts, bus, while the service thread may
  be anywhere.
- *Time*: a monotonic clock cut to 32 bits; a chip that ticks between two register
  reads; a time kept by hand from differences.

`PROJECT.json` lists every hazard with its line and the properties that cover it.

**What makes each component correct.**
- Clock driver: the panel follows the keys, the stopwatch neither runs backwards
  nor counts time that was not, the display agrees with the driver in the end.
- Interrupt handler and application: the thread never outlives what it uses,
  a signal ends the program, interrupts keep being served.
- Bus: a register access is atomic, on the register named, and returns.
- RTC: the time kept by hand is a time of day and close to the time that passed.
- Storage: a save touches its own record only and succeeds when all of it is in place; what is
  in place can be read back.
- Display: four digits of one value, blinking where the user edits.
- Keypad: each key press leads to at most one callback, and is not lost when polled
  in time.

## The modules

| Module | Models | Kind |
|---|---|---|
| `ClockPanel` | what the user is promised: three modes, a stopwatch | abstract specification |
| `ClockDriver` | `clock_driver.c`, two threads | implementation; `ImplementsPanel` |
| `ClockProperties` | history of the stopwatch and of time setting; the driver with a lock (`SerialSpec`) | properties |
| `ClockDriverProofs`, `ClockPropertiesProofs` | | theorems |
| `InterruptHandler` | `interrupt_handler.c` | component, composed in `ClockApp` |
| `ClockApp` | `main.c`, initialisation, shutdown, signals | composition |
| `ClockAppProofs` | | theorems |
| `RegisterFile` | what the drivers take the bus to be | abstract specification |
| `PC104Bus` | `pc104_bus.c`, two threads and the device behind the ports | implementation; `ImplementsRegisters` |
| `PC104BusProofs` | | theorems |
| `RtcDriver` | `rtc_driver.c` and the chip | component |
| `RtcProperties`, `MCRtc` | history of the time kept by hand; values for TLC | properties, model |
| `RtcPropertiesProofs` | | theorems |
| `RecordStore` | what the stopwatch may expect of its records | abstract specification |
| `StorageDriver` | `storage_driver.c` and the storage, through crashes | implementation; `ImplementsRecords` |
| `StorageDriverProofs` | | theorems |
| `DisplayDriver` | `display_driver.c`, two threads and the display | component |
| `DisplayDriverProofs` | | theorems |
| `KeypadDriver` | `keypad_driver.c` and the keypad | component |
| `KeypadDriverProofs` | | theorems |

A definition whose comment begins with *Slip* is a plausible mistake in the
definition below it. No specification uses a slip; each property was seen to fail
when one replaces the definition it belongs to.

### ClockDriver
`pc["main"]` and `pc["timer"]` say where the two threads are in the two callbacks. Each access to a
global that the other thread can disturb is an action: for `g_stopwatch_ms += elapsed_ms` that is
`LoadMs` and `AddMs`; the base line is loaded for the test for 0 (`TestFirst`), again for the
comparison (`Elapse`), once more for the subtraction (`Subtract`), and stored (`Stamp`).
`rtc_get_time(&g_current_time)` reads the RTC in one step and stores in another, in both threads
(`GetTime`, `StoreTime`; `Reload`, `Restore`). `kp` and `tm` are the locals of the callbacks; a
thread that is done resets them, so that they do not multiply the states. `mode` and `running` are
written by the main thread only, so its own tests of them need no step. `rtc_get_time` may fail,
`rtc_set_time` may fail after some of its registers, a save may fail; the display is written after
its value was loaded.

Abstractions: the keys are 1 to 3 and pressed (other codes and events return at
once); seconds of the time of day are left out (no key changes them); a time of day
is copied, and a face drawn, in one step; `clock_get_time` has no caller.

### InterruptHandler and ClockApp
The operations of the client take the labels they lead between; `ClockApp` orders
them as `clock_driver_init`, `clock_start` and `main` do. With `Faults`, a failed
read yields every bit, a failed write changes nothing, for each access. The callback
is reduced to what matters here: it may light the display. Initialisation failures
end the program without any close, as the code does.

### PC104Bus
`Main` opens the bus (`Open`, `Reset`, `Probe`: a bus in error gets `Tries` resets, one that
reads 0xFF an additional reset) and closes it again; in between every thread may call.
A thread in a call is at a port access; each access is an `lseek` (`Seek`) and then a
`read` or `write` at whatever position the shared descriptor has by then. The device
is modelled from its use. The high address byte is written to the command port; the
bytes in use (4 to 8) are no commands, and the device is assumed to tell them apart
(`BusAssumption`). Two more assumptions favour the code, since nothing in the repository says what
the device does: a reset leaves its latches alone, and it carries out a command whatever
status it shows. So going on after a status of 0xFF, as `pc104_check_error` does, cannot go wrong in
the model. The status is arbitrary at each look: ready, busy, error, 0xFF.
System calls on the open `/dev/port` are taken to succeed. That no call is made before
the opening or after the close is what `ServiceSafe` of `ClockApp` says, and `Call` uses it.

### RtcDriver
Every register access of `rtc_init`, `rtc_get_time` and `rtc_set_time` is a step and
may fail; the chip ticks (`ChipTick`) between any two of them, out of phase with
`CLOCK_MONOTONIC` by up to a second. The registers hold BCD, and decoding and
encoding are modelled as the code does them. One thread is in the driver at a time.
`RtcProperties` counts a look at the chip as a guess when the time kept by hand is moved
on by it and the difference from the last look makes no sense (`Guesses`).

### RecordStore and StorageDriver
`RecordStore` has numbered records of a few bytes; a save puts its bytes in place one after the
other and can fail, or be cut off, after any of them. `StorageDriver` does the same through the
data, address and control registers: `pc` is the next access of `storage_read` or `storage_write`,
`After` their order. Each access works or fails; a failed write may have been carried out.
`storage_save_record` reads the old record first and ignores the result (`Overwrite`). `Stop` ends
the program anywhere and leaves the memory as it is; `Start` finds the latches holding anything. The
device is taken to yield, at its data register, the byte at the address in its latch: the one read
command that `storage_read` gives before it sets the address of each byte does nothing of its own
(an assumption in favour of the code). `storage_read` takes a byte 0xFF for a failure (`Missing`).
In the refinement mapping the records are the bytes of the memory, and a byte of a save counts as
written from its write command on.

### DisplayDriver
A call is a sequence of steps still `todo` by its thread: select a digit, write it, make
it blink, assign a global, or ask a question of the globals (`Ask`), which is answered, and
replaced by further steps, when it is reached. So the other thread comes in between any
two register accesses, between the tests of `g_blink_position` and the digits of a time that
is passed by pointer. The reading shown on entering STOPWATCH is itself a question (`UpdateReading`),
loaded when `display_set_mode` is done. A failed access leaves out the rest of its digit. The callers are
those of `clock_driver.c`: mode keys, increments, stopwatch keys, and the refresh of the
timer callback. A wait for the display is merged with the access it precedes (a status of
0xFF in it clears the display: `ClearWhileWaiting`). Digits above 9 do not occur
(`TimeDigit` and `ReadingDigit` are one digit, which `TypeOK` says), and the decimal point is
fixed by the position. `serial` and `faults` record whether the threads overlapped and how often
an access failed.

### KeypadDriver
`keypad_init` probes, resets and enables; `keypad_poll` is four steps, `Poll`, `Fetch`,
`Acknowledge`, `Callback`, between any two of which the keypad may latch another event (`Event`). At
the start the keypad may hold an event from before, which `keypad_init` does not acknowledge and the
first poll hands over. Failed reads are 0xFF: an event that looks new, or the event `Garbage`. The
histories `made` and `handled` are compared; `garbled` counts the events in `handled` that are none
of the keypad's.

## The runs

| Run | Shows | Bounds |
|---|---|---|
| `clock_panel` | `TypeOK`; the driver implements the panel; `ScreenRecovers` under fairness | 2 hours, `Word` 4, steps of up to 2 ms: the counter wraps; 2 ms, any number of starts |
| `clock_races` | `BoundedOvercount`, `OneStaleReload`, `UndoneOnce` | 2 starts, 2 ms, no wrap |
| `clock_serial` | `Accurate`, `ResetSticks`, `QuietScreen`, `EditKept` when the callbacks exclude each other | 2 hours, 1 start, 3 ms, refresh every 2nd callback |
| `clock_race_start` | **violated** `Accurate` | 1 start |
| `app` | `TypeOK`, `ServiceSafe`, `SignalExits`, `TimerServed` with failing accesses | none: the model is finite |
| `bus_locked` | `ImplementsRegisters`, `WritesAsAsked`, `CallsReturn`, one call at a time, open to close | 2 threads, 2 registers that differ in the high byte, 2 bytes, 2 looks at the status, 2 tries |
| `bus_race` | **violated** `WritesAsAsked` without the lock | the same |
| `rtc` | `TypeOK`, `BoundedLead`, `SetTakes` | 3 s around midnight, 3 sets, 2 times, gaps of up to 3 s believed |
| `storage` | `TypeOK`, `RightByte`, `ImplementsRecords`, `FailsOnlyFor255` | 2 records of 4 bytes across 3 pages, bytes 0 and 255; no bound on failures and crashes |
| `display` | `TypeOK`, `InPlace`, `Drawn`; `FaceRecovers` under fairness | 2 of the 4 digits (both of the hours), 1 failing access |
| `display_blink` | **violated** `HoursBlink` without overlap and failures | 2 of the 4 digits, one of the hours and one of the minutes |
| `keypad` | `TypeOK`, `ExactlyOnce`, `Accounted`, `DeafOnlyInError`; `EventServed` under fairness | 1 key with 3 kinds of event, 3 events, 3 failures, 2 tries |

Why the bounds are enough. *Clock*: the panel needs a counter that wraps (`Word` 4 with steps of up
to 2), while the accounting properties are about time that does not wrap (`Word` 64 with 2 or 3 ms).
That the millisecond clock wraps, too, is left to the proof of the panel. (Where time stops in
`clock_panel` the clock must not show 0, which is "no base line": the callbacks of that one
millisecond draw nothing.) The races need one callback in flight and one key; two starts show that
their effects add up (in `clock_races` the reading does get four ahead of `ran`). Two hours are
needed for a reload to differ from the time it overwrites, and for a stale or refused time of day to
show another face than the right one: `clock_panel` and `clock_serial` have them. In `clock_races`
nothing depends on the time of day, stores are counted whatever they store, and one hour will do.
One minute is enough, both fields being treated alike. `RefreshTicks` 1 and 2 stand for 100: whether
a callback refreshes or not is all it decides. *Bus*: two registers that differ in the high byte
catch a mixed-up address, two looks at the status reach "still waiting" and "given up", two tries
reach "another" and "no more". *RTC*: from 23:59:58 three seconds carry through all three fields;
the two times that are set lie within the gap that is believed, so that the chip set behind the
driver's back looks like one that ticked; three sets allow a good one, a failed one and another.
(With a third time, 00:00:04, two sets in a row mislead the driver: the bound then needs its term
for each set. That model takes too long to be a run.) *Storage*: the records begin at 3 with pages
of 4 bytes, so that every record crosses a page, as none does in the program; two records show a
neighbour overwritten; 0 and 255 are the byte that is special and one that is not. *Display*: the
digits are treated one like another, and two of them can be swapped, mixed and left out; the hours
19 and 20 differ in both digits, the reading 123450 has a digit to cut off on the left. The failure
is one that may come at any access, and the overlap of the threads has no bound. *Keypad*: events
are told apart by their kind, and another key would only give them another name; three events allow
one to be handled, one to be overwritten and one to replace it; three failures reach a repeated, a
destroyed and a spurious event, and exceed the two tries.

`CHECK_DEADLOCK FALSE` is used where the system stops: the program exits (`app`, `display`,
`display_blink`, `keypad`), or the bounds on sets and seconds are used up (`rtc`).

### What the violated runs say
- `clock_race_start`: `clock_stopwatch_start` stores a new base line "to count from
  now on" (`src/clock_driver.c:184`). A callback in flight finds it ahead of its own
  sample, accounts 10 ms for a clock that seems to run back, and puts its older sample
  over the base line. `clock_races` shows the extent: two steps per start at most.
- `bus_race`: without a lock around the port protocol a call writes a register it
  was not given (`src/pc104_bus.c:191-195`).
- `display_blink`: `g_blink_position == 0` is to mean "the hours are edited", but the first
  face drawn in SETTING makes digits 2 and 3 blink through `display_set_blink_position`, which
  stores 3 in it; from the second face on the minutes blink (`src/display_driver.c:251-256`,
  against the comments at lines 250 and 315).

Two more promises fail without the lock, from the same cause as `clock_race_start`; they are checked
in `clock_serial`, and `clock_races` shows the extent of their failure. `ResetSticks`: a reset between
the load and the store of `g_stopwatch_ms += elapsed_ms` (`src/clock_driver.c:379`) is undone by the
store, by one callback and no more (`UndoneOnce`). `EditKept`: a refresh begun in NORMAL mode stores the
RTC's time over the edit that the comment at `src/clock_driver.c:365` protects, once per visit to
SETTING (`OneStaleReload`). And `main` clears the display before it stops the service
thread (`src/main.c:76-78`): in `ClockApp` a callback in flight lights it again (`lit`), and no
property says otherwise.

What passing runs say of weak spots: `FailsOnlyFor255` has an exception because a record with
a byte 0xFF, such as 255 ms, is saved and can never be read; `ImplementsRecords` allows a record
made of two, because a save can be cut off; `Accounted` allows an event per failed access to be
repeated or lost; `DeafOnlyInError` allows `keypad_init` to succeed with a keypad not enabled.

### Fairness
`ClockDriver` (`FairSpec`): both threads run on (`WF` of `Main` and of `Timer`: the operating system
schedules them, the timer interrupt keeps coming), and time passes. Nothing is assumed
about keys. `ScreenRecovers` therefore speaks of a user who lets go of the keys.
`ClockApp`: both threads run on; registering the timer handler is strongly fair, since
the service thread holds the mutex for short times only and sleeps 1 ms in each round,
so that the waiting thread gets it. Signals and interrupts are not fair.
`PC104Bus`: a thread in a call runs on.
`DisplayDriver`: the service thread runs on and the timer interrupt keeps coming (`WF` of its
steps and of `Refresh`); nothing is assumed of the keys, and failing accesses are bounded
by `MaxFaults`. `FaceRecovers` speaks of the moments at which `main` is outside the driver.
`KeypadDriver`: `main` gets through `keypad_init`, keeps polling and finishes its polls, until it
closes the keypad.

## What is proved

Every safety property that a run checks is also a theorem, for every value of the constants. (The
runs that find a violation are the counterexamples to what is not.) The theorems rest on the named
assumptions of the modules only:

| Assumption | Says | Why |
|---|---|---|
| `ClockAssumption` | a step is smaller than the counter, hours and minutes fit in it | 2^32 ms against a cap of 100 ms, 24, 60 |
| `FaultsAssumption` | `Faults` is true or false | |
| `BusAssumption` | high address bytes are no commands (3 and up), bytes are bytes, some tries | the register addresses of the headers |
| `NoneAssumption` | the value for "no call" is no call, and no byte | |
| `RtcAssumption` | what is set is bytes; a gap that is believed (`MaxJump`) is less than a minute | `uint8_t`; the code believes 10 s |
| `StorageAssumption` | the records fit into the storage | `STORAGE_SIZE` |
| `DisplayAssumption` | hours, minutes, a reading of 0, digits out of four | `clock_time_t` |
| `KeypadAssumption` | no key has the code of the byte 0xFF; some tries and some events | the 6 bits of the key |

The bounds of the models (`MaxSec`, `MaxSets`, `MaxFaults`, `MaxEvents`, `MaxStarts`, ...) are constants
too, and the theorems hold for all of them. Two theorems about the stopwatch have one more
hypothesis, `MaxNow < Word`: `CLOCK_MONOTONIC` in ms, cut to 32 bits, does not wrap.

An invariant a run checks is seldom inductive. Each strengthening below was first checked
by TLC on the run of its module and then proved.

**`ClockDriverProofs`** — `TypeCorrect`; `PanelImplemented`: `Spec => ImplementsPanel`. A mode key must
find the mode it was dispatched on (or the panel would make a change that does not exist), a
reset must find the stopwatch paused, and the store of `g_stopwatch_ms` must not bring back
a smaller reading. `InFlight` says so: it ties each label of the main thread to the mode and the
running flag, and says that between the load and the store the reading is the one that
was loaded, or zero after a reset. Then `SetMode`, `StartRun`, `Pause`, `Reset` and `AddMs` are panel
steps; the rest leave the panel alone (`HiddenStutters`).

**`ClockPropertiesProofs`** — in spite of the races: `OneStaleReloadHolds`, by `ReloadInv` (a
refresh in flight has not stored yet); `UndoneOnceHolds`, by `ResetInv` (a stopwatch that was reset
does not run, and once a reading is back in it no callback is about to store another); `Overcount`,
by `BudgetInv`: the reading, what the callback in flight is about to add and what the next one will
find since the base line are together within what ran plus two steps per start, where `Past` has all
samples of the clock in the past and `Fresh` says what the base line can be. With a lock:
`AccurateHolds`, `ResetHolds`, `QuietScreenHolds`, `EditHolds`, by `LockInv`: during a timer
callback no key has changed the mode or the flag it was dispatched on (`SerialRefresh`), a reset has
left nothing in flight (`SerialReset`), and what is about to be drawn is what the driver holds
(`SerialScreen`).

**`ClockAppProofs`** — `TypeCorrect`; `ServiceAlwaysSafe`. `Lifetime` ties the label of main to the
life of the thread, the mutex and the bus.

**`PC104BusProofs`** — `RegistersImplemented`: `LockedSpec => ImplementsRegisters`;
`LockedWritesAsAsked`: with the lock, what `bus_race` finds violated without it. `Latched` says, for
the one thread in a call, that a thread that has sought is on the port it sought, and that the
latches of the device hold what it has sent so far. Each byte put on a port then does what
`PutEffect` says, and only the last one is a step of the register file.

**`StorageDriverProofs`** — `TypeCorrect`; `RightByteHolds`; `OnlyFor255Fails`; `RecordsImplemented`:
`Spec => ImplementsRecords`. `Latched` ties address and data latch to the label; that different bytes of
records have different addresses is arithmetic on pages. A byte of a save counts as
written from its write command on, so that a crash or a failed access there is the end of
an abstract save, and what comes after is hidden.

**`RtcPropertiesProofs`** — `TypeCorrect`; `SetTakesHolds`, by `WrittenSoFar` (a chip that stands
still keeps what each write gave it); `LeadBounded`, by `Lead`. What a call has read so far can be
torn, seconds from one minute and hours from the next, and how far a look moves the kept time
depends on all of it. But a difference that is believed is less than a minute, so the seconds alone
decide it (`MaxJump <= 59`), and seconds are read once. `Lead` therefore bounds the advance of the
kept time plus what the seconds of the chip are ahead of the seconds last seen.

**`DisplayDriverProofs`** — `TypeCorrect`; `InPlaceHolds`; `DrawnHolds`. What a thread still has to do is a
sequence, so the invariants are about sequences. `Paired`: a selection is followed by what is to be done
with that digit, and nothing is done but after a selection; whatever is put in front of the
rest of such a sequence must not begin in the middle of a digit (`Block`). `Aimed`: a thread about to act
on a digit has selected it. For `Drawn`, `Will` says where the rest of a call leads: the mode of the
display becomes the clock's; every digit is right and not touched again, or some step to come makes
it right and none after it undoes that (`Settles`); outside SETTING nothing is made to blink, and what
blinks is stopped. `FirstDone`, `FirstAnswered` and `Joined` carry that through one step, one answer, and
one program after another.

**`KeypadDriverProofs`** — `TypeCorrect`; `OnceEach`; `AccountsBalance`; `DeafInError`.
`Undisturbed` says of each label where the event of the moment is; `NotTooMany` and `NotTooFew` are
the two halves of the account at every label, not just between two polls, with what the failures so
far may still do.

Model-checked only: everything under fairness (`ScreenRecovers`, `SignalExits`, `TimerServed`,
`CallsReturn`, `FaceRecovers`, `EventServed`). The proof system has no rules for fairness and `ENABLED`.

Proving was also a test of the models. `BoundedLead` was weaker than its comment: a tick of
the chip while a look was being decoded counted as a guess, and each guess allows one second
more; `Guesses` now counts a look when it is used. The digits of a reading were cut out
with powers of ten; they are now computed from seconds and hundredths, as the code does.

## Plan

All components are modelled, with a passing run each, and the safety properties of the runs are
proved. What is left to prove:

1. What the violated runs bound only by example: in `DisplayDriver`, how the digits of overlapping
   threads can be mixed (a digit shows what is meant for some position).
2. `InterruptHandler`: that a callback runs only for a type that is registered and was enabled,
   as an action property of `ClockApp`.
3. `RecordStore`: what a reader of the abstract store may rely on, proved of `RecordStore` and so
   inherited by `StorageDriver`.

## Not modelled

Output and wording (`printf`), sleeps and their lengths, segment codes and the decimal
point, variables that are written and never read (`g_last_key_state`, `g_current_display`,
`g_dp_status`, `g_pc104_io_mem`), the check at `src/keypad_driver.c:24` that line 19 makes dead, the
Makefile and the empty branches for other platforms. `clock_get_time` is called by the
interactive test only. The simulator and the interactive tests under `test/` replace
`pc104_bus.c` by a register file under a mutex and so cannot show what `bus_race` shows; they
are no part of the program.

Each driver above the bus is checked against registers that are accessed one at a time, as
`RegisterFile` has them; what overlapping accesses do to them is `bus_race`. The storage and the
RTC are each called by one thread at a time in their modules; in the program `main` and the
service thread can meet in `rtc_driver.c`, which `ClockDriver` shows at the grain of whole RTC
calls.
