# Lanner platform utilities: TLA+ models and proofs

The repository holds small drivers and test tools for the devices of Lanner's
network appliances: watchdog, status LED, EEPROM, LCM display, digital IO, case
open switch, software button, hardware monitor, power supplies, LAN bypass, COM
ports.  Each utility is a character driver (`linux/drv_main.c`), the functions
that touch the hardware (`src/ioaccess.c`), and a command line tool
(`src/*_tst.c`) that calls the driver's ioctls, or, built with
`DIRECT_IO_ACCESS`, the functions themselves.  The same utilities exist for many
boards and in many releases.  Modelled are the newest release for the NCB-5220,
`src/NCB-5220/misc/NCB-5220-platmisc-v1.3` (below: `v1.3`), and the newest one for
the LEC-3230, `src/x86_utility/LEC-3230-platmisc-V3` (below: `LEC`), which has
the devices the NCB-5220 has not.

No utility takes a lock (the spin locks of the eep, dio and lcm drivers are
initialised and never used), all of them share hardware, and the tools can be
killed at any point: the models are about that.

Several models assume one CPU without kernel preemption for what drivers do
among themselves.  Nothing in the code justifies that: the drivers use
`unlocked_ioctl`, which different CPUs enter at once, on boards with several
cores.  What the assumption hides, and where it is not made, is said under
"One CPU" below.

## Inventory

| component | state | operations | shares / is called by | hard behaviour | correct if |
|---|---|---|---|---|---|
| Super-IO access (`v1.3/wd_bp`, `sled`, `eep`, `hwm`) | chip: configuration mode, index register, logical device, registers | enter, exit, read, write; watchdog start/stop, LED colours, init functions, `Detect_IPMI`, `sio_hwm_init` | one chip behind ports 0x2E/0x2F, four copies of the access functions | interleaved port accesses, a tool killed half way, read-modify-write, a tool that never leaves configuration mode | operations take effect, no write hits a wrong register, the mode is left |
| watchdog driver, `wd_tst` | `Device_Open`, the timer, the registration | load, unload, open, release, 2 ioctls | the tool's runs; the Super-IO | test-and-increment, `rmmod` with open files, load against command, 8-bit timer | one user and the guard given back, which two opens at once break; the timer is what was asked |
| EEPROM driver, `eep_tst` | `IpmiPresent`, `smbase`, `smb_err`; EEPROM, SMBus switch, BMC | SMBus on/off, byte out, byte in; write and read loops | SMBus shared with the BMC, `pms`, `hwm`; Super-IO strap | BMC hand-over that may be missed, failing transactions, kills between on and off, signed characters | text read = text written, bus used only when granted and given back |
| LCM driver, `lcm_tst` | static line buffer `text`, `j`; display, key FIFO | init, show character, button, clear, cursor | the second serial port | state that outlives its run, stale keys, uninitialised variable, endless wait | lines shown, `-btn` ends |
| SMBus host controller | command, address and data registers, status, transaction under way | byte write and read of `eep` and of `pms` | the eep driver (kernel) and `pms` (user space) without a lock | two set-ups mixed, a program killed half way, a failing device, waits that give up, a status looked at once | a transfer that reports no error is the one asked for |
| PMBus tool (`pms.c`) | page register of each supply, select pin, data register, warning | probe, model, serial number, status words, five readings per supply, `-on`, `-off` | the host controller | failures nobody looks at, pages left by others, LINEAR11 | each line shows what its label says, the warning is right |
| status LED driver, `sled_tst` | LED bits of RxE1 | 3 colours | register shared with the BMC strap | as Super-IO | as Super-IO |
| digital IO driver, `dio_tst` | GPIO pads | set 4 outputs, get 4 inputs | PCH registers | pins change one by one; several runs, kills | the pattern set is read back |
| case open driver, `cp_tst` | latched intruder bit | get, clear | PCH register | opening between look, question and clear; a variable nobody has set | (a report and a clear answer the same latch; no more is promised) |
| software button, `btn_tst` | a GPIO pad | get | PCH register | polling against other tools | the level it waits for is seen |
| LEC-3230 watchdog, bypass, LED, status LED, button drivers | watchdog and relay registers, LEDs, pin directions, `watchdog_time` | bypass at run time and at power-off, watchdog time, start and stop, 12 LED patterns, 3 status LED ones, button, init functions, reloads | one Super-IO chip | functions that never enter configuration mode, one that never leaves it, reloads | the board shows what was last asked of each driver |
| LEC-3230 COM port driver | SMBus multiplexer, four F75111 chips, GPIO 5x, BIOS store | init, `SetComPort` for two cards and the board's ports | SMBus, Super-IO, BIOS by SMI | failing transactions in read-modify-writes, missing cards, a multiplexer left connected | the port as asked; the others as before unless a transaction fails |
| hardware monitor (`hwm.c`) | bank and index registers of the monitor in the Super-IO | `sio_hwm_init` (above), bank switching, readings; functions for an NCT7904 on the SMBus, which nothing calls | Super-IO | two runs switching banks | values from the right sensor |
| older releases, other boards' copies | as above | | | | |
| factory scripts, vendored drivers, C exercises | none of the program's own | | | | |

## Plan

Order: most shared hardware first.

1. `SioPrograms`, `RegisterFile`, `SuperIO`: the Super-IO chip, with the abstract
   register file it has to implement; all safety properties proved.
2. `WdDriver`: the open/release pattern that all drivers copy; proved.
3. `Eep`: the EEPROM and the BMC; proved.
4. `Lcm`: the display; proved.
5. `SharedBus`, `Smbus`: the host controller at the grain of its registers, driven
   by `eep` (kernel) and `pms` (user space), as an implementation of a bus of whole
   transactions; proved.
6. `PchIo`: digital IO, case open, button; proved.
7. `Linear11`, `Pms`: the power supply tool, its number format against the
   definition; proved.
8. `Lec3230`: the LEC-3230's drivers on their chip; proved.
9. `ComPort`: the LEC-3230's COM ports; proved.

Every safety property of a run is proved, and for the liveness properties
what of them needs no fairness.  Left: the bank switching of `hwm.c`; the
multi-function registers of the COM port driver.

## Modules

* **SioPrograms** lists the register accesses of each operation, in order, as
  data: `write_SIO_reg`, `Modify` (a read and a write of the same register),
  `read_SIO_reg`.  A byte is the set of its bits.
* **SuperIO** executes those lists one port instruction at a time: `0x87` twice
  (`enter_SIO_config`), index 7, logical device, index, data, and `0xAA`
  (`exit_SIO_config`).  `IndexOut`, `DataOut` and `DataIn` are the chip, modelled
  from how the code uses it.  `ph[t]` is the next instruction of task `t`,
  `todo[t]` its remaining accesses.  Kernel tasks spin in `mdelay` between
  instructions, so with `Preemptive = FALSE` (one CPU) one of them in the middle
  of an operation keeps the processor (`CanRun`); user tasks (`UserTasks`), which
  are the tools with direct port access, are interrupted anywhere and can be killed.
* **RegisterFile** is what the callers think they have: registers, each access
  at once.  `SuperIO` implements it with `todo` for `work`.
* **WdDriver** is `wd_bp/linux/drv_main.c` and the runs of `wd_tst`: `wd_open`
  tests `Device_Open`, then `IncrementTested` (the tested value is incremented)
  or `ReadAgain` and `IncrementRead` (the compiler loads it again); `wd_release`
  and `Decrement` likewise.  Nothing is assumed about CPUs: any number of
  processes are in these at once, and next to `wd_init`, `wd_gpio_init` (the two
  halves of the init function, between which the device is already reachable)
  and `wd_exit`, which takes the code away from whoever is in it (`stale`,
  `Fault`; if the module is loaded again first, an open file leads into the new
  instance, `Enter`).  `asked` (what the last accepted command asked for), `early`
  (it came before `wd_gpio_init`) and `raced` (two processes were between test and
  increment, or `rmmod` came in) are ghosts.
* **Eep** is `eep_tst`, the eep driver and the SMBus behind it: `smbus_ON`,
  `smbus_OFF` in two halves each (BMC, switch), one action per byte.  `Pack`,
  `RegOf`, `ByteOf` are the way of a byte through an `int` with a signed `char`.
  `stored` (the text last written completely), `clean` (no transaction of the
  run has failed) and `killed` are ghosts.  A run may be killed only between its
  ioctls: the driver's waits are bounded and not interruptible.
* **Lcm** is `lcm_tst`, the lcm driver and the module behind the serial line.
  `Collect` is IOCTL_LCM_SHOW, one character at a time into the static buffer.
  A byte a button sends may arrive garbled (`Noise`), which `LCM_BTN` has to skip.
  The transmitter of the UART is taken to work: the unbounded wait in `LCM_init`
  ends and no wait of `SerialPortWrite` runs out, which would drop a byte.
  `start` (where the run found the buffer) is a ghost.
* **Smbus** is the transfer of a byte, register by register, which `eep` and `pms`
  have copies of: clear the status and look at the busy bit, command, address,
  data, start, one look at the status, fetch the data.  The wait for the busy
  bit gives up after 100 looks (`GiveUp`; how many a transaction takes is left
  open), and the transaction is set up all the same; `eep` sets `smb_err` then,
  `pms` does not.  The look (`Check`) comes whether the transaction is over or not.
  A start on a busy controller is ignored or drops the transaction under way.  A
  driver keeps the processor from its first instruction to its last; a program
  is interrupted anywhere and may be killed.  `Finish` is the controller carrying
  out what it has latched.  `met` (the drivers' transactions that came while a
  program was under way) and `hasty` (who did not wait for a busy controller:
  in the wait, in the look, or by a driver that came in) are ghosts.
* **SharedBus** is what those callers get: one transaction at a time on the bus; a
  driver's is the one it asked for; a program's may have taken over register,
  address or data, in this order, from a driver's transaction it has met.  A task
  that does not wait for the bus is `loose`: it may send other data and cut off
  the transaction before it.
* **Linear11** holds `lin5_11ToFloat1` with its table of exponents as the code has
  it, and `Meaning`, the number as PMBus defines it.  Numbers are fractions.
* **Pms** is a run of `pms` without arguments, and `-on` and `-off` in between: one
  action per transaction, each of which may fail, which only the probe looks at.
  A content is abstracted to its origin: supply, register and page.  Supplies are
  exchanged between runs.  `turned` (the last page write has succeeded) and
  `clean` (nothing after the probes has failed) are ghosts, and so are the last
  two parts of `shown`.
* **PchIo** composes the drivers and tools of digital IO, case open and button, each
  process running one of them.  An ioctl of digital IO is one action per pin; it
  keeps the processor, but the world outside goes on (`OpenCase`, `ShutCase`,
  `PressOrRelease`).  `Leftovers` is what `cp_tst`'s uninitialised variable may
  hold.  `line` is the level of the button's pad; which level means pressed is
  left open (see below).
* **Lec3230** composes the LEC-3230's watchdog and bypass, LED, status LED and button
  drivers on their chip.  An ioctl is one step that clears and sets bits, either
  in configuration mode, which it leaves (`InConfigMode`), or in whatever mode the
  chip is (`InCurrentMode`: the bypass functions).  `get_btn_status` leaves the chip
  in configuration mode.  `asked` is a ghost: what programs last asked for.
* **Bytes** has the bytes as sets of bits for the two modules of the LEC-3230.
* **ComPort** is the COM port driver's init function and `SetComPort`: a call is a list
  of steps, one per SMBus transaction, Super-IO write or SMI.  The multi-function
  registers and the Super-IO's direction register 0xA0, which the init function
  alone writes, are left out.  `call` is a ghost:
  the request, how things were before it, whether its transactions succeeded.
  Its names differ from those of `Lec3230` (`CpSpec`, `F75111`): both drivers are of
  one board, and `Lec3230_proofs` is about both modules.
* **MC...** modules give the constants their values; **..._proofs** modules hold
  the theorems.
* Operators marked `Mutant:` are wrong variants of the definition next to them;
  no specification uses them.  They show that each property can fail.

Composition: `Eep`, `Lcm` and `Lec3230` take for granted that one process at a time
has the device open.  `WdDriver` shows that this is so unless two opens meet or
the module is unloaded in use, and that it is not so then; the other modules
are about runs in which neither happens.  `WdDriver` and `Eep` take the Super-IO
operations for atomic, which `SuperIO` justifies through `RegisterFile` (on one
CPU); `Eep` takes its SMBus transactions for atomic and its own, which `Smbus`
justifies with `DriverTransfersDone` (on one CPU, for transactions that are over
20 ms after their start); `Pms` takes its transactions for atomic too, and what
becomes of them when the driver comes in between, or when the controller stays
busy, is in `SharedBus`.

### One CPU

* `SuperIO` (`CanRun`, with `Preemptive = FALSE`), `Smbus` (`CanRun`) and `PchIo`
  (`CanRun`) let no driver come into another driver's operation.  The code does
  not see to that: no lock is taken, and on two CPUs two drivers can be between
  selection and write (`wd_bp/src/ioaccess.c:161`), or between the command
  register and the start of a transaction, at the same time.  These
  models say what user programs, kills and interruptions can do to drivers and
  drivers to user programs, not what two drivers on two CPUs do to each other.
  The release's readme leaves that to the user: 'Developer SHOULD combine
  individual function into one integrated program to prevent conflict IO
  accessing across tasks' (`v1.3/lanner_misc_devices_readme.txt:31-32`).
* `Lec3230` takes each ioctl, and `ComPort` each transaction, for one step; `Eep`,
  `Lcm` and `ComPort` have one caller at a time.
* `WdDriver` does not assume it: there the races are the point.  `ConfigModeLeft`
  and `OperationsBounded` do not need it either.

## Runs

| run | question | bounds | distinct states | result |
|---|---|---|---|---|
| `sio_ports` | do three drivers on one chip get their registers right next to a tool with direct port access that may be interrupted and killed? | all operations of wd, sled, eep, hardware monitor or LED tool; registers all low or all high at power-on; the timer set to 289, of which the register holds 33 | 2 534 582 | holds, and implements `RegisterFile` |
| `wd_runs` | is the device handed from process to process, and the timer what was asked, with races and `rmmod`? | two processes, values 0, 1, 255, 256 | 259 444 | holds, with the exceptions named in the properties |
| `wd_two_callers` | ... to one process at a time, as `wd_open`'s comment says? | as `wd_runs` | | `OneFile` fails |
| `eep_runs` | is what was written read back, and the bus given back, with kills and failing transactions? | EEPROM of 4 bytes; texts of 0 to 3 characters, and one without mark | 413 892 | holds |
| `lcm_runs` | do the lines show the texts, with kills, and does `-btn` end? | lines of 4 characters, 2 bytes in the receiver | 423 655 | holds |
| `lcm_shifted` | ... also after a killed run? | lines of 4 characters | | `LinesAsPrinted` fails |
| `smbus_shared` | do driver and `pms` get the transfers they ask for from one controller? | one driver, one program; two devices with two registers of one bit | 3 508 196 | holds, and implements `SharedBus` |
| `pms_runs` | does each printed line show what it is labelled with, and is the warning right? | two supplies, each absent, present, exchanged or failing; 12 sets of readings | 1 174 976 | holds |
| `pch_tools` | do digital IO, case open and button tools work beside each other? | two processes for dio, one each for the others; all four patterns | 27 376 | holds |
| `lec_board` | does the board show what was last asked of each driver? | all ioctls; time 9; registers at power-on as adverse as can be | 110 880 | holds |
| `bypass_unmoved` | do the bypass ioctls move the relay? | as `lec_board` | | `BypassAsCommanded` fails |
| `comport_runs` | is a port as asked and, but for failures, every other as before? | eight requests on both cards and the board; `MaxFailures` = 1 | 1 849 243 | holds |

Why the bounds are enough.  The interference in `SuperIO` is between one task
and whatever another one has left in three chip registers; a further task adds
nothing but more of the same, and four are run, one of them a program.
The only fields of the registers that matter are the bits an operation keeps or sets, for which all-low
and all-high contents are the extreme cases.  `WdDriver`'s guard needs two
processes for each hazard; the theorems cover any number.  For `Eep` the loops
are the same for every length: a text that ends at the first byte, one in the
middle, and one that fills the EEPROM are the cases, and the theorems cover
every size up to 256.  For `Lcm` lines of 4 let a kill come at the first, a
middle and the last character; the theorems cover every width.  In `Smbus` a
program mixed with one driver shows every mixture, and every order of giving up, starting and
finishing; the theorems cover any devices and registers and, for the drivers, any number of programs.  In `Pms`
a reading comes from one register, so that sets that differ in one reading, at
the edges of its range and beyond, with exponents of either sign, show every
way of judging it; the theorems cover all words.  In `PchIo` two processes
compete for one device; the theorems cover any number.  In `ComPort` the ports
chosen are those whose pins lie in one register, in two, and in one that they
share with another port.  `MaxFailures` is 1 because `OthersKept` is about runs in
which at most one transaction has failed, which is what the driver stands: a
disconnection that fails, followed by a selection that fails, lets a call change
the other card.  The theorems cover any requests and any number of failures,
`OthersKept` up to the second of them.

Deadlock is checked in all runs: tools can always be started again.

## Fairness

`WdDriver`: a run of the tool goes on (`WF` of its `Step`): it runs straight through
and waits for nothing; of loading and unloading nothing is assumed, not even that
`wd_gpio_init` comes.  `Eep`: each wait in the driver gives up
after 100 polls.  `Lcm`: the same, except `LCM_BTN`, which polls for ever; that
the operator presses a button is not assumed, `BtnAnswers` says what happens
once he has.  `PchIo`: an ioctl goes on once it has begun (`WF` of its steps: it
keeps the processor), and the scheduler gives it to the polling `btn_tst` again
and again (`SF` of `Poll`, which other tools' ioctls keep from running in
between).  The other modules state no fairness: their properties are about what
is reached, not about reaching it.

## Proofs

All by TLAPS, with no assumption but the modules' own `ASSUME`s and the ones
written in the theorems.

* `SuperIO_proofs`.  Assumption `Serial`: one CPU without preemption, and at most one
  program that accesses the ports from user space.  `OperationInEffect` alone is not
  inductive: that the next write lands where it should depends on the mode, the
  index and the logical device, which it does not mention.  `IInv` adds, for
  each task, that what it has left to do is a final part of its program
  (`TaskInv`); that at most one kernel task is in the middle of an operation
  (`OneKernelTask`), for which the chip is where its next instruction expects it
  (`InSync`) and its preceding writes are in effect (`DoneInEffect`); and that a
  user task, whenever no kernel task is in an operation, finds the chip as it
  expects it or out of configuration mode (`UserInv`), so that its stray writes
  are ignored.  From `IInv` follow `OperationInEffect`, `BmcFlagSound`,
  `WriteHitsTarget` and the refinement of `RegisterFile`, for any set of tasks and
  any choice of operations.  `ConfigModeLeft` needs
  neither `Serial` nor `IInv`, only that a busy task runs an operation of its own
  (`OwnOps`): a driver's operation has `exit_SIO_config` for its last step.
* `WdDriver_proofs`, without any assumption on CPUs, processes or `rmmod`.  As long as
  nobody has raced, the invariant ties `Device_Open` to the set of processes past
  the test and before the decrement, of which there is at most one (`OneInside`,
  `GuardCounts`), and `read` to `Device_Open` in the halves; that no third process
  slips in while one is in between follows from the test.  `TimerInv` ties `timer` to
  `asked` outside the init function.  The theorems hold for any number of processes
  and any values; what they except, two opens in `wd_open` together and an `rmmod` of
  the module in use, is what the code leaves open, and `OneFile` is violated by it.
* `Eep_proofs`, for every EEPROM size up to 256.  If the BMC misses no command
  (`BmcListens`), `BusInv` says who has the bus at each point of a run, from which
  `NoCollision` and `BusHandedBack` follow.  If texts have 7-bit characters up to
  their mark (`SevenBit`), `TextInv` says that the loops have dealt with all bytes
  before `i` and met no mark among them, and that the last completely written
  text stays where it is until the next write begins (`Held`); `PackSevenBit` says
  that index and byte survive the `int`.  `WriteStored` and `ReadsBack` follow.
* `Lcm_proofs`, for lines of any width, without further assumption.  In the loop
  of a line the buffer's place is `start + i` until the line has been shown, and
  `start + i - Width` with the cursor gone from the line after that; outside the
  loops it is `start`.  `LinesShown`, `ShownAtLineStart` and `ShiftStays` follow.
* `Smbus_proofs`, for any devices, registers and transactions.  `Own(t)` says what
  the controller's registers hold of task `t`'s transaction at each of its
  instructions.  It is inductive for a driver that has not given up its wait,
  since no program runs while the driver does, and for a program as long as it
  has met no driver and has not gone on while the controller was busy (`QuietOwn`,
  which rests on `Alone`: a driver under way has been met by every program under
  way).  The first gives `DriverTransfersDone` for any number of programs: a driver
  that has given up has set `smb_err`, and one that looked too early is excepted.
  The second gives `UndisturbedTransfersDone` for one program (`OneProgram`).  For the refinement
  of `SharedBus` the registers a program finds after an interruption have to be
  described too: `Setup(p)` says that command, address and data are its own or
  were taken over from a transaction it has met, whenever no driver is under way;
  for whoever is `hasty` only what `Rest` says, nothing of the data, and the bus
  allows for that.
  Two programs at a time would mix with each other, which the code does
  nothing against, hence `OneProgram`.
* `Pms_proofs`, for any readings and conditions.  For `LabelsRight` the page has to
  be right when a paged register is read and the last page write has succeeded
  (`Paging`).  For `WarnedRight`, `Run` says that at each point of a clean run
  `bWaring` is set exactly if one of the readings taken so far (`Counted`) is out
  of range.  `RangeRight` is about the numbers: `pms` takes the mantissa for sign and
  magnitude, which is wrong for negative ones, but never on the other side of
  a limit; with a mantissa that is not negative the table agrees with the
  definition (`Decoded`).
* `PchIo_proofs`, for any number of processes.  `Guarded`: a device is open exactly
  while one process runs its tool; `DioAt`: the pins before `pin` have been dealt
  with.  That an ioctl is not interrupted by another's is the model's one CPU.
* `Lec3230_proofs`, for any contents at power-on and any times.  `OutputsAsAsked` is
  inductive with the types: each operation's bits are disjoint from those of the
  other drivers (`Good`, per driver), whether or not the chip was left in
  configuration mode.  `OffBypassFirst` is shown step by step.
* `Lec3230_proofs`, second part: `ComPort`, for any requests, any contents of the
  registers at boot, any cards and any number of failures.  Neither `PortAsAsked`
  nor `OthersKept` is inductive.  The invariant (`CpInv`) says of the steps left in a
  call (`Left`) that each write follows the read of its register, that they are
  steps of the request's card and chip, and that the last one disconnects the
  multiplexer; and that the request is stored in the BIOS.  `ChannelInv` says what
  the multiplexer connects while at most one transaction has failed: within a
  call nothing or the call's card, between calls nothing unless it was the
  disconnection that failed.  `CleanInv` is about calls none of whose transactions
  has failed: each bit of the port is as asked or a write that makes it so is
  left, `data` holds the register about to be written, and every other bit is as
  it was.  It rests on `PinsDiffer`: no two pins of a card are the same bit of the
  same register, so that writing one port's pins keeps those of its neighbours.
  `OthersKept` carries `failures <= 1` in its antecedent instead of a theorem's
  assuming it of `MaxFailures`: it holds in every run up to the second failure.

### Towards liveness

The prover handles neither fairness nor `ENABLED`, so that `DeviceFreed`,
`BusReturned`, `BtnAnswers` and `LowLevelSeen` stay with TLC.
What can go wrong in them besides fairness is a loop that gets nowhere or a
step of another actor that sets one back.  That neither happens is proved, for
every value of the constants, with a measure of what is left that is bounded and
that no step increases:

* `OperationsBounded` (`SuperIO`): the port instructions an operation has left, at
  most ten for each access and three more.  A step leaves the operation alone or
  makes them fewer.  It needs neither `Serial` nor that only drivers run; no run
  checks under fairness that operations end, which they then do.
* `HolderBounded` (`WdDriver`): unless opens have raced or `rmmod` has come in, a device
  that is taken has exactly one holder; nothing but its own steps changes
  `Device_Open`, and the third one at the
  latest sets it back to 0.
* `RunsBounded`, `OffBounded` (`Eep`): the calls a run has left, `Size + 5` at first;
  every step of the run makes them fewer, also when transactions fail and the
  text has no mark.  With `BmcListens`, the BMC is kept off the bus only during these
  calls, unless a run is killed in them.
* `RunsBounded`, `KeyFound` (`Lcm`): likewise `2 * Width + 4` calls; in the loop of
  `LCM_BTN`, which is not bounded, the first key in the receiver comes closer with
  each turn, and neither garbled bytes nor later keys push it back.
* `IoctlBounded` (`PchIo`): what keeps `btn_tst` from its next poll is an ioctl of
  `dio_tst`, of which there is one at a time, over after four steps.

What remains to TLC is that a process with something left to do can take a step
(`ENABLED`), and that it then does (fairness).

Only model-checked, then: these four properties as such, and the three violations.
No definition is recursive.

## What the code does otherwise than it says

Three runs show a disagreement with what the repository says of the program
(`findings` in `PROJECT.json`):

* two callers of `wd_open` both find `Device_Open` at 0 (`wd_two_callers`), although
  "we don't want to talk to two processes at the same time"
  (`wd_bp/linux/drv_main.c:124`).  Once that has happened an update of `Device_Open`
  may be lost, so that a device nobody has open is not "ready for next caller"
  (`:140`).  The comment at `:127-131` has the module held while a file is open;
  nothing holds it, since `wd_fops` names no owner, and `WdDriver`'s `wd_exit`
  shows what follows;
* after a killed `lcm_tst -show` the next one shows its lines shifted into one
  another (`lcm_shifted`);
* the LEC-3230's bypass ioctls, which the README says force the bypass
  (`wd_bp/README:128-132` for `--sobe`, which the trace uses, `:135-139` for `--srbe`),
  leave the relay where it is (`bypass_unmoved`), because no bypass function enters
  configuration mode.

One contradiction the models leave open.  The comment at `sw_btn/src/ioaccess.c:131-135`
says 1 is pressed and 0 released; `btn_tst` prints "was pressed" on 0
(`btn_tst.c:128`), and `get_btn_status` hands on the level of the pad as it is.
Which of the two is right depends on the board.  `LowLevelSeen` is about the level
0 that `btn_tst` waits for; if the comment is right, `btn_tst` reports a released
button.

Met while modelling, without a text of the repository that promises otherwise:

* Super-IO accesses, and SMBus transactions, of two drivers on two CPUs mix
  (see "One CPU").
* The wait of `pms` for a free controller compares its counter with 0x99 in a loop
  that ends at 100 (`pms.c:219`), so that its message "device smbus access timeout!!"
  (`:220`) is never printed, and it goes on to set up its transaction; so does `eep`,
  which sets `smb_err`, at which nobody looks.  Both look at the status once.
* `eep_tst` packs index and character into an `int` with a signed `char`: characters
  beyond 7 bits are stored at another index.  `Eep`'s theorems assume `SevenBit`.
* The wait for the BMC gives up after 100 polls and goes on as if it had been
  answered; `Eep` has this with a BMC that may miss commands, and the
  theorems assume one that does not (`BmcListens`).
* `LCM_BTN` compares a variable that nothing has set when no byte has arrived:
  it may report a key nobody pressed.
* `pms` reads STATUS_IOUT, a register per page, without setting the page
  (`pms.c:602`); `tmp` is unsigned, so that speeds and temperatures below 0 pass
  `tmp <= 0` (`pms.c:649`, `654`, `658`); a mantissa is taken for sign and magnitude
  (`pms.c`, `lin5_11ToFloat1`); and no status after the probe is looked at.
* `cp_tst` clears the status on a `y` that nobody typed, if the variable happens to
  hold one and the case was shut when it looked; and what it clears may be an
  opening that came after its look.  `PchIo` has both, and no property that they
  do not happen.
* `LCM_init` waits for the transmitter without a bound (`lcm/src/ioaccess.c:366`), and
  `SerialPortWrite` drops a byte when its wait runs out (`:309-311`).
* `get_btn_status` of the LEC-3230 returns before `exit_SIO_config`.
* The COM port driver looks at no status: a read that fails gives back what the
  data register held, and the read-modify-write stores it into the pins of
  two other ports of the same chip.  `OthersKept` excepts these, and auto mode.
  With one card plugged in, a request for the other one still
  sends SMI 0x70 for the port of the same number.  The example
  `--a 2 1 0` of its README is refused by the tool's check of the arguments.

## Not modelled

* The hardware monitor's readings, which go through the monitor's own bank and index
  ports: their conversions are formatting.  `hwm.c` also has the functions for an
  NCT7904 on the SMBus, with ten retries each; nothing calls them.
* The COM port driver's multi-function registers, the Super-IO's direction register
  0xA0 (both written by its init function only), `ShowComPort`, the tool's menus.
* The pin-select registers 0x26, 0x2A, 0x2B and 0x2C of the LEC-3230, written once
  by the init functions.
* `pms`'s PEC transfer, which nothing calls, and the texts for each status bit.
* `Device_Open` in the drivers other than the watchdog's (and the PCH tools', in
  `PchIo`): copies with other names.
* Two drivers in the same hardware on two CPUs (see "One CPU").
* Power, PCI configuration reads, port widths, the `delay`s as such (they order
  nothing by themselves), FreeBSD and DOS builds, kernels before 2.6.36 (where the
  big kernel lock serialises the ioctls, but the open path is the same), the
  formatting of the tools' output, floating-point conversions.
* Older releases and the other boards' copies of the same utilities: they differ
  in pins, addresses and constants, and a model of each would be the one here with
  other numbers.
* Vendored drivers (`src/NCB-1515/property`: bcmdhd, GobiNet and GobiSerial, GPS,
  TPM), which make up most of the repository's lines, and its factory
  scripts and C exercises: third-party code, or no state of their own.  The
  share of the repository's lines that the models cover is small for that
  reason.
