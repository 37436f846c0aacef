------------------------------- MODULE WdDriver -------------------------------
(***************************************************************************)
(* The NCB-5220 watchdog driver, wd_bp/linux/drv_main.c, and the wd_tst    *)
(* tool that opens it: loading and unloading, the Device_Open guard, the   *)
(* ioctls.  Nothing is locked: processes are in open, ioctl and release    *)
(* side by side, and next to wd_init and rmmod, on as many CPUs.  What an  *)
(* ioctl does to the registers happens at once here: SuperIO shows when it *)
(* may be taken so.                                                        *)
(***************************************************************************)
EXTENDS Integers

CONSTANTS
  Processes,   \* where an instance of wd_tst can run
  Values       \* the numbers given on its command line, as atoi returns them

ASSUME WdAssumption == Values \subseteq Nat

VARIABLES
  Device_Open,  \* the guard, an int of the module
  loaded,       \* is the character device registered?
  initing,      \* is wd_init between register_chrdev and wd_gpio_init?
  timer,        \* register 0xF6 of logical device 8: 0 stops the watchdog
  pc,           \* where each process is
  cmd,          \* the command line it was started with
  read,         \* the value of Device_Open it has read to change it
  stale,        \* the processes whose code or file rmmod has taken away
  asked,        \* what the last command carried out asked for; not in the code
  early,        \* it came before wd_gpio_init; not in the code
  raced         \* two were in the driver that do not know of each other; not in the code

tool == <<pc, cmd, read, stale>>
history == <<asked, early, raced>>
vars == <<Device_Open, loaded, initing, timer, tool, history>>

\* A -swt with its argument or without, and -stop.
Cmd == [op : {"swt"}, value : Values] \cup [op : {"swt_bare", "stop"}, value : {0}]
NoCmd == [op |-> "none", value |-> 0]

InOpen  == {"open", "open_read"}       \* past the test of Device_Open
HasFile == {"user", "close", "release"}
Pc == {"none", "start"} \cup InOpen \cup HasFile

OpenFiles == {p \in Processes : pc[p] \in HasFile}
Inside == {p \in Processes : pc[p] \in InOpen \cup HasFile}

Goto(p, label) == pc' = [pc EXCEPT ![p] = label]

Init ==
  /\ Device_Open = 0 /\ loaded = FALSE /\ initing = FALSE
  /\ timer \in {0, 60}             \* the firmware may have armed it
  /\ pc = [p \in Processes |-> "none"]
  /\ cmd = [p \in Processes |-> NoCmd]
  /\ read = [p \in Processes |-> 0]
  /\ stale = {}
  /\ asked = timer /\ early = FALSE /\ raced = FALSE

-----------------------------------------------------------------------------
(* Loading and unloading. *)

\* register_chrdev makes the device reachable ...
wd_init ==
  /\ ~loaded
  /\ loaded' = TRUE /\ initing' = TRUE
  /\ Device_Open' = 0
  /\ asked' = 0 /\ early' = FALSE /\ raced' = (Inside # {})
  /\ UNCHANGED <<timer, tool>>

\* ... and wd_gpio_init clears the timer after that.
wd_gpio_init ==
  /\ initing
  /\ timer' = 0 /\ initing' = FALSE
  /\ UNCHANGED <<Device_Open, loaded, tool, history>>

\* wd_fops names no owner, so neither an open file nor a call holds the module.
wd_exit ==
  /\ loaded /\ ~initing
  /\ loaded' = FALSE
  /\ stale' = stale \cup Inside
  /\ raced' = (raced \/ Inside # {})
  /\ UNCHANGED <<Device_Open, initing, timer, pc, cmd, read, asked, early>>

-----------------------------------------------------------------------------
(* wd_tst and the driver's entry points. *)

Run(p) ==
  /\ pc[p] = "none"
  /\ \E c \in Cmd : cmd' = [cmd EXCEPT ![p] = c]
  /\ Goto(p, "start")
  /\ UNCHANGED <<Device_Open, loaded, initing, timer, read, stale, history>>

Quit(p) ==
  /\ Goto(p, "none")
  /\ cmd' = [cmd EXCEPT ![p] = NoCmd] /\ stale' = stale \ {p}
  /\ read' = [read EXCEPT ![p] = 0]

\* Mutant: an open that fails is released like one that succeeds.
wd_open_fails_releases(p) ==
  /\ pc[p] = "start"
  /\ ~loaded \/ Device_Open # 0
  /\ Device_Open' = IF loaded THEN Device_Open - 1 ELSE Device_Open
  /\ Quit(p)
  /\ UNCHANGED <<loaded, initing, timer, history>>

\* open() fails: no such device, or -EBUSY.  The tool gives up.
wd_open_fails(p) ==
  /\ pc[p] = "start"
  /\ ~loaded \/ Device_Open # 0
  /\ Quit(p)
  /\ UNCHANGED <<Device_Open, loaded, initing, timer, history>>

wd_open(p) ==
  /\ pc[p] = "start"
  /\ loaded /\ Device_Open = 0
  /\ Goto(p, "open")
  /\ raced' = (raced \/ \E q \in Processes \ {p} : pc[q] \in InOpen)
  /\ UNCHANGED <<Device_Open, loaded, initing, timer, cmd, read, stale, asked, early>>

\* Device_Open++ of the tested value, or of the value read again.
IncrementTested(p) ==
  /\ pc[p] = "open" /\ p \notin stale
  /\ Device_Open' = 1
  /\ Goto(p, "user")
  /\ UNCHANGED <<loaded, initing, timer, cmd, read, stale, history>>

ReadAgain(p) ==
  /\ pc[p] = "open" /\ p \notin stale
  /\ read' = [read EXCEPT ![p] = Device_Open]
  /\ Goto(p, "open_read")
  /\ UNCHANGED <<Device_Open, loaded, initing, timer, cmd, stale, history>>

IncrementRead(p) ==
  /\ pc[p] = "open_read" /\ p \notin stale
  /\ Device_Open' = read[p] + 1
  /\ read' = [read EXCEPT ![p] = 0]
  /\ Goto(p, "user")
  /\ UNCHANGED <<loaded, initing, timer, cmd, stale, history>>

\* A file of an instance that is gone leads into the one that has been loaded
\* where it was.
Enter(p) == loaded /\ stale' = stale \ {p}

\* Mutant: 256 is taken for a value of 8 bits.
Accepted_256(c) == c.op = "stop" \/ (c.op = "swt" /\ c.value \in 1 .. 256)

\* The tool's check of its argument, made after it has opened the device.
Accepted(c) == c.op = "stop" \/ (c.op = "swt" /\ c.value \in 1 .. 255)

\* Mutant: one second is added for the one that has begun.
start_watchdog_timer_more(value) == timer' = value + 1

\* outportb keeps the low byte.
start_watchdog_timer(value) == timer' = value % 256
stop_watchdog_timer == timer' = 0

wd_ioctl(p) ==
  /\ pc[p] = "user" /\ Accepted(cmd[p])
  /\ asked' = IF cmd[p].op = "swt" THEN cmd[p].value ELSE 0
  /\ early' = initing
  /\ IF cmd[p].op = "swt" THEN start_watchdog_timer(cmd[p].value)
                          ELSE stop_watchdog_timer
  /\ Goto(p, "close") /\ Enter(p)
  /\ UNCHANGED <<Device_Open, loaded, initing, cmd, read, raced>>

\* The tool turns its argument down, or is killed before its ioctl.
GiveUp(p) ==
  /\ pc[p] = "user"
  /\ Goto(p, "close")
  /\ UNCHANGED <<Device_Open, loaded, initing, timer, cmd, read, stale, history>>

\* close(), or the kernel closing the files of a dead process.
wd_release(p) ==
  /\ pc[p] = "close"
  /\ read' = [read EXCEPT ![p] = Device_Open]
  /\ Goto(p, "release") /\ Enter(p)
  /\ UNCHANGED <<Device_Open, loaded, initing, timer, cmd, history>>

\* Mutant: a close does not give the device back.
Decrement_missing(p) ==
  /\ pc[p] = "release" /\ p \notin stale
  /\ Quit(p)
  /\ UNCHANGED <<Device_Open, loaded, initing, timer, history>>

\* Mutant: the guard is made stricter by a close.
Decrement_wrong(p) ==
  /\ pc[p] = "release" /\ p \notin stale
  /\ Device_Open' = read[p] + 1
  /\ Quit(p)
  /\ UNCHANGED <<loaded, initing, timer, history>>

Decrement(p) ==
  /\ pc[p] = "release" /\ p \notin stale
  /\ Device_Open' = read[p] - 1
  /\ Quit(p)
  /\ UNCHANGED <<loaded, initing, timer, history>>

\* The code of an unloaded module is gone: who is in it, or calls it through an
\* open file, faults and is ended without a release.
Fault(p) ==
  /\ p \in stale
  /\ Quit(p)
  /\ UNCHANGED <<Device_Open, loaded, initing, timer, history>>

Step(p) ==
  \/ wd_open_fails(p) \/ wd_open(p) \/ IncrementTested(p) \/ ReadAgain(p)
  \/ IncrementRead(p) \/ wd_ioctl(p) \/ GiveUp(p) \/ wd_release(p) \/ Decrement(p)
  \/ Fault(p)

Next ==
  \/ wd_init \/ wd_gpio_init \/ wd_exit
  \/ \E p \in Processes : Run(p) \/ Step(p)

Spec == Init /\ [][Next]_vars

\* The tool runs straight through: it waits for nothing.
FairSpec == Spec /\ \A p \in Processes : WF_vars(Step(p))

-----------------------------------------------------------------------------
(* Properties. *)

\* Type invariant.
TypeOK ==
  /\ Device_Open \in Int /\ timer \in 0 .. 255 /\ asked \in Nat
  /\ loaded \in BOOLEAN /\ initing \in BOOLEAN
  /\ pc \in [Processes -> Pc]
  /\ cmd \in [Processes -> Cmd \cup {NoCmd}]
  /\ read \in [Processes -> Int]
  /\ stale \subseteq Processes
  /\ early \in BOOLEAN /\ raced \in BOOLEAN

\* "We don't want to talk to two processes at the same time" (drv_main.c:124):
\* one process at most has the device open.  The code does not keep this.
OneFile == \A p, q \in OpenFiles : p = q

\* It does unless two calls of wd_open were between their test and their
\* increment together, or the module was unloaded in use: opens that fail,
\* releases and loading never let a second process in.
OneFileUnlessRaced == ~raced => OneFile

\* "Ready for next caller" (drv_main.c:140), with the same exception: once
\* every file is closed the device can be opened again, whatever opens failed
\* while the one file was being released.
ReadyForNextCaller == ~raced /\ Inside = {} => Device_Open = 0

\* The watchdog counts what the last command carried out asked for: no value is
\* cut to 8 bits on its way to the register, and a command that was turned down
\* changes nothing.  But a command that comes in before wd_gpio_init is undone
\* by it, and this is the only way one is lost.
TimerAsAsked ==
  loaded /\ ~initing /\ ~raced => timer = IF early THEN 0 ELSE asked

\* A device that is taken is given back, whatever becomes of its user, with
\* the same exception.
DeviceFreed == Device_Open # 0 ~> Device_Open = 0 \/ raced

=============================================================================
