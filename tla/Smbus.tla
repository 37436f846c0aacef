-------------------------------- MODULE Smbus --------------------------------
(***************************************************************************)
(* The SMBus host controller of the NCB-5220 at the grain of its registers. *)
(* The EEPROM driver reaches it from the kernel, the power supply tool pms *)
(* from user space, each with its own copy of the transfer functions and   *)
(* without a lock: both wait until the controller is not busy, but no      *)
(* longer than 100 looks, write command, address and data, start the       *)
(* transaction, wait a fixed time and look at the status once, be the      *)
(* transaction over or not.                                                *)
(***************************************************************************)
EXTENDS Integers, FiniteSets

CONSTANTS
  Drivers,     \* callers of the driver: they keep the CPU (mdelay spins)
  Programs,    \* programs with port access: they are interrupted anywhere
  Devices, Regs, Values,
  XactsOf,     \* the transactions of each task
  NoXact       \* none

Tasks == Drivers \cup Programs
Cells == Devices \X Regs
Xact == [rw : {"r", "w"}, dev : Devices, reg : Regs, val : Values]

ASSUME SmbusAssumption ==
  /\ Drivers \cap Programs = {}
  /\ XactsOf \in [Tasks -> SUBSET Xact]
  /\ NoXact \notin Xact

VARIABLES
  HST_CMD,   \* smbase+3: the register of the device
  XMIT_SLVA, \* smbase+4: its address, and whether to read or to write
  HST_D0,    \* smbase+5
  DEV_ERR,   \* bit 2 of the status register
  flight,    \* the transaction under way: the busy bit is set while there is one
  cells,     \* the registers of the devices
  ph,        \* where each task is in its transfer function
  want,      \* the arguments of that function
  smb_err, value, \* what it reports and returns
  met,       \* the drivers' transactions a program has met; not in the code
  hasty      \* who did not wait for a busy controller: the task in its wait or
             \* its look, or a driver that came; not in the code

controller == <<HST_CMD, XMIT_SLVA, HST_D0, DEV_ERR, flight, cells>>
call == <<want, smb_err, value, met, hasty>>
vars == <<HST_CMD, XMIT_SLVA, HST_D0, DEV_ERR, flight, cells, ph, want, smb_err, value, met,
          hasty>>

Busy == flight # NoXact
CellOf(x) == <<x.dev, x.reg>>

Init ==
  /\ HST_CMD \in Regs /\ XMIT_SLVA \in {"r", "w"} \X Devices /\ HST_D0 \in Values
  /\ DEV_ERR = FALSE /\ flight = NoXact
  /\ cells \in [Cells -> Values]
  /\ ph = [t \in Tasks |-> "idle"]
  /\ want = [t \in Tasks |-> NoXact]
  /\ smb_err = [t \in Tasks |-> FALSE]
  /\ value = [t \in Tasks |-> HST_D0]
  /\ met = [t \in Tasks |-> {}]
  /\ hasty = [t \in Tasks |-> {}]

\* The controller carries out what it has latched, or the device does not
\* answer; a read leaves its byte in the data register.
Finish ==
  /\ Busy /\ flight' = NoXact
  /\ \/ /\ flight.rw = "w"
        /\ cells' = [cells EXCEPT ![CellOf(flight)] = flight.val]
        /\ UNCHANGED <<HST_D0, DEV_ERR>>
     \/ /\ flight.rw = "r"
        /\ HST_D0' = cells[CellOf(flight)]
        /\ UNCHANGED <<cells, DEV_ERR>>
     \/ DEV_ERR' = TRUE /\ UNCHANGED <<cells, HST_D0>>
  /\ UNCHANGED <<HST_CMD, XMIT_SLVA, ph, call>>

\* Assumed: one CPU and no kernel preemption.  Nothing in the code gives it.
CanRun(t) == \A d \in Drivers \ {t} : ph[d] = "idle"

At(t, from, to) ==
  /\ ph[t] = from /\ CanRun(t)
  /\ ph' = [ph EXCEPT ![t] = to]

Begin(t) ==
  /\ At(t, "idle", "clear")
  /\ \E x \in XactsOf[t] :
       /\ want' = [want EXCEPT ![t] = x]
       /\ met' = IF t \in Drivers
                   THEN [u \in Tasks |-> IF u \in Programs /\ ph[u] # "idle"
                                           THEN met[u] \cup {x} ELSE met[u]]
                   ELSE met
  /\ smb_err' = [smb_err EXCEPT ![t] = FALSE]
  /\ UNCHANGED <<controller, value, hasty>>

\* The status is cleared before each look at the busy bit.
ClearStatus(t) ==
  /\ At(t, "clear", "test")
  /\ DEV_ERR' = FALSE
  /\ UNCHANGED <<HST_CMD, XMIT_SLVA, HST_D0, flight, cells, call>>

TestBusy(t) ==
  /\ At(t, "test", IF Busy THEN "clear" ELSE "cmd")
  /\ UNCHANGED <<controller, call>>

\* A task goes on although the controller is busy; a driver that does so
\* spoils the programs it has interrupted, too.
Hurry(t, how) ==
  hasty' = [u \in Tasks |->
              hasty[u] \cup (IF u = t THEN {how}
                             ELSE IF t \in Drivers /\ u \in Programs /\ ph[u] # "idle"
                                    THEN {"driver"} ELSE {})]

\* The hundredth look: how many a transaction takes is left open.  The driver
\* sets smb_err; pms, which compares its counter with 0x99, does not.  Both
\* go on to set up their transaction.
GiveUp(t) ==
  /\ Busy /\ At(t, "test", "cmd")
  /\ smb_err' = [smb_err EXCEPT ![t] = t \in Drivers]
  /\ Hurry(t, "wait")
  /\ UNCHANGED <<controller, want, value, met>>

\* Mutant: the command register is left as it is before a read.
SetCommand_writes(t) ==
  /\ At(t, "cmd", "slva")
  /\ HST_CMD' = IF want[t].rw = "w" THEN want[t].reg ELSE HST_CMD
  /\ UNCHANGED <<XMIT_SLVA, HST_D0, DEV_ERR, flight, cells, call>>

SetCommand(t) ==
  /\ At(t, "cmd", "slva")
  /\ HST_CMD' = want[t].reg
  /\ UNCHANGED <<XMIT_SLVA, HST_D0, DEV_ERR, flight, cells, call>>

\* Mutant: the two parts of the register change places.
SetAddress_swapped(t) ==
  /\ At(t, "slva", IF want[t].rw = "w" THEN "data" ELSE "start")
  /\ XMIT_SLVA' = <<want[t].dev, want[t].rw>>
  /\ UNCHANGED <<HST_CMD, HST_D0, DEV_ERR, flight, cells, call>>

SetAddress(t) ==
  /\ At(t, "slva", IF want[t].rw = "w" THEN "data" ELSE "start")
  /\ XMIT_SLVA' = <<want[t].rw, want[t].dev>>
  /\ UNCHANGED <<HST_CMD, HST_D0, DEV_ERR, flight, cells, call>>

\* Mutant: a program leaves the data of the write before.
SetData_driver(t) ==
  /\ At(t, "data", "start")
  /\ HST_D0' = IF t \in Drivers THEN want[t].val ELSE HST_D0
  /\ UNCHANGED <<HST_CMD, XMIT_SLVA, DEV_ERR, flight, cells, call>>

SetData(t) ==
  /\ At(t, "data", "start")
  /\ HST_D0' = want[t].val
  /\ UNCHANGED <<HST_CMD, XMIT_SLVA, DEV_ERR, flight, cells, call>>

\* 0x48 to the control register.  A controller that is busy ignores it, or
\* drops the transaction under way.
Start(t) ==
  /\ At(t, "start", "check")
  /\ \/ flight' = [rw |-> XMIT_SLVA[1], dev |-> XMIT_SLVA[2], reg |-> HST_CMD, val |-> HST_D0]
     \/ Busy /\ flight' = flight
  /\ UNCHANGED <<HST_CMD, XMIT_SLVA, HST_D0, DEV_ERR, cells, call>>

\* Mutant: the look at the status forgets that the wait has failed.
Check_forgets(t) ==
  /\ At(t, "check", IF want[t].rw = "r" THEN "fetch" ELSE "done")
  /\ smb_err' = [smb_err EXCEPT ![t] = DEV_ERR]
  /\ IF Busy THEN Hurry(t, "look") ELSE UNCHANGED hasty
  /\ UNCHANGED <<controller, want, value, met>>

\* One look after delay(20), whether the transaction is over or not.
Check(t) ==
  /\ At(t, "check", IF want[t].rw = "r" THEN "fetch" ELSE "done")
  /\ smb_err' = [smb_err EXCEPT ![t] = @ \/ DEV_ERR]
  /\ IF Busy THEN Hurry(t, "look") ELSE UNCHANGED hasty
  /\ UNCHANGED <<controller, want, value, met>>

Fetch(t) ==
  /\ At(t, "fetch", "done")
  /\ value' = [value EXCEPT ![t] = HST_D0]
  /\ UNCHANGED <<controller, want, smb_err, met, hasty>>

Leave(t) ==
  /\ ph' = [ph EXCEPT ![t] = "idle"]
  /\ want' = [want EXCEPT ![t] = NoXact]
  /\ met' = [met EXCEPT ![t] = {}]
  /\ hasty' = [hasty EXCEPT ![t] = {}]
  /\ UNCHANGED <<controller, smb_err, value>>

Return(t) == ph[t] = "done" /\ CanRun(t) /\ Leave(t)

\* A program is killed; a transaction it has started goes on without it.
Kill(t) == t \in Programs /\ ph[t] # "idle" /\ CanRun(t) /\ Leave(t)

Step(t) ==
  \/ ClearStatus(t) \/ TestBusy(t) \/ GiveUp(t) \/ SetCommand(t) \/ SetAddress(t)
  \/ SetData(t) \/ Start(t) \/ Check(t) \/ Fetch(t) \/ Return(t)

Next == Finish \/ \E t \in Tasks : Begin(t) \/ Step(t) \/ Kill(t)

Spec == Init /\ [][Next]_vars

-----------------------------------------------------------------------------
(* Properties. *)

\* Type invariant.
TypeOK ==
  /\ HST_CMD \in Regs /\ XMIT_SLVA \in {"r", "w"} \X Devices /\ HST_D0 \in Values
  /\ DEV_ERR \in BOOLEAN
  /\ flight \in Xact \cup {NoXact}
  /\ cells \in [Cells -> Values]
  /\ ph \in [Tasks -> {"idle", "clear", "test", "cmd", "slva", "data", "start",
                       "check", "fetch", "done"}]
  /\ want \in [Tasks -> Xact \cup {NoXact}]
  /\ smb_err \in [Tasks -> BOOLEAN]
  /\ value \in [Tasks -> Values]
  /\ met \in [Tasks -> SUBSET Xact]
  /\ hasty \in [Tasks -> SUBSET {"wait", "look", "driver"}]

\* What a transfer function that reports no error was asked for has been done.
Done(t) ==
  IF want[t].rw = "w" THEN cells[CellOf(want[t])] = want[t].val
                      ELSE value[t] = cells[CellOf(want[t])]

\* A transfer of the driver that ends without smb_err has reached its device,
\* wherever it has interrupted a program that drives the same controller and
\* whatever it has found there, if it was over when the driver looked.
DriverTransfersDone ==
  \A t \in Drivers : ph[t] = "done" /\ ~smb_err[t] /\ "look" \notin hasty[t] => Done(t)

\* The same holds of a program's transfer that no driver came into, and in
\* which the program did not go on while the controller was busy, which
\* smb_err does not tell it (pms.c:219).  What ran late before is of no account.
UndisturbedTransfersDone ==
  \A t \in Programs :
    ph[t] = "done" /\ ~smb_err[t] /\ met[t] = {} /\ hasty[t] = {} => Done(t)

\* The controller and its users implement a bus with one transaction at a
\* time, on which only a program that met the driver can get something else
\* than it asked for, and then only by a field of the driver's transaction; a
\* task that did not wait for a busy controller, or met a driver that did not,
\* may have its data replaced and the transaction before it cut off.
Bus == INSTANCE SharedBus WITH loose <- {t \in Tasks : hasty[t] # {}}
ImplementsSharedBus == Bus!BusSpec

=============================================================================
