------------------------------- MODULE SuperIO -------------------------------
(***************************************************************************)
(* The Super-IO chip of the NCB-5220 and the tasks that drive it, one port *)
(* instruction at a time.  The watchdog, LED and EEPROM drivers each carry *)
(* their own copy of the access functions and take no lock; the hardware   *)
(* monitor, and every utility built with DIRECT_IO_ACCESS, does the same   *)
(* from user space.                                                        *)
(***************************************************************************)
EXTENDS SioPrograms

CONSTANTS
  Tasks,       \* contexts that run operations: ioctl callers, insmod, tools
  UserTasks,   \* those among them that access the ports from user space
  OpsOf,       \* the operations each task may run
  Preemptive,  \* may one driver come into another's operation?
  PowerOn      \* what the registers may hold when the first task starts

ASSUME TaskAssumption ==
  /\ UserTasks \subseteq Tasks
  /\ OpsOf \in [Tasks -> SUBSET OpRec]
  /\ \A t \in Tasks \ UserTasks : \A o \in OpsOf[t] : Exits(o)
  /\ Preemptive \in BOOLEAN

VARIABLES
  mode,     \* of the chip: "run", "half" (one 0x87 seen) or "config"
  index,    \* the index register, port 0x2E
  ldn,      \* the selected logical device, register 0x07
  regs,     \* contents of the registers
  op,       \* the operation each task runs
  ph,       \* the next port instruction of each task
  todo,     \* the accesses each task has left, the current one first
  reading,  \* is the current access in its read pass?
  got,      \* the byte read in the current access
  ipmi      \* the IpmiPresent flag of the EEPROM driver

chip == <<mode, index, ldn, regs>>
vars == <<mode, index, ldn, regs, op, ph, todo, reading, got, ipmi>>

KernelTasks == Tasks \ UserTasks
NoOp == [name |-> "none", time |-> {}]
Phase == {"idle", "enter1", "enter2", "sel", "ldn", "reg", "data", "exit"}

\* The registers that some operation names, under every device one names.
AllOps == UNION {OpsOf[t] : t \in Tasks}
AccessesOf(o) == {Program(o)[i] : i \in 1 .. Len(Program(o))}
AllAccesses == UNION {AccessesOf(o) : o \in AllOps}
Cells == {a.ldn : a \in AllAccesses} \X {a.reg : a \in AllAccesses}

ASSUME PowerOnAssumption == PowerOn \subseteq [Cells -> Byte]

-----------------------------------------------------------------------------
(* The chip, as the code uses it. *)

IndexOut(b) ==
  /\ UNCHANGED <<ldn, regs>>
  /\ IF mode = "config"
       THEN IF b = \hAA THEN mode' = "run" /\ UNCHANGED index
                        ELSE index' = b /\ UNCHANGED mode
       ELSE /\ mode' = IF b # \h87 THEN "run"
                       ELSE IF mode = "half" THEN "config" ELSE "half"
            /\ UNCHANGED index

\* Without configuration mode, or at a register no operation names, a write
\* changes nothing the operations can see.
DataOut(v) ==
  /\ UNCHANGED <<mode, index>>
  /\ IF mode = "config" /\ index = \h07
       THEN ldn' = v /\ UNCHANGED regs
       ELSE /\ UNCHANGED ldn
            /\ IF mode = "config" /\ <<ldn, index>> \in Cells
                 THEN regs' = [regs EXCEPT ![<<ldn, index>>] = v]
                 ELSE UNCHANGED regs

DataIn ==
  IF mode = "config" /\ index = \h07 THEN ldn
  ELSE IF mode = "config" /\ <<ldn, index>> \in Cells THEN regs[<<ldn, index>>]
  ELSE Bit

-----------------------------------------------------------------------------
(* The tasks. *)

Init ==
  /\ mode = "run"
  /\ index = 0 /\ ldn = {}
  /\ regs \in PowerOn
  /\ op = [t \in Tasks |-> NoOp]
  /\ ph = [t \in Tasks |-> "idle"]
  /\ todo = [t \in Tasks |-> << >>]
  /\ reading = [t \in Tasks |-> FALSE]
  /\ got = [t \in Tasks |-> {}]
  /\ ipmi = FALSE

\* mdelay() spins, so on one CPU without preemption a system call that is in
\* the middle of an operation keeps the CPU; a user program never does.  That
\* there is one CPU is assumed: nothing in the code gives it.
CanRun(t) == Preemptive \/ \A k \in KernelTasks \ {t} : ph[k] = "idle"

Begin(t) ==
  /\ ph[t] = "idle" /\ CanRun(t)
  /\ \E o \in OpsOf[t] :
       /\ op' = [op EXCEPT ![t] = o]
       /\ todo' = [todo EXCEPT ![t] = Program(o)]
       /\ reading' = [reading EXCEPT ![t] = Head(Program(o)).kind # "set"]
  /\ ph' = [ph EXCEPT ![t] = "enter1"]
  /\ UNCHANGED <<chip, got, ipmi>>

\* Mutant: 0x87 is written once ("Must Do It Twice").
enter_SIO_config_once(t) ==
  /\ CanRun(t) /\ IndexOut(\h87)
  /\ ph[t] = "enter1" /\ ph' = [ph EXCEPT ![t] = "sel"]
  /\ UNCHANGED <<op, todo, reading, got, ipmi>>

enter_SIO_config(t) ==
  /\ CanRun(t) /\ IndexOut(\h87)
  /\ \/ ph[t] = "enter1" /\ ph' = [ph EXCEPT ![t] = "enter2"]
     \/ ph[t] = "enter2" /\ ph' = [ph EXCEPT ![t] = "sel"]
  /\ UNCHANGED <<op, todo, reading, got, ipmi>>

SelectIndex(t) ==
  /\ ph[t] = "sel" /\ CanRun(t) /\ IndexOut(\h07)
  /\ ph' = [ph EXCEPT ![t] = "ldn"]
  /\ UNCHANGED <<op, todo, reading, got, ipmi>>

SelectDevice(t) ==
  /\ ph[t] = "ldn" /\ CanRun(t) /\ DataOut(Head(todo[t]).ldn)
  /\ ph' = [ph EXCEPT ![t] = "reg"]
  /\ UNCHANGED <<op, todo, reading, got, ipmi>>

SelectRegister(t) ==
  /\ ph[t] = "reg" /\ CanRun(t) /\ IndexOut(Head(todo[t]).reg)
  /\ ph' = [ph EXCEPT ![t] = "data"]
  /\ UNCHANGED <<op, todo, reading, got, ipmi>>

\* The current access is done: on to the next one, or out.
NextAccess(t) ==
  LET rest == Tail(todo[t]) IN
  /\ todo' = [todo EXCEPT ![t] = rest]
  /\ got' = [got EXCEPT ![t] = {}]
  /\ IF rest = << >>
       THEN /\ ph' = [ph EXCEPT ![t] = IF Exits(op[t]) THEN "exit" ELSE "idle"]
            /\ op' = IF Exits(op[t]) THEN op ELSE [op EXCEPT ![t] = NoOp]
            /\ reading' = [reading EXCEPT ![t] = FALSE]
       ELSE /\ UNCHANGED op
            /\ ph' = [ph EXCEPT ![t] = IF Head(rest).reselect THEN "sel" ELSE "reg"]
            /\ reading' = [reading EXCEPT ![t] = Head(rest).kind # "set"]

\* Mutant: a strap bit that is high is taken for a BMC.
ReadStrap_inverted(t) ==
  /\ ph[t] = "data" /\ CanRun(t) /\ Head(todo[t]).kind = "get"
  /\ ipmi' = (4 \in DataIn)
  /\ NextAccess(t)
  /\ UNCHANGED chip

\* inportb: the first pass of a read-modify-write ...
ReadBack(t) ==
  /\ ph[t] = "data" /\ CanRun(t) /\ reading[t] /\ Head(todo[t]).kind = "rmw"
  /\ got' = [got EXCEPT ![t] = DataIn]
  /\ ph' = [ph EXCEPT ![t] = "sel"]
  /\ reading' = [reading EXCEPT ![t] = FALSE]
  /\ UNCHANGED <<chip, op, todo, ipmi>>

\* ... or the end of a read, whose bit 4 low says that a BMC is present.
ReadStrap(t) ==
  /\ ph[t] = "data" /\ CanRun(t) /\ Head(todo[t]).kind = "get"
  /\ ipmi' = (4 \notin DataIn)
  /\ NextAccess(t)
  /\ UNCHANGED chip

WriteValue(t) ==
  /\ ph[t] = "data" /\ CanRun(t) /\ ~reading[t]
  /\ DataOut(Outcome(Head(todo[t]), got[t]))
  /\ NextAccess(t)
  /\ UNCHANGED ipmi

\* Mutant: an operation returns without leaving configuration mode.
exit_SIO_config_missing(t) ==
  /\ ph[t] = "exit" /\ CanRun(t)
  /\ ph' = [ph EXCEPT ![t] = "idle"]
  /\ op' = [op EXCEPT ![t] = NoOp]
  /\ UNCHANGED <<chip, todo, reading, got, ipmi>>

exit_SIO_config(t) ==
  /\ ph[t] = "exit" /\ CanRun(t) /\ IndexOut(\hAA)
  /\ ph' = [ph EXCEPT ![t] = "idle"]
  /\ op' = [op EXCEPT ![t] = NoOp]
  /\ UNCHANGED <<todo, reading, got, ipmi>>

\* A user program is killed; a system call is not interrupted.
Kill(t) ==
  /\ t \in UserTasks /\ ph[t] # "idle" /\ CanRun(t)
  /\ ph' = [ph EXCEPT ![t] = "idle"]
  /\ op' = [op EXCEPT ![t] = NoOp]
  /\ todo' = [todo EXCEPT ![t] = << >>]
  /\ reading' = [reading EXCEPT ![t] = FALSE]
  /\ got' = [got EXCEPT ![t] = {}]
  /\ UNCHANGED <<chip, ipmi>>

Step(t) ==
  \/ enter_SIO_config(t) \/ SelectIndex(t) \/ SelectDevice(t)
  \/ SelectRegister(t) \/ ReadBack(t) \/ ReadStrap(t) \/ WriteValue(t)
  \/ exit_SIO_config(t)

Next == \E t \in Tasks : Begin(t) \/ Step(t) \/ Kill(t)

Spec == Init /\ [][Next]_vars

-----------------------------------------------------------------------------
(* Properties. *)

\* Type invariant.
TypeOK ==
  /\ mode \in {"run", "half", "config"}
  /\ index \in 0 .. 255 /\ ldn \in Byte
  /\ regs \in [Cells -> Byte]
  /\ op \in [Tasks -> OpRec \cup {NoOp}]
  /\ ph \in [Tasks -> Phase]
  /\ todo \in [Tasks -> Seq(Access)]
  /\ reading \in [Tasks -> BOOLEAN]
  /\ got \in [Tasks -> Byte]
  /\ ipmi \in BOOLEAN

\* A register changes only when a task writes the very register its current
\* access names, and then every bit the access keeps has the value it has at
\* that moment: no write lands on a register another task selected, and no
\* read-modify-write brings back bits that were changed since its read
\* (write_SIO_reg and read_SIO_reg share one index port and one LDN register).
WriteHitsTarget ==
  [][regs' # regs =>
       \A c \in Cells :
         regs'[c] # regs[c] =>
           \E t \in Tasks :
             /\ ph[t] = "data"
             /\ CellOf(Head(todo[t])) = c
             /\ regs'[c] = Outcome(Head(todo[t]), regs[c])]_vars

\* When a driver operation is about to leave configuration mode, all it had
\* to write is in the registers: the LED bits, the timer value, and each of
\* the fields the init functions set up.
InEffect(a) == Outcome(a, regs[CellOf(a)]) = regs[CellOf(a)]
OperationInEffect ==
  \A t \in KernelTasks :
    ph[t] = "exit" => \A a \in AccessesOf(op[t]) : Writes(a) => InEffect(a)

\* Detect_IPMI leaves IpmiPresent equal to what the strap bit says, whatever
\* the LED driver writes to the other bits of that register: the EEPROM driver
\* asks the BMC for the SMBus if and only if there is a BMC to ask.
BmcFlagSound ==
  \A t \in KernelTasks :
    ph[t] = "exit" /\ op[t].name = "detect"
      => ipmi = (4 \notin regs[<<BitsOf(\h07), \hE1>>])

\* exit_SIO_config(): the step that leaves the chip in configuration mode with
\* nobody at it, where a stray write to 0x2E/0x2F reaches its registers, is the
\* end or the death of a user program, and never that of a driver's operation.
ConfigModeLeft ==
  [][\/ mode' = "run"
     \/ \E t \in Tasks : ph'[t] # "idle"
     \/ \E t \in UserTasks : ph[t] # "idle"]_vars

\* The chip behind its two ports, shared by the tasks, is a register file with
\* atomic accesses.
File == INSTANCE RegisterFile WITH work <- todo
ImplementsRegisterFile == File!FileSpec

=============================================================================
