---------------------------- MODULE SuperIO_proofs ----------------------------
(***************************************************************************)
(* Proofs about the Super-IO chip shared by kernel drivers and at most one *)
(* user-space program, when system calls do not preempt each other.        *)
(* The last two parts, about configuration mode and about the end of an    *)
(* operation, do not need that system calls do not preempt each other.     *)
(***************************************************************************)
EXTENDS SuperIO, TLAPS

\* The index values that mean something to the chip itself.
Special == {\h07, \h87, \hAA}

\* What the proofs use of a program: it is not empty, starts by selecting its
\* device, goes on with a device only if it is the same one, names a register
\* once and none of the chip's own index values, and keeps bits of a register
\* only where it has read it.
WellFormed(p) ==
  /\ p \in Seq(Access)
  /\ p # << >>
  /\ p[1].reselect
  /\ \A i \in 1 .. Len(p) : p[i].reg \notin Special
  /\ \A i \in 1 .. Len(p) : p[i].kind = "set" => p[i].keep = {}
  /\ \A i \in 1 .. Len(p) : i # 1 /\ ~p[i].reselect => p[i].ldn = p[i - 1].ldn
  /\ \A i, j \in 1 .. Len(p) : i # j => p[i].reg # p[j].reg

LEMMA BitsOfType == \A n : BitsOf(n) \in Byte
  BY DEF BitsOf, Byte

LEMMA WriteType ==
  \A l, v : \A r \in 0 .. 255 :
    /\ write_SIO_reg(l, r, v) \in Access
    /\ write_SIO_reg(l, r, v).reg = r
    /\ write_SIO_reg(l, r, v).reselect
    /\ write_SIO_reg(l, r, v).ldn = BitsOf(l)
  <1>1. \A v : v \cap Bit \in Byte /\ {} \in Byte
    BY DEF Byte
  <1> QED
    BY <1>1, BitsOfType DEF write_SIO_reg, Access

LEMMA WriteSelectedType ==
  \A l, v : \A r \in 0 .. 255 :
    /\ WriteSelected(l, r, v) \in Access
    /\ WriteSelected(l, r, v).reg = r
    /\ WriteSelected(l, r, v).ldn = BitsOf(l)
  <1>1. \A v : v \cap Bit \in Byte /\ {} \in Byte
    BY DEF Byte
  <1> QED
    BY <1>1, BitsOfType DEF WriteSelected, Access

LEMMA WriteKeepsNothing ==
  \A l, r, v : write_SIO_reg(l, r, v).keep = {} /\ WriteSelected(l, r, v).keep = {}
  BY DEF write_SIO_reg, WriteSelected

LEMMA ReadType ==
  \A l : \A r \in 0 .. 255 :
    /\ read_SIO_reg(l, r) \in Access
    /\ read_SIO_reg(l, r).reg = r
    /\ read_SIO_reg(l, r).reselect
    /\ read_SIO_reg(l, r).kind = "get"
  <1>1. Bit \in Byte /\ {} \in Byte
    BY DEF Byte
  <1> QED
    BY <1>1, BitsOfType DEF read_SIO_reg, Access

LEMMA WellFormedOne ==
  \A a \in Access :
    a.reselect /\ a.reg \notin Special /\ (a.kind = "set" => a.keep = {})
      => WellFormed(<< a >>)
  BY DEF WellFormed

LEMMA SmallBytes ==
  /\ Bit \in Byte /\ {} \in Byte /\ {0, 2} \in Byte /\ {0} \in Byte
  /\ Bit \ {0} \in Byte /\ Bit \ {2, 3} \in Byte /\ {3} \in Byte
  /\ {2} \in Byte /\ {7} \in Byte
  BY DEF Byte, Bit

LEMMA LedWellFormed ==
  \A s \in Byte : WellFormed(<< Modify(\h07, \hE1, Bit \ {2, 3}, s) >>)
  <1> SUFFICES ASSUME NEW s \in Byte
               PROVE  WellFormed(<< Modify(\h07, \hE1, Bit \ {2, 3}, s) >>)
    OBVIOUS
  <1> DEFINE a == Modify(\h07, \hE1, Bit \ {2, 3}, s)
  <1>1. a \in Access /\ a.reselect /\ a.reg = \hE1 /\ a.kind = "rmw"
    BY BitsOfType, SmallBytes DEF Modify, Access
  <1>2. a.reg \notin Special
    BY <1>1 DEF Special
  <1>3. WellFormed(<< a >>)
    <2> HIDE DEF a
    <2> QED
      BY <1>1, <1>2, WellFormedOne
  <1> QED
    BY <1>3

LEMMA TimerWellFormed == \A v : WellFormed(<< write_SIO_reg(\h08, \hF6, v) >>)
  <1> SUFFICES ASSUME NEW v
               PROVE  WellFormed(<< write_SIO_reg(\h08, \hF6, v) >>)
    OBVIOUS
  <1> DEFINE a == write_SIO_reg(\h08, \hF6, v)
  <1>1. a \in Access /\ a.reg = \hF6 /\ a.reselect
    BY WriteType
  <1>2. a.keep = {}
    BY WriteKeepsNothing
  <1>3. WellFormed(<< a >>)
    <2> HIDE DEF a
    <2> QED
      BY <1>1, <1>2, WellFormedOne DEF Special
  <1> QED
    BY <1>3

LEMMA ShortProgramsWellFormed ==
  /\ \A v : WellFormed(start_watchdog_timer(v))
  /\ WellFormed(stop_watchdog_timer)
  /\ WellFormed(set_led_status_1)
  /\ WellFormed(set_led_status_2)
  /\ WellFormed(set_led_status_3)
  /\ WellFormed(Detect_IPMI)
  <1>1. \A v : WellFormed(start_watchdog_timer(v))
    BY TimerWellFormed DEF start_watchdog_timer
  <1>2. WellFormed(stop_watchdog_timer)
    BY TimerWellFormed DEF stop_watchdog_timer
  <1>3. WellFormed(set_led_status_1)
    BY SmallBytes, LedWellFormed DEF set_led_status_1
  <1>4. WellFormed(set_led_status_2)
    BY SmallBytes, LedWellFormed DEF set_led_status_2
  <1>5. WellFormed(set_led_status_3)
    BY SmallBytes, LedWellFormed DEF set_led_status_3
  <1>6. WellFormed(Detect_IPMI)
    <2> DEFINE a == read_SIO_reg(\h07, \hE1)
    <2>1. a \in Access /\ a.reselect /\ a.reg = \hE1 /\ a.kind = "get"
      BY ReadType
    <2>2. a.reg \notin Special
      BY <2>1 DEF Special
    <2>3. WellFormed(<< a >>)
      <3> HIDE DEF a
      <3> QED
        BY <2>1, <2>2, WellFormedOne
    <2> QED
      BY <2>3 DEF Detect_IPMI
  <1> QED
    BY <1>1, <1>2, <1>3, <1>4, <1>5, <1>6

LEMMA WdInitWellFormed == WellFormed(wd_gpio_init)
  <1> DEFINE a == Modify(\h08, \h30, Bit, {0, 2})
             b == Modify(\h17, \hE5, Bit, {0})
             c == Modify(\h17, \hE0, Bit \ {0}, {})
             d == write_SIO_reg(\h08, \hF5, {})
             e == write_SIO_reg(\h08, \hF6, {})
             f == Modify(\h08, \h2C, Bit \ {0}, {})
  <1>1. /\ a \in Access /\ a.reg = \h30 /\ a.reselect /\ a.kind = "rmw"
        /\ b \in Access /\ b.reg = \hE5 /\ b.reselect /\ b.kind = "rmw"
        /\ c \in Access /\ c.reg = \hE0 /\ c.reselect /\ c.kind = "rmw"
        /\ f \in Access /\ f.reg = \h2C /\ f.reselect /\ f.kind = "rmw"
    BY BitsOfType, SmallBytes DEF Modify, Access
  <1>2. /\ d \in Access /\ d.reg = \hF5 /\ d.reselect
        /\ e \in Access /\ e.reg = \hF6 /\ e.reselect
    BY WriteType
  <1>4. d.keep = {} /\ e.keep = {}
    BY WriteKeepsNothing
  <1>3. wd_gpio_init = << a, b, c, d, e, f >>
    BY DEF wd_gpio_init
  <1> QED
    <2> HIDE DEF a, b, c, d, e, f
    <2> QED
      BY <1>1, <1>2, <1>3, <1>4 DEF WellFormed, Special

LEMMA SledInitWellFormed == WellFormed(sled_gpio_init)
  <1> DEFINE a == Modify(\h00, \h27, Bit, {7})
             b == Modify(\h09, \h30, Bit, {7})
             c == Modify(\h07, \hE0, Bit \ {2, 3}, {})
             d == Modify(\h0F, \hE6, Bit \ {2, 3}, {})
  <1>1. /\ a \in Access /\ a.reg = \h27 /\ a.reselect /\ a.kind = "rmw"
        /\ b \in Access /\ b.reg = \h30 /\ b.reselect /\ b.kind = "rmw"
        /\ c \in Access /\ c.reg = \hE0 /\ c.reselect /\ c.kind = "rmw"
        /\ d \in Access /\ d.reg = \hE6 /\ d.reselect /\ d.kind = "rmw"
    BY BitsOfType, SmallBytes DEF Modify, Access
  <1>2. sled_gpio_init = << a, b, c, d >>
    BY DEF sled_gpio_init
  <1> QED
    <2> HIDE DEF a, b, c, d
    <2> QED
      BY <1>1, <1>2 DEF WellFormed, Special

LEMMA HwmInitWellFormed == WellFormed(sio_hwm_init)
  <1> DEFINE a == write_SIO_reg(\h0B, \h60, {1, 3})
             b == WriteSelected(\h0B, \h61, {4})
             c == WriteSelected(\h0B, \h30, {0})
  <1>1. /\ a \in Access /\ a.reg = \h60 /\ a.reselect /\ a.ldn = BitsOf(\h0B)
    BY WriteType
  <1>2. /\ b \in Access /\ b.reg = \h61 /\ b.ldn = BitsOf(\h0B)
        /\ c \in Access /\ c.reg = \h30 /\ c.ldn = BitsOf(\h0B)
    BY WriteSelectedType
  <1>4. a.keep = {} /\ b.keep = {} /\ c.keep = {}
    BY WriteKeepsNothing
  <1>3. sio_hwm_init = << a, b, c >>
    BY DEF sio_hwm_init
  <1> QED
    <2> HIDE DEF a, b, c
    <2> QED
      BY <1>1, <1>2, <1>3, <1>4 DEF WellFormed, Special

LEMMA ProgramWellFormed == \A o \in OpRec : WellFormed(Program(o))
  BY ShortProgramsWellFormed, WdInitWellFormed, SledInitWellFormed, HwmInitWellFormed
     DEF Program, FixedProgram, OpRec

-----------------------------------------------------------------------------
(* The inductive invariant. *)

\* System calls do not preempt each other, and one user program at most
\* accesses the ports.
Serial == ~Preemptive /\ \A s, t \in UserTasks : s = t

Busy(t) == ph[t] # "idle"

\* The number of accesses the operation of task t has behind it.
Done(t) == Len(Program(op[t])) - Len(todo[t])

\* What a task has left is a final part of its program; only an operation
\* that has just entered has its read pass certainly ahead of it.
TaskInv(t) ==
  /\ Busy(t) =>
       /\ op[t] \in OpsOf[t]
       /\ Len(todo[t]) <= Len(Program(op[t]))
       /\ \A i \in 1 .. Len(todo[t]) : todo[t][i] = Program(op[t])[Done(t) + i]
  /\ todo[t] = << >> <=> ph[t] \in {"idle", "exit"}
  /\ todo[t] # << >> =>
       /\ Head(todo[t]).kind = "set" => ~reading[t]
       /\ Head(todo[t]).kind = "get" => reading[t]
       /\ ph[t] \in {"enter1", "enter2"} /\ Head(todo[t]).kind = "rmw" => reading[t]

\* The chip is where the next port instruction of task t expects it to be.
InSync(t) ==
  /\ ph[t] = "enter2" => mode # "run"
  /\ ph[t] \in {"sel", "ldn", "reg", "data", "exit"} => mode = "config"
  /\ ph[t] = "ldn" => index = \h07
  /\ ph[t] \in {"reg", "data"} => ldn = Head(todo[t]).ldn
  /\ ph[t] = "data" => index = Head(todo[t]).reg
  /\ ph[t] \in {"sel", "ldn", "reg", "data"} /\ Head(todo[t]).kind = "rmw" /\ ~reading[t]
       => got[t] = regs[CellOf(Head(todo[t]))]

OneKernelTask == \A k, l \in KernelTasks : Busy(k) /\ Busy(l) => k = l

DoneInEffect(k) ==
  \A i \in 1 .. Done(k) : Writes(Program(op[k])[i]) => InEffect(Program(op[k])[i])

KernelInv(k) == Busy(k) => InSync(k) /\ DoneInEffect(k)

\* A driver that ran in the middle of a user program's operation has taken the
\* chip out of configuration mode: what the program still sends is ignored.
UserInv(u) == Busy(u) /\ (\A k \in KernelTasks : ~Busy(k)) => InSync(u) \/ mode # "config"

IInv ==
  /\ TypeOK
  /\ \A t \in Tasks : TaskInv(t)
  /\ OneKernelTask
  /\ \A k \in KernelTasks : KernelInv(k)
  /\ \A u \in UserTasks : UserInv(u)
  /\ BmcFlagSound

LEMMA OpsType == \A t \in Tasks : \A o \in OpsOf[t] : o \in OpRec /\ WellFormed(Program(o))
  BY TaskAssumption, ProgramWellFormed

LEMMA CellsOfPrograms ==
  ASSUME NEW t \in Tasks, NEW o \in OpsOf[t], NEW i \in 1 .. Len(Program(o))
  PROVE  CellOf(Program(o)[i]) \in Cells
  <1>1. o \in AllOps
    BY TaskAssumption DEF AllOps
  <1>2. Program(o)[i] \in AllAccesses
    BY <1>1 DEF AllAccesses, AccessesOf
  <1> QED
    BY <1>2 DEF Cells, CellOf

\* What is known of the access a task is at.
LEMMA CurrentAccess ==
  ASSUME NEW t \in Tasks, TypeOK, TaskInv(t), todo[t] # << >>
  PROVE  /\ Busy(t) /\ op[t] \in OpsOf[t] /\ WellFormed(Program(op[t]))
         /\ Len(Program(op[t])) \in Nat /\ Len(todo[t]) \in Nat
         /\ Done(t) \in 0 .. (Len(Program(op[t])) - 1)
         /\ Head(todo[t]) = Program(op[t])[Done(t) + 1]
         /\ Head(todo[t]) \in Access
         /\ Head(todo[t]).reg \notin Special
         /\ CellOf(Head(todo[t])) \in Cells
         /\ Head(todo[t]).kind = "set" => Head(todo[t]).keep = {}
  <1>1. Busy(t) /\ op[t] \in OpsOf[t]
    BY DEF TaskInv, Busy
  <1>2. WellFormed(Program(op[t])) /\ Program(op[t]) \in Seq(Access) /\ todo[t] \in Seq(Access)
    BY <1>1, OpsType DEF TypeOK, WellFormed
  <1>3. Len(Program(op[t])) \in Nat /\ Len(todo[t]) \in Nat /\ Len(todo[t]) > 0
    BY <1>2
  <1>4. Done(t) \in 0 .. (Len(Program(op[t])) - 1)
    BY <1>1, <1>3 DEF TaskInv, Done
  <1>5. Head(todo[t]) = todo[t][1] /\ todo[t][1] = Program(op[t])[Done(t) + 1]
    BY <1>1, <1>2, <1>3 DEF TaskInv
  <1>6. Done(t) + 1 \in 1 .. Len(Program(op[t]))
    BY <1>3, <1>4
  <1>7. CellOf(Head(todo[t])) \in Cells
    BY <1>1, <1>5, <1>6, CellsOfPrograms
  <1>8. /\ Head(todo[t]) \in Access /\ Head(todo[t]).reg \notin Special
        /\ Head(todo[t]).kind = "set" => Head(todo[t]).keep = {}
    BY <1>2, <1>5, <1>6 DEF WellFormed
  <1> QED
    BY <1>1, <1>2, <1>3, <1>4, <1>5, <1>7, <1>8

\* A step that concerns task t alone keeps the invariant if it keeps t's part.
OnlyTask(t) ==
  \A s \in Tasks \ {t} :
    /\ ph'[s] = ph[s] /\ op'[s] = op[s] /\ todo'[s] = todo[s]
    /\ reading'[s] = reading[s] /\ got'[s] = got[s]

BmcFlagOf(t) ==
  ph[t] = "exit" /\ op[t].name = "detect"
    => ipmi = (4 \notin regs[<<BitsOf(\h07), \hE1>>])

LEMMA OneTaskStep ==
  ASSUME NEW t \in Tasks, Serial, IInv, CanRun(t), OnlyTask(t), TypeOK',
         TaskInv(t)',
         t \in KernelTasks => KernelInv(t)' /\ BmcFlagOf(t)' /\ (Busy(t)' \/ mode' # "config"),
         t \in UserTasks => (Busy(t)' => InSync(t)' \/ mode' # "config")
  PROVE  IInv'
  <1>1. \A k \in KernelTasks \ {t} : ~Busy(k) /\ ~Busy(k)' /\ k \in Tasks
    BY DEF CanRun, Serial, OnlyTask, Busy, KernelTasks
  <1>2. \A s \in Tasks : TaskInv(s)'
    <2> SUFFICES ASSUME NEW s \in Tasks, s # t PROVE TaskInv(s)'
      OBVIOUS
    <2>1. TaskInv(s)
      BY DEF IInv
    <2> QED
      BY <2>1 DEF OnlyTask, TaskInv, Busy, Done
  <1>3. OneKernelTask'
    BY <1>1 DEF OneKernelTask
  <1>4. \A k \in KernelTasks : KernelInv(k)'
    BY <1>1 DEF KernelInv
  <1>5. \A u \in UserTasks : UserInv(u)'
    <2> SUFFICES ASSUME NEW u \in UserTasks, Busy(u)', \A k \in KernelTasks : ~Busy(k)'
                 PROVE  InSync(u)' \/ mode' # "config"
      BY DEF UserInv
    <2>1. CASE t \in KernelTasks
      BY <2>1
    <2>2. CASE t \in UserTasks
      BY <2>2 DEF Serial
    <2> QED
      BY <2>1, <2>2 DEF KernelTasks
  <1>6. BmcFlagSound'
    <2>1. \A k \in KernelTasks : BmcFlagOf(k)'
      BY <1>1 DEF BmcFlagOf, Busy
    <2> QED
      BY <2>1 DEF BmcFlagOf, BmcFlagSound
  <1> QED
    BY <1>2, <1>3, <1>4, <1>5, <1>6 DEF IInv

\* What a task that runs may rely on.
LEMMA BeforeStep ==
  ASSUME NEW t \in Tasks, Serial, IInv, CanRun(t), Busy(t)
  PROVE  /\ TypeOK /\ TaskInv(t)
         /\ InSync(t) \/ mode # "config"
         /\ t \in KernelTasks => InSync(t) /\ DoneInEffect(t)
  <1>1. t \in UserTasks => \A k \in KernelTasks : ~Busy(k)
    BY DEF CanRun, Serial, KernelTasks, Busy
  <1> QED
    BY <1>1 DEF IInv, KernelInv, UserInv, KernelTasks

LEMMA BeginStep ==
  ASSUME NEW t \in Tasks, Serial, IInv, Begin(t)
  PROVE  IInv'
  <1>0. PICK o \in OpsOf[t] :
          /\ op' = [op EXCEPT ![t] = o]
          /\ todo' = [todo EXCEPT ![t] = Program(o)]
          /\ reading' = [reading EXCEPT ![t] = Head(Program(o)).kind # "set"]
    BY DEF Begin
  <1>1. o \in OpRec /\ WellFormed(Program(o)) /\ Program(o) \in Seq(Access)
    BY OpsType DEF WellFormed
  <1>2. TypeOK
    BY DEF IInv
  <1>3. /\ op'[t] = o /\ todo'[t] = Program(o) /\ ph'[t] = "enter1"
        /\ reading'[t] = (Head(Program(o)).kind # "set")
    BY <1>0, <1>2 DEF Begin, TypeOK
  <1>4. TypeOK'
    BY <1>0, <1>1, <1>2 DEF TypeOK, Begin, chip, Phase
  <1>5. OnlyTask(t)
    BY <1>0, <1>2 DEF OnlyTask, Begin, TypeOK
  <1>6. TaskInv(t)'
    <2>1. Len(Program(o)) \in Nat /\ Program(o) # << >>
      BY <1>1 DEF WellFormed
    <2>2. (Done(t) = 0)'
      BY <1>3, <2>1 DEF Done
    <2>3. \A i \in 1 .. Len(Program(o)) : 0 + i = i
      BY <2>1
    <2>4. (Busy(t) =>
             /\ op[t] \in OpsOf[t]
             /\ Len(todo[t]) <= Len(Program(op[t]))
             /\ \A i \in 1 .. Len(todo[t]) : todo[t][i] = Program(op[t])[Done(t) + i])'
      BY <1>3, <2>1, <2>2, <2>3
    <2>5. (todo[t] # << >> =>
             /\ Head(todo[t]).kind = "set" => ~reading[t]
             /\ Head(todo[t]).kind = "get" => reading[t]
             /\ ph[t] \in {"enter1", "enter2"} /\ Head(todo[t]).kind = "rmw" => reading[t])'
      BY <1>3
    <2> QED
      BY <1>3, <2>1, <2>4, <2>5 DEF TaskInv
  <1>7. InSync(t)' /\ BmcFlagOf(t)'
    BY <1>3 DEF InSync, BmcFlagOf
  <1>8. DoneInEffect(t)'
    <2>1. Done(t)' = 0
      BY <1>1, <1>3 DEF Done
    <2> QED
      BY <2>1 DEF DoneInEffect
  <1>9. Busy(t)' /\ CanRun(t)
    BY <1>3 DEF Busy, Begin
  <1> QED
    BY <1>4, <1>5, <1>6, <1>7, <1>8, <1>9, OneTaskStep DEF KernelInv

LEMMA EnterStep ==
  ASSUME NEW t \in Tasks, Serial, IInv, enter_SIO_config(t)
  PROVE  IInv'
  <1>1. Busy(t) /\ CanRun(t) /\ ph[t] \in {"enter1", "enter2"}
    BY DEF enter_SIO_config, Busy
  <1>2. TypeOK /\ TaskInv(t) /\ (t \in KernelTasks => DoneInEffect(t))
    BY <1>1, BeforeStep
  <1>3. UNCHANGED <<op, todo, reading, got, ipmi, ldn, regs>>
    BY DEF enter_SIO_config, IndexOut
  <1>4. OnlyTask(t) /\ ph'[t] \in {"enter2", "sel"} /\ ph' \in [Tasks -> Phase]
        /\ (ph[t] = "enter1" <=> ph'[t] = "enter2")
    BY <1>1, <1>2, <1>3 DEF OnlyTask, enter_SIO_config, TypeOK, Phase
  <1>5. TypeOK'
    <2>1. mode' \in {"run", "half", "config"}
      BY <1>2 DEF TypeOK, enter_SIO_config, IndexOut
    <2>2. index' = \h87 \/ index' = index
      BY DEF enter_SIO_config, IndexOut
    <2>3. index \in 0 .. 255
      BY <1>2 DEF TypeOK
    <2>4. index' \in 0 .. 255
      BY <2>2, <2>3
    <2> QED
      BY <1>2, <1>3, <1>4, <2>1, <2>4 DEF TypeOK
  <1>6. TaskInv(t)'
    BY <1>1, <1>2, <1>3, <1>4 DEF TaskInv, Busy, Done
  <1>7. InSync(t) => InSync(t)'
    <2>1. mode' # "run"
      BY <1>2 DEF enter_SIO_config, IndexOut, TypeOK
    <2>2. ph[t] = "enter2" /\ InSync(t) => mode' = "config"
      BY <1>2 DEF enter_SIO_config, IndexOut, InSync, TypeOK
    <2>3. todo[t] # << >> /\ (Head(todo[t]).kind = "rmw" => reading[t])
      BY <1>1, <1>2 DEF TaskInv
    <2>4. ~(Head(todo'[t]).kind = "rmw" /\ ~reading'[t])
      BY <1>3, <2>3
    <2> QED
      BY <1>1, <1>4, <2>1, <2>2, <2>4 DEF InSync
  <1>8. InSync(t)' \/ mode' # "config"
    <2>1. CASE InSync(t)
      BY <1>7, <2>1
    <2>2. CASE ~InSync(t)
      <3>1. ph[t] = "enter2" /\ mode = "run"
        BY <1>1, <2>2 DEF InSync
      <3> QED
        BY <3>1 DEF enter_SIO_config, IndexOut
    <2> QED
      BY <2>1, <2>2
  <1>9. t \in KernelTasks => KernelInv(t)' /\ BmcFlagOf(t)'
    <2>1. DoneInEffect(t) => DoneInEffect(t)'
      BY <1>3 DEF DoneInEffect, Done, InEffect
    <2>2. t \in KernelTasks => InSync(t)
      BY <1>1, BeforeStep
    <2> QED
      BY <1>2, <1>4, <1>7, <2>1, <2>2 DEF KernelInv, BmcFlagOf
  <1> QED
    BY <1>1, <1>4, <1>5, <1>6, <1>8, <1>9, OneTaskStep DEF Busy

\* The middle of an access: the task stays at it.
Middle == {"sel", "ldn", "reg", "data"}

LEMMA SameAccess ==
  ASSUME NEW t \in Tasks, TypeOK, TaskInv(t), ph[t] \in Middle, ph'[t] \in Middle,
         UNCHANGED <<op, todo>>, reading'[t] = reading[t]
  PROVE  TaskInv(t)' /\ (UNCHANGED regs /\ DoneInEffect(t) => DoneInEffect(t)')
  BY DEF TaskInv, Busy, Done, Middle, DoneInEffect, InEffect

LEMMA SelectIndexStep ==
  ASSUME NEW t \in Tasks, Serial, IInv, SelectIndex(t)
  PROVE  IInv'
  <1>1. Busy(t) /\ CanRun(t) /\ ph[t] = "sel"
    BY DEF SelectIndex, Busy
  <1>2. /\ TypeOK /\ TaskInv(t) /\ (InSync(t) \/ mode # "config")
        /\ (t \in KernelTasks => InSync(t) /\ DoneInEffect(t))
    BY <1>1, BeforeStep
  <1>3. UNCHANGED <<op, todo, reading, got, ipmi, ldn, regs>>
    BY DEF SelectIndex, IndexOut
  <1>4. OnlyTask(t) /\ ph'[t] = "ldn" /\ ph' \in [Tasks -> Phase]
    BY <1>2, <1>3 DEF OnlyTask, SelectIndex, TypeOK, Phase
  <1>5. TypeOK'
    <2>1. mode' \in {"run", "half", "config"}
      BY <1>2 DEF TypeOK, SelectIndex, IndexOut
    <2>2. index' = \h07 \/ index' = index
      BY DEF SelectIndex, IndexOut
    <2>3. index \in 0 .. 255
      BY <1>2 DEF TypeOK
    <2>4. index' \in 0 .. 255
      BY <2>2, <2>3
    <2> QED
      BY <1>2, <1>3, <1>4, <2>1, <2>4 DEF TypeOK
  <1>6. TaskInv(t)' /\ (DoneInEffect(t) => DoneInEffect(t)')
    BY <1>1, <1>2, <1>3, <1>4, SameAccess DEF Middle
  <1>7. mode # "config" => mode' # "config"
    BY DEF SelectIndex, IndexOut
  <1>8. InSync(t) => InSync(t)'
    <2>1. mode = "config" => mode' = "config" /\ index' = \h07
      BY DEF SelectIndex, IndexOut
    <2> QED
      BY <1>1, <1>3, <1>4, <2>1 DEF InSync
  <1> QED
    BY <1>1, <1>2, <1>4, <1>5, <1>6, <1>7, <1>8, OneTaskStep DEF KernelInv, BmcFlagOf, Busy

LEMMA SelectDeviceStep ==
  ASSUME NEW t \in Tasks, Serial, IInv, SelectDevice(t)
  PROVE  IInv' /\ UNCHANGED regs
  <1>1. Busy(t) /\ CanRun(t) /\ ph[t] = "ldn"
    BY DEF SelectDevice, Busy
  <1>2. /\ TypeOK /\ TaskInv(t) /\ (InSync(t) \/ mode # "config")
        /\ (t \in KernelTasks => InSync(t) /\ DoneInEffect(t))
    BY <1>1, BeforeStep
  <1>3. UNCHANGED <<op, todo, reading, got, ipmi, mode, index>>
    BY DEF SelectDevice, DataOut
  <1>4. OnlyTask(t) /\ ph'[t] = "reg" /\ ph' \in [Tasks -> Phase]
    BY <1>2, <1>3 DEF OnlyTask, SelectDevice, TypeOK, Phase
  <1>5. /\ regs' = regs
        /\ InSync(t) => ldn' = Head(todo[t]).ldn
        /\ ldn' = ldn \/ ldn' = Head(todo[t]).ldn
    BY <1>1, <1>2 DEF SelectDevice, DataOut, InSync
  <1>6. TypeOK'
    <2>1. todo[t] # << >>
      BY <1>1, <1>2 DEF TaskInv
    <2>2. Head(todo[t]).ldn \in Byte
      BY <1>2, <2>1, CurrentAccess DEF Access
    <2>3. ldn' \in Byte
      BY <1>2, <1>5, <2>2 DEF TypeOK
    <2> QED
      BY <1>2, <1>3, <1>4, <1>5, <2>3 DEF TypeOK
  <1>7. TaskInv(t)' /\ (DoneInEffect(t) => DoneInEffect(t)')
    BY <1>1, <1>2, <1>3, <1>4, <1>5, SameAccess DEF Middle
  <1>8. InSync(t) => InSync(t)'
    BY <1>1, <1>3, <1>4, <1>5 DEF InSync
  <1>9. IInv'
    BY <1>1, <1>2, <1>3, <1>4, <1>6, <1>7, <1>8, OneTaskStep DEF KernelInv, BmcFlagOf, Busy
  <1> QED
    BY <1>5, <1>9

LEMMA SelectRegisterStep ==
  ASSUME NEW t \in Tasks, Serial, IInv, SelectRegister(t)
  PROVE  IInv'
  <1> DEFINE r == Head(todo[t]).reg
  <1>1. Busy(t) /\ CanRun(t) /\ ph[t] = "reg"
    BY DEF SelectRegister, Busy
  <1>2. /\ TypeOK /\ TaskInv(t) /\ (InSync(t) \/ mode # "config")
        /\ (t \in KernelTasks => InSync(t) /\ DoneInEffect(t))
    BY <1>1, BeforeStep
  <1>3. UNCHANGED <<op, todo, reading, got, ipmi, ldn, regs>>
    BY DEF SelectRegister, IndexOut
  <1>4. OnlyTask(t) /\ ph'[t] = "data" /\ ph' \in [Tasks -> Phase]
    BY <1>2, <1>3 DEF OnlyTask, SelectRegister, TypeOK, Phase
  <1>5. r \in 0 .. 255 /\ r \notin Special
    <2>1. todo[t] # << >>
      BY <1>1, <1>2 DEF TaskInv
    <2> QED
      BY <1>2, <2>1, CurrentAccess DEF Access
  <1>6. r # \h87 /\ r # \hAA
    BY <1>5 DEF Special
  <1>7. /\ mode # "config" => mode' = "run" /\ index' = index
        /\ mode = "config" => mode' = "config" /\ index' = r
    <2> HIDE DEF r
    <2>1. IndexOut(r)
      BY DEF SelectRegister, r
    <2> QED
      BY <1>6, <2>1 DEF IndexOut
  <1>8. TypeOK'
    <2>1. mode' \in {"run", "half", "config"}
      BY <1>2, <1>7 DEF TypeOK
    <2>2. index \in 0 .. 255
      BY <1>2 DEF TypeOK
    <2>3. index' \in 0 .. 255
      BY <1>5, <1>7, <2>2
    <2> QED
      BY <1>2, <1>3, <1>4, <2>1, <2>3 DEF TypeOK
  <1>9. TaskInv(t)' /\ (DoneInEffect(t) => DoneInEffect(t)')
    BY <1>1, <1>2, <1>3, <1>4, SameAccess DEF Middle
  <1>10. InSync(t) => InSync(t)'
    BY <1>1, <1>3, <1>4, <1>7 DEF InSync
  <1> QED
    BY <1>1, <1>2, <1>4, <1>7, <1>8, <1>9, <1>10, OneTaskStep DEF KernelInv, BmcFlagOf, Busy

\* Going on to the next access, or out.
LEMMA NextAccessFacts ==
  ASSUME NEW t \in Tasks, TypeOK, TaskInv(t), ph[t] = "data", NextAccess(t)
  PROVE  /\ op' \in [Tasks -> OpRec \cup {NoOp}] /\ ph' \in [Tasks -> Phase]
         /\ todo' \in [Tasks -> Seq(Access)]
         /\ reading' \in [Tasks -> BOOLEAN] /\ got' \in [Tasks -> Byte]
         /\ OnlyTask(t) /\ TaskInv(t)'
         /\ ph'[t] \in {"idle", "exit", "sel", "reg"}
         /\ ph'[t] = "idle" => ~Exits(op[t])
         /\ Busy(t)' => op'[t] = op[t] /\ Done(t)' = Done(t) + 1
         /\ ph'[t] = "exit" <=> (Tail(todo[t]) = << >> /\ Exits(op[t]))
         /\ ph'[t] = "reg" => Head(todo'[t]).ldn = Head(todo[t]).ldn
         /\ ph'[t] \in {"sel", "reg"} /\ Head(todo'[t]).kind = "rmw" => reading'[t]
  <1> DEFINE p == Program(op[t])
             n == Done(t)
             rest == Tail(todo[t])
  <1>1. todo[t] # << >>
    BY DEF TaskInv
  <1>2. /\ Busy(t) /\ op[t] \in OpsOf[t] /\ WellFormed(p)
        /\ Len(p) \in Nat /\ Len(todo[t]) \in Nat /\ n \in 0 .. (Len(p) - 1)
    BY <1>1, CurrentAccess
  <1>3. todo[t] \in Seq(Access) /\ p \in Seq(Access)
    BY <1>2 DEF TypeOK, WellFormed
  <1>4. /\ rest \in Seq(Access) /\ Len(rest) = Len(todo[t]) - 1
        /\ \A i \in 1 .. Len(rest) : rest[i] = todo[t][i + 1]
    BY <1>1, <1>3
  <1>5. \A i \in 1 .. Len(todo[t]) : todo[t][i] = p[n + i]
    BY <1>2 DEF TaskInv
  <1>6. n = Len(p) - Len(todo[t])
    BY DEF Done
  <1>0. Len(p) - Len(rest) = n + 1
    <2> HIDE DEF p, n, rest
    <2> QED
      BY <1>2, <1>4, <1>6
  <1>7. \A i \in 1 .. Len(rest) : rest[i] = p[n + 1 + i]
    BY <1>2, <1>4, <1>5
  <1>8. rest # << >> => Len(rest) \in Nat /\ Len(rest) >= 1 /\ Head(rest) = rest[1]
    BY <1>4
  <1>9. rest # << >> /\ ~Head(rest).reselect => Head(rest).ldn = Head(todo[t]).ldn
    <2> SUFFICES ASSUME rest # << >>, ~Head(rest).reselect
                 PROVE  Head(rest).ldn = Head(todo[t]).ldn
      OBVIOUS
    <2>1. Head(rest) = p[n + 2]
      BY <1>2, <1>7, <1>8
    <2>2. Head(todo[t]) = p[n + 1]
      BY <1>1, CurrentAccess
    <2>3. n + 2 \in 1 .. Len(p) /\ n + 2 # 1 /\ (n + 2) - 1 = n + 1
      BY <1>2, <1>4, <1>6, <1>8
    <2> QED
      BY <1>2, <2>1, <2>2, <2>3 DEF WellFormed
  <1>10. /\ todo' = [todo EXCEPT ![t] = rest] /\ todo'[t] = rest
         /\ got' = [got EXCEPT ![t] = {}]
    BY DEF NextAccess, TypeOK
  <1>11. CASE rest = << >>
    <2>1. /\ ph' = [ph EXCEPT ![t] = IF Exits(op[t]) THEN "exit" ELSE "idle"]
          /\ op' = IF Exits(op[t]) THEN op ELSE [op EXCEPT ![t] = NoOp]
          /\ reading' = [reading EXCEPT ![t] = FALSE]
      BY <1>11 DEF NextAccess
    <2>2. /\ op' \in [Tasks -> OpRec \cup {NoOp}] /\ ph' \in [Tasks -> Phase]
          /\ todo' \in [Tasks -> Seq(Access)]
          /\ reading' \in [Tasks -> BOOLEAN] /\ got' \in [Tasks -> Byte]
      BY <1>4, <1>10, <2>1 DEF TypeOK, Phase, Byte
    <2>3. OnlyTask(t)
      BY <1>10, <2>1 DEF OnlyTask, TypeOK
    <2>4. /\ ph'[t] = IF Exits(op[t]) THEN "exit" ELSE "idle"
          /\ Exits(op[t]) => op' = op
      BY <2>1 DEF TypeOK
    <2>5. Len(rest) = 0
      <3> HIDE DEF rest
      <3> QED
        BY <1>11
    <2>6. Exits(op[t]) => Done(t)' = n + 1
      <3>1. Exits(op[t]) => Done(t)' = Len(p) - Len(rest)
        BY <1>10, <2>4 DEF Done
      <3> QED
        BY <1>0, <3>1
    <2>7. TaskInv(t)'
      <3>1. todo'[t] = << >> /\ Len(todo'[t]) = 0 /\ ph'[t] \in {"idle", "exit"}
        BY <1>10, <1>11, <2>4, <2>5
      <3>2. ph'[t] # "idle" => op'[t] \in OpsOf[t] /\ Len(Program(op'[t])) \in Nat
        BY <1>2, <2>4
      <3> QED
        BY <3>1, <3>2 DEF TaskInv, Busy
    <2> QED
      BY <1>11, <2>2, <2>3, <2>4, <2>6, <2>7 DEF Busy
  <1>12. CASE rest # << >>
    <2>1. /\ op' = op
          /\ ph' = [ph EXCEPT ![t] = IF Head(rest).reselect THEN "sel" ELSE "reg"]
          /\ reading' = [reading EXCEPT ![t] = Head(rest).kind # "set"]
      BY <1>12 DEF NextAccess
    <2>2. /\ op' \in [Tasks -> OpRec \cup {NoOp}] /\ ph' \in [Tasks -> Phase]
          /\ todo' \in [Tasks -> Seq(Access)]
          /\ reading' \in [Tasks -> BOOLEAN] /\ got' \in [Tasks -> Byte]
      BY <1>4, <1>10, <2>1 DEF TypeOK, Phase, Byte
    <2>3. OnlyTask(t)
      BY <1>10, <2>1 DEF OnlyTask, TypeOK
    <2>4. /\ ph'[t] = IF Head(rest).reselect THEN "sel" ELSE "reg"
          /\ reading'[t] <=> Head(rest).kind # "set"
      BY <2>1 DEF TypeOK
    <2>5. Done(t)' = n + 1
      <3>1. Done(t)' = Len(p) - Len(rest)
        BY <1>10, <2>1 DEF Done
      <3> QED
        BY <1>0, <3>1
    <2>6. (Busy(t) =>
             /\ op[t] \in OpsOf[t]
             /\ Len(todo[t]) <= Len(Program(op[t]))
             /\ \A i \in 1 .. Len(todo[t]) : todo[t][i] = Program(op[t])[Done(t) + i])'
      <3>1. op'[t] = op[t] /\ todo'[t] = rest
        BY <1>10, <2>1
      <3>2. Len(rest) <= Len(p)
        <4> HIDE DEF p, n, rest
        <4> QED
          BY <1>2, <1>4, <1>6
      <3> QED
        BY <1>2, <1>7, <2>5, <3>1, <3>2
    <2>7. (todo[t] # << >> =>
             /\ Head(todo[t]).kind = "set" => ~reading[t]
             /\ Head(todo[t]).kind = "get" => reading[t]
             /\ ph[t] \in {"enter1", "enter2"} /\ Head(todo[t]).kind = "rmw" => reading[t])'
      BY <1>10, <2>4
    <2>8. TaskInv(t)'
      BY <1>10, <1>12, <2>4, <2>6, <2>7 DEF TaskInv
    <2> QED
      BY <1>9, <1>10, <1>12, <2>1, <2>2, <2>3, <2>4, <2>5, <2>8
  <1> QED
    BY <1>11, <1>12

LEMMA ReadBackStep ==
  ASSUME NEW t \in Tasks, Serial, IInv, ReadBack(t)
  PROVE  IInv'
  <1> DEFINE a == Head(todo[t])
  <1>1. Busy(t) /\ CanRun(t) /\ ph[t] = "data" /\ a.kind = "rmw" /\ reading[t]
    BY DEF ReadBack, Busy
  <1>2. /\ TypeOK /\ TaskInv(t) /\ (InSync(t) \/ mode # "config")
        /\ (t \in KernelTasks => InSync(t) /\ DoneInEffect(t))
    BY <1>1, BeforeStep
  <1>3. UNCHANGED <<mode, index, ldn, regs, op, todo, ipmi>>
    BY DEF ReadBack, chip
  <1>4. todo[t] # << >>
    BY <1>1, <1>2 DEF TaskInv
  <1>5. CellOf(a) \in Cells /\ a.reg \notin Special
    BY <1>2, <1>4, CurrentAccess
  <1>6. InSync(t) => DataIn = regs[CellOf(a)]
    BY <1>1, <1>5 DEF InSync, DataIn, CellOf, Special
  <1>7. DataIn \in Byte
    BY <1>2 DEF DataIn, TypeOK, Byte
  <1>8. /\ ph' \in [Tasks -> Phase] /\ reading' \in [Tasks -> BOOLEAN]
        /\ got' \in [Tasks -> Byte]
        /\ ph'[t] = "sel" /\ reading'[t] = FALSE /\ got'[t] = DataIn
    BY <1>2, <1>7 DEF ReadBack, TypeOK, Phase
  <1>9. OnlyTask(t)
    BY <1>2, <1>3 DEF OnlyTask, ReadBack, TypeOK
  <1>10. TypeOK'
    BY <1>2, <1>3, <1>8 DEF TypeOK
  <1>11. TaskInv(t)'
    BY <1>1, <1>2, <1>3, <1>4, <1>8 DEF TaskInv, Busy, Done
  <1>12. DoneInEffect(t) => DoneInEffect(t)'
    BY <1>3 DEF DoneInEffect, Done, InEffect
  <1>13. InSync(t) => InSync(t)'
    <2>1. InSync(t) => mode' = "config" /\ got'[t] = regs'[CellOf(Head(todo'[t]))]
      BY <1>1, <1>3, <1>6, <1>8 DEF InSync
    <2> QED
      BY <1>8, <2>1 DEF InSync
  <1> QED
    BY <1>1, <1>2, <1>3, <1>8, <1>9, <1>10, <1>11, <1>12, <1>13, OneTaskStep
       DEF KernelInv, BmcFlagOf, Busy

\* A kernel task comes to the end of its accesses inside configuration mode.
LEMMA KernelExits ==
  ASSUME NEW t \in KernelTasks, op[t] \in OpsOf[t]
  PROVE  Exits(op[t])
  BY TaskAssumption DEF KernelTasks

\* One more access in effect: the one just made.
LEMMA OneMoreDone ==
  ASSUME NEW t \in Tasks, TypeOK, TaskInv(t), ph[t] = "data",
         NextAccess(t), Busy(t)', DoneInEffect(t),
         Writes(Head(todo[t])) =>
           regs' = [regs EXCEPT ![CellOf(Head(todo[t]))] = Outcome(Head(todo[t]), @)],
         ~Writes(Head(todo[t])) => regs' = regs
  PROVE  DoneInEffect(t)'
  <1> DEFINE p == Program(op[t])
             n == Done(t)
             a == Head(todo[t])
  <1>1. todo[t] # << >>
    BY DEF TaskInv
  <1>2. /\ WellFormed(p) /\ Len(p) \in Nat /\ n \in 0 .. (Len(p) - 1)
        /\ a = p[n + 1] /\ CellOf(a) \in Cells
    BY <1>1, CurrentAccess
  <1>3. op'[t] = op[t] /\ Done(t)' = n + 1
    BY NextAccessFacts
  <1> SUFFICES ASSUME NEW i \in 1 .. (n + 1), Writes(p[i])
               PROVE  Outcome(p[i], regs'[CellOf(p[i])]) = regs'[CellOf(p[i])]
    BY <1>3 DEF DoneInEffect, InEffect
  <1>4. regs \in [Cells -> Byte]
    BY DEF TypeOK
  <1>5. CASE i = n + 1
    <2>1. p[i] = a
      BY <1>2, <1>5
    <2>2. regs'[CellOf(a)] = Outcome(a, regs[CellOf(a)])
      <3>1. regs' = [regs EXCEPT ![CellOf(a)] = Outcome(a, @)]
        BY <2>1
      <3> HIDE DEF a
      <3> QED
        BY <1>2, <1>4, <3>1
    <2>3. \A v : Outcome(a, Outcome(a, v)) = Outcome(a, v)
      BY DEF Outcome
    <2> QED
      BY <2>1, <2>2, <2>3
  <1>6. CASE i # n + 1
    <2>1. i \in 1 .. n /\ i \in 1 .. Len(p) /\ n + 1 \in 1 .. Len(p)
      BY <1>2, <1>6
    <2>2. Outcome(p[i], regs[CellOf(p[i])]) = regs[CellOf(p[i])]
      BY <2>1 DEF DoneInEffect, InEffect
    <2>3. CellOf(p[i]) # CellOf(a)
      BY <1>2, <1>6, <2>1 DEF WellFormed, CellOf
    <2>4. regs'[CellOf(p[i])] = regs[CellOf(p[i])]
      <3> DEFINE c == CellOf(p[i])
                 d == CellOf(a)
                 v == Outcome(a, regs[d])
      <3>1. c \in Cells
        BY <1>1, <2>1, CurrentAccess, CellsOfPrograms
      <3>2. regs' = [regs EXCEPT ![d] = v] \/ regs' = regs
        OBVIOUS
      <3> HIDE DEF c, d, v
      <3>3. regs'[c] = regs[c]
        BY <1>4, <2>3, <3>1, <3>2 DEF c, d
      <3> QED
        BY <3>3 DEF c
    <2> QED
      BY <2>2, <2>4
  <1> QED
    BY <1>5, <1>6

LEMMA ReadStrapStep ==
  ASSUME NEW t \in Tasks, Serial, IInv, ReadStrap(t)
  PROVE  IInv'
  <1> DEFINE a == Head(todo[t])
  <1>1. Busy(t) /\ CanRun(t) /\ ph[t] = "data" /\ a.kind = "get" /\ NextAccess(t)
    BY DEF ReadStrap, Busy
  <1>2. /\ TypeOK /\ TaskInv(t) /\ (InSync(t) \/ mode # "config")
        /\ (t \in KernelTasks => InSync(t) /\ DoneInEffect(t))
    BY <1>1, BeforeStep
  <1>3. UNCHANGED <<mode, index, ldn, regs>> /\ ipmi' = (4 \notin DataIn)
    BY DEF ReadStrap, chip
  <1>4. todo[t] # << >>
    BY <1>1, <1>2 DEF TaskInv
  <1>5. CellOf(a) \in Cells /\ a.reg \notin Special /\ op[t] \in OpsOf[t]
    BY <1>2, <1>4, CurrentAccess
  <1>6. InSync(t) => DataIn = regs[CellOf(a)]
    BY <1>1, <1>5 DEF InSync, DataIn, CellOf, Special
  <1>7. TypeOK'
    <2>1. ipmi' \in BOOLEAN
      BY <1>3
    <2> QED
      BY <1>1, <1>2, <1>3, <2>1, NextAccessFacts DEF TypeOK
  <1>8. OnlyTask(t) /\ TaskInv(t)'
    BY <1>1, <1>2, NextAccessFacts
  <1>9. InSync(t) => InSync(t)'
    <2>1. /\ ph'[t] \in {"idle", "exit", "sel", "reg"}
          /\ ph'[t] = "reg" => Head(todo'[t]).ldn = Head(todo[t]).ldn
          /\ ph'[t] \in {"sel", "reg"} /\ Head(todo'[t]).kind = "rmw" => reading'[t]
      BY <1>1, <1>2, NextAccessFacts
    <2> QED
      BY <1>1, <1>3, <2>1 DEF InSync
  <1>10. ASSUME t \in KernelTasks PROVE KernelInv(t)' /\ BmcFlagOf(t)' /\ Busy(t)'
    <2>1. Exits(op[t])
      BY <1>5, <1>10, KernelExits
    <2>2. Busy(t)' /\ op'[t] = op[t] /\ (ph'[t] = "exit" => Tail(todo[t]) = << >>)
      BY <1>1, <1>2, <2>1, NextAccessFacts DEF Busy
    <2>3. DoneInEffect(t)'
      BY <1>1, <1>2, <1>3, <1>10, <2>2, OneMoreDone DEF Writes
    <2>4. BmcFlagOf(t)'
      <3> SUFFICES ASSUME op[t].name = "detect"
                   PROVE  ipmi' = (4 \notin regs[<<BitsOf(\h07), \hE1>>])
        BY <1>3, <2>2 DEF BmcFlagOf
      <3>1. Program(op[t]) = << read_SIO_reg(\h07, \hE1) >>
        BY DEF Program, FixedProgram, Detect_IPMI
      <3>2. Done(t) \in 0 .. (Len(Program(op[t])) - 1) /\ a = Program(op[t])[Done(t) + 1]
        BY <1>2, <1>4, CurrentAccess
      <3>3. a = read_SIO_reg(\h07, \hE1)
        BY <3>1, <3>2
      <3>4. CellOf(a) = <<BitsOf(\h07), \hE1>>
        BY <3>3 DEF CellOf, read_SIO_reg
      <3> QED
        BY <1>2, <1>3, <1>6, <1>10, <3>4
    <2> QED
      BY <1>2, <1>9, <1>10, <2>2, <2>3, <2>4 DEF KernelInv
  <1> QED
    BY <1>1, <1>2, <1>3, <1>7, <1>8, <1>9, <1>10, OneTaskStep

LEMMA WriteValueStep ==
  ASSUME NEW t \in Tasks, Serial, IInv, WriteValue(t)
  PROVE  /\ IInv'
         /\ \/ regs' = regs /\ t \in UserTasks
            \/ /\ CellOf(Head(todo[t])) \in Cells /\ Writes(Head(todo[t]))
               /\ regs' = [regs EXCEPT ![CellOf(Head(todo[t]))] = Outcome(Head(todo[t]), @)]
  <1> DEFINE a == Head(todo[t])
  <1>1. Busy(t) /\ CanRun(t) /\ ph[t] = "data" /\ ~reading[t] /\ NextAccess(t)
    BY DEF WriteValue, Busy
  <1>2. /\ TypeOK /\ TaskInv(t) /\ (InSync(t) \/ mode # "config")
        /\ (t \in KernelTasks => InSync(t) /\ DoneInEffect(t))
    BY <1>1, BeforeStep
  <1>3. UNCHANGED <<mode, index, ipmi>> /\ DataOut(Outcome(a, got[t]))
    BY DEF WriteValue, DataOut
  <1>4. todo[t] # << >>
    BY <1>1, <1>2 DEF TaskInv
  <1>5. /\ CellOf(a) \in Cells /\ a.reg \notin Special /\ op[t] \in OpsOf[t]
        /\ a \in Access
    BY <1>2, <1>4, CurrentAccess
  <1>6. Writes(a) /\ a.kind \in {"set", "rmw"}
    BY <1>1, <1>2, <1>4, <1>5 DEF TaskInv, Writes, Access
  <1>7. Outcome(a, got[t]) \in Byte
    BY <1>2, <1>5 DEF Outcome, TypeOK, Access, Byte
  <1>8. /\ InSync(t) => regs' = [regs EXCEPT ![CellOf(a)] = Outcome(a, got[t])] /\ ldn' = ldn
        /\ mode # "config" => regs' = regs /\ ldn' = ldn
    BY <1>1, <1>3, <1>5 DEF DataOut, InSync, CellOf, Special
  <1>9. InSync(t) => Outcome(a, got[t]) = Outcome(a, regs[CellOf(a)])
    <2>1. CASE a.kind = "rmw"
      BY <1>1, <2>1 DEF InSync
    <2>2. CASE a.kind = "set"
      <3>1. a.keep = {}
        BY <1>2, <1>4, <2>2, CurrentAccess
      <3> QED
        BY <3>1 DEF Outcome
    <2> QED
      BY <1>6, <2>1, <2>2
  <1>10. InSync(t) => regs' = [regs EXCEPT ![CellOf(a)] = Outcome(a, @)]
    BY <1>8, <1>9
  <1>11. TypeOK'
    <2>1. regs' \in [Cells -> Byte] /\ ldn' \in Byte
      BY <1>2, <1>5, <1>7, <1>8 DEF TypeOK
    <2> QED
      BY <1>1, <1>2, <1>3, <2>1, NextAccessFacts DEF TypeOK
  <1>12. OnlyTask(t) /\ TaskInv(t)'
    BY <1>1, <1>2, NextAccessFacts
  <1>13. InSync(t) => InSync(t)'
    <2>1. /\ ph'[t] \in {"idle", "exit", "sel", "reg"}
          /\ ph'[t] = "reg" => Head(todo'[t]).ldn = Head(todo[t]).ldn
          /\ ph'[t] \in {"sel", "reg"} /\ Head(todo'[t]).kind = "rmw" => reading'[t]
      BY <1>1, <1>2, NextAccessFacts
    <2> QED
      BY <1>1, <1>3, <1>8, <2>1 DEF InSync
  <1>14. ASSUME t \in KernelTasks PROVE KernelInv(t)' /\ BmcFlagOf(t)' /\ Busy(t)'
    <2>1. Exits(op[t])
      BY <1>5, <1>14, KernelExits
    <2>2. Busy(t)' /\ op'[t] = op[t]
      BY <1>1, <1>2, <2>1, NextAccessFacts DEF Busy
    <2>3. DoneInEffect(t)'
      BY <1>1, <1>2, <1>6, <1>10, <1>14, <2>2, OneMoreDone
    <2>4. op[t].name # "detect"
      <3> SUFFICES ASSUME op[t].name = "detect" PROVE FALSE
        OBVIOUS
      <3>1. Program(op[t]) = << read_SIO_reg(\h07, \hE1) >>
        BY DEF Program, FixedProgram, Detect_IPMI
      <3>2. Done(t) \in 0 .. (Len(Program(op[t])) - 1) /\ a = Program(op[t])[Done(t) + 1]
        BY <1>2, <1>4, CurrentAccess
      <3>3. a = read_SIO_reg(\h07, \hE1)
        BY <3>1, <3>2
      <3> QED
        BY <1>6, <3>3 DEF read_SIO_reg
    <2> QED
      BY <1>2, <1>13, <1>14, <2>2, <2>3, <2>4 DEF KernelInv, BmcFlagOf
  <1>15. IInv'
    BY <1>1, <1>2, <1>3, <1>11, <1>12, <1>13, <1>14, OneTaskStep
  <1>16. t \notin UserTasks => InSync(t)
    BY <1>2 DEF KernelTasks
  <1> QED
    BY <1>2, <1>5, <1>6, <1>8, <1>10, <1>15, <1>16

LEMMA ExitStep ==
  ASSUME NEW t \in Tasks, Serial, IInv, exit_SIO_config(t)
  PROVE  IInv'
  <1>1. Busy(t) /\ CanRun(t) /\ ph[t] = "exit"
    BY DEF exit_SIO_config, Busy
  <1>2. TypeOK /\ TaskInv(t)
    BY <1>1, BeforeStep
  <1>3. UNCHANGED <<todo, reading, got, ipmi, ldn, regs>>
    BY DEF exit_SIO_config, IndexOut
  <1>4. /\ OnlyTask(t) /\ ph'[t] = "idle" /\ ph' \in [Tasks -> Phase]
        /\ op' \in [Tasks -> OpRec \cup {NoOp}]
    BY <1>2, <1>3 DEF OnlyTask, exit_SIO_config, TypeOK, Phase
  <1>5. mode' = "run" /\ index' = index
    BY <1>2 DEF exit_SIO_config, IndexOut, TypeOK
  <1>6. TypeOK'
    BY <1>2, <1>3, <1>4, <1>5 DEF TypeOK
  <1>7. TaskInv(t)'
    BY <1>1, <1>2, <1>3, <1>4 DEF TaskInv, Busy
  <1> QED
    BY <1>1, <1>4, <1>5, <1>6, <1>7, OneTaskStep DEF KernelInv, BmcFlagOf, Busy

LEMMA KillStep ==
  ASSUME NEW t \in Tasks, Serial, IInv, Kill(t)
  PROVE  IInv'
  <1>1. Busy(t) /\ CanRun(t) /\ t \in UserTasks
    BY DEF Kill, Busy
  <1>2. TypeOK /\ TaskInv(t)
    BY <1>1, BeforeStep
  <1>3. UNCHANGED <<mode, index, ldn, regs, ipmi>>
    BY DEF Kill, chip
  <1>4. /\ OnlyTask(t) /\ ph'[t] = "idle" /\ todo'[t] = << >>
        /\ ph' \in [Tasks -> Phase] /\ op' \in [Tasks -> OpRec \cup {NoOp}]
        /\ todo' \in [Tasks -> Seq(Access)] /\ reading' \in [Tasks -> BOOLEAN]
        /\ got' \in [Tasks -> Byte]
    BY <1>2 DEF OnlyTask, Kill, TypeOK, Phase, Byte
  <1>5. TypeOK'
    BY <1>2, <1>3, <1>4 DEF TypeOK
  <1>6. TaskInv(t)'
    BY <1>4 DEF TaskInv, Busy
  <1> QED
    BY <1>1, <1>4, <1>5, <1>6, OneTaskStep DEF Busy, KernelTasks

-----------------------------------------------------------------------------
(* The invariant. *)

LEMMA InitInv == Init => IInv
  <1> SUFFICES ASSUME Init PROVE IInv
    OBVIOUS
  <1>1. \A t \in Tasks : ph[t] = "idle" /\ todo[t] = << >>
    BY DEF Init
  <1>2. TypeOK
    <2>1. regs \in [Cells -> Byte]
      BY PowerOnAssumption DEF Init
    <2>2. index \in 0 .. 255
      <3>1. index = 0
        BY DEF Init
      <3> QED
        BY <3>1
    <2>3. mode \in {"run", "half", "config"} /\ ldn \in Byte /\ ipmi \in BOOLEAN
      BY DEF Init, Byte
    <2>4. op \in [Tasks -> OpRec \cup {NoOp}]
      BY DEF Init
    <2>5. ph \in [Tasks -> Phase]
      BY DEF Init, Phase
    <2>6. todo \in [Tasks -> Seq(Access)]
      BY DEF Init
    <2>7. reading \in [Tasks -> BOOLEAN]
      BY Zenon DEF Init
    <2>8. got \in [Tasks -> Byte]
      BY DEF Init, Byte
    <2> QED
      BY <2>1, <2>2, <2>3, <2>4, <2>5, <2>6, <2>7, <2>8 DEF TypeOK
  <1>3. \A t \in Tasks : TaskInv(t)
    BY <1>1 DEF TaskInv, Busy
  <1> QED
    BY <1>1, <1>2, <1>3, TaskAssumption
       DEF IInv, OneKernelTask, KernelInv, UserInv, BmcFlagSound, Busy, KernelTasks

LEMMA StutterInv == IInv /\ UNCHANGED vars => IInv'
  <1> SUFFICES ASSUME IInv, UNCHANGED vars PROVE IInv'
    OBVIOUS
  <1>1. UNCHANGED <<mode, index, ldn, regs, op, ph, todo, reading, got, ipmi>>
    BY DEF vars
  <1>2. TypeOK' /\ OneKernelTask' /\ BmcFlagSound'
    BY <1>1 DEF IInv, TypeOK, OneKernelTask, BmcFlagSound, Busy
  <1>3. \A t \in Tasks : TaskInv(t)'
    BY <1>1 DEF IInv, TaskInv, Busy, Done
  <1>4. \A k \in KernelTasks : KernelInv(k)'
    BY <1>1 DEF IInv, KernelInv, InSync, DoneInEffect, InEffect, Busy, Done
  <1>5. \A u \in UserTasks : UserInv(u)'
    BY <1>1 DEF IInv, UserInv, InSync, Busy
  <1> QED
    BY <1>2, <1>3, <1>4, <1>5 DEF IInv

LEMMA StepInv == Serial /\ IInv /\ [Next]_vars => IInv'
  <1> SUFFICES ASSUME Serial, IInv, [Next]_vars PROVE IInv'
    OBVIOUS
  <1>1. CASE UNCHANGED vars
    BY <1>1, StutterInv
  <1>2. ASSUME NEW t \in Tasks, Begin(t) \/ Step(t) \/ Kill(t) PROVE IInv'
    <2>1. CASE Begin(t)
      BY <2>1, BeginStep
    <2>2. CASE enter_SIO_config(t)
      BY <2>2, EnterStep
    <2>3. CASE SelectIndex(t)
      BY <2>3, SelectIndexStep
    <2>4. CASE SelectDevice(t)
      BY <2>4, SelectDeviceStep
    <2>5. CASE SelectRegister(t)
      BY <2>5, SelectRegisterStep
    <2>6. CASE ReadBack(t)
      BY <2>6, ReadBackStep
    <2>7. CASE ReadStrap(t)
      BY <2>7, ReadStrapStep
    <2>8. CASE WriteValue(t)
      BY <2>8, WriteValueStep
    <2>9. CASE exit_SIO_config(t)
      BY <2>9, ExitStep
    <2>10. CASE Kill(t)
      BY <2>10, KillStep
    <2> QED
      BY <1>2, <2>1, <2>2, <2>3, <2>4, <2>5, <2>6, <2>7, <2>8, <2>9, <2>10 DEF Step
  <1> QED
    BY <1>1, <1>2 DEF Next

\* The inductive invariant holds at every moment, however many drivers there
\* are and whatever their registers held at power-on.
THEOREM Invariance == Serial => (Spec => []IInv)
  <1> SUFFICES ASSUME Serial PROVE Spec => []IInv
    OBVIOUS
  <1>1. Init => IInv
    BY InitInv
  <1>2. IInv /\ [Next]_vars => IInv'
    BY StepInv
  <1> QED
    BY <1>1, <1>2, PTL DEF Spec

\* Every variable of the chip and the tasks keeps its type.
THEOREM TypeCorrect == Serial => (Spec => []TypeOK)
  <1>1. IInv => TypeOK
    BY DEF IInv
  <1> QED
    BY <1>1, Invariance, PTL

LEMMA InEffectAtExit == IInv => OperationInEffect
  <1> SUFFICES ASSUME IInv PROVE OperationInEffect
    OBVIOUS
  <1> SUFFICES ASSUME NEW t \in KernelTasks, ph[t] = "exit",
                      NEW a \in AccessesOf(op[t]), Writes(a)
               PROVE  InEffect(a)
    BY Zenon DEF OperationInEffect
  <1>1. Busy(t) /\ todo[t] = << >> /\ t \in Tasks
    BY DEF IInv, TaskInv, Busy, KernelTasks
  <1>2. DoneInEffect(t) /\ op[t] \in OpsOf[t]
    BY <1>1 DEF IInv, KernelInv, TaskInv
  <1>3. PICK i \in 1 .. Len(Program(op[t])) : a = Program(op[t])[i]
    BY DEF AccessesOf
  <1>4. Len(Program(op[t])) \in Nat
    <2>1. Program(op[t]) \in Seq(Access)
      BY <1>1, <1>2, OpsType DEF WellFormed
    <2> QED
      BY <2>1
  <1>5. Done(t) = Len(Program(op[t]))
    BY <1>1, <1>4 DEF Done
  <1> QED
    BY <1>2, <1>3, <1>5 DEF DoneInEffect

\* When a driver operation is about to leave configuration mode, everything
\* it had to write is in the registers, even if a program with direct port
\* access runs between its instructions.
THEOREM InEffectCorrect == Serial => (Spec => []OperationInEffect)
  BY InEffectAtExit, Invariance, PTL

\* The IpmiPresent flag agrees with the strap whatever the LED driver writes.
THEOREM BmcFlagCorrect == Serial => (Spec => []BmcFlagSound)
  <1>1. IInv => BmcFlagSound
    BY DEF IInv
  <1> QED
    BY <1>1, Invariance, PTL

-----------------------------------------------------------------------------
(* What the registers see of a step. *)

\* Only a write in its place changes a register, and it is the atomic access.
WriteInPlace(t) ==
  /\ ph[t] = "data" /\ todo[t] # << >>
  /\ CellOf(Head(todo[t])) \in Cells /\ Writes(Head(todo[t]))
  /\ regs' = [regs EXCEPT ![CellOf(Head(todo[t]))] = Outcome(Head(todo[t]), @)]

LEMMA WriteValueEffect ==
  ASSUME NEW t \in Tasks, Serial, IInv, WriteValue(t)
  PROVE  /\ (regs' = regs /\ t \in UserTasks) \/ WriteInPlace(t)
         /\ todo[t] # << >> /\ todo' = [todo EXCEPT ![t] = Tail(@)]
  <1>1. TaskInv(t) /\ ph[t] = "data"
    BY DEF IInv, WriteValue
  <1>2. todo[t] # << >>
    BY <1>1 DEF TaskInv
  <1>3. todo' = [todo EXCEPT ![t] = Tail(@)]
    BY DEF WriteValue, NextAccess
  <1> QED
    BY <1>1, <1>2, <1>3, WriteValueStep DEF WriteInPlace

\* Every other step leaves the registers alone.
LEMMA OthersLeaveRegs ==
  ASSUME NEW t \in Tasks, Serial, IInv, Begin(t) \/ Step(t) \/ Kill(t), ~WriteValue(t)
  PROVE  regs' = regs
  <1>1. CASE Begin(t) \/ Kill(t)
    BY <1>1 DEF Begin, Kill, chip
  <1>2. CASE enter_SIO_config(t)
    BY <1>2 DEF enter_SIO_config, IndexOut
  <1>3. CASE SelectIndex(t)
    BY <1>3 DEF SelectIndex, IndexOut
  <1>4. CASE SelectDevice(t)
    BY <1>4, SelectDeviceStep
  <1>5. CASE SelectRegister(t)
    BY <1>5 DEF SelectRegister, IndexOut
  <1>6. CASE ReadBack(t) \/ ReadStrap(t)
    BY <1>6 DEF ReadBack, ReadStrap, chip
  <1>7. CASE exit_SIO_config(t)
    BY <1>7 DEF exit_SIO_config, IndexOut
  <1> QED
    BY <1>1, <1>2, <1>3, <1>4, <1>5, <1>6, <1>7 DEF Step

\* No write lands on a register another task selected, and no
\* read-modify-write brings back bits that were changed since its read.
THEOREM WritesCorrect == Serial => (Spec => WriteHitsTarget)
  <1> SUFFICES ASSUME Serial PROVE Spec => WriteHitsTarget
    OBVIOUS
  <1> DEFINE Good ==
        regs' # regs =>
          \A c \in Cells :
            regs'[c] # regs[c] =>
              \E t \in Tasks :
                /\ ph[t] = "data"
                /\ CellOf(Head(todo[t])) = c
                /\ regs'[c] = Outcome(Head(todo[t]), regs[c])
  <1>1. IInv /\ [Next]_vars => [Good]_vars
    <2> SUFFICES ASSUME IInv, Next PROVE Good
      OBVIOUS
    <2> SUFFICES ASSUME NEW c \in Cells, regs'[c] # regs[c]
                 PROVE  \E t \in Tasks :
                          /\ ph[t] = "data"
                          /\ CellOf(Head(todo[t])) = c
                          /\ regs'[c] = Outcome(Head(todo[t]), regs[c])
      OBVIOUS
    <2>1. PICK t \in Tasks : Begin(t) \/ Step(t) \/ Kill(t)
      BY DEF Next
    <2>2. WriteInPlace(t)
      BY <2>1, OthersLeaveRegs, WriteValueEffect
    <2>3. regs \in [Cells -> Byte]
      BY DEF IInv, TypeOK
    <2>4. CellOf(Head(todo[t])) = c
      BY <2>2, <2>3 DEF WriteInPlace
    <2>5. regs'[c] = Outcome(Head(todo[t]), regs[c])
      BY <2>2, <2>3, <2>4 DEF WriteInPlace
    <2> QED
      BY <2>2, <2>4, <2>5 DEF WriteInPlace
  <1> QED
    BY <1>1, Invariance, PTL DEF Spec, WriteHitsTarget

\* RegisterFile reads the programs as this module does.
LEMMA SamePrograms ==
  File!Byte = Byte /\ \A o : File!Program(o) = Program(o)
  <1>1. File!Bit = Bit
    BY DEF File!Bit, Bit
  <1>2. File!Byte = Byte
    BY <1>1 DEF File!Byte, Byte
  <1>3. \A n : File!BitsOf(n) = BitsOf(n)
    BY <1>1 DEF File!BitsOf, BitsOf
  <1>4. \A l, r, v : /\ File!write_SIO_reg(l, r, v) = write_SIO_reg(l, r, v)
                     /\ File!WriteSelected(l, r, v) = WriteSelected(l, r, v)
    BY <1>1, <1>3 DEF File!write_SIO_reg, write_SIO_reg, File!WriteSelected, WriteSelected
  <1>5. \A l, r, k, v : File!Modify(l, r, k, v) = Modify(l, r, k, v)
    BY <1>3 DEF File!Modify, Modify
  <1>6. \A l, r : File!read_SIO_reg(l, r) = read_SIO_reg(l, r)
    BY <1>1, <1>3 DEF File!read_SIO_reg, read_SIO_reg
  <1>7. File!FixedProgram = FixedProgram
    <2>1. File!stop_watchdog_timer = stop_watchdog_timer
      BY <1>4 DEF File!stop_watchdog_timer, stop_watchdog_timer
    <2>2. File!wd_gpio_init = wd_gpio_init
      BY <1>1, <1>4, <1>5 DEF File!wd_gpio_init, wd_gpio_init
    <2>3. /\ File!set_led_status_1 = set_led_status_1
          /\ File!set_led_status_2 = set_led_status_2
          /\ File!set_led_status_3 = set_led_status_3
      BY <1>1, <1>5 DEF File!set_led_status_1, set_led_status_1, File!set_led_status_2,
                  set_led_status_2, File!set_led_status_3, set_led_status_3
    <2>4. File!sled_gpio_init = sled_gpio_init
      BY <1>1, <1>5 DEF File!sled_gpio_init, sled_gpio_init
    <2>5. File!Detect_IPMI = Detect_IPMI
      BY <1>6 DEF File!Detect_IPMI, Detect_IPMI
    <2>6. File!sio_hwm_init = sio_hwm_init
      BY <1>4 DEF File!sio_hwm_init, sio_hwm_init
    <2> QED
      BY <2>1, <2>2, <2>3, <2>4, <2>5, <2>6 DEF File!FixedProgram, FixedProgram
  <1>8. \A o : File!Program(o) = Program(o)
    BY <1>4, <1>7 DEF File!Program, Program, File!start_watchdog_timer, start_watchdog_timer
  <1> QED
    BY <1>2, <1>8

\* The shared chip implements the register file with atomic accesses.
THEOREM Refinement == Serial => (Spec => ImplementsRegisterFile)
  <1> SUFFICES ASSUME Serial PROVE Spec => ImplementsRegisterFile
    OBVIOUS
  <1>1. Init => File!FileInit
    BY PowerOnAssumption, SamePrograms DEF Init, File!FileInit
  <1>2. IInv /\ [Next]_vars => [File!FileNext]_(File!fileVars)
    <2> SUFFICES ASSUME IInv, [Next]_vars PROVE File!FileNext \/ UNCHANGED <<regs, todo>>
      BY DEF File!fileVars
    <2>1. CASE UNCHANGED vars
      BY <2>1 DEF vars
    <2>2. ASSUME NEW t \in Tasks, Begin(t) \/ Step(t) \/ Kill(t)
          PROVE  File!FileNext \/ UNCHANGED <<regs, todo>>
      <3>1. TaskInv(t)
        BY DEF IInv
      <3>2. CASE Begin(t)
        <4>1. todo[t] = << >>
          BY <3>1, <3>2 DEF TaskInv, Begin
        <4>2. File!Call(t)
          BY <3>2, <4>1, SamePrograms DEF Begin, File!Call, chip
        <4> QED
          BY <4>2 DEF File!FileNext
      <3>3. CASE Kill(t)
        <4>1. todo[t] # << >> \/ UNCHANGED <<regs, todo>>
          <5>1. CASE todo[t] = << >>
            <6>1. todo' = [todo EXCEPT ![t] = << >>] /\ todo \in [Tasks -> Seq(Access)]
              BY <3>3 DEF Kill, IInv, TypeOK
            <6>2. todo' = todo
              BY <5>1, <6>1
            <6> QED
              BY <3>3, <6>2 DEF Kill, chip
          <5> QED
            BY <5>1
        <4>2. todo[t] # << >> => File!Lose(t)
          BY <3>3 DEF Kill, File!Lose, chip
        <4> QED
          BY <4>1, <4>2 DEF File!FileNext
      <3>4. CASE ReadStrap(t)
        <4>1. todo[t] # << >>
          BY <3>1, <3>4 DEF TaskInv, ReadStrap
        <4>2. /\ todo' = [todo EXCEPT ![t] = Tail(@)] /\ regs' = regs
              /\ ~Writes(Head(todo[t]))
          BY <3>4 DEF ReadStrap, NextAccess, chip, Writes
        <4>3. File!Apply(t)
          BY <4>1, <4>2 DEF File!Apply, File!Writes, Writes
        <4> QED
          BY <4>3 DEF File!FileNext
      <3>5. CASE WriteValue(t)
        <4>1. /\ (regs' = regs /\ t \in UserTasks) \/ WriteInPlace(t)
              /\ todo[t] # << >> /\ todo' = [todo EXCEPT ![t] = Tail(@)]
          BY <3>5, WriteValueEffect
        <4>2. CASE regs' = regs /\ t \in UserTasks
          BY <4>1, <4>2 DEF File!Lose, File!FileNext
        <4>3. CASE WriteInPlace(t)
          <5>1. File!Apply(t)
            BY <4>1, <4>3 DEF WriteInPlace, File!Apply, File!Writes, Writes,
                              File!CellOf, CellOf, File!Outcome, Outcome
          <5> QED
            BY <5>1 DEF File!FileNext
        <4> QED
          BY <4>1, <4>2, <4>3
      <3>6. CASE Step(t) /\ ~ReadStrap(t) /\ ~WriteValue(t)
        <4>1. regs' = regs
          BY <3>6, OthersLeaveRegs
        <4>2. todo' = todo
          BY <3>6 DEF Step, enter_SIO_config, SelectIndex, SelectDevice,
                      SelectRegister, ReadBack, exit_SIO_config
        <4> QED
          BY <4>1, <4>2
      <3> QED
        BY <2>2, <3>2, <3>3, <3>4, <3>5, <3>6
    <2> QED
      BY <2>1, <2>2 DEF Next
  <1> QED
    BY <1>1, <1>2, Invariance, PTL DEF Spec, ImplementsRegisterFile, File!FileSpec

-----------------------------------------------------------------------------
(* Configuration mode. *)

\* A driver in the middle of an operation runs one of its own, which leaves
\* configuration mode at its end.  This needs no assumption on preemption.
OwnOps ==
  /\ ph \in [Tasks -> Phase] /\ op \in [Tasks -> OpRec \cup {NoOp}]
  /\ \A t \in Tasks : Busy(t) => op[t] \in OpsOf[t]

\* After an access a driver goes on to the next one or to the exit.
LEMMA AccessGoesOn ==
  ASSUME OwnOps, NEW t \in Tasks, NextAccess(t), Busy(t)
  PROVE  OwnOps' /\ (t \in UserTasks \/ Busy(t)')
  <1>1. CASE Exits(op[t])
    <2>1. op' = op
      BY <1>1 DEF NextAccess
    <2>2. PICK p \in {"exit", "sel", "reg"} : ph' = [ph EXCEPT ![t] = p]
      BY <1>1, Zenon DEF NextAccess
    <2>3. ph' \in [Tasks -> Phase] /\ Busy(t)'
      BY <2>2 DEF OwnOps, Phase, Busy
    <2>4. \A s \in Tasks : Busy(s)' => Busy(s)
      BY <2>2 DEF OwnOps, Busy
    <2> QED
      BY <2>1, <2>3, <2>4 DEF OwnOps
  <1>2. CASE ~Exits(op[t])
    <2>1. t \in UserTasks
      BY <1>2, TaskAssumption DEF OwnOps
    <2>2. PICK p \in {"idle", "sel", "reg"} : ph' = [ph EXCEPT ![t] = p]
      BY <1>2, Zenon DEF NextAccess
    <2>3. op' = op \/ (op' = [op EXCEPT ![t] = NoOp] /\ ph' = [ph EXCEPT ![t] = "idle"])
      BY <1>2, Zenon DEF NextAccess
    <2>4. ph' \in [Tasks -> Phase] /\ op' \in [Tasks -> OpRec \cup {NoOp}]
      BY <2>2, <2>3 DEF OwnOps, Phase
    <2>5. \A s \in Tasks : Busy(s)' => Busy(s) /\ op'[s] = op[s]
      BY <2>2, <2>3 DEF OwnOps, Busy
    <2> QED
      BY <2>1, <2>4, <2>5 DEF OwnOps
  <1> QED
    BY <1>1, <1>2

\* What ConfigModeLeft says of a step.
Leaves ==
  \/ mode' = "run"
  \/ \E t \in Tasks : ph'[t] # "idle"
  \/ \E t \in UserTasks : ph[t] # "idle"

LEMMA LeavesStep ==
  ASSUME OwnOps, NEW t \in Tasks, Begin(t) \/ Step(t) \/ Kill(t)
  PROVE  OwnOps' /\ Leaves
  <1>1. CASE Begin(t)
    <2>1. PICK o \in OpsOf[t] : op' = [op EXCEPT ![t] = o]
      BY <1>1 DEF Begin
    <2>2. ph' = [ph EXCEPT ![t] = "enter1"]
      BY <1>1 DEF Begin
    <2>3. o \in OpRec
      BY TaskAssumption
    <2>4. ph' \in [Tasks -> Phase] /\ op' \in [Tasks -> OpRec \cup {NoOp}]
      BY <2>1, <2>2, <2>3 DEF OwnOps, Phase
    <2>5. ph'[t] # "idle"
      BY <2>2 DEF OwnOps
    <2>6. \A s \in Tasks : Busy(s)' => op'[s] \in OpsOf[s]
      BY <2>1, <2>2 DEF OwnOps, Busy
    <2> QED
      BY <2>4, <2>5, <2>6 DEF OwnOps, Leaves
  <1>2. CASE enter_SIO_config(t) \/ SelectIndex(t) \/ SelectDevice(t)
             \/ SelectRegister(t) \/ ReadBack(t)
    <2>1. PICK p \in Phase \ {"idle"} : ph' = [ph EXCEPT ![t] = p]
      BY <1>2, Zenon DEF enter_SIO_config, SelectIndex, SelectDevice, SelectRegister,
                         ReadBack, Phase
    <2>2. op' = op /\ Busy(t)
      BY <1>2 DEF enter_SIO_config, SelectIndex, SelectDevice, SelectRegister,
                  ReadBack, Busy
    <2>3. ph'[t] # "idle"
      BY <2>1 DEF OwnOps
    <2> QED
      BY <2>1, <2>2, <2>3 DEF OwnOps, Leaves, Busy
  <1>3. CASE ReadStrap(t) \/ WriteValue(t)
    <2>1. NextAccess(t) /\ Busy(t)
      BY <1>3 DEF ReadStrap, WriteValue, Busy
    <2>2. OwnOps' /\ (t \in UserTasks \/ Busy(t)')
      BY <2>1, AccessGoesOn
    <2> QED
      BY <2>1, <2>2 DEF Leaves, Busy
  <1>4. CASE exit_SIO_config(t)
    <2>1. mode' = "run"
      BY <1>4 DEF exit_SIO_config, IndexOut
    <2>2. ph' = [ph EXCEPT ![t] = "idle"] /\ op' = [op EXCEPT ![t] = NoOp]
      BY <1>4 DEF exit_SIO_config
    <2>3. ph' \in [Tasks -> Phase] /\ op' \in [Tasks -> OpRec \cup {NoOp}]
      BY <2>2 DEF OwnOps, Phase
    <2>4. \A s \in Tasks : Busy(s)' => op'[s] \in OpsOf[s]
      BY <2>2 DEF OwnOps, Busy
    <2> QED
      BY <2>1, <2>3, <2>4 DEF OwnOps, Leaves
  <1>5. CASE Kill(t)
    <2>1. t \in UserTasks /\ ph[t] # "idle"
      BY <1>5 DEF Kill
    <2>2. ph' = [ph EXCEPT ![t] = "idle"] /\ op' = [op EXCEPT ![t] = NoOp]
      BY <1>5 DEF Kill
    <2>3. ph' \in [Tasks -> Phase] /\ op' \in [Tasks -> OpRec \cup {NoOp}]
      BY <2>2 DEF OwnOps, Phase
    <2>4. \A s \in Tasks : Busy(s)' => op'[s] \in OpsOf[s]
      BY <2>2 DEF OwnOps, Busy
    <2> QED
      BY <2>1, <2>3, <2>4 DEF OwnOps, Leaves
  <1> QED
    BY <1>1, <1>2, <1>3, <1>4, <1>5 DEF Step

\* exit_SIO_config(): no driver's operation leaves the chip in configuration
\* mode with nobody at it, for any drivers and any user programs beside them,
\* preempting each other or not; only the end of a user program can.
THEOREM ConfigModeCorrect == Spec => ConfigModeLeft
  <1>1. Init => OwnOps
    BY DEF Init, OwnOps, Busy, Phase
  <1>2. OwnOps /\ [Next]_vars => OwnOps'
    <2>1. ASSUME OwnOps, UNCHANGED vars PROVE OwnOps'
      BY <2>1 DEF vars, OwnOps, Busy
    <2>2. ASSUME OwnOps, Next PROVE OwnOps'
      BY <2>2, LeavesStep DEF Next
    <2> QED
      BY <2>1, <2>2
  <1>3. OwnOps /\ [Next]_vars => [Leaves]_vars
    BY LeavesStep DEF Next
  <1> QED
    BY <1>1, <1>2, <1>3, PTL DEF Spec, ConfigModeLeft, Leaves

-----------------------------------------------------------------------------
(* Every operation comes to an end: a bound on its steps, which needs no      *)
(* fairness, for tasks of either kind, preempting each other or not.          *)

\* The port instructions left, at most: ten for each access (four to reach its
\* data, twice over for a read-modify-write), those that enter configuration
\* mode before them and the one that leaves it behind them.
Ticks(phase, accesses, again) ==
  CASE phase = "idle"   -> 0
    [] phase = "exit"   -> 1
    [] phase = "enter1" -> 10 * accesses + 3
    [] phase = "enter2" -> 10 * accesses + 2
    [] phase = "sel"    -> 10 * accesses - (IF again THEN 1 ELSE 5)
    [] phase = "ldn"    -> 10 * accesses - (IF again THEN 2 ELSE 6)
    [] phase = "reg"    -> 10 * accesses - (IF again THEN 3 ELSE 7)
    [] phase = "data"   -> 10 * accesses - (IF again THEN 4 ELSE 8)
InstructionsLeft(t) == Ticks(ph[t], Len(todo[t]), reading[t])

\* A task that is not about to leave configuration mode has an access left.
Equipped(t) ==
  /\ op[t] \in OpRec \cup {NoOp} /\ ph[t] \in Phase /\ todo[t] \in Seq(Access)
  /\ reading[t] \in BOOLEAN
  /\ Busy(t) => op[t] \in OpRec /\ Len(todo[t]) <= Len(Program(op[t]))
  /\ Busy(t) /\ ph[t] # "exit" => Len(todo[t]) >= 1

EndInv ==
  /\ op \in [Tasks -> OpRec \cup {NoOp}] /\ ph \in [Tasks -> Phase]
  /\ todo \in [Tasks -> Seq(Access)] /\ reading \in [Tasks -> BOOLEAN]
  /\ \A t \in Tasks : Equipped(t)

\* An operation has instructions left exactly while it is under way, and never
\* more than its program says.
WithinProgram ==
  \A t \in Tasks :
    /\ InstructionsLeft(t) \in Nat
    /\ InstructionsLeft(t) = 0 <=> ph[t] = "idle"
    /\ Busy(t) => InstructionsLeft(t) <= 10 * Len(Program(op[t])) + 3

\* A step leaves an operation as it is, or leaves it with fewer instructions.
OperationsShorten ==
  [][\A t \in Tasks :
       Busy(t) => \/ UNCHANGED <<op[t], ph[t], todo[t], reading[t]>>
                  \/ InstructionsLeft(t)' < InstructionsLeft(t)]_vars

\* The task t is the only one a step changes.
Alone(t) ==
  \A s \in Tasks \ {t} : UNCHANGED <<op[s], ph[s], todo[s], reading[s]>>

LEMMA TicksRange ==
  ASSUME NEW phase \in Phase, NEW n \in Nat, NEW again \in BOOLEAN,
         phase \notin {"idle", "exit"} => n >= 1
  PROVE  /\ Ticks(phase, n, again) \in Nat
         /\ Ticks(phase, n, again) = 0 <=> phase = "idle"
         /\ phase \notin {"idle", "exit"} => Ticks(phase, n, again) <= 10 * n + 3
         /\ phase = "exit" => Ticks(phase, n, again) = 1
  BY SMT DEF Ticks, Phase

LEMMA ProgramLength == \A o \in OpRec : Program(o) \in Seq(Access) /\ Len(Program(o)) \in Nat \ {0}
  <1> SUFFICES ASSUME NEW o \in OpRec
               PROVE  Program(o) \in Seq(Access) /\ Len(Program(o)) \in Nat \ {0}
    OBVIOUS
  <1>1. Program(o) \in Seq(Access) /\ Program(o) # << >>
    BY ProgramWellFormed DEF WellFormed
  <1> QED
    BY <1>1

LEMMA EndInvWithin == EndInv => WithinProgram
  <1> SUFFICES ASSUME EndInv, NEW t \in Tasks
               PROVE  /\ InstructionsLeft(t) \in Nat
                      /\ InstructionsLeft(t) = 0 <=> ph[t] = "idle"
                      /\ Busy(t) => InstructionsLeft(t) <= 10 * Len(Program(op[t])) + 3
    BY DEF WithinProgram
  <1>1. ph[t] \in Phase /\ Len(todo[t]) \in Nat /\ reading[t] \in BOOLEAN
    BY DEF EndInv, Equipped
  <1>2. ph[t] \notin {"idle", "exit"} => Len(todo[t]) >= 1
    BY DEF EndInv, Equipped, Busy
  <1>3. Busy(t) => Len(todo[t]) <= Len(Program(op[t])) /\ Len(Program(op[t])) \in Nat
    BY ProgramLength DEF EndInv, Equipped
  <1>4. /\ InstructionsLeft(t) \in Nat
        /\ InstructionsLeft(t) = 0 <=> ph[t] = "idle"
        /\ ph[t] \notin {"idle", "exit"} => InstructionsLeft(t) <= 10 * Len(todo[t]) + 3
        /\ ph[t] = "exit" => InstructionsLeft(t) = 1
    BY <1>1, <1>2, TicksRange DEF InstructionsLeft
  <1>5. Busy(t) => InstructionsLeft(t) <= 10 * Len(Program(op[t])) + 3
    <2> DEFINE k == InstructionsLeft(t)
               m == Len(Program(op[t]))
               n == Len(todo[t])
    <2> HIDE DEF k, m, n
    <2>1. Busy(t) => n <= m /\ m \in Nat /\ n \in Nat /\ k \in Nat
      BY <1>1, <1>3, <1>4 DEF k, m, n
    <2>2. Busy(t) => k <= 10 * n + 3 \/ k = 1
      BY <1>4 DEF Busy, k, n
    <2>3. Busy(t) => k <= 10 * m + 3
      BY <2>1, <2>2
    <2> QED
      BY <2>3 DEF k, m
  <1> QED
    BY <1>4, <1>5

\* What each kind of step does to the task that takes it.
LEMMA EndBegin ==
  ASSUME EndInv, NEW t \in Tasks, Begin(t)
  PROVE  EndInv' /\ Alone(t) /\ ~Busy(t)
  <1>1. PICK o \in OpsOf[t] :
          /\ op' = [op EXCEPT ![t] = o]
          /\ todo' = [todo EXCEPT ![t] = Program(o)]
          /\ reading' = [reading EXCEPT ![t] = Head(Program(o)).kind # "set"]
    BY DEF Begin
  <1>2. ph' = [ph EXCEPT ![t] = "enter1"] /\ ~Busy(t)
    BY DEF Begin, Busy
  <1>3. o \in OpRec /\ Program(o) \in Seq(Access) /\ Len(Program(o)) \in Nat \ {0}
    BY TaskAssumption, ProgramLength
  <1>4. /\ op' \in [Tasks -> OpRec \cup {NoOp}] /\ ph' \in [Tasks -> Phase]
        /\ todo' \in [Tasks -> Seq(Access)] /\ reading' \in [Tasks -> BOOLEAN]
    BY <1>1, <1>2, <1>3 DEF EndInv, Phase
  <1>5. Alone(t)
    BY <1>1, <1>2 DEF EndInv, Alone
  <1>6. op'[t] = o /\ todo'[t] = Program(o)
    BY <1>1 DEF EndInv
  <1>7. Equipped(t)'
    BY <1>3, <1>4, <1>6 DEF Equipped
  <1>8. \A s \in Tasks \ {t} : Equipped(s)'
    BY <1>5 DEF EndInv, Equipped, Alone, Busy
  <1> QED
    BY <1>2, <1>4, <1>5, <1>7, <1>8 DEF EndInv

\* An instruction that only moves on within the current access.
LEMMA EndWithin ==
  ASSUME EndInv, NEW t \in Tasks,
         enter_SIO_config(t) \/ SelectIndex(t) \/ SelectDevice(t) \/ SelectRegister(t) \/ ReadBack(t)
  PROVE  EndInv' /\ Alone(t) /\ InstructionsLeft(t)' < InstructionsLeft(t)
  <1>1. op' = op /\ todo' = todo /\ Busy(t) /\ ph[t] # "exit"
    BY DEF enter_SIO_config, SelectIndex, SelectDevice, SelectRegister, ReadBack, Busy
  <1>2. PICK p \in Phase \ {"idle", "exit"}, r \in BOOLEAN :
          /\ ph' = [ph EXCEPT ![t] = p] /\ reading' = [reading EXCEPT ![t] = r]
          /\ \/ <<ph[t], p>> \in {<<"enter1", "enter2">>, <<"enter2", "sel">>, <<"sel", "ldn">>,
                                  <<"ldn", "reg">>, <<"reg", "data">>} /\ r = reading[t]
             \/ ph[t] = "data" /\ p = "sel" /\ reading[t] /\ ~r
    <2>1. reading[t] \in BOOLEAN /\ reading = [reading EXCEPT ![t] = reading[t]]
      BY DEF EndInv
    <2>2. CASE enter_SIO_config(t)
      <3>1. reading' = reading
        BY <2>2 DEF enter_SIO_config
      <3>2. CASE ph[t] = "enter1" /\ ph' = [ph EXCEPT ![t] = "enter2"]
        BY <2>1, <3>1, <3>2 DEF Phase
      <3>3. CASE ph[t] = "enter2" /\ ph' = [ph EXCEPT ![t] = "sel"]
        BY <2>1, <3>1, <3>3 DEF Phase
      <3> QED
        BY <2>2, <3>2, <3>3 DEF enter_SIO_config
    <2>3. CASE SelectIndex(t)
      BY <2>1, <2>3 DEF SelectIndex, Phase
    <2>4. CASE SelectDevice(t)
      BY <2>1, <2>4 DEF SelectDevice, Phase
    <2>5. CASE SelectRegister(t)
      BY <2>1, <2>5 DEF SelectRegister, Phase
    <2>6. CASE ReadBack(t)
      BY <2>6 DEF ReadBack, Phase
    <2> QED
      BY <2>2, <2>3, <2>4, <2>5, <2>6
  <1>3. ph'[t] = p /\ reading'[t] = r /\ todo'[t] = todo[t]
    BY <1>1, <1>2 DEF EndInv
  <1>4. ph' \in [Tasks -> Phase] /\ reading' \in [Tasks -> BOOLEAN]
    BY <1>2 DEF EndInv
  <1>5. Alone(t)
    BY <1>1, <1>2 DEF EndInv, Alone
  <1>6. Equipped(t)'
    BY <1>1, <1>3, <1>4 DEF EndInv, Equipped, Busy
  <1>7. \A s \in Tasks \ {t} : Equipped(s)'
    BY <1>5 DEF EndInv, Equipped, Alone, Busy
  <1>8. EndInv'
    BY <1>1, <1>4, <1>6, <1>7 DEF EndInv
  <1>9. InstructionsLeft(t)' < InstructionsLeft(t)
    <2>1. Len(todo[t]) \in Nat /\ reading[t] \in BOOLEAN
      BY DEF EndInv, Equipped
    <2> DEFINE n == Len(todo[t])
    <2> HIDE DEF n
    <2>2. n \in Nat
      BY <2>1 DEF n
    <2>3. Ticks(p, n, r) < Ticks(ph[t], n, reading[t])
      BY <1>2, <2>1, <2>2, SMT DEF Ticks
    <2> QED
      BY <1>3, <2>3 DEF InstructionsLeft, n
  <1> QED
    BY <1>5, <1>8, <1>9

\* The instruction that ends an access.
LEMMA EndAccess ==
  ASSUME EndInv, NEW t \in Tasks, ph[t] = "data", NextAccess(t)
  PROVE  EndInv' /\ Alone(t) /\ InstructionsLeft(t)' < InstructionsLeft(t)
  <1> DEFINE rest == Tail(todo[t])
  <1>1. todo[t] \in Seq(Access) /\ Len(todo[t]) >= 1 /\ Busy(t) /\ op[t] \in OpRec
        /\ Len(todo[t]) <= Len(Program(op[t]))
    BY DEF EndInv, Equipped, Busy
  <1>2. rest \in Seq(Access) /\ Len(rest) = Len(todo[t]) - 1 /\ (rest # << >> => Len(rest) >= 1)
    BY <1>1
  <1>3. todo' = [todo EXCEPT ![t] = rest]
    BY DEF NextAccess
  <1>4. PICK p \in Phase, r \in BOOLEAN, o \in OpRec \cup {NoOp} :
          /\ ph' = [ph EXCEPT ![t] = p] /\ reading' = [reading EXCEPT ![t] = r]
          /\ op' = [op EXCEPT ![t] = o]
          /\ p = "idle" \/ o = op[t]
          /\ p \in {"idle", "exit"} \/ (p \in {"sel", "reg"} /\ rest # << >>)
    <2>1. op = [op EXCEPT ![t] = op[t]] /\ op[t] \in OpRec \cup {NoOp}
      BY <1>1 DEF EndInv
    <2>2. CASE rest = << >> /\ Exits(op[t])
      <3>1. ph' = [ph EXCEPT ![t] = "exit"] /\ op' = op /\ reading' = [reading EXCEPT ![t] = FALSE]
        BY <2>2 DEF NextAccess
      <3> QED
        BY <2>1, <3>1 DEF Phase
    <2>3. CASE rest = << >> /\ ~Exits(op[t])
      <3>1. /\ ph' = [ph EXCEPT ![t] = "idle"] /\ op' = [op EXCEPT ![t] = NoOp]
            /\ reading' = [reading EXCEPT ![t] = FALSE]
        BY <2>3 DEF NextAccess
      <3> QED
        BY <3>1 DEF Phase
    <2>4. CASE rest # << >>
      <3>1. /\ op' = op
            /\ ph' = [ph EXCEPT ![t] = IF Head(rest).reselect THEN "sel" ELSE "reg"]
            /\ reading' = [reading EXCEPT ![t] = Head(rest).kind # "set"]
        BY <2>4 DEF NextAccess
      <3> QED
        BY <2>1, <2>4, <3>1, Zenon DEF Phase
    <2> QED
      BY <2>2, <2>3, <2>4
  <1>5. ph'[t] = p /\ reading'[t] = r /\ todo'[t] = rest /\ op'[t] = o
    BY <1>3, <1>4 DEF EndInv
  <1>6. /\ op' \in [Tasks -> OpRec \cup {NoOp}] /\ ph' \in [Tasks -> Phase]
        /\ todo' \in [Tasks -> Seq(Access)] /\ reading' \in [Tasks -> BOOLEAN]
    BY <1>2, <1>3, <1>4 DEF EndInv
  <1>7. Alone(t)
    BY <1>3, <1>4 DEF EndInv, Alone
  <1>8. Len(rest) <= Len(Program(op[t]))
    <2>1. Len(Program(op[t])) \in Nat /\ Len(todo[t]) \in Nat
      BY <1>1, ProgramLength
    <2> HIDE DEF rest
    <2> QED
      BY <1>1, <1>2, <2>1
  <1>9. Equipped(t)'
    <2> HIDE DEF rest
    <2> QED
      BY <1>1, <1>2, <1>4, <1>5, <1>6, <1>8 DEF Equipped, Busy
  <1>10. \A s \in Tasks \ {t} : Equipped(s)'
    BY <1>7 DEF EndInv, Equipped, Alone, Busy
  <1>11. EndInv'
    BY <1>6, <1>9, <1>10 DEF EndInv
  <1>12. InstructionsLeft(t)' < InstructionsLeft(t)
    <2> DEFINE n == Len(todo[t])
               m == Len(rest)
    <2> HIDE DEF n, m, rest
    <2>1. n \in Nat /\ m = n - 1 /\ n >= 1 /\ (rest # << >> => m >= 1) /\ reading[t] \in BOOLEAN
      BY <1>1, <1>2 DEF n, m, EndInv
    <2>2. Ticks(p, m, r) < Ticks("data", n, reading[t])
      BY <1>4, <2>1, SMT DEF Ticks
    <2> QED
      BY <1>5, <2>2 DEF InstructionsLeft, n, m
  <1> QED
    BY <1>7, <1>11, <1>12

\* The end of an operation, or of the program that runs it.
LEMMA EndOperation ==
  ASSUME EndInv, NEW t \in Tasks, exit_SIO_config(t) \/ Kill(t)
  PROVE  EndInv' /\ Alone(t) /\ (Busy(t) => InstructionsLeft(t)' < InstructionsLeft(t))
  <1>1. ph' = [ph EXCEPT ![t] = "idle"] /\ op' = [op EXCEPT ![t] = NoOp]
    BY DEF exit_SIO_config, Kill
  <1>2. /\ todo' \in [Tasks -> Seq(Access)] /\ reading' \in [Tasks -> BOOLEAN]
        /\ \A s \in Tasks \ {t} : todo'[s] = todo[s] /\ reading'[s] = reading[s]
    <2>1. CASE exit_SIO_config(t)
      BY <2>1 DEF exit_SIO_config, EndInv
    <2>2. CASE Kill(t)
      <3>1. /\ todo' = [todo EXCEPT ![t] = << >>] /\ reading' = [reading EXCEPT ![t] = FALSE]
            /\ << >> \in Seq(Access)
        BY <2>2 DEF Kill
      <3> QED
        BY <3>1 DEF EndInv
    <2> QED
      BY <2>1, <2>2
  <1>3. ph'[t] = "idle" /\ ph' \in [Tasks -> Phase] /\ op' \in [Tasks -> OpRec \cup {NoOp}]
    BY <1>1 DEF EndInv, Phase
  <1>4. Alone(t)
    BY <1>1, <1>2 DEF EndInv, Alone
  <1>5. Equipped(t)'
    BY <1>2, <1>3 DEF Equipped, Busy
  <1>6. \A s \in Tasks \ {t} : Equipped(s)'
    BY <1>4 DEF EndInv, Equipped, Alone, Busy
  <1>7. EndInv'
    BY <1>2, <1>3, <1>5, <1>6 DEF EndInv
  <1>8. InstructionsLeft(t)' = 0
    BY <1>3 DEF InstructionsLeft, Ticks
  <1>9. Busy(t) => InstructionsLeft(t) > 0
    BY EndInvWithin DEF WithinProgram, Busy
  <1> QED
    BY <1>4, <1>7, <1>8, <1>9

LEMMA EndStep ==
  ASSUME EndInv, [Next]_vars
  PROVE  /\ EndInv'
         /\ \A t \in Tasks :
              Busy(t) => \/ UNCHANGED <<op[t], ph[t], todo[t], reading[t]>>
                         \/ InstructionsLeft(t)' < InstructionsLeft(t)
  <1>1. CASE UNCHANGED vars
    BY <1>1 DEF vars, EndInv, Equipped, Busy
  <1>2. ASSUME NEW t \in Tasks, Begin(t) \/ Step(t) \/ Kill(t)
        PROVE  EndInv' /\ Alone(t) /\ (Busy(t) => InstructionsLeft(t)' < InstructionsLeft(t))
    <2>1. CASE Begin(t)
      BY <2>1, EndBegin
    <2>2. CASE enter_SIO_config(t) \/ SelectIndex(t) \/ SelectDevice(t) \/ SelectRegister(t)
               \/ ReadBack(t)
      BY <2>2, EndWithin
    <2>3. CASE ReadStrap(t) \/ WriteValue(t)
      <3>1. ph[t] = "data" /\ NextAccess(t)
        BY <2>3 DEF ReadStrap, WriteValue
      <3> QED
        BY <3>1, EndAccess
    <2>4. CASE exit_SIO_config(t) \/ Kill(t)
      BY <2>4, EndOperation
    <2> QED
      BY <1>2, <2>1, <2>2, <2>3, <2>4 DEF Step
  <1> QED
    BY <1>1, <1>2, Zenon DEF Next, Alone

\* Every operation under way has a number of port instructions left that its
\* program bounds, each step of its task makes it smaller, and no step of
\* another task makes it larger: with a CPU that comes back to the task, the
\* operation ends.
THEOREM OperationsBounded == Spec => []WithinProgram /\ OperationsShorten
  <1>1. Init => EndInv
    BY DEF Init, EndInv, Equipped, Busy, Phase
  <1>2. EndInv /\ [Next]_vars => EndInv'
    BY EndStep
  <1>3. EndInv /\ [Next]_vars =>
          [\A t \in Tasks :
             Busy(t) => \/ UNCHANGED <<op[t], ph[t], todo[t], reading[t]>>
                        \/ InstructionsLeft(t)' < InstructionsLeft(t)]_vars
    BY EndStep
  <1>4. EndInv => WithinProgram
    BY EndInvWithin
  <1> QED
    BY <1>1, <1>2, <1>3, <1>4, PTL DEF Spec, OperationsShorten

=============================================================================
