---------------------------- MODULE WdDriver_proofs ----------------------------
(***************************************************************************)
(* Proofs about the watchdog driver, for any number of processes in the    *)
(* kernel at once: until two opens race or the module is unloaded in use,  *)
(* one process at most has the device and the guard counts it right.       *)
(***************************************************************************)
EXTENDS WdDriver, TLAPS

\* The guard is the number of open files, and who is about to change it knows.
GuardCounts ==
  /\ \A p \in Processes : pc[p] \in HasFile => Device_Open = 1
  /\ (\A p \in Processes : pc[p] \notin HasFile) => Device_Open = 0
  /\ \A p \in Processes : pc[p] \in InOpen => Device_Open = 0
  /\ \A p \in Processes : pc[p] = "open_read" => read[p] = 0
  /\ \A p \in Processes : pc[p] = "release" => read[p] = 1

\* One process at most is past the test of the guard, and in a live module.
OneInside ==
  /\ \A p, q \in Inside : p = q
  /\ Inside # {} => loaded
  /\ stale = {}

\* The timer follows the commands, once wd_gpio_init is over.
TimerInv ==
  /\ initing => loaded /\ (early \/ asked = 0)
  /\ loaded /\ ~initing => timer = IF early THEN 0 ELSE asked

\* Only who has been in the driver can be there after its end.
StaleInv == \A p \in stale : pc[p] \in InOpen \cup HasFile

Sound == GuardCounts /\ OneInside

IInv == TypeOK /\ StaleInv /\ TimerInv /\ (~raced => Sound)

-----------------------------------------------------------------------------
(* Types, and who is stale. *)

\* A process that moves leaves the place of the others as it is.
Moves(p, label) ==
  /\ pc'[p] = label /\ pc' \in [Processes -> Pc]
  /\ \A q \in Processes \ {p} : pc'[q] = pc[q]

LEMMA GotoMoves ==
  \A p \in Processes : \A label \in Pc : TypeOK /\ Goto(p, label) => Moves(p, label)
  BY DEF TypeOK, Goto, Moves

LEMMA QuitMoves ==
  \A p \in Processes :
    TypeOK /\ Quit(p) =>
      /\ Moves(p, "none") /\ cmd' \in [Processes -> Cmd \cup {NoCmd}]
      /\ read' \in [Processes -> Int] /\ stale' = stale \ {p}
      /\ \A q \in Processes \ {p} : read'[q] = read[q]
  BY DEF TypeOK, Quit, Goto, Moves, Pc

\* Where a step of a process leads, and what it leaves to the others.
LEMMA StepMoves ==
  ASSUME NEW p \in Processes, TypeOK, Run(p) \/ Step(p)
  PROVE  /\ \E label \in Pc : Moves(p, label)
         /\ cmd' \in [Processes -> Cmd \cup {NoCmd}]
         /\ read' \in [Processes -> Int]
         /\ \A q \in Processes \ {p} : read'[q] = read[q]
         /\ stale' \in {stale, stale \ {p}}
         /\ pc'[p] \notin InOpen \cup HasFile => stale' = stale \ {p} \/ pc[p] = "none"
         /\ UNCHANGED <<loaded, initing>> /\ Device_Open' \in Int
         /\ raced \in BOOLEAN /\ raced' \in BOOLEAN /\ (raced => raced')
  <1> USE DEF Pc, InOpen, HasFile
  <1>0. read \in [Processes -> Int] /\ cmd \in [Processes -> Cmd \cup {NoCmd}] /\ Device_Open \in Int
        /\ raced \in BOOLEAN
    BY DEF TypeOK
  <1>1. CASE Run(p)
    <2>1. Moves(p, "start") /\ pc[p] = "none"
      BY <1>1, GotoMoves DEF Run
    <2>2. cmd' \in [Processes -> Cmd \cup {NoCmd}]
      BY <1>0, <1>1 DEF Run
    <2> QED
      BY <1>0, <1>1, <2>1, <2>2 DEF Run, history, Moves
  <1>2. CASE wd_open_fails(p) \/ Decrement(p) \/ Fault(p)
    <2>1. Quit(p) /\ UNCHANGED <<loaded, initing>> /\ raced' = raced
      BY <1>2 DEF wd_open_fails, Decrement, Fault, history
    <2>2. Device_Open' \in Int
      BY <1>0, <1>2 DEF wd_open_fails, Decrement, Fault
    <2>3. Moves(p, "none")
      BY <2>1, QuitMoves
    <2> QED
      BY <1>0, <2>1, <2>2, <2>3, QuitMoves DEF Moves
  <1>3. CASE wd_open(p)
    <2>1. Moves(p, "open")
      BY <1>3, GotoMoves DEF wd_open
    <2> QED
      BY <1>0, <1>3, <2>1 DEF wd_open, Moves
  <1>4. CASE IncrementTested(p)
    <2>1. Moves(p, "user")
      BY <1>4, GotoMoves DEF IncrementTested
    <2> QED
      BY <1>0, <1>4, <2>1 DEF IncrementTested, history, Moves
  <1>5. CASE ReadAgain(p)
    <2>1. Moves(p, "open_read")
      BY <1>5, GotoMoves DEF ReadAgain
    <2> QED
      BY <1>0, <1>5, <2>1 DEF ReadAgain, history, Moves
  <1>6. CASE IncrementRead(p)
    <2>1. Moves(p, "user")
      BY <1>6, GotoMoves DEF IncrementRead
    <2> QED
      <3>1. read' \in [Processes -> Int] /\ \A q \in Processes \ {p} : read'[q] = read[q]
        BY <1>0, <1>6 DEF IncrementRead
      <3>2. read[p] + 1 \in Int
        BY <1>0
      <3>3. Device_Open' \in Int
        BY <1>6, <3>2 DEF IncrementRead
      <3>4. UNCHANGED <<loaded, initing, cmd, stale, raced>>
        BY <1>6 DEF IncrementRead, history
      <3> QED
        BY <1>0, <2>1, <3>1, <3>3, <3>4 DEF Moves
  <1>7. CASE wd_ioctl(p)
    <2>1. Moves(p, "close")
      BY <1>7, GotoMoves DEF wd_ioctl
    <2> QED
      BY <1>0, <1>7, <2>1 DEF wd_ioctl, Enter, Moves
  <1>8. CASE GiveUp(p)
    <2>1. Moves(p, "close")
      BY <1>8, GotoMoves DEF GiveUp
    <2> QED
      BY <1>0, <1>8, <2>1 DEF GiveUp, history, Moves
  <1>9. CASE wd_release(p)
    <2>1. Moves(p, "release")
      BY <1>9, GotoMoves DEF wd_release
    <2> QED
      <3>1. read' \in [Processes -> Int] /\ \A q \in Processes \ {p} : read'[q] = read[q]
        BY <1>0, <1>9 DEF wd_release
      <3>2. /\ UNCHANGED <<Device_Open, loaded, initing, cmd, raced>>
            /\ stale' = stale \ {p}
        BY <1>9 DEF wd_release, Enter, history
      <3> QED
        BY <1>0, <2>1, <3>1, <3>2 DEF Moves
  <1> QED
    BY <1>1, <1>2, <1>3, <1>4, <1>5, <1>6, <1>7, <1>8, <1>9 DEF Step

\* What only an ioctl changes.
LEMMA StepTimer ==
  ASSUME NEW p \in Processes, TypeOK, Run(p) \/ Step(p)
  PROVE  \/ wd_ioctl(p)
         \/ UNCHANGED <<timer, asked, early>>
  BY DEF Run, Step, wd_open_fails, wd_open, IncrementTested, ReadAgain, IncrementRead, GiveUp,
         wd_release, Decrement, Fault, history

LEMMA IoctlTimer ==
  ASSUME NEW p \in Processes, TypeOK, wd_ioctl(p)
  PROVE  /\ timer' = asked' /\ timer' \in 0 .. 255 /\ asked' \in Nat
         /\ early' = initing /\ UNCHANGED <<loaded, initing>>
  <1>1. CASE cmd[p].op = "swt"
    <2>1. cmd[p].value \in 1 .. 255
      BY <1>1 DEF wd_ioctl, Accepted
    <2>2. asked' = cmd[p].value /\ timer' = cmd[p].value % 256
      BY <1>1 DEF wd_ioctl, start_watchdog_timer
    <2>3. timer' = asked' /\ timer' \in 0 .. 255 /\ asked' \in Nat
      BY <2>1, <2>2
    <2> QED
      BY <2>3 DEF wd_ioctl
  <1>2. CASE cmd[p].op # "swt"
    BY <1>2 DEF wd_ioctl, stop_watchdog_timer
  <1> QED
    BY <1>1, <1>2

LEMMA StepTypes ==
  ASSUME NEW p \in Processes, IInv, Run(p) \/ Step(p)
  PROVE  TypeOK' /\ StaleInv' /\ TimerInv'
  <1>0. TypeOK /\ StaleInv /\ TimerInv
    BY DEF IInv
  <1>1. PICK label \in Pc : Moves(p, label)
    BY <1>0, StepMoves
  <1>2. timer' \in 0 .. 255 /\ asked' \in Nat /\ early' \in BOOLEAN
    <2>1. CASE wd_ioctl(p)
      BY <1>0, <2>1, IoctlTimer DEF TypeOK
    <2>2. CASE UNCHANGED <<timer, asked, early>>
      BY <1>0, <2>2 DEF TypeOK
    <2> QED
      BY <1>0, <2>1, <2>2, StepTimer
  <1>3. stale' \subseteq Processes /\ UNCHANGED <<loaded, initing>>
    BY <1>0, StepMoves DEF TypeOK
  <1>4. TypeOK'
    BY <1>0, <1>1, <1>2, <1>3, StepMoves DEF TypeOK, Moves
  <1>5. StaleInv'
    <2> SUFFICES ASSUME NEW q \in stale' PROVE pc'[q] \in InOpen \cup HasFile
      BY DEF StaleInv
    <2>1. q \in stale /\ q \in Processes
      BY <1>0, StepMoves DEF TypeOK
    <2>2. pc[q] \in InOpen \cup HasFile
      BY <1>0, <2>1 DEF StaleInv
    <2>3. CASE q # p
      BY <1>1, <2>1, <2>2, <2>3 DEF Moves
    <2>4. CASE q = p
      BY <1>0, <2>2, <2>4, StepMoves DEF InOpen, HasFile
    <2> QED
      BY <2>3, <2>4
  <1>6. TimerInv'
    <2>1. CASE wd_ioctl(p)
      <3>1. loaded
        BY <2>1 DEF wd_ioctl, Enter
      <3>2. TypeOK' /\ timer' = asked' /\ early' = initing /\ UNCHANGED <<loaded, initing>>
        BY <1>0, <1>4, <2>1, IoctlTimer
      <3> QED
        BY <3>1, <3>2 DEF TimerInv, TypeOK
    <2>2. CASE UNCHANGED <<timer, asked, early>>
      BY <1>0, <1>3, <2>2 DEF TimerInv
    <2> QED
      BY <1>0, <2>1, <2>2, StepTimer
  <1> QED
    BY <1>4, <1>5, <1>6

-----------------------------------------------------------------------------
(* The guard, as long as nothing has raced. *)

\* Everybody but the one that moves.
LEMMA OthersOut ==
  ASSUME NEW p \in Processes, Sound, p \in Inside
  PROVE  /\ \A q \in Processes \ {p} : pc[q] \notin InOpen \cup HasFile
         /\ loaded
  BY DEF Sound, OneInside, Inside

LEMMA StepSound ==
  ASSUME NEW p \in Processes, IInv, Run(p) \/ Step(p), ~raced'
  PROVE  Sound'
  <1>0. TypeOK /\ StaleInv /\ Sound
    BY StepMoves DEF IInv
  <1>1. PICK label \in Pc : Moves(p, label)
    BY <1>0, StepMoves
  <1>2. stale = {} /\ stale' = {} /\ UNCHANGED loaded
    BY <1>0, StepMoves DEF Sound, OneInside
  <1>3. \A q \in Processes \ {p} : pc'[q] = pc[q] /\ read'[q] = read[q]
    BY <1>0, <1>1, StepMoves DEF Moves
  <1>4. pc[p] \in Pc
    BY <1>0 DEF TypeOK
  \* Who neither comes in nor goes out changes nothing for the others.
  <1>5. CASE Run(p) \/ wd_open_fails(p)
    <2>1. pc[p] \in {"none", "start"} /\ UNCHANGED Device_Open
      BY <1>5 DEF Run, wd_open_fails
    <2>2. pc'[p] \in {"none", "start"}
      BY <1>0, <1>5, GotoMoves, QuitMoves DEF Run, wd_open_fails, Moves, Pc
    <2>3. \A q \in Processes : /\ (pc'[q] \in HasFile <=> pc[q] \in HasFile)
                              /\ (pc'[q] \in InOpen <=> pc[q] \in InOpen)
      BY <1>3, <2>1, <2>2 DEF HasFile, InOpen
    <2>4. \A q \in Processes : pc'[q] \in {"open_read", "release"} =>
                                 pc'[q] = pc[q] /\ read'[q] = read[q]
      BY <1>3, <2>2
    <2>5. GuardCounts'
      BY <1>0, <2>1, <2>3, <2>4 DEF Sound, GuardCounts
    <2>6. Inside' = Inside
      BY <2>3 DEF Inside
    <2> QED
      BY <1>0, <1>2, <2>5, <2>6 DEF Sound, OneInside
  <1>6. CASE wd_open(p)
    <2>1. /\ Device_Open = 0 /\ Device_Open' = 0 /\ loaded /\ pc'[p] = "open"
          /\ \A q \in Processes \ {p} : pc[q] \notin InOpen
      BY <1>0, <1>6, GotoMoves DEF wd_open, Moves, Pc, InOpen, HasFile
    <2>2. \A q \in Processes : pc[q] \notin HasFile
      BY <1>0, <2>1 DEF Sound, GuardCounts
    <2>3. \A q \in Processes \ {p} : pc'[q] \notin InOpen \cup HasFile
      BY <1>3, <2>1, <2>2
    <2>4. GuardCounts'
      BY <2>1, <2>3 DEF GuardCounts, InOpen, HasFile
    <2>5. Inside' \subseteq {p}
      BY <2>3 DEF Inside
    <2> QED
      BY <1>2, <2>1, <2>4, <2>5 DEF Sound, OneInside
  <1>7. CASE IncrementTested(p) \/ ReadAgain(p) \/ IncrementRead(p)
    <2>1. pc[p] \in InOpen /\ p \in Inside
      BY <1>7 DEF IncrementTested, ReadAgain, IncrementRead, InOpen, Inside
    <2>2. /\ \A q \in Processes \ {p} : pc'[q] \notin InOpen \cup HasFile
          /\ loaded
      BY <1>0, <1>3, <2>1, OthersOut
    <2>3. Device_Open = 0 /\ (pc[p] = "open_read" => read[p] = 0)
      BY <1>0, <2>1 DEF Sound, GuardCounts
    <2>4. \/ pc'[p] = "user" /\ Device_Open' = 1
          \/ pc'[p] = "open_read" /\ Device_Open' = 0 /\ read'[p] = 0
      <3>1. CASE IncrementTested(p)
        BY <1>0, <3>1, GotoMoves DEF IncrementTested, Moves, Pc, HasFile
      <3>2. CASE ReadAgain(p)
        BY <1>0, <2>3, <3>2, GotoMoves DEF ReadAgain, Moves, Pc, InOpen, TypeOK
      <3>3. CASE IncrementRead(p)
        BY <1>0, <2>3, <3>3, GotoMoves DEF IncrementRead, Moves, Pc, HasFile
      <3> QED
        BY <1>7, <3>1, <3>2, <3>3
    <2>5. GuardCounts'
      BY <2>2, <2>4 DEF GuardCounts, InOpen, HasFile
    <2>6. Inside' \subseteq {p}
      BY <2>2 DEF Inside
    <2> QED
      BY <1>2, <2>2, <2>5, <2>6 DEF Sound, OneInside
  <1>8. CASE wd_ioctl(p) \/ GiveUp(p) \/ wd_release(p)
    <2>1. pc[p] \in {"user", "close"} /\ p \in Inside /\ UNCHANGED Device_Open
      BY <1>8 DEF wd_ioctl, GiveUp, wd_release, HasFile, Inside
    <2>2. /\ \A q \in Processes \ {p} : pc'[q] \notin InOpen \cup HasFile
          /\ loaded
      BY <1>0, <1>3, <2>1, OthersOut
    <2>3. Device_Open = 1
      BY <1>0, <2>1 DEF Sound, GuardCounts, HasFile
    <2>4. pc'[p] = "close" \/ (pc'[p] = "release" /\ read'[p] = 1)
      <3>1. CASE wd_ioctl(p) \/ GiveUp(p)
        BY <1>0, <3>1, GotoMoves DEF wd_ioctl, GiveUp, Moves, Pc, HasFile
      <3>2. CASE wd_release(p)
        BY <1>0, <2>3, <3>2, GotoMoves DEF wd_release, Moves, Pc, HasFile, TypeOK
      <3> QED
        BY <1>8, <3>1, <3>2
    <2>5. GuardCounts'
      BY <2>1, <2>2, <2>3, <2>4 DEF GuardCounts, InOpen, HasFile
    <2>6. Inside' \subseteq {p}
      BY <2>2 DEF Inside
    <2> QED
      BY <1>2, <2>2, <2>5, <2>6 DEF Sound, OneInside
  <1>9. CASE Decrement(p)
    <2>1. pc[p] = "release" /\ p \in Inside /\ read[p] = 1
      BY <1>0, <1>9 DEF Decrement, HasFile, Inside, Sound, GuardCounts
    <2>2. \A q \in Processes \ {p} : pc'[q] \notin InOpen \cup HasFile
      BY <1>0, <1>3, <2>1, OthersOut
    <2>3. Device_Open' = 0 /\ pc'[p] = "none"
      BY <1>0, <1>9, <2>1, QuitMoves DEF Decrement, Moves
    <2>4. GuardCounts'
      BY <2>2, <2>3 DEF GuardCounts, InOpen, HasFile
    <2>5. Inside' = {}
      BY <2>2, <2>3 DEF Inside, InOpen, HasFile
    <2> QED
      BY <1>2, <2>4, <2>5 DEF Sound, OneInside
  <1>10. ~Fault(p)
    BY <1>2 DEF Fault
  <1> QED
    BY <1>5, <1>6, <1>7, <1>8, <1>9, <1>10 DEF Step

-----------------------------------------------------------------------------
(* The invariant. *)

LEMMA InitInv == Init => IInv
  <1> SUFFICES ASSUME Init PROVE IInv
    OBVIOUS
  <1>1. \A p \in Processes : pc[p] = "none"
    BY DEF Init
  <1>2. TypeOK
    <2>1. timer \in 0 .. 255 /\ asked \in Nat /\ Device_Open \in Int
      BY DEF Init
    <2>2. pc \in [Processes -> Pc]
      BY DEF Init, Pc
    <2>3. cmd \in [Processes -> Cmd \cup {NoCmd}] /\ read \in [Processes -> Int]
      BY DEF Init
    <2> QED
      BY <2>1, <2>2, <2>3 DEF Init, TypeOK
  <1>3. GuardCounts /\ OneInside
    BY <1>1 DEF Init, GuardCounts, OneInside, Inside, InOpen, HasFile
  <1> QED
    BY <1>2, <1>3 DEF Init, IInv, Sound, StaleInv, TimerInv

LEMMA ModuleSteps ==
  ASSUME IInv, wd_init \/ wd_gpio_init \/ wd_exit
  PROVE  IInv'
  <1>0. TypeOK /\ StaleInv /\ TimerInv /\ (~raced => Sound)
    BY DEF IInv
  <1>1. CASE wd_init
    <2>1. TypeOK' /\ StaleInv' /\ TimerInv'
      <3>1. /\ loaded' = TRUE /\ initing' = TRUE /\ Device_Open' = 0 /\ asked' = 0
            /\ early' = FALSE /\ raced' \in BOOLEAN
            /\ UNCHANGED <<timer, pc, cmd, read, stale>>
        BY <1>1 DEF wd_init, tool
      <3>2. TypeOK'
        <4>1. /\ loaded' \in BOOLEAN /\ initing' \in BOOLEAN /\ early' \in BOOLEAN
              /\ raced' \in BOOLEAN
          BY <3>1
        <4>2. Device_Open' \in Int /\ asked' \in Nat
          BY <3>1
        <4>3. UNCHANGED <<timer, pc, cmd, read, stale>>
          BY <3>1
        <4> QED
          BY <1>0, <4>1, <4>2, <4>3 DEF TypeOK
      <3>3. StaleInv'
        BY <1>0, <3>1 DEF StaleInv
      <3>4. TimerInv'
        BY <3>1 DEF TimerInv
      <3> QED
        BY <3>2, <3>3, <3>4
    <2>2. ASSUME ~raced' PROVE Sound'
      <3>1. Inside = {} /\ Inside' = {} /\ pc' = pc /\ stale' = stale
        BY <1>1, <2>2 DEF wd_init, tool, Inside
      <3>2. \A p \in Processes : pc'[p] \notin InOpen \cup HasFile
        BY <3>1 DEF Inside
      <3>3. stale = {}
        BY <1>0, <3>1 DEF StaleInv, TypeOK, Inside
      <3>4. Device_Open' = 0
        BY <1>1 DEF wd_init
      <3>5. GuardCounts'
        BY <3>2, <3>4 DEF GuardCounts, InOpen, HasFile
      <3> QED
        BY <3>1, <3>3, <3>5 DEF Sound, OneInside
    <2> QED
      BY <2>1, <2>2 DEF IInv
  <1>2. CASE wd_gpio_init
    <2>1. TypeOK' /\ StaleInv' /\ TimerInv'
      <3>1. timer' = 0 /\ initing' = FALSE /\ 0 \in 0 .. 255
        BY <1>2 DEF wd_gpio_init
      <3> QED
        BY <1>0, <1>2, <3>1 DEF wd_gpio_init, tool, history, TypeOK, StaleInv, TimerInv
    <2>2. Sound => Sound'
      BY <1>2 DEF wd_gpio_init, tool, Sound, GuardCounts, OneInside, Inside
    <2> QED
      BY <1>0, <1>2, <2>1, <2>2 DEF IInv, wd_gpio_init, history
  <1>3. CASE wd_exit
    <2>1. TypeOK' /\ StaleInv' /\ TimerInv'
      BY <1>0, <1>3 DEF wd_exit, Inside, TypeOK, StaleInv, TimerInv
    <2>2. ASSUME ~raced' PROVE Sound'
      <3>1. Inside = {} /\ Sound /\ Inside' = {}
        BY <1>0, <1>3, <2>2 DEF wd_exit, Inside
      <3>2. GuardCounts'
        BY <1>3, <3>1 DEF wd_exit, Sound, GuardCounts
      <3>3. stale' = {}
        BY <1>3, <3>1 DEF wd_exit, Sound, OneInside
      <3> QED
        BY <3>1, <3>2, <3>3 DEF Sound, OneInside
    <2> QED
      BY <2>1, <2>2 DEF IInv
  <1> QED
    BY <1>1, <1>2, <1>3

LEMMA StepInv == IInv /\ [Next]_vars => IInv'
  <1> SUFFICES ASSUME IInv, [Next]_vars PROVE IInv'
    OBVIOUS
  <1>1. CASE UNCHANGED vars
    <2>1. TypeOK' /\ StaleInv' /\ TimerInv'
      BY <1>1 DEF vars, tool, history, IInv, TypeOK, StaleInv, TimerInv
    <2>2. Sound => Sound'
      BY <1>1 DEF vars, tool, history, Sound, GuardCounts, OneInside, Inside
    <2> QED
      BY <1>1, <2>1, <2>2 DEF vars, history, IInv
  <1>2. CASE wd_init \/ wd_gpio_init \/ wd_exit
    BY <1>2, ModuleSteps
  <1>3. ASSUME NEW p \in Processes, Run(p) \/ Step(p) PROVE IInv'
    BY <1>3, StepTypes, StepSound DEF IInv
  <1> QED
    BY <1>1, <1>2, <1>3 DEF Next

LEMMA Invariance == Spec => []IInv
  BY InitInv, StepInv, PTL DEF Spec

\* Every variable of the driver and the tool keeps its type, raced or not.
THEOREM TypeCorrect == Spec => []TypeOK
  <1>1. IInv => TypeOK
    BY DEF IInv
  <1> QED
    BY <1>1, Invariance, PTL

\* Nothing but two opens between their test and their increment, or a module
\* unloaded in use, lets a second process have the device ...
THEOREM OneFileCorrect == Spec => []OneFileUnlessRaced
  <1>1. IInv => OneFileUnlessRaced
    BY DEF IInv, Sound, OneInside, OneFileUnlessRaced, OneFile, OpenFiles, Inside
  <1> QED
    BY <1>1, Invariance, PTL

\* ... or keeps the next one out when the device is closed.
THEOREM GuardCorrect == Spec => []ReadyForNextCaller
  <1>1. IInv => ReadyForNextCaller
    BY DEF IInv, Sound, GuardCounts, ReadyForNextCaller, Inside
  <1> QED
    BY <1>1, Invariance, PTL

\* The watchdog counts what the last command carried out asked for, whatever
\* numbers were given to the tool, unless the load undid it.
THEOREM TimerCorrect == Spec => []TimerAsAsked
  <1>1. IInv => TimerAsAsked
    BY DEF IInv, TimerAsAsked, TimerInv
  <1> QED
    BY <1>1, Invariance, PTL

-----------------------------------------------------------------------------
(* The device comes back: the part of DeviceFreed that needs no fairness. *)

\* The stages between a process and the end of its use of the device.
StagesLeft(p) ==
  CASE pc[p] = "user" -> 3 [] pc[p] = "close" -> 2 [] pc[p] = "release" -> 1
    [] OTHER -> 0

\* Unless something has raced, the device is taken only while one process has
\* it open.
TakenByOne ==
  Device_Open # 0 /\ ~raced =>
    \E p \in OpenFiles : OpenFiles = {p} /\ StagesLeft(p) \in 1 .. 3

\* That process stays where it is, or comes closer to giving the device back;
\* when it has none left the guard is 0 again.  Nobody else gets the device
\* meanwhile, and nothing but rmmod can race with it.
GoesOn(p) ==
  \/ wd_exit
  \/ pc'[p] = pc[p] /\ UNCHANGED <<OpenFiles, Device_Open, loaded, raced>>
  \/ /\ StagesLeft(p)' < StagesLeft(p) /\ UNCHANGED <<loaded, raced>>
     /\ IF StagesLeft(p)' = 0 THEN OpenFiles' = {} /\ Device_Open' = 0
                              ELSE UNCHANGED <<OpenFiles, Device_Open>>

HolderGoesOn == [][~raced => \A p \in OpenFiles : GoesOn(p)]_vars

LEMMA InvTaken == IInv => TakenByOne
  <1> SUFFICES ASSUME IInv, Device_Open # 0, ~raced PROVE
                 \E p \in OpenFiles : OpenFiles = {p} /\ StagesLeft(p) \in 1 .. 3
    BY DEF TakenByOne
  <1>0. Sound
    BY DEF IInv
  <1>1. PICK p \in Processes : pc[p] \in HasFile
    BY <1>0 DEF Sound, GuardCounts
  <1>2. p \in OpenFiles /\ OpenFiles = {p}
    BY <1>0, <1>1 DEF Sound, OneInside, OpenFiles, Inside
  <1>3. StagesLeft(p) \in 1 .. 3
    BY <1>1 DEF StagesLeft, HasFile
  <1> QED
    BY <1>2, <1>3

\* The one that has the device, and what a step may do to it.
LEMMA HolderStep ==
  ASSUME IInv, ~raced, Next, NEW p \in OpenFiles
  PROVE  GoesOn(p)
  <1>0. TypeOK /\ Sound
    BY DEF IInv
  <1>1. /\ p \in Processes /\ pc[p] \in HasFile /\ p \in Inside /\ Device_Open = 1
        /\ OpenFiles = {p}
    BY <1>0 DEF OpenFiles, Inside, Sound, OneInside, GuardCounts
  <1>2. loaded /\ \A q \in Processes \ {p} : pc[q] \notin InOpen \cup HasFile
    BY <1>0, <1>1, OthersOut
  <1>3. CASE wd_init \/ wd_gpio_init \/ wd_exit
    <2>1. CASE wd_gpio_init
      <3>1. pc' = pc /\ UNCHANGED <<OpenFiles, Device_Open, loaded, raced>>
        BY <2>1 DEF wd_gpio_init, tool, history, OpenFiles
      <3> QED
        BY <3>1 DEF GoesOn
    <2> QED
      BY <1>2, <1>3, <2>1 DEF wd_init, GoesOn
  <1>4. ASSUME NEW q \in Processes, Run(q) \/ Step(q), q # p
        PROVE  GoesOn(p)
    <2>1. pc[q] \notin HasFile /\ pc[q] \notin InOpen
      BY <1>2, <1>4
    <2>2. Run(q) \/ wd_open_fails(q)
      <3>1. ~wd_open(q)
        BY <1>1 DEF wd_open
      <3>2. ~(IncrementTested(q) \/ ReadAgain(q) \/ IncrementRead(q))
        BY <2>1 DEF IncrementTested, ReadAgain, IncrementRead, InOpen
      <3>3. ~(wd_ioctl(q) \/ GiveUp(q) \/ wd_release(q) \/ Decrement(q))
        BY <2>1 DEF wd_ioctl, GiveUp, wd_release, Decrement, HasFile
      <3>4. ~Fault(q)
        BY <1>0 DEF Fault, Sound, OneInside
      <3> QED
        BY <1>4, <3>1, <3>2, <3>3, <3>4 DEF Step
    <2>3. \E label \in {"start", "none"} : Moves(q, label)
      <3>1. CASE Run(q)
        BY <1>0, <3>1, GotoMoves DEF Run, Pc
      <3>2. CASE wd_open_fails(q)
        BY <1>0, <3>2, QuitMoves DEF wd_open_fails
      <3> QED
        BY <2>2, <3>1, <3>2
    <2>4. \A r \in Processes : pc'[r] \in HasFile <=> pc[r] \in HasFile
      BY <2>1, <2>3 DEF Moves, HasFile
    <2>5. pc'[p] = pc[p]
      BY <1>1, <1>4, <2>3 DEF Moves
    <2>6. UNCHANGED <<Device_Open, loaded, raced>>
      BY <2>2 DEF Run, wd_open_fails, history
    <2>7. OpenFiles' = OpenFiles
      BY <2>4 DEF OpenFiles
    <2> QED
      BY <2>5, <2>6, <2>7 DEF GoesOn
  <1>5. CASE Run(p) \/ Step(p)
    <2>1. CASE wd_ioctl(p) \/ GiveUp(p) \/ wd_release(p)
      <3>1. PICK label \in {"close", "release"} :
              Moves(p, label) /\ <<pc[p], label>> \in {<<"user", "close">>, <<"close", "release">>}
        BY <1>0, <1>1, <2>1, GotoMoves DEF wd_ioctl, GiveUp, wd_release, Pc, HasFile
      <3>2. UNCHANGED <<Device_Open, loaded, raced>>
        BY <2>1 DEF wd_ioctl, GiveUp, wd_release, history
      <3>3. \A r \in Processes : pc'[r] \in HasFile <=> pc[r] \in HasFile
        BY <3>1 DEF Moves, HasFile
      <3>4. StagesLeft(p)' < StagesLeft(p) /\ StagesLeft(p)' # 0
        BY <3>1 DEF Moves, StagesLeft
      <3>5. OpenFiles' = OpenFiles
        BY <3>3 DEF OpenFiles
      <3> QED
        BY <3>2, <3>4, <3>5 DEF GoesOn
    <2>2. CASE Decrement(p)
      <3>1. Moves(p, "none") /\ UNCHANGED <<loaded, raced>> /\ pc[p] = "release"
        BY <1>0, <1>1, <2>2, QuitMoves DEF Decrement, history
      <3>2. Device_Open' = 0
        BY <1>0, <1>1, <2>2 DEF Decrement, Sound, GuardCounts
      <3>3. \A r \in Processes : pc'[r] \notin HasFile
        BY <1>1, <1>2, <3>1 DEF Moves, HasFile
      <3>4. StagesLeft(p)' = 0 /\ StagesLeft(p) = 1
        BY <3>1 DEF Moves, StagesLeft
      <3>5. OpenFiles' = {}
        BY <3>3 DEF OpenFiles
      <3> QED
        BY <3>1, <3>2, <3>4, <3>5 DEF GoesOn
    <2>3. ~(Run(p) \/ wd_open_fails(p) \/ wd_open(p) \/ IncrementTested(p) \/ ReadAgain(p)
            \/ IncrementRead(p))
      BY <1>1 DEF Run, wd_open_fails, wd_open, IncrementTested, ReadAgain, IncrementRead, HasFile
    <2>4. ~Fault(p)
      BY <1>0 DEF Fault, Sound, OneInside
    <2> QED
      BY <1>5, <2>1, <2>2, <2>3, <2>4 DEF Step
  <1> QED
    BY <1>3, <1>4, <1>5 DEF Next

\* Unless opens have raced or rmmod comes in, a device that is taken has one
\* holder, with at most three stages to go, and every step of the holder takes
\* it to a later one, the last of which gives the device back: with a CPU that
\* comes back to the holder, so does the device.
THEOREM HolderBounded == Spec => []TakenByOne /\ HolderGoesOn
  <1>1. IInv /\ [Next]_vars => [~raced => \A p \in OpenFiles : GoesOn(p)]_vars
    BY HolderStep
  <1> QED
    BY <1>1, InvTaken, Invariance, PTL DEF Spec, HolderGoesOn

=============================================================================
