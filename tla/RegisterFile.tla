---------------------------- MODULE RegisterFile ----------------------------
(***************************************************************************)
(* What the callers of the Super-IO functions are promised: a file of      *)
(* registers in which every access of an operation happens at once.  A     *)
(* kernel operation carries out its accesses, all of them and in order.    *)
(* A program with direct port access has no such promise: an access of it  *)
(* may come to nothing, but it never reaches another register.             *)
(***************************************************************************)
EXTENDS SioPrograms

CONSTANTS Tasks, UserTasks, OpsOf, Cells

VARIABLES
  regs,   \* the contents of every register
  work    \* for each task, the accesses still to be made

fileVars == <<regs, work>>

FileInit ==
  /\ regs \in [Cells -> Byte]
  /\ work = [t \in Tasks |-> << >>]

Call(t) ==
  \E op \in OpsOf[t] :
    /\ work[t] = << >>
    /\ work' = [work EXCEPT ![t] = Program(op)]
    /\ UNCHANGED regs

Apply(t) ==
  /\ work[t] # << >>
  /\ work' = [work EXCEPT ![t] = Tail(@)]
  /\ LET access == Head(work[t]) IN
       IF Writes(access)
         THEN regs' = [regs EXCEPT ![CellOf(access)] = Outcome(access, @)]
         ELSE UNCHANGED regs

\* A user program's access had no effect, or the program was killed.
Lose(t) ==
  /\ t \in UserTasks
  /\ work[t] # << >>
  /\ \/ work' = [work EXCEPT ![t] = Tail(@)]
     \/ work' = [work EXCEPT ![t] = << >>]
  /\ UNCHANGED regs

FileNext == \E t \in Tasks : Call(t) \/ Apply(t) \/ Lose(t)

FileSpec == FileInit /\ [][FileNext]_fileVars

=============================================================================
