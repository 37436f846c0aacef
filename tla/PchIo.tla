-------------------------------- MODULE PchIo --------------------------------
(***************************************************************************)
(* The three drivers of the NCB-5220 that sit on the pins of the PCH, and  *)
(* their tools: digital IO (dio_tst), case open (cp_tst) and software      *)
(* button (btn_tst).  A process runs one tool; several may run the same    *)
(* one.  The four inputs are wired to the four outputs, as dio's readme    *)
(* suggests for its test.                                                  *)
(*                                                                         *)
(* Which level of its pad means that the button is pressed is contradicted *)
(* by the sources: a comment of sw_btn's ioaccess.c says 1, btn_tst says   *)
(* "was pressed" on 0.  "line" is the level, and nothing here depends on   *)
(* which of them is right.                                                 *)
(***************************************************************************)
EXTENDS Integers, Sequences

CONSTANTS
  Procs, ToolOf,  \* processes, and the tool each of them runs
  Leftovers       \* what cp_tst's c may hold before anything is read into it

Pins == 0 .. 3
Tools == {"dio", "cp", "btn"}
Patterns == [Pins -> {0, 1}]

ASSUME PchIoAssumption ==
  /\ ToolOf \in [Procs -> Tools]
  /\ Leftovers \subseteq {"y", "other"}

VARIABLES
  GPO,          \* bit 0 of the output pads
  line,         \* the level at the button's pad
  open,         \* the case is open
  intruder,     \* the latched status bit of the PCH
  Device_Open,  \* of each driver
  ph,           \* where each process is in its tool
  round,        \* which pattern dio_tst is at
  value,        \* what each process asks for or has read
  pin,          \* the next pin of the ioctl under way
  c             \* cp_tst's answer

world == <<line, open, intruder>>
vars == <<GPO, line, open, intruder, Device_Open, ph, round, value, pin, c>>

Low == [i \in Pins |-> 0]
High == [i \in Pins |-> 1]
\* 0x0f, 0x00, 0x05 and 0x0a.
Test == <<High, Low, [i \in Pins |-> (i + 1) % 2], [i \in Pins |-> i % 2]>>

Init ==
  /\ GPO \in {Low, High}
  /\ line = 1 /\ open = FALSE /\ intruder \in {0, 1}
  /\ Device_Open = [t \in Tools |-> 0]
  /\ ph = [p \in Procs |-> "idle"]
  /\ round = [p \in Procs |-> 1]
  /\ value = [p \in Procs |-> Low]
  /\ pin = 0
  /\ c = [p \in Procs |-> "other"]

\* An ioctl keeps the CPU, of which there is assumed to be one; the world
\* outside goes on.
InIoctl(p) == ph[p] \in {"setting", "getting"}
CanRun(p) == \A q \in Procs \ {p} : ~InIoctl(q)

At(p, tool, from, to) ==
  /\ ToolOf[p] = tool /\ ph[p] = from /\ CanRun(p)
  /\ ph' = [ph EXCEPT ![p] = to]

First == [t \in Tools |-> CASE t = "dio" -> "set" [] t = "cp" -> "look" [] t = "btn" -> "poll"]

-----------------------------------------------------------------------------
(* The opening and closing of a device. *)

\* A tool that finds its device open ends at once.
Open(p) ==
  /\ At(p, ToolOf[p], "idle", First[ToolOf[p]])
  /\ Device_Open[ToolOf[p]] = 0
  /\ Device_Open' = [Device_Open EXCEPT ![ToolOf[p]] = @ + 1]
  /\ c' \in {[c EXCEPT ![p] = x] : x \in IF ToolOf[p] = "cp" THEN Leftovers ELSE {c[p]}}
  /\ UNCHANGED <<GPO, world, round, value, pin>>

\* The end of a tool, or its death between two system calls; its variables go
\* with it.
Close(p) ==
  /\ ph[p] # "idle" /\ ~InIoctl(p) /\ CanRun(p)
  /\ ph' = [ph EXCEPT ![p] = "idle"]
  /\ Device_Open' = [Device_Open EXCEPT ![ToolOf[p]] = @ - 1]
  /\ round' = [round EXCEPT ![p] = 1] /\ value' = [value EXCEPT ![p] = Low]
  /\ c' = [c EXCEPT ![p] = "other"]
  /\ UNCHANGED <<GPO, world, pin>>

-----------------------------------------------------------------------------
(* dio_tst: four patterns, each set and read back. *)

SetOutput(p) ==
  /\ At(p, "dio", "set", "setting")
  /\ value' = [value EXCEPT ![p] = Test[round[p]]]
  /\ pin' = 0
  /\ UNCHANGED <<GPO, world, Device_Open, round, c>>

\* Mutant: the last pin is forgotten.
dio_set_output_three(p) ==
  /\ At(p, "dio", "setting", IF pin = 2 THEN "get" ELSE "setting")
  /\ GPO' = [GPO EXCEPT ![pin] = value[p][pin]]
  /\ pin' = (pin + 1) % 3
  /\ UNCHANGED <<world, Device_Open, round, value, c>>

\* set_output: a read-modify-write of one pad after another.
dio_set_output(p) ==
  /\ At(p, "dio", "setting", IF pin = 3 THEN "get" ELSE "setting")
  /\ GPO' = [GPO EXCEPT ![pin] = value[p][pin]]
  /\ pin' = (pin + 1) % 4
  /\ UNCHANGED <<world, Device_Open, round, value, c>>

GetInput(p) ==
  /\ At(p, "dio", "get", "getting")
  /\ value' = [value EXCEPT ![p] = Low]
  /\ pin' = 0
  /\ UNCHANGED <<GPO, world, Device_Open, round, c>>

\* The pin of a pad is its bit 1; that of an input follows its output.
dio_get_input(p) ==
  /\ At(p, "dio", "getting", IF pin = 3 THEN "readback" ELSE "getting")
  /\ value' = [value EXCEPT ![p][pin] = GPO[pin]]
  /\ pin' = (pin + 1) % 4
  /\ UNCHANGED <<GPO, world, Device_Open, round, c>>

\* Mutant: the loop over the patterns goes one too far.
NextPattern_past(p) ==
  /\ round[p] <= Len(Test)
  /\ At(p, "dio", "readback", "set")
  /\ round' = [round EXCEPT ![p] = @ + 1]
  /\ UNCHANGED <<GPO, world, Device_Open, value, pin, c>>

NextPattern(p) ==
  /\ round[p] < Len(Test)
  /\ At(p, "dio", "readback", "set")
  /\ round' = [round EXCEPT ![p] = @ + 1]
  /\ UNCHANGED <<GPO, world, Device_Open, value, pin, c>>

-----------------------------------------------------------------------------
(* cp_tst and btn_tst. *)

Bit(b) == [Low EXCEPT ![0] = b]

get_intruder_status == intruder

\* With the case open the question is put; otherwise c is as it was.
GetStatus(p) ==
  /\ At(p, "cp", "look",
        IF get_intruder_status = 1 THEN "ask" ELSE IF c[p] = "y" THEN "clear" ELSE "told")
  /\ value' = [value EXCEPT ![p] = Bit(get_intruder_status)]
  /\ UNCHANGED <<GPO, world, Device_Open, round, pin, c>>

Answer(p) ==
  \E x \in {"y", "other"} :
    /\ At(p, "cp", "ask", IF x = "y" THEN "clear" ELSE "told")
    /\ c' = [c EXCEPT ![p] = x]
    /\ UNCHANGED <<GPO, world, Device_Open, round, value, pin>>

\* Writing 1 clears the bit, which an open case sets again.
ClearStatus(p) ==
  /\ At(p, "cp", "clear", "told")
  /\ intruder' = IF open THEN 1 ELSE 0
  /\ UNCHANGED <<GPO, line, open, Device_Open, round, value, pin, c>>

\* Mutant: another bit of the pad.
get_btn_status_other == 1

get_btn_status == line

Poll(p) ==
  /\ At(p, "btn", "poll", IF get_btn_status = 0 THEN "told" ELSE "poll")
  /\ value' = [value EXCEPT ![p] = Bit(get_btn_status)]
  /\ UNCHANGED <<GPO, world, Device_Open, round, pin, c>>

-----------------------------------------------------------------------------
(* People at the case. *)

OpenCase ==
  /\ ~open /\ open' = TRUE /\ intruder' = 1
  /\ UNCHANGED <<GPO, line, Device_Open, ph, round, value, pin, c>>

ShutCase ==
  /\ open /\ open' = FALSE
  /\ UNCHANGED <<GPO, line, intruder, Device_Open, ph, round, value, pin, c>>

PressOrRelease ==
  /\ line' = 1 - line
  /\ UNCHANGED <<GPO, open, intruder, Device_Open, ph, round, value, pin, c>>

Dio(p) ==
  \/ SetOutput(p) \/ dio_set_output(p) \/ GetInput(p) \/ dio_get_input(p) \/ NextPattern(p)
Cp(p) == GetStatus(p) \/ Answer(p) \/ ClearStatus(p)

Next ==
  \/ \E p \in Procs : Open(p) \/ Close(p) \/ Dio(p) \/ Cp(p) \/ Poll(p)
  \/ OpenCase \/ ShutCase \/ PressOrRelease

\* The CPU is given to every process again and again, and an ioctl goes on
\* once it has begun.
Fairness ==
  \A p \in Procs : SF_vars(Poll(p)) /\ WF_vars(dio_set_output(p)) /\ WF_vars(dio_get_input(p))

Spec == Init /\ [][Next]_vars /\ Fairness

-----------------------------------------------------------------------------
(* Properties. *)

\* Type invariant.
TypeOK ==
  /\ GPO \in Patterns
  /\ line \in {0, 1} /\ open \in BOOLEAN /\ intruder \in {0, 1}
  /\ Device_Open \in [Tools -> {0, 1}]
  /\ ph \in [Procs -> {"idle", "set", "setting", "get", "getting", "readback", "look", "ask",
                       "clear", "told", "poll"}]
  /\ round \in [Procs -> 1 .. 4]
  /\ value \in [Procs -> Patterns]
  /\ pin \in Pins
  /\ c \in [Procs -> {"y", "other"}]

\* With outputs and inputs connected dio_tst reads back the pattern it has
\* set, however many processes try to run it and wherever some are killed.
ReadsBack ==
  \A p \in Procs : ph[p] = "readback" => value[p] = Test[round[p]] /\ GPO = value[p]

\* btn_tst comes to its message, whatever the other tools do, once the level it
\* takes for a pressed button stays.
LowLevelSeen ==
  \A p \in Procs : ph[p] = "poll" /\ line = 0 ~> ph[p] # "poll" \/ line = 1

=============================================================================
