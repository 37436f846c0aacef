--------------------------------- MODULE Lcm ---------------------------------
(***************************************************************************)
(* The LCM utility of the NCB-5220: lcm_tst shows two lines on the display *)
(* behind a serial line, or waits for one of its buttons, through ioctls   *)
(* of the lcm driver.  The driver collects the characters of a line in a   *)
(* static buffer, which outlives the run that filled it.  Runs follow one  *)
(* another (WdDriver shows when) and may be killed between two ioctls, but *)
(* not inside LCM_BTN, which never looks for a signal.                     *)
(* The transmitter of the UART is taken to work: the wait for it without a *)
(* bound in LCM_init comes to its end, and none of SerialPortWrite's waits *)
(* runs out, which would drop a byte and go on with the next.              *)
(***************************************************************************)
EXTENDS Integers, Sequences

CONSTANTS
  Width,     \* characters of a line, and of the driver's buffer: 16
  Keys,      \* the bytes the buttons send, 'A' to 'D'
  Noise,     \* a byte that is none of them
  Fifo,      \* bytes the receiver of the UART holds: 16
  Kills,     \* may a run be killed?
  StackKeys  \* may an uninitialised variable happen to hold a key?

ASSUME LcmAssumption ==
  /\ Width \in Nat \ {0} /\ Fifo \in Nat \ {0}
  /\ Noise \notin Keys
  /\ Kills \in BOOLEAN /\ StackKeys \in BOOLEAN

Cols == 0 .. (Width - 1)
Line == 1 .. 2

\* A character is known by its line and its place in text1 or text2; neither
\* text has the space that would end its loop early.
Command == {"show", "btn", "clr", "wrong"}

Nul == <<0, 0>>
Blank == <<0, 1>>
Char == (Line \X Cols) \cup {Nul}
Text == [l \in Line |-> [c \in Cols |-> <<l, c>>]]

VARIABLES
  text, j,     \* the driver's buffer and the place of the next character
  display,     \* what the two lines show
  row,         \* the line whose start the display's cursor is at; 0: elsewhere
  configured,  \* is the UART set up for the display?
  rx,          \* the bytes in the receiver
  read,        \* the variable of LCM_BTN
  pc, op, i,   \* where the run of lcm_tst is, its command and its loop index
  start        \* j when the run began; not in the code

screen == <<display, row>>
vars == <<text, j, display, row, configured, rx, read, pc, op, i, start>>

Cleared == [l \in Line |-> [c \in Cols |-> Blank]]

\* The driver is loaded.  Whatever the display shows, its cursor is somewhere.
Init ==
  /\ text = [c \in Cols |-> Nul] /\ j = 0
  /\ display = Cleared /\ row = 0
  /\ configured \in BOOLEAN /\ rx = << >> /\ read = Noise
  /\ pc = "none" /\ op = "clr" /\ i = 0
  /\ start = 0

-----------------------------------------------------------------------------
(* A run of lcm_tst, ioctl by ioctl. *)

Open ==
  /\ pc = "none" /\ pc' = "opened"
  /\ op' \in Command
  /\ i' = 0 /\ start' = j
  /\ UNCHANGED <<text, j, screen, configured, rx, read>>

\* A port that is set up already is left alone, with all it has received.
LCM_init ==
  /\ pc = "opened"
  /\ configured' = TRUE
  /\ rx' = IF configured THEN rx ELSE << >>
  /\ pc' = IF op = "btn" THEN "call" ELSE IF op = "wrong" THEN "done" ELSE "clr"
  /\ UNCHANGED <<text, j, screen, read, op, i, start>>

\* Mutant: the clear command leaves the cursor where it is.
LCM_CLR_no_home ==
  /\ pc = "clr"
  /\ display' = Cleared
  /\ pc' = IF op = "show" THEN "line1" ELSE "done"
  /\ UNCHANGED <<text, j, row, configured, rx, read, op, i, start>>

LCM_CLR ==
  /\ pc = "clr"
  /\ display' = Cleared /\ row' = 1
  /\ pc' = IF op = "show" THEN "line1" ELSE "done"
  /\ UNCHANGED <<text, j, configured, rx, read, op, i, start>>

LCM_INS ==
  /\ pc = "ins"
  /\ row' = 2 /\ i' = 0
  /\ pc' = "line2"
  /\ UNCHANGED <<text, j, display, configured, rx, read, op, start>>

\* The text up to its first NUL, from the cursor on.
LCM_SHOW(t) ==
  /\ display' = [l \in Line |-> [c \in Cols |->
       IF l = row /\ \A b \in 0 .. c : t[b] # Nul THEN t[c] ELSE display[l][c]]]
  /\ row' = 0

\* Mutant: the end of the buffer is one too far.
Collect_more(ch) ==
  /\ text' = [text EXCEPT ![j] = ch]
  /\ IF j = Width
       THEN j' = 0 /\ LCM_SHOW(text')
       ELSE j' = j + 1 /\ UNCHANGED screen

\* Mutant: the buffer is not empty after a line is shown.
Collect_no_reset(ch) ==
  /\ text' = [text EXCEPT ![j] = ch]
  /\ IF j = Width - 1
       THEN UNCHANGED j /\ LCM_SHOW(text')
       ELSE j' = j + 1 /\ UNCHANGED screen

\* IOCTL_LCM_SHOW takes one character, and shows the line with the last one.
Collect(ch) ==
  /\ text' = [text EXCEPT ![j] = ch]
  /\ IF j = Width - 1
       THEN j' = 0 /\ LCM_SHOW(text')
       ELSE j' = j + 1 /\ UNCHANGED screen

\* Mutant: the loop ends one character early.
ShowChar_less(here, there, l) ==
  /\ pc = here
  /\ Collect(Text[l][i])
  /\ IF i = Width - 2 THEN pc' = there /\ UNCHANGED i
                      ELSE i' = i + 1 /\ UNCHANGED pc
  /\ UNCHANGED <<configured, rx, read, op, start>>

ShowChar(here, there, l) ==
  /\ pc = here
  /\ Collect(Text[l][i])
  /\ IF i = Width - 1 THEN pc' = there /\ UNCHANGED i
                      ELSE i' = i + 1 /\ UNCHANGED pc
  /\ UNCHANGED <<configured, rx, read, op, start>>

ShowLine1 == ShowChar("line1", "ins", 1)
ShowLine2 == ShowChar("line2", "done", 2)

\* LCM_BTN begins; its variable is not initialised.
CallBtn ==
  /\ pc = "call" /\ pc' = "btn"
  /\ read' \in (IF StackKeys THEN Keys ELSE {}) \cup {Noise}
  /\ UNCHANGED <<text, j, screen, configured, rx, op, i, start>>

\* Mutant: a byte that is looked at stays in the receiver.
LCM_BTN_peek ==
  /\ pc = "btn" /\ rx # << >>
  /\ read' = Head(rx)
  /\ IF read' \in Keys
       THEN pc' = "done"
       ELSE UNCHANGED pc
  /\ UNCHANGED <<text, j, screen, configured, rx, op, i, start>>

\* One turn of its loop: GetSerialData takes a byte, or gives up and leaves
\* the variable as it is.
LCM_BTN ==
  /\ pc = "btn"
  /\ IF rx = << >>
       THEN UNCHANGED <<rx, read>>
       ELSE read' = Head(rx) /\ rx' = Tail(rx)
  /\ IF read' \in Keys
       THEN pc' = "done"
       ELSE UNCHANGED pc
  /\ UNCHANGED <<text, j, screen, configured, op, i, start>>

Close ==
  /\ pc = "done" /\ pc' = "none"
  /\ UNCHANGED <<text, j, screen, configured, rx, read, op, i, start>>

Kill ==
  /\ Kills /\ pc \notin {"none", "btn"} /\ pc' = "none"
  /\ UNCHANGED <<text, j, screen, configured, rx, read, op, i, start>>

\* A button; its byte may be garbled, and always is at another rate than the
\* display's.
Press ==
  /\ Len(rx) < Fifo
  /\ \E byte \in (IF configured THEN Keys ELSE {}) \cup {Noise} : rx' = Append(rx, byte)
  /\ UNCHANGED <<text, j, screen, configured, read, pc, op, i, start>>

Step ==
  \/ LCM_init \/ LCM_CLR \/ LCM_INS \/ ShowLine1 \/ ShowLine2
  \/ CallBtn \/ LCM_BTN \/ Close

Next == Open \/ Step \/ Kill \/ Press

Spec == Init /\ [][Next]_vars

\* The tool runs on: apart from LCM_BTN it waits for nothing.
FairSpec == Spec /\ WF_vars(Step)

-----------------------------------------------------------------------------
(* Properties. *)

\* Type invariant.
TypeOK ==
  /\ text \in [Cols -> Char] /\ j \in Cols
  /\ display \in [Line -> [Cols -> Char \cup {Blank}]] /\ row \in 0 .. 2
  /\ configured \in BOOLEAN /\ rx \in Seq(Keys \cup {Noise})
  /\ read \in Keys \cup {Noise}
  /\ pc \in {"none", "opened", "clr", "line1", "ins", "line2", "call", "btn", "done"}
  /\ op \in Command /\ i \in Cols
  /\ start \in Cols

\* A run of -show that finds the buffer empty and is not killed ends with both
\* texts in their lines, whatever killed runs have left in the buffer's cells
\* and on the display.
LinesShown ==
  pc = "done" /\ op = "show" /\ start = 0 => display = Text

\* The driver writes a line only when the cursor is at the start of one: text
\* never runs off the end of a line, however the buffer is shifted.
ShownAtLineStart == pc \in {"line1", "line2"} /\ j = Width - 1 => row # 0

\* A complete run leaves the buffer as far filled as it found it: nothing but
\* another kill or a reload mends the shift that a killed run has caused.
ShiftStays == pc = "done" => j = start

\* -btn ends once a button is pressed, whatever else has been received.
KeyWaiting == \E n \in 1 .. Len(rx) : rx[n] \in Keys
BtnAnswers == pc = "btn" /\ KeyWaiting ~> pc = "none"

\* -show shows on each line what it says it does.
LinesAsPrinted == pc = "done" /\ op = "show" => display = Text

=============================================================================
