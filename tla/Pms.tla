--------------------------------- MODULE Pms ---------------------------------
(***************************************************************************)
(* The power supply tool of the NCB-5220, run after run: which supply and  *)
(* which of its outputs each printed reading comes from, and the warning   *)
(* at the end.  What a register holds is abstracted to where it was read.  *)
(* A transaction is atomic (Smbus has its steps) but may fail, which only  *)
(* the probe at the beginning of a run looks at.                           *)
(***************************************************************************)
EXTENDS Linear11

CONSTANTS
  Senses,      \* the readings supplies may have, as functions on Measured
  FlagSets,    \* the conditions a status word may report together
  Faults       \* may a transaction with a supply that is there fail?

Supply == {1, 2}
Main == 0      \* the page of the 12V output
Standby == 32  \* the page of the 5Vsb output

\* The registers read, those among them that are kept per page, and those
\* read only if the status word says so.
Reg == {"PAGE", "MFR_FW_ID", "SN", "STATUS_WORD", "STATUS_TEMPERATURE",
        "STATUS_FANS_1_2", "STATUS_INPUT", "STATUS_IOUT", "STATUS_VOUT",
        "READ_VOUT", "READ_FAN_SPEED_1", "READ_TEMPTURE_1", "READ_TEMPTURE_2"}
Paged == {"STATUS_IOUT", "STATUS_VOUT", "READ_VOUT"}
Details == {"STATUS_TEMPERATURE", "STATUS_FANS_1_2", "STATUS_INPUT",
            "STATUS_IOUT", "STATUS_VOUT"}

\* Where a content comes from: supply, register and page.
Source == Supply \X Reg \X {Main, Standby}
Nothing == <<0, "PAGE", Main>>
Origin(m, reg, pg) == <<m, reg, IF reg \in Paged THEN pg ELSE Main>>

\* The five readings of a supply, as they are labelled.
Readings == {"12V", "5Vsb", "Fan_Speed", "Temp1", "Temp2"}
RegOf(label) ==
  CASE label \in {"12V", "5Vsb"} -> "READ_VOUT"
    [] label = "Fan_Speed" -> "READ_FAN_SPEED_1"
    [] label = "Temp1" -> "READ_TEMPTURE_1"
    [] label = "Temp2" -> "READ_TEMPTURE_2"
    [] OTHER -> label
PageOf(label) == IF label = "5Vsb" THEN Standby ELSE Main
Right(label, m) == Origin(m, RegOf(label), PageOf(label))
Measured == {Right(label, m) : label \in Readings, m \in Supply}

ASSUME PmsAssumption ==
  /\ Senses \subseteq [Measured -> Word]
  /\ FlagSets \subseteq SUBSET Details
  /\ Faults \in BOOLEAN

VARIABLES
  plugged,  \* the supplies that are there
  on,       \* GPP_K11 is low: the bus is switched to the supplies
  page,     \* the PAGE register of each supply, which outlives a run
  sense,    \* the readings
  pc, mod,  \* where the run is, and for which supply
  absent,   \* SM_P1, SM_P2
  flags,    \* what WordValue says is to be looked into
  d0,       \* where the content of the controller's data register is from
  block_d,  \* where the content of the block buffer is from
  bWaring,
  shown,    \* what was printed last: label, supply, where it is from, and
            \* whether the transactions it rests on have succeeded
  turned,   \* has the last write of the page succeeded?  Not in the code.
  clean     \* has no transaction but a probe failed in this run?  Not in the code.

supplies == <<plugged, on, page, sense>>
vars == <<plugged, on, page, sense, pc, mod, absent, flags, d0, block_d, bWaring,
          shown, turned, clean>>

Blank == <<"SN", 1, Nothing, FALSE>>

Init ==
  /\ plugged \in SUBSET Supply /\ on \in BOOLEAN
  /\ page \in [Supply -> {Main, Standby}]
  /\ sense \in Senses
  /\ pc = "idle" /\ mod = 1 /\ absent = {} /\ flags = {}
  /\ d0 = Nothing /\ block_d = Nothing /\ bWaring = FALSE
  /\ shown = Blank /\ turned = FALSE /\ clean = TRUE

-----------------------------------------------------------------------------
(* Transactions. *)

Answers(m) == on /\ m \in plugged
MayFail(m) == {f \in BOOLEAN : (f \/ Answers(m)) /\ (f /\ Answers(m) => Faults)}

Goto(from, to) == pc = from /\ pc' = to
Outcome(fails) == clean' = (clean /\ (fails => pc = "probe"))

Fetch(reg, fails) ==
  /\ d0' = IF fails THEN d0 ELSE Origin(mod, reg, page[mod])
  /\ Outcome(fails)

\* read_byte or read_word for a line of the output.
Show(label, fails) ==
  /\ Fetch(RegOf(label), fails)
  /\ shown' = <<label, mod, d0', ~fails /\ (RegOf(label) \in Paged => turned)>>

\* Mutant: the page is left as it is.
SetPage_missing(pg, fails) ==
  /\ UNCHANGED <<supplies, d0>>
  /\ turned' = ~fails
  /\ Outcome(fails)

\* write_byte(Pwr_add, 0x00, pg)
SetPage(pg, fails) ==
  /\ page' = IF fails THEN page ELSE [page EXCEPT ![mod] = pg]
  /\ d0' = Origin(mod, "PAGE", Main)
  /\ turned' = ~fails
  /\ Outcome(fails)
  /\ UNCHANGED <<plugged, on, sense>>

-----------------------------------------------------------------------------
(* A run of pms without arguments. *)

Start ==
  /\ Goto("idle", "probe")
  /\ mod' = 1 /\ absent' = {} /\ flags' = {} /\ bWaring' = FALSE
  /\ block_d' = Nothing /\ shown' = Blank /\ turned' = FALSE /\ clean' = TRUE
  /\ UNCHANGED <<supplies, d0>>

\* Mutant: the loops count one supply too many.
Turn_past(from, first, next) ==
  /\ Goto(from, IF mod = 1 THEN first ELSE next)
  /\ mod' = mod + 1

\* To the other supply, or on with the first one.
Turn(from, first, next) ==
  /\ Goto(from, IF mod = 1 THEN first ELSE next)
  /\ mod' = 3 - mod

Probe ==
  /\ Turn("probe", "probe", "MFR_FW_ID")
  /\ \E fails \in MayFail(mod) :
       /\ Fetch("PAGE", fails)
       /\ absent' = IF fails THEN absent \cup {mod} ELSE absent
  /\ UNCHANGED <<supplies, flags, block_d, bWaring, shown, turned>>

\* A block transfer that fails stores as many bytes as the data register says,
\* at least one.
PowerMode ==
  /\ mod \notin absent
  /\ Goto("MFR_FW_ID", "SN")
  /\ \E fails \in MayFail(mod) :
       /\ Fetch("MFR_FW_ID", fails)
       /\ block_d' \in IF fails THEN {block_d, Nothing} ELSE {d0'}
       /\ shown' = <<"MFR_FW_ID", mod, block_d', ~fails>>
  /\ UNCHANGED <<supplies, mod, absent, flags, bWaring, turned>>

\* The eighteen bytes of the serial number in one step.
SerialNumber ==
  /\ Turn("SN", "MFR_FW_ID", "STATUS_WORD")
  /\ \E fails \in MayFail(mod) : Show("SN", fails)
  /\ UNCHANGED <<supplies, absent, flags, block_d, bWaring, turned>>

Absent ==
  /\ mod \in absent
  /\ \/ Turn("MFR_FW_ID", "MFR_FW_ID", "STATUS_WORD")
     \/ Turn("STATUS_WORD", "STATUS_WORD", "end")
  /\ UNCHANGED <<supplies, absent, flags, d0, block_d, bWaring, shown, turned, clean>>

Status ==
  /\ mod \notin absent
  /\ Goto("STATUS_WORD", "STATUS_TEMPERATURE")
  /\ \E fails \in MayFail(mod) : Show("STATUS_WORD", fails)
  /\ flags' \in FlagSets
  /\ UNCHANGED <<supplies, mod, absent, block_d, bWaring, turned>>

\* A condition is looked into if the status word reports it.
Detail(reg, to) ==
  /\ Goto(reg, to)
  /\ IF reg \in flags THEN \E fails \in MayFail(mod) : Show(reg, fails)
                      ELSE UNCHANGED <<d0, shown, clean>>
  /\ UNCHANGED <<supplies, mod, absent, flags, block_d, bWaring, turned>>

StatusDetails ==
  \/ Detail("STATUS_TEMPERATURE", "STATUS_FANS_1_2")
  \/ Detail("STATUS_FANS_1_2", "STATUS_INPUT")
  \/ Detail("STATUS_INPUT", "STATUS_IOUT")
  \/ Detail("STATUS_IOUT", IF "STATUS_VOUT" \in flags THEN "page_VOUT" ELSE "page_12V")
  \/ Detail("STATUS_VOUT", "page_12V")

Page(from, pg, to) ==
  /\ Goto(from, to)
  /\ \E fails \in MayFail(mod) : SetPage(pg, fails)
  /\ UNCHANGED <<mod, absent, flags, block_d, bWaring, shown>>

Pages ==
  \/ Page("page_VOUT", Main, "STATUS_VOUT")
  \/ Page("page_12V", Main, "12V")
  \/ Page("page_5Vsb", Standby, "5Vsb")

\* The ranges of the readings.  tmp, which takes speed and temperatures, is
\* unsigned, so that tmp <= 0 means 0.
OutOfRange(label, x) ==
  CASE label = "12V" -> AtMost(x, 10) \/ AtLeast(x, 14)
    [] label = "5Vsb" -> AtMost(x, 3) \/ AtLeast(x, 7)
    [] OTHER -> ToInt(x) = 0

\* What is in the data register after a failure may be half a reading.
Warn(label) ==
  IF d0' \in Measured
    THEN bWaring' = (bWaring \/ OutOfRange(label, lin5_11ToFloat1(sense[d0'])))
    ELSE bWaring' \in {bWaring, TRUE}

Measure(label, to) ==
  /\ Goto(label, to) /\ mod' = mod
  /\ \E fails \in MayFail(mod) : Show(label, fails)
  /\ Warn(label)
  /\ UNCHANGED <<supplies, absent, flags, block_d, turned>>

LastMeasure ==
  /\ Turn("Temp2", "STATUS_WORD", "end")
  /\ \E fails \in MayFail(mod) : Show("Temp2", fails)
  /\ Warn("Temp2")
  /\ UNCHANGED <<supplies, absent, flags, block_d, turned>>

Measures ==
  \/ Measure("12V", "page_5Vsb") \/ Measure("5Vsb", "Fan_Speed")
  \/ Measure("Fan_Speed", "Temp1") \/ Measure("Temp1", "Temp2")
  \/ LastMeasure

\* The end of a run, with its message if bWaring, and a kill before.
Exit ==
  /\ pc # "idle" /\ pc' = "idle"
  /\ UNCHANGED <<supplies, mod, absent, flags, d0, block_d, bWaring, shown, turned, clean>>

\* Between two runs a supply is taken out or put in.
Swap(m) ==
  /\ pc = "idle"
  /\ plugged' = IF m \in plugged THEN plugged \ {m} ELSE plugged \cup {m}
  /\ page' = [page EXCEPT ![m] = Main]
  /\ UNCHANGED <<on, sense, pc, mod, absent, flags, d0, block_d, bWaring, shown, turned, clean>>

\* pms -on and pms -off, also while another pms is at work.
SetGpioLvlSel ==
  /\ on' = ~on
  /\ UNCHANGED <<plugged, page, sense, pc, mod, absent, flags, d0, block_d, bWaring, shown,
                 turned, clean>>

Next ==
  \/ Start \/ Probe \/ PowerMode \/ SerialNumber \/ Absent \/ Status \/ StatusDetails
  \/ Pages \/ Measures \/ Exit \/ SetGpioLvlSel
  \/ \E m \in Supply : Swap(m)

Spec == Init /\ [][Next]_vars

-----------------------------------------------------------------------------
(* Properties. *)

\* Type invariant.
TypeOK ==
  /\ plugged \subseteq Supply /\ on \in BOOLEAN
  /\ page \in [Supply -> {Main, Standby}]
  /\ sense \in Senses
  /\ pc \in {"idle", "probe", "MFR_FW_ID", "SN", "STATUS_WORD", "page_VOUT", "page_12V",
             "page_5Vsb", "end"} \cup Details \cup Readings
  /\ mod \in Supply /\ absent \subseteq Supply /\ flags \subseteq Details
  /\ d0 \in Source \cup {Nothing} /\ block_d \in Source \cup {Nothing}
  /\ bWaring \in BOOLEAN /\ turned \in BOOLEAN /\ clean \in BOOLEAN
  /\ shown \in (Readings \cup Reg) \X Supply \X (Source \cup {Nothing}) \X BOOLEAN

\* A line of the output shows the register it is labelled with, of the supply
\* it stands under and of the output it names, whatever page killed runs and
\* swapped supplies have left and whatever failed before: it takes a failure
\* of its own read, or of the page write before it, to show something else.
\* STATUS_IOUT is left out: it is read without a page write.
LabelsRight ==
  shown[4] /\ shown[1] # "STATUS_IOUT" => shown[3] = Right(shown[1], shown[2])

Off(label, m) == OutOfRange(label, Meaning(sense[Right(label, m)]))

\* At the end of a run the warning is there exactly if a reading of a supply
\* that has answered the probe is out of range, as PMBus defines its number;
\* supplies may have been absent, but no transaction after the probes may have
\* failed, and no speed or temperature may be below 0.
WarnedRight ==
  LET present == Supply \ absent IN
  pc = "end" /\ clean
    /\ (\A m \in present, label \in {"Fan_Speed", "Temp1", "Temp2"} :
          Meaning(sense[Right(label, m)])[1] >= 0)
  => (bWaring <=> \E m \in present, label \in Readings : Off(label, m))

=============================================================================
