--------------------------------- MODULE Eep ---------------------------------
(***************************************************************************)
(* The EEPROM utility of the NCB-5220: eep_tst writes a text to the board  *)
(* EEPROM, or reads it back, through ioctls of the eep driver.  The SMBus  *)
(* behind them is shared with the BMC, which has to be told to leave it    *)
(* alone, and the EEPROM is on one channel of a switch.  The driver lets   *)
(* one run of the tool in at a time (WdDriver shows when), so runs follow  *)
(* one another here; a run may be killed between two of its ioctls.        *)
(***************************************************************************)
EXTENDS Integers

CONSTANTS
  Size,        \* EEPRPM_SIZE: the bytes a run goes through at most
  Files,       \* the texts in MBEEP.TXT
  Kills,       \* may a run be killed?
  SmbusFaults, \* may an SMBus transaction fail?
  BmcDeaf      \* may the BMC miss a command?

END == 35      \* '#'
EOF == 255     \* what getc's EOF is as a char
Channel == 4   \* the value that opens the switch to the EEPROM

Index == 0 .. (Size - 1)
Text == [Index -> 0 .. 255]

ASSUME EepAssumption ==
  /\ Size \in 1 .. 256
  /\ Files \subseteq Text
  /\ {Kills, SmbusFaults, BmcDeaf} \subseteq BOOLEAN

VARIABLES
  eeprom,       \* its contents, cell 255 included whatever Size is
  mux,          \* the channels the switch has open
  strap,        \* bit 4 of RxE1: low when a BMC is there
  bmcOff,       \* has the BMC been told not to touch the SMBus?
  IpmiPresent,  \* what the driver believes about the BMC
  d0,           \* the data register of the SMBus host controller
  pc,           \* where the run of eep_tst is; "none" between runs
  op,           \* "w" or "r"
  i, buf,       \* the index of its loop and the text it writes or has read
  stored,       \* the text of the last completed write, not in the code
  clean,        \* have its transactions all succeeded?  Not in the code
  killed        \* was a run killed on the bus, and none completed since?  Not in the code

vars == <<eeprom, mux, strap, bmcOff, IpmiPresent, d0, pc, op, i, buf, stored, clean, killed>>

Unknown == [n \in {} |-> 0]
Blank == [n \in Index |-> 0]
Cells == Index \cup {255}

\* Mutant: the strap is read the wrong way round.
Detect_IPMI_inverted(bit) == bit = 1

\* The strap is low when there is a BMC.
Detect_IPMI(bit) == bit = 0

\* The driver is loaded; the EEPROM is blank or holds the byte 0 everywhere.
Init ==
  /\ \E b \in {0, 255} : eeprom = [c \in Cells |-> b]
  /\ mux = 0 /\ bmcOff = FALSE /\ d0 = 0
  /\ strap \in {0, 1} /\ IpmiPresent = Detect_IPMI(strap)
  /\ pc = "none" /\ op = "r" /\ i = 0 /\ buf = Blank
  /\ stored = Unknown /\ clean = TRUE /\ killed = FALSE

-----------------------------------------------------------------------------
(* The SMBus and the BMC. *)

\* smb_err is set when a transaction fails, and nobody looks at it.
Fails == IF SmbusFaults THEN BOOLEAN ELSE {FALSE}

\* A byte written at a cell of the EEPROM, or to the switch.
WriteEeprom(reg, value) ==
  /\ d0' = value
  /\ \E fails \in Fails :
       /\ eeprom' = IF mux = Channel /\ reg \in Cells /\ ~fails
                      THEN [eeprom EXCEPT ![reg] = value] ELSE eeprom
       /\ clean' = (clean /\ ~fails)
WriteMux(value) ==
  /\ d0' = value
  /\ \E fails \in Fails :
       /\ mux' = IF fails THEN mux ELSE value
       /\ clean' = (clean /\ ~fails)

\* Mutant: slave address and register swapped, so that no device answers.
Read_SMB_Byte_swapped(reg) == UNCHANGED <<d0, clean>>

\* A read that fails leaves the data register, which is returned all the same.
Read_SMB_Byte(reg) ==
  \E fails \in Fails :
    /\ d0' = IF mux = Channel /\ ~fails THEN eeprom[reg] ELSE d0
    /\ clean' = (clean /\ ~fails)

\* Each wait for the BMC gives up after IPMI_CMD_DELAY polls, and
\* opma_smbus goes on: the command may be lost.
opma_smbus(off) ==
  IF IpmiPresent /\ strap = 0
    THEN bmcOff' \in (IF BmcDeaf THEN {off, bmcOff} ELSE {off})
    ELSE UNCHANGED bmcOff

-----------------------------------------------------------------------------
(* The driver's handling of a byte: an int carries the index and the byte,  *)
(* a char that is negative from 128 up.                                     *)

Pack(n, byte) == IF byte < 128 THEN n * 256 + byte ELSE byte - 256
\* Mutant: the register is taken from the low byte.
RegOf_low(value) == value % 256
RegOf(value) == (value \div 256) % 256
ByteOf(value) == value % 256

-----------------------------------------------------------------------------
(* A run of eep_tst. *)

\* The file is read up to its END mark; Blank stands for what was not read.
Open ==
  /\ pc = "none"
  /\ \/ op' = "w" /\ buf' \in Files
     \/ op' = "r" /\ buf' = Blank
  /\ pc' = "opened" /\ i' = 0
  /\ UNCHANGED <<eeprom, mux, strap, bmcOff, IpmiPresent, d0, stored, killed, clean>>

\* No MBEEP.TXT, or a parameter that is neither w nor r: exit(1).
GiveUp ==
  /\ pc = "opened" /\ pc' = "none"
  /\ UNCHANGED <<eeprom, mux, strap, bmcOff, IpmiPresent, d0, op, i, buf, stored, killed, clean>>

\* IOCTL_EEP_SET_SMBUS_ON, in two halves.
smbus_ON ==
  /\ pc = "opened" /\ opma_smbus(TRUE)
  /\ pc' = "mux_on" /\ clean' = TRUE
  /\ UNCHANGED <<eeprom, mux, strap, IpmiPresent, d0, op, i, buf, stored, killed>>
smbus_ON_mux ==
  /\ pc = "mux_on" /\ WriteMux(Channel)
  /\ pc' = "byte"
  /\ UNCHANGED <<eeprom, strap, bmcOff, IpmiPresent, op, i, buf, stored, killed>>

\* Mutant: the loop runs one byte too far.
NextByte_more(byte) ==
  IF byte = END \/ i = Size
    THEN pc' = "mux_off" /\ UNCHANGED i
    ELSE i' = i + 1 /\ UNCHANGED pc

\* The loop ends behind the END mark, or behind the last byte.
NextByte(byte) ==
  IF byte = END \/ i = Size - 1
    THEN pc' = "mux_off" /\ UNCHANGED i
    ELSE i' = i + 1 /\ UNCHANGED pc

eep_set_output ==
  /\ pc = "byte" /\ op = "w"
  /\ LET value == Pack(i, buf[i]) IN WriteEeprom(RegOf(value), ByteOf(value))
  /\ NextByte(buf[i])
  /\ UNCHANGED <<mux, strap, bmcOff, IpmiPresent, op, buf, stored, killed>>

eep_get_input ==
  /\ pc = "byte" /\ op = "r"
  /\ Read_SMB_Byte(i)
  /\ buf' = [buf EXCEPT ![i] = d0']
  /\ NextByte(d0')
  /\ UNCHANGED <<eeprom, mux, strap, bmcOff, IpmiPresent, op, stored, killed>>

\* Mutant: the switch is left open.
smbus_OFF_no_mux ==
  /\ pc = "mux_off"
  /\ pc' = "bmc_on"
  /\ UNCHANGED <<eeprom, mux, strap, bmcOff, IpmiPresent, d0, op, i, buf, stored, killed, clean>>

\* Mutant: the BMC is not told that the bus is free again.
smbus_OFF_no_bmc ==
  /\ pc = "bmc_on"
  /\ pc' = "done"
  /\ killed' = FALSE
  /\ stored' = IF op = "w" THEN IF clean THEN buf ELSE Unknown ELSE stored
  /\ UNCHANGED <<eeprom, mux, strap, bmcOff, IpmiPresent, d0, op, i, buf, clean>>

\* IOCTL_EEP_SET_SMBUS_OFF.
smbus_OFF_mux ==
  /\ pc = "mux_off" /\ WriteMux(0)
  /\ pc' = "bmc_on"
  /\ UNCHANGED <<eeprom, strap, bmcOff, IpmiPresent, op, i, buf, stored, killed>>
smbus_OFF ==
  /\ pc = "bmc_on" /\ opma_smbus(FALSE)
  /\ pc' = "done"
  /\ killed' = FALSE
  /\ stored' = IF op = "w" THEN IF clean THEN buf ELSE Unknown ELSE stored
  /\ UNCHANGED <<eeprom, mux, strap, IpmiPresent, d0, op, i, buf, clean>>

\* The text read is shown, and the device closed.
Close ==
  /\ pc = "done" /\ pc' = "none"
  /\ UNCHANGED <<eeprom, mux, strap, bmcOff, IpmiPresent, d0, op, i, buf, stored, killed, clean>>

\* Killed before its next ioctl.
Kill ==
  /\ Kills /\ pc \in {"opened", "byte", "mux_off", "done"}
  /\ pc' = "none"
  /\ killed' = (killed \/ pc \in {"byte", "mux_off"})
  /\ stored' = IF op = "w" /\ pc \in {"byte", "mux_off"} THEN Unknown ELSE stored
  /\ UNCHANGED <<eeprom, mux, strap, bmcOff, IpmiPresent, d0, op, i, buf, clean>>

Step ==
  \/ GiveUp \/ smbus_ON \/ smbus_ON_mux \/ eep_set_output \/ eep_get_input
  \/ smbus_OFF_mux \/ smbus_OFF \/ Close

Next == Open \/ Step \/ Kill

Spec == Init /\ [][Next]_vars

\* A run that is not killed goes on: every wait in the driver gives up.
FairSpec == Spec /\ WF_vars(Step)

-----------------------------------------------------------------------------
(* Properties. *)

\* Type invariant.
TypeOK ==
  /\ eeprom \in [Cells -> 0 .. 255] /\ mux \in {0, Channel} /\ d0 \in 0 .. 255
  /\ strap \in {0, 1} /\ bmcOff \in BOOLEAN /\ IpmiPresent \in BOOLEAN
  /\ pc \in {"none", "opened", "mux_on", "byte", "mux_off", "bmc_on", "done"}
  /\ op \in {"w", "r"} /\ i \in Index /\ buf \in Text
  /\ stored \in Text \cup {Unknown} /\ clean \in BOOLEAN /\ killed \in BOOLEAN

\* Each SMBus transaction of a run happens while a BMC that is there keeps off
\* the bus (smbus_ON tells it first, smbus_OFF last).
OnBus == {"mux_on", "byte", "mux_off"}
NoCollision == pc \in OnBus /\ strap = 0 => bmcOff

\* After a complete run the BMC has the bus again, and if no transaction failed
\* the switch is closed: a full run mends what a killed one left behind.
BusHandedBack == pc = "none" /\ ~killed => ~bmcOff /\ (clean => mux = 0)

\* The part of a text up to its END mark, which is what eep_tst is about.
UpToEnd(t) == {n \in Index : \A k \in 0 .. (n - 1) : t[k] # END}

\* When eep_tst has written a text, and no transaction has failed, every byte
\* of it is in its cell.
WriteStored ==
  pc = "done" /\ op = "w" /\ clean => \A n \in UpToEnd(buf) : eeprom[n] = buf[n]

\* What eep_tst shows, if no transaction failed, is the text written last, byte
\* for byte, if that write was completed without failures, whatever was in the
\* EEPROM before and even if later runs that only read failed or were killed.
ReadsBack ==
  pc = "done" /\ op = "r" /\ clean /\ stored # Unknown
    => \A n \in UpToEnd(stored) : buf[n] = stored[n]

\* The BMC gets the bus back unless the run is killed, even when transactions
\* fail.
BusReturned == bmcOff ~> ~bmcOff \/ killed

=============================================================================
