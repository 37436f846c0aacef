------------------------------ MODULE Eep_proofs ------------------------------
(***************************************************************************)
(* Proofs about the EEPROM driver and eep_tst, for an EEPROM of any size    *)
(* its index byte can address.                                              *)
(***************************************************************************)
EXTENDS Eep, TLAPS

\* The BMC never misses a command.
BmcListens == BmcDeaf = FALSE

\* The characters up to the END mark have 7 bits.
SevenBit == \A f \in Files : \A n \in UpToEnd(f) : f[n] < 128

-----------------------------------------------------------------------------
(* Bytes on their way to the EEPROM. *)

LEMMA Sizes == Size \in 1 .. 256 /\ Index = 0 .. (Size - 1) /\ 0 \in Index /\ Index \subseteq Cells
  BY EepAssumption DEF Index, Cells

\* A byte of 7 bits comes out of the int as it went in, and so does the index.
LEMMA PackSevenBit ==
  \A n \in 0 .. 255 : \A b \in 0 .. 127 : RegOf(Pack(n, b)) = n /\ ByteOf(Pack(n, b)) = b
  BY DEF RegOf, ByteOf, Pack

LEMMA BytesRange ==
  \A n \in 0 .. 255 : \A b \in 0 .. 255 : ByteOf(Pack(n, b)) \in 0 .. 255
  BY DEF ByteOf, Pack

\* NextByte stays in the loop below the last byte, and leaves it at END.
LEMMA NextByteSteps ==
  ASSUME i \in Index, pc = "byte", NEW b, NextByte(b)
  PROVE  /\ i' \in Index
         /\ \/ pc' = "byte" /\ i' = i + 1 /\ b # END
            \/ pc' = "mux_off" /\ i' = i /\ (b = END \/ i = Size - 1)
  BY Sizes DEF NextByte

LEMMA EepromType ==
  ASSUME TypeOK, NEW reg, NEW value \in 0 .. 255, WriteEeprom(reg, value)
  PROVE  eeprom' \in [Cells -> 0 .. 255] /\ d0' \in 0 .. 255 /\ clean' \in BOOLEAN
  <1>1. PICK fails \in Fails :
          /\ eeprom' = IF mux = Channel /\ reg \in Cells /\ ~fails
                         THEN [eeprom EXCEPT ![reg] = value] ELSE eeprom
          /\ clean' = (clean /\ ~fails)
    BY DEF WriteEeprom
  <1>2. eeprom' \in [Cells -> 0 .. 255]
    BY <1>1 DEF TypeOK
  <1>3. d0' \in 0 .. 255
    BY DEF WriteEeprom
  <1>4. clean' \in BOOLEAN
    BY <1>1
  <1> QED
    BY <1>2, <1>3, <1>4

LEMMA MuxType ==
  ASSUME TypeOK, NEW value \in {0, Channel}, WriteMux(value)
  PROVE  /\ mux' \in {0, Channel} /\ d0' \in 0 .. 255 /\ clean' \in BOOLEAN
         /\ clean' => clean /\ mux' = value
  <1>1. PICK fails \in Fails :
          /\ mux' = IF fails THEN mux ELSE value
          /\ clean' = (clean /\ ~fails)
    BY DEF WriteMux
  <1>2. mux' \in {0, Channel}
    BY <1>1 DEF TypeOK
  <1>3. d0' \in 0 .. 255
    BY DEF WriteMux, Channel
  <1>4. clean' \in BOOLEAN
    BY <1>1
  <1>5. clean' => clean /\ mux' = value
    BY <1>1
  <1> QED
    BY <1>2, <1>3, <1>4, <1>5

LEMMA ReadType ==
  ASSUME TypeOK, NEW reg \in Index, Read_SMB_Byte(reg)
  PROVE  /\ d0' \in 0 .. 255 /\ clean' \in BOOLEAN
         /\ clean' => clean
         /\ clean' /\ mux = Channel => d0' = eeprom[reg]
  <1>1. PICK fails \in Fails :
          /\ d0' = IF mux = Channel /\ ~fails THEN eeprom[reg] ELSE d0
          /\ clean' = (clean /\ ~fails)
    BY DEF Read_SMB_Byte
  <1>2. eeprom[reg] \in 0 .. 255
    BY Sizes DEF TypeOK
  <1>3. d0' \in 0 .. 255
    BY <1>1, <1>2 DEF TypeOK
  <1>4. clean' \in BOOLEAN
    BY <1>1
  <1>5. clean' => clean
    BY <1>1
  <1>6. clean' /\ mux = Channel => d0' = eeprom[reg]
    BY <1>1
  <1> QED
    BY <1>3, <1>4, <1>5, <1>6

LEMMA BmcType ==
  ASSUME bmcOff \in BOOLEAN, NEW off \in BOOLEAN, opma_smbus(off)
  PROVE  bmcOff' \in BOOLEAN
  BY DEF opma_smbus

-----------------------------------------------------------------------------
(* The types. *)

LEMMA FilesType == \A f \in Files : f \in Text
  BY EepAssumption

LEMMA BlankType == Blank \in Text
  BY DEF Blank, Text

LEMMA InitType == Init => TypeOK
  <1> SUFFICES ASSUME Init PROVE TypeOK
    OBVIOUS
  <1>1. eeprom \in [Cells -> 0 .. 255]
    BY DEF Init
  <1>2. mux \in {0, Channel} /\ d0 \in 0 .. 255 /\ strap \in {0, 1}
    BY DEF Init
  <1>3. bmcOff \in BOOLEAN /\ IpmiPresent \in BOOLEAN /\ clean \in BOOLEAN /\ killed \in BOOLEAN
    BY DEF Init, Detect_IPMI
  <1>4. /\ pc \in {"none", "opened", "mux_on", "byte", "mux_off", "bmc_on", "done"}
        /\ op \in {"w", "r"}
    BY DEF Init
  <1>5. i \in Index /\ buf \in Text /\ stored \in Text \cup {Unknown}
    BY Sizes, BlankType DEF Init
  <1> QED
    BY <1>1, <1>2, <1>3, <1>4, <1>5 DEF TypeOK

LEMMA TypeStep == TypeOK /\ [Next]_vars => TypeOK'
  <1> SUFFICES ASSUME TypeOK, [Next]_vars PROVE TypeOK'
    OBVIOUS
  <1>1. CASE Open
    <2>1. i' \in Index /\ buf' \in Text /\ op' \in {"w", "r"}
      BY <1>1, Sizes, FilesType, BlankType DEF Open
    <2> QED
      BY <1>1, <2>1 DEF Open, TypeOK
  <1>2. CASE GiveUp
    BY <1>2 DEF GiveUp, TypeOK
  <1>3. CASE smbus_ON
    <2>1. bmcOff' \in BOOLEAN
      BY <1>3, BmcType DEF smbus_ON, TypeOK
    <2> QED
      BY <1>3, <2>1 DEF smbus_ON, TypeOK
  <1>4. CASE smbus_ON_mux
    <2>1. mux' \in {0, Channel} /\ d0' \in 0 .. 255 /\ clean' \in BOOLEAN
      BY <1>4, MuxType DEF smbus_ON_mux
    <2> QED
      BY <1>4, <2>1 DEF smbus_ON_mux, TypeOK
  <1>5. CASE eep_set_output
    <2>1. buf[i] \in 0 .. 255 /\ i \in 0 .. 255 /\ i \in Index
      BY Sizes DEF TypeOK, Text
    <2>2. WriteEeprom(RegOf(Pack(i, buf[i])), ByteOf(Pack(i, buf[i])))
      BY <1>5 DEF eep_set_output
    <2>3. eeprom' \in [Cells -> 0 .. 255] /\ d0' \in 0 .. 255 /\ clean' \in BOOLEAN
      BY <2>1, <2>2, BytesRange, EepromType
    <2>4. i' \in Index /\ pc' \in {"byte", "mux_off"}
      BY <1>5, <2>1, NextByteSteps DEF eep_set_output
    <2> QED
      BY <1>5, <2>3, <2>4 DEF eep_set_output, TypeOK
  <1>6. CASE eep_get_input
    <2>1. i \in Index
      BY DEF TypeOK
    <2>2. d0' \in 0 .. 255 /\ clean' \in BOOLEAN
      BY <1>6, <2>1, ReadType DEF eep_get_input
    <2>3. i' \in Index /\ pc' \in {"byte", "mux_off"}
      BY <1>6, <2>1, NextByteSteps DEF eep_get_input
    <2>4. buf' \in Text
      BY <1>6, <2>2 DEF eep_get_input, TypeOK, Text
    <2> QED
      BY <1>6, <2>2, <2>3, <2>4 DEF eep_get_input, TypeOK
  <1>7. CASE smbus_OFF_mux
    <2>1. mux' \in {0, Channel} /\ d0' \in 0 .. 255 /\ clean' \in BOOLEAN
      BY <1>7, MuxType DEF smbus_OFF_mux
    <2> QED
      BY <1>7, <2>1 DEF smbus_OFF_mux, TypeOK
  <1>8. CASE smbus_OFF
    <2>1. bmcOff' \in BOOLEAN
      BY <1>8, BmcType DEF smbus_OFF, TypeOK
    <2>2. stored' \in Text \cup {Unknown}
      BY <1>8 DEF smbus_OFF, TypeOK
    <2> QED
      BY <1>8, <2>1, <2>2 DEF smbus_OFF, TypeOK
  <1>9. CASE Close
    BY <1>9 DEF Close, TypeOK
  <1>10. CASE Kill
    <2>1. stored' \in Text \cup {Unknown}
      BY <1>10 DEF Kill, TypeOK
    <2>2. killed' \in BOOLEAN
      BY <1>10 DEF Kill
    <2> QED
      BY <1>10, <2>1, <2>2 DEF Kill, TypeOK
  <1>11. CASE UNCHANGED vars
    BY <1>11 DEF vars, TypeOK
  <1> QED
    BY <1>1, <1>2, <1>3, <1>4, <1>5, <1>6, <1>7, <1>8, <1>9, <1>10, <1>11 DEF Next, Step

\* Every variable keeps its type: the tool's index stays inside its buffer.
THEOREM TypeCorrect == Spec => []TypeOK
  BY InitType, TypeStep, PTL DEF Spec

-----------------------------------------------------------------------------
(* The bus and the BMC. *)

\* Who has the bus at each point of a run.  That it is handed back says nothing
\* of the points in between, which the step to the end of the run rests on.
BusInv ==
  /\ IpmiPresent <=> strap = 0
  /\ strap = 1 => ~bmcOff
  /\ strap = 0 /\ pc \in OnBus \cup {"bmc_on"} => bmcOff
  /\ pc \in {"bmc_on", "done"} /\ clean => mux = 0
  /\ pc = "done" => ~bmcOff /\ ~killed
  /\ pc \in {"none", "opened"} /\ ~killed => ~bmcOff /\ (clean => mux = 0)

LEMMA Told ==
  ASSUME BmcListens, TypeOK, BusInv, NEW off \in BOOLEAN, opma_smbus(off)
  PROVE  /\ strap = 0 => bmcOff' = off
         /\ strap = 1 => ~bmcOff'
  BY DEF BmcListens, TypeOK, BusInv, opma_smbus

LEMMA InitBus == Init => BusInv
  BY DEF Init, Detect_IPMI, BusInv, OnBus

LEMMA BusStep == BmcListens /\ TypeOK /\ BusInv /\ [Next]_vars => BusInv'
  <1> SUFFICES ASSUME BmcListens, TypeOK, BusInv, [Next]_vars PROVE BusInv'
    OBVIOUS
  <1>1. CASE Open
    BY <1>1 DEF Open, BusInv, OnBus
  <1>2. CASE GiveUp
    BY <1>2 DEF GiveUp, BusInv, OnBus
  <1>3. CASE smbus_ON
    <2>1. (strap = 0 => bmcOff') /\ (strap = 1 => ~bmcOff')
      BY <1>3, Told DEF smbus_ON
    <2> QED
      BY <1>3, <2>1 DEF smbus_ON, BusInv, OnBus
  <1>4. CASE smbus_ON_mux
    BY <1>4 DEF smbus_ON_mux, BusInv, OnBus
  <1>5. CASE eep_set_output
    <2>1. pc' \in {"byte", "mux_off"}
      BY <1>5 DEF eep_set_output, NextByte
    <2> QED
      BY <1>5, <2>1 DEF eep_set_output, BusInv, OnBus
  <1>6. CASE eep_get_input
    <2>1. pc' \in {"byte", "mux_off"}
      BY <1>6 DEF eep_get_input, NextByte
    <2> QED
      BY <1>6, <2>1 DEF eep_get_input, BusInv, OnBus
  <1>7. CASE smbus_OFF_mux
    <2>1. clean' => mux' = 0
      BY <1>7, MuxType DEF smbus_OFF_mux
    <2> QED
      BY <1>7, <2>1 DEF smbus_OFF_mux, BusInv, OnBus
  <1>8. CASE smbus_OFF
    <2>1. ~bmcOff'
      BY <1>8, Told DEF smbus_OFF, TypeOK
    <2> QED
      BY <1>8, <2>1 DEF smbus_OFF, BusInv, OnBus
  <1>9. CASE Close
    BY <1>9 DEF Close, BusInv, OnBus
  <1>10. CASE Kill
    BY <1>10 DEF Kill, BusInv, OnBus
  <1>11. CASE UNCHANGED vars
    BY <1>11 DEF vars, BusInv, OnBus
  <1> QED
    BY <1>1, <1>2, <1>3, <1>4, <1>5, <1>6, <1>7, <1>8, <1>9, <1>10, <1>11 DEF Next, Step

LEMMA BusInvariance == BmcListens => (Spec => [](TypeOK /\ BusInv))
  <1> SUFFICES ASSUME BmcListens PROVE Spec => [](TypeOK /\ BusInv)
    OBVIOUS
  <1>1. Init => TypeOK /\ BusInv
    BY InitType, InitBus
  <1>2. (TypeOK /\ BusInv) /\ [Next]_vars => (TypeOK /\ BusInv)'
    BY TypeStep, BusStep
  <1> QED
    BY <1>1, <1>2, PTL DEF Spec

\* If the BMC misses no command, every transaction of every run, also after
\* killed runs, happens while it keeps off the bus.
THEOREM CollisionFree == BmcListens => (Spec => []NoCollision)
  <1> SUFFICES ASSUME BmcListens PROVE Spec => []NoCollision
    OBVIOUS
  <1>1. BusInv => NoCollision
    BY DEF BusInv, NoCollision
  <1> QED
    BY <1>1, BusInvariance, PTL

\* If the BMC misses no command, a complete run gives the bus back and closes
\* the switch, whatever killed runs have left.
THEOREM HandedBack == BmcListens => (Spec => []BusHandedBack)
  <1> SUFFICES ASSUME BmcListens PROVE Spec => []BusHandedBack
    OBVIOUS
  <1>1. BusInv => BusHandedBack
    BY DEF BusInv, BusHandedBack
  <1> QED
    BY <1>1, BusInvariance, PTL

-----------------------------------------------------------------------------
(* The text. *)

\* The bytes before the loop's have been dealt with, and none of them is END;
\* behind the loop, nor is there anything left to deal with.
Written ==
  op = "w" /\ clean =>
    /\ pc = "byte" =>
         /\ mux = Channel
         /\ \A k \in 0 .. (i - 1) : eeprom[k] = buf[k] /\ buf[k] # END
    /\ pc \in {"mux_off", "bmc_on", "done"} => \A n \in UpToEnd(buf) : eeprom[n] = buf[n]

Read ==
  op = "r" /\ clean =>
    /\ pc = "byte" => mux = Channel /\ \A k \in 0 .. (i - 1) : buf[k] = eeprom[k]
    /\ pc \in {"mux_off", "bmc_on", "done"} =>
         /\ \A k \in 0 .. i : buf[k] = eeprom[k]
         /\ buf[i] = END \/ i = Size - 1

\* What the last completed write wrote is there until the next write begins.
Held ==
  stored # Unknown =>
    /\ stored \in Text
    /\ op = "r" \/ pc \notin {"byte", "mux_off", "bmc_on"}
         => \A n \in UpToEnd(stored) : eeprom[n] = stored[n]

TextInv ==
  /\ TypeOK
  /\ op = "w" => buf \in Files
  /\ pc \in {"opened", "mux_on"} => i = 0
  /\ Written
  /\ Read
  /\ Held

LEMMA InitText == Init => TextInv
  <1> SUFFICES ASSUME Init PROVE TextInv
    OBVIOUS
  <1>1. op = "r" /\ pc = "none" /\ i = 0 /\ stored = Unknown
    BY DEF Init
  <1> QED
    BY <1>1, InitType DEF TextInv, Written, Read, Held

\* The cells of a text up to its END mark begin it.
LEMMA UpToEndPrefix ==
  \A t : \A n \in UpToEnd(t) : n \in Index /\ \A k \in 0 .. (n - 1) : k \in UpToEnd(t)
  <1> TAKE t
  <1> TAKE n \in UpToEnd(t)
  <1>1. n \in Index /\ \A k \in 0 .. (n - 1) : t[k] # END
    BY DEF UpToEnd
  <1>2. ASSUME NEW k \in 0 .. (n - 1) PROVE k \in UpToEnd(t)
    BY <1>1, <1>2, Sizes DEF UpToEnd
  <1> QED
    BY <1>1, <1>2

\* A byte of a 7-bit text, written in a transaction that succeeds.
LEMMA ByteWritten ==
  ASSUME TypeOK, i \in UpToEnd(buf), buf[i] < 128, mux = Channel,
         WriteEeprom(RegOf(Pack(i, buf[i])), ByteOf(Pack(i, buf[i]))), clean'
  PROVE  clean /\ eeprom' = [eeprom EXCEPT ![i] = buf[i]]
  <1>1. i \in 0 .. 255 /\ i \in Index /\ i \in Cells
    BY Sizes DEF TypeOK
  <1>2. buf[i] \in 0 .. 255
    <2>1. buf \in [Index -> 0 .. 255]
      BY DEF TypeOK, Text
    <2> QED
      BY <1>1, <2>1
  <1>3. buf[i] \in 0 .. 127
    BY <1>2
  <1>4. RegOf(Pack(i, buf[i])) = i /\ ByteOf(Pack(i, buf[i])) = buf[i]
    BY <1>1, <1>3, PackSevenBit
  <1>5. WriteEeprom(i, buf[i])
    BY <1>4
  <1>6. PICK fails \in Fails :
          /\ eeprom' = IF mux = Channel /\ i \in Cells /\ ~fails
                         THEN [eeprom EXCEPT ![i] = buf[i]] ELSE eeprom
          /\ clean' = (clean /\ ~fails)
    BY <1>5 DEF WriteEeprom
  <1>7. clean /\ ~fails
    BY <1>6
  <1> QED
    BY <1>1, <1>6, <1>7

LEMMA WriteText ==
  ASSUME SevenBit, TextInv, eep_set_output
  PROVE  Written'
  <1> SUFFICES ASSUME clean'
               PROVE  /\ pc' = "byte" =>
                           /\ mux' = Channel
                           /\ \A k \in 0 .. (i' - 1) : eeprom'[k] = buf'[k] /\ buf'[k] # END
                      /\ pc' \in {"mux_off", "bmc_on", "done"} =>
                           \A n \in UpToEnd(buf') : eeprom'[n] = buf'[n]
    BY DEF Written
  <1>1. /\ pc = "byte" /\ op = "w" /\ buf' = buf /\ mux' = mux
        /\ WriteEeprom(RegOf(Pack(i, buf[i])), ByteOf(Pack(i, buf[i])))
        /\ NextByte(buf[i])
    BY DEF eep_set_output
  <1>2. clean
    BY <1>1 DEF WriteEeprom
  <1>3. mux = Channel /\ \A k \in 0 .. (i - 1) : eeprom[k] = buf[k] /\ buf[k] # END
    BY <1>1, <1>2 DEF TextInv, Written
  <1>4. i \in Index /\ eeprom \in [Cells -> 0 .. 255] /\ i \in UpToEnd(buf)
    BY <1>3 DEF TextInv, TypeOK, UpToEnd
  <1>5. buf \in Files
    BY <1>1 DEF TextInv
  <1>6. eeprom' = [eeprom EXCEPT ![i] = buf[i]]
    BY <1>1, <1>3, <1>4, <1>5, ByteWritten DEF SevenBit, TextInv
  <1>7. \A k \in 0 .. i : eeprom'[k] = buf[k]
    BY <1>3, <1>4, <1>6, Sizes
  <1>8. \/ pc' = "byte" /\ i' = i + 1 /\ buf[i] # END
        \/ pc' = "mux_off" /\ i' = i /\ (buf[i] = END \/ i = Size - 1)
    BY <1>1, <1>4, NextByteSteps
  <1>9. CASE pc' = "byte"
    <2>1. \A k \in 0 .. (i' - 1) : eeprom'[k] = buf'[k] /\ buf'[k] # END
      BY <1>1, <1>3, <1>4, <1>7, <1>8, <1>9, Sizes
    <2> QED
      BY <1>1, <1>3, <1>9, <2>1
  <1>10. CASE pc' = "mux_off"
    <2>1. ASSUME NEW n \in UpToEnd(buf) PROVE n \in 0 .. i
      <3>1. n \in Index /\ \A k \in 0 .. (n - 1) : buf[k] # END
        BY DEF UpToEnd
      <3> QED
        BY <1>4, <1>8, <1>10, <3>1, Sizes
    <2> QED
      BY <1>1, <1>7, <1>10, <2>1
  <1> QED
    BY <1>8, <1>9, <1>10

LEMMA ReadText ==
  ASSUME TextInv, eep_get_input
  PROVE  Read'
  <1> SUFFICES ASSUME clean'
               PROVE  /\ pc' = "byte" =>
                           mux' = Channel /\ \A k \in 0 .. (i' - 1) : buf'[k] = eeprom'[k]
                      /\ pc' \in {"mux_off", "bmc_on", "done"} =>
                           /\ \A k \in 0 .. i' : buf'[k] = eeprom'[k]
                           /\ buf'[i'] = END \/ i' = Size - 1
    BY DEF Read
  <1>1. /\ pc = "byte" /\ op = "r" /\ eeprom' = eeprom /\ mux' = mux
        /\ Read_SMB_Byte(i) /\ buf' = [buf EXCEPT ![i] = d0'] /\ NextByte(d0')
    BY DEF eep_get_input
  <1>2. i \in Index /\ buf \in Text /\ TypeOK
    BY DEF TextInv, TypeOK
  <1>3. clean /\ (mux = Channel => d0' = eeprom[i])
    BY <1>1, <1>2, ReadType
  <1>4. mux = Channel /\ \A k \in 0 .. (i - 1) : buf[k] = eeprom[k]
    BY <1>1, <1>3 DEF TextInv, Read
  <1>5. buf'[i] = d0' /\ \A k \in 0 .. i : buf'[k] = eeprom[k]
    BY <1>1, <1>2, <1>3, <1>4, Sizes DEF Text
  <1>6. \/ pc' = "byte" /\ i' = i + 1
        \/ pc' = "mux_off" /\ i' = i /\ (d0' = END \/ i = Size - 1)
    BY <1>1, <1>2, NextByteSteps
  <1>7. CASE pc' = "byte"
    BY <1>1, <1>2, <1>4, <1>5, <1>6, <1>7, Sizes
  <1>8. CASE pc' = "mux_off"
    BY <1>1, <1>5, <1>6, <1>8
  <1> QED
    BY <1>6, <1>7, <1>8

LEMMA TextStep == SevenBit /\ TextInv /\ [Next]_vars => TextInv'
  <1> SUFFICES ASSUME SevenBit, TextInv, [Next]_vars PROVE TextInv'
    OBVIOUS
  <1>t. TypeOK /\ TypeOK'
    BY TypeStep DEF TextInv
  <1>1. CASE Open
    BY <1>1, <1>t DEF Open, TextInv, Written, Read, Held
  <1>2. CASE GiveUp
    BY <1>2, <1>t DEF GiveUp, TextInv, Written, Read, Held
  <1>3. CASE smbus_ON
    BY <1>3, <1>t DEF smbus_ON, TextInv, Written, Read, Held
  <1>4. CASE smbus_ON_mux
    <2>1. clean' => mux' = Channel
      BY <1>4, <1>t, MuxType DEF smbus_ON_mux
    <2>2. i' = 0 /\ pc' = "byte"
      BY <1>4 DEF smbus_ON_mux, TextInv
    <2>3. Written'
      BY <2>1, <2>2 DEF Written
    <2>4. Read'
      BY <2>1, <2>2 DEF Read
    <2>5. Held'
      BY <1>4 DEF smbus_ON_mux, TextInv, Held
    <2> QED
      BY <1>4, <1>t, <2>2, <2>3, <2>4, <2>5 DEF smbus_ON_mux, TextInv
  <1>5. CASE eep_set_output
    <2>1. op = "w" /\ op' = "w" /\ buf' = buf /\ pc' \in {"byte", "mux_off"} /\ stored' = stored
      BY <1>5 DEF eep_set_output, NextByte
    <2>2. Written'
      BY <1>5, WriteText
    <2>3. Read'
      BY <2>1 DEF Read
    <2>4. Held'
      BY <2>1 DEF Held, TextInv
    <2> QED
      BY <1>t, <2>1, <2>2, <2>3, <2>4 DEF TextInv
  <1>6. CASE eep_get_input
    <2>1. /\ op = "r" /\ op' = "r" /\ pc' \in {"byte", "mux_off"}
          /\ stored' = stored /\ eeprom' = eeprom
      BY <1>6 DEF eep_get_input, NextByte
    <2>2. Written'
      BY <2>1 DEF Written
    <2>3. Read'
      BY <1>6, ReadText
    <2>4. Held'
      BY <2>1 DEF Held, TextInv
    <2> QED
      BY <1>t, <2>1, <2>2, <2>3, <2>4 DEF TextInv
  <1>7. CASE smbus_OFF_mux
    <2>1. clean' => clean
      BY <1>7, <1>t, MuxType DEF smbus_OFF_mux
    <2>2. Written'
      BY <1>7, <2>1 DEF smbus_OFF_mux, TextInv, Written
    <2>3. Read'
      BY <1>7, <2>1 DEF smbus_OFF_mux, TextInv, Read
    <2>4. Held'
      BY <1>7 DEF smbus_OFF_mux, TextInv, Held
    <2> QED
      BY <1>7, <1>t, <2>2, <2>3, <2>4 DEF smbus_OFF_mux, TextInv
  <1>8. CASE smbus_OFF
    <2>1. Written' /\ Read'
      BY <1>8 DEF smbus_OFF, TextInv, Written, Read
    <2>2. Held'
      <3>1. CASE op = "w" /\ clean
        BY <1>8, <1>t, <3>1 DEF smbus_OFF, TextInv, Written, Held, TypeOK
      <3>2. CASE op = "w" /\ ~clean
        BY <1>8, <3>2 DEF smbus_OFF, Held
      <3>3. CASE op = "r"
        BY <1>8, <3>3 DEF smbus_OFF, TextInv, Held
      <3> QED
        BY <1>t, <3>1, <3>2, <3>3 DEF TypeOK
    <2> QED
      BY <1>8, <1>t, <2>1, <2>2 DEF smbus_OFF, TextInv
  <1>9. CASE Close
    BY <1>9, <1>t DEF Close, TextInv, Written, Read, Held
  <1>10. CASE Kill
    <2>1. Held'
      BY <1>10, <1>t DEF Kill, TextInv, Held, TypeOK
    <2> QED
      BY <1>10, <1>t, <2>1 DEF Kill, TextInv, Written, Read
  <1>11. CASE UNCHANGED vars
    BY <1>11, <1>t DEF vars, TextInv, Written, Read, Held
  <1> QED
    BY <1>1, <1>2, <1>3, <1>4, <1>5, <1>6, <1>7, <1>8, <1>9, <1>10, <1>11 DEF Next, Step

LEMMA TextInvariance == SevenBit => (Spec => []TextInv)
  <1> SUFFICES ASSUME SevenBit PROVE Spec => []TextInv
    OBVIOUS
  <1> QED
    BY InitText, TextStep, PTL DEF Spec

\* If the texts have 7-bit characters up to their mark, eep_tst stores every
\* byte of a text whose transactions have all succeeded, for an EEPROM of any
\* size and whatever killed runs have left.
THEOREM WriteCorrect == SevenBit => (Spec => []WriteStored)
  <1> SUFFICES ASSUME SevenBit PROVE Spec => []WriteStored
    OBVIOUS
  <1>1. TextInv => WriteStored
    BY DEF TextInv, Written, WriteStored
  <1> QED
    BY <1>1, TextInvariance, PTL

\* Under the same assumption eep_tst shows the text that was completely written
\* last, byte for byte up to its mark.
THEOREM RoundTrip == SevenBit => (Spec => []ReadsBack)
  <1> SUFFICES ASSUME SevenBit PROVE Spec => []ReadsBack
    OBVIOUS
  <1>1. TextInv => ReadsBack
    <2> SUFFICES ASSUME TextInv, pc = "done", op = "r", clean, stored # Unknown,
                        NEW n \in UpToEnd(stored)
                 PROVE  buf[n] = stored[n]
      BY DEF ReadsBack
    <2>1. \A k \in UpToEnd(stored) : eeprom[k] = stored[k]
      BY DEF TextInv, Held
    <2>2. /\ \A k \in 0 .. i : buf[k] = eeprom[k]
          /\ buf[i] = END \/ i = Size - 1
      BY DEF TextInv, Read
    <2>3. i \in Index /\ n \in Index /\ \A k \in 0 .. (n - 1) : stored[k] # END
      BY DEF TextInv, TypeOK, UpToEnd
    <2>4. n \in 0 .. i
      <3> SUFFICES ASSUME ~(n \in 0 .. i) PROVE FALSE
        OBVIOUS
      <3>1. i \in 0 .. (n - 1) /\ i # Size - 1
        BY <2>3, Sizes
      <3>2. eeprom[i] = stored[i]
        BY <2>1, <3>1, UpToEndPrefix
      <3>3. i \in 0 .. i
        BY <2>3, Sizes
      <3> QED
        BY <2>2, <2>3, <3>1, <3>2, <3>3
    <2> QED
      BY <2>1, <2>2, <2>4
  <1> QED
    BY <1>1, TextInvariance, PTL

-----------------------------------------------------------------------------
(* The end of a run: the part of BusReturned that needs no fairness. *)

\* The ioctls a run has left, at most; smbus_ON and smbus_OFF count twice.
CallsLeft ==
  CASE pc = "none"    -> 0
    [] pc = "done"    -> 1
    [] pc = "bmc_on"  -> 2
    [] pc = "mux_off" -> 3
    [] pc = "byte"    -> 3 + Size - i
    [] pc = "mux_on"  -> 4 + Size
    [] pc = "opened"  -> 5 + Size

\* Never more than the EEPROM has bytes, and the calls around them.
WithinSize == CallsLeft \in 0 .. (Size + 5) /\ (CallsLeft = 0 <=> pc = "none")

\* Nothing keeps a run where it is: neither a transaction that fails, nor a BMC
\* that does not answer, nor a text without END.
RunShortens == [][pc # "none" => CallsLeft' < CallsLeft]_vars

\* A BMC that has been told to keep off waits for a run that is under way, or
\* for the next complete one after a kill.
OffInRunOnly == bmcOff /\ ~killed => pc \in OnBus \cup {"bmc_on"}

LEMMA CallsRange == TypeOK => WithinSize
  <1> SUFFICES ASSUME TypeOK PROVE WithinSize
    OBVIOUS
  <1>1. Size \in Nat /\ i \in Nat /\ i < Size
    BY Sizes DEF TypeOK
  <1> QED
    BY <1>1, SMT DEF TypeOK, WithinSize, CallsLeft

LEMMA CallsDecrease ==
  ASSUME TypeOK, pc # "none", Next
  PROVE  CallsLeft' < CallsLeft
  <1>1. Size \in Nat /\ i \in Nat /\ i < Size /\ i \in Index
    BY Sizes DEF TypeOK
  <1>2. CASE GiveUp \/ Close \/ Kill
    <2>1. pc' = "none"
      BY <1>2 DEF GiveUp, Close, Kill
    <2>2. CallsLeft' = 0
      BY <2>1 DEF CallsLeft
    <2>3. CallsLeft > 0
      BY CallsRange DEF WithinSize
    <2> QED
      BY <2>2, <2>3
  <1>3. CASE smbus_ON
    BY <1>1, <1>3 DEF smbus_ON, CallsLeft
  <1>4. CASE smbus_ON_mux
    BY <1>1, <1>4 DEF smbus_ON_mux, CallsLeft
  <1>5. CASE eep_set_output \/ eep_get_input
    <2>1. PICK b : pc = "byte" /\ NextByte(b)
      BY <1>5 DEF eep_set_output, eep_get_input
    <2>2. \/ pc' = "byte" /\ i' = i + 1
          \/ pc' = "mux_off" /\ i' = i
      BY <1>1, <2>1, NextByteSteps
    <2> QED
      BY <1>1, <2>1, <2>2 DEF CallsLeft
  <1>6. CASE smbus_OFF_mux
    BY <1>6 DEF smbus_OFF_mux, CallsLeft
  <1>7. CASE smbus_OFF
    BY <1>7 DEF smbus_OFF, CallsLeft
  <1>8. ~Open
    BY DEF Open
  <1> QED
    BY <1>2, <1>3, <1>4, <1>5, <1>6, <1>7, <1>8 DEF Next, Step

\* A run is over after Size + 5 calls at most, whatever fails on the way: every
\* step of it leaves fewer calls than there were.
THEOREM RunsBounded == Spec => []WithinSize /\ RunShortens
  <1>1. Init => TypeOK
    BY InitType
  <1>2. TypeOK /\ [Next]_vars => TypeOK'
    BY TypeStep
  <1>3. TypeOK /\ [Next]_vars => [pc # "none" => CallsLeft' < CallsLeft]_vars
    BY CallsDecrease
  <1>4. TypeOK => WithinSize
    BY CallsRange
  <1> QED
    BY <1>1, <1>2, <1>3, <1>4, PTL DEF Spec, RunShortens

\* If the BMC misses no command, it is kept off the bus only while a run is on
\* it, and with RunsBounded that is for Size + 4 calls at most.
THEOREM OffBounded == BmcListens => (Spec => []OffInRunOnly)
  <1> SUFFICES ASSUME BmcListens PROVE Spec => []OffInRunOnly
    OBVIOUS
  <1>1. TypeOK /\ BusInv => OffInRunOnly
    BY DEF TypeOK, BusInv, OffInRunOnly, OnBus
  <1> QED
    BY <1>1, BusInvariance, PTL

=============================================================================
