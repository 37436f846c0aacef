------------------------------- MODULE MCSmbus -------------------------------
(* The EEPROM driver and one run of pms on the controller they share.       *)
EXTENDS Smbus

CONSTANTS eep, pms, eeprom, supply

Byte(rw, dev, reg, val) == [rw |-> rw, dev |-> dev, reg |-> reg, val |-> val]

\* Cell 1 of the EEPROM is written and read back; the supply's PAGE, register
\* 0, is set before its register 1 is read.
Transfers == [t \in {eep, pms} |->
  CASE t = eep -> {Byte("w", eeprom, 1, 1), Byte("r", eeprom, 1, 0)}
    [] t = pms -> {Byte("w", supply, 0, 0), Byte("r", supply, 1, 0)}]

=============================================================================
