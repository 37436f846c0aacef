\* The driver, and a program that is interrupted anywhere and may be killed.
SPECIFICATION Spec
CONSTANTS
  eep = eep
  pms = pms
  eeprom = eeprom
  supply = supply
  Drivers = {eep}
  Programs = {pms}
  Devices = {eeprom, supply}
  Regs = {0, 1}
  Values = {0, 1}
  XactsOf <- Transfers
  NoXact = NoXact
INVARIANTS
  TypeOK
  DriverTransfersDone
  UndisturbedTransfersDone
PROPERTIES
  ImplementsSharedBus
