----------------------------- MODULE SioPrograms -----------------------------
(***************************************************************************)
(* What each operation of the NCB-5220 utilities does to the Super-IO chip *)
(* behind ports 0x2E/0x2F, as a sequence of register accesses.  A byte is  *)
(* the set of its bits, so `x & m' is x \cap m and `x | m' is x \cup m.    *)
(***************************************************************************)
EXTENDS Integers, Sequences

Bit  == 0 .. 7
Byte == SUBSET Bit

\* The byte of a number: the numbers used here are logical device numbers.
BitsOf(n) == {b \in Bit : (n \div 2^b) % 2 = 1}

\* One access: a plain write, a read-modify-write, or a read.  The value
\* written is (value read & keep) | set.  reselect is FALSE when the code goes
\* on with the logical device the previous access selected.
Access == [kind : {"set", "rmw", "get"}, ldn : Byte, reg : 0 .. 255,
           keep : Byte, set : Byte, reselect : BOOLEAN]

\* Mutant: the value keeps its 32 bits on the way to the port.
write_SIO_reg_wide(device, reg, value) ==
  [kind |-> "set", ldn |-> BitsOf(device), reg |-> reg,
   keep |-> {}, set |-> value, reselect |-> TRUE]

write_SIO_reg(device, reg, value) ==
  [kind |-> "set", ldn |-> BitsOf(device), reg |-> reg,
   keep |-> {}, set |-> value \cap Bit, reselect |-> TRUE]

\* The same without naming the logical device again.
WriteSelected(device, reg, value) ==
  [kind |-> "set", ldn |-> BitsOf(device), reg |-> reg,
   keep |-> {}, set |-> value \cap Bit, reselect |-> FALSE]

\* write_SIO_reg(device, reg, (read_SIO_reg(device, reg) & keep) | set)
Modify(device, reg, keep, set) ==
  [kind |-> "rmw", ldn |-> BitsOf(device), reg |-> reg,
   keep |-> keep, set |-> set, reselect |-> TRUE]

read_SIO_reg(device, reg) ==
  [kind |-> "get", ldn |-> BitsOf(device), reg |-> reg,
   keep |-> Bit, set |-> {}, reselect |-> TRUE]

\* outportb keeps the low byte of the unsigned value the ioctl copied in.
start_watchdog_timer(time) == << write_SIO_reg(\h08, \hF6, time) >>

stop_watchdog_timer == << write_SIO_reg(\h08, \hF6, {}) >>

wd_gpio_init ==
  << Modify(\h08, \h30, Bit, {0, 2}),
     Modify(\h17, \hE5, Bit, {0}),
     Modify(\h17, \hE0, Bit \ {0}, {}),
     write_SIO_reg(\h08, \hF5, {}),
     write_SIO_reg(\h08, \hF6, {}),
     Modify(\h08, \h2C, Bit \ {0}, {}) >>

\* Red (rxe1[3,2]=10), green (01) and dark (00).
set_led_status_1 == << Modify(\h07, \hE1, Bit \ {2, 3}, {3}) >>
set_led_status_2 == << Modify(\h07, \hE1, Bit \ {2, 3}, {2}) >>
set_led_status_3 == << Modify(\h07, \hE1, Bit \ {2, 3}, {}) >>

sled_gpio_init ==
  << Modify(\h00, \h27, Bit, {7}),
     Modify(\h09, \h30, Bit, {7}),
     Modify(\h07, \hE0, Bit \ {2, 3}, {}),
     Modify(\h0F, \hE6, Bit \ {2, 3}, {}) >>

Detect_IPMI == << read_SIO_reg(\h07, \hE1) >>

\* The hardware monitor tool selects logical device 0x0B once.
sio_hwm_init ==
  << write_SIO_reg(\h0B, \h60, {1, 3}),
     WriteSelected(\h0B, \h61, {4}),
     WriteSelected(\h0B, \h30, {0}) >>

\* The operations by name; "start" carries the bits of the 32-bit timer value.
FixedProgram ==
  [stop      |-> stop_watchdog_timer,
   wd_init   |-> wd_gpio_init,
   red       |-> set_led_status_1,
   green     |-> set_led_status_2,
   dark      |-> set_led_status_3,
   sled_init |-> sled_gpio_init,
   detect    |-> Detect_IPMI,
   hwm_init  |-> sio_hwm_init]

OpRec == [name : DOMAIN FixedProgram \cup {"start"}, time : SUBSET (0 .. 31)]

Program(o) == IF o.name = "start" THEN start_watchdog_timer(o.time)
                                    ELSE FixedProgram[o.name]

\* Every operation but the hardware monitor's ends with exit_SIO_config.
Exits(o) == o.name # "hwm_init"

\* What one access leaves in its register, given what was there.
Outcome(access, old) == (old \cap access.keep) \cup access.set
Writes(access) == access.kind # "get"
CellOf(access) == <<access.ldn, access.reg>>

=============================================================================
