------------------------------- MODULE ComPort -------------------------------
(***************************************************************************)
(* The COM port driver of the LEC-3230.  A port's mode and termination are *)
(* three pins: of the Super-IO chip for the two ports on the board, of two *)
(* F75111 chips behind an SMBus multiplexer for the eight ports of the     *)
(* lower and of the upper card.  The driver looks at no status: a failed   *)
(* transaction loses its write, or reads what the data register held.  The *)
(* BIOS keeps the settings and the RS-485 auto mode; it is reached by SMI. *)
(* Names that Lec3230 has as well start here with cp, as the source does.  *)
(***************************************************************************)
EXTENDS Bytes, Sequences, FiniteSets

CONSTANTS
  Requests,    \* what programs ask for, taken apart as SetComPort does
  AtBoot,      \* what a register may hold before the driver is loaded
  MaxFailures  \* bound: transactions that fail

Cards == {1, 2}                     \* Type 1, the lower one; Type 2, the upper one
Chips == {"9C", "6E"}
OutputControl == [x \in {1, 2} |-> <<\h10, \h20>>[x]]
OutputData == [x \in {1, 2} |-> <<\h11, \h21>>[x]]
Regs == Chips \X {\h10, \h20, \h11, \h21}
Request == [Type : 0 .. 3, port : 0 .. 7, mode : 0 .. 3, termination : {0, 1}]

ASSUME ComPortAssumption ==
  /\ Requests \subseteq Request /\ AtBoot \subseteq Byte /\ MaxFailures \in Nat

VARIABLES
  Present,   \* the cards that are plugged in; RiserSts_flag once loaded
  F75111,    \* the registers of both chips of each card
  a1,        \* GPIO 50..57 of the Super-IO chip
  channel,   \* the card the multiplexer connects, 0 none
  D0,        \* the data register of the SMBus host
  auto,      \* BIOS: the ports in RS-485 auto mode
  stored,    \* BIOS: the last request for each port that was asked for
  data,      \* SetComPort's data
  todo,      \* what is left of the call under way
  call,      \* the call: its request, how things were before it, whether all
             \* its transactions succeeded.  Not in the code.
  failures   \* bounds the model

board == <<Present, F75111, a1, channel, D0, auto, stored>>
cpVars ==
  <<Present, F75111, a1, channel, D0, auto, stored, data, todo, call, failures>>

-----------------------------------------------------------------------------
(* The pins of a port: two for the mode and one for the termination. *)

\* Mutant: GPIO 14..17 taken one bit too high.
Pin_high(n) ==
  CASE n = 0 -> [chip |-> "9C", group |-> 1, bit |-> 7]
    [] n \in 1 .. 8 -> [chip |-> "9C", group |-> 2, bit |-> n - 1]
    [] n \in 9 .. 11 -> [chip |-> "6E", group |-> 1, bit |-> n - 9]
    [] n \in 12 .. 15 -> [chip |-> "6E", group |-> 1, bit |-> n - 7]
    [] n \in 16 .. 23 -> [chip |-> "6E", group |-> 2, bit |-> n - 16]

\* A card's pins in the order of its ports: GPIO 17 and 20..27 of the chip at
\* 9C, GPIO 10..12, 14..17 and 20..27 of the chip at 6E.
Pin(n) ==
  CASE n = 0 -> [chip |-> "9C", group |-> 1, bit |-> 7]
    [] n \in 1 .. 8 -> [chip |-> "9C", group |-> 2, bit |-> n - 1]
    [] n \in 9 .. 11 -> [chip |-> "6E", group |-> 1, bit |-> n - 9]
    [] n \in 12 .. 15 -> [chip |-> "6E", group |-> 1, bit |-> n - 8]
    [] n \in 16 .. 23 -> [chip |-> "6E", group |-> 2, bit |-> n - 16]

RegOf(p) == <<p.chip, OutputData[p.group]>>

\* rs232, rs485, rs422/485; any other mode leaves the pins alone.
ModeLevels(mode) == CASE mode = 0 -> <<1, 0>> [] mode = 1 -> <<0, 1>> [] mode = 2 -> <<1, 1>>

-----------------------------------------------------------------------------
(* A call as the steps it takes. *)

Select(c) == [do |-> "select", card |-> c]
Rmw(reg, clear, set) ==
  <<[do |-> "read", reg |-> reg],
    [do |-> "write", reg |-> reg, clear |-> clear, set |-> set]>>

\* One read and write for each register, group 1 first.
Drive(pins, level) ==
  LET bits(r, v) == {pins[i].bit : i \in {j \in DOMAIN pins : RegOf(pins[j]) = r /\ level[j] = v}}
      rmw(r) == IF bits(r, 0) \cup bits(r, 1) = {} THEN << >> ELSE Rmw(r, bits(r, 0), bits(r, 1))
      chip == pins[1].chip
  IN rmw(<<chip, OutputData[1]>>) \o rmw(<<chip, OutputData[2]>>)

CardSteps(q) ==
  LET pin == <<Pin(3 * q.port), Pin(3 * q.port + 1)>> IN
  <<Select(q.Type)>>
  \o (IF q.mode = 3 THEN << >>
      ELSE <<[do |-> "auto", En |-> q.mode # 0]>> \o Drive(pin, ModeLevels(q.mode)))
  \o Drive(<<Pin(3 * q.port + 2)>>, <<q.termination>>)

\* Mutant: the multiplexer is left as it is.
SetComPort_left(q) ==
  CASE q.Type = 0 -> <<[do |-> "a1"]>>
    [] q.Type \in Cards -> CardSteps(q)
    [] q.Type = 3 -> <<Select(0)>>

\* Whatever the type, the multiplexer is disconnected at the end.
SetComPort(q) ==
  (CASE q.Type = 0 -> <<[do |-> "a1"]>>
     [] q.Type \in Cards -> CardSteps(q)
     [] q.Type = 3 -> << >>)
  \o <<Select(0)>>

SetF75111MultiFunctionAndGPIO ==
  Rmw(<<"9C", OutputControl[1]>>, {}, {7})
  \o <<[do |-> "write", reg |-> <<"9C", OutputControl[2]>>, clear |-> {}, set |-> Bit]>>
  \o Rmw(<<"6E", OutputControl[1]>>, {}, Bit \ {3})
  \o <<[do |-> "write", reg |-> <<"6E", OutputControl[2]>>, clear |-> {}, set |-> Bit]>>

\* The registers that choose between pin functions and the direction register
\* 0xA0 of the on-board lines are written here, too; nothing else writes them,
\* and they are left out: the pins are outputs from here on.
cp_gpio_init(cards) ==
  LET setUp(c) == IF c \in cards THEN <<Select(c)>> \o SetF75111MultiFunctionAndGPIO ELSE << >>
  IN IF cards = {} THEN << >> ELSE setUp(1) \o setUp(2) \o <<Select(0)>>

-----------------------------------------------------------------------------
Ports == {<<q.Type, q.port>> : q \in Requests}
Loading == [Type |-> 3, port |-> 0, mode |-> 3, termination |-> 0]
Now == [F75111 |-> F75111, a1 |-> a1, auto |-> auto]

\* The driver is being loaded.
CpInit ==
  /\ Present \in SUBSET Cards
  /\ \E b \in AtBoot : F75111 = [c \in Cards |-> [r \in Regs |-> b]] /\ a1 = b
  /\ channel = 0 /\ D0 = {} /\ data = {}
  /\ auto = {} /\ stored = [p \in Ports |-> << >>]
  /\ todo = cp_gpio_init(Present)
  /\ call = [q |-> Loading, before |-> Now, clean |-> TRUE]
  /\ failures = 0

\* The request goes to the BIOS before anything is done about it.
Begin ==
  /\ todo = << >>
  /\ \E q \in Requests :
       /\ stored' = [stored EXCEPT ![<<q.Type, q.port>>] = <<q.mode, q.termination>>]
       /\ todo' = SetComPort(q)
       /\ call' = [q |-> q, before |-> Now, clean |-> TRUE]
  /\ UNCHANGED <<Present, F75111, a1, channel, D0, auto, data, failures>>

Step(do) == todo # << >> /\ Head(todo).do = do /\ todo' = Tail(todo)

\* A transaction with a device that answers may fail, too: the host is busy,
\* or the bus is lost.
Succeeds(ok, answers) ==
  /\ ok => answers
  /\ ~ok /\ answers => failures < MaxFailures
  /\ failures' = IF ~ok /\ answers THEN failures + 1 ELSE failures
  /\ call' = [call EXCEPT !.clean = @ /\ ok]

set_PCA9548_channel ==
  /\ Step("select")
  /\ \E ok \in BOOLEAN :
       /\ Succeeds(ok, TRUE)
       /\ channel' = IF ok THEN Head(todo).card ELSE channel
  /\ D0' = <<{}, {1}, {2}>>[Head(todo).card + 1]
  /\ UNCHANGED <<Present, F75111, a1, auto, stored, data>>

read_byte ==
  /\ Step("read")
  /\ \E ok \in BOOLEAN :
       /\ Succeeds(ok, channel \in Present)
       /\ D0' = IF ok THEN F75111[channel][Head(todo).reg] ELSE D0
  /\ data' = D0'
  /\ UNCHANGED <<Present, F75111, a1, channel, auto, stored>>

write_byte ==
  /\ Step("write")
  /\ D0' = (data \ Head(todo).clear) \cup Head(todo).set
  /\ \E ok \in BOOLEAN :
       /\ Succeeds(ok, channel \in Present)
       /\ F75111' = IF ok THEN [F75111 EXCEPT ![channel][Head(todo).reg] = D0'] ELSE F75111
  /\ UNCHANGED <<Present, a1, channel, auto, stored, data>>

\* A port on the board: both writes, in the Super-IO's configuration mode.
write_SIO_reg ==
  /\ Step("a1")
  /\ LET q == call.q
         level == ModeLevels(q.mode) \o <<q.termination>>
         bits(v) == {3 * q.port + i - 1 : i \in {j \in 1 .. 3 : level[j] = v}}
         term == 3 * q.port + 2
     IN a1' = IF q.port > 1 THEN a1
              ELSE IF q.mode = 3 THEN (a1 \ {term}) \cup (IF q.termination = 1 THEN {term} ELSE {})
              ELSE (a1 \ bits(0)) \cup bits(1)
  /\ UNCHANGED <<Present, F75111, channel, D0, auto, stored, data, call, failures>>

\* External: what the BIOS does on SMI 0x70 .. 0x73 with port n.
Smi(number, n) ==
  LET card == IF number \in {\h72, \h73} THEN 1
              ELSE IF Present = Cards THEN 2 ELSE CHOOSE c \in Present : TRUE
  IN IF Present = {} THEN auto
     ELSE IF number \in {\h70, \h72} THEN auto \cup {<<card, n>>} ELSE auto \ {<<card, n>>}

\* Mutant: the upper card's numbers, whichever card it is.
SetRS485AutoEn_upper ==
  /\ Step("auto")
  /\ auto' = Smi(IF Head(todo).En THEN \h70 ELSE \h71, call.q.port)
  /\ UNCHANGED <<Present, F75111, a1, channel, D0, stored, data, call, failures>>

\* The lower card has numbers of its own when both are plugged in.
SetRS485AutoEn ==
  /\ Step("auto")
  /\ auto' = IF Present = Cards /\ call.q.Type = 1
               THEN Smi(IF Head(todo).En THEN \h72 ELSE \h73, call.q.port)
               ELSE Smi(IF Head(todo).En THEN \h70 ELSE \h71, call.q.port)
  /\ UNCHANGED <<Present, F75111, a1, channel, D0, stored, data, call, failures>>

CpNext ==
  \/ Begin
  \/ set_PCA9548_channel \/ read_byte \/ write_byte
  \/ write_SIO_reg \/ SetRS485AutoEn

CpSpec == CpInit /\ [][CpNext]_cpVars

-----------------------------------------------------------------------------
(* Properties. *)

Settings ==
  [F75111 : [Cards -> [Regs -> Byte]], a1 : Byte, auto : SUBSET (Cards \X (0 .. 7))]

\* Type invariant.
CpTypeOK ==
  /\ Present \subseteq Cards /\ channel \in {0} \cup Cards
  /\ F75111 \in [Cards -> [Regs -> Byte]]
  /\ {a1, D0, data} \subseteq Byte
  /\ auto \subseteq Cards \X (0 .. 7)
  /\ stored \in [Ports -> {<< >>} \cup ((0 .. 3) \X {0, 1})]
  /\ \A i \in DOMAIN todo : todo[i].do \in {"select", "read", "write", "a1", "auto"}
  /\ call \in [q : Request, before : Settings, clean : BOOLEAN]
  /\ failures \in 0 .. MaxFailures

Level(r, c, n) == IF Pin(n).bit \in r[c][RegOf(Pin(n))] THEN 1 ELSE 0
Levels(r, c, n) == <<Level(r, c, n), Level(r, c, n + 1), Level(r, c, n + 2)>>
Asked(q, was) ==
  (IF q.mode = 3 THEN <<was[1], was[2]>> ELSE ModeLevels(q.mode)) \o <<q.termination>>

\* A call for a card that is plugged in, none of whose transactions failed,
\* leaves the port's mode and termination pins as asked and as the BIOS has
\* them stored, its auto mode on for RS-485 and RS-422 alone, and every other
\* port of both cards, pins and auto mode, as they were: the call changes
\* pins by reading and writing registers that three ports share.
PortAsAsked ==
  LET q == call.q
      c == q.Type
      was == call.before
  IN todo = << >> /\ call.clean /\ c \in Present =>
       /\ \A k \in Cards, n \in 0 .. 7 :
            Levels(F75111, k, 3 * n) = IF <<k, n>> = <<c, q.port>>
                                       THEN Asked(q, Levels(was.F75111, k, 3 * n))
                                       ELSE Levels(was.F75111, k, 3 * n)
       /\ stored[<<c, q.port>>] = <<q.mode, q.termination>>
       /\ auto = IF q.mode = 3 THEN was.auto
                 ELSE IF q.mode = 0 THEN was.auto \ {<<c, q.port>>}
                 ELSE was.auto \cup {<<c, q.port>>}

\* Even when one transaction has failed, and whether or not the addressed card is
\* plugged in, a call changes no pin of the other card and none of the chip
\* the port is not on; a call for a port on the board changes no card at all,
\* and a call for a card does not touch the board's ports.  That needs the
\* multiplexer to be disconnected between calls.  (Two failures can break it:
\* of the disconnection, and of the next call's selection.)
ChipOf(q) == Pin(3 * q.port).chip
OthersKept ==
  call.q # Loading /\ failures <= 1 =>
    /\ \A k \in Cards, r \in Regs :
         k # call.q.Type \/ r[1] # ChipOf(call.q) => F75111[k][r] = call.before.F75111[k][r]
    /\ call.q.Type # 0 => a1 = call.before.a1
=============================================================================
