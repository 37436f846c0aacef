------------------------------- MODULE Lec3230 -------------------------------
(***************************************************************************)
(* The LEC-3230: its watchdog and bypass, LED, status LED and button       *)
(* drivers drive one Super-IO chip.  They are written for a kernel without *)
(* preemption, so an ioctl is one step; what one driver leaves behind, in  *)
(* the registers or in the chip's mode, is what the next one finds.  Left  *)
(* out: the pin-select registers 0x26, 0x2A, 0x2B and 0x2C.                *)
(***************************************************************************)
EXTENDS Bytes

CONSTANTS
  Times,    \* watchdog times programs ask for, as the set bits of the byte
  PowerOn   \* what the registers may hold before the drivers are loaded

Pairs == 1 .. 2
Drivers == {"wd", "led", "sled", "btn"}

Led1 == <<6, \hD1>>  Dir1 == <<6, \hD0>>
Led2 == <<6, \hE1>>  Dir2 == <<6, \hE0>>
Led3 == <<6, \hF1>>  Dir3 == <<6, \hF0>>
Sled == <<6, \h91>>  Dir4 == <<6, \h90>>
Count == <<7, \hF5>>  Time == <<7, \hF6>>  Reset == <<7, \hFA>>
Relay1 == <<9, \hE5>>  Relay2 == <<8, \hE5>>  OffRelay2 == <<7, \hE1>>

Cells == {Led1, Led2, Led3, Sled, Dir1, Dir2, Dir3, Dir4,
          Count, Time, Reset, Relay1, Relay2, OffRelay2}

ASSUME LecAssumption == Times \subseteq Byte /\ PowerOn \subseteq [Cells -> Byte]

VARIABLES
  regs,           \* contents of the registers
  config,         \* the chip is in configuration mode
  watchdog_time,  \* of the watchdog driver: the time to start with
  asked           \* what programs last asked for (timer: the time in a set,
                  \* {} when it is stopped; relay: the bypass request just
                  \* answered).  Not in the code.

vars == <<regs, config, watchdog_time, asked>>

-----------------------------------------------------------------------------
(* What an operation does to the registers: bits it clears and bits it     *)
(* sets.  It has its effect only in configuration mode.                    *)

Change(cell, clear, set) == [cell |-> cell, clear |-> clear, set |-> set]

Applied(r, changes) ==
  [x \in Cells |->
     (r[x] \ UNION {w.clear : w \in {v \in changes : v.cell = x}})
       \cup UNION {w.set : w \in {v \in changes : v.cell = x}}]

\* The eight LEDs are lit by a 0; every LED operation drives all of them.
Lit(d, e, f) == {Change(Led1, d, {1} \ d), Change(Led2, e, {0, 1, 4} \ e),
                 Change(Led3, f, (1 .. 4) \ f)}

LedOps == ({"status"} \X (1 .. 4)) \cup ({"pin"} \X (1 .. 8))

Leds(o) ==
  CASE o = <<"status", 1>> -> Lit({1}, {0, 1, 4}, 1 .. 4)
    [] o = <<"status", 2>> -> Lit({}, {}, {})
    [] o = <<"status", 3>> -> Lit({}, {}, 1 .. 4)
    [] o = <<"status", 4>> -> Lit({1}, {0, 1, 4}, {})
    [] o = <<"pin", 1>> -> Lit({1}, {}, {})
    [] o = <<"pin", 2>> -> Lit({}, {0}, {})
    [] o = <<"pin", 3>> -> Lit({}, {1}, {})
    [] o = <<"pin", 4>> -> Lit({}, {4}, {})
    [] o[1] = "pin" /\ o[2] > 4 -> Lit({}, {}, {o[2] - 4})

InitOf(d) ==
  CASE d = "wd" -> {Change(Reset, Bit, {}), Change(Count, Bit, {6})}
    [] d = "led" -> {Change(Led3, {}, 1 .. 4), Change(Dir3, {}, 1 .. 4),
                     Change(Dir2, {}, {0, 1, 4}), Change(Dir1, {}, {1})}
    [] d = "sled" -> {Change(Dir4, {}, {4})}
    [] d = "btn" -> {Change(Dir4, {3}, {})}

OffModeEnable(p) ==
  IF p = 1 THEN {Change(Relay1, {2, 3}, {2})} ELSE {Change(OffRelay2, {0, 1}, {0})}
OffModeDisable(p) ==
  IF p = 1 THEN {Change(Relay1, {2, 3}, {3})} ELSE {Change(OffRelay2, {0, 1}, {1})}
RuntimeEnable(p) ==
  IF p = 1 THEN {Change(Relay1, {4}, {})} ELSE {Change(Relay2, {0}, {})}
RuntimeDisable(p) ==
  IF p = 1 THEN {Change(Relay1, {}, {4})} ELSE {Change(Relay2, {}, {0})}

\* What the board shows of it.
Shown(r) == (IF 1 \in r[Led1] THEN {} ELSE {1})
              \cup {k \in 2 .. 4 : <<0, 1, 4>>[k - 1] \notin r[Led2]}
              \cup {k \in 5 .. 8 : k - 4 \notin r[Led3]}
Counting(r) == 5 \in r[Count] /\ 0 \in r[Reset]
OffMode(r, p) == IF p = 1 THEN 2 \in r[Relay1] /\ 3 \notin r[Relay1]
                          ELSE 0 \in r[OffRelay2] /\ 1 \notin r[OffRelay2]
Runtime(r, p) == IF p = 1 THEN 4 \notin r[Relay1] ELSE 0 \notin r[Relay2]

-----------------------------------------------------------------------------
(* The operations. *)

\* enter_SIO_config ... exit_SIO_config, whatever the mode was before.
InConfigMode(changes) == regs' = Applied(regs, changes) /\ config' = FALSE

\* Without entering it.
InCurrentMode(changes) ==
  regs' = (IF config THEN Applied(regs, changes) ELSE regs) /\ UNCHANGED config

Loaded(r) == Applied(r, UNION {InitOf(d) : d \in Drivers})

None == [leds |-> {}, status |-> FALSE, timer |-> {}, relay |-> << >>]

Init ==
  /\ \E r \in PowerOn :
       /\ regs = Loaded(r)
       /\ asked = [None EXCEPT !.leds = Shown(Loaded(r)),
                               !.status = 4 \in Loaded(r)[Sled]]
  /\ config = FALSE
  /\ watchdog_time = {}

\* rmmod, which leaves the chip alone, and insmod.
Reload(d) ==
  /\ InConfigMode(InitOf(d))
  /\ watchdog_time' = IF d = "wd" THEN {} ELSE watchdog_time
  /\ asked' = [asked EXCEPT !.relay = << >>,
                            !.timer = IF d = "wd" THEN {} ELSE @,
                            !.leds = IF d = "led" THEN @ \ (5 .. 8) ELSE @]

AskedLeds(o) ==
  CASE o[1] = "pin" -> {o[2]}
    [] o[1] = "status" -> <<1 .. 8, {}, 5 .. 8, 1 .. 4>>[o[2]]

set_led(o) ==
  /\ InConfigMode(Leds(o))
  /\ asked' = [asked EXCEPT !.leds = AskedLeds(o), !.relay = << >>]
  /\ UNCHANGED watchdog_time

\* The status LED: status 2 sets its bit, status 1 and status 3 clear it.
set_sled(s) ==
  /\ InConfigMode({IF s = 2 THEN Change(Sled, {}, {4}) ELSE Change(Sled, {4}, {})})
  /\ asked' = [asked EXCEPT !.status = (s = 2), !.relay = << >>]
  /\ UNCHANGED watchdog_time

Remember(t) ==
  /\ watchdog_time' = t
  /\ asked' = [asked EXCEPT !.relay = << >>]
  /\ UNCHANGED regs

\* The return comes before exit_SIO_config().
get_btn_status == Remember(watchdog_time) /\ config' = TRUE

SetTimer(t) == Remember(t) /\ UNCHANGED config

\* Mutant: the driver keeps a time that it refuses, 256 say.
SetTimerInvalid_kept == Remember({8}) /\ UNCHANGED config

\* A time out of 0 .. 255 is answered with EOPNOTSUPP and leaves 0 behind.
SetTimerInvalid == Remember({}) /\ UNCHANGED config

start_watchdog_timer ==
  /\ InConfigMode({Change(Time, Bit, watchdog_time), Change(Reset, Bit, {0}),
                   Change(Count, Bit \ {6}, {5})})
  /\ asked' = [asked EXCEPT !.timer = {watchdog_time}, !.relay = << >>]
  /\ UNCHANGED watchdog_time

\* Mutant: the start bit is kept instead of the time step bit.
stop_watchdog_timer_kept ==
  /\ InConfigMode({Change(Count, Bit \ {5}, {})})
  /\ asked' = [asked EXCEPT !.timer = {}, !.relay = << >>]
  /\ UNCHANGED watchdog_time

stop_watchdog_timer ==
  /\ InConfigMode({Change(Count, Bit \ {6}, {})})
  /\ asked' = [asked EXCEPT !.timer = {}, !.relay = << >>]
  /\ UNCHANGED watchdog_time

\* None of the bypass functions enters configuration mode.
Bypass(kind, p, changes) ==
  /\ InCurrentMode(changes)
  /\ asked' = [asked EXCEPT !.relay = <<kind, p>>]
  /\ UNCHANGED watchdog_time

set_bypass_enable_when_system_off(p) == Bypass("sobe", p, OffModeEnable(p))
set_bypass_disable_when_system_off(p) == Bypass("sobd", p, OffModeDisable(p))
set_runtime_bypass_disable(p) == Bypass("srbd", p, RuntimeDisable(p))

\* Mutant: the note "user need to set off-mode bypass enabled" is left to the user.
set_runtime_bypass_enable_alone(p) == Bypass("srbe", p, RuntimeEnable(p))

\* It enables the off-mode bypass first.
set_runtime_bypass_enable(p) == Bypass("srbe", p, OffModeEnable(p) \cup RuntimeEnable(p))

Next ==
  \/ \E d \in Drivers : Reload(d)
  \/ \E o \in LedOps : set_led(o)
  \/ \E s \in 1 .. 3 : set_sled(s)
  \/ get_btn_status
  \/ (\E t \in Times : SetTimer(t)) \/ SetTimerInvalid
  \/ start_watchdog_timer \/ stop_watchdog_timer
  \/ \E p \in Pairs :
       \/ set_bypass_enable_when_system_off(p) \/ set_bypass_disable_when_system_off(p)
       \/ set_runtime_bypass_enable(p) \/ set_runtime_bypass_disable(p)

Spec == Init /\ [][Next]_vars

-----------------------------------------------------------------------------
(* Properties. *)

\* Type invariant.
TypeOK ==
  /\ regs \in [Cells -> Byte]
  /\ config \in BOOLEAN
  /\ watchdog_time \in Byte
  /\ asked.leds \subseteq 1 .. 8 /\ asked.status \in BOOLEAN
  /\ asked.timer \in {{}} \cup {{t} : t \in Byte}
  /\ asked.relay \in ({"sobe", "sobd", "srbe", "srbd"} \X Pairs) \cup {<< >>}

\* The board shows what was last asked of each driver, whatever the others
\* did since, reloads included, and in whatever mode they left the chip: the
\* eight LEDs, the status LED, and a watchdog that counts from the stored
\* time exactly when it was started and not stopped; the pins that show it
\* are still outputs, and the button's pin is an input.
OutputsAsAsked ==
  /\ Shown(regs) = asked.leds
  /\ 4 \in regs[Sled] <=> asked.status
  /\ Counting(regs) <=> asked.timer # {}
  /\ asked.timer \subseteq {regs[Time]}
  /\ 1 \in regs[Dir1] /\ {0, 1, 4} \subseteq regs[Dir2] /\ 1 .. 4 \subseteq regs[Dir3]
  /\ 4 \in regs[Dir4] /\ 3 \notin regs[Dir4]

\* A pair's runtime bypass is switched on only together with its off-mode
\* bypass ("user need to set off-mode bypass enabled in order to let function
\* activity"), and no step changes the relays of two pairs.
RelayOf(r, p) == <<OffMode(r, p), Runtime(r, p)>>
OffBypassFirst ==
  [][/\ \A p \in Pairs : Runtime(regs', p) /\ ~Runtime(regs, p) => OffMode(regs', p)
     /\ \A p, q \in Pairs : (RelayOf(regs', p) # RelayOf(regs, p)
                             /\ RelayOf(regs', q) # RelayOf(regs, q)) => p = q]_vars

\* "Can I force Lan bypass by my program? Yes": the relay stands as the last
\* bypass ioctl, which was answered with 0, asked for.
BypassAsCommanded ==
  asked.relay # << >> =>
    LET kind == asked.relay[1]
        p == asked.relay[2]
    IN CASE kind = "sobe" -> OffMode(regs, p)
         [] kind = "sobd" -> ~OffMode(regs, p)
         [] kind = "srbe" -> OffMode(regs, p) /\ Runtime(regs, p)
         [] kind = "srbd" -> ~Runtime(regs, p)
=============================================================================
