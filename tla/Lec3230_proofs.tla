--------------------------- MODULE Lec3230_proofs ---------------------------
(***************************************************************************)
(* Proofs about the LEC-3230's drivers, for any contents of the registers  *)
(* at power-on and any watchdog times: what one driver was asked for is    *)
(* not undone by another one, and runtime bypass comes with off-mode       *)
(* bypass.  The second part is about the board's COM ports, for any        *)
(* requests, any registers at boot and any number of failures.             *)
(***************************************************************************)
EXTENDS Lec3230, ComPort, SequenceTheorems, TLAPS

\* The board's part of OutputsAsAsked, as a relation between registers and
\* requests.
Directions(r) ==
  /\ 1 \in r[Dir1] /\ {0, 1, 4} \subseteq r[Dir2] /\ 1 .. 4 \subseteq r[Dir3]
  /\ 4 \in r[Dir4] /\ 3 \notin r[Dir4]

Timer(r, t) == (Counting(r) <=> t # {}) /\ t \subseteq {r[Time]}

Good(r, leds, status, t) ==
  /\ Shown(r) = leds /\ (4 \in r[Sled] <=> status) /\ Timer(r, t) /\ Directions(r)

Timers == {{}} \cup {{t} : t \in Byte}
AskedType ==
  asked \in [leds : SUBSET (1 .. 8), status : BOOLEAN, timer : Timers,
             relay : ({"sobe", "sobd", "srbe", "srbd"} \X Pairs) \cup {<< >>}]

IInv ==
  /\ regs \in [Cells -> Byte] /\ config \in BOOLEAN /\ watchdog_time \in Byte
  /\ AskedType
  /\ Good(regs, asked.leds, asked.status, asked.timer)

LEMMA InvImplies == IInv => TypeOK /\ OutputsAsAsked
  <1> SUFFICES ASSUME IInv PROVE TypeOK /\ OutputsAsAsked
    OBVIOUS
  <1>1. /\ asked.leds \subseteq 1 .. 8 /\ asked.status \in BOOLEAN
        /\ asked.timer \in Timers
        /\ asked.relay \in ({"sobe", "sobd", "srbe", "srbd"} \X Pairs) \cup {<< >>}
    BY DEF IInv, AskedType
  <1>2. TypeOK
    BY <1>1 DEF IInv, TypeOK, Timers
  <1>3. Good(regs, asked.leds, asked.status, asked.timer)
    BY DEF IInv
  <1>4. /\ 4 \in regs[Sled] <=> asked.status
        /\ Counting(regs) <=> asked.timer # {}
    BY <1>3 DEF Good, Timer
  <1>6. /\ Shown(regs) = asked.leds /\ asked.timer \subseteq {regs[Time]}
        /\ Directions(regs)
    BY <1>3, Zenon DEF Good, Timer
  <1>7. OutputsAsAsked
    BY <1>4, <1>6, Zenon DEF OutputsAsAsked, Directions
  <1> QED
    BY <1>2, <1>7

-----------------------------------------------------------------------------
(* What changes do to a set of registers. *)

BoardCells == {Led1, Led2, Led3, Sled, Dir1, Dir2, Dir3, Dir4, Count, Time, Reset}
RelayCells == {Relay1, Relay2, OffRelay2}

LEMMA AppliedElsewhere ==
  ASSUME NEW r \in [Cells -> Byte], NEW changes, NEW x \in Cells,
         \A v \in changes : v.cell # x
  PROVE  Applied(r, changes)[x] = r[x]
  BY DEF Applied

LEMMA AppliedAt ==
  ASSUME NEW r \in [Cells -> Byte], NEW changes, NEW w \in changes, w.cell \in Cells,
         \A v \in changes : v.cell = w.cell => v = w
  PROVE  Applied(r, changes)[w.cell] = (r[w.cell] \ w.clear) \cup w.set
  <1>1. {v \in changes : v.cell = w.cell} = {w}
    OBVIOUS
  <1> QED
    BY <1>1 DEF Applied

LEMMA AppliedType ==
  ASSUME NEW r \in [Cells -> Byte], NEW changes, \A v \in changes : v.set \subseteq Bit
  PROVE  Applied(r, changes) \in [Cells -> Byte]
  BY DEF Applied, Byte

\* One change.
LEMMA AppliedOne ==
  ASSUME NEW r \in [Cells -> Byte], NEW x \in Cells, NEW clear, NEW set
  PROVE  /\ Applied(r, {Change(x, clear, set)})[x] = (r[x] \ clear) \cup set
         /\ \A y \in Cells : y # x => Applied(r, {Change(x, clear, set)})[y] = r[y]
  <1> DEFINE w == Change(x, clear, set)
  <1>1. w.cell = x /\ w.clear = clear /\ w.set = set
    BY DEF Change
  <1>2. \A v \in {w} : v = w
    OBVIOUS
  <1> HIDE DEF w
  <1>3. Applied(r, {w})[x] = (r[x] \ clear) \cup set
    BY <1>1, <1>2, AppliedAt
  <1>4. \A y \in Cells : y # x => Applied(r, {w})[y] = r[y]
    BY <1>1, <1>2, AppliedElsewhere
  <1> QED
    BY <1>3, <1>4 DEF w

\* Three changes in three different registers.
LEMMA AppliedThree ==
  ASSUME NEW r \in [Cells -> Byte],
         NEW x \in Cells, NEW y \in Cells, NEW z \in Cells, x # y, x # z, y # z,
         NEW cx, NEW cy, NEW cz, NEW sx, NEW sy, NEW sz,
         NEW s, s = Applied(r, {Change(x, cx, sx), Change(y, cy, sy), Change(z, cz, sz)})
  PROVE  /\ s[x] = (r[x] \ cx) \cup sx
         /\ s[y] = (r[y] \ cy) \cup sy
         /\ s[z] = (r[z] \ cz) \cup sz
         /\ \A u \in Cells : u \notin {x, y, z} => s[u] = r[u]
  <1> DEFINE a == Change(x, cx, sx)
  <1> DEFINE b == Change(y, cy, sy)
  <1> DEFINE c == Change(z, cz, sz)
  <1>1. /\ a.cell = x /\ a.clear = cx /\ a.set = sx
        /\ b.cell = y /\ b.clear = cy /\ b.set = sy
        /\ c.cell = z /\ c.clear = cz /\ c.set = sz
    BY DEF Change
  <1>2. s = Applied(r, {a, b, c})
    OBVIOUS
  <1> HIDE DEF a, b, c
  <1> DEFINE S == {a, b, c}
  <1>3. a \in S /\ b \in S /\ c \in S /\ \A v \in S : v = a \/ v = b \/ v = c
    OBVIOUS
  <1>4. s = Applied(r, S)
    BY <1>2
  <1> HIDE DEF S
  <1>5. s[x] = (r[x] \ cx) \cup sx
    BY <1>1, <1>3, <1>4, AppliedAt
  <1>6. s[y] = (r[y] \ cy) \cup sy
    BY <1>1, <1>3, <1>4, AppliedAt
  <1>7. s[z] = (r[z] \ cz) \cup sz
    BY <1>1, <1>3, <1>4, AppliedAt
  <1>8. \A u \in Cells : u \notin {x, y, z} => s[u] = r[u]
    BY <1>1, <1>3, <1>4, AppliedElsewhere
  <1> QED
    BY <1>5, <1>6, <1>7, <1>8

LEMMA CellsDiffer ==
  /\ Led1 # Led2 /\ Led1 # Led3 /\ Led2 # Led3
  /\ {Led1, Led2, Led3} \cap {Sled, Dir1, Dir2, Dir3, Dir4, Count, Time, Reset} = {}
  /\ Count # Time /\ Count # Reset /\ Time # Reset
  /\ {Count, Time, Reset} \cap {Sled, Dir1, Dir2, Dir3, Dir4} = {}
  /\ Sled \notin {Dir1, Dir2, Dir3, Dir4}
  /\ Dir4 \notin {Dir1, Dir2, Dir3}
  /\ Dir1 # Dir2 /\ Dir1 # Dir3 /\ Dir2 # Dir3
  /\ BoardCells \cap RelayCells = {}
  /\ Relay1 # Relay2 /\ Relay1 # OffRelay2 /\ Relay2 # OffRelay2
  /\ BoardCells \cup RelayCells = Cells
  BY DEF Led1, Led2, Led3, Sled, Dir1, Dir2, Dir3, Dir4, Count, Time, Reset,
         Relay1, Relay2, OffRelay2, BoardCells, RelayCells, Cells

\* What the board shows depends on its own registers only.
LEMMA GoodSame ==
  ASSUME NEW r, NEW s, NEW leds, NEW status, NEW t,
         Good(r, leds, status, t), \A x \in BoardCells : s[x] = r[x]
  PROVE  Good(s, leds, status, t)
  <1>1. /\ s[Led1] = r[Led1] /\ s[Led2] = r[Led2] /\ s[Led3] = r[Led3] /\ s[Sled] = r[Sled]
        /\ s[Dir1] = r[Dir1] /\ s[Dir2] = r[Dir2] /\ s[Dir3] = r[Dir3] /\ s[Dir4] = r[Dir4]
        /\ s[Count] = r[Count] /\ s[Time] = r[Time] /\ s[Reset] = r[Reset]
    BY DEF BoardCells
  <1>2. Shown(s) = Shown(r)
    BY <1>1 DEF Shown
  <1>3. Timer(s, t) /\ Directions(s)
    BY <1>1 DEF Good, Timer, Counting, Directions
  <1> QED
    BY <1>1, <1>2, <1>3 DEF Good

-----------------------------------------------------------------------------
(* The LEDs. *)

\* The LEDs that Lit(d, e, f) lights.
LitBy(d, e, f) == (IF 1 \in d THEN {1} ELSE {})
                    \cup {k \in 2 .. 4 : <<0, 1, 4>>[k - 1] \in e}
                    \cup {k \in 5 .. 8 : k - 4 \in f}

LEMMA LitShown ==
  ASSUME NEW r \in [Cells -> Byte], NEW d \in SUBSET {1}, NEW e \in SUBSET {0, 1, 4},
         NEW f \in SUBSET (1 .. 4), NEW s, s = Applied(r, Lit(d, e, f))
  PROVE  /\ Shown(s) = LitBy(d, e, f)
         /\ \A u \in Cells : u \notin {Led1, Led2, Led3} => s[u] = r[u]
  <1>1. /\ Led1 \in Cells /\ Led2 \in Cells /\ Led3 \in Cells
        /\ Led1 # Led2 /\ Led1 # Led3 /\ Led2 # Led3
    BY CellsDiffer DEF Cells
  <1>2. s = Applied(r, {Change(Led1, d, {1} \ d), Change(Led2, e, {0, 1, 4} \ e),
                        Change(Led3, f, (1 .. 4) \ f)})
    BY DEF Lit
  <1>3. /\ s[Led1] = (r[Led1] \ d) \cup ({1} \ d)
        /\ s[Led2] = (r[Led2] \ e) \cup ({0, 1, 4} \ e)
        /\ s[Led3] = (r[Led3] \ f) \cup ((1 .. 4) \ f)
        /\ \A u \in Cells : u \notin {Led1, Led2, Led3} => s[u] = r[u]
    BY <1>1, <1>2, AppliedThree
  <1>4. 1 \in s[Led1] <=> 1 \notin d
    BY <1>3
  <1>5. \A k \in 2 .. 4 : <<0, 1, 4>>[k - 1] \notin s[Led2] <=> <<0, 1, 4>>[k - 1] \in e
    <2>1. \A k \in 2 .. 4 : <<0, 1, 4>>[k - 1] \in {0, 1, 4}
      OBVIOUS
    <2> QED
      BY <1>3, <2>1
  <1>6. \A k \in 5 .. 8 : k - 4 \notin s[Led3] <=> k - 4 \in f
    <2>1. \A k \in 5 .. 8 : k - 4 \in 1 .. 4
      OBVIOUS
    <2> QED
      BY <1>3, <2>1
  <1>7. Shown(s) = LitBy(d, e, f)
    BY <1>4, <1>5, <1>6, Zenon DEF Shown, LitBy
  <1> QED
    BY <1>3, <1>7

\* Every LED operation lights what it was asked to light.
LEMMA LedsAsked ==
  ASSUME NEW o \in LedOps
  PROVE  /\ AskedLeds(o) \subseteq 1 .. 8
         /\ \E d \in SUBSET {1}, e \in SUBSET {0, 1, 4}, f \in SUBSET (1 .. 4) :
              Leds(o) = Lit(d, e, f) /\ LitBy(d, e, f) = AskedLeds(o)
  <1> DEFINE Found(d, e, f) == Leds(o) = Lit(d, e, f) /\ LitBy(d, e, f) = AskedLeds(o)
                               /\ AskedLeds(o) \subseteq 1 .. 8
  <1>1. o \in {"status"} \X (1 .. 4) \/ o \in {"pin"} \X (1 .. 8)
    BY DEF LedOps
  <1>2. CASE o = <<"status", 1>>
    <2>1. Leds(o) = Lit({1}, {0, 1, 4}, 1 .. 4)
      BY <1>2 DEF Leds
    <2>2. AskedLeds(o) = 1 .. 8
      BY <1>2 DEF AskedLeds
    <2>3. LitBy({1}, {0, 1, 4}, 1 .. 4) = 1 .. 8
      BY DEF LitBy
    <2> QED
      BY <2>1, <2>2, <2>3
  <1>3. CASE o = <<"status", 2>>
    <2>1. Leds(o) = Lit({}, {}, {})
      BY <1>3 DEF Leds
    <2>2. AskedLeds(o) = {}
      BY <1>3 DEF AskedLeds
    <2>3. LitBy({}, {}, {}) = {}
      BY DEF LitBy
    <2> QED
      BY <2>1, <2>2, <2>3
  <1>4. CASE o = <<"status", 3>>
    <2>1. Leds(o) = Lit({}, {}, 1 .. 4)
      BY <1>4 DEF Leds
    <2>2. AskedLeds(o) = 5 .. 8
      BY <1>4 DEF AskedLeds
    <2>3. LitBy({}, {}, 1 .. 4) = 5 .. 8
      BY DEF LitBy
    <2> QED
      BY <2>1, <2>2, <2>3
  <1>5. CASE o = <<"status", 4>>
    <2>1. Leds(o) = Lit({1}, {0, 1, 4}, {})
      BY <1>5 DEF Leds
    <2>2. AskedLeds(o) = 1 .. 4
      BY <1>5 DEF AskedLeds
    <2>3. LitBy({1}, {0, 1, 4}, {}) = 1 .. 4
      BY DEF LitBy
    <2> QED
      BY <2>1, <2>2, <2>3
  <1>6. CASE o = <<"pin", 1>>
    <2>1. Leds(o) = Lit({1}, {}, {}) /\ AskedLeds(o) = {1}
      BY <1>6 DEF Leds, AskedLeds
    <2>2. LitBy({1}, {}, {}) = {1}
      BY DEF LitBy
    <2> QED
      BY <2>1, <2>2
  <1>7. CASE o = <<"pin", 2>>
    <2>1. Leds(o) = Lit({}, {0}, {}) /\ AskedLeds(o) = {2}
      BY <1>7 DEF Leds, AskedLeds
    <2>2. LitBy({}, {0}, {}) = {2}
      BY DEF LitBy
    <2> QED
      BY <2>1, <2>2
  <1>8. CASE o = <<"pin", 3>>
    <2>1. Leds(o) = Lit({}, {1}, {}) /\ AskedLeds(o) = {3}
      BY <1>8 DEF Leds, AskedLeds
    <2>2. LitBy({}, {1}, {}) = {3}
      BY DEF LitBy
    <2> QED
      BY <2>1, <2>2
  <1>9. CASE o = <<"pin", 4>>
    <2>1. Leds(o) = Lit({}, {4}, {}) /\ AskedLeds(o) = {4}
      BY <1>9 DEF Leds, AskedLeds
    <2>2. LitBy({}, {4}, {}) = {4}
      BY DEF LitBy
    <2> QED
      BY <2>1, <2>2
  <1>10. CASE \E k \in 5 .. 8 : o = <<"pin", k>>
    <2>1. PICK k \in 5 .. 8 : o = <<"pin", k>>
      BY <1>10
    <2>2. Leds(o) = Lit({}, {}, {k - 4}) /\ AskedLeds(o) = {k}
      BY <2>1 DEF Leds, AskedLeds
    <2>3. LitBy({}, {}, {k - 4}) = {k}
      BY DEF LitBy
    <2>4. {k - 4} \in SUBSET (1 .. 4) /\ {k} \subseteq 1 .. 8
      OBVIOUS
    <2> QED
      BY <2>2, <2>3, <2>4
  <1> QED
    BY <1>1, <1>2, <1>3, <1>4, <1>5, <1>6, <1>7, <1>8, <1>9, <1>10

LEMMA GoodLed ==
  ASSUME NEW r \in [Cells -> Byte], NEW o \in LedOps, NEW leds, NEW status, NEW t,
         Good(r, leds, status, t)
  PROVE  Good(Applied(r, Leds(o)), AskedLeds(o), status, t)
  <1> DEFINE s == Applied(r, Leds(o))
  <1>1. PICK d \in SUBSET {1}, e \in SUBSET {0, 1, 4}, f \in SUBSET (1 .. 4) :
          Leds(o) = Lit(d, e, f) /\ LitBy(d, e, f) = AskedLeds(o)
    BY LedsAsked
  <1>2. s = Applied(r, Lit(d, e, f))
    BY <1>1
  <1> HIDE DEF s
  <1>3. /\ Shown(s) = AskedLeds(o)
        /\ \A u \in Cells : u \notin {Led1, Led2, Led3} => s[u] = r[u]
    BY <1>1, <1>2, LitShown
  <1>4. \A u \in {Sled, Dir1, Dir2, Dir3, Dir4, Count, Time, Reset} :
          u \in Cells /\ u \notin {Led1, Led2, Led3}
    BY CellsDiffer DEF Cells
  <1>5. /\ s[Sled] = r[Sled] /\ s[Dir1] = r[Dir1] /\ s[Dir2] = r[Dir2] /\ s[Dir3] = r[Dir3]
        /\ s[Dir4] = r[Dir4] /\ s[Count] = r[Count] /\ s[Time] = r[Time] /\ s[Reset] = r[Reset]
    BY <1>3, <1>4
  <1>6. Timer(s, t) /\ Directions(s)
    BY <1>5 DEF Good, Timer, Counting, Directions
  <1> QED
    BY <1>3, <1>5, <1>6 DEF Good, s

-----------------------------------------------------------------------------
(* The other drivers.  One register of theirs at a time. *)

\* A change of the status LED's register.
LEMMA GoodSled ==
  ASSUME NEW r \in [Cells -> Byte], NEW leds, NEW status, NEW t, NEW new \in BOOLEAN,
         NEW clear, NEW set, 4 \in (r[Sled] \ clear) \cup set <=> new,
         Good(r, leds, status, t)
  PROVE  Good(Applied(r, {Change(Sled, clear, set)}), leds, new, t)
  <1> DEFINE s == Applied(r, {Change(Sled, clear, set)})
  <1>1. s[Sled] = (r[Sled] \ clear) \cup set /\ \A y \in Cells : y # Sled => s[y] = r[y]
    BY AppliedOne DEF Cells
  <1> HIDE DEF s
  <1>2. /\ s[Led1] = r[Led1] /\ s[Led2] = r[Led2] /\ s[Led3] = r[Led3]
        /\ s[Dir1] = r[Dir1] /\ s[Dir2] = r[Dir2] /\ s[Dir3] = r[Dir3]
        /\ s[Dir4] = r[Dir4] /\ s[Count] = r[Count] /\ s[Time] = r[Time] /\ s[Reset] = r[Reset]
    BY <1>1, CellsDiffer DEF Cells
  <1>3. Shown(s) = Shown(r)
    BY <1>2 DEF Shown
  <1>4. Timer(s, t) /\ Directions(s)
    BY <1>2 DEF Good, Timer, Counting, Directions
  <1>5. 4 \in s[Sled] <=> new
    BY <1>1
  <1> QED
    BY <1>3, <1>4, <1>5 DEF Good, s

\* Changes of the watchdog's registers.
LEMMA GoodTimer ==
  ASSUME NEW r \in [Cells -> Byte], NEW leds, NEW status, NEW t, NEW new, NEW s,
         Good(r, leds, status, t), Timer(s, new),
         \A y \in Cells : y \notin {Count, Time, Reset} => s[y] = r[y]
  PROVE  Good(s, leds, status, new)
  <1>1. /\ s[Led1] = r[Led1] /\ s[Led2] = r[Led2] /\ s[Led3] = r[Led3]
        /\ s[Dir1] = r[Dir1] /\ s[Dir2] = r[Dir2] /\ s[Dir3] = r[Dir3]
        /\ s[Dir4] = r[Dir4] /\ s[Sled] = r[Sled]
    BY CellsDiffer DEF Cells
  <1>2. Shown(s) = Shown(r)
    BY <1>1 DEF Shown
  <1>3. Directions(s)
    BY <1>1 DEF Good, Directions
  <1> QED
    BY <1>1, <1>2, <1>3 DEF Good

LEMMA GoodStart ==
  ASSUME NEW r \in [Cells -> Byte], NEW leds, NEW status, NEW t, NEW new \in Byte,
         Good(r, leds, status, t)
  PROVE  Good(Applied(r, {Change(Time, Bit, new), Change(Reset, Bit, {0}),
                          Change(Count, Bit \ {6}, {5})}), leds, status, {new})
  <1> DEFINE s == Applied(r, {Change(Time, Bit, new), Change(Reset, Bit, {0}),
                              Change(Count, Bit \ {6}, {5})})
  <1>1. /\ Time \in Cells /\ Reset \in Cells /\ Count \in Cells
        /\ Time # Reset /\ Time # Count /\ Reset # Count
    BY CellsDiffer DEF Cells
  <1>2. /\ s[Time] = (r[Time] \ Bit) \cup new
        /\ s[Reset] = (r[Reset] \ Bit) \cup {0}
        /\ s[Count] = (r[Count] \ (Bit \ {6})) \cup {5}
        /\ \A u \in Cells : u \notin {Time, Reset, Count} => s[u] = r[u]
    BY <1>1, AppliedThree
  <1> HIDE DEF s
  <1>3. s[Time] = new
    BY <1>1, <1>2 DEF Byte
  <1>4. Timer(s, {new})
    BY <1>2, <1>3 DEF Timer, Counting
  <1>5. \A y \in Cells : y \notin {Count, Time, Reset} => s[y] = r[y]
    BY <1>2
  <1>6. Good(s, leds, status, {new})
    BY <1>4, <1>5, GoodTimer
  <1> QED
    BY <1>6 DEF s

LEMMA GoodStop ==
  ASSUME NEW r \in [Cells -> Byte], NEW leds, NEW status, NEW t, Good(r, leds, status, t)
  PROVE  Good(Applied(r, {Change(Count, Bit \ {6}, {})}), leds, status, {})
  <1> DEFINE s == Applied(r, {Change(Count, Bit \ {6}, {})})
  <1>1. /\ s[Count] = (r[Count] \ (Bit \ {6})) \cup {}
        /\ \A y \in Cells : y # Count => s[y] = r[y]
    BY AppliedOne DEF Cells
  <1> HIDE DEF s
  <1>2. 5 \notin s[Count]
    BY <1>1 DEF Bit
  <1>3. Timer(s, {})
    BY <1>2 DEF Timer, Counting
  <1>4. \A y \in Cells : y \notin {Count, Time, Reset} => s[y] = r[y]
    BY <1>1
  <1>5. Good(s, leds, status, {})
    BY <1>3, <1>4, GoodTimer
  <1> QED
    BY <1>5 DEF s

-----------------------------------------------------------------------------
(* Loading a driver. *)

\* What becomes of one bit.
LEMMA AppliedBit ==
  ASSUME NEW r \in [Cells -> Byte], NEW changes, NEW x \in Cells, NEW b
  PROVE  b \in Applied(r, changes)[x] <=>
           \/ \E v \in changes : v.cell = x /\ b \in v.set
           \/ b \in r[x] /\ \A v \in changes : v.cell = x => b \notin v.clear
  BY DEF Applied

LEMMA LoadWd ==
  ASSUME NEW r \in [Cells -> Byte], NEW leds, NEW status, NEW t, Good(r, leds, status, t)
  PROVE  Good(Applied(r, InitOf("wd")), leds, status, {})
  <1> DEFINE a == Change(Reset, Bit, {})
  <1> DEFINE b == Change(Count, Bit, {6})
  <1> DEFINE C == {a, b}
  <1> DEFINE s == Applied(r, C)
  <1>1. InitOf("wd") = C
    BY DEF InitOf
  <1>2. a.cell = Reset /\ b.cell = Count /\ a.clear = Bit /\ a.set = {}
    BY DEF Change
  <1>3. \A v \in C : v = a \/ v = b
    OBVIOUS
  <1>4. a \in C
    OBVIOUS
  <1>5. Reset \in Cells /\ Reset # Count
    BY CellsDiffer DEF Cells
  <1> HIDE DEF a, b, C
  <1>6. \A y \in Cells : y \notin {Count, Time, Reset} => s[y] = r[y]
    BY <1>2, <1>3, AppliedElsewhere
  <1>7. s[Reset] = (r[Reset] \ Bit) \cup {}
    BY <1>2, <1>3, <1>4, <1>5, AppliedAt
  <1> HIDE DEF s
  <1>8. 0 \notin s[Reset]
    BY <1>7 DEF Bit
  <1>9. Timer(s, {})
    BY <1>8 DEF Timer, Counting
  <1>10. Good(s, leds, status, {})
    BY <1>6, <1>9, GoodTimer
  <1> QED
    BY <1>1, <1>10 DEF s

LEMMA LoadLed ==
  ASSUME NEW r \in [Cells -> Byte], NEW leds, NEW status, NEW t, Good(r, leds, status, t)
  PROVE  Good(Applied(r, InitOf("led")), leds \ (5 .. 8), status, t)
  <1> DEFINE a == Change(Led3, {}, 1 .. 4)
  <1> DEFINE b == Change(Dir3, {}, 1 .. 4)
  <1> DEFINE c == Change(Dir2, {}, {0, 1, 4})
  <1> DEFINE d == Change(Dir1, {}, {1})
  <1> DEFINE C == {a, b, c, d}
  <1> DEFINE s == Applied(r, C)
  <1>1. InitOf("led") = C
    BY DEF InitOf
  <1>2. /\ a.cell = Led3 /\ b.cell = Dir3 /\ c.cell = Dir2 /\ d.cell = Dir1
        /\ a.clear = {} /\ b.clear = {} /\ c.clear = {} /\ d.clear = {}
        /\ a.set = 1 .. 4 /\ b.set = 1 .. 4 /\ c.set = {0, 1, 4} /\ d.set = {1}
    BY DEF Change
  <1>3. \A v \in C : v = a \/ v = b \/ v = c \/ v = d
    OBVIOUS
  <1>4. a \in C /\ b \in C /\ c \in C /\ d \in C
    OBVIOUS
  <1>5. /\ Led3 \in Cells /\ Dir1 \in Cells /\ Dir2 \in Cells /\ Dir3 \in Cells
        /\ Led3 # Dir1 /\ Led3 # Dir2 /\ Led3 # Dir3
        /\ Dir1 # Dir2 /\ Dir1 # Dir3 /\ Dir2 # Dir3
    BY CellsDiffer DEF Cells
  <1> HIDE DEF a, b, c, d, C
  <1>6. \A y \in Cells : y \notin {Led3, Dir1, Dir2, Dir3} => s[y] = r[y]
    BY <1>2, <1>3, AppliedElsewhere
  <1>7. s[Led3] = (r[Led3] \ {}) \cup (1 .. 4)
    BY <1>2, <1>3, <1>4, <1>5, AppliedAt
  <1>8. s[Dir3] = (r[Dir3] \ {}) \cup (1 .. 4)
    BY <1>2, <1>3, <1>4, <1>5, AppliedAt
  <1>9. s[Dir2] = (r[Dir2] \ {}) \cup {0, 1, 4}
    <2>1. c.cell \in Cells /\ \A v \in C : v.cell = c.cell => v = c
      BY <1>2, <1>3, <1>5
    <2>2. Applied(r, C)[c.cell] = (r[c.cell] \ c.clear) \cup c.set
      BY <2>1, <1>4, AppliedAt
    <2> QED
      BY <2>2, <1>2
  <1>10. s[Dir1] = (r[Dir1] \ {}) \cup {1}
    BY <1>2, <1>3, <1>4, <1>5, AppliedAt
  <1> HIDE DEF s
  <1>11. /\ s[Led1] = r[Led1] /\ s[Led2] = r[Led2] /\ s[Sled] = r[Sled] /\ s[Dir4] = r[Dir4]
         /\ s[Count] = r[Count] /\ s[Time] = r[Time] /\ s[Reset] = r[Reset]
    BY <1>6, CellsDiffer DEF Cells
  <1>12. \A k \in 5 .. 8 : k - 4 \in s[Led3]
    BY <1>7
  <1>13. Shown(s) = Shown(r) \ (5 .. 8)
    <2> DEFINE low == (IF 1 \in r[Led1] THEN {} ELSE {1})
                        \cup {k \in 2 .. 4 : <<0, 1, 4>>[k - 1] \notin r[Led2]}
    <2>1. Shown(s) = low
      BY <1>11, <1>12 DEF Shown
    <2>2. low \subseteq 1 .. 4
      OBVIOUS
    <2>3. Shown(r) = low \cup {k \in 5 .. 8 : k - 4 \notin r[Led3]}
      BY DEF Shown
    <2> HIDE DEF low
    <2> QED
      BY <2>1, <2>2, <2>3
  <1>14. Timer(s, t)
    BY <1>11 DEF Good, Timer, Counting
  <1>15. Directions(s)
    BY <1>8, <1>9, <1>10, <1>11 DEF Good, Directions
  <1>16. Good(s, leds \ (5 .. 8), status, t)
    BY <1>11, <1>13, <1>14, <1>15 DEF Good
  <1> QED
    BY <1>1, <1>16 DEF s

\* A change of the direction register that the status LED shares with the
\* button.
LEMMA GoodDir4 ==
  ASSUME NEW r \in [Cells -> Byte], NEW leds, NEW status, NEW t, NEW clear, NEW set,
         4 \notin clear, 3 \notin set, Good(r, leds, status, t)
  PROVE  Good(Applied(r, {Change(Dir4, clear, set)}), leds, status, t)
  <1> DEFINE s == Applied(r, {Change(Dir4, clear, set)})
  <1>1. s[Dir4] = (r[Dir4] \ clear) \cup set /\ \A y \in Cells : y # Dir4 => s[y] = r[y]
    BY AppliedOne DEF Cells
  <1> HIDE DEF s
  <1>2. /\ s[Led1] = r[Led1] /\ s[Led2] = r[Led2] /\ s[Led3] = r[Led3]
        /\ s[Dir1] = r[Dir1] /\ s[Dir2] = r[Dir2] /\ s[Dir3] = r[Dir3]
        /\ s[Sled] = r[Sled] /\ s[Count] = r[Count] /\ s[Time] = r[Time] /\ s[Reset] = r[Reset]
    BY <1>1, CellsDiffer DEF Cells
  <1>3. Shown(s) = Shown(r)
    BY <1>2 DEF Shown
  <1>4. Timer(s, t)
    BY <1>2 DEF Good, Timer, Counting
  <1>5. Directions(s)
    BY <1>1, <1>2 DEF Good, Directions
  <1>6. 4 \in s[Sled] <=> status
    BY <1>2 DEF Good
  <1>7. Shown(r) = leds
    BY DEF Good
  <1>8. Good(s, leds, status, t)
    BY <1>3, <1>4, <1>5, <1>6, <1>7 DEF Good
  <1> QED
    BY <1>8 DEF s

\* All four, from whatever the registers held.
LEMMA LoadedGood ==
  ASSUME NEW r \in [Cells -> Byte]
  PROVE  /\ Loaded(r) \in [Cells -> Byte]
         /\ Good(Loaded(r), Shown(Loaded(r)), 4 \in Loaded(r)[Sled], {})
         /\ Shown(Loaded(r)) \subseteq 1 .. 8
  <1> DEFINE C == UNION {InitOf(d) : d \in Drivers}
  <1> DEFINE s == Applied(r, C)
  <1>1. C = InitOf("wd") \cup InitOf("led") \cup InitOf("sled") \cup InitOf("btn")
    BY DEF Drivers
  <1>2. C = {Change(Reset, Bit, {}), Change(Count, Bit, {6}), Change(Led3, {}, 1 .. 4),
             Change(Dir3, {}, 1 .. 4), Change(Dir2, {}, {0, 1, 4}), Change(Dir1, {}, {1}),
             Change(Dir4, {}, {4}), Change(Dir4, {3}, {})}
    BY <1>1 DEF InitOf
  <1> HIDE DEF C
  <1>3. \A v \in C : v.set \subseteq Bit
    BY <1>2 DEF Change, Bit
  <1>4. s \in [Cells -> Byte]
    BY <1>3, AppliedType
  <1>5. /\ \E v \in C : v.cell = Dir1 /\ 1 \in v.set
        /\ \A b \in {0, 1, 4} : \E v \in C : v.cell = Dir2 /\ b \in v.set
        /\ \A b \in 1 .. 4 : \E v \in C : v.cell = Dir3 /\ b \in v.set
        /\ \E v \in C : v.cell = Dir4 /\ 4 \in v.set
        /\ \E v \in C : v.cell = Dir4 /\ 3 \in v.clear
        /\ \E v \in C : v.cell = Reset /\ 0 \in v.clear
    BY <1>2 DEF Change, Bit
  <1>6. Dir4 # Led1 /\ Dir4 # Led2 /\ Dir4 # Led3 /\ Dir4 # Dir1 /\ Dir4 # Dir2
        /\ Dir4 # Dir3 /\ Dir4 # Count /\ Dir4 # Reset
    BY CellsDiffer
  <1>7. \A v \in C : v.cell = Dir4 => 3 \notin v.set
    BY <1>2, <1>6 DEF Change
  <1>8. Reset # Led3 /\ Reset # Dir1 /\ Reset # Dir2 /\ Reset # Dir3 /\ Reset # Count
    BY CellsDiffer
  <1>9. \A v \in C : v.cell = Reset => 0 \notin v.set
    BY <1>2, <1>6, <1>8 DEF Change
  <1>10. Dir1 \in Cells /\ Dir2 \in Cells /\ Dir3 \in Cells /\ Dir4 \in Cells /\ Reset \in Cells
    BY DEF Cells
  <1>11. 1 \in s[Dir1] /\ {0, 1, 4} \subseteq s[Dir2] /\ 1 .. 4 \subseteq s[Dir3] /\ 4 \in s[Dir4]
    BY <1>5, <1>10, AppliedBit
  <1>12. 3 \notin s[Dir4]
    BY <1>5, <1>7, <1>10, AppliedBit
  <1>13. 0 \notin s[Reset]
    BY <1>5, <1>9, <1>10, AppliedBit
  <1>14. Loaded(r) = s
    BY DEF Loaded, C
  <1> HIDE DEF s
  <1>15. Timer(s, {})
    BY <1>13 DEF Timer, Counting
  <1>16. Directions(s)
    BY <1>11, <1>12 DEF Directions
  <1>17. Good(s, Shown(s), 4 \in s[Sled], {})
    BY <1>15, <1>16 DEF Good
  <1>18. Shown(s) \subseteq 1 .. 8
    BY DEF Shown
  <1> QED
    BY <1>4, <1>14, <1>17, <1>18

-----------------------------------------------------------------------------
(* The invariant. *)

LEMMA InitInv == Init => IInv
  <1> SUFFICES ASSUME Init PROVE IInv
    OBVIOUS
  <1>1. PICK r \in PowerOn : /\ regs = Loaded(r)
                            /\ asked = [None EXCEPT !.leds = Shown(Loaded(r)),
                                                    !.status = 4 \in Loaded(r)[Sled]]
    BY DEF Init
  <1>2. r \in [Cells -> Byte]
    BY LecAssumption
  <1>3. /\ regs \in [Cells -> Byte] /\ Shown(regs) \subseteq 1 .. 8
        /\ Good(regs, Shown(regs), 4 \in regs[Sled], {})
    BY <1>1, <1>2, LoadedGood
  <1>4. asked = [leds |-> Shown(regs), status |-> 4 \in regs[Sled], timer |-> {},
                 relay |-> << >>]
    BY <1>1 DEF None
  <1>5. Good(regs, asked.leds, asked.status, asked.timer)
    BY <1>3, <1>4
  <1>6. AskedType
    BY <1>3, <1>4 DEF AskedType, Timers
  <1>7. config \in BOOLEAN /\ watchdog_time \in Byte
    BY DEF Init, Byte
  <1> QED
    BY <1>3, <1>5, <1>6, <1>7 DEF IInv

Relays == ({"sobe", "sobd", "srbe", "srbd"} \X Pairs) \cup {<< >>}

\* What is left to show of a step: the new requests, and that the registers
\* show them.
LEMMA Preserved ==
  ASSUME IInv, NEW leds \in SUBSET (1 .. 8), NEW status \in BOOLEAN, NEW t \in Timers,
         NEW relay \in Relays,
         asked' = [asked EXCEPT !.leds = leds, !.status = status, !.timer = t,
                                !.relay = relay],
         regs' \in [Cells -> Byte], config' \in BOOLEAN, watchdog_time' \in Byte,
         Good(regs', leds, status, t)
  PROVE  IInv'
  <1>1. asked' = [leds |-> leds, status |-> status, timer |-> t, relay |-> relay]
    BY DEF IInv, AskedType
  <1>2. AskedType'
    BY <1>1 DEF AskedType, Relays
  <1>3. Good(regs', asked'.leds, asked'.status, asked'.timer)
    BY <1>1
  <1> QED
    BY <1>2, <1>3 DEF IInv

LEMMA StepLed ==
  ASSUME IInv, NEW o \in LedOps, set_led(o)
  PROVE  IInv'
  <1>1. PICK d \in SUBSET {1}, e \in SUBSET {0, 1, 4}, f \in SUBSET (1 .. 4) :
          Leds(o) = Lit(d, e, f) /\ LitBy(d, e, f) = AskedLeds(o)
    BY LedsAsked
  <1>2. \A v \in Leds(o) : v.set \subseteq Bit
    BY <1>1 DEF Lit, Change, Bit
  <1>3. regs' = Applied(regs, Leds(o)) /\ config' \in BOOLEAN
    BY DEF set_led, InConfigMode
  <1>4. /\ regs \in [Cells -> Byte] /\ watchdog_time' \in Byte
        /\ Good(regs, asked.leds, asked.status, asked.timer)
        /\ asked.status \in BOOLEAN /\ asked.timer \in Timers
    BY DEF IInv, AskedType, set_led
  <1>5. regs' \in [Cells -> Byte]
    BY <1>2, <1>3, <1>4, AppliedType
  <1>6. Good(regs', AskedLeds(o), asked.status, asked.timer)
    BY <1>3, <1>4, GoodLed
  <1>7. AskedLeds(o) \in SUBSET (1 .. 8)
    BY LedsAsked
  <1>8. asked' = [asked EXCEPT !.leds = AskedLeds(o), !.status = asked.status,
                               !.timer = asked.timer, !.relay = << >>]
    BY DEF set_led, IInv, AskedType
  <1>9. << >> \in Relays
    BY DEF Relays
  <1> QED
    BY <1>3, <1>4, <1>5, <1>6, <1>7, <1>8, <1>9, Preserved

LEMMA StepSled ==
  ASSUME IInv, NEW n \in 1 .. 3, set_sled(n)
  PROVE  IInv'
  <1> DEFINE clear == IF n = 2 THEN {} ELSE {4}
  <1> DEFINE set == IF n = 2 THEN {4} ELSE {}
  <1>1. regs' = Applied(regs, {Change(Sled, clear, set)}) /\ config' \in BOOLEAN
    BY DEF set_sled, InConfigMode
  <1>2. /\ regs \in [Cells -> Byte] /\ watchdog_time' \in Byte
        /\ Good(regs, asked.leds, asked.status, asked.timer)
        /\ asked.leds \in SUBSET (1 .. 8) /\ asked.timer \in Timers
    BY DEF IInv, AskedType, set_sled
  <1>3. \A v \in {Change(Sled, clear, set)} : v.set \subseteq Bit
    BY DEF Change, Bit
  <1>4. 4 \in (regs[Sled] \ clear) \cup set <=> (n = 2)
    OBVIOUS
  <1>5. (n = 2) \in BOOLEAN
    OBVIOUS
  <1> HIDE DEF clear, set
  <1>6. regs' \in [Cells -> Byte]
    BY <1>1, <1>2, <1>3, AppliedType
  <1>7. Good(regs', asked.leds, n = 2, asked.timer)
    BY <1>1, <1>2, <1>4, <1>5, GoodSled
  <1>8. asked' = [asked EXCEPT !.leds = asked.leds, !.status = (n = 2),
                               !.timer = asked.timer, !.relay = << >>]
    BY DEF set_sled, IInv, AskedType
  <1>9. << >> \in Relays
    BY DEF Relays
  <1> QED
    BY <1>1, <1>2, <1>5, <1>6, <1>7, <1>8, <1>9, Preserved

LEMMA StepRemember ==
  ASSUME IInv, NEW t \in Byte, Remember(t), config' \in BOOLEAN
  PROVE  IInv'
  <1>1. regs' = regs /\ watchdog_time' \in Byte
    BY DEF Remember
  <1>2. /\ regs \in [Cells -> Byte] /\ Good(regs, asked.leds, asked.status, asked.timer)
        /\ asked.leds \in SUBSET (1 .. 8) /\ asked.status \in BOOLEAN
        /\ asked.timer \in Timers
    BY DEF IInv, AskedType
  <1>3. asked' = [asked EXCEPT !.leds = asked.leds, !.status = asked.status,
                               !.timer = asked.timer, !.relay = << >>]
    BY DEF Remember, IInv, AskedType
  <1>4. << >> \in Relays
    BY DEF Relays
  <1> QED
    BY <1>1, <1>2, <1>3, <1>4, Preserved

LEMMA StepStart ==
  ASSUME IInv, start_watchdog_timer
  PROVE  IInv'
  <1> DEFINE C == {Change(Time, Bit, watchdog_time), Change(Reset, Bit, {0}),
                   Change(Count, Bit \ {6}, {5})}
  <1>1. regs' = Applied(regs, C) /\ config' \in BOOLEAN
    BY DEF start_watchdog_timer, InConfigMode
  <1>2. /\ regs \in [Cells -> Byte] /\ watchdog_time \in Byte /\ watchdog_time' \in Byte
        /\ Good(regs, asked.leds, asked.status, asked.timer)
        /\ asked.leds \in SUBSET (1 .. 8) /\ asked.status \in BOOLEAN
    BY DEF IInv, AskedType, start_watchdog_timer
  <1>3. \A v \in C : v.set \subseteq Bit
    BY <1>2 DEF Change, Bit, Byte
  <1>4. Good(Applied(regs, C), asked.leds, asked.status, {watchdog_time})
    BY <1>2, GoodStart
  <1> HIDE DEF C
  <1>5. regs' \in [Cells -> Byte]
    BY <1>1, <1>2, <1>3, AppliedType
  <1>6. Good(regs', asked.leds, asked.status, {watchdog_time})
    BY <1>1, <1>4
  <1>7. asked' = [asked EXCEPT !.leds = asked.leds, !.status = asked.status,
                               !.timer = {watchdog_time}, !.relay = << >>]
    BY DEF start_watchdog_timer, IInv, AskedType
  <1>8. << >> \in Relays /\ {watchdog_time} \in Timers
    BY <1>2 DEF Relays, Timers
  <1> QED
    BY <1>1, <1>2, <1>5, <1>6, <1>7, <1>8, Preserved

LEMMA StepStop ==
  ASSUME IInv, stop_watchdog_timer
  PROVE  IInv'
  <1> DEFINE C == {Change(Count, Bit \ {6}, {})}
  <1>1. regs' = Applied(regs, C) /\ config' \in BOOLEAN
    BY DEF stop_watchdog_timer, InConfigMode
  <1>2. /\ regs \in [Cells -> Byte] /\ watchdog_time' \in Byte
        /\ Good(regs, asked.leds, asked.status, asked.timer)
        /\ asked.leds \in SUBSET (1 .. 8) /\ asked.status \in BOOLEAN
    BY DEF IInv, AskedType, stop_watchdog_timer
  <1>3. \A v \in C : v.set \subseteq Bit
    BY DEF Change
  <1>4. Good(Applied(regs, C), asked.leds, asked.status, {})
    BY <1>2, GoodStop
  <1> HIDE DEF C
  <1>5. regs' \in [Cells -> Byte]
    BY <1>1, <1>2, <1>3, AppliedType
  <1>6. Good(regs', asked.leds, asked.status, {})
    BY <1>1, <1>4
  <1>7. asked' = [asked EXCEPT !.leds = asked.leds, !.status = asked.status,
                               !.timer = {}, !.relay = << >>]
    BY DEF stop_watchdog_timer, IInv, AskedType
  <1>8. << >> \in Relays /\ {} \in Timers
    BY DEF Relays, Timers
  <1> QED
    BY <1>1, <1>2, <1>5, <1>6, <1>7, <1>8, Preserved

LEMMA StepReload ==
  ASSUME IInv, NEW d \in Drivers, Reload(d)
  PROVE  IInv'
  <1> DEFINE t == IF d = "wd" THEN {} ELSE asked.timer
  <1> DEFINE leds == IF d = "led" THEN asked.leds \ (5 .. 8) ELSE asked.leds
  <1>1. regs' = Applied(regs, InitOf(d)) /\ config' \in BOOLEAN
    BY DEF Reload, InConfigMode
  <1>2. /\ regs \in [Cells -> Byte]
        /\ Good(regs, asked.leds, asked.status, asked.timer)
        /\ asked.leds \in SUBSET (1 .. 8) /\ asked.status \in BOOLEAN
        /\ asked.timer \in Timers
    BY DEF IInv, AskedType
  <1>3. watchdog_time' \in Byte
    BY DEF Reload, IInv, Byte
  <1>4. d = "wd" \/ d = "led" \/ d = "sled" \/ d = "btn"
    BY DEF Drivers
  <1>5. \A v \in InitOf(d) : v.set \subseteq Bit
    BY <1>4 DEF InitOf, Change, Bit
  <1>6. regs' \in [Cells -> Byte]
    BY <1>1, <1>2, <1>5, AppliedType
  <1>7. Good(regs', leds, asked.status, t)
    <2>1. CASE d = "wd"
      BY <1>1, <1>2, <2>1, LoadWd
    <2>2. CASE d = "led"
      BY <1>1, <1>2, <2>2, LoadLed
    <2>3. CASE d = "sled"
      <3>1. InitOf(d) = {Change(Dir4, {}, {4})}
        BY <2>3 DEF InitOf
      <3>2. Good(Applied(regs, {Change(Dir4, {}, {4})}), asked.leds, asked.status, asked.timer)
        BY <1>2, GoodDir4
      <3> QED
        BY <1>1, <2>3, <3>1, <3>2
    <2>4. CASE d = "btn"
      <3>1. InitOf(d) = {Change(Dir4, {3}, {})}
        BY <2>4 DEF InitOf
      <3>2. Good(Applied(regs, {Change(Dir4, {3}, {})}), asked.leds, asked.status, asked.timer)
        BY <1>2, GoodDir4
      <3> QED
        BY <1>1, <2>4, <3>1, <3>2
    <2> QED
      BY <1>4, <2>1, <2>2, <2>3, <2>4
  <1>8. leds \in SUBSET (1 .. 8) /\ t \in Timers /\ << >> \in Relays
    BY <1>2 DEF Timers, Relays
  <1>9. asked' = [asked EXCEPT !.leds = leds, !.status = asked.status, !.timer = t,
                               !.relay = << >>]
    BY DEF Reload, IInv, AskedType
  <1> HIDE DEF leds, t
  <1> QED
    BY <1>1, <1>2, <1>3, <1>6, <1>7, <1>8, <1>9, Preserved

\* The registers of a pair of ports.
PairCells(p) == IF p = 1 THEN {Relay1} ELSE {Relay2, OffRelay2}

\* A bypass function changes registers of its own pair only.
OwnPair(p, changes) ==
  \A v \in changes : v.cell \in PairCells(p) /\ v.set \subseteq Bit

LEMMA BypassOwnPair ==
  ASSUME NEW p \in Pairs
  PROVE  /\ OwnPair(p, OffModeEnable(p)) /\ OwnPair(p, OffModeDisable(p))
         /\ OwnPair(p, RuntimeDisable(p)) /\ OwnPair(p, OffModeEnable(p) \cup RuntimeEnable(p))
  <1>1. CASE p = 1
    BY <1>1 DEF OwnPair, PairCells, OffModeEnable, OffModeDisable, RuntimeEnable,
                RuntimeDisable, Change, Bit
  <1>2. CASE p = 2
    BY <1>2 DEF OwnPair, PairCells, OffModeEnable, OffModeDisable, RuntimeEnable,
                RuntimeDisable, Change, Bit
  <1> QED
    BY <1>1, <1>2 DEF Pairs

\* What such a function does to the other registers.
LEMMA BypassFrame ==
  ASSUME IInv, NEW kind, NEW p \in Pairs, NEW changes, OwnPair(p, changes),
         Bypass(kind, p, changes)
  PROVE  /\ regs' \in [Cells -> Byte]
         /\ \A x \in Cells : x \notin PairCells(p) => regs'[x] = regs[x]
  <1>1. regs \in [Cells -> Byte]
    BY DEF IInv
  <1>2. CASE config
    <2>1. regs' = Applied(regs, changes)
      BY <1>2 DEF Bypass, InCurrentMode
    <2>2. regs' \in [Cells -> Byte]
      BY <1>1, <2>1, AppliedType DEF OwnPair
    <2>3. \A x \in Cells : x \notin PairCells(p) => regs'[x] = regs[x]
      BY <1>1, <2>1, AppliedElsewhere DEF OwnPair
    <2> QED
      BY <2>2, <2>3
  <1>3. CASE ~config
    <2>1. regs' = regs
      BY <1>3 DEF Bypass, InCurrentMode
    <2> QED
      BY <1>1, <2>1
  <1> QED
    BY <1>2, <1>3

LEMMA StepBypass ==
  ASSUME IInv, NEW kind \in {"sobe", "sobd", "srbe", "srbd"}, NEW p \in Pairs, NEW changes,
         OwnPair(p, changes), Bypass(kind, p, changes)
  PROVE  IInv'
  <1>1. /\ regs' \in [Cells -> Byte]
        /\ \A x \in Cells : x \notin PairCells(p) => regs'[x] = regs[x]
    BY BypassFrame
  <1>2. \A x \in BoardCells : x \in Cells /\ x \notin PairCells(p)
    BY CellsDiffer DEF RelayCells, PairCells
  <1>3. \A x \in BoardCells : regs'[x] = regs[x]
    BY <1>1, <1>2
  <1>4. /\ Good(regs, asked.leds, asked.status, asked.timer)
        /\ asked.leds \in SUBSET (1 .. 8) /\ asked.status \in BOOLEAN
        /\ asked.timer \in Timers
    BY DEF IInv, AskedType
  <1>5. Good(regs', asked.leds, asked.status, asked.timer)
    BY <1>3, <1>4, GoodSame
  <1>6. config' \in BOOLEAN /\ watchdog_time' \in Byte
    BY DEF Bypass, InCurrentMode, IInv
  <1>7. asked' = [asked EXCEPT !.leds = asked.leds, !.status = asked.status,
                               !.timer = asked.timer, !.relay = <<kind, p>>]
    BY DEF Bypass, IInv, AskedType
  <1>8. <<kind, p>> \in Relays
    BY DEF Relays
  <1> QED
    BY <1>1, <1>4, <1>5, <1>6, <1>7, <1>8, Preserved

LEMMA StepInv == IInv /\ [Next]_vars => IInv'
  <1> SUFFICES ASSUME IInv, [Next]_vars PROVE IInv'
    OBVIOUS
  <1>1. CASE \E d \in Drivers : Reload(d)
    BY <1>1, StepReload
  <1>2. CASE \E o \in LedOps : set_led(o)
    BY <1>2, StepLed
  <1>3. CASE \E n \in 1 .. 3 : set_sled(n)
    BY <1>3, StepSled
  <1>4. CASE get_btn_status
    <2>1. config' \in BOOLEAN /\ Remember(watchdog_time) /\ watchdog_time \in Byte
      BY <1>4 DEF get_btn_status, IInv
    <2> QED
      BY <2>1, StepRemember
  <1>5. CASE \E t \in Times : SetTimer(t)
    <2>1. PICK t \in Times : SetTimer(t)
      BY <1>5
    <2>2. config' \in BOOLEAN /\ Remember(t) /\ t \in Byte
      BY <2>1, LecAssumption DEF SetTimer, IInv
    <2> QED
      BY <2>2, StepRemember
  <1>6. CASE SetTimerInvalid
    <2>1. config' \in BOOLEAN /\ Remember({}) /\ {} \in Byte
      BY <1>6 DEF SetTimerInvalid, IInv, Byte
    <2> QED
      BY <2>1, StepRemember
  <1>7. CASE start_watchdog_timer
    BY <1>7, StepStart
  <1>8. CASE stop_watchdog_timer
    BY <1>8, StepStop
  <1>9. ASSUME NEW p \in Pairs, set_bypass_enable_when_system_off(p) PROVE IInv'
    BY <1>9, BypassOwnPair, StepBypass DEF set_bypass_enable_when_system_off
  <1>10. ASSUME NEW p \in Pairs, set_bypass_disable_when_system_off(p) PROVE IInv'
    BY <1>10, BypassOwnPair, StepBypass DEF set_bypass_disable_when_system_off
  <1>11. ASSUME NEW p \in Pairs, set_runtime_bypass_enable(p) PROVE IInv'
    BY <1>11, BypassOwnPair, StepBypass DEF set_runtime_bypass_enable
  <1>12. ASSUME NEW p \in Pairs, set_runtime_bypass_disable(p) PROVE IInv'
    BY <1>12, BypassOwnPair, StepBypass DEF set_runtime_bypass_disable
  <1>13. CASE UNCHANGED vars
    BY <1>13 DEF vars, IInv, AskedType
  <1> QED
    BY <1>1, <1>2, <1>3, <1>4, <1>5, <1>6, <1>7, <1>8, <1>9, <1>10, <1>11, <1>12, <1>13
       DEF Next

LEMMA Invariance == Spec => []IInv
  BY InitInv, StepInv, PTL DEF Spec

\* The types of the drivers' state and of the registers.
THEOREM TypeCorrect == Spec => []TypeOK
  BY Invariance, InvImplies, PTL

\* Whatever programs ask of the four drivers, in any order, reloads included,
\* the LEDs, the status LED, the watchdog and the pin directions are as they
\* were last asked for: set_led() of led_drv.c, set_sled() of sled_drv.c,
\* wd_drv.c and btn_drv.c change none of each other's bits.
THEOREM OutputsCorrect == Spec => []OutputsAsAsked
  BY Invariance, InvImplies, PTL

-----------------------------------------------------------------------------
(* The relays. *)

\* What has to be shown of a step.
RelayStep ==
  /\ \A p \in Pairs : Runtime(regs', p) /\ ~Runtime(regs, p) => OffMode(regs', p)
  /\ \A p, q \in Pairs : (RelayOf(regs', p) # RelayOf(regs, p)
                           /\ RelayOf(regs', q) # RelayOf(regs, q)) => p = q

LEMMA RelayUntouched ==
  ASSUME NEW q \in Pairs, \A x \in PairCells(q) : regs'[x] = regs[x]
  PROVE  /\ Runtime(regs', q) <=> Runtime(regs, q)
         /\ RelayOf(regs', q) = RelayOf(regs, q)
  <1>1. CASE q = 1
    <2>1. regs'[Relay1] = regs[Relay1]
      BY <1>1 DEF PairCells
    <2> QED
      BY <1>1, <2>1 DEF Runtime, OffMode, RelayOf
  <1>2. CASE q = 2
    <2>1. regs'[Relay2] = regs[Relay2] /\ regs'[OffRelay2] = regs[OffRelay2]
      BY <1>2 DEF PairCells
    <2> QED
      BY <1>2, <2>1 DEF Runtime, OffMode, RelayOf
  <1> QED
    BY <1>1, <1>2 DEF Pairs

LEMMA NoRelayStep ==
  ASSUME \A x \in RelayCells : regs'[x] = regs[x]
  PROVE  RelayStep
  <1>1. \A q \in Pairs : \A x \in PairCells(q) : regs'[x] = regs[x]
    BY DEF RelayCells, PairCells
  <1>2. \A q \in Pairs : /\ Runtime(regs', q) <=> Runtime(regs, q)
                         /\ RelayOf(regs', q) = RelayOf(regs, q)
    BY <1>1, RelayUntouched
  <1> QED
    BY <1>2 DEF RelayStep

\* A step of pair p alone, which brings its runtime bypass only with its
\* off-mode bypass.
LEMMA PairStep ==
  ASSUME NEW p \in Pairs, \A x \in Cells : x \notin PairCells(p) => regs'[x] = regs[x],
         Runtime(regs', p) /\ ~Runtime(regs, p) => OffMode(regs', p)
  PROVE  RelayStep
  <1>1. \A q \in Pairs : q # p => \A x \in PairCells(q) : x \in Cells /\ x \notin PairCells(p)
    BY CellsDiffer DEF PairCells, Pairs, Cells
  <1>2. \A q \in Pairs : q # p => \A x \in PairCells(q) : regs'[x] = regs[x]
    BY <1>1
  <1>3. \A q \in Pairs : q # p => /\ Runtime(regs', q) <=> Runtime(regs, q)
                                  /\ RelayOf(regs', q) = RelayOf(regs, q)
    BY <1>2, RelayUntouched
  <1>4. \A q \in Pairs : Runtime(regs', q) /\ ~Runtime(regs, q) => OffMode(regs', q)
    BY <1>3
  <1>5. \A q \in Pairs : RelayOf(regs', q) # RelayOf(regs, q) => q = p
    BY <1>3
  <1> QED
    BY <1>4, <1>5 DEF RelayStep

\* Bypass functions that do not switch the runtime bypass on.
LEMMA RuntimeKept ==
  ASSUME IInv, NEW kind, NEW p \in Pairs, NEW changes, Bypass(kind, p, changes),
         OwnPair(p, changes),
         p = 1 => \A v \in changes : v.cell = Relay1 => 4 \notin v.clear,
         p = 2 => \A v \in changes : v.cell = Relay2 => 0 \notin v.clear
  PROVE  RelayStep
  <1>1. regs \in [Cells -> Byte] /\ Relay1 \in Cells /\ Relay2 \in Cells
    BY DEF IInv, Cells
  <1>2. \A x \in Cells : x \notin PairCells(p) => regs'[x] = regs[x]
    BY BypassFrame
  <1>3. regs' = Applied(regs, changes) \/ regs' = regs
    BY DEF Bypass, InCurrentMode
  <1>4. Runtime(regs', p) => Runtime(regs, p)
    <2>1. CASE regs' = regs
      BY <2>1 DEF Runtime
    <2>2. CASE regs' = Applied(regs, changes) /\ p = 1
      <3>1. 4 \in regs[Relay1] => 4 \in regs'[Relay1]
        BY <1>1, <2>2, AppliedBit
      <3> QED
        BY <2>2, <3>1 DEF Runtime
    <2>3. CASE regs' = Applied(regs, changes) /\ p = 2
      <3>1. 0 \in regs[Relay2] => 0 \in regs'[Relay2]
        BY <1>1, <2>3, AppliedBit
      <3> QED
        BY <2>3, <3>1 DEF Runtime
    <2> QED
      BY <1>3, <2>1, <2>2, <2>3 DEF Pairs
  <1> QED
    BY <1>2, <1>4, PairStep

LEMMA RuntimeOn ==
  ASSUME IInv, NEW p \in Pairs, set_runtime_bypass_enable(p)
  PROVE  RelayStep
  <1> DEFINE C == OffModeEnable(p) \cup RuntimeEnable(p)
  <1>1. Bypass("srbe", p, C) /\ OwnPair(p, C)
    BY BypassOwnPair DEF set_runtime_bypass_enable
  <1>2. regs \in [Cells -> Byte] /\ Relay1 \in Cells /\ OffRelay2 \in Cells
    BY DEF IInv, Cells
  <1>3. \A x \in Cells : x \notin PairCells(p) => regs'[x] = regs[x]
    BY <1>1, BypassFrame
  <1>4. regs' = Applied(regs, C) \/ regs' = regs
    BY <1>1 DEF Bypass, InCurrentMode
  <1>5. Runtime(regs', p) /\ ~Runtime(regs, p) => OffMode(regs', p)
    <2>1. CASE regs' = regs
      BY <2>1 DEF Runtime
    <2>2. CASE regs' = Applied(regs, C) /\ p = 1
      <3>1. C = {Change(Relay1, {2, 3}, {2}), Change(Relay1, {4}, {})}
        BY <2>2 DEF OffModeEnable, RuntimeEnable
      <3> HIDE DEF C
      <3>2. /\ \E v \in C : v.cell = Relay1 /\ 2 \in v.set
            /\ \E v \in C : v.cell = Relay1 /\ 3 \in v.clear
            /\ \A v \in C : 3 \notin v.set
        BY <3>1 DEF Change
      <3>3. 2 \in regs'[Relay1] /\ 3 \notin regs'[Relay1]
        BY <1>2, <2>2, <3>2, AppliedBit
      <3> QED
        BY <2>2, <3>3 DEF OffMode
    <2>3. CASE regs' = Applied(regs, C) /\ p = 2
      <3>1. C = {Change(OffRelay2, {0, 1}, {0}), Change(Relay2, {0}, {})}
        BY <2>3 DEF OffModeEnable, RuntimeEnable
      <3> HIDE DEF C
      <3>2. /\ \E v \in C : v.cell = OffRelay2 /\ 0 \in v.set
            /\ \E v \in C : v.cell = OffRelay2 /\ 1 \in v.clear
            /\ \A v \in C : 1 \notin v.set
        BY <3>1 DEF Change
      <3>3. 0 \in regs'[OffRelay2] /\ 1 \notin regs'[OffRelay2]
        BY <1>2, <2>3, <3>2, AppliedBit
      <3> QED
        BY <2>3, <3>3 DEF OffMode
    <2> QED
      BY <1>4, <2>1, <2>2, <2>3 DEF Pairs
  <1> QED
    BY <1>3, <1>5, PairStep

\* The other drivers' changes miss the relays.
LEMMA NotRelays ==
  ASSUME IInv, NEW changes, InConfigMode(changes),
         \A v \in changes : v.cell \in BoardCells
  PROVE  RelayStep
  <1>1. regs \in [Cells -> Byte] /\ regs' = Applied(regs, changes)
    BY DEF IInv, InConfigMode
  <1>2. \A x \in RelayCells : x \in Cells /\ x \notin BoardCells
    BY CellsDiffer
  <1>3. \A x \in RelayCells : regs'[x] = regs[x]
    BY <1>1, <1>2, AppliedElsewhere
  <1> QED
    BY <1>3, NoRelayStep

LEMMA StepRelay == IInv /\ [Next]_vars => RelayStep
  <1> SUFFICES ASSUME IInv, [Next]_vars PROVE RelayStep
    OBVIOUS
  <1>1. ASSUME NEW d \in Drivers, Reload(d) PROVE RelayStep
    <2>1. \A v \in InitOf(d) : v.cell \in BoardCells
      BY DEF Drivers, InitOf, Change, BoardCells
    <2> QED
      BY <1>1, <2>1, NotRelays DEF Reload
  <1>2. ASSUME NEW o \in LedOps, set_led(o) PROVE RelayStep
    <2>1. PICK d \in SUBSET {1}, e \in SUBSET {0, 1, 4}, f \in SUBSET (1 .. 4) :
            Leds(o) = Lit(d, e, f)
      BY LedsAsked
    <2>2. \A v \in Leds(o) : v.cell \in BoardCells
      BY <2>1 DEF Lit, Change, BoardCells
    <2> QED
      BY <1>2, <2>2, NotRelays DEF set_led
  <1>3. ASSUME NEW n \in 1 .. 3, set_sled(n) PROVE RelayStep
    <2> DEFINE C == {IF n = 2 THEN Change(Sled, {}, {4}) ELSE Change(Sled, {4}, {})}
    <2>1. \A v \in C : v.cell \in BoardCells
      BY DEF Change, BoardCells
    <2>2. InConfigMode(C)
      BY <1>3 DEF set_sled
    <2> HIDE DEF C
    <2> QED
      BY <2>1, <2>2, NotRelays
  <1>4. CASE get_btn_status \/ (\E t \in Times : SetTimer(t)) \/ SetTimerInvalid
             \/ UNCHANGED vars
    <2>1. regs' = regs
      BY <1>4 DEF get_btn_status, SetTimer, SetTimerInvalid, Remember, vars
    <2> QED
      BY <2>1, NoRelayStep
  <1>5. CASE start_watchdog_timer
    <2> DEFINE C == {Change(Time, Bit, watchdog_time), Change(Reset, Bit, {0}),
                     Change(Count, Bit \ {6}, {5})}
    <2>1. \A v \in C : v.cell \in BoardCells
      BY DEF Change, BoardCells
    <2>2. InConfigMode(C)
      BY <1>5 DEF start_watchdog_timer
    <2> HIDE DEF C
    <2> QED
      BY <2>1, <2>2, NotRelays
  <1>6. CASE stop_watchdog_timer
    <2> DEFINE C == {Change(Count, Bit \ {6}, {})}
    <2>1. \A v \in C : v.cell \in BoardCells
      BY DEF Change, BoardCells
    <2>2. InConfigMode(C)
      BY <1>6 DEF stop_watchdog_timer
    <2> HIDE DEF C
    <2> QED
      BY <2>1, <2>2, NotRelays
  <1>7. ASSUME NEW p \in Pairs, set_bypass_enable_when_system_off(p) PROVE RelayStep
    <2>1. /\ p = 1 => \A v \in OffModeEnable(p) : v.cell = Relay1 => 4 \notin v.clear
          /\ p = 2 => \A v \in OffModeEnable(p) : v.cell = Relay2 => 0 \notin v.clear
      BY CellsDiffer DEF OffModeEnable, Change
    <2>2. Bypass("sobe", p, OffModeEnable(p)) /\ OwnPair(p, OffModeEnable(p))
      BY <1>7, BypassOwnPair DEF set_bypass_enable_when_system_off
    <2> QED
      BY <2>1, <2>2, RuntimeKept
  <1>8. ASSUME NEW p \in Pairs, set_bypass_disable_when_system_off(p) PROVE RelayStep
    <2>1. /\ p = 1 => \A v \in OffModeDisable(p) : v.cell = Relay1 => 4 \notin v.clear
          /\ p = 2 => \A v \in OffModeDisable(p) : v.cell = Relay2 => 0 \notin v.clear
      BY CellsDiffer DEF OffModeDisable, Change
    <2>2. Bypass("sobd", p, OffModeDisable(p)) /\ OwnPair(p, OffModeDisable(p))
      BY <1>8, BypassOwnPair DEF set_bypass_disable_when_system_off
    <2> QED
      BY <2>1, <2>2, RuntimeKept
  <1>9. ASSUME NEW p \in Pairs, set_runtime_bypass_enable(p) PROVE RelayStep
    BY <1>9, RuntimeOn
  <1>10. ASSUME NEW p \in Pairs, set_runtime_bypass_disable(p) PROVE RelayStep
    <2>1. /\ p = 1 => \A v \in RuntimeDisable(p) : v.cell = Relay1 => 4 \notin v.clear
          /\ p = 2 => \A v \in RuntimeDisable(p) : v.cell = Relay2 => 0 \notin v.clear
      BY CellsDiffer DEF RuntimeDisable, Change
    <2>2. Bypass("srbd", p, RuntimeDisable(p)) /\ OwnPair(p, RuntimeDisable(p))
      BY <1>10, BypassOwnPair DEF set_runtime_bypass_disable
    <2> QED
      BY <2>1, <2>2, RuntimeKept
  <1> QED
    BY <1>1, <1>2, <1>3, <1>4, <1>5, <1>6, <1>7, <1>8, <1>9, <1>10 DEF Next

\* set_runtime_bypass_enable() of wd_drv.c is the only way to switch a pair's
\* runtime bypass on, it has the off-mode bypass on by then, and no ioctl
\* changes the relays of two pairs, whatever mode the chip is in.
THEOREM OffBypassCorrect == Spec => OffBypassFirst
  BY Invariance, StepRelay, PTL DEF Spec, OffBypassFirst, RelayStep

-----------------------------------------------------------------------------
(***************************************************************************)
(* The COM port driver.                                                    *)
(***************************************************************************)
CpStep ==
  [do : {"select"}, card : 0 .. 2] \cup [do : {"read"}, reg : Regs]
  \cup [do : {"write"}, reg : Regs, clear : Byte, set : Byte]
  \cup [do : {"a1"}] \cup [do : {"auto"}, En : BOOLEAN]

\* Request q asks for level v of the pin at bit b of register r.
Asks(q, v, r, b) ==
  \E m \in 3 * q.port .. 3 * q.port + 2 :
    /\ RegOf(Pin(m)) = r /\ Pin(m).bit = b
    /\ IF m = 3 * q.port + 2 THEN v = q.termination
       ELSE q.mode # 3 /\ v = ModeLevels(q.mode)[m - 3 * q.port + 1]

\* What a call for a card does between its two selections.
BodyStep(q, x) ==
  \/ x.do = "auto" /\ q.mode # 3 /\ x.En = (q.mode # 0)
  \/ x.do = "read" /\ x.reg[1] = ChipOf(q)
  \/ /\ x.do = "write" /\ x.reg[1] = ChipOf(q)
     /\ \A b \in x.clear : Asks(q, 0, x.reg, b)
     /\ \A b \in x.set : Asks(q, 1, x.reg, b)

\* Every write follows the read of its register.
Paired(s) ==
  \A i \in 2 .. Len(s) :
    s[i].do = "write" => s[i - 1].do = "read" /\ s[i - 1].reg = s[i].reg

\* The steps that may be left of a call.
Left(q, s) ==
  /\ s \in Seq(CpStep)
  /\ s # << >> => s[Len(s)] = Select(0)
  /\ q # Loading =>
       /\ Paired(s)
       /\ \A i \in 1 .. Len(s) - 1 :
            IF q.Type \in Cards
              THEN (i = 1 /\ s[i] = Select(q.Type)) \/ BodyStep(q, s[i])
              ELSE q.Type = 0 /\ s[i].do = "a1"

\* A write to register r that sets, or clears, bit b is left.
Sets(s, r, b) == \E i \in 1 .. Len(s) : s[i].do = "write" /\ s[i].reg = r /\ b \in s[i].set
Clears(s, r, b) == \E i \in 1 .. Len(s) : s[i].do = "write" /\ s[i].reg = r /\ b \in s[i].clear
AutoLeft(s) == \E i \in 1 .. Len(s) : s[i].do = "auto"

\* The call has its card yet to select.
ToSelect(q, s) == q.Type \in Cards /\ Len(s) > 1 /\ s[1].do = "select"

\* No card is to be connected now: between calls, in a call that is not for a
\* card, and before the selection.
AtRest(q, s) == s = << >> \/ (q # Loading /\ q.Type \notin Cards) \/ ToSelect(q, s)

\* Until a second transaction fails, a card is connected at rest only if the
\* disconnection has failed, and during a call only the card it is for.
ChannelInv ==
  failures <= 1 =>
    IF AtRest(call.q, todo) THEN channel # 0 => failures = 1
    ELSE call.q # Loading => channel \in {0, call.q.Type}

AutoAsked(q, was) ==
  IF q.mode = 3 THEN was
  ELSE IF q.mode = 0 THEN was \ {<<q.Type, q.port>>} ELSE was \cup {<<q.Type, q.port>>}

\* As long as no transaction of a call for a card that is present has failed:
\* the bits asked for are as asked, or a write that makes them so is left,
\* and all others are as they were.
CleanInv ==
  LET q == call.q  c == q.Type  was == call.before IN
  call.clean /\ c \in Present =>
    /\ \A k \in Cards \ {c} : F75111[k] = was.F75111[k]
    /\ todo # << >> /\ ~ToSelect(q, todo) => channel = c
    /\ todo # << >> /\ todo[1].do = "write" => data = F75111[c][todo[1].reg]
    /\ \A r \in Regs, b \in Bit :
         /\ Asks(q, 1, r, b) => b \in F75111[c][r] \/ Sets(todo, r, b)
         /\ Asks(q, 0, r, b) => b \notin F75111[c][r] \/ Clears(todo, r, b)
         /\ ~Asks(q, 0, r, b) /\ ~Asks(q, 1, r, b) =>
              (b \in F75111[c][r] <=> b \in was.F75111[c][r])
    /\ auto = AutoAsked(q, was.auto) \/ (AutoLeft(todo) /\ auto = was.auto)

CpInv ==
  /\ CpTypeOK
  /\ Left(call.q, todo)
  /\ call.q.Type \in Cards => /\ call.q \in Requests
                              /\ stored[<<call.q.Type, call.q.port>>] =
                                   <<call.q.mode, call.q.termination>>
  /\ ChannelInv
  /\ CleanInv
  /\ OthersKept

-----------------------------------------------------------------------------
(* The pins. *)

LEMMA PinCases ==
  ASSUME NEW n \in 0 .. 23
  PROVE  /\ Pin(n).chip = IF n <= 8 THEN "9C" ELSE "6E"
         /\ Pin(n).group = IF n = 0 \/ n \in 9 .. 15 THEN 1 ELSE 2
         /\ Pin(n).bit = IF n = 0 THEN 7
                         ELSE IF n <= 8 THEN n - 1
                         ELSE IF n <= 11 THEN n - 9
                         ELSE IF n <= 15 THEN n - 8 ELSE n - 16
  <1>1. CASE n = 0
    BY <1>1 DEF Pin
  <1>2. CASE n \in 1 .. 8
    BY <1>2 DEF Pin
  <1>3. CASE n \in 9 .. 11
    BY <1>3 DEF Pin
  <1>4. CASE n \in 12 .. 15
    BY <1>4 DEF Pin
  <1>5. CASE n \in 16 .. 23
    BY <1>5 DEF Pin
  <1>6. QED
    BY <1>1, <1>2, <1>3, <1>4, <1>5

LEMMA PinType ==
  ASSUME NEW n \in 0 .. 23
  PROVE  /\ Pin(n).chip \in Chips /\ Pin(n).group \in {1, 2} /\ Pin(n).bit \in Bit
         /\ RegOf(Pin(n)) \in Regs /\ RegOf(Pin(n))[1] = Pin(n).chip
  <1>1. Pin(n).chip \in Chips /\ Pin(n).group \in {1, 2}
    BY PinCases DEF Chips
  <1>2. Pin(n).bit \in Bit
    BY PinCases DEF Bit
  <1>3. OutputData[Pin(n).group] \in {\h11, \h21}
    BY <1>1 DEF OutputData
  <1>4. QED
    BY <1>1, <1>2, <1>3 DEF RegOf, Regs

LEMMA OutputDataDiffer ==
  ASSUME NEW g \in {1, 2}, NEW h \in {1, 2}, OutputData[g] = OutputData[h]
  PROVE  g = h
  BY DEF OutputData

\* No two of a card's pins are the same.
LEMMA PinsDiffer ==
  ASSUME NEW m \in 0 .. 23, NEW n \in 0 .. 23,
         RegOf(Pin(m)) = RegOf(Pin(n)), Pin(m).bit = Pin(n).bit
  PROVE  m = n
  <1>1. Pin(m).chip = Pin(n).chip /\ OutputData[Pin(m).group] = OutputData[Pin(n).group]
    BY DEF RegOf
  <1>2. Pin(m).group = Pin(n).group
    BY <1>1, PinType, OutputDataDiffer
  <1>3. (m <= 8) = (n <= 8)
    BY <1>1, PinCases
  <1>4. (m = 0 \/ m \in 9 .. 15) = (n = 0 \/ n \in 9 .. 15)
    BY <1>2, PinCases
  <1>5. QED
    BY <1>3, <1>4, PinCases

\* A port's three pins are on one chip.
LEMMA PinsOfPort ==
  ASSUME NEW q \in Request, NEW m \in 3 * q.port .. 3 * q.port + 2
  PROVE  m \in 0 .. 23 /\ Pin(m).chip = ChipOf(q)
  <1>1. q.port \in 0 .. 7
    BY DEF Request
  <1>2. m \in 0 .. 23 /\ 3 * q.port \in 0 .. 23 /\ (m <= 8) = (3 * q.port <= 8)
    BY <1>1
  <1>3. QED
    BY <1>2, PinCases DEF ChipOf

\* A request does not ask for both levels of a bit.
LEMMA AsksOnce ==
  ASSUME NEW q \in Request, NEW r, NEW b
  PROVE  ~(Asks(q, 0, r, b) /\ Asks(q, 1, r, b))
  <1> SUFFICES ASSUME Asks(q, 0, r, b), Asks(q, 1, r, b) PROVE FALSE
    OBVIOUS
  <1>1. q.port \in 0 .. 7
    BY DEF Request
  <1> DEFINE At(v, m) ==
        /\ RegOf(Pin(m)) = r /\ Pin(m).bit = b
        /\ IF m = 3 * q.port + 2 THEN v = q.termination
           ELSE q.mode # 3 /\ v = ModeLevels(q.mode)[m - 3 * q.port + 1]
  <1>2. PICK m \in 3 * q.port .. 3 * q.port + 2 : At(0, m)
    BY DEF Asks
  <1>3. PICK n \in 3 * q.port .. 3 * q.port + 2 : At(1, n)
    BY DEF Asks
  <1>4. m = n
    BY <1>2, <1>3, PinsOfPort, PinsDiffer
  <1>5. QED
    BY <1>2, <1>3, <1>4

-----------------------------------------------------------------------------
(* The steps of a call. *)

\* What stands between a call's selections.
Body(q, s) ==
  /\ s \in Seq(CpStep)
  /\ \A i \in 1 .. Len(s) : BodyStep(q, s[i])
  /\ Paired(s)
  /\ s # << >> => s[1].do # "write"

LEMMA BodyEmpty ==
  ASSUME NEW q
  PROVE  Body(q, << >>)
  BY DEF Body, Paired

LEMMA BodyConcat ==
  ASSUME NEW q, NEW s, NEW t, Body(q, s), Body(q, t)
  PROVE  /\ Body(q, s \o t)
         /\ \A r, b : Sets(s, r, b) \/ Sets(t, r, b) => Sets(s \o t, r, b)
         /\ \A r, b : Clears(s, r, b) \/ Clears(t, r, b) => Clears(s \o t, r, b)
         /\ AutoLeft(s) => AutoLeft(s \o t)
  <1> DEFINE u == s \o t
  <1>1. s \in Seq(CpStep) /\ t \in Seq(CpStep)
    BY DEF Body
  <1>2. u \in Seq(CpStep) /\ Len(u) = Len(s) + Len(t) /\ Len(s) \in Nat /\ Len(t) \in Nat
    BY <1>1, ConcatProperties
  <1>3. \A i \in 1 .. Len(s) : i \in 1 .. Len(u) /\ u[i] = s[i]
    BY <1>1, <1>2, ConcatProperties
  <1>4. \A i \in 1 .. Len(t) : Len(s) + i \in 1 .. Len(u) /\ u[Len(s) + i] = t[i]
    BY <1>1, <1>2, ConcatProperties
  <1>5. \A i \in 1 .. Len(u) : i \notin 1 .. Len(s) => i - Len(s) \in 1 .. Len(t)
    BY <1>2
  <1> HIDE DEF u
  <1>6. \A i \in 1 .. Len(u) : BodyStep(q, u[i])
    <2> SUFFICES ASSUME NEW i \in 1 .. Len(u) PROVE BodyStep(q, u[i])
      OBVIOUS
    <2>1. CASE i \in 1 .. Len(s)
      BY <2>1, <1>3 DEF Body
    <2>2. CASE i \notin 1 .. Len(s)
      <3>1. i - Len(s) \in 1 .. Len(t) /\ Len(s) + (i - Len(s)) = i
        BY <2>2, <1>2, <1>5
      <3>2. u[i] = t[i - Len(s)]
        BY <3>1, <1>4
      <3>3. QED
        BY <3>1, <3>2 DEF Body
    <2>3. QED
      BY <2>1, <2>2
  <1>7. Paired(u)
    <2> SUFFICES ASSUME NEW i \in 2 .. Len(u), u[i].do = "write"
                 PROVE  u[i - 1].do = "read" /\ u[i - 1].reg = u[i].reg
      BY DEF Paired
    <2>1. CASE i \in 1 .. Len(s)
      <3>1. i \in 2 .. Len(s) /\ i - 1 \in 1 .. Len(s)
        BY <2>1, <1>2
      <3>2. u[i] = s[i] /\ u[i - 1] = s[i - 1]
        BY <3>1, <1>3
      <3>3. QED
        BY <3>1, <3>2 DEF Body, Paired
    <2>2. CASE i = Len(s) + 1
      <3>1. 1 \in 1 .. Len(t)
        BY <2>2, <1>2
      <3>2. u[i] = t[1] /\ t # << >>
        BY <2>2, <3>1, <1>2, <1>4
      <3>3. QED
        BY <3>2 DEF Body
    <2>3. CASE i > Len(s) + 1
      <3>1. i - Len(s) \in 2 .. Len(t) /\ i - Len(s) - 1 \in 1 .. Len(t)
        BY <2>3, <1>2
      <3>2. Len(s) + (i - Len(s)) = i /\ Len(s) + (i - Len(s) - 1) = i - 1
        BY <1>2
      <3>3. u[i] = t[i - Len(s)] /\ u[i - 1] = t[i - Len(s) - 1]
        BY <3>1, <3>2, <1>4
      <3>4. QED
        BY <3>1, <3>3 DEF Body, Paired
    <2>4. QED
      BY <2>1, <2>2, <2>3, <1>2
  <1>8. u # << >> => u[1].do # "write"
    <2>1. CASE s # << >>
      BY <2>1, <1>1, <1>2, <1>3 DEF Body
    <2>2. CASE s = << >> /\ t # << >>
      <3>1. 1 \in 1 .. Len(t) /\ Len(s) + 1 = 1
        BY <2>2, <1>1
      <3>2. u[1] = t[1]
        BY <3>1, <1>4
      <3>3. QED
        BY <2>2, <3>2 DEF Body
    <2>3. CASE s = << >> /\ t = << >>
      BY <2>3 DEF u
    <2>4. QED
      BY <2>1, <2>2, <2>3
  <1>9. ASSUME NEW r, NEW b, Sets(s, r, b) \/ Sets(t, r, b) PROVE Sets(u, r, b)
    BY <1>9, <1>3, <1>4 DEF Sets
  <1>10. ASSUME NEW r, NEW b, Clears(s, r, b) \/ Clears(t, r, b) PROVE Clears(u, r, b)
    BY <1>10, <1>3, <1>4 DEF Clears
  <1>11. AutoLeft(s) => AutoLeft(u)
    BY <1>3 DEF AutoLeft
  <1>12. Body(q, u)
    BY <1>2, <1>6, <1>7, <1>8 DEF Body
  <1>13. QED
    BY <1>9, <1>10, <1>11, <1>12 DEF u

LEMMA RmwBody ==
  ASSUME NEW q, NEW reg \in Regs, reg[1] = ChipOf(q),
         NEW clear \in Byte, \A b \in clear : Asks(q, 0, reg, b),
         NEW set \in Byte, \A b \in set : Asks(q, 1, reg, b)
  PROVE  /\ Body(q, Rmw(reg, clear, set))
         /\ \A b \in set : Sets(Rmw(reg, clear, set), reg, b)
         /\ \A b \in clear : Clears(Rmw(reg, clear, set), reg, b)
  <1> DEFINE s == Rmw(reg, clear, set)
             x == [do |-> "read", reg |-> reg]
             y == [do |-> "write", reg |-> reg, clear |-> clear, set |-> set]
  <1>1. s = <<x, y>>
    BY DEF Rmw
  <1>2. x \in CpStep /\ y \in CpStep
    BY DEF CpStep
  <1>3. s \in Seq(CpStep) /\ Len(s) = 2 /\ s[1] = x /\ s[2] = y /\ s # << >>
    BY <1>1, <1>2
  <1>4. x.do = "read" /\ x.reg = reg /\ y.do = "write" /\ y.reg = reg /\ y.clear = clear /\ y.set = set
    OBVIOUS
  <1> HIDE DEF s, x, y
  <1>5. BodyStep(q, x) /\ BodyStep(q, y)
    BY <1>4 DEF BodyStep
  <1>6. \A i \in 1 .. Len(s) : BodyStep(q, s[i])
    BY <1>3, <1>5
  <1>7. Paired(s)
    BY <1>3, <1>4 DEF Paired
  <1>8. Body(q, s)
    BY <1>3, <1>4, <1>6, <1>7 DEF Body
  <1>9. \A b \in set : Sets(s, reg, b)
    BY <1>3, <1>4 DEF Sets
  <1>10. \A b \in clear : Clears(s, reg, b)
    BY <1>3, <1>4 DEF Clears
  <1>11. QED
    BY <1>8, <1>9, <1>10 DEF s

\* Driving pins of the port's chip to the levels asked for.
LEMMA DriveBody ==
  ASSUME NEW q \in Request, NEW pins, NEW level, 1 \in DOMAIN pins,
         \A i \in DOMAIN pins :
           /\ pins[i].chip = ChipOf(q) /\ pins[i].group \in {1, 2} /\ pins[i].bit \in Bit
           /\ Asks(q, level[i], RegOf(pins[i]), pins[i].bit)
  PROVE  /\ Body(q, Drive(pins, level))
         /\ \A i \in DOMAIN pins :
              /\ level[i] = 1 => Sets(Drive(pins, level), RegOf(pins[i]), pins[i].bit)
              /\ level[i] = 0 => Clears(Drive(pins, level), RegOf(pins[i]), pins[i].bit)
  <1> DEFINE bits(r, v) ==
               {pins[i].bit : i \in {j \in DOMAIN pins : RegOf(pins[j]) = r /\ level[j] = v}}
             rmw(r) == IF bits(r, 0) \cup bits(r, 1) = {} THEN << >> ELSE Rmw(r, bits(r, 0), bits(r, 1))
             reg(g) == <<ChipOf(q), OutputData[g]>>
             s == rmw(reg(1))
             t == rmw(reg(2))
  <1>1. Drive(pins, level) = s \o t
    <2>1. pins[1].chip = ChipOf(q)
      OBVIOUS
    <2>2. QED
      BY <2>1 DEF Drive
  <1>2. ASSUME NEW g \in {1, 2}
        PROVE  /\ Body(q, rmw(reg(g)))
               /\ \A b \in bits(reg(g), 1) : Sets(rmw(reg(g)), reg(g), b)
               /\ \A b \in bits(reg(g), 0) : Clears(rmw(reg(g)), reg(g), b)
    <2>1. reg(g) \in Regs /\ reg(g)[1] = ChipOf(q)
      <3>1. OutputData[g] \in {\h11, \h21}
        BY DEF OutputData
      <3>2. 3 * q.port \in 3 * q.port .. 3 * q.port + 2
        BY DEF Request
      <3>3. ChipOf(q) \in Chips
        BY <3>2, PinsOfPort, PinType
      <3>4. QED
        BY <3>1, <3>3 DEF Regs
    <2>2. ASSUME NEW v PROVE bits(reg(g), v) \in Byte
      BY DEF Byte
    <2>3. ASSUME NEW v, NEW b \in bits(reg(g), v) PROVE Asks(q, v, reg(g), b)
      <3>1. PICK i \in DOMAIN pins : RegOf(pins[i]) = reg(g) /\ level[i] = v /\ b = pins[i].bit
        OBVIOUS
      <3>2. QED
        BY <3>1
    <2> HIDE DEF bits, reg
    <2>4. CASE bits(reg(g), 0) \cup bits(reg(g), 1) = {}
      BY <2>4, BodyEmpty
    <2>5. CASE bits(reg(g), 0) \cup bits(reg(g), 1) # {}
      <3>1. rmw(reg(g)) = Rmw(reg(g), bits(reg(g), 0), bits(reg(g), 1))
        BY <2>5
      <3>2. QED
        BY <3>1, <2>1, <2>2, <2>3, RmwBody
    <2>6. QED
      BY <2>4, <2>5
  <1>3. ASSUME NEW i \in DOMAIN pins
        PROVE  \E g \in {1, 2} : RegOf(pins[i]) = reg(g) /\ pins[i].bit \in bits(reg(g), level[i])
    <2>1. RegOf(pins[i]) = reg(pins[i].group) /\ pins[i].group \in {1, 2}
      BY DEF RegOf
    <2>2. pins[i].bit \in bits(reg(pins[i].group), level[i])
      BY <2>1
    <2>3. QED
      BY <2>1, <2>2
  <1>4. Body(q, s) /\ Body(q, t)
    BY <1>2
  <1> HIDE DEF bits, rmw, reg
  <1>5. ASSUME NEW i \in DOMAIN pins, level[i] = 1
        PROVE  Sets(s \o t, RegOf(pins[i]), pins[i].bit)
    <2>1. PICK g \in {1, 2} : RegOf(pins[i]) = reg(g) /\ pins[i].bit \in bits(reg(g), 1)
      BY <1>3, <1>5
    <2>2. Sets(rmw(reg(g)), RegOf(pins[i]), pins[i].bit)
      BY <1>2, <2>1
    <2>3. QED
      BY <2>2, <1>4, BodyConcat
  <1>6. ASSUME NEW i \in DOMAIN pins, level[i] = 0
        PROVE  Clears(s \o t, RegOf(pins[i]), pins[i].bit)
    <2>1. PICK g \in {1, 2} : RegOf(pins[i]) = reg(g) /\ pins[i].bit \in bits(reg(g), 0)
      BY <1>3, <1>6
    <2>2. Clears(rmw(reg(g)), RegOf(pins[i]), pins[i].bit)
      BY <1>2, <2>1
    <2>3. QED
      BY <2>2, <1>4, BodyConcat
  <1>7. Body(q, s \o t)
    BY <1>4, BodyConcat
  <1>8. QED
    BY <1>1, <1>5, <1>6, <1>7

\* A call for a card: its body between the two selections.
LEMMA BetweenSelections ==
  ASSUME NEW q, q.Type \in Cards, NEW u, Body(q, u),
         NEW s, s = (<<Select(q.Type)>> \o u) \o <<Select(0)>>
  PROVE  /\ Left(q, s) /\ s # << >> /\ ToSelect(q, s)
         /\ \A r, b : Sets(u, r, b) => Sets(s, r, b)
         /\ \A r, b : Clears(u, r, b) => Clears(s, r, b)
         /\ AutoLeft(u) => AutoLeft(s)
  <1> DEFINE f == <<Select(q.Type)>>
             l == <<Select(0)>>
  <1>1. /\ Select(0) \in CpStep /\ Select(q.Type) \in CpStep
        /\ Select(0).do = "select" /\ Select(q.Type).do = "select"
    BY DEF Select, CpStep, Cards
  <1>2. /\ f \in Seq(CpStep) /\ Len(f) = 1 /\ f[1] = Select(q.Type)
        /\ l \in Seq(CpStep) /\ Len(l) = 1 /\ l[1] = Select(0)
    BY <1>1
  <1>3. u \in Seq(CpStep) /\ Len(u) \in Nat
    BY DEF Body
  <1> DEFINE v == f \o u
  <1>4. s = v \o l
    OBVIOUS
  <1> HIDE DEF f, l
  <1>5. /\ v \in Seq(CpStep) /\ Len(v) = 1 + Len(u)
        /\ \A i \in 1 .. 1 + Len(u) : v[i] = IF i <= 1 THEN f[i] ELSE u[i - 1]
    <2>1. /\ f \o u \in Seq(CpStep) /\ Len(f \o u) = Len(f) + Len(u)
          /\ \A i \in 1 .. Len(f) + Len(u) : (f \o u)[i] = IF i <= Len(f) THEN f[i] ELSE u[i - Len(f)]
      BY <1>2, <1>3, ConcatProperties
    <2>2. QED
      BY <2>1, <1>2
  <1> HIDE DEF v
  <1>6. /\ s \in Seq(CpStep) /\ Len(s) = Len(u) + 2
        /\ \A i \in 1 .. Len(u) + 2 : s[i] = IF i <= Len(u) + 1 THEN v[i] ELSE l[i - (Len(u) + 1)]
    <2>1. /\ v \o l \in Seq(CpStep) /\ Len(v \o l) = Len(v) + Len(l)
          /\ \A i \in 1 .. Len(v) + Len(l) : (v \o l)[i] = IF i <= Len(v) THEN v[i] ELSE l[i - Len(v)]
      BY <1>2, <1>5, ConcatProperties
    <2>2. Len(v) = Len(u) + 1 /\ Len(v) + Len(l) = Len(u) + 2
      BY <1>2, <1>3, <1>5
    <2>3. QED
      BY <2>1, <2>2, <1>4
  <1>7. s[1] = Select(q.Type) /\ s[Len(s)] = Select(0) /\ s # << >>
    BY <1>2, <1>3, <1>5, <1>6
  <1>8. \A i \in 1 .. Len(u) : i + 1 \in 1 .. Len(s) /\ s[i + 1] = u[i]
    BY <1>3, <1>5, <1>6
  <1>9. ASSUME NEW i \in 2 .. Len(s) - 1
        PROVE  i - 1 \in 1 .. Len(u) /\ s[i] = u[i - 1] /\ BodyStep(q, s[i])
    <2>1. i - 1 \in 1 .. Len(u) /\ (i - 1) + 1 = i
      BY <1>3, <1>6
    <2>2. s[i] = u[i - 1]
      BY <2>1, <1>8
    <2>3. QED
      BY <2>1, <2>2 DEF Body
  <1>10. Paired(s)
    <2> SUFFICES ASSUME NEW i \in 2 .. Len(s), s[i].do = "write"
                 PROVE  s[i - 1].do = "read" /\ s[i - 1].reg = s[i].reg
      BY DEF Paired
    <2>1. i # Len(s)
      BY <1>1, <1>7
    <2>2. i - 1 \in 1 .. Len(u) /\ s[i] = u[i - 1]
      BY <2>1, <1>3, <1>6, <1>9
    <2>3. i # 2
      BY <2>2 DEF Body
    <2>4. i - 1 \in 2 .. Len(u) /\ i - 2 \in 1 .. Len(u) /\ (i - 2) + 1 = i - 1 /\ (i - 1) - 1 = i - 2
      BY <2>2, <2>3, <1>3
    <2>5. s[i - 1] = u[i - 2]
      BY <2>4, <1>8
    <2>6. QED
      BY <2>2, <2>4, <2>5 DEF Body, Paired
  <1>11. \A i \in 1 .. Len(s) - 1 : (i = 1 /\ s[i] = Select(q.Type)) \/ BodyStep(q, s[i])
    <2> SUFFICES ASSUME NEW i \in 1 .. Len(s) - 1
                 PROVE  (i = 1 /\ s[i] = Select(q.Type)) \/ BodyStep(q, s[i])
      OBVIOUS
    <2>1. i = 1 \/ i \in 2 .. Len(s) - 1
      BY <1>3, <1>6
    <2>2. QED
      BY <2>1, <1>7, <1>9
  <1>12. Left(q, s) /\ ToSelect(q, s)
    BY <1>1, <1>3, <1>6, <1>7, <1>10, <1>11 DEF Left, ToSelect
  <1>13. ASSUME NEW r, NEW b, Sets(u, r, b) PROVE Sets(s, r, b)
    BY <1>8, <1>13 DEF Sets
  <1>14. ASSUME NEW r, NEW b, Clears(u, r, b) PROVE Clears(s, r, b)
    BY <1>8, <1>14 DEF Clears
  <1>15. AutoLeft(u) => AutoLeft(s)
    BY <1>8 DEF AutoLeft
  <1>16. QED
    BY <1>7, <1>12, <1>13, <1>14, <1>15

LEMMA AutoBody ==
  ASSUME NEW q, q.mode # 3
  PROVE  /\ Body(q, <<[do |-> "auto", En |-> q.mode # 0]>>)
         /\ AutoLeft(<<[do |-> "auto", En |-> q.mode # 0]>>)
  <1> DEFINE x == [do |-> "auto", En |-> q.mode # 0]
             s == <<x>>
  <1>1. x \in CpStep /\ x.do = "auto" /\ x.En = (q.mode # 0)
    BY DEF CpStep
  <1> HIDE DEF x
  <1>2. s \in Seq(CpStep) /\ Len(s) = 1 /\ s[1] = x
    BY <1>1
  <1> HIDE DEF s
  <1>3. BodyStep(q, s[1])
    BY <1>1, <1>2 DEF BodyStep
  <1>4. Body(q, s)
    BY <1>1, <1>2, <1>3 DEF Body, Paired
  <1>5. AutoLeft(s)
    BY <1>1, <1>2 DEF AutoLeft
  <1>6. QED
    BY <1>4, <1>5 DEF s, x

LEMMA Levels01 ==
  ASSUME NEW mode \in 0 .. 2
  PROVE  ModeLevels(mode)[1] \in {0, 1} /\ ModeLevels(mode)[2] \in {0, 1}
  BY DEF ModeLevels

\* Every bit asked for is among those the call writes.
LEMMA CardCall ==
  ASSUME NEW q \in Request, q.Type \in Cards
  PROVE  /\ Left(q, SetComPort(q)) /\ SetComPort(q) # << >> /\ ToSelect(q, SetComPort(q))
         /\ \A r, b : Asks(q, 1, r, b) => Sets(SetComPort(q), r, b)
         /\ \A r, b : Asks(q, 0, r, b) => Clears(SetComPort(q), r, b)
         /\ q.mode # 3 => AutoLeft(SetComPort(q))
  <1> DEFINE p == 3 * q.port
             pins == <<Pin(p), Pin(p + 1)>>
             a == <<[do |-> "auto", En |-> q.mode # 0]>>
             d == Drive(pins, ModeLevels(q.mode))
             v == IF q.mode = 3 THEN << >> ELSE a \o d
             w == Drive(<<Pin(p + 2)>>, <<q.termination>>)
             f == <<Select(q.Type)>>
             u == v \o w
  <1>1. /\ q.port \in 0 .. 7 /\ q.mode \in 0 .. 3 /\ q.termination \in {0, 1}
        /\ p \in Nat /\ p - p + 1 = 1 /\ (p + 1) - p + 1 = 2 /\ p + 2 # p /\ p + 2 # p + 1
        /\ p \in p .. p + 2 /\ p + 1 \in p .. p + 2 /\ p + 2 \in p .. p + 2
        /\ \A m \in p .. p + 2 : m = p \/ m = p + 1 \/ m = p + 2
    <2>1. q.port \in 0 .. 7 /\ q.mode \in 0 .. 3 /\ q.termination \in {0, 1}
      BY DEF Request
    <2>2. p \in Nat
      BY <2>1
    <2> HIDE DEF p
    <2>3. QED
      BY <2>1, <2>2
  <1>2. \A m \in {p, p + 1, p + 2} :
          /\ Pin(m).chip = ChipOf(q) /\ Pin(m).group \in {1, 2} /\ Pin(m).bit \in Bit
    <2>1. ASSUME NEW m \in p .. p + 2
          PROVE  /\ Pin(m).chip = ChipOf(q) /\ Pin(m).group \in {1, 2} /\ Pin(m).bit \in Bit
      BY PinsOfPort, PinType
    <2> HIDE DEF p
    <2>2. \A m \in {p, p + 1, p + 2} : m \in p .. p + 2
      BY <1>1
    <2>3. QED
      BY <2>1, <2>2
  <1>3. SetComPort(q) = (CardSteps(q)) \o <<Select(0)>>
    <2> DEFINE steps == CASE q.Type = 0 -> <<[do |-> "a1"]>>
                          [] q.Type \in Cards -> CardSteps(q)
                          [] q.Type = 3 -> << >>
    <2>1. q.Type # 0 /\ q.Type # 3
      BY DEF Cards
    <2>2. steps = CardSteps(q)
      BY <2>1
    <2>3. SetComPort(q) = steps \o <<Select(0)>>
      BY DEF SetComPort
    <2> HIDE DEF steps
    <2>4. QED
      BY <2>2, <2>3
  <1>4. CardSteps(q) = (f \o v) \o w
    BY DEF CardSteps
  <1>5. /\ Body(q, w)
        /\ q.termination = 1 => Sets(w, RegOf(Pin(p + 2)), Pin(p + 2).bit)
        /\ q.termination = 0 => Clears(w, RegOf(Pin(p + 2)), Pin(p + 2).bit)
    <2> DEFINE ps == <<Pin(p + 2)>>
               lv == <<q.termination>>
    <2>1. DOMAIN ps = {1} /\ ps[1] = Pin(p + 2) /\ lv[1] = q.termination
      OBVIOUS
    <2>2. Asks(q, q.termination, RegOf(Pin(p + 2)), Pin(p + 2).bit)
      BY <1>1 DEF Asks
    <2> HIDE DEF ps, lv, p
    <2>3. \A i \in DOMAIN ps :
           /\ ps[i].chip = ChipOf(q) /\ ps[i].group \in {1, 2} /\ ps[i].bit \in Bit
           /\ Asks(q, lv[i], RegOf(ps[i]), ps[i].bit)
      BY <2>1, <2>2, <1>2
    <2>4. /\ Body(q, Drive(ps, lv))
          /\ \A i \in DOMAIN ps :
               /\ lv[i] = 1 => Sets(Drive(ps, lv), RegOf(ps[i]), ps[i].bit)
               /\ lv[i] = 0 => Clears(Drive(ps, lv), RegOf(ps[i]), ps[i].bit)
      BY <2>1, <2>3, DriveBody
    <2>5. w = Drive(ps, lv)
      BY DEF ps, lv
    <2>6. QED
      BY <2>1, <2>4, <2>5
  <1>6. q.mode # 3 =>
          /\ Body(q, d)
          /\ \A i \in {1, 2} :
               /\ ModeLevels(q.mode)[i] = 1 => Sets(d, RegOf(pins[i]), pins[i].bit)
               /\ ModeLevels(q.mode)[i] = 0 => Clears(d, RegOf(pins[i]), pins[i].bit)
    <2> SUFFICES ASSUME q.mode # 3
                 PROVE  /\ Body(q, d)
                        /\ \A i \in {1, 2} :
                             /\ ModeLevels(q.mode)[i] = 1 => Sets(d, RegOf(pins[i]), pins[i].bit)
                             /\ ModeLevels(q.mode)[i] = 0 => Clears(d, RegOf(pins[i]), pins[i].bit)
      OBVIOUS
    <2> DEFINE lv == ModeLevels(q.mode)
    <2>1. DOMAIN pins = {1, 2} /\ pins[1] = Pin(p) /\ pins[2] = Pin(p + 1)
      OBVIOUS
    <2>2. Asks(q, lv[1], RegOf(Pin(p)), Pin(p).bit)
      BY <1>1 DEF Asks
    <2>3. Asks(q, lv[2], RegOf(Pin(p + 1)), Pin(p + 1).bit)
      BY <1>1 DEF Asks
    <2> HIDE DEF pins, lv, p
    <2>4. \A i \in DOMAIN pins :
           /\ pins[i].chip = ChipOf(q) /\ pins[i].group \in {1, 2} /\ pins[i].bit \in Bit
           /\ Asks(q, lv[i], RegOf(pins[i]), pins[i].bit)
      BY <2>1, <2>2, <2>3, <1>2
    <2>5. /\ Body(q, Drive(pins, lv))
          /\ \A i \in DOMAIN pins :
               /\ lv[i] = 1 => Sets(Drive(pins, lv), RegOf(pins[i]), pins[i].bit)
               /\ lv[i] = 0 => Clears(Drive(pins, lv), RegOf(pins[i]), pins[i].bit)
      BY <2>1, <2>4, DriveBody
    <2>6. QED
      BY <2>1, <2>5 DEF lv
  <1>7. pins[1] = Pin(p) /\ pins[2] = Pin(p + 1)
    OBVIOUS
  <1>8. q.mode # 3 => Body(q, a) /\ AutoLeft(a)
    BY AutoBody
  <1> HIDE DEF a, d, w, pins, p, f
  <1>9. /\ Body(q, v)
        /\ q.mode # 3 => /\ AutoLeft(v)
                         /\ \A r, b : Sets(d, r, b) => Sets(v, r, b)
                         /\ \A r, b : Clears(d, r, b) => Clears(v, r, b)
    <2>1. CASE q.mode = 3
      BY <2>1, BodyEmpty
    <2>2. CASE q.mode # 3
      <3>1. v = a \o d /\ Body(q, a) /\ Body(q, d) /\ AutoLeft(a)
        BY <2>2, <1>6, <1>8
      <3>2. QED
        BY <2>2, <3>1, BodyConcat
    <2>3. QED
      BY <2>1, <2>2
  <1> HIDE DEF v
  <1>10. /\ Body(q, u)
         /\ \A r, b : Sets(v, r, b) \/ Sets(w, r, b) => Sets(u, r, b)
         /\ \A r, b : Clears(v, r, b) \/ Clears(w, r, b) => Clears(u, r, b)
         /\ AutoLeft(v) => AutoLeft(u)
    BY <1>5, <1>9, BodyConcat
  <1>11. (f \o v) \o w = f \o u
    <2>1. f \in Seq(CpStep)
      BY DEF f, Select, CpStep, Cards
    <2>2. v \in Seq(CpStep) /\ w \in Seq(CpStep)
      BY <1>5, <1>9 DEF Body
    <2>3. QED
      BY <2>1, <2>2, ConcatAssociative
  <1> HIDE DEF u
  <1>12. SetComPort(q) = (<<Select(q.Type)>> \o u) \o <<Select(0)>>
    BY <1>3, <1>4, <1>11 DEF f
  <1>13. /\ Left(q, SetComPort(q)) /\ SetComPort(q) # << >> /\ ToSelect(q, SetComPort(q))
         /\ \A r, b : Sets(u, r, b) => Sets(SetComPort(q), r, b)
         /\ \A r, b : Clears(u, r, b) => Clears(SetComPort(q), r, b)
         /\ AutoLeft(u) => AutoLeft(SetComPort(q))
    BY <1>10, <1>12, BetweenSelections
  <1>14. ASSUME NEW lev \in {0, 1}, NEW r, NEW b, Asks(q, lev, r, b)
         PROVE  /\ lev = 1 => Sets(u, r, b)
                /\ lev = 0 => Clears(u, r, b)
    <2>1. PICK m \in p .. p + 2 :
            /\ RegOf(Pin(m)) = r /\ Pin(m).bit = b
            /\ IF m = p + 2 THEN lev = q.termination
               ELSE q.mode # 3 /\ lev = ModeLevels(q.mode)[m - p + 1]
      BY <1>14 DEF Asks, p
    <2>2. CASE m = p + 2
      BY <2>1, <2>2, <1>5, <1>10
    <2>3. CASE m = p
      BY <2>1, <2>3, <1>1, <1>6, <1>7, <1>9, <1>10
    <2>4. CASE m = p + 1
      BY <2>1, <2>4, <1>1, <1>6, <1>7, <1>9, <1>10
    <2>5. QED
      BY <2>2, <2>3, <2>4, <1>1
  <1>15. QED
    BY <1>9, <1>10, <1>13, <1>14

LEMMA EndsInSelect ==
  ASSUME NEW s \in Seq(CpStep)
  PROVE  LET t == s \o <<Select(0)>> IN
         /\ t \in Seq(CpStep) /\ Len(t) = Len(s) + 1 /\ t # << >> /\ t[Len(t)] = Select(0)
         /\ \A i \in 1 .. Len(s) : t[i] = s[i]
  <1> DEFINE l == <<Select(0)>>
             t == s \o l
  <1>1. Select(0) \in CpStep
    BY DEF Select, CpStep
  <1>2. l \in Seq(CpStep) /\ Len(l) = 1 /\ l[1] = Select(0)
    BY <1>1
  <1> HIDE DEF l
  <1>3. /\ t \in Seq(CpStep) /\ Len(t) = Len(s) + Len(l)
        /\ \A i \in 1 .. Len(s) + Len(l) : t[i] = IF i <= Len(s) THEN s[i] ELSE l[i - Len(s)]
    BY <1>2, ConcatProperties
  <1> HIDE DEF t
  <1>4. Len(s) \in Nat
    OBVIOUS
  <1>5. /\ t \in Seq(CpStep) /\ Len(t) = Len(s) + 1 /\ t # << >> /\ t[Len(t)] = Select(0)
        /\ \A i \in 1 .. Len(s) : t[i] = s[i]
    BY <1>2, <1>3, <1>4
  <1>6. QED
    BY <1>5 DEF l, t

\* A port on the board, or no port at all.
LEMMA OtherCall ==
  ASSUME NEW q \in Request, q.Type \notin Cards
  PROVE  Left(q, SetComPort(q))
  <1> DEFINE a == [do |-> "a1"]
             steps == CASE q.Type = 0 -> <<a>>
                        [] q.Type \in Cards -> CardSteps(q)
                        [] q.Type = 3 -> << >>
             t == steps \o <<Select(0)>>
  <1>1. SetComPort(q) = t
    BY DEF SetComPort
  <1>2. q.Type = 0 \/ q.Type = 3
    BY DEF Request, Cards
  <1>3. a \in CpStep /\ a.do = "a1"
    BY DEF CpStep
  <1> HIDE DEF a
  <1>4. q.Type = 0 => steps = <<a>>
    OBVIOUS
  <1>5. q.Type = 3 => steps = << >>
    OBVIOUS
  <1>6. /\ steps \in Seq(CpStep)
        /\ \A i \in 1 .. Len(steps) : q.Type = 0 /\ steps[i].do = "a1"
    <2> HIDE DEF steps
    <2>1. CASE q.Type = 0
      <3>1. <<a>> \in Seq(CpStep) /\ Len(<<a>>) = 1 /\ <<a>>[1] = a
        BY <1>3
      <3>2. steps \in Seq(CpStep) /\ Len(steps) = 1 /\ steps[1] = a
        BY <3>1, <2>1, <1>4
      <3>3. QED
        BY <3>2, <2>1, <1>3
    <2>2. CASE q.Type = 3
      BY <2>2, <1>5
    <2>3. QED
      BY <2>1, <2>2, <1>2
  <1> HIDE DEF steps
  <1>7. /\ t \in Seq(CpStep) /\ Len(t) = Len(steps) + 1 /\ t # << >> /\ t[Len(t)] = Select(0)
        /\ \A i \in 1 .. Len(steps) : t[i] = steps[i]
    BY <1>6, EndsInSelect
  <1> HIDE DEF t
  <1>8. Len(steps) \in Nat /\ Select(0).do = "select"
    BY <1>6 DEF Select
  <1>9. Paired(t)
    <2> SUFFICES ASSUME NEW i \in 2 .. Len(t) PROVE t[i].do # "write"
      BY DEF Paired
    <2>1. CASE i = Len(t)
      BY <2>1, <1>7, <1>8
    <2>2. CASE i # Len(t)
      <3>1. i \in 1 .. Len(steps)
        BY <2>2, <1>7, <1>8
      <3>2. QED
        BY <3>1, <1>6, <1>7
    <2>3. QED
      BY <2>1, <2>2
  <1>10. \A i \in 1 .. Len(t) - 1 : q.Type = 0 /\ t[i].do = "a1"
    BY <1>6, <1>7, <1>8
  <1>11. QED
    BY <1>1, <1>7, <1>9, <1>10 DEF Left

LEMMA RmwSteps ==
  ASSUME NEW reg \in Regs, NEW clear \in Byte, NEW set \in Byte
  PROVE  Rmw(reg, clear, set) \in Seq(CpStep)
  <1> DEFINE x == [do |-> "read", reg |-> reg]
             y == [do |-> "write", reg |-> reg, clear |-> clear, set |-> set]
  <1>1. x \in CpStep /\ y \in CpStep
    BY DEF CpStep
  <1> HIDE DEF x, y
  <1>2. <<x, y>> \in Seq(CpStep)
    BY <1>1
  <1>3. QED
    BY <1>2 DEF Rmw, x, y

LEMMA SetUpSteps == SetF75111MultiFunctionAndGPIO \in Seq(CpStep)
  <1> DEFINE reg(c, x) == <<c, OutputControl[x]>>
             y(r) == <<[do |-> "write", reg |-> r, clear |-> {}, set |-> Bit]>>
  <1>1. \A c \in Chips, x \in {1, 2} : reg(c, x) \in Regs
    BY DEF OutputControl, Regs
  <1>2. "9C" \in Chips /\ "6E" \in Chips
    BY DEF Chips
  <1>3. {} \in Byte /\ {7} \in Byte /\ Bit \in Byte /\ Bit \ {3} \in Byte
    BY DEF Byte, Bit
  <1>4. \A r \in Regs : y(r) \in Seq(CpStep)
    <2> SUFFICES ASSUME NEW r \in Regs PROVE y(r) \in Seq(CpStep)
      OBVIOUS
    <2> DEFINE x == [do |-> "write", reg |-> r, clear |-> {}, set |-> Bit]
    <2>1. x \in CpStep
      BY <1>3 DEF CpStep
    <2> HIDE DEF x
    <2>2. <<x>> \in Seq(CpStep)
      BY <2>1
    <2>3. QED
      BY <2>2 DEF x
  <1> DEFINE s1 == Rmw(reg("9C", 1), {}, {7})
             s2 == y(reg("9C", 2))
             s3 == Rmw(reg("6E", 1), {}, Bit \ {3})
             s4 == y(reg("6E", 2))
  <1>5. /\ s1 \in Seq(CpStep) /\ s2 \in Seq(CpStep)
        /\ s3 \in Seq(CpStep) /\ s4 \in Seq(CpStep)
    <2> HIDE DEF y, reg
    <2>1. QED
      BY <1>1, <1>2, <1>3, <1>4, RmwSteps
  <1>6. SetF75111MultiFunctionAndGPIO = ((s1 \o s2) \o s3) \o s4
    BY DEF SetF75111MultiFunctionAndGPIO
  <1> HIDE DEF s1, s2, s3, s4
  <1>7. QED
    BY <1>5, <1>6, ConcatProperties

LEMMA LoadingSteps ==
  ASSUME NEW cards \in SUBSET Cards
  PROVE  Left(Loading, cp_gpio_init(cards))
  <1> DEFINE setUp(c) == IF c \in cards THEN <<Select(c)>> \o SetF75111MultiFunctionAndGPIO ELSE << >>
             s == setUp(1) \o setUp(2)
  <1>1. cp_gpio_init(cards) = IF cards = {} THEN << >> ELSE s \o <<Select(0)>>
    BY DEF cp_gpio_init
  <1>2. ASSUME NEW c \in Cards PROVE setUp(c) \in Seq(CpStep)
    <2>1. Select(c) \in CpStep
      BY DEF Select, CpStep, Cards
    <2>2. <<Select(c)>> \in Seq(CpStep)
      BY <2>1
    <2>3. <<Select(c)>> \o SetF75111MultiFunctionAndGPIO \in Seq(CpStep)
      BY <2>2, SetUpSteps, ConcatProperties
    <2>4. << >> \in Seq(CpStep)
      OBVIOUS
    <2>5. QED
      BY <2>3, <2>4
  <1>3. s \in Seq(CpStep)
    <2>1. setUp(1) \in Seq(CpStep) /\ setUp(2) \in Seq(CpStep)
      BY <1>2 DEF Cards
    <2> HIDE DEF setUp
    <2>2. QED
      BY <2>1, ConcatProperties
  <1> HIDE DEF s
  <1>4. QED
    BY <1>1, <1>3, EndsInSelect DEF Left

\* What is left when the first step of it is done.
LEMMA TailLeft ==
  ASSUME NEW q, NEW s, Left(q, s), s # << >>
  PROVE  /\ Head(s) = s[1] /\ s[1] \in CpStep
         /\ Left(q, Tail(s)) /\ Len(Tail(s)) = Len(s) - 1 /\ Len(s) \in Nat
         /\ \A i \in 1 .. Len(Tail(s)) : Tail(s)[i] = s[i + 1]
         /\ Tail(s) = << >> <=> Len(s) = 1
  <1> DEFINE t == Tail(s)
  <1>1. s \in Seq(CpStep) /\ Len(s) \in Nat /\ Len(s) > 0 /\ Head(s) = s[1] /\ s[1] \in CpStep
    BY DEF Left
  <1>2. t \in Seq(CpStep) /\ Len(t) = Len(s) - 1 /\ \A i \in 1 .. Len(t) : t[i] = s[i + 1]
    BY <1>1, HeadTailProperties
  <1> HIDE DEF t
  <1>3. t = << >> <=> Len(s) = 1
    BY <1>1, <1>2
  <1>4. t # << >> => t[Len(t)] = Select(0)
    <2>1. t # << >> => Len(t) \in 1 .. Len(t)
      BY <1>2
    <2>2. QED
      BY <2>1, <1>1, <1>2 DEF Left
  <1>5. ASSUME q # Loading
        PROVE  /\ Paired(t)
               /\ \A i \in 1 .. Len(t) - 1 :
                    IF q.Type \in Cards
                      THEN (i = 1 /\ t[i] = Select(q.Type)) \/ BodyStep(q, t[i])
                      ELSE q.Type = 0 /\ t[i].do = "a1"
    <2>1. Paired(t)
      <3> SUFFICES ASSUME NEW i \in 2 .. Len(t), t[i].do = "write"
                   PROVE  t[i - 1].do = "read" /\ t[i - 1].reg = t[i].reg
        BY DEF Paired
      <3>1. i + 1 \in 2 .. Len(s) /\ t[i] = s[i + 1]
        BY <1>1, <1>2
      <3>2. i - 1 \in 1 .. Len(t) /\ t[i - 1] = s[i - 1 + 1] /\ i - 1 + 1 = i + 1 - 1
        BY <1>1, <1>2
      <3>3. QED
        BY <3>1, <3>2, <1>5 DEF Left, Paired
    <2>2. ASSUME NEW i \in 1 .. Len(t) - 1
          PROVE  IF q.Type \in Cards
                   THEN (i = 1 /\ t[i] = Select(q.Type)) \/ BodyStep(q, t[i])
                   ELSE q.Type = 0 /\ t[i].do = "a1"
      <3>1. i + 1 \in 1 .. Len(s) - 1 /\ t[i] = s[i + 1] /\ i + 1 # 1
        BY <1>1, <1>2
      <3>2. QED
        BY <3>1, <1>5 DEF Left
    <2>3. QED
      BY <2>1, <2>2
  <1>6. Left(q, t)
    BY <1>2, <1>4, <1>5 DEF Left
  <1>7. QED
    BY <1>1, <1>2, <1>3, <1>6 DEF t

LEMMA StepFields ==
  ASSUME NEW x \in CpStep
  PROVE  /\ x.do \in {"select", "read", "write", "a1", "auto"}
         /\ x.do = "select" => x.card \in 0 .. 2
         /\ x.do = "read" => x.reg \in Regs
         /\ x.do = "write" => x.reg \in Regs /\ x.clear \in Byte /\ x.set \in Byte
         /\ x.do = "auto" => x.En \in BOOLEAN
  BY DEF CpStep

LEMMA LastIsSelect ==
  ASSUME NEW q, NEW s, Left(q, s), Len(s) = 1
  PROVE  s[1] = Select(0) /\ s[1].do = "select" /\ s[1].card = 0
  <1>1. s # << >>
    BY Len(<< >>) = 0
  <1>2. s[1] = Select(0)
    BY <1>1 DEF Left
  <1>3. QED
    BY <1>2 DEF Select

\* The first step left of a call for a card.
LEMMA CardStep ==
  ASSUME NEW q, NEW s, Left(q, s), s # << >>, q.Type \in Cards
  PROVE  /\ s[1].do # "a1"
         /\ s[1].do = "select" =>
              \/ Len(s) = 1 /\ s[1].card = 0 /\ ~AtRest(q, s) /\ Tail(s) = << >>
              \/ Len(s) > 1 /\ s[1].card = q.Type /\ ToSelect(q, s) /\ ~AtRest(q, Tail(s))
                 /\ Tail(s) # << >>
         /\ s[1].do # "select" =>
              Len(s) > 1 /\ BodyStep(q, s[1]) /\ ~AtRest(q, s) /\ ~AtRest(q, Tail(s))
  <1> DEFINE t == Tail(s)
  <1>1. /\ s[1] \in CpStep /\ Len(s) \in Nat /\ Len(t) = Len(s) - 1
        /\ \A i \in 1 .. Len(t) : t[i] = s[i + 1]
        /\ t = << >> <=> Len(s) = 1
        /\ Left(q, t)
    BY TailLeft
  <1>2. q # Loading
    BY DEF Loading, Cards
  <1>3. \A i \in 1 .. Len(s) - 1 : (i = 1 /\ s[i] = Select(q.Type)) \/ BodyStep(q, s[i])
    BY <1>2 DEF Left
  <1>4. Select(q.Type).do = "select" /\ Select(q.Type).card = q.Type
    BY DEF Select
  <1>5. Len(s) > 0
    BY <1>1 DEF Left
  <1> HIDE DEF t
  <1>6. ~ToSelect(q, t)
    <2> SUFFICES ASSUME Len(t) > 1, t[1].do = "select" PROVE FALSE
      BY DEF ToSelect
    <2>1. 2 \in 1 .. Len(s) - 1 /\ t[1] = s[2]
      BY <1>1
    <2>2. BodyStep(q, s[2])
      BY <2>1, <1>3
    <2>3. QED
      BY <2>1, <2>2 DEF BodyStep
  <1>7. CASE Len(s) = 1
    <2>1. s[1].do = "select" /\ s[1].card = 0
      BY <1>7, LastIsSelect
    <2>2. ~AtRest(q, s)
      BY <1>2, <1>7 DEF AtRest, ToSelect
    <2>3. t = << >>
      BY <1>1, <1>7
    <2>4. QED
      BY <2>1, <2>2, <2>3, <1>7 DEF t
  <1>8. CASE Len(s) > 1
    <2>1. s[1] = Select(q.Type) \/ BodyStep(q, s[1])
      BY <1>3, <1>8, <1>1
    <2>2. t # << >>
      BY <1>1, <1>8
    <2>3. ~AtRest(q, t)
      BY <2>2, <1>2, <1>6 DEF AtRest
    <2>4. BodyStep(q, s[1]) => s[1].do # "select" /\ s[1].do # "a1" /\ ~AtRest(q, s)
      BY <1>2 DEF BodyStep, AtRest, ToSelect
    <2>5. s[1].do = "select" => ToSelect(q, s)
      BY <1>8 DEF ToSelect
    <2>6. QED
      BY <2>1, <2>2, <2>3, <2>4, <2>5, <1>4, <1>8 DEF t
  <1>9. QED
    BY <1>1, <1>5, <1>7, <1>8

\* ... and of any other.
LEMMA OtherStep ==
  ASSUME NEW q \in Request, NEW s, Left(q, s), s # << >>, q.Type \notin Cards, q # Loading
  PROVE  (s[1].do = "a1" /\ q.Type = 0) \/ Len(s) = 1
  <1>1. Len(s) \in Nat /\ Len(s) > 0
    <2>1. s \in Seq(CpStep)
      BY DEF Left
    <2>2. QED
      BY <2>1
  <1>2. ASSUME NEW i \in 1 .. Len(s) - 1 PROVE q.Type = 0 /\ s[i].do = "a1"
    <2>1. IF q.Type \in Cards
            THEN (i = 1 /\ s[i] = Select(q.Type)) \/ BodyStep(q, s[i])
            ELSE q.Type = 0 /\ s[i].do = "a1"
      BY DEF Left
    <2>2. QED
      BY <2>1
  <1>3. CASE Len(s) # 1
    <2> DEFINE n == Len(s)
    <2>1. 1 \in 1 .. n - 1
      <3>1. n \in Nat /\ n > 0 /\ n # 1
        BY <1>1, <1>3
      <3> HIDE DEF n
      <3>2. QED
        BY <3>1
    <2>2. QED
      BY <2>1, <1>2
  <1>4. QED
    BY <1>3

\* What the rest of a call writes.
LEMMA TailWrites ==
  ASSUME NEW q, NEW s, Left(q, s), s # << >>
  PROVE  /\ \A r, b : Sets(s, r, b) =>
              Sets(Tail(s), r, b) \/ (s[1].do = "write" /\ s[1].reg = r /\ b \in s[1].set)
         /\ \A r, b : Clears(s, r, b) =>
              Clears(Tail(s), r, b) \/ (s[1].do = "write" /\ s[1].reg = r /\ b \in s[1].clear)
         /\ AutoLeft(s) => AutoLeft(Tail(s)) \/ s[1].do = "auto"
         /\ q # Loading /\ Tail(s) # << >> /\ Tail(s)[1].do = "write" =>
              s[1].do = "read" /\ s[1].reg = Tail(s)[1].reg
  <1> DEFINE t == Tail(s)
  <1>1. /\ Len(s) \in Nat /\ Len(t) = Len(s) - 1
        /\ \A i \in 1 .. Len(t) : t[i] = s[i + 1]
        /\ t = << >> <=> Len(s) = 1
    BY TailLeft
  <1>2. Len(s) > 0
    BY <1>1 DEF Left
  <1> HIDE DEF t
  <1>3. ASSUME NEW i \in 1 .. Len(s), i # 1
        PROVE  i - 1 \in 1 .. Len(t) /\ t[i - 1] = s[i]
    <2>1. i - 1 \in 1 .. Len(t) /\ i - 1 + 1 = i
      BY <1>1, <1>3
    <2>2. QED
      BY <2>1, <1>1
  <1>4. ASSUME NEW r, NEW b, Sets(s, r, b)
        PROVE  Sets(t, r, b) \/ (s[1].do = "write" /\ s[1].reg = r /\ b \in s[1].set)
    BY <1>3, <1>4 DEF Sets
  <1>5. ASSUME NEW r, NEW b, Clears(s, r, b)
        PROVE  Clears(t, r, b) \/ (s[1].do = "write" /\ s[1].reg = r /\ b \in s[1].clear)
    BY <1>3, <1>5 DEF Clears
  <1>6. AutoLeft(s) => AutoLeft(t) \/ s[1].do = "auto"
    BY <1>3 DEF AutoLeft
  <1>7. ASSUME q # Loading, t # << >>, t[1].do = "write"
        PROVE  s[1].do = "read" /\ s[1].reg = t[1].reg
    <2>1. 2 \in 2 .. Len(s) /\ t[1] = s[2]
      BY <1>1, <1>2, <1>7
    <2>2. QED
      BY <2>1, <1>7 DEF Left, Paired
  <1>8. QED
    BY <1>4, <1>5, <1>6, <1>7 DEF t

-----------------------------------------------------------------------------
(* Each step keeps CpInv. *)

Requested(q) ==
  q.Type \in Cards =>
    q \in Requests /\ stored[<<q.Type, q.port>>] = <<q.mode, q.termination>>

LEMMA CpTyped ==
  ASSUME ComPortAssumption, CpTypeOK
  PROVE  /\ call.q \in Request /\ call.before \in Settings /\ call.clean \in BOOLEAN
         /\ failures \in Nat /\ MaxFailures \in Nat
  BY DEF CpTypeOK, ComPortAssumption

\* The step under way, and what it leaves.
LEMMA Doing ==
  ASSUME CpInv, NEW do, Step(do)
  PROVE  /\ todo # << >> /\ Head(todo) = todo[1] /\ todo[1] \in CpStep /\ todo[1].do = do
         /\ todo' = Tail(todo) /\ Left(call.q, todo) /\ Left(call.q, todo')
         /\ \A i \in DOMAIN todo' : todo'[i].do \in {"select", "read", "write", "a1", "auto"}
  <1>1. todo # << >> /\ Head(todo).do = do /\ todo' = Tail(todo) /\ Left(call.q, todo)
    BY DEF Step, CpInv
  <1>2. Head(todo) = todo[1] /\ todo[1] \in CpStep /\ Left(call.q, Tail(todo))
    BY <1>1, TailLeft
  <1>3. todo' \in Seq(CpStep)
    BY <1>1, <1>2 DEF Left
  <1>4. \A i \in DOMAIN todo' : todo'[i] \in CpStep
    BY <1>3
  <1>5. QED
    BY <1>1, <1>2, <1>4, StepFields

LEMMA Outcome ==
  ASSUME ComPortAssumption, CpTypeOK, NEW ok \in BOOLEAN, NEW answers \in BOOLEAN,
         Succeeds(ok, answers)
  PROVE  /\ call' \in [q : Request, before : Settings, clean : BOOLEAN]
         /\ call'.q = call.q /\ call'.before = call.before
         /\ call'.clean => call.clean /\ ok
         /\ failures' \in 0 .. MaxFailures /\ failures' >= failures
         /\ ok => answers
         /\ ~ok /\ answers => failures' = failures + 1
  <1>1. failures \in 0 .. MaxFailures /\ MaxFailures \in Nat
    BY DEF CpTypeOK, ComPortAssumption
  <1>2. call \in [q : Request, before : Settings, clean : BOOLEAN]
    BY DEF CpTypeOK
  <1>3. call' = [call EXCEPT !.clean = @ /\ ok]
    BY DEF Succeeds
  <1>4. /\ call' \in [q : Request, before : Settings, clean : BOOLEAN]
        /\ call'.q = call.q /\ call'.before = call.before
        /\ call'.clean => call.clean /\ ok
    <2>1. call'.q = call.q /\ call'.before = call.before /\ call'.clean = (call.clean /\ ok)
      BY <1>2, <1>3
    <2>2. (call.clean /\ ok) \in BOOLEAN
      OBVIOUS
    <2>3. call' \in [q : Request, before : Settings, clean : BOOLEAN]
      BY <1>2, <1>3, <2>2
    <2>4. QED
      BY <2>1, <2>3
  <1>5. failures' = IF ~ok /\ answers THEN failures + 1 ELSE failures
    BY DEF Succeeds
  <1>6. (ok => answers) /\ (~ok /\ answers => failures < MaxFailures)
    BY DEF Succeeds
  <1>7. failures' \in 0 .. MaxFailures /\ failures' >= failures
    BY <1>1, <1>5, <1>6
  <1>8. QED
    BY <1>4, <1>5, <1>6, <1>7

\* A step that does not touch the multiplexer.
LEMMA ChannelKept ==
  ASSUME ComPortAssumption, CpInv, NEW do, do # "select", Step(do), call'.q = call.q,
         channel' = channel, failures' \in Nat, failures' >= failures
  PROVE  ChannelInv'
  <1> DEFINE q == call.q
  <1>1. failures \in Nat /\ q \in Request
    BY CpTyped DEF CpInv
  <1>2. /\ todo # << >> /\ todo[1].do = do /\ todo' = Tail(todo)
        /\ Left(q, todo)
    BY Doing
  <1> SUFFICES ASSUME failures' <= 1
               PROVE  IF AtRest(q, todo') THEN channel # 0 => failures' = 1
                      ELSE q # Loading => channel \in {0, q.Type}
    BY DEF ChannelInv
  <1>3. IF AtRest(q, todo) THEN channel # 0 => failures = 1
        ELSE q # Loading => channel \in {0, q.Type}
    BY <1>1 DEF CpInv, ChannelInv
  <1> HIDE DEF q
  <1>4. CASE q.Type \in Cards
    <2>1. ~AtRest(q, todo) /\ ~AtRest(q, todo')
      BY <1>2, <1>4, CardStep
    <2>2. QED
      BY <2>1, <1>3
  <1>5. CASE q = Loading
    <2>1. Len(todo) # 1
      BY <1>2, LastIsSelect
    <2>2. todo' # << >>
      BY <2>1, <1>2, TailLeft
    <2>3. ~AtRest(q, todo')
      BY <2>2, <1>5 DEF AtRest, ToSelect, Loading, Cards
    <2>4. QED
      BY <2>3, <1>5
  <1>6. CASE q.Type \notin Cards /\ q # Loading
    <2>1. AtRest(q, todo) /\ AtRest(q, todo')
      BY <1>6 DEF AtRest
    <2>2. QED
      BY <2>1, <1>1, <1>3
  <1>7. QED
    BY <1>4, <1>5, <1>6

LEMMA ChannelSelected ==
  ASSUME ComPortAssumption, CpInv, set_PCA9548_channel
  PROVE  ChannelInv'
  <1> DEFINE q == call.q
  <1>0. CpTypeOK /\ Step("select")
    BY DEF CpInv, set_PCA9548_channel
  <1>1. failures \in Nat /\ q \in Request
    BY <1>0, CpTyped
  <1>2. /\ todo # << >> /\ todo[1].do = "select" /\ todo' = Tail(todo) /\ Head(todo) = todo[1]
        /\ Left(q, todo)
    BY <1>0, Doing
  <1>3. PICK ok \in BOOLEAN :
          Succeeds(ok, TRUE) /\ channel' = IF ok THEN Head(todo).card ELSE channel
    BY DEF set_PCA9548_channel
  <1>4. /\ call'.q = call.q /\ failures' >= failures /\ failures' \in Nat
        /\ ~ok => failures' = failures + 1
    <2>1. Succeeds(ok, TRUE)
      BY <1>3
    <2>2. /\ call'.q = call.q /\ failures' \in 0 .. MaxFailures /\ failures' >= failures
          /\ ~ok /\ TRUE => failures' = failures + 1
      BY <2>1, <1>0, Outcome
    <2>3. QED
      BY <2>2, <1>0, CpTyped
  <1> SUFFICES ASSUME failures' <= 1
               PROVE  IF AtRest(q, todo') THEN channel' # 0 => failures' = 1
                      ELSE q # Loading => channel' \in {0, q.Type}
    BY <1>4 DEF ChannelInv
  <1>5. IF AtRest(q, todo) THEN channel # 0 => failures = 1
        ELSE q # Loading => channel \in {0, q.Type}
    BY <1>1, <1>4 DEF CpInv, ChannelInv
  <1> HIDE DEF q
  <1>6. CASE Len(todo) = 1
    <2>1. todo' = << >> /\ AtRest(q, todo')
      BY <1>2, <1>6, TailLeft DEF AtRest
    <2>2. todo[1].card = 0
      BY <1>2, <1>6, LastIsSelect
    <2>3. CASE ok
      BY <2>1, <2>2, <2>3, <1>2, <1>3
    <2>4. CASE ~ok
      BY <2>1, <2>4, <1>1, <1>4
    <2>5. QED
      BY <2>3, <2>4
  <1>7. CASE Len(todo) # 1 /\ q.Type \in Cards
    <2>1. todo[1].card = q.Type /\ AtRest(q, todo) /\ ~AtRest(q, todo')
      BY <1>2, <1>7, CardStep DEF AtRest
    <2>2. CASE ok
      BY <2>1, <2>2, <1>2, <1>3
    <2>3. CASE ~ok
      <3>1. failures = 0
        BY <2>3, <1>1, <1>4
      <3>2. channel = 0 /\ channel' = channel
        BY <2>1, <2>3, <3>1, <1>3, <1>5
      <3>3. QED
        BY <2>1, <3>2
    <2>4. QED
      BY <2>2, <2>3
  <1>8. CASE Len(todo) # 1 /\ q = Loading
    <2>1. todo' # << >>
      BY <1>2, <1>8, TailLeft
    <2>2. ~AtRest(q, todo')
      BY <2>1, <1>8 DEF AtRest, ToSelect, Loading, Cards
    <2>3. QED
      BY <2>2, <1>8
  <1>9. CASE Len(todo) # 1 /\ q.Type \notin Cards /\ q # Loading
    BY <1>1, <1>2, <1>9, OtherStep
  <1>10. QED
    BY <1>6, <1>7, <1>8, <1>9

\* What the steps of a call leave alone, whatever they do.
LEMMA CallUnderWay ==
  ASSUME CpInv, NEW do, Step(do), call'.q = call.q, stored' = stored
  PROVE  /\ Left(call'.q, todo')
         /\ call'.q.Type \in Cards =>
              /\ call'.q \in Requests
              /\ stored'[<<call'.q.Type, call'.q.port>>] = <<call'.q.mode, call'.q.termination>>
  BY Doing DEF CpInv


LEMMA CardPresent ==
  ASSUME CpTypeOK, call.q.Type \in Present
  PROVE  call.q.Type \in Cards /\ call.q # Loading
  <1>1. Present \subseteq Cards
    BY DEF CpTypeOK
  <1>2. Loading.Type \notin Cards
    BY DEF Loading, Cards
  <1>3. QED
    BY <1>1, <1>2

\* No write, and no auto mode changed: the call's writes are still to come.
LEMMA CleanKept ==
  ASSUME CpInv, NEW do, do # "write", do # "auto", Step(do),
         call'.q = call.q, call'.before = call.before, call'.clean => call.clean,
         Present' = Present, F75111' = F75111, auto' = auto,
         call.clean /\ call'.clean /\ call.q.Type \in Present =>
           /\ todo' # << >> /\ ~ToSelect(call.q, todo') => channel' = call.q.Type
           /\ todo' # << >> /\ todo'[1].do = "write" =>
                data' = F75111[call.q.Type][todo'[1].reg]
  PROVE  CleanInv'
  <1> DEFINE q == call.q
             c == call.q.Type
             was == call.before
  <1> SUFFICES ASSUME call'.clean, c \in Present
               PROVE  /\ \A k \in Cards \ {c} : F75111[k] = was.F75111[k]
                      /\ todo' # << >> /\ ~ToSelect(q, todo') => channel' = c
                      /\ todo' # << >> /\ todo'[1].do = "write" => data' = F75111[c][todo'[1].reg]
                      /\ \A r \in Regs, b \in Bit :
                           /\ Asks(q, 1, r, b) => b \in F75111[c][r] \/ Sets(todo', r, b)
                           /\ Asks(q, 0, r, b) => b \notin F75111[c][r] \/ Clears(todo', r, b)
                           /\ ~Asks(q, 0, r, b) /\ ~Asks(q, 1, r, b) =>
                                (b \in F75111[c][r] <=> b \in was.F75111[c][r])
                      /\ auto = AutoAsked(q, was.auto) \/ (AutoLeft(todo') /\ auto = was.auto)
    BY DEF CleanInv
  <1>1. /\ todo # << >> /\ todo[1].do = do /\ todo' = Tail(todo) /\ Left(q, todo)
    BY Doing
  <1>2. /\ \A r, b : Sets(todo, r, b) => Sets(todo', r, b)
        /\ \A r, b : Clears(todo, r, b) => Clears(todo', r, b)
        /\ AutoLeft(todo) => AutoLeft(todo')
    BY <1>1, TailWrites
  <1>3. /\ \A k \in Cards \ {c} : F75111[k] = was.F75111[k]
        /\ \A r \in Regs, b \in Bit :
             /\ Asks(q, 1, r, b) => b \in F75111[c][r] \/ Sets(todo, r, b)
             /\ Asks(q, 0, r, b) => b \notin F75111[c][r] \/ Clears(todo, r, b)
             /\ ~Asks(q, 0, r, b) /\ ~Asks(q, 1, r, b) =>
                  (b \in F75111[c][r] <=> b \in was.F75111[c][r])
        /\ auto = AutoAsked(q, was.auto) \/ (AutoLeft(todo) /\ auto = was.auto)
    BY DEF CpInv, CleanInv
  <1> HIDE DEF q, was, c
  <1>4. QED
    BY <1>2, <1>3 DEF q, c

LEMMA OthersUntouched ==
  ASSUME CpInv, call'.q = call.q, call'.before = call.before, UNCHANGED <<F75111, a1>>,
         ComPortAssumption, failures' \in Nat, failures' >= failures
  PROVE  OthersKept'
  <1>1. failures \in Nat
    BY CpTyped DEF CpInv
  <1>2. failures' <= 1 => failures <= 1
    BY <1>1
  <1>3. QED
    BY <1>2 DEF CpInv, OthersKept

LEMMA StepSelect ==
  ASSUME ComPortAssumption, CpInv, set_PCA9548_channel
  PROVE  CpInv'
  <1>1. CpTypeOK /\ Step("select") /\ UNCHANGED <<Present, F75111, a1, auto, stored, data>>
    BY DEF CpInv, set_PCA9548_channel
  <1>2. /\ todo # << >> /\ todo[1].do = "select" /\ todo' = Tail(todo) /\ Head(todo) = todo[1]
        /\ todo[1].card \in 0 .. 2 /\ Left(call.q, todo)
        /\ \A i \in DOMAIN todo' : todo'[i].do \in {"select", "read", "write", "a1", "auto"}
    BY <1>1, Doing, StepFields
  <1>3. PICK ok \in BOOLEAN :
          Succeeds(ok, TRUE) /\ channel' = IF ok THEN Head(todo).card ELSE channel
    BY DEF set_PCA9548_channel
  <1>4. /\ call' \in [q : Request, before : Settings, clean : BOOLEAN]
        /\ call'.q = call.q /\ call'.before = call.before
        /\ call'.clean => call.clean /\ ok
        /\ failures' \in 0 .. MaxFailures /\ failures' >= failures
    BY <1>1, <1>3, Outcome
  <1>5. failures' \in Nat
    BY <1>1, <1>4, CpTyped
  <1>6. CpTypeOK'
    <2>1. channel' \in {0} \cup Cards
      BY <1>1, <1>2, <1>3 DEF CpTypeOK, Cards
    <2>2. D0' \in Byte
      <3>1. D0' = <<{}, {1}, {2}>>[todo[1].card + 1]
        BY <1>2 DEF set_PCA9548_channel
      <3>2. QED
        BY <1>2, <3>1 DEF Byte, Bit
    <2>3. QED
      BY <1>1, <1>2, <1>4, <2>1, <2>2 DEF CpTypeOK, Ports
  <1>7. ChannelInv'
    BY ChannelSelected
  <1>8. CleanInv'
    <2>1. ASSUME call.clean, call'.clean, call.q.Type \in Present
          PROVE  /\ todo' # << >> /\ ~ToSelect(call.q, todo') => channel' = call.q.Type
                 /\ todo' # << >> /\ todo'[1].do = "write" =>
                      data' = F75111[call.q.Type][todo'[1].reg]
      <3>1. call.q.Type \in Cards /\ call.q # Loading
        BY <1>1, <2>1, CardPresent
      <3>2. channel' = todo[1].card
        BY <1>2, <1>3, <1>4, <2>1
      <3>3. todo' # << >> => channel' = call.q.Type
        BY <1>2, <3>1, <3>2, CardStep
      <3>4. todo' # << >> => todo'[1].do # "write"
        BY <1>2, <3>1, TailWrites
      <3>5. QED
        BY <3>3, <3>4
    <2> DEFINE do == "select"
    <2>2. do # "write" /\ do # "auto" /\ Step(do)
      BY <1>1
    <2>3. Present' = Present /\ F75111' = F75111 /\ auto' = auto
      BY <1>1
    <2>4. call'.q = call.q /\ call'.before = call.before /\ (call'.clean => call.clean)
      BY <1>4
    <2> HIDE DEF do
    <2>5. QED
      BY ONLY <2>1, <2>2, <2>3, <2>4, CpInv, CleanKept
  <1>9. OthersKept'
    BY <1>1, <1>4, <1>5, OthersUntouched
  <1>10. QED
    BY <1>1, <1>4, <1>6, <1>7, <1>8, <1>9, CallUnderWay DEF CpInv

LEMMA StepRead ==
  ASSUME ComPortAssumption, CpInv, read_byte
  PROVE  CpInv'
  <1>1. CpTypeOK /\ Step("read") /\ UNCHANGED <<Present, F75111, a1, channel, auto, stored>>
    BY DEF CpInv, read_byte
  <1>2. /\ todo # << >> /\ todo[1].do = "read" /\ todo' = Tail(todo) /\ Head(todo) = todo[1]
        /\ todo[1].reg \in Regs /\ Left(call.q, todo)
        /\ \A i \in DOMAIN todo' : todo'[i].do \in {"select", "read", "write", "a1", "auto"}
    BY <1>1, Doing, StepFields
  <1>3. PICK ok \in BOOLEAN :
          /\ Succeeds(ok, channel \in Present)
          /\ D0' = IF ok THEN F75111[channel][Head(todo).reg] ELSE D0
    BY DEF read_byte
  <1>4. /\ call' \in [q : Request, before : Settings, clean : BOOLEAN]
        /\ call'.q = call.q /\ call'.before = call.before
        /\ call'.clean => call.clean /\ ok
        /\ failures' \in 0 .. MaxFailures /\ failures' >= failures
        /\ ok => channel \in Present
    <2> DEFINE answers == channel \in Present
    <2>1. answers \in BOOLEAN
      OBVIOUS
    <2>2. Succeeds(ok, answers)
      BY <1>3
    <2>3. answers => channel \in Present
      OBVIOUS
    <2> HIDE DEF answers
    <2>4. QED
      BY <1>1, <2>1, <2>2, <2>3, Outcome
  <1>5. failures' \in Nat
    BY <1>1, <1>4, CpTyped
  <1>6. CpTypeOK'
    <2>1. D0' \in Byte
      BY <1>1, <1>2, <1>3, <1>4 DEF CpTypeOK
    <2>2. data' = D0'
      BY DEF read_byte
    <2>3. QED
      BY <1>1, <1>2, <1>4, <2>1, <2>2 DEF CpTypeOK, Ports
  <1>7. ChannelInv'
    BY <1>1, <1>4, <1>5, ChannelKept
  <1>8. CleanInv'
    <2>1. ASSUME call.clean, call'.clean, call.q.Type \in Present
          PROVE  /\ todo' # << >> /\ ~ToSelect(call.q, todo') => channel' = call.q.Type
                 /\ todo' # << >> /\ todo'[1].do = "write" =>
                      data' = F75111[call.q.Type][todo'[1].reg]
      <3>1. call.q.Type \in Cards /\ call.q # Loading
        BY <1>1, <2>1, CardPresent
      <3>2. channel = call.q.Type /\ channel' = channel
        BY <1>1, <1>2, <2>1 DEF CpInv, CleanInv, ToSelect
      <3>3. data' = F75111[call.q.Type][todo[1].reg]
        BY <1>2, <1>3, <1>4, <2>1, <3>2 DEF read_byte
      <3>4. todo' # << >> /\ todo'[1].do = "write" => todo'[1].reg = todo[1].reg
        BY <1>2, <3>1, TailWrites
      <3>5. QED
        BY <3>2, <3>3, <3>4
    <2> DEFINE do == "read"
    <2>2. do # "write" /\ do # "auto" /\ Step(do)
      BY <1>1
    <2>3. Present' = Present /\ F75111' = F75111 /\ auto' = auto
      BY <1>1
    <2>4. call'.q = call.q /\ call'.before = call.before /\ (call'.clean => call.clean)
      BY <1>4
    <2> HIDE DEF do
    <2>5. QED
      BY ONLY <2>1, <2>2, <2>3, <2>4, CpInv, CleanKept
  <1>9. OthersKept'
    BY <1>1, <1>4, <1>5, OthersUntouched
  <1>10. QED
    BY <1>1, <1>4, <1>6, <1>7, <1>8, <1>9, CallUnderWay DEF CpInv

\* A write while nothing has failed: the bits it sets and clears are asked
\* for, and the others of the register are as they were.
LEMMA WriteClean ==
  ASSUME CpInv, Step("write"), call'.q = call.q, call'.before = call.before,
         call.clean, call.q.Type \in Present,
         F75111' = [F75111 EXCEPT ![channel][todo[1].reg] =
                      (data \ todo[1].clear) \cup todo[1].set],
         auto' = auto
  PROVE  LET q == call.q  c == call.q.Type  was == call.before IN
         /\ channel = c /\ (todo' # << >> => todo'[1].do # "write")
         /\ \A k \in Cards \ {c} : F75111'[k] = was.F75111[k]
         /\ \A r \in Regs, b \in Bit :
              /\ Asks(q, 1, r, b) => b \in F75111'[c][r] \/ Sets(todo', r, b)
              /\ Asks(q, 0, r, b) => b \notin F75111'[c][r] \/ Clears(todo', r, b)
              /\ ~Asks(q, 0, r, b) /\ ~Asks(q, 1, r, b) =>
                   (b \in F75111'[c][r] <=> b \in was.F75111[c][r])
         /\ auto = AutoAsked(q, was.auto) \/ (AutoLeft(todo') /\ auto = was.auto)
  <1> DEFINE q == call.q
             c == call.q.Type
             was == call.before
             x == todo[1]
  <1>1. /\ todo # << >> /\ x.do = "write" /\ todo' = Tail(todo)
        /\ x.reg \in Regs /\ Left(q, todo)
    BY Doing, StepFields
  <1>2. c \in Cards /\ q # Loading /\ q \in Request /\ F75111 \in [Cards -> [Regs -> Byte]]
    BY CardPresent DEF CpInv, CpTypeOK
  <1>3. channel = c /\ data = F75111[c][x.reg]
    BY <1>1 DEF CpInv, CleanInv, ToSelect
  <1>4. /\ \A k \in Cards \ {c} : F75111[k] = was.F75111[k]
        /\ \A r \in Regs, b \in Bit :
             /\ Asks(q, 1, r, b) => b \in F75111[c][r] \/ Sets(todo, r, b)
             /\ Asks(q, 0, r, b) => b \notin F75111[c][r] \/ Clears(todo, r, b)
             /\ ~Asks(q, 0, r, b) /\ ~Asks(q, 1, r, b) =>
                  (b \in F75111[c][r] <=> b \in was.F75111[c][r])
        /\ auto = AutoAsked(q, was.auto) \/ (AutoLeft(todo) /\ auto = was.auto)
    BY DEF CpInv, CleanInv
  <1>5. BodyStep(q, x)
    BY <1>1, <1>2, CardStep
  <1>6. /\ \A b \in x.clear : Asks(q, 0, x.reg, b)
        /\ \A b \in x.set : Asks(q, 1, x.reg, b)
    BY <1>1, <1>5 DEF BodyStep
  <1>7. /\ \A r, b : Sets(todo, r, b) => Sets(todo', r, b) \/ (x.reg = r /\ b \in x.set)
        /\ \A r, b : Clears(todo, r, b) => Clears(todo', r, b) \/ (x.reg = r /\ b \in x.clear)
        /\ AutoLeft(todo) => AutoLeft(todo')
        /\ todo' # << >> => todo'[1].do # "write"
    BY <1>1, <1>2, TailWrites
  <1>8. /\ \A k \in Cards \ {c} : F75111'[k] = F75111[k]
        /\ \A r \in Regs \ {x.reg} : F75111'[c][r] = F75111[c][r]
        /\ F75111'[c][x.reg] = (F75111[c][x.reg] \ x.clear) \cup x.set
    BY <1>1, <1>2, <1>3
  <1>9. \A r, b : ~(Asks(q, 0, r, b) /\ Asks(q, 1, r, b))
    BY <1>2, AsksOnce
  <1> HIDE DEF q, c, was, x
  <1>10. ASSUME NEW r \in Regs, NEW b \in Bit
         PROVE  /\ Asks(q, 1, r, b) => b \in F75111'[c][r] \/ Sets(todo', r, b)
                /\ Asks(q, 0, r, b) => b \notin F75111'[c][r] \/ Clears(todo', r, b)
                /\ ~Asks(q, 0, r, b) /\ ~Asks(q, 1, r, b) =>
                     (b \in F75111'[c][r] <=> b \in was.F75111[c][r])
    <2>1. CASE r = x.reg
      BY <2>1, <1>4, <1>6, <1>7, <1>8, <1>9
    <2>2. CASE r # x.reg
      BY <2>2, <1>4, <1>7, <1>8
    <2>3. QED
      BY <2>1, <2>2
  <1>11. \A k \in Cards \ {c} : F75111'[k] = was.F75111[k]
    BY <1>4, <1>8
  <1>12. auto = AutoAsked(q, was.auto) \/ (AutoLeft(todo') /\ auto = was.auto)
    BY <1>4, <1>7
  <1>13. QED
    BY <1>3, <1>7, <1>10, <1>11, <1>12 DEF q, c, was

LEMMA StepWrite ==
  ASSUME ComPortAssumption, CpInv, write_byte
  PROVE  CpInv'
  <1> DEFINE x == todo[1]
             byte == (data \ x.clear) \cup x.set
  <1>1. CpTypeOK /\ Step("write") /\ UNCHANGED <<Present, a1, channel, auto, stored, data>>
    BY DEF CpInv, write_byte
  <1>2. /\ todo # << >> /\ x.do = "write" /\ todo' = Tail(todo) /\ Head(todo) = x
        /\ x.reg \in Regs /\ x.clear \in Byte /\ x.set \in Byte /\ Left(call.q, todo)
        /\ \A i \in DOMAIN todo' : todo'[i].do \in {"select", "read", "write", "a1", "auto"}
    BY <1>1, Doing, StepFields
  <1>3. D0' = byte /\ byte \in Byte
    BY <1>1, <1>2 DEF write_byte, CpTypeOK, Byte
  <1> HIDE DEF x
  <1>4. PICK ok \in BOOLEAN :
          /\ Succeeds(ok, channel \in Present)
          /\ F75111' = IF ok THEN [F75111 EXCEPT ![channel][x.reg] = byte] ELSE F75111
    BY <1>2, <1>3 DEF write_byte
  <1> HIDE DEF byte
  <1>5. /\ call' \in [q : Request, before : Settings, clean : BOOLEAN]
        /\ call'.q = call.q /\ call'.before = call.before
        /\ call'.clean => call.clean /\ ok
        /\ failures' \in 0 .. MaxFailures /\ failures' >= failures
        /\ ok => channel \in Present
    <2> DEFINE answers == channel \in Present
    <2>1. answers \in BOOLEAN
      OBVIOUS
    <2>2. Succeeds(ok, answers)
      BY <1>4
    <2>3. answers => channel \in Present
      OBVIOUS
    <2> HIDE DEF answers
    <2>4. QED
      BY <1>1, <2>1, <2>2, <2>3, Outcome
  <1>6. failures' \in Nat
    BY <1>1, <1>5, CpTyped
  <1>7. channel \in Present => channel \in Cards
    BY <1>1 DEF CpTypeOK
  <1>8. F75111 \in [Cards -> [Regs -> Byte]] /\ F75111' \in [Cards -> [Regs -> Byte]]
    <2>1. F75111 \in [Cards -> [Regs -> Byte]]
      BY <1>1 DEF CpTypeOK
    <2>2. QED
      BY <2>1, <1>2, <1>3, <1>4, <1>5, <1>7
  <1>9. CpTypeOK'
    BY <1>1, <1>2, <1>3, <1>5, <1>8 DEF CpTypeOK, Ports
  <1>10. ChannelInv'
    BY <1>1, <1>5, <1>6, ChannelKept
  <1>11. CleanInv'
    <2> DEFINE q == call.q
               c == call.q.Type
               was == call.before
    <2> SUFFICES ASSUME call'.clean, c \in Present
                 PROVE  /\ \A k \in Cards \ {c} : F75111'[k] = was.F75111[k]
                        /\ todo' # << >> /\ ~ToSelect(q, todo') => channel = c
                        /\ todo' # << >> /\ todo'[1].do = "write" => data' = F75111'[c][todo'[1].reg]
                        /\ \A r \in Regs, b \in Bit :
                             /\ Asks(q, 1, r, b) => b \in F75111'[c][r] \/ Sets(todo', r, b)
                             /\ Asks(q, 0, r, b) => b \notin F75111'[c][r] \/ Clears(todo', r, b)
                             /\ ~Asks(q, 0, r, b) /\ ~Asks(q, 1, r, b) =>
                                  (b \in F75111'[c][r] <=> b \in was.F75111[c][r])
                        /\ auto = AutoAsked(q, was.auto) \/ (AutoLeft(todo') /\ auto = was.auto)
      BY <1>1, <1>5 DEF CleanInv
    <2>1. call.clean /\ F75111' = [F75111 EXCEPT ![channel][x.reg] = byte]
      BY <1>4, <1>5
    <2>2. F75111' = [F75111 EXCEPT ![channel][todo[1].reg] = (data \ todo[1].clear) \cup todo[1].set]
      BY <2>1 DEF byte, x
    <2>3. QED
      BY <2>1, <2>2, <1>1, <1>5, WriteClean
  <1>12. OthersKept'
    <2> SUFFICES ASSUME call.q # Loading, failures' <= 1
                 PROVE  /\ \A k \in Cards, r \in Regs :
                             k # call.q.Type \/ r[1] # ChipOf(call.q) =>
                               F75111'[k][r] = call.before.F75111[k][r]
                        /\ call.q.Type # 0 => a1 = call.before.a1
      BY <1>1, <1>5 DEF OthersKept
    <2>1. failures <= 1
      BY <1>1, <1>5, <1>6, CpTyped
    <2>2. /\ \A k \in Cards, r \in Regs :
               k # call.q.Type \/ r[1] # ChipOf(call.q) => F75111[k][r] = call.before.F75111[k][r]
          /\ call.q.Type # 0 => a1 = call.before.a1
      BY <2>1 DEF CpInv, OthersKept
    <2>3. call.q \in Request /\ Len(todo) # 1
      BY <1>1, <1>2, CpTyped, LastIsSelect DEF x
    <2>4. call.q.Type \in Cards
      BY <1>2, <2>3, OtherStep DEF x
    <2>5. BodyStep(call.q, x) /\ ~AtRest(call.q, todo)
      BY <1>2, <2>4, CardStep DEF x
    <2>6. x.reg[1] = ChipOf(call.q)
      BY <1>2, <2>5 DEF BodyStep
    <2>7. channel \in {0, call.q.Type}
      BY <2>1, <2>5 DEF CpInv, ChannelInv
    <2>8. CASE ok
      <3>1. channel = call.q.Type /\ channel \in Cards
        BY <2>7, <2>8, <1>5, <1>7 DEF Cards
      <3>2. F75111' = [F75111 EXCEPT ![channel][x.reg] = byte]
        BY <2>8, <1>4
      <3>3. \A k \in Cards, r \in Regs :
              k # call.q.Type \/ r[1] # ChipOf(call.q) => F75111'[k][r] = F75111[k][r]
        BY <3>1, <3>2, <2>6, <1>2, <1>8
      <3>4. QED
        BY <3>3, <2>2
    <2>9. CASE ~ok
      BY <2>2, <2>9, <1>4
    <2>10. QED
      BY <2>8, <2>9
  <1>13. QED
    BY <1>1, <1>5, <1>9, <1>10, <1>11, <1>12, CallUnderWay DEF CpInv

LEMMA StepA1 ==
  ASSUME ComPortAssumption, CpInv, write_SIO_reg
  PROVE  CpInv'
  <1>1. /\ CpTypeOK /\ Step("a1")
        /\ UNCHANGED <<Present, F75111, channel, D0, auto, stored, data, call, failures>>
    BY DEF CpInv, write_SIO_reg
  <1>2. /\ todo # << >> /\ todo[1].do = "a1" /\ todo' = Tail(todo) /\ Left(call.q, todo)
        /\ \A i \in DOMAIN todo' : todo'[i].do \in {"select", "read", "write", "a1", "auto"}
    BY <1>1, Doing
  <1>3. call.q \in Request /\ failures \in Nat
    BY <1>1, CpTyped
  <1>4. a1' \in Byte
    <2> DEFINE q == call.q
               level == ModeLevels(q.mode) \o <<q.termination>>
               bits(v) == {3 * q.port + i - 1 : i \in {j \in 1 .. 3 : level[j] = v}}
               term == 3 * q.port + 2
    <2>1. q.port \in 0 .. 7
      BY <1>3 DEF Request
    <2>2. a1' = IF q.port > 1 THEN a1
                ELSE IF q.mode = 3 THEN (a1 \ {term}) \cup (IF q.termination = 1 THEN {term} ELSE {})
                ELSE (a1 \ bits(0)) \cup bits(1)
      BY DEF write_SIO_reg
    <2>3. a1 \in Byte
      BY <1>1 DEF CpTypeOK
    <2> HIDE DEF level
    <2>4. q.port <= 1 => bits(1) \subseteq 0 .. 7 /\ term \in 0 .. 7
      BY <2>1
    <2> HIDE DEF bits, term
    <2>5. CASE q.port > 1
      BY <2>2, <2>3, <2>5
    <2>6. CASE q.port <= 1
      BY <2>1, <2>2, <2>3, <2>4, <2>6 DEF Byte, Bit
    <2>7. QED
      BY <2>1, <2>5, <2>6
  <1>5. CpTypeOK'
    BY <1>1, <1>2, <1>4 DEF CpTypeOK, Ports
  <1>6. ChannelInv'
    BY <1>1, <1>3, ChannelKept
  <1>7. call.q.Type \notin Cards
    BY <1>2, CardStep
  <1>8. CleanInv'
    BY <1>1, <1>7 DEF CleanInv, CpTypeOK
  <1>9. OthersKept'
    <2>1. Len(todo) # 1
      BY <1>2, LastIsSelect
    <2>2. call.q # Loading => call.q.Type = 0
      BY <1>2, <1>3, <1>7, <2>1, OtherStep
    <2>3. QED
      BY <1>1, <2>2 DEF CpInv, OthersKept
  <1>10. QED
    BY <1>1, <1>5, <1>6, <1>8, <1>9, CallUnderWay DEF CpInv

\* Whichever SMI is raised, it is the one for the card addressed.
LEMMA RightSmi ==
  ASSUME CpTypeOK, SetRS485AutoEn, todo[1].En = (call.q.mode # 0), Head(todo) = todo[1],
         call.q.Type \in Present, call.q.mode # 3,
         NEW was, auto = AutoAsked(call.q, was) \/ auto = was
  PROVE  auto' = AutoAsked(call.q, was)
  <1> DEFINE q == call.q
             n == call.q.port
             En == q.mode # 0
  <1>1. auto' = IF Present = Cards /\ q.Type = 1
                  THEN Smi(IF En THEN \h72 ELSE \h73, n)
                  ELSE Smi(IF En THEN \h70 ELSE \h71, n)
    BY DEF SetRS485AutoEn
  <1>2. Present \subseteq Cards /\ Present # {} /\ q.Type \in Cards
    BY DEF CpTypeOK
  <1>3. auto' = IF En THEN auto \cup {<<q.Type, n>>} ELSE auto \ {<<q.Type, n>>}
    <2>1. CASE Present = Cards /\ q.Type = 1
      BY <2>1, <1>1, <1>2 DEF Smi
    <2>2. CASE Present = Cards /\ q.Type = 2
      BY <2>2, <1>1, <1>2 DEF Smi
    <2>3. CASE Present # Cards
      <3>1. Present = {q.Type}
        BY <2>3, <1>2 DEF Cards
      <3>2. (CHOOSE c \in Present : TRUE) = q.Type
        BY <3>1
      <3>3. ASSUME NEW number, number \notin {\h72, \h73}
            PROVE  Smi(number, n) = IF number \in {\h70, \h72}
                                      THEN auto \cup {<<q.Type, n>>} ELSE auto \ {<<q.Type, n>>}
        BY <2>3, <3>2, <3>3, <1>2, Zenon DEF Smi
      <3>4. auto' = Smi(IF En THEN \h70 ELSE \h71, n)
        BY <2>3, <1>1
      <3> HIDE DEF q, n, En
      <3>5. CASE En
        <4>1. auto' = Smi(\h70, n)
          BY <3>4, <3>5
        <4>2. Smi(\h70, n) = auto \cup {<<q.Type, n>>}
          BY <3>3
        <4>3. QED
          BY <4>1, <4>2, <3>5
      <3>6. CASE ~En
        <4>1. auto' = Smi(\h71, n)
          BY <3>4, <3>6
        <4>2. Smi(\h71, n) = auto \ {<<q.Type, n>>}
          BY <3>3
        <4>3. QED
          BY <4>1, <4>2, <3>6
      <3>7. QED
        BY <3>5, <3>6
    <2>4. QED
      BY <2>1, <2>2, <2>3, <1>2 DEF Cards
  <1>4. QED
    BY <1>3 DEF AutoAsked

LEMMA StepAuto ==
  ASSUME ComPortAssumption, CpInv, SetRS485AutoEn
  PROVE  CpInv'
  <1>1. /\ CpTypeOK /\ Step("auto")
        /\ UNCHANGED <<Present, F75111, a1, channel, D0, stored, data, call, failures>>
    BY DEF CpInv, SetRS485AutoEn
  <1>2. /\ todo # << >> /\ todo[1].do = "auto" /\ todo' = Tail(todo) /\ Head(todo) = todo[1]
        /\ Left(call.q, todo)
        /\ \A i \in DOMAIN todo' : todo'[i].do \in {"select", "read", "write", "a1", "auto"}
    BY <1>1, Doing
  <1>3. call.q \in Request /\ failures \in Nat
    BY <1>1, CpTyped
  <1>4. auto' \subseteq Cards \X (0 .. 7)
    <2>1. ASSUME NEW number PROVE Smi(number, call.q.port) \subseteq Cards \X (0 .. 7)
      <3>1. call.q.port \in 0 .. 7 /\ auto \subseteq Cards \X (0 .. 7) /\ Present \subseteq Cards
        BY <1>1, <1>3 DEF CpTypeOK, Request
      <3>2. Present # {} => (CHOOSE c \in Present : TRUE) \in Cards
        BY <3>1
      <3> DEFINE card == IF number \in {\h72, \h73} THEN 1
                         ELSE IF Present = Cards THEN 2 ELSE CHOOSE c \in Present : TRUE
      <3>3. Present # {} => card \in Cards
        BY <3>2 DEF Cards
      <3>4. Smi(number, call.q.port) =
              IF Present = {} THEN auto
              ELSE IF number \in {\h70, \h72} THEN auto \cup {<<card, call.q.port>>}
              ELSE auto \ {<<card, call.q.port>>}
        BY DEF Smi
      <3> HIDE DEF card
      <3>5. QED
        BY <3>1, <3>3, <3>4
    <2>2. \E number : auto' = Smi(number, call.q.port)
      BY DEF SetRS485AutoEn
    <2>3. QED
      BY <2>1, <2>2
  <1>5. CpTypeOK'
    BY <1>1, <1>2, <1>4 DEF CpTypeOK, Ports
  <1>6. ChannelInv'
    BY <1>1, <1>3, ChannelKept
  <1>7. CleanInv'
    <2> DEFINE q == call.q
               c == call.q.Type
               was == call.before
    <2> SUFFICES ASSUME call.clean, c \in Present
                 PROVE  /\ \A k \in Cards \ {c} : F75111[k] = was.F75111[k]
                        /\ todo' # << >> /\ ~ToSelect(q, todo') => channel = c
                        /\ todo' # << >> /\ todo'[1].do = "write" => data = F75111[c][todo'[1].reg]
                        /\ \A r \in Regs, b \in Bit :
                             /\ Asks(q, 1, r, b) => b \in F75111[c][r] \/ Sets(todo', r, b)
                             /\ Asks(q, 0, r, b) => b \notin F75111[c][r] \/ Clears(todo', r, b)
                             /\ ~Asks(q, 0, r, b) /\ ~Asks(q, 1, r, b) =>
                                  (b \in F75111[c][r] <=> b \in was.F75111[c][r])
                        /\ auto' = AutoAsked(q, was.auto)
      BY <1>1 DEF CleanInv
    <2>1. c \in Cards /\ q # Loading
      BY <1>1, CardPresent
    <2>2. /\ \A k \in Cards \ {c} : F75111[k] = was.F75111[k]
          /\ todo # << >> /\ ~ToSelect(q, todo) => channel = c
          /\ \A r \in Regs, b \in Bit :
               /\ Asks(q, 1, r, b) => b \in F75111[c][r] \/ Sets(todo, r, b)
               /\ Asks(q, 0, r, b) => b \notin F75111[c][r] \/ Clears(todo, r, b)
               /\ ~Asks(q, 0, r, b) /\ ~Asks(q, 1, r, b) =>
                    (b \in F75111[c][r] <=> b \in was.F75111[c][r])
          /\ auto = AutoAsked(q, was.auto) \/ auto = was.auto
      BY DEF CpInv, CleanInv
    <2>3. channel = c
      BY <1>2, <2>2 DEF ToSelect
    <2>4. BodyStep(q, todo[1])
      BY <1>2, <2>1, CardStep
    <2>5. q.mode # 3 /\ todo[1].En = (q.mode # 0)
      BY <1>2, <2>4 DEF BodyStep
    <2>6. auto' = AutoAsked(q, was.auto)
      BY <1>1, <1>2, <2>2, <2>5, RightSmi
    <2>7. /\ \A r, b : Sets(todo, r, b) => Sets(todo', r, b)
          /\ \A r, b : Clears(todo, r, b) => Clears(todo', r, b)
          /\ todo' # << >> => todo'[1].do # "write"
      BY <1>2, <2>1, TailWrites
    <2> HIDE DEF q, c, was
    <2>8. QED
      BY <2>2, <2>3, <2>6, <2>7
  <1>8. OthersKept'
    BY <1>1 DEF CpInv, OthersKept
  <1>9. QED
    BY <1>1, <1>5, <1>6, <1>7, <1>8, CallUnderWay DEF CpInv

LEMMA NoWrites ==
  /\ \A r, b : ~Sets(<< >>, r, b)
  /\ \A r, b : ~Clears(<< >>, r, b)
  /\ ~AutoLeft(<< >>)
  BY DEF Sets, Clears, AutoLeft

LEMMA StepBegin ==
  ASSUME ComPortAssumption, CpInv, Begin
  PROVE  CpInv'
  <1>1. /\ CpTypeOK /\ todo = << >>
        /\ UNCHANGED <<Present, F75111, a1, channel, D0, auto, data, failures>>
    BY DEF CpInv, Begin
  <1>2. PICK q \in Requests :
          /\ stored' = [stored EXCEPT ![<<q.Type, q.port>>] = <<q.mode, q.termination>>]
          /\ todo' = SetComPort(q)
          /\ call' = [q |-> q, before |-> Now, clean |-> TRUE]
    BY DEF Begin
  <1>3. q \in Request
    BY DEF ComPortAssumption
  <1>4. q.Type \in Cards =>
          /\ Left(q, todo') /\ todo' # << >> /\ ToSelect(q, todo')
          /\ \A r, b : Asks(q, 1, r, b) => Sets(todo', r, b)
          /\ \A r, b : Asks(q, 0, r, b) => Clears(todo', r, b)
          /\ q.mode # 3 => AutoLeft(todo')
    BY <1>2, <1>3, CardCall
  <1>5. Left(q, todo')
    BY <1>2, <1>3, <1>4, OtherCall
  <1>6. /\ Now \in Settings /\ Now.F75111 = F75111 /\ Now.a1 = a1 /\ Now.auto = auto
    BY <1>1 DEF CpTypeOK, Now, Settings
  <1>7. /\ call' \in [q : Request, before : Settings, clean : BOOLEAN]
        /\ call'.q = q /\ call'.before = Now
    BY <1>2, <1>3, <1>6
  <1>8. /\ stored' \in [Ports -> {<< >>} \cup ((0 .. 3) \X {0, 1})]
        /\ stored'[<<q.Type, q.port>>] = <<q.mode, q.termination>>
    <2>1. <<q.Type, q.port>> \in Ports
      BY DEF Ports
    <2>2. <<q.mode, q.termination>> \in (0 .. 3) \X {0, 1}
      BY <1>3 DEF Request
    <2>3. stored \in [Ports -> {<< >>} \cup ((0 .. 3) \X {0, 1})]
      BY <1>1 DEF CpTypeOK
    <2>4. QED
      BY <2>1, <2>2, <2>3, <1>2
  <1>9. \A i \in DOMAIN todo' : todo'[i].do \in {"select", "read", "write", "a1", "auto"}
    <2>1. todo' \in Seq(CpStep)
      BY <1>5 DEF Left
    <2>2. \A i \in DOMAIN todo' : todo'[i] \in CpStep
      BY <2>1
    <2>3. QED
      BY <2>2, StepFields
  <1>10. CpTypeOK'
    BY <1>1, <1>7, <1>8, <1>9 DEF CpTypeOK, Ports
  <1>11. ChannelInv'
    <2> SUFFICES ASSUME failures <= 1
                 PROVE  IF AtRest(q, todo') THEN channel # 0 => failures = 1
                        ELSE q # Loading => channel \in {0, q.Type}
      BY <1>1, <1>7 DEF ChannelInv
    <2>1. channel # 0 => failures = 1
      BY <1>1 DEF CpInv, ChannelInv, AtRest
    <2>2. q # Loading => AtRest(q, todo')
      BY <1>4 DEF AtRest
    <2>3. QED
      BY <2>1, <2>2
  <1>12. CleanInv'
    <2> DEFINE c == q.Type
    <2> SUFFICES ASSUME c \in Present
                 PROVE  /\ \A k \in Cards \ {c} : F75111[k] = Now.F75111[k]
                        /\ todo' # << >> /\ ~ToSelect(q, todo') => channel = c
                        /\ todo' # << >> /\ todo'[1].do = "write" => data = F75111[c][todo'[1].reg]
                        /\ \A r \in Regs, b \in Bit :
                             /\ Asks(q, 1, r, b) => b \in F75111[c][r] \/ Sets(todo', r, b)
                             /\ Asks(q, 0, r, b) => b \notin F75111[c][r] \/ Clears(todo', r, b)
                             /\ ~Asks(q, 0, r, b) /\ ~Asks(q, 1, r, b) =>
                                  (b \in F75111[c][r] <=> b \in Now.F75111[c][r])
                        /\ auto = AutoAsked(q, Now.auto) \/ (AutoLeft(todo') /\ auto = Now.auto)
      BY <1>1, <1>7 DEF CleanInv
    <2>1. c \in Cards
      BY <1>1 DEF CpTypeOK
    <2>2. todo'[1].do # "write"
      BY <2>1, <1>4 DEF ToSelect
    <2>3. auto = AutoAsked(q, Now.auto) \/ (AutoLeft(todo') /\ auto = Now.auto)
      BY <2>1, <1>4, <1>6 DEF AutoAsked
    <2>4. QED
      BY <2>1, <2>2, <2>3, <1>4, <1>6
  <1>13. OthersKept'
    BY <1>1, <1>6, <1>7 DEF OthersKept
  <1>14. QED
    BY <1>5, <1>7, <1>8, <1>10, <1>11, <1>12, <1>13 DEF CpInv

LEMMA LoadingInv ==
  ASSUME ComPortAssumption, CpInit
  PROVE  CpInv
  <1>1. /\ Present \in SUBSET Cards /\ channel = 0 /\ D0 = {} /\ data = {}
        /\ auto = {} /\ stored = [p \in Ports |-> << >>]
        /\ todo = cp_gpio_init(Present)
        /\ call = [q |-> Loading, before |-> Now, clean |-> TRUE]
        /\ failures = 0
    BY DEF CpInit
  <1>2. F75111 \in [Cards -> [Regs -> Byte]] /\ a1 \in Byte
    BY DEF CpInit, ComPortAssumption
  <1>3. Left(Loading, todo)
    BY <1>1, LoadingSteps
  <1>4. \A i \in DOMAIN todo : todo[i].do \in {"select", "read", "write", "a1", "auto"}
    <2>1. todo \in Seq(CpStep)
      BY <1>3 DEF Left
    <2>2. \A i \in DOMAIN todo : todo[i] \in CpStep
      BY <2>1
    <2>3. QED
      BY <2>2, StepFields
  <1>5. Loading \in Request
    BY DEF Loading, Request
  <1>6. Now \in Settings
    BY <1>1, <1>2 DEF Now, Settings
  <1>7. CpTypeOK
    BY <1>1, <1>2, <1>4, <1>5, <1>6 DEF CpTypeOK, ComPortAssumption, Byte
  <1>8. call.q = Loading /\ call.q.Type \notin Cards
    BY <1>1 DEF Loading, Cards
  <1>9. ChannelInv
    BY <1>1, <1>8 DEF ChannelInv
  <1>10. CleanInv
    BY <1>1, <1>8 DEF CleanInv
  <1>11. OthersKept
    BY <1>8 DEF OthersKept
  <1>12. QED
    BY <1>3, <1>7, <1>8, <1>9, <1>10, <1>11 DEF CpInv

LEMMA CpStepInv ==
  ASSUME ComPortAssumption, CpInv, [CpNext]_cpVars
  PROVE  CpInv'
  <1>1. CASE UNCHANGED cpVars
    BY <1>1 DEF cpVars, CpInv, CpTypeOK, ChannelInv, CleanInv, OthersKept, Ports
  <1>2. QED
    BY <1>1, StepBegin, StepSelect, StepRead, StepWrite, StepA1, StepAuto DEF CpNext

LEMMA CpInvariance == CpSpec => []CpInv
  <1>1. CpInit => CpInv
    BY ComPortAssumption, LoadingInv
  <1>2. CpInv /\ [CpNext]_cpVars => CpInv'
    BY ComPortAssumption, CpStepInv
  <1>3. QED
    BY <1>1, <1>2, PTL DEF CpSpec

-----------------------------------------------------------------------------
(* What the invariant says of a port's pins. *)

\* The pins asked for are those of the port.
LEMMA AsksPin ==
  ASSUME NEW q \in Request, NEW v, NEW m \in 0 .. 23
  PROVE  Asks(q, v, RegOf(Pin(m)), Pin(m).bit) <=>
           /\ m \in 3 * q.port .. 3 * q.port + 2
           /\ IF m = 3 * q.port + 2 THEN v = q.termination
              ELSE q.mode # 3 /\ v = ModeLevels(q.mode)[m - 3 * q.port + 1]
  <1> DEFINE At(n) == IF n = 3 * q.port + 2 THEN v = q.termination
                      ELSE q.mode # 3 /\ v = ModeLevels(q.mode)[n - 3 * q.port + 1]
  <1>1. ASSUME Asks(q, v, RegOf(Pin(m)), Pin(m).bit)
        PROVE  m \in 3 * q.port .. 3 * q.port + 2 /\ At(m)
    <2>1. PICK n \in 3 * q.port .. 3 * q.port + 2 :
            RegOf(Pin(n)) = RegOf(Pin(m)) /\ Pin(n).bit = Pin(m).bit /\ At(n)
      BY <1>1 DEF Asks
    <2>2. n = m
      BY <2>1, PinsOfPort, PinsDiffer
    <2>3. QED
      BY <2>1, <2>2
  <1>2. ASSUME m \in 3 * q.port .. 3 * q.port + 2, At(m)
        PROVE  Asks(q, v, RegOf(Pin(m)), Pin(m).bit)
    BY <1>2 DEF Asks
  <1>3. QED
    BY <1>1, <1>2

LEMMA ThreeLevels ==
  ASSUME NEW x, NEW y, NEW z
  PROVE  <<x, y>> \o <<z>> = <<x, y, z>>
  <1> DEFINE S == {x, y, z}
  <1>1. <<x, y>> \in Seq(S) /\ <<z>> \in Seq(S) /\ <<x, y, z>> \in Seq(S)
    OBVIOUS
  <1> DEFINE s == <<x, y>>
             u == <<z>>
             t == <<x, y, z>>
  <1>2. Len(s) = 2 /\ Len(u) = 1 /\ Len(t) = 3
    OBVIOUS
  <1>3. s[1] = x /\ s[2] = y /\ u[1] = z /\ t[1] = x /\ t[2] = y /\ t[3] = z
    OBVIOUS
  <1>4. s \in Seq(S) /\ u \in Seq(S) /\ t \in Seq(S)
    BY <1>1
  <1> HIDE DEF s, u, t, S
  <1>5. /\ s \o u \in Seq(S) /\ Len(s \o u) = Len(s) + Len(u)
        /\ \A i \in 1 .. Len(s) + Len(u) : (s \o u)[i] = IF i <= Len(s) THEN s[i] ELSE u[i - Len(s)]
    BY <1>4, ConcatProperties
  <1>6. Len(s \o u) = 3 /\ \A i \in 1 .. 3 : (s \o u)[i] = t[i]
    BY <1>2, <1>3, <1>5
  <1>7. s \o u = t
    BY <1>2, <1>4, <1>5, <1>6, SeqEqual
  <1>8. QED
    BY <1>7 DEF s, u, t

LEMMA InvPort == ComPortAssumption /\ CpInv => PortAsAsked
  <1> DEFINE q == call.q
             c == call.q.Type
             p == call.q.port
             was == call.before
  <1> SUFFICES ASSUME ComPortAssumption, CpInv, todo = << >>, call.clean, c \in Present
               PROVE  /\ \A k \in Cards, n \in 0 .. 7 :
                           Levels(F75111, k, 3 * n) = IF <<k, n>> = <<c, p>>
                                                        THEN Asked(q, Levels(was.F75111, k, 3 * n))
                                                        ELSE Levels(was.F75111, k, 3 * n)
                      /\ stored[<<c, p>>] = <<q.mode, q.termination>>
                      /\ auto = IF q.mode = 3 THEN was.auto
                                ELSE IF q.mode = 0 THEN was.auto \ {<<c, p>>}
                                ELSE was.auto \cup {<<c, p>>}
    BY DEF PortAsAsked
  <1>1. CpTypeOK /\ c \in Cards /\ q \in Request
    BY CardPresent, CpTyped DEF CpInv
  <1>2. stored[<<c, p>>] = <<q.mode, q.termination>>
    BY <1>1 DEF CpInv
  <1>3. /\ \A k \in Cards \ {c} : F75111[k] = was.F75111[k]
        /\ \A r \in Regs, b \in Bit :
             /\ Asks(q, 1, r, b) => b \in F75111[c][r]
             /\ Asks(q, 0, r, b) => b \notin F75111[c][r]
             /\ ~Asks(q, 0, r, b) /\ ~Asks(q, 1, r, b) =>
                  (b \in F75111[c][r] <=> b \in was.F75111[c][r])
        /\ auto = AutoAsked(q, was.auto)
    BY NoWrites DEF CpInv, CleanInv
  <1>4. auto = IF q.mode = 3 THEN was.auto
               ELSE IF q.mode = 0 THEN was.auto \ {<<c, p>>} ELSE was.auto \cup {<<c, p>>}
    BY <1>3 DEF AutoAsked
  <1>5. ASSUME NEW k \in Cards \ {c}, NEW n
        PROVE  Levels(F75111, k, n) = Levels(was.F75111, k, n)
    BY <1>3 DEF Levels, Level
  <1>6. p \in 0 .. 7 /\ q.mode \in 0 .. 3 /\ q.termination \in {0, 1}
    BY <1>1 DEF Request
  <1>7. ASSUME NEW m \in 0 .. 23, NEW v \in {0, 1}, Asks(q, v, RegOf(Pin(m)), Pin(m).bit)
        PROVE  Level(F75111, c, m) = v
    BY <1>3, <1>7, PinType DEF Level
  <1>8. ASSUME NEW m \in 0 .. 23, \A v : ~Asks(q, v, RegOf(Pin(m)), Pin(m).bit)
        PROVE  Level(F75111, c, m) = Level(was.F75111, c, m)
    BY <1>3, <1>8, PinType DEF Level
  <1> HIDE DEF q, c, p, was
  <1>9. ASSUME NEW n \in 0 .. 7, n # p
        PROVE  Levels(F75111, c, 3 * n) = Levels(was.F75111, c, 3 * n)
    <2>1. ASSUME NEW m \in 3 * n .. 3 * n + 2
          PROVE  Level(F75111, c, m) = Level(was.F75111, c, m)
      <3>1. m \in 0 .. 23 /\ m \notin 3 * p .. 3 * p + 2
        BY <1>6, <1>9
      <3>2. QED
        BY <3>1, <1>1, <1>8, AsksPin DEF q, p
    <2>2. 3 * n \in 3 * n .. 3 * n + 2 /\ 3 * n + 1 \in 3 * n .. 3 * n + 2 /\ 3 * n + 2 \in 3 * n .. 3 * n + 2
      OBVIOUS
    <2>3. QED
      BY <2>1, <2>2 DEF Levels
  <1>10. Levels(F75111, c, 3 * p) = Asked(q, Levels(was.F75111, c, 3 * p))
    <2> DEFINE m == 3 * p
    <2>1. /\ m \in 0 .. 23 /\ m + 1 \in 0 .. 23 /\ m + 2 \in 0 .. 23
          /\ m \in m .. m + 2 /\ m + 1 \in m .. m + 2 /\ m + 2 \in m .. m + 2
          /\ m # m + 2 /\ m + 1 # m + 2 /\ m - m + 1 = 1 /\ m + 1 - m + 1 = 2
      BY <1>6
    <2>2. \A v, i : i \in 0 .. 23 =>
            (Asks(q, v, RegOf(Pin(i)), Pin(i).bit) <=>
               /\ i \in m .. m + 2
               /\ IF i = m + 2 THEN v = q.termination
                  ELSE q.mode # 3 /\ v = ModeLevels(q.mode)[i - m + 1])
      BY <1>1, AsksPin DEF p, q
    <2> HIDE DEF m
    <2>3. Level(F75111, c, m + 2) = q.termination
      <3>1. Asks(q, q.termination, RegOf(Pin(m + 2)), Pin(m + 2).bit)
        BY <2>1, <2>2
      <3>2. QED
        BY <3>1, <2>1, <1>6, <1>7
    <2>4. CASE q.mode = 3
      <3>1. ASSUME NEW i \in 0 .. 23, i # m + 2
            PROVE  Level(F75111, c, i) = Level(was.F75111, c, i)
        <4>1. \A v : ~Asks(q, v, RegOf(Pin(i)), Pin(i).bit)
          BY <3>1, <2>2, <2>4
        <4>2. QED
          BY <4>1, <1>8
      <3>2. /\ Level(F75111, c, m) = Level(was.F75111, c, m)
            /\ Level(F75111, c, m + 1) = Level(was.F75111, c, m + 1)
        BY <2>1, <3>1
      <3>3. Asked(q, Levels(was.F75111, c, m)) =
              <<Level(was.F75111, c, m), Level(was.F75111, c, m + 1)>> \o <<q.termination>>
        BY <2>4 DEF Asked, Levels
      <3>4. Asked(q, Levels(was.F75111, c, m)) =
              <<Level(was.F75111, c, m), Level(was.F75111, c, m + 1), q.termination>>
        BY <3>3, ThreeLevels
      <3>5. Levels(F75111, c, m) =
              <<Level(was.F75111, c, m), Level(was.F75111, c, m + 1), q.termination>>
        BY <3>2, <2>3 DEF Levels
      <3>6. QED
        BY <3>4, <3>5 DEF m
    <2>5. CASE q.mode # 3
      <3>1. ModeLevels(q.mode)[1] \in {0, 1} /\ ModeLevels(q.mode)[2] \in {0, 1}
        BY <2>5, <1>6, Levels01
      <3>2. Level(F75111, c, m) = ModeLevels(q.mode)[1]
        <4>1. Asks(q, ModeLevels(q.mode)[1], RegOf(Pin(m)), Pin(m).bit)
          BY <2>1, <2>2, <2>5
        <4>2. QED
          BY <4>1, <3>1, <2>1, <1>7
      <3>3. Level(F75111, c, m + 1) = ModeLevels(q.mode)[2]
        <4> DEFINE i == m + 1
        <4>1. i \in 0 .. 23 /\ i \in m .. m + 2 /\ i # m + 2 /\ i - m + 1 = 2
          BY <2>1
        <4> HIDE DEF i
        <4>2. Asks(q, ModeLevels(q.mode)[2], RegOf(Pin(i)), Pin(i).bit)
          BY <4>1, <2>2, <2>5
        <4>3. Level(F75111, c, i) = ModeLevels(q.mode)[2]
          BY <4>1, <4>2, <3>1, <1>7
        <4>4. QED
          BY <4>3 DEF i
      <3>4. ModeLevels(q.mode) = <<ModeLevels(q.mode)[1], ModeLevels(q.mode)[2]>>
        BY <2>5, <1>6 DEF ModeLevels
      <3>5. Asked(q, Levels(was.F75111, c, m)) =
              <<ModeLevels(q.mode)[1], ModeLevels(q.mode)[2]>> \o <<q.termination>>
        BY <3>4, <2>5 DEF Asked
      <3>6. Asked(q, Levels(was.F75111, c, m)) =
              <<ModeLevels(q.mode)[1], ModeLevels(q.mode)[2], q.termination>>
        BY <3>5, ThreeLevels
      <3>7. Levels(F75111, c, m) =
              <<ModeLevels(q.mode)[1], ModeLevels(q.mode)[2], q.termination>>
        BY <3>2, <3>3, <2>3 DEF Levels
      <3>8. QED
        BY <3>6, <3>7 DEF m
    <2>6. QED
      BY <2>4, <2>5 DEF m
  <1>11. \A k \in Cards, n \in 0 .. 7 :
           Levels(F75111, k, 3 * n) = IF <<k, n>> = <<c, p>>
                                        THEN Asked(q, Levels(was.F75111, k, 3 * n))
                                        ELSE Levels(was.F75111, k, 3 * n)
    BY <1>5, <1>9, <1>10
  <1>12. QED
    BY <1>2, <1>4, <1>11 DEF q, c, p, was

-----------------------------------------------------------------------------
\* The COM port driver's variables have their types: no write leaves a byte
\* that is none, whatever has failed before.
THEOREM CpTypeCorrect == CpSpec => []CpTypeOK
  <1>1. CpInv => CpTypeOK
    BY DEF CpInv
  <1>2. QED
    BY <1>1, CpInvariance, PTL

\* A call none of whose transactions fails leaves its port as asked and as
\* stored, and every other port of both cards as it was, whichever registers
\* it shares with them.
THEOREM PortCorrect == CpSpec => []PortAsAsked
  <1>1. CpInv => PortAsAsked
    BY ComPortAssumption, InvPort
  <1>2. QED
    BY <1>1, CpInvariance, PTL

\* While no more than one transaction has failed, no call changes the other
\* card or the chip its port is not on.
THEOREM OthersCorrect == CpSpec => []OthersKept
  <1>1. CpInv => OthersKept
    BY DEF CpInv
  <1>2. QED
    BY <1>1, CpInvariance, PTL
=============================================================================
