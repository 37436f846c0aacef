---------------------------- MODULE PchIo_proofs ----------------------------
(***************************************************************************)
(* Proofs about the tools on the PCH's pins, for any number of processes:  *)
(* the types, the pattern that dio_tst reads back, and how long an ioctl   *)
(* of digital IO holds the others up.                                      *)
(***************************************************************************)
EXTENDS PchIo, TLAPS

PhasesOf(t) ==
  CASE t = "dio" -> {"idle", "set", "setting", "get", "getting", "readback"}
    [] t = "cp" -> {"idle", "look", "ask", "clear", "told"}
    [] t = "btn" -> {"idle", "poll", "told"}

\* A device is open exactly while one process, and no other, runs its tool.
Guarded ==
  /\ \A p \in Procs : ph[p] \in PhasesOf(ToolOf[p])
  /\ \A p \in Procs : ph[p] # "idle" => Device_Open[ToolOf[p]] = 1
  /\ \A t \in Tools : (\A p \in Procs : ToolOf[p] = t => ph[p] = "idle") => Device_Open[t] = 0
  /\ \A p, q \in Procs : ph[p] # "idle" /\ ph[q] # "idle" /\ ToolOf[p] = ToolOf[q] => p = q

\* How far dio_tst has got with its pattern: the pins before "pin" are done.
DioAt(p) ==
  /\ ph[p] = "setting" =>
       /\ value[p] = Test[round[p]]
       /\ \A k \in Pins : k < pin => GPO[k] = Test[round[p]][k]
  /\ ph[p] = "get" => GPO = Test[round[p]]
  /\ ph[p] = "getting" =>
       /\ GPO = Test[round[p]]
       /\ \A k \in Pins : k < pin => value[p][k] = Test[round[p]][k]
  /\ ph[p] = "readback" => value[p] = Test[round[p]] /\ GPO = value[p]

IInv ==
  /\ TypeOK /\ Guarded
  /\ open => intruder = 1
  /\ \A p \in Procs : DioAt(p)

-----------------------------------------------------------------------------
(* Facts about the patterns. *)

LEMMA TestPatterns == Len(Test) = 4 /\ \A r \in 1 .. 4 : Test[r] \in Patterns
  <1>1. High \in Patterns /\ Low \in Patterns
    BY DEF High, Low, Patterns
  <1>2. \A k \in Pins : (k + 1) % 2 \in {0, 1} /\ k % 2 \in {0, 1}
    BY DEF Pins
  <1>3. [k \in Pins |-> (k + 1) % 2] \in Patterns /\ [k \in Pins |-> k % 2] \in Patterns
    BY <1>2 DEF Patterns
  <1> QED
    BY <1>1, <1>3 DEF Test

LEMMA BitPatterns == \A b \in {0, 1} : Bit(b) \in Patterns
  BY DEF Bit, Low, Patterns, Pins

\* Two patterns with the same pins are the same.
LEMMA SamePattern ==
  \A x, y \in Patterns : (\A k \in Pins : x[k] = y[k]) => x = y
  BY DEF Patterns

LEMMA ToolTypes == ToolOf \in [Procs -> Tools]
  BY PchIoAssumption

LEMMA InitInv == Init => IInv
  <1> SUFFICES ASSUME Init PROVE IInv
    OBVIOUS
  <1>1. GPO \in Patterns /\ Low \in Patterns
    BY DEF Init, Low, High, Patterns
  <1>2. Device_Open \in [Tools -> {0, 1}] /\ round \in [Procs -> 1 .. 4]
    BY DEF Init
  <1>3. ph = [p \in Procs |-> "idle"]
    BY DEF Init
  <1>6. value \in [Procs -> Patterns] /\ pin \in Pins
    BY <1>1 DEF Init, Pins
  <1>7. intruder \in {0, 1} /\ line \in {0, 1} /\ open \in BOOLEAN
    BY DEF Init
  <1>8. ph \in [Procs -> {"idle", "set", "setting", "get", "getting", "readback", "look", "ask",
                          "clear", "told", "poll"}]
    BY <1>3
  <1>9. c \in [Procs -> {"y", "other"}]
    BY DEF Init
  <1>4. TypeOK
    BY <1>1, <1>2, <1>6, <1>7, <1>8, <1>9 DEF TypeOK
  <1>5. Guarded
    BY <1>3, ToolTypes DEF Init, Guarded, PhasesOf, Tools
  <1> QED
    BY <1>3, <1>4, <1>5 DEF Init, IInv, DioAt

-----------------------------------------------------------------------------
(* Guarded: only Open and Close change who runs a tool. *)

\* A process goes on from one phase of its tool to another one.
GoesOn(p) ==
  /\ ph[p] # "idle"
  /\ \E to \in PhasesOf(ToolOf[p]) \ {"idle"} : ph' = [ph EXCEPT ![p] = to]
  /\ Device_Open' = Device_Open

LEMMA GuardedGoesOn ==
  ASSUME TypeOK, Guarded, NEW p \in Procs, GoesOn(p) PROVE Guarded'
  <1>1. PICK to \in PhasesOf(ToolOf[p]) \ {"idle"} : ph' = [ph EXCEPT ![p] = to]
    BY DEF GoesOn
  <1>2. /\ ph'[p] = to /\ ph[p] # "idle"
        /\ \A q \in Procs : q # p => ph'[q] = ph[q]
    BY <1>1 DEF GoesOn, TypeOK
  <1>3. \A q \in Procs : (ph'[q] = "idle") <=> (ph[q] = "idle")
    BY <1>2
  <1>4. \A q \in Procs : ph'[q] \in PhasesOf(ToolOf[q])
    BY <1>2 DEF Guarded
  <1> QED
    BY <1>3, <1>4 DEF Guarded, GoesOn

LEMMA GuardedOpen ==
  ASSUME TypeOK, Guarded, NEW p \in Procs, Open(p) PROVE Guarded'
  <1> DEFINE t == ToolOf[p]
  <1>1. t \in Tools
    BY ToolTypes
  <1>2. First[t] \in PhasesOf(t) \ {"idle"}
    BY <1>1 DEF First, PhasesOf, Tools
  <1>3. ph' = [ph EXCEPT ![p] = First[t]] /\ ph[p] = "idle" /\ Device_Open[t] = 0
    BY DEF Open, At
  <1>4. Device_Open' = [Device_Open EXCEPT ![t] = 1]
    BY <1>1, <1>3 DEF Open, TypeOK
  <1>5. ph'[p] = First[t] /\ \A q \in Procs : q # p => ph'[q] = ph[q]
    BY <1>3 DEF TypeOK
  <1>6. Device_Open'[t] = 1 /\ \A u \in Tools : u # t => Device_Open'[u] = Device_Open[u]
    BY <1>1, <1>4 DEF TypeOK
  <1>7. \A q \in Procs : ToolOf[q] = t => ph[q] = "idle"
    BY <1>3 DEF Guarded
  <1>8. \A q \in Procs : ToolOf[q] \in Tools
    BY ToolTypes
  <1>9. \A q \in Procs : ph'[q] \in PhasesOf(ToolOf[q])
    BY <1>2, <1>5 DEF Guarded
  <1>10. \A q \in Procs : ph'[q] # "idle" => Device_Open'[ToolOf[q]] = 1
    BY <1>5, <1>6, <1>8 DEF Guarded
  <1>11. \A u \in Tools : (\A q \in Procs : ToolOf[q] = u => ph'[q] = "idle") => Device_Open'[u] = 0
    BY <1>2, <1>5, <1>6 DEF Guarded
  <1>12. \A q, r \in Procs :
           ph'[q] # "idle" /\ ph'[r] # "idle" /\ ToolOf[q] = ToolOf[r] => q = r
    BY <1>5, <1>7 DEF Guarded
  <1> QED
    BY <1>9, <1>10, <1>11, <1>12 DEF Guarded

LEMMA GuardedClose ==
  ASSUME TypeOK, Guarded, NEW p \in Procs, Close(p) PROVE Guarded'
  <1> DEFINE t == ToolOf[p]
  <1>1. t \in Tools
    BY ToolTypes
  <1>2. ph' = [ph EXCEPT ![p] = "idle"] /\ ph[p] # "idle" /\ Device_Open[t] = 1
    BY DEF Close, Guarded
  <1>3. Device_Open' = [Device_Open EXCEPT ![t] = 0]
    BY <1>1, <1>2 DEF Close, TypeOK
  <1>4. ph'[p] = "idle" /\ \A q \in Procs : q # p => ph'[q] = ph[q]
    BY <1>2 DEF TypeOK
  <1>5. Device_Open'[t] = 0 /\ \A u \in Tools : u # t => Device_Open'[u] = Device_Open[u]
    BY <1>1, <1>3 DEF TypeOK
  <1>6. \A q \in Procs : ToolOf[q] \in Tools
    BY ToolTypes
  <1>7. \A q \in Procs : q # p /\ ToolOf[q] = t => ph[q] = "idle"
    BY <1>2 DEF Guarded
  <1>8. \A q \in Procs : ph'[q] \in PhasesOf(ToolOf[q])
    BY <1>1, <1>4 DEF Guarded, PhasesOf, Tools
  <1>9. \A q \in Procs : ph'[q] # "idle" => Device_Open'[ToolOf[q]] = 1
    BY <1>4, <1>5, <1>6, <1>7 DEF Guarded
  <1>10. \A u \in Tools : (\A q \in Procs : ToolOf[q] = u => ph'[q] = "idle") => Device_Open'[u] = 0
    BY <1>4, <1>5 DEF Guarded
  <1>11. \A q, r \in Procs :
           ph'[q] # "idle" /\ ph'[r] # "idle" /\ ToolOf[q] = ToolOf[r] => q = r
    BY <1>4 DEF Guarded
  <1> QED
    BY <1>8, <1>9, <1>10, <1>11 DEF Guarded

-----------------------------------------------------------------------------
(* A process that does nothing keeps its part of the invariant. *)

LEMMA OthersDio ==
  ASSUME NEW q \in Procs, DioAt(q), ph'[q] = ph[q], value'[q] = value[q],
         round'[q] = round[q], UNCHANGED <<GPO, pin>>
  PROVE  DioAt(q)'
  BY DEF DioAt

\* Nobody else is in dio_tst.
LEMMA NotInDio ==
  ASSUME NEW q \in Procs, ph'[q] \notin {"setting", "get", "getting", "readback"}
  PROVE  DioAt(q)'
  BY DEF DioAt

LEMMA AlonePhase ==
  ASSUME Guarded, NEW p \in Procs, NEW q \in Procs, p # q, ToolOf[p] = "dio", ph[p] # "idle"
  PROVE  ph[q] \notin {"setting", "get", "getting", "readback"}
  <1>1. ToolOf[q] = "dio" => ph[q] = "idle"
    BY DEF Guarded
  <1>2. ToolOf[q] # "dio" => ph[q] \notin {"setting", "get", "getting", "readback"}
    BY ToolTypes DEF Guarded, PhasesOf, Tools
  <1> QED
    BY <1>1, <1>2

\* The steps of dio_tst leave the world outside and the other processes alone.
DioStep(p) ==
  /\ ToolOf[p] = "dio" /\ GoesOn(p)
  /\ UNCHANGED <<world, Device_Open, c>>
  /\ \A q \in Procs : q # p => ph'[q] = ph[q] /\ value'[q] = value[q] /\ round'[q] = round[q]

LEMMA DioOthers ==
  ASSUME IInv, NEW p \in Procs, DioStep(p)
  PROVE  /\ Guarded'
         /\ open' => intruder' = 1
         /\ \A q \in Procs : q # p => DioAt(q)'
  <1>1. Guarded'
    BY GuardedGoesOn DEF IInv, DioStep
  <1>2. open' => intruder' = 1
    BY DEF IInv, DioStep, world
  <1>3. ASSUME NEW q \in Procs, q # p PROVE DioAt(q)'
    <2>1. ph[q] \notin {"setting", "get", "getting", "readback"}
      BY <1>3, AlonePhase DEF IInv, DioStep, GoesOn
    <2> QED
      BY <1>3, <2>1, NotInDio DEF DioStep
  <1> QED
    BY <1>1, <1>2, <1>3

-----------------------------------------------------------------------------
(* dio_tst. *)

LEMMA SetOutputInv == ASSUME IInv, NEW p \in Procs, SetOutput(p) PROVE IInv'
  <1>1. /\ ph' = [ph EXCEPT ![p] = "setting"] /\ ph[p] = "set" /\ ToolOf[p] = "dio"
        /\ value' = [value EXCEPT ![p] = Test[round[p]]] /\ pin' = 0
        /\ UNCHANGED <<GPO, world, Device_Open, round, c>>
    BY DEF SetOutput, At
  <1>2. Test[round[p]] \in Patterns
    BY TestPatterns DEF IInv, TypeOK
  <1>3. TypeOK'
    BY <1>1, <1>2 DEF IInv, TypeOK, world, Pins
  <1>4. DioStep(p)
    BY <1>1 DEF DioStep, GoesOn, PhasesOf, IInv, TypeOK
  <1>5. DioAt(p)'
    <2>1. ph'[p] = "setting" /\ value'[p] = Test[round[p]] /\ round'[p] = round[p]
      BY <1>1 DEF IInv, TypeOK
    <2>2. \A k \in Pins : ~(k < pin')
      BY <1>1 DEF Pins
    <2> QED
      BY <2>1, <2>2 DEF DioAt
  <1> QED
    BY <1>3, <1>4, <1>5, DioOthers DEF IInv

LEMMA dio_set_outputInv == ASSUME IInv, NEW p \in Procs, dio_set_output(p) PROVE IInv'
  <1> DEFINE to == IF pin = 3 THEN "get" ELSE "setting"
  <1>1. /\ ph' = [ph EXCEPT ![p] = to] /\ ph[p] = "setting" /\ ToolOf[p] = "dio"
        /\ GPO' = [GPO EXCEPT ![pin] = value[p][pin]] /\ pin' = (pin + 1) % 4
        /\ UNCHANGED <<world, Device_Open, round, value, c>>
    BY DEF dio_set_output, At
  <1>2. pin \in Pins /\ value[p] \in Patterns /\ GPO \in Patterns /\ round[p] \in 1 .. 4
    BY DEF IInv, TypeOK
  <1>3. value[p] = Test[round[p]] /\ \A k \in Pins : k < pin => GPO[k] = Test[round[p]][k]
    BY <1>1 DEF IInv, DioAt
  <1>4. GPO' \in Patterns /\ pin' \in Pins
    BY <1>1, <1>2 DEF Patterns, Pins
  <1>5. TypeOK'
    BY <1>1, <1>4 DEF IInv, TypeOK, world
  <1>6. DioStep(p)
    BY <1>1 DEF DioStep, GoesOn, PhasesOf, IInv, TypeOK
  <1>7. \A k \in Pins : k <= pin => GPO'[k] = Test[round[p]][k]
    BY <1>1, <1>2, <1>3 DEF Pins, Patterns
  <1>8. ph'[p] = to /\ value'[p] = value[p] /\ round'[p] = round[p]
    BY <1>1 DEF IInv, TypeOK
  <1>9. CASE pin = 3
    <2>1. \A k \in Pins : k <= pin
      BY <1>9 DEF Pins
    <2>2. GPO' = Test[round[p]]
      BY <1>2, <1>4, <1>7, <2>1, TestPatterns, SamePattern
    <2>3. DioAt(p)'
      BY <1>8, <1>9, <2>2 DEF DioAt
    <2> QED
      BY <1>5, <1>6, <2>3, DioOthers DEF IInv
  <1>10. CASE pin # 3
    <2>1. pin' = pin + 1
      BY <1>1, <1>2, <1>10 DEF Pins
    <2>2. \A k \in Pins : k < pin' => k <= pin
      BY <1>2, <2>1 DEF Pins
    <2>3. DioAt(p)'
      BY <1>3, <1>7, <1>8, <1>10, <2>2 DEF DioAt
    <2> QED
      BY <1>5, <1>6, <2>3, DioOthers DEF IInv
  <1> QED
    BY <1>9, <1>10

LEMMA GetInputInv == ASSUME IInv, NEW p \in Procs, GetInput(p) PROVE IInv'
  <1>1. /\ ph' = [ph EXCEPT ![p] = "getting"] /\ ph[p] = "get" /\ ToolOf[p] = "dio"
        /\ value' = [value EXCEPT ![p] = Low] /\ pin' = 0
        /\ UNCHANGED <<GPO, world, Device_Open, round, c>>
    BY DEF GetInput, At
  <1>2. Low \in Patterns
    BY DEF Low, Patterns
  <1>3. TypeOK'
    BY <1>1, <1>2 DEF IInv, TypeOK, world, Pins
  <1>4. DioStep(p)
    BY <1>1 DEF DioStep, GoesOn, PhasesOf, IInv, TypeOK
  <1>5. DioAt(p)'
    <2>1. ph'[p] = "getting" /\ round'[p] = round[p] /\ GPO' = Test[round[p]]
      BY <1>1 DEF IInv, TypeOK, DioAt
    <2>2. \A k \in Pins : ~(k < pin')
      BY <1>1 DEF Pins
    <2> QED
      BY <2>1, <2>2 DEF DioAt
  <1> QED
    BY <1>3, <1>4, <1>5, DioOthers DEF IInv

LEMMA dio_get_inputInv == ASSUME IInv, NEW p \in Procs, dio_get_input(p) PROVE IInv'
  <1> DEFINE to == IF pin = 3 THEN "readback" ELSE "getting"
  <1>1. /\ ph' = [ph EXCEPT ![p] = to] /\ ph[p] = "getting" /\ ToolOf[p] = "dio"
        /\ value' = [value EXCEPT ![p][pin] = GPO[pin]] /\ pin' = (pin + 1) % 4
        /\ UNCHANGED <<GPO, world, Device_Open, round, c>>
    BY DEF dio_get_input, At
  <1>2. pin \in Pins /\ value[p] \in Patterns /\ GPO \in Patterns /\ round[p] \in 1 .. 4
    BY DEF IInv, TypeOK
  <1>3. GPO = Test[round[p]] /\ \A k \in Pins : k < pin => value[p][k] = Test[round[p]][k]
    BY <1>1 DEF IInv, DioAt
  <1> DEFINE v == [value[p] EXCEPT ![pin] = GPO[pin]]
  <1>4. v \in Patterns /\ pin' \in Pins
    BY <1>1, <1>2 DEF Patterns, Pins
  <1>5. value' = [value EXCEPT ![p] = v]
    BY <1>1 DEF IInv, TypeOK
  <1>6. \A k \in Pins : k <= pin => v[k] = Test[round[p]][k]
    BY <1>2, <1>3 DEF Pins, Patterns
  <1> HIDE DEF v
  <1>7. TypeOK'
    BY <1>1, <1>4, <1>5 DEF IInv, TypeOK, world
  <1>8. DioStep(p)
    <2>1. \A q \in Procs : q # p => value'[q] = value[q]
      BY <1>5 DEF IInv, TypeOK
    <2> QED
      BY <1>1, <2>1 DEF DioStep, GoesOn, PhasesOf, IInv, TypeOK
  <1>9. ph'[p] = to /\ value'[p] = v /\ round'[p] = round[p]
    BY <1>1, <1>5 DEF IInv, TypeOK
  <1>10. CASE pin = 3
    <2>1. \A k \in Pins : k <= pin
      BY <1>10 DEF Pins
    <2>2. v = Test[round[p]]
      BY <1>2, <1>4, <1>6, <2>1, TestPatterns, SamePattern
    <2>3. DioAt(p)'
      BY <1>1, <1>3, <1>9, <1>10, <2>2 DEF DioAt
    <2> QED
      BY <1>7, <1>8, <2>3, DioOthers DEF IInv
  <1>11. CASE pin # 3
    <2>1. pin' = pin + 1
      BY <1>1, <1>2, <1>11 DEF Pins
    <2>2. \A k \in Pins : k < pin' => k <= pin
      BY <1>2, <2>1 DEF Pins
    <2>3. DioAt(p)'
      BY <1>1, <1>3, <1>6, <1>9, <1>11, <2>2 DEF DioAt
    <2> QED
      BY <1>7, <1>8, <2>3, DioOthers DEF IInv
  <1> QED
    BY <1>10, <1>11

LEMMA NextPatternInv == ASSUME IInv, NEW p \in Procs, NextPattern(p) PROVE IInv'
  <1>1. /\ ph' = [ph EXCEPT ![p] = "set"] /\ ph[p] = "readback" /\ ToolOf[p] = "dio"
        /\ round' = [round EXCEPT ![p] = round[p] + 1] /\ round[p] < 4
        /\ UNCHANGED <<GPO, world, Device_Open, value, pin, c>>
    BY TestPatterns DEF NextPattern, At
  <1>2. round[p] + 1 \in 1 .. 4
    BY <1>1 DEF IInv, TypeOK
  <1>3. TypeOK'
    BY <1>1, <1>2 DEF IInv, TypeOK, world
  <1>4. DioStep(p)
    BY <1>1 DEF DioStep, GoesOn, PhasesOf, IInv, TypeOK
  <1>5. DioAt(p)'
    BY <1>1, NotInDio DEF IInv, TypeOK
  <1> QED
    BY <1>3, <1>4, <1>5, DioOthers DEF IInv

-----------------------------------------------------------------------------
(* cp_tst and btn_tst, which leave the outputs alone. *)

OtherStep(p) ==
  /\ ToolOf[p] # "dio" /\ GoesOn(p)
  /\ UNCHANGED <<GPO, line, open, Device_Open, round, pin>>
  /\ intruder' = 1 => intruder = 1
  /\ open /\ intruder = 1 => intruder' = 1
  /\ \A q \in Procs : q # p =>
       ph'[q] = ph[q] /\ value'[q] = value[q]

LEMMA OtherOthers ==
  ASSUME IInv, NEW p \in Procs, OtherStep(p)
  PROVE  /\ Guarded'
         /\ open' => intruder' = 1
         /\ \A q \in Procs : DioAt(q)'
  <1>1. Guarded'
    BY GuardedGoesOn DEF IInv, OtherStep
  <1>2. open' => intruder' = 1
    BY DEF IInv, OtherStep
  <1>3. ASSUME NEW q \in Procs, q # p PROVE DioAt(q)'
    BY <1>3, OthersDio DEF IInv, OtherStep
  <1>4. DioAt(p)'
    <2>1. ph'[p] \in PhasesOf(ToolOf[p]) /\ ToolOf[p] \in Tools \ {"dio"}
      BY <1>1, ToolTypes DEF Guarded, OtherStep
    <2>2. ph'[p] \notin {"setting", "get", "getting", "readback"}
      BY <2>1 DEF PhasesOf, Tools
    <2> QED
      BY <2>2, NotInDio
  <1> QED
    BY <1>1, <1>2, <1>3, <1>4

LEMMA GetStatusInv == ASSUME IInv, NEW p \in Procs, GetStatus(p) PROVE IInv'
  <1> DEFINE to == IF intruder = 1 THEN "ask" ELSE IF c[p] = "y" THEN "clear" ELSE "told"
  <1>1. /\ ph' = [ph EXCEPT ![p] = to] /\ ph[p] = "look" /\ ToolOf[p] = "cp"
        /\ value' = [value EXCEPT ![p] = Bit(intruder)]
        /\ UNCHANGED <<GPO, world, Device_Open, round, pin, c>>
    BY DEF GetStatus, At, get_intruder_status
  <1>2. to \in {"ask", "clear", "told"} /\ Bit(intruder) \in Patterns
    BY BitPatterns DEF IInv, TypeOK
  <1>3. /\ ph'[p] = to /\ value'[p] = Bit(intruder)
        /\ \A q \in Procs : q # p => ph'[q] = ph[q] /\ value'[q] = value[q]
    BY <1>1 DEF IInv, TypeOK
  <1>4. TypeOK'
    <2>1. ph' \in [Procs -> {"idle", "set", "setting", "get", "getting", "readback", "look",
                             "ask", "clear", "told", "poll"}]
      BY <1>1, <1>2 DEF IInv, TypeOK
    <2>2. value' \in [Procs -> Patterns]
      BY <1>1, <1>2 DEF IInv, TypeOK
    <2> QED
      BY <1>1, <2>1, <2>2 DEF IInv, TypeOK, world
  <1>5. OtherStep(p)
    <2>1. GoesOn(p)
      BY <1>1, <1>2 DEF GoesOn, PhasesOf
    <2> QED
      BY <1>1, <1>3, <2>1 DEF OtherStep, world
  <1> QED
    BY <1>4, <1>5, OtherOthers DEF IInv

LEMMA AnswerInv == ASSUME IInv, NEW p \in Procs, Answer(p) PROVE IInv'
  <1>1. PICK x \in {"y", "other"} :
          /\ ph' = [ph EXCEPT ![p] = IF x = "y" THEN "clear" ELSE "told"]
          /\ c' = [c EXCEPT ![p] = x]
    BY DEF Answer, At
  <1>2. /\ ph[p] = "ask" /\ ToolOf[p] = "cp"
        /\ UNCHANGED <<GPO, world, Device_Open, round, value, pin>>
    BY DEF Answer, At
  <1>3. ph'[p] \in {"clear", "told"} /\ \A q \in Procs : q # p => ph'[q] = ph[q]
    BY <1>1 DEF IInv, TypeOK
  <1>4. TypeOK'
    <2>1. ph' \in [Procs -> {"idle", "set", "setting", "get", "getting", "readback", "look",
                             "ask", "clear", "told", "poll"}]
      BY <1>1 DEF IInv, TypeOK
    <2>2. c' \in [Procs -> {"y", "other"}]
      BY <1>1 DEF IInv, TypeOK
    <2> QED
      BY <1>2, <2>1, <2>2 DEF IInv, TypeOK, world
  <1>5. OtherStep(p)
    <2>1. GoesOn(p)
      BY <1>1, <1>2 DEF GoesOn, PhasesOf
    <2> QED
      BY <1>2, <1>3, <2>1 DEF OtherStep, world
  <1> QED
    BY <1>4, <1>5, OtherOthers DEF IInv

LEMMA ClearStatusInv == ASSUME IInv, NEW p \in Procs, ClearStatus(p) PROVE IInv'
  <1>1. /\ ph' = [ph EXCEPT ![p] = "told"] /\ ph[p] = "clear" /\ ToolOf[p] = "cp"
        /\ intruder' = IF open THEN 1 ELSE 0
        /\ UNCHANGED <<GPO, line, open, Device_Open, round, value, pin, c>>
    BY DEF ClearStatus, At
  <1>2. ph'[p] = "told" /\ \A q \in Procs : q # p => ph'[q] = ph[q]
    BY <1>1 DEF IInv, TypeOK
  <1>3. TypeOK'
    <2>1. ph' \in [Procs -> {"idle", "set", "setting", "get", "getting", "readback", "look",
                             "ask", "clear", "told", "poll"}]
      BY <1>1 DEF IInv, TypeOK
    <2> QED
      BY <1>1, <2>1 DEF IInv, TypeOK
  <1>4. OtherStep(p)
    <2>1. GoesOn(p)
      BY <1>1 DEF GoesOn, PhasesOf
    <2>2. intruder' = 1 => intruder = 1
      BY <1>1 DEF IInv
    <2> QED
      BY <1>1, <1>2, <2>1, <2>2 DEF OtherStep
  <1> QED
    BY <1>3, <1>4, OtherOthers DEF IInv

LEMMA PollInv == ASSUME IInv, NEW p \in Procs, Poll(p) PROVE IInv'
  <1> DEFINE to == IF line = 0 THEN "told" ELSE "poll"
  <1>1. /\ ph' = [ph EXCEPT ![p] = to] /\ ph[p] = "poll" /\ ToolOf[p] = "btn"
        /\ value' = [value EXCEPT ![p] = Bit(line)]
        /\ UNCHANGED <<GPO, world, Device_Open, round, pin, c>>
    BY DEF Poll, At, get_btn_status
  <1>2. Bit(line) \in Patterns /\ to \in {"told", "poll"}
    BY BitPatterns DEF IInv, TypeOK
  <1>3. /\ ph'[p] = to
        /\ \A q \in Procs : q # p => ph'[q] = ph[q] /\ value'[q] = value[q]
    BY <1>1 DEF IInv, TypeOK
  <1>4. TypeOK'
    <2>1. ph' \in [Procs -> {"idle", "set", "setting", "get", "getting", "readback", "look",
                             "ask", "clear", "told", "poll"}]
      BY <1>1, <1>2 DEF IInv, TypeOK
    <2>2. value' \in [Procs -> Patterns]
      BY <1>1, <1>2 DEF IInv, TypeOK
    <2> QED
      BY <1>1, <2>1, <2>2 DEF IInv, TypeOK, world
  <1>5. OtherStep(p)
    <2>1. GoesOn(p)
      BY <1>1, <1>2 DEF GoesOn, PhasesOf
    <2> QED
      BY <1>1, <1>3, <2>1 DEF OtherStep, world
  <1> QED
    BY <1>4, <1>5, OtherOthers DEF IInv

-----------------------------------------------------------------------------
(* Opening, closing, and the world outside. *)

LEMMA OpenInv == ASSUME IInv, NEW p \in Procs, Open(p) PROVE IInv'
  <1>1. /\ ph' = [ph EXCEPT ![p] = First[ToolOf[p]]]
        /\ UNCHANGED <<GPO, world, round, value, pin>>
    BY DEF Open, At
  <1>2. First[ToolOf[p]] \in {"set", "look", "poll"} /\ ToolOf[p] \in Tools
    BY ToolTypes DEF First, Tools
  <1>3. ph'[p] \in {"set", "look", "poll"} /\ \A q \in Procs : q # p => ph'[q] = ph[q]
    BY <1>1, <1>2 DEF IInv, TypeOK
  <1>4. TypeOK'
    <2>1. ph' \in [Procs -> {"idle", "set", "setting", "get", "getting", "readback", "look",
                             "ask", "clear", "told", "poll"}]
      BY <1>1, <1>2 DEF IInv, TypeOK
    <2>2. Device_Open' \in [Tools -> {0, 1}]
      BY <1>2 DEF IInv, TypeOK, Open
    <2>3. c' \in [Procs -> {"y", "other"}]
      <3>1. PICK x \in IF ToolOf[p] = "cp" THEN Leftovers ELSE {c[p]} : c' = [c EXCEPT ![p] = x]
        BY DEF Open
      <3>2. x \in {"y", "other"}
        BY <3>1, PchIoAssumption DEF IInv, TypeOK
      <3> QED
        BY <3>1, <3>2 DEF IInv, TypeOK
    <2> QED
      BY <1>1, <2>1, <2>2, <2>3 DEF IInv, TypeOK, world
  <1>5. Guarded'
    BY GuardedOpen DEF IInv
  <1>6. ASSUME NEW q \in Procs PROVE DioAt(q)'
    <2>1. CASE q = p
      BY <1>3, <2>1, NotInDio
    <2>2. CASE q # p
      BY <1>1, <1>3, <2>2, OthersDio DEF IInv, world
    <2> QED
      BY <2>1, <2>2
  <1> QED
    BY <1>1, <1>4, <1>5, <1>6 DEF IInv, world

LEMMA CloseInv == ASSUME IInv, NEW p \in Procs, Close(p) PROVE IInv'
  <1>1. /\ ph' = [ph EXCEPT ![p] = "idle"] /\ ph[p] # "idle"
        /\ Device_Open' = [Device_Open EXCEPT ![ToolOf[p]] = @ - 1]
        /\ round' = [round EXCEPT ![p] = 1] /\ value' = [value EXCEPT ![p] = Low]
        /\ c' = [c EXCEPT ![p] = "other"]
        /\ UNCHANGED <<GPO, world, pin>>
    BY DEF Close
  <1>2. ph'[p] = "idle" /\ \A q \in Procs : q # p =>
          /\ ph'[q] = ph[q] /\ value'[q] = value[q] /\ round'[q] = round[q]
    BY <1>1 DEF IInv, TypeOK
  <1>3. TypeOK'
    <2>1. ph' \in [Procs -> {"idle", "set", "setting", "get", "getting", "readback", "look",
                             "ask", "clear", "told", "poll"}]
      BY <1>1 DEF IInv, TypeOK
    <2>2. Device_Open' \in [Tools -> {0, 1}]
      <3>1. Device_Open[ToolOf[p]] = 1 /\ ToolOf[p] \in Tools
        BY <1>1, ToolTypes DEF IInv, Guarded
      <3>2. Device_Open' = [Device_Open EXCEPT ![ToolOf[p]] = 0]
        BY <1>1, <3>1 DEF IInv, TypeOK
      <3> QED
        BY <3>2 DEF IInv, TypeOK
    <2>3. c' \in [Procs -> {"y", "other"}] /\ round' \in [Procs -> 1 .. 4]
      BY <1>1 DEF IInv, TypeOK
    <2>4. Low \in Patterns
      BY DEF Low, Patterns
    <2>5. value' \in [Procs -> Patterns]
      BY <1>1, <2>4 DEF IInv, TypeOK
    <2> QED
      BY <1>1, <2>1, <2>2, <2>3, <2>5 DEF IInv, TypeOK, world
  <1>4. Guarded'
    BY GuardedClose DEF IInv
  <1>5. ASSUME NEW q \in Procs PROVE DioAt(q)'
    <2>1. CASE q = p
      BY <1>2, <2>1, NotInDio
    <2>2. CASE q # p
      BY <1>1, <1>2, <2>2, OthersDio DEF IInv
    <2> QED
      BY <2>1, <2>2
  <1> QED
    BY <1>1, <1>3, <1>4, <1>5 DEF IInv, world

LEMMA OutsideInv == ASSUME IInv, OpenCase \/ ShutCase \/ PressOrRelease PROVE IInv'
  <1>1. UNCHANGED <<GPO, Device_Open, ph, round, value, pin, c>>
    BY DEF OpenCase, ShutCase, PressOrRelease
  <1>2. TypeOK'
    <2>1. intruder' \in {0, 1} /\ open' \in BOOLEAN
      BY DEF IInv, TypeOK, OpenCase, ShutCase, PressOrRelease
    <2>2. line' \in {0, 1}
      BY DEF IInv, TypeOK, OpenCase, ShutCase, PressOrRelease
    <2> QED
      BY <1>1, <2>1, <2>2 DEF IInv, TypeOK
  <1>3. Guarded'
    BY <1>1 DEF IInv, Guarded
  <1>4. open' => intruder' = 1
    BY DEF IInv, OpenCase, ShutCase, PressOrRelease
  <1>5. ASSUME NEW q \in Procs PROVE DioAt(q)'
    BY <1>1, OthersDio DEF IInv
  <1> QED
    BY <1>2, <1>3, <1>4, <1>5 DEF IInv

LEMMA StepInv == IInv /\ [Next]_vars => IInv'
  <1> SUFFICES ASSUME IInv, [Next]_vars PROVE IInv'
    OBVIOUS
  <1>1. CASE UNCHANGED vars
    <2>1. TypeOK'
      BY <1>1 DEF vars, world, IInv, TypeOK
    <2>2. Guarded'
      BY <1>1 DEF vars, IInv, Guarded
    <2>3. open' => intruder' = 1
      BY <1>1 DEF vars, IInv
    <2>4. \A q \in Procs : DioAt(q)'
      BY <1>1 DEF vars, IInv, DioAt
    <2> QED
      BY <2>1, <2>2, <2>3, <2>4 DEF IInv
  <1>2. ASSUME NEW p \in Procs, Open(p) \/ Close(p) PROVE IInv'
    BY <1>2, OpenInv, CloseInv
  <1>3. ASSUME NEW p \in Procs, Dio(p) PROVE IInv'
    BY <1>3, SetOutputInv, dio_set_outputInv, GetInputInv, dio_get_inputInv, NextPatternInv DEF Dio
  <1>4. ASSUME NEW p \in Procs, Cp(p) \/ Poll(p) PROVE IInv'
    BY <1>4, GetStatusInv, AnswerInv, ClearStatusInv, PollInv DEF Cp
  <1>5. CASE OpenCase \/ ShutCase \/ PressOrRelease
    BY <1>5, OutsideInv
  <1> QED
    BY <1>1, <1>2, <1>3, <1>4, <1>5 DEF Next

LEMMA Invariance == Spec => []IInv
  BY InitInv, StepInv, PTL DEF Spec

-----------------------------------------------------------------------------
(* The theorems. *)

\* Every variable of the three drivers and tools keeps its type.
THEOREM TypeCorrect == Spec => []TypeOK
  <1>1. IInv => TypeOK
    BY DEF IInv
  <1> QED
    BY <1>1, Invariance, PTL

\* Whatever number of processes try to run dio_tst, the one that gets the
\* device reads back the pattern it has set.
THEOREM ReadBackCorrect == Spec => []ReadsBack
  <1>1. IInv => ReadsBack
    BY DEF IInv, ReadsBack, DioAt
  <1> QED
    BY <1>1, Invariance, PTL

-----------------------------------------------------------------------------
(* The polling of the button: the part of LowLevelSeen that needs no        *)
(* fairness.  What keeps btn_tst from its next poll is an ioctl of dio_tst.   *)

OneIoctl == \A p, q \in Procs : InIoctl(p) /\ InIoctl(q) => p = q

\* An ioctl does one pin after another, with nothing but the world outside in
\* between, and is over after the fourth: no tool waits for it any longer.
IoctlShortens ==
  [][\A p \in Procs :
       InIoctl(p) =>
         \/ UNCHANGED <<ph, pin, GPO, value>>
         \/ pin < 3 /\ pin' = pin + 1 /\ UNCHANGED ph
         \/ pin = 3 /\ pin' = 0 /\ \A q \in Procs : ~InIoctl(q)' /\ CanRun(q)']_vars

LEMMA InvOneIoctl == IInv => OneIoctl
  <1> SUFFICES ASSUME IInv, NEW p \in Procs, NEW q \in Procs, InIoctl(p), InIoctl(q)
               PROVE  p = q
    BY DEF OneIoctl
  <1>1. \A r \in {p, q} : ToolOf[r] = "dio" /\ ph[r] # "idle"
    BY ToolTypes DEF IInv, Guarded, PhasesOf, InIoctl, Tools
  <1> QED
    BY <1>1 DEF IInv, Guarded

LEMMA IoctlStep ==
  ASSUME IInv, NEW p \in Procs, InIoctl(p), Next
  PROVE  \/ UNCHANGED <<ph, pin, GPO, value>>
         \/ pin < 3 /\ pin' = pin + 1 /\ UNCHANGED ph
         \/ pin = 3 /\ pin' = 0 /\ \A q \in Procs : ~InIoctl(q)' /\ CanRun(q)'
  <1>1. CASE OpenCase \/ ShutCase \/ PressOrRelease
    BY <1>1 DEF OpenCase, ShutCase, PressOrRelease
  <1>2. ASSUME NEW q \in Procs, Open(q) \/ Close(q) \/ Dio(q) \/ Cp(q) \/ Poll(q)
        PROVE  q = p /\ (dio_set_output(p) \/ dio_get_input(p))
    <2>1. CanRun(q)
      BY <1>2 DEF Open, Close, Dio, Cp, Poll, At, SetOutput, dio_set_output, GetInput,
                  dio_get_input, NextPattern, GetStatus, Answer, ClearStatus
    <2>2. q = p
      BY <2>1 DEF CanRun
    <2>3. ph[p] # "idle" /\ ph[p] \in {"setting", "getting"}
      BY DEF InIoctl
    <2>4. ~Open(p) /\ ~Close(p) /\ ~Poll(p)
      BY <2>3 DEF Open, Close, Poll, At, InIoctl
    <2>5. ~Cp(p) /\ ~SetOutput(p) /\ ~GetInput(p) /\ ~NextPattern(p)
      BY <2>3 DEF Cp, GetStatus, Answer, ClearStatus, SetOutput, GetInput, NextPattern, At
    <2> QED
      BY <1>2, <2>2, <2>4, <2>5 DEF Dio
  <1>3. CASE dio_set_output(p) \/ dio_get_input(p)
    <2>1. pin \in 0 .. 3 /\ pin' = (pin + 1) % 4
      BY <1>3 DEF IInv, TypeOK, Pins, dio_set_output, dio_get_input
    <2>2. CASE pin # 3
      <3>1. ph' = [ph EXCEPT ![p] = ph[p]] /\ ph \in [Procs -> {ph[q] : q \in Procs}]
        BY <1>3, <2>2 DEF dio_set_output, dio_get_input, At, IInv, TypeOK
      <3>2. ph' = ph
        BY <3>1
      <3> QED
        BY <2>1, <2>2, <3>2
    <2>3. CASE pin = 3
      <3>1. \E to \in {"get", "readback"} : ph' = [ph EXCEPT ![p] = to]
        BY <1>3, <2>3 DEF dio_set_output, dio_get_input, At
      <3>2. ~InIoctl(p)' /\ \A q \in Procs \ {p} : ph'[q] = ph[q]
        BY <3>1 DEF IInv, TypeOK, InIoctl
      <3>3. \A q \in Procs : ~InIoctl(q)'
        BY <3>2, InvOneIoctl DEF OneIoctl, InIoctl
      <3>4. \A q \in Procs : CanRun(q)'
        BY <3>3 DEF CanRun, InIoctl
      <3> QED
        BY <2>1, <2>3, <3>3, <3>4
    <2> QED
      BY <2>2, <2>3
  <1> QED
    BY <1>1, <1>2, <1>3 DEF Next

\* One process at a time is inside an ioctl of digital IO, for four steps of its
\* own: a poll of the button, or any other system call, is held up no longer.
THEOREM IoctlBounded == Spec => []OneIoctl /\ IoctlShortens
  <1>1. IInv /\ [Next]_vars =>
          [\A p \in Procs :
             InIoctl(p) =>
               \/ UNCHANGED <<ph, pin, GPO, value>>
               \/ pin < 3 /\ pin' = pin + 1 /\ UNCHANGED ph
               \/ pin = 3 /\ pin' = 0 /\ \A q \in Procs : ~InIoctl(q)' /\ CanRun(q)']_vars
    BY IoctlStep
  <1> QED
    BY <1>1, InvOneIoctl, Invariance, PTL DEF Spec, IoctlShortens

=============================================================================
