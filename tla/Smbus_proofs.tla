---------------------------- MODULE Smbus_proofs ----------------------------
(***************************************************************************)
(* Proofs about the shared SMBus controller, for any number of drivers,    *)
(* devices, registers and values: a driver's transfer that reports no      *)
(* error is done, whatever programs it has interrupted.  With at most one  *)
(* program at a time, so is a program's that met no driver, and the        *)
(* registers implement the abstract bus.                                   *)
(***************************************************************************)
EXTENDS Smbus, TLAPS

Phases == {"idle", "clear", "test", "cmd", "slva", "data", "start", "check", "fetch", "done"}
Setting == {"cmd", "slva", "data", "start"}
Ways == {"wait", "look", "driver"}

\* A task is about a transaction exactly while it is in its transfer function.
WantInv == \A t \in Tasks : ph[t] = "idle" <=> want[t] = NoXact

Types == TypeOK /\ WantInv

LEMMA XactFields ==
  ASSUME NEW x \in Xact
  PROVE  /\ x.rw \in {"r", "w"} /\ x.dev \in Devices /\ x.reg \in Regs /\ x.val \in Values
         /\ CellOf(x) \in Cells /\ x # NoXact
  BY SmbusAssumption DEF Xact, CellOf, Cells

LEMMA WantIn ==
  ASSUME Types, NEW t \in Tasks, ph[t] # "idle"
  PROVE  want[t] \in Xact /\ want[t] # NoXact
  BY DEF Types, WantInv, TypeOK

-----------------------------------------------------------------------------
(* Types. *)

LEMMA InitTypes == Init => Types
  BY DEF Init, Types, TypeOK, WantInv

LEMMA BeginTypes ==
  ASSUME Types, NEW t \in Tasks, Begin(t)
  PROVE  Types'
  <1>1. PICK x \in XactsOf[t] :
          /\ want' = [want EXCEPT ![t] = x]
          /\ met' = IF t \in Drivers
                      THEN [u \in Tasks |-> IF u \in Programs /\ ph[u] # "idle"
                                              THEN met[u] \cup {x} ELSE met[u]]
                      ELSE met
    BY DEF Begin
  <1>2. x \in Xact /\ x # NoXact
    BY SmbusAssumption
  <1>3. met' \in [Tasks -> SUBSET Xact]
    BY <1>1, <1>2 DEF Types, TypeOK
  <1>4. ph' = [ph EXCEPT ![t] = "clear"]
    BY DEF Begin, At
  <1>5. WantInv'
    BY <1>1, <1>2, <1>4 DEF Types, TypeOK, WantInv
  <1>6. TypeOK'
    BY <1>1, <1>2, <1>3, <1>4 DEF Types, TypeOK, Begin, controller
  <1> QED
    BY <1>5, <1>6 DEF Types

LEMMA LeaveTypes ==
  ASSUME Types, NEW t \in Tasks, Leave(t)
  PROVE  Types'
  <1>1. WantInv'
    BY DEF Types, TypeOK, WantInv, Leave
  <1>2. TypeOK'
    BY DEF Types, TypeOK, Leave, controller
  <1> QED
    BY <1>1, <1>2 DEF Types

LEMMA FinishTypes ==
  ASSUME Types, Finish
  PROVE  Types'
  <1>1. flight \in Xact
    BY DEF Finish, Busy, Types, TypeOK
  <1>2. CellOf(flight) \in Cells /\ flight.val \in Values
    BY <1>1, XactFields
  <1>0. cells \in [Cells -> Values] /\ HST_D0 \in Values /\ DEV_ERR \in BOOLEAN
    BY DEF Types, TypeOK
  <1>5. cells[CellOf(flight)] \in Values
    BY <1>0, <1>2
  <1>6. [cells EXCEPT ![CellOf(flight)] = flight.val] \in [Cells -> Values]
    BY <1>0, <1>2
  <1>3. cells' \in [Cells -> Values] /\ HST_D0' \in Values /\ DEV_ERR' \in BOOLEAN
    <2>1. CASE cells' = [cells EXCEPT ![CellOf(flight)] = flight.val] /\ UNCHANGED <<HST_D0, DEV_ERR>>
      BY <1>0, <1>6, <2>1
    <2>2. CASE HST_D0' = cells[CellOf(flight)] /\ UNCHANGED <<cells, DEV_ERR>>
      BY <1>0, <1>5, <2>2
    <2>3. CASE DEV_ERR' = TRUE /\ UNCHANGED <<cells, HST_D0>>
      BY <1>0, <2>3
    <2> QED
      BY <2>1, <2>2, <2>3 DEF Finish
  <1>4. WantInv'
    BY DEF Types, WantInv, Finish, call
  <1> QED
    BY <1>3, <1>4 DEF Types, TypeOK, Finish, call

\* The phases after the beginning, and where they lead.
LEMMA StepPhase ==
  ASSUME Types, NEW t \in Tasks, Step(t), ~Return(t)
  PROVE  /\ ph[t] # "idle" /\ ph' = [ph EXCEPT ![t] = ph'[t]]
         /\ ph'[t] \in Phases \ {"idle"} /\ CanRun(t)
         /\ want' = want /\ met' = met /\ cells' = cells
  <1>1. ph \in [Tasks -> Phases]
    BY DEF Types, TypeOK, Phases
  <1>2. ASSUME NEW from \in Phases \ {"idle"}, NEW to \in Phases \ {"idle"}, At(t, from, to)
        PROVE  /\ ph[t] # "idle" /\ ph' = [ph EXCEPT ![t] = ph'[t]]
               /\ ph'[t] \in Phases \ {"idle"} /\ CanRun(t)
    BY <1>1, <1>2 DEF At
  <1>3. CASE ClearStatus(t)
    BY <1>2, <1>3 DEF ClearStatus, call, Phases
  <1>4. CASE TestBusy(t)
    <2>1. (IF Busy THEN "clear" ELSE "cmd") \in Phases \ {"idle"} /\ "test" \in Phases \ {"idle"}
      BY DEF Phases
    <2> QED
      BY <1>2, <1>4, <2>1 DEF TestBusy, call, controller
  <1>11. CASE GiveUp(t)
    BY <1>2, <1>11 DEF GiveUp, controller, Phases
  <1>5. CASE SetCommand(t)
    BY <1>2, <1>5 DEF SetCommand, call, Phases
  <1>6. CASE SetAddress(t)
    <2>1. /\ (IF want[t].rw = "w" THEN "data" ELSE "start") \in Phases \ {"idle"}
          /\ "slva" \in Phases \ {"idle"}
      BY DEF Phases
    <2> QED
      BY <1>2, <1>6, <2>1 DEF SetAddress, call
  <1>7. CASE SetData(t)
    BY <1>2, <1>7 DEF SetData, call, Phases
  <1>8. CASE Start(t)
    BY <1>2, <1>8 DEF Start, call, Phases
  <1>9. CASE Check(t)
    <2>1. /\ (IF want[t].rw = "r" THEN "fetch" ELSE "done") \in Phases \ {"idle"}
          /\ "check" \in Phases \ {"idle"}
      BY DEF Phases
    <2> QED
      BY <1>2, <1>9, <2>1 DEF Check, controller
  <1>10. CASE Fetch(t)
    BY <1>2, <1>10 DEF Fetch, controller, Phases
  <1> QED
    BY <1>3, <1>4, <1>5, <1>6, <1>7, <1>8, <1>9, <1>10, <1>11 DEF Step

\* Who goes on although the controller is busy, and what becomes of smb_err.
LEMMA StepHasty ==
  ASSUME Types, NEW t \in Tasks, Step(t), ~Return(t)
  PROVE  \/ hasty' = hasty /\ ~GiveUp(t) /\ ~(Check(t) /\ Busy)
         \/ /\ GiveUp(t) \/ Check(t)
            /\ Busy /\ flight' = flight
            /\ \E how \in {"wait", "look"} : Hurry(t, how) /\ (how = "look" \/ GiveUp(t))
  <1> DEFINE Concl ==
        \/ hasty' = hasty /\ ~GiveUp(t) /\ ~(Check(t) /\ Busy)
        \/ /\ GiveUp(t) \/ Check(t)
           /\ Busy /\ flight' = flight
           /\ \E how \in {"wait", "look"} : Hurry(t, how) /\ (how = "look" \/ GiveUp(t))
  <1>0. ph \in [Tasks -> Phases]
    BY DEF Types, TypeOK, Phases
  <1>1. CASE GiveUp(t)
    BY <1>1 DEF GiveUp, controller
  <1>2. CASE Check(t) /\ Busy
    BY <1>2 DEF Check, controller
  <1>3. CASE ~GiveUp(t) /\ ~(Check(t) /\ Busy)
    <2>1. hasty' = hasty
      BY <1>3 DEF Step, ClearStatus, TestBusy, SetCommand, SetAddress, SetData, Start, Check, Fetch,
                  call
    <2> QED
      BY <1>3, <2>1
  <1> QED
    BY <1>1, <1>2, <1>3

LEMMA HurryTypes ==
  ASSUME hasty \in [Tasks -> SUBSET Ways], NEW t \in Tasks, NEW how \in {"wait", "look"},
         Hurry(t, how)
  PROVE  /\ hasty' \in [Tasks -> SUBSET Ways]
         /\ \A u \in Tasks : hasty[u] \subseteq hasty'[u]
         /\ how \in hasty'[t]
         /\ hasty'[t] = hasty[t] \cup {how}
         /\ \A u \in Tasks \ {t} :
              hasty'[u] = IF t \in Drivers /\ u \in Programs /\ ph[u] # "idle"
                            THEN hasty[u] \cup {"driver"} ELSE hasty[u]
  BY DEF Hurry, Ways

\* Nobody gets less hasty in a step.
LEMMA StepHastier ==
  ASSUME Types, NEW t \in Tasks, Step(t), ~Return(t)
  PROVE  /\ hasty' \in [Tasks -> SUBSET Ways]
         /\ \A u \in Tasks : hasty[u] \subseteq hasty'[u]
  <1>1. hasty \in [Tasks -> SUBSET Ways]
    BY DEF Types, TypeOK, Ways
  <1>2. hasty' = hasty \/ \E how \in {"wait", "look"} : Hurry(t, how)
    BY StepHasty
  <1> QED
    BY <1>1, <1>2, HurryTypes

LEMMA StepTypes ==
  ASSUME Types, NEW t \in Tasks, Step(t), ~Return(t)
  PROVE  Types'
  <1>1. /\ ph[t] # "idle" /\ ph' = [ph EXCEPT ![t] = ph'[t]]
        /\ ph'[t] \in Phases \ {"idle"}
        /\ want' = want /\ met' = met /\ cells' = cells
    BY StepPhase
  <1>2. WantInv'
    BY <1>1 DEF Types, TypeOK, WantInv
  <1>3. ph' \in [Tasks -> Phases]
    BY <1>1 DEF Types, TypeOK, Phases
  <1>4. want[t] \in Xact
    BY <1>1, WantIn
  <1>5. /\ want[t].reg \in Regs /\ <<want[t].rw, want[t].dev>> \in {"r", "w"} \X Devices
        /\ want[t].val \in Values
    BY <1>4, XactFields
  <1>6. [rw |-> XMIT_SLVA[1], dev |-> XMIT_SLVA[2], reg |-> HST_CMD, val |-> HST_D0] \in Xact
    BY DEF Types, TypeOK, Xact
  <1>7. /\ HST_CMD' \in Regs /\ XMIT_SLVA' \in {"r", "w"} \X Devices /\ HST_D0' \in Values
        /\ DEV_ERR' \in BOOLEAN /\ flight' \in Xact \cup {NoXact}
        /\ smb_err' \in [Tasks -> BOOLEAN] /\ value' \in [Tasks -> Values]
    <2> USE DEF Types, TypeOK
    <2>1. CASE ClearStatus(t)
      BY <2>1 DEF ClearStatus, call
    <2>2. CASE TestBusy(t)
      BY <2>2 DEF TestBusy, call, controller
    <2>9. CASE GiveUp(t)
      <3>1. (t \in Drivers) \in BOOLEAN
        OBVIOUS
      <3> QED
        BY <2>9, <3>1 DEF GiveUp, controller
    <2>3. CASE SetCommand(t)
      BY <1>5, <2>3 DEF SetCommand, call
    <2>4. CASE SetAddress(t)
      BY <1>5, <2>4 DEF SetAddress, call
    <2>5. CASE SetData(t)
      BY <1>5, <2>5 DEF SetData, call
    <2>6. CASE Start(t)
      BY <1>6, <2>6 DEF Start, call
    <2>7. CASE Check(t)
      BY <2>7 DEF Check, controller
    <2>8. CASE Fetch(t)
      BY <2>8 DEF Fetch, controller
    <2> QED
      BY <2>1, <2>2, <2>3, <2>4, <2>5, <2>6, <2>7, <2>8, <2>9 DEF Step
  <1>8. hasty' \in [Tasks -> SUBSET Ways]
    BY StepHastier
  <1> QED
    BY <1>1, <1>2, <1>3, <1>7, <1>8 DEF Types, TypeOK, Phases, Ways

LEMMA NextTypes == Types /\ [Next]_vars => Types'
  <1> SUFFICES ASSUME Types, [Next]_vars PROVE Types'
    OBVIOUS
  <1>1. CASE Finish
    BY <1>1, FinishTypes
  <1>2. ASSUME NEW t \in Tasks, Begin(t) PROVE Types'
    BY <1>2, BeginTypes
  <1>3. ASSUME NEW t \in Tasks, Return(t) \/ Kill(t) PROVE Types'
    BY <1>3, LeaveTypes DEF Return, Kill
  <1>4. ASSUME NEW t \in Tasks, Step(t), ~Return(t) PROVE Types'
    BY <1>4, StepTypes
  <1>5. CASE UNCHANGED vars
    BY <1>5 DEF vars, Types, TypeOK, WantInv
  <1> QED
    BY <1>1, <1>2, <1>3, <1>4, <1>5 DEF Next

\* The types of the controller's registers and of its users' state.
THEOREM TypeCorrect == Spec => []TypeOK
  <1>1. Spec => []Types
    BY InitTypes, NextTypes, PTL DEF Spec
  <1>2. Types => TypeOK
    BY DEF Types
  <1> QED
    BY <1>1, <1>2, PTL

-----------------------------------------------------------------------------
(* Who runs. *)

\* At most one driver is in its function; a program that has met none is
\* alone, and one that is interrupted has met the driver.
Alone ==
  /\ \A d, e \in Drivers : ph[d] # "idle" /\ ph[e] # "idle" => d = e
  /\ \A p \in Programs, d \in Drivers :
       ph[p] # "idle" /\ ph[d] # "idle" => want[d] \in met[p]

LEMMA InitAlone == Init => Alone
  BY DEF Init, Alone, Tasks

LEMMA NextAlone == Types /\ Alone /\ [Next]_vars => Alone'
  <1> SUFFICES ASSUME Types, Alone, [Next]_vars PROVE Alone'
    OBVIOUS
  <1>0. /\ ph \in [Tasks -> Phases] /\ want \in [Tasks -> Xact \cup {NoXact}]
        /\ met \in [Tasks -> SUBSET Xact]
    BY DEF Types, TypeOK, Phases
  <1>1. CASE Finish \/ UNCHANGED vars
    BY <1>1 DEF Finish, call, vars, Alone
  <1>2. ASSUME NEW t \in Tasks, Begin(t) PROVE Alone'
    <2>1. PICK x \in XactsOf[t] :
            /\ want' = [want EXCEPT ![t] = x]
            /\ met' = IF t \in Drivers
                        THEN [u \in Tasks |-> IF u \in Programs /\ ph[u] # "idle"
                                                THEN met[u] \cup {x} ELSE met[u]]
                        ELSE met
      BY <1>2 DEF Begin
    <2>2. /\ ph' = [ph EXCEPT ![t] = "clear"] /\ ph[t] = "idle"
          /\ \A d \in Drivers \ {t} : ph[d] = "idle"
      BY <1>2 DEF Begin, At, CanRun
    <2>3. \A d, e \in Drivers : ph'[d] # "idle" /\ ph'[e] # "idle" => d = e
      BY <1>0, <2>2 DEF Tasks
    <2>4. ASSUME NEW p \in Programs, NEW d \in Drivers, ph'[p] # "idle", ph'[d] # "idle"
          PROVE  want'[d] \in met'[p]
      <3>1. d = t
        BY <1>0, <2>2, <2>4 DEF Tasks
      <3>2. p # t
        BY <3>1, SmbusAssumption
      <3>3. ph[p] # "idle"
        BY <1>0, <2>2, <2>4, <3>2 DEF Tasks
      <3> QED
        BY <1>0, <2>1, <3>1, <3>3 DEF Tasks
    <2> QED
      BY <2>3, <2>4 DEF Alone
  <1>3. ASSUME NEW t \in Tasks, Return(t) \/ Kill(t) PROVE Alone'
    <2>1. /\ ph' = [ph EXCEPT ![t] = "idle"] /\ want' = [want EXCEPT ![t] = NoXact]
          /\ met' = [met EXCEPT ![t] = {}]
      BY <1>3 DEF Return, Kill, Leave
    <2>2. \A u \in Tasks : ph'[u] # "idle" => /\ ph[u] # "idle" /\ want'[u] = want[u]
                                             /\ met'[u] = met[u]
      BY <1>0, <2>1
    <2> QED
      BY <2>2 DEF Alone, Tasks
  <1>4. ASSUME NEW t \in Tasks, Step(t), ~Return(t) PROVE Alone'
    <2>1. /\ ph[t] # "idle" /\ ph' = [ph EXCEPT ![t] = ph'[t]]
          /\ want' = want /\ met' = met
      BY <1>4, StepPhase
    <2>2. \A u \in Tasks : ph'[u] # "idle" => ph[u] # "idle"
      BY <1>0, <2>1
    <2> QED
      BY <2>1, <2>2 DEF Alone, Tasks
  <1> QED
    BY <1>1, <1>2, <1>3, <1>4 DEF Next

-----------------------------------------------------------------------------
(* Who has waited. *)

\* Nobody comes hasty; a driver is so by itself only, and reports a wait that
\* has failed.
Hastes ==
  /\ \A t \in Tasks : ph[t] = "idle" => hasty[t] = {}
  /\ \A d \in Drivers : "driver" \notin hasty[d] /\ ("wait" \in hasty[d] => smb_err[d])

LEMMA InitHastes == Init => Hastes
  BY DEF Init, Hastes, Tasks

LEMMA NextHastes == Types /\ Hastes /\ [Next]_vars => Hastes'
  <1> SUFFICES ASSUME Types, Hastes, [Next]_vars PROVE Hastes'
    OBVIOUS
  <1>0. /\ ph \in [Tasks -> Phases] /\ hasty \in [Tasks -> SUBSET Ways]
        /\ smb_err \in [Tasks -> BOOLEAN]
    BY DEF Types, TypeOK, Phases, Ways
  <1>1. CASE Finish \/ UNCHANGED vars
    BY <1>1 DEF Finish, call, vars, Hastes
  <1>2. ASSUME NEW t \in Tasks, Begin(t) PROVE Hastes'
    <2>1. /\ ph[t] = "idle" /\ ph' = [ph EXCEPT ![t] = "clear"] /\ hasty' = hasty
          /\ smb_err' = [smb_err EXCEPT ![t] = FALSE]
      BY <1>2 DEF Begin, At
    <2>2. hasty[t] = {}
      BY <2>1 DEF Hastes
    <2> QED
      BY <1>0, <2>1, <2>2 DEF Hastes, Tasks
  <1>3. ASSUME NEW t \in Tasks, Return(t) \/ Kill(t) PROVE Hastes'
    <2>1. /\ ph' = [ph EXCEPT ![t] = "idle"] /\ hasty' = [hasty EXCEPT ![t] = {}]
          /\ smb_err' = smb_err
      BY <1>3 DEF Return, Kill, Leave
    <2> QED
      BY <1>0, <2>1 DEF Hastes, Tasks
  <1>4. ASSUME NEW t \in Tasks, Step(t), ~Return(t) PROVE Hastes'
    <2>1. /\ ph[t] # "idle" /\ ph' = [ph EXCEPT ![t] = ph'[t]] /\ ph'[t] # "idle"
      BY <1>4, StepPhase
    <2>2. CASE hasty' = hasty /\ ~GiveUp(t)
      <3>1. smb_err' = smb_err \/ \E e \in BOOLEAN : smb_err' = [smb_err EXCEPT ![t] = @ \/ e]
        BY <1>4, <2>2 DEF Step, ClearStatus, TestBusy, SetCommand, SetAddress, SetData, Start,
                         Check, Fetch, controller, call, Types, TypeOK
      <3>2. \A u \in Tasks : smb_err[u] => smb_err'[u]
        BY <1>0, <3>1
      <3> QED
        BY <1>0, <2>1, <2>2, <3>2 DEF Hastes, Tasks
    <2>3. ASSUME GiveUp(t) \/ Check(t), NEW how \in {"wait", "look"}, Hurry(t, how),
                 how = "look" \/ GiveUp(t)
          PROVE  Hastes'
      <3>1. /\ hasty'[t] = hasty[t] \cup {how}
            /\ \A u \in Tasks \ {t} :
                 hasty'[u] = IF t \in Drivers /\ u \in Programs /\ ph[u] # "idle"
                               THEN hasty[u] \cup {"driver"} ELSE hasty[u]
        BY <1>0, <2>3, HurryTypes
      <3>2. \A u \in Tasks \ {t} : smb_err'[u] = smb_err[u]
        BY <1>0, <2>3 DEF GiveUp, Check
      <3>3. GiveUp(t) => (smb_err'[t] = (t \in Drivers))
        BY <1>0 DEF GiveUp
      <3>4. ~GiveUp(t) => how = "look" /\ (smb_err[t] => smb_err'[t])
        BY <1>0, <2>3 DEF Check
      <3>5. ASSUME NEW u \in Tasks, ph'[u] = "idle" PROVE hasty'[u] = {}
        <4>1. u # t /\ ph[u] = "idle"
          BY <1>0, <2>1, <3>5
        <4> QED
          BY <3>1, <4>1 DEF Hastes
      <3>6. ASSUME NEW d \in Drivers
            PROVE  "driver" \notin hasty'[d] /\ ("wait" \in hasty'[d] => smb_err'[d])
        <4>1. d \in Tasks /\ d \notin Programs
          BY SmbusAssumption DEF Tasks
        <4>2. CASE d = t
          BY <3>1, <3>3, <3>4, <3>6, <4>2 DEF Hastes
        <4>3. CASE d # t
          BY <3>1, <3>2, <4>1, <4>3 DEF Hastes
        <4> QED
          BY <4>2, <4>3
      <3> QED
        BY <3>5, <3>6 DEF Hastes
    <2> QED
      BY <1>4, <2>2, <2>3, StepHasty
  <1> QED
    BY <1>1, <1>2, <1>3, <1>4 DEF Next

\* A driver that is hasty has made the programs so that it has interrupted.
Spoilt ==
  \A p \in Programs, d \in Drivers :
    ph[p] # "idle" /\ ph[d] # "idle" /\ hasty[d] # {} => hasty[p] # {}

LEMMA InitSpoilt == Init => Spoilt
  BY DEF Init, Spoilt, Tasks

LEMMA NextSpoilt == Types /\ Hastes /\ Spoilt /\ [Next]_vars => Spoilt'
  <1> SUFFICES ASSUME Types, Hastes, Spoilt, [Next]_vars PROVE Spoilt'
    OBVIOUS
  <1>0. ph \in [Tasks -> Phases] /\ hasty \in [Tasks -> SUBSET Ways]
    BY DEF Types, TypeOK, Phases, Ways
  <1>1. CASE Finish \/ UNCHANGED vars
    BY <1>1 DEF Finish, call, vars, Spoilt
  <1>2. ASSUME NEW t \in Tasks, Begin(t) PROVE Spoilt'
    <2>1. /\ ph[t] = "idle" /\ ph' = [ph EXCEPT ![t] = "clear"] /\ hasty' = hasty
          /\ \A d \in Drivers \ {t} : ph[d] = "idle"
      BY <1>2 DEF Begin, At, CanRun
    <2>2. hasty[t] = {} /\ \A d \in Drivers \ {t} : hasty[d] = {}
      BY <2>1 DEF Hastes, Tasks
    <2> QED
      BY <1>0, <2>1, <2>2 DEF Spoilt, Tasks
  <1>3. ASSUME NEW t \in Tasks, Return(t) \/ Kill(t) PROVE Spoilt'
    <2>1. ph' = [ph EXCEPT ![t] = "idle"] /\ hasty' = [hasty EXCEPT ![t] = {}]
      BY <1>3 DEF Return, Kill, Leave
    <2> QED
      BY <1>0, <2>1 DEF Spoilt, Tasks
  <1>4. ASSUME NEW t \in Tasks, Step(t), ~Return(t) PROVE Spoilt'
    <2>1. /\ ph[t] # "idle" /\ ph' = [ph EXCEPT ![t] = ph'[t]]
          /\ \A u \in Tasks : ph'[u] # "idle" => ph[u] # "idle"
      BY <1>0, <1>4, StepPhase
    <2>2. CASE hasty' = hasty
      BY <2>1, <2>2 DEF Spoilt, Tasks
    <2>3. ASSUME NEW how \in {"wait", "look"}, Hurry(t, how),
                 NEW p \in Programs, NEW d \in Drivers, ph'[p] # "idle", ph'[d] # "idle",
                 hasty'[d] # {}
          PROVE  hasty'[p] # {}
      <3>0. p \in Tasks /\ d \in Tasks /\ d \notin Programs /\ p \notin Drivers
        BY SmbusAssumption DEF Tasks
      <3>1. /\ hasty[p] \subseteq hasty'[p] /\ how \in hasty'[t]
            /\ \A u \in Tasks \ {t} :
                 hasty'[u] = IF t \in Drivers /\ u \in Programs /\ ph[u] # "idle"
                               THEN hasty[u] \cup {"driver"} ELSE hasty[u]
        BY <1>0, <2>3, <3>0, HurryTypes
      <3>2. ph[p] # "idle" /\ ph[d] # "idle"
        BY <2>1, <2>3, <3>0
      <3>3. CASE t = p
        BY <3>1, <3>3
      <3>4. CASE t = d
        BY <3>0, <3>1, <3>2, <3>4
      <3>5. CASE t # p /\ t # d
        <4>1. hasty[d] # {}
          BY <2>3, <3>0, <3>1, <3>5
        <4> QED
          BY <3>1, <3>2, <4>1 DEF Spoilt
      <3> QED
        BY <3>3, <3>4, <3>5
    <2>4. hasty' = hasty \/ \E how \in {"wait", "look"} : Hurry(t, how)
      BY <1>4, StepHasty
    <2> QED
      BY <2>2, <2>3, <2>4 DEF Spoilt
  <1> QED
    BY <1>1, <1>2, <1>3, <1>4 DEF Next

-----------------------------------------------------------------------------
(* A task that nobody has interrupted, and that has waited. *)

\* The data register is right, or of no account.
Served(x) == IF x.rw = "w" THEN cells[CellOf(x)] = x.val ELSE HST_D0 = cells[CellOf(x)]

\* What the registers hold of the transaction of such a task, step by step.
Own(t) ==
  LET x == want[t] IN
  /\ ph[t] \in Setting \cup {"fetch", "done"} => ~Busy
  /\ ph[t] \in {"slva", "data", "start", "check", "fetch", "done"} => HST_CMD = x.reg
  /\ ph[t] \in {"data", "start", "check", "fetch", "done"} => XMIT_SLVA = <<x.rw, x.dev>>
  /\ ph[t] = "data" => x.rw = "w"
  /\ ph[t] \in {"start", "check", "fetch", "done"} /\ x.rw = "w" => HST_D0 = x.val
  /\ ph[t] = "check" /\ Busy =>
       /\ flight.rw = x.rw /\ flight.dev = x.dev /\ flight.reg = x.reg
       /\ x.rw = "w" => flight.val = x.val
  /\ ph[t] = "check" /\ ~Busy /\ ~DEV_ERR => Served(x)
  /\ ph[t] = "fetch" => x.rw = "r" /\ (~smb_err[t] => Served(x))
  /\ ph[t] = "done" /\ ~smb_err[t] => Done(t)

\* What they hold of the transaction of a driver that has not waited, too.
Holds(t) ==
  LET x == want[t] IN
  /\ ph[t] \in {"slva", "data", "start", "check", "fetch", "done"} => HST_CMD = x.reg
  /\ ph[t] \in {"data", "start", "check", "fetch", "done"} => XMIT_SLVA = <<x.rw, x.dev>>

LEMMA HoldsStep ==
  ASSUME Types, NEW t \in Tasks, Holds(t), Step(t), ~Return(t)
  PROVE  Holds(t)'
  <1>0. ph \in [Tasks -> Phases] /\ want' = want
    BY StepPhase DEF Types, TypeOK, Phases
  <1>1. CASE ClearStatus(t) \/ TestBusy(t) \/ GiveUp(t)
    <2>1. ph'[t] \in {"test", "clear", "cmd"}
      BY <1>0, <1>1 DEF ClearStatus, TestBusy, GiveUp, At
    <2> QED
      BY <2>1 DEF Holds
  <1>2. CASE SetCommand(t)
    <2>1. ph[t] = "cmd" /\ ph'[t] = "slva" /\ HST_CMD' = want[t].reg
      BY <1>0, <1>2 DEF SetCommand, At
    <2> QED
      BY <1>0, <2>1 DEF Holds
  <1>3. CASE SetAddress(t)
    <2>1. /\ ph[t] = "slva" /\ HST_CMD' = HST_CMD
          /\ XMIT_SLVA' = <<want[t].rw, want[t].dev>>
      BY <1>3 DEF SetAddress, At
    <2> QED
      BY <1>0, <2>1 DEF Holds
  <1>4. CASE SetData(t) \/ Start(t) \/ Check(t) \/ Fetch(t)
    <2>1. /\ ph[t] \in {"data", "start", "check", "fetch"}
          /\ HST_CMD' = HST_CMD /\ XMIT_SLVA' = XMIT_SLVA
      BY <1>4 DEF SetData, Start, Check, Fetch, At, controller
    <2> QED
      BY <1>0, <2>1 DEF Holds
  <1> QED
    BY <1>1, <1>2, <1>3, <1>4 DEF Step

LEMMA OwnFinish ==
  ASSUME Types, NEW t \in Tasks, Own(t), Finish
  PROVE  Own(t)'
  <1> DEFINE x == want[t]
  <1>1. /\ Busy /\ ~Busy' /\ ph' = ph /\ want' = want /\ HST_CMD' = HST_CMD
        /\ XMIT_SLVA' = XMIT_SLVA /\ smb_err' = smb_err /\ value' = value
    BY DEF Finish, call, Busy
  <1>2. CASE ph[t] \in {"idle", "clear", "test"}
    BY <1>1, <1>2 DEF Own, Setting
  <1>3. CASE ph[t] = "check"
    <2>1. /\ flight.rw = x.rw /\ flight.dev = x.dev /\ flight.reg = x.reg
          /\ x.rw = "w" => flight.val = x.val
          /\ HST_CMD = x.reg /\ XMIT_SLVA = <<x.rw, x.dev>>
          /\ x.rw = "w" => HST_D0 = x.val
      BY <1>1, <1>3 DEF Own
    <2>2. CellOf(flight) = CellOf(x)
      BY <2>1 DEF CellOf
    <2>3. x \in Xact
      BY <1>3, WantIn
    <2>4. x.rw \in {"r", "w"} /\ CellOf(x) \in Cells
      BY <2>3, XactFields
    <2>5. x.rw = "w" => HST_D0' = x.val
      BY <2>1 DEF Finish
    <2>6. CASE flight.rw = "w" /\ cells' = [cells EXCEPT ![CellOf(flight)] = flight.val]
      <3>1. cells'[CellOf(x)] = x.val
        BY <2>1, <2>2, <2>4, <2>6 DEF Types, TypeOK
      <3>2. (CellOf(x))' = CellOf(x)
        BY <1>1 DEF CellOf
      <3>3. Served(x)'
        BY <1>1, <2>1, <2>6, <3>1, <3>2 DEF Served
      <3> QED
        BY <1>1, <1>3, <2>1, <2>5, <3>3 DEF Own, Setting
    <2>7. CASE flight.rw = "r" /\ HST_D0' = cells[CellOf(flight)] /\ cells' = cells
      <3>1. (CellOf(x))' = CellOf(x)
        BY <1>1 DEF CellOf
      <3>2. Served(x)'
        BY <1>1, <2>1, <2>2, <2>7, <3>1 DEF Served
      <3> QED
        BY <1>1, <1>3, <2>1, <2>5, <3>2 DEF Own, Setting
    <2>8. CASE DEV_ERR'
      BY <1>1, <1>3, <2>1, <2>5, <2>8 DEF Own, Setting
    <2> QED
      BY <2>6, <2>7, <2>8 DEF Finish
  <1>4. ph[t] \in Phases /\ ph[t] \notin Setting \cup {"fetch", "done"}
    BY <1>1 DEF Own, Types, TypeOK, Phases
  <1> QED
    BY <1>2, <1>3, <1>4 DEF Phases, Setting

LEMMA OwnStep ==
  ASSUME Types, NEW t \in Tasks, Own(t), Step(t), ~Return(t), hasty'[t] = {}
  PROVE  Own(t)'
  <1> DEFINE x == want[t]
  <1>0. /\ ph \in [Tasks -> Phases] /\ want' = want /\ cells' = cells
        /\ smb_err \in [Tasks -> BOOLEAN] /\ value \in [Tasks -> Values]
    BY StepPhase DEF Types, TypeOK, Phases
  <1>1. x \in Xact
    BY StepPhase, WantIn
  <1>2. x.rw \in {"r", "w"}
    BY <1>1, XactFields
  <1>11. ~GiveUp(t) /\ ~(Check(t) /\ Busy)
    <2>1. hasty \in [Tasks -> SUBSET Ways]
      BY DEF Types, TypeOK, Ways
    <2> QED
      BY <2>1, StepHasty, HurryTypes
  <1>3. CASE ClearStatus(t)
    <2>1. ph'[t] = "test"
      BY <1>0, <1>3 DEF ClearStatus, At
    <2> QED
      BY <2>1 DEF Own, Setting
  <1>4. CASE TestBusy(t)
    <2>1. ph'[t] = "clear" \/ (ph'[t] = "cmd" /\ ~Busy')
      BY <1>0, <1>4 DEF TestBusy, At, controller, Busy
    <2> QED
      BY <2>1 DEF Own, Setting
  <1>5. CASE SetCommand(t)
    <2>1. /\ ph[t] = "cmd" /\ ph'[t] = "slva" /\ HST_CMD' = x.reg /\ flight' = flight
      BY <1>0, <1>5 DEF SetCommand, At
    <2>2. ~Busy /\ ~Busy'
      BY <2>1 DEF Own, Setting, Busy
    <2> QED
      BY <1>0, <2>1, <2>2 DEF Own, Setting
  <1>6. CASE SetAddress(t)
    <2>1. /\ ph[t] = "slva" /\ ph'[t] = (IF x.rw = "w" THEN "data" ELSE "start")
          /\ HST_CMD' = HST_CMD /\ XMIT_SLVA' = <<x.rw, x.dev>> /\ flight' = flight
      BY <1>0, <1>6 DEF SetAddress, At
    <2>2. ~Busy /\ ~Busy' /\ HST_CMD = x.reg
      BY <2>1 DEF Own, Setting, Busy
    <2> QED
      BY <1>0, <2>1, <2>2 DEF Own, Setting
  <1>7. CASE SetData(t)
    <2>1. /\ ph[t] = "data" /\ ph'[t] = "start" /\ HST_CMD' = HST_CMD
          /\ XMIT_SLVA' = XMIT_SLVA /\ flight' = flight /\ HST_D0' = x.val
      BY <1>0, <1>7 DEF SetData, At
    <2>2. ~Busy /\ ~Busy' /\ HST_CMD = x.reg /\ XMIT_SLVA = <<x.rw, x.dev>>
      BY <2>1 DEF Own, Setting, Busy
    <2> QED
      BY <1>0, <2>1, <2>2 DEF Own, Setting
  <1>8. CASE Start(t)
    <2>1. /\ ph[t] = "start" /\ ph'[t] = "check" /\ HST_CMD' = HST_CMD
          /\ XMIT_SLVA' = XMIT_SLVA /\ HST_D0' = HST_D0
          /\ flight' = [rw |-> XMIT_SLVA[1], dev |-> XMIT_SLVA[2], reg |-> HST_CMD, val |-> HST_D0]
      <3>1. ph[t] = "start"
        BY <1>8 DEF Start, At
      <3>2. ~Busy
        BY <3>1 DEF Own, Setting
      <3> QED
        BY <1>0, <1>8, <3>1, <3>2 DEF Start, At
    <2>2. /\ HST_CMD = x.reg /\ XMIT_SLVA = <<x.rw, x.dev>>
          /\ x.rw = "w" => HST_D0 = x.val
      BY <2>1 DEF Own
    <2>3. /\ flight'.rw = x.rw /\ flight'.dev = x.dev /\ flight'.reg = x.reg
          /\ x.rw = "w" => flight'.val = x.val
      BY <2>1, <2>2
    <2>4. flight' \in Xact
      BY <2>1 DEF Types, TypeOK, Xact
    <2>5. Busy'
      BY <2>4, SmbusAssumption DEF Busy
    <2> QED
      BY <1>0, <2>1, <2>2, <2>3, <2>5 DEF Own, Setting
  <1>9. CASE Check(t)
    <2>1. /\ ph[t] = "check" /\ ph'[t] = (IF x.rw = "r" THEN "fetch" ELSE "done")
          /\ HST_CMD' = HST_CMD /\ XMIT_SLVA' = XMIT_SLVA /\ HST_D0' = HST_D0
          /\ flight' = flight /\ ~Busy /\ ~Busy' /\ value' = value
      BY <1>0, <1>9, <1>11 DEF Check, At, controller, Busy
    <2>6. smb_err'[t] = (smb_err[t] \/ DEV_ERR)
      BY <1>0, <1>9 DEF Check
    <2>7. ~smb_err'[t] => ~DEV_ERR
      BY <2>6
    <2>2. /\ HST_CMD = x.reg /\ XMIT_SLVA = <<x.rw, x.dev>>
          /\ x.rw = "w" => HST_D0 = x.val
          /\ ~DEV_ERR => Served(x)
      BY <2>1 DEF Own
    <2>3. Served(x)' = Served(x) /\ CellOf(x)' = CellOf(x)
      BY <1>0, <2>1 DEF Served, CellOf
    <2>4. ph'[t] = "fetch" => x.rw = "r" /\ (~smb_err'[t] => Served(x)')
      BY <2>1, <2>2, <2>3, <2>7
    <2>5. ph'[t] = "done" /\ ~smb_err'[t] => Done(t)'
      <3>1. SUFFICES ASSUME x.rw = "w", ~DEV_ERR PROVE Done(t)'
        BY <1>2, <2>1, <2>7
      <3>2. cells[CellOf(x)] = x.val
        BY <2>2, <3>1 DEF Served
      <3> QED
        BY <1>0, <2>3, <3>1, <3>2 DEF Done
    <2> QED
      BY <1>0, <2>1, <2>2, <2>4, <2>5 DEF Own, Setting
  <1>10. CASE Fetch(t)
    <2>1. /\ ph[t] = "fetch" /\ ph'[t] = "done" /\ HST_CMD' = HST_CMD
          /\ XMIT_SLVA' = XMIT_SLVA /\ HST_D0' = HST_D0 /\ flight' = flight
          /\ value'[t] = HST_D0 /\ smb_err' = smb_err
      BY <1>0, <1>10 DEF Fetch, At, controller
    <2>2. /\ HST_CMD = x.reg /\ XMIT_SLVA = <<x.rw, x.dev>> /\ x.rw = "r"
          /\ ~smb_err[t] => Served(x)
          /\ ~Busy
      BY <2>1 DEF Own, Setting
    <2>3. ~smb_err[t] => HST_D0 = cells[CellOf(x)]
      BY <2>2 DEF Served
    <2>4. CellOf(x)' = CellOf(x) /\ ~Busy'
      BY <1>0, <2>1, <2>2 DEF CellOf, Busy
    <2>5. ~smb_err'[t] => Done(t)'
      BY <1>0, <2>1, <2>2, <2>3, <2>4 DEF Done
    <2> QED
      BY <1>0, <2>1, <2>2, <2>4, <2>5 DEF Own, Setting
  <1> QED
    BY <1>3, <1>4, <1>5, <1>6, <1>7, <1>8, <1>9, <1>10, <1>11 DEF Step

\* Whoever moves, a driver that is in its function goes on alone.
LEMMA OthersIdle ==
  ASSUME Types, NEW t \in Tasks, NEW u \in Tasks, u # t,
         Begin(u) \/ Step(u) \/ Kill(u)
  PROVE  /\ ph'[t] = ph[t]
         /\ t \in Drivers => ph[t] = "idle"
  <1>0. ph \in [Tasks -> Phases]
    BY DEF Types, TypeOK, Phases
  <1>1. CASE Begin(u)
    BY <1>0, <1>1 DEF Begin, At, CanRun
  <1>2. CASE Return(u) \/ Kill(u)
    BY <1>0, <1>2 DEF Return, Kill, CanRun, Leave
  <1>3. CASE Step(u) /\ ~Return(u)
    <2>1. ph' = [ph EXCEPT ![u] = ph'[u]] /\ CanRun(u)
      BY <1>3, StepPhase
    <2> QED
      BY <1>0, <2>1 DEF CanRun
  <1> QED
    BY <1>1, <1>2, <1>3

DriversOwn == \A d \in Drivers : Holds(d) /\ (hasty[d] = {} => Own(d))

LEMMA NextDriversOwn ==
  ASSUME Types, DriversOwn, [Next]_vars
  PROVE  DriversOwn'
  <1> SUFFICES ASSUME NEW d \in Drivers PROVE Holds(d)' /\ (hasty'[d] = {} => Own(d)')
    BY DEF DriversOwn
  <1>1. /\ d \in Tasks /\ Holds(d) /\ (hasty[d] = {} => Own(d)) /\ ph \in [Tasks -> Phases]
        /\ hasty \in [Tasks -> SUBSET Ways]
    BY DEF DriversOwn, Tasks, Types, TypeOK, Phases, Ways
  <1>2. CASE Finish
    <2>1. /\ HST_CMD' = HST_CMD /\ XMIT_SLVA' = XMIT_SLVA /\ ph' = ph /\ want' = want
          /\ hasty' = hasty
      BY <1>2 DEF Finish, call
    <2>2. Holds(d)'
      BY <1>1, <2>1 DEF Holds
    <2> QED
      BY <1>1, <1>2, <2>1, <2>2, OwnFinish
  <1>3. CASE UNCHANGED vars
    BY <1>1, <1>3 DEF vars, Own, Holds, Busy, Served, Done
  <1>4. ASSUME NEW u \in Tasks, u # d, Begin(u) \/ Step(u) \/ Kill(u)
        PROVE  Holds(d)' /\ Own(d)'
    <2>1. ph'[d] = "idle"
      BY <1>1, <1>4, OthersIdle
    <2> QED
      BY <2>1 DEF Own, Holds, Setting
  <1>5. CASE Begin(d) \/ Return(d) \/ Kill(d)
    <2>1. ph'[d] \in {"clear", "idle"}
      BY <1>1, <1>5 DEF Begin, Return, Kill, Leave, At
    <2> QED
      BY <2>1 DEF Own, Holds, Setting
  <1>6. CASE Step(d) /\ ~Return(d)
    <2>1. Holds(d)'
      BY <1>1, <1>6, HoldsStep
    <2>2. hasty'[d] = {} => hasty[d] = {}
      BY <1>1, <1>6, StepHastier
    <2> QED
      BY <1>1, <1>6, <2>1, <2>2, OwnStep
  <1> QED
    BY <1>2, <1>3, <1>4, <1>5, <1>6 DEF Next

LEMMA InitDriversOwn == Init => DriversOwn
  BY DEF Init, DriversOwn, Own, Holds, Setting, Tasks

\* The EEPROM driver waits until the controller is not busy, or sets smb_err,
\* and keeps the CPU until it has looked at the status: whatever programs it
\* has interrupted in the middle of theirs, a transfer that it takes for done
\* is done, unless it was not over when the driver looked.
THEOREM DriversServed == Spec => []DriverTransfersDone
  <1>1. Spec => [](Types /\ Hastes /\ DriversOwn)
    BY InitTypes, InitHastes, InitDriversOwn, NextTypes, NextHastes, NextDriversOwn, PTL DEF Spec
  <1>2. Types /\ Hastes /\ DriversOwn => DriverTransfersDone
    <2> SUFFICES ASSUME Types, Hastes, DriversOwn, NEW d \in Drivers, ph[d] = "done",
                        ~smb_err[d], "look" \notin hasty[d]
                 PROVE  Done(d)
      BY DEF DriverTransfersDone
    <2>1. d \in Tasks /\ hasty[d] \subseteq Ways
      BY DEF Types, TypeOK, Ways, Tasks
    <2>2. "wait" \notin hasty[d] /\ "driver" \notin hasty[d]
      BY DEF Hastes
    <2>3. hasty[d] = {}
      BY <2>1, <2>2 DEF Ways
    <2> QED
      BY <2>3 DEF DriversOwn, Own
  <1> QED
    BY <1>1, <1>2, PTL

-----------------------------------------------------------------------------
(* One program at a time. *)

OneProgram == \A p, q \in Programs : p = q

\* Who moves when program p does not.
LEMMA OtherIsDriver ==
  ASSUME OneProgram, Types, Alone, NEW p \in Programs, NEW u \in Tasks, u # p,
         Begin(u) \/ Step(u) \/ Kill(u)
  PROVE  /\ u \in Drivers /\ ph'[p] = ph[p] /\ want'[p] = want[p]
         /\ met[p] \subseteq met'[p]
         /\ ph[p] # "idle" /\ ph'[u] # "idle" => want'[u] \in met'[p]
         /\ ph[p] # "idle" => met'[p] # {}
  <1>0. /\ ph \in [Tasks -> Phases] /\ want \in [Tasks -> Xact \cup {NoXact}]
        /\ met \in [Tasks -> SUBSET Xact] /\ p \in Tasks
    BY DEF Types, TypeOK, Phases, Tasks
  <1>1. u \in Drivers
    BY DEF OneProgram, Tasks
  <1>2. CASE Begin(u)
    <2>1. PICK x \in XactsOf[u] :
            /\ want' = [want EXCEPT ![u] = x]
            /\ met' = [v \in Tasks |-> IF v \in Programs /\ ph[v] # "idle"
                                        THEN met[v] \cup {x} ELSE met[v]]
      BY <1>1, <1>2 DEF Begin
    <2>2. ph' = [ph EXCEPT ![u] = "clear"]
      BY <1>2 DEF Begin, At
    <2>3. want'[u] = x /\ want'[p] = want[p] /\ ph'[p] = ph[p]
      BY <1>0, <2>1, <2>2
    <2>4. met'[p] = IF ph[p] # "idle" THEN met[p] \cup {x} ELSE met[p]
      BY <1>0, <2>1
    <2> QED
      BY <1>1, <2>3, <2>4
  <1>3. CASE Return(u) \/ Kill(u)
    <2>1. /\ ph' = [ph EXCEPT ![u] = "idle"] /\ want' = [want EXCEPT ![u] = NoXact]
          /\ met' = [met EXCEPT ![u] = {}] /\ ph[u] # "idle"
      BY <1>3 DEF Return, Kill, Leave
    <2>2. ph'[p] = ph[p] /\ want'[p] = want[p] /\ met'[p] = met[p] /\ ph'[u] = "idle"
      BY <1>0, <2>1
    <2>3. ph[p] # "idle" => want[u] \in met[p]
      BY <1>1, <2>1 DEF Alone
    <2> QED
      BY <1>1, <2>2, <2>3
  <1>4. CASE Step(u) /\ ~Return(u)
    <2>1. /\ ph[u] # "idle" /\ ph' = [ph EXCEPT ![u] = ph'[u]]
          /\ want' = want /\ met' = met
      BY <1>4, StepPhase
    <2>2. ph[p] # "idle" => want[u] \in met[p]
      BY <1>1, <2>1 DEF Alone
    <2> QED
      BY <1>0, <1>1, <2>1, <2>2
  <1> QED
    BY <1>2, <1>3, <1>4

QuietOwn == \A p \in Programs : met[p] = {} /\ hasty[p] = {} => Own(p)

LEMMA NextQuietOwn ==
  ASSUME OneProgram, Types, Alone, QuietOwn, [Next]_vars
  PROVE  QuietOwn'
  <1> SUFFICES ASSUME NEW p \in Programs, met'[p] = {}, hasty'[p] = {} PROVE Own(p)'
    BY DEF QuietOwn
  <1>1. p \in Tasks /\ ph \in [Tasks -> Phases] /\ hasty \in [Tasks -> SUBSET Ways]
    BY DEF Tasks, Types, TypeOK, Phases, Ways
  <1>2. CASE Finish
    <2>1. met[p] = {} /\ hasty[p] = {}
      BY <1>2 DEF Finish, call
    <2> QED
      BY <1>1, <1>2, <2>1, OwnFinish DEF QuietOwn
  <1>3. CASE UNCHANGED vars
    <2>1. met[p] = {} /\ hasty[p] = {}
      BY <1>3 DEF vars
    <2>2. Own(p)
      BY <2>1 DEF QuietOwn
    <2> QED
      BY <1>3, <2>2 DEF vars, Own, Busy, Served, Done
  <1>4. ASSUME NEW u \in Tasks, u # p, Begin(u) \/ Step(u) \/ Kill(u) PROVE Own(p)'
    <2>1. ph'[p] = "idle"
      BY <1>4, OtherIsDriver
    <2> QED
      BY <2>1 DEF Own, Setting
  <1>5. CASE Begin(p) \/ Return(p) \/ Kill(p)
    <2>1. ph'[p] \in {"clear", "idle"}
      BY <1>1, <1>5 DEF Begin, Return, Kill, Leave, At
    <2> QED
      BY <2>1 DEF Own, Setting
  <1>6. CASE Step(p) /\ ~Return(p)
    <2>1. met[p] = {} /\ hasty[p] = {}
      BY <1>1, <1>6, StepPhase, StepHastier
    <2> QED
      BY <1>1, <1>6, <2>1, OwnStep DEF QuietOwn
  <1> QED
    BY <1>2, <1>3, <1>4, <1>5, <1>6 DEF Next

LEMMA InitQuietOwn == Init => QuietOwn
  BY DEF Init, QuietOwn, Own, Setting, Tasks

\* A transfer of pms that no call of the driver has interrupted, and that has
\* not gone on while the controller was busy, is done when it reports no
\* error, if no other program drives the controller.
THEOREM UndisturbedServed ==
  ASSUME OneProgram
  PROVE  Spec => []UndisturbedTransfersDone
  <1>1. Spec => [](Types /\ Alone /\ QuietOwn)
    BY InitTypes, InitAlone, InitQuietOwn, NextTypes, NextAlone, NextQuietOwn, PTL DEF Spec
  <1>2. QuietOwn => UndisturbedTransfersDone
    BY DEF QuietOwn, Own, UndisturbedTransfersDone
  <1> QED
    BY <1>1, <1>2, PTL

-----------------------------------------------------------------------------
(* The abstract bus. *)

DriversIdle == \A d \in Drivers : ph[d] = "idle"

\* What the registers hold of a program's transaction, and of the drivers'
\* that it has met, whenever the program may go on.
MixedReg(x, ys) == HST_CMD = x.reg \/ \E y \in ys : HST_CMD = y.reg
OwnAddress(x) == XMIT_SLVA = <<x.rw, x.dev>>
TheirAddress(y) == HST_CMD = y.reg /\ XMIT_SLVA = <<y.rw, y.dev>>
TheirData(x, y) == y.rw = "w" => HST_D0 = y.val \/ (x.rw = "w" /\ HST_D0 = x.val)

Setup(p) ==
  LET x == want[p]
      ys == met[p]
  IN /\ ph[p] \in Setting => ~Busy
     /\ ph[p] = "slva" => MixedReg(x, ys)
     /\ ph[p] = "data" => \/ MixedReg(x, ys) /\ OwnAddress(x)
                         \/ \E y \in ys : TheirAddress(y)
     /\ ph[p] = "start" =>
          \/ MixedReg(x, ys) /\ OwnAddress(x) /\ (x.rw = "w" => HST_D0 = x.val)
          \/ \E y \in ys : TheirAddress(y) /\ TheirData(x, y)

DataOfWrite(t) == ph[t] = "data" => want[t].rw = "w"

\* Somebody went on while the controller was busy: the data, and what else the
\* controller does, are lost.
Rest(p) ==
  LET x == want[p]
      ys == met[p]
  IN /\ ph[p] = "slva" => MixedReg(x, ys)
     /\ ph[p] \in {"data", "start"} => \/ MixedReg(x, ys) /\ OwnAddress(x)
                                      \/ \E y \in ys : TheirAddress(y)

MixInv ==
  \A p \in Programs :
    DataOfWrite(p) /\ (DriversIdle => Rest(p) /\ (hasty[p] = {} => Setup(p)))

LEMMA InitMixInv == Init => MixInv
  BY DEF Init, MixInv, DataOfWrite, Setup, Rest, Setting, Tasks

LEMMA RestStep ==
  ASSUME Types, NEW p \in Programs, Rest(p), Step(p), ~Return(p)
  PROVE  Rest(p)'
  <1> DEFINE x == want[p]
  <1> DEFINE ys == met[p]
  <1>0. ph \in [Tasks -> Phases] /\ want' = want /\ met' = met /\ p \in Tasks
    BY StepPhase DEF Types, TypeOK, Phases, Tasks
  <1>1. CASE ClearStatus(p) \/ TestBusy(p) \/ GiveUp(p) \/ Start(p) \/ Check(p) \/ Fetch(p)
    <2>1. ph'[p] \in {"test", "clear", "cmd", "check", "fetch", "done"}
      BY <1>0, <1>1 DEF ClearStatus, TestBusy, GiveUp, Start, Check, Fetch, At
    <2> QED
      BY <2>1 DEF Rest
  <1>2. CASE SetCommand(p)
    <2>1. ph[p] = "cmd" /\ ph'[p] = "slva" /\ HST_CMD' = x.reg
      BY <1>0, <1>2 DEF SetCommand, At
    <2>2. MixedReg(x, ys)'
      BY <1>0, <2>1 DEF MixedReg
    <2> QED
      BY <2>1, <2>2 DEF Rest
  <1>3. CASE SetAddress(p)
    <2>1. /\ ph[p] = "slva" /\ ph'[p] \in {"data", "start"}
          /\ HST_CMD' = HST_CMD /\ XMIT_SLVA' = <<x.rw, x.dev>>
      BY <1>0, <1>3 DEF SetAddress, At
    <2>2. MixedReg(x, ys)
      BY <2>1 DEF Rest
    <2>3. MixedReg(x, ys)' /\ OwnAddress(x)'
      BY <1>0, <2>1, <2>2 DEF MixedReg, OwnAddress
    <2> QED
      BY <2>1, <2>3 DEF Rest
  <1>4. CASE SetData(p)
    <2>1. /\ ph[p] = "data" /\ ph'[p] = "start"
          /\ HST_CMD' = HST_CMD /\ XMIT_SLVA' = XMIT_SLVA
      BY <1>0, <1>4 DEF SetData, At
    <2>2. \/ MixedReg(x, ys) /\ OwnAddress(x)
          \/ \E y \in ys : TheirAddress(y)
      BY <2>1 DEF Rest
    <2>3. \/ MixedReg(x, ys)' /\ OwnAddress(x)'
          \/ (\E y \in ys : TheirAddress(y))'
      BY <1>0, <2>1, <2>2 DEF MixedReg, OwnAddress, TheirAddress
    <2> QED
      BY <2>1, <2>3 DEF Rest
  <1> QED
    BY <1>1, <1>2, <1>3, <1>4 DEF Step

\* The program's own steps.
LEMMA SetupStep ==
  ASSUME Types, NEW p \in Programs, DataOfWrite(p), Step(p), ~Return(p)
  PROVE  /\ DataOfWrite(p)'
         /\ Setup(p) /\ ~GiveUp(p) => Setup(p)'
  <1> DEFINE x == want[p]
  <1> DEFINE ys == met[p]
  <1>00. DataOfWrite(p)'
    <2>1. ph' = [ph EXCEPT ![p] = ph'[p]] /\ want' = want /\ ph \in [Tasks -> Phases] /\ p \in Tasks
      BY StepPhase DEF Types, TypeOK, Phases, Tasks
    <2>2. ASSUME ph'[p] = "data" PROVE want[p].rw = "w"
      BY <2>1, <2>2 DEF Step, ClearStatus, TestBusy, GiveUp, SetCommand, SetAddress, SetData, Start,
                        Check, Fetch, At
    <2> QED
      BY <2>1, <2>2 DEF DataOfWrite
  <1> SUFFICES ASSUME Setup(p), ~GiveUp(p) PROVE Setup(p)'
    BY <1>00
  <1>0. ph \in [Tasks -> Phases] /\ want' = want /\ met' = met /\ p \in Tasks
    BY StepPhase DEF Types, TypeOK, Phases, Tasks
  <1>1. CASE ph'[p] \in {"clear", "test", "check", "fetch", "done"}
    BY <1>1 DEF Setup, Setting
  <1>2. CASE ClearStatus(p) \/ Start(p) \/ Check(p) \/ Fetch(p)
    <2>1. ph'[p] \in {"test", "check", "fetch", "done"}
      BY <1>0, <1>2 DEF ClearStatus, Start, Check, Fetch, At
    <2> QED
      BY <1>1, <2>1
  <1>3. CASE TestBusy(p)
    <2>1. ph'[p] = "clear" \/ (ph'[p] = "cmd" /\ ~Busy')
      BY <1>0, <1>3 DEF TestBusy, At, controller, Busy
    <2> QED
      BY <2>1 DEF Setup, Setting
  <1>4. CASE SetCommand(p)
    <2>1. ph[p] = "cmd" /\ ph'[p] = "slva" /\ HST_CMD' = x.reg /\ flight' = flight
      BY <1>0, <1>4 DEF SetCommand, At
    <2>2. ~Busy'
      BY <2>1 DEF Setup, Setting, Busy
    <2>3. MixedReg(x, ys)'
      BY <1>0, <2>1 DEF MixedReg
    <2> QED
      BY <2>1, <2>2, <2>3 DEF Setup, Setting
  <1>5. CASE SetAddress(p)
    <2>1. /\ ph[p] = "slva" /\ ph'[p] = (IF x.rw = "w" THEN "data" ELSE "start")
          /\ HST_CMD' = HST_CMD /\ XMIT_SLVA' = <<x.rw, x.dev>> /\ flight' = flight
      BY <1>0, <1>5 DEF SetAddress, At
    <2>2. ~Busy' /\ MixedReg(x, ys)
      BY <2>1 DEF Setup, Setting, Busy
    <2>3. MixedReg(x, ys)' /\ OwnAddress(x)'
      BY <1>0, <2>1, <2>2 DEF MixedReg, OwnAddress
    <2>4. ph'[p] = "data" => x'.rw = "w"
      BY <1>0, <2>1
    <2>5. ph'[p] = "start" => x'.rw # "w"
      BY <1>0, <2>1
    <2> QED
      BY <2>1, <2>2, <2>3, <2>4, <2>5 DEF Setup, Setting
  <1>6. CASE SetData(p)
    <2>1. /\ ph[p] = "data" /\ ph'[p] = "start" /\ HST_CMD' = HST_CMD
          /\ XMIT_SLVA' = XMIT_SLVA /\ flight' = flight /\ HST_D0' = x.val
      BY <1>0, <1>6 DEF SetData, At
    <2>2. /\ ~Busy' /\ x.rw = "w"
          /\ \/ MixedReg(x, ys) /\ OwnAddress(x)
             \/ \E y \in ys : TheirAddress(y)
      BY <2>1 DEF Setup, Setting, Busy, DataOfWrite
    <2>3. CASE MixedReg(x, ys) /\ OwnAddress(x)
      <3>1. MixedReg(x, ys)' /\ OwnAddress(x)' /\ HST_D0' = x'.val
        BY <1>0, <2>1, <2>3 DEF MixedReg, OwnAddress
      <3> QED
        BY <2>1, <2>2, <3>1 DEF Setup, Setting
    <2>4. CASE \E y \in ys : TheirAddress(y)
      <3>1. PICK y \in ys : TheirAddress(y)
        BY <2>4
      <3>2. y \in met'[p] /\ TheirAddress(y)'
        BY <1>0, <2>1, <3>1 DEF TheirAddress
      <3>3. x'.rw = "w" /\ HST_D0' = x'.val
        BY <1>0, <2>1, <2>2
      <3>4. TheirData(x, y)'
        BY <3>3 DEF TheirData
      <3>5. (\E z \in ys : TheirAddress(z) /\ TheirData(x, z))'
        BY <3>2, <3>4
      <3> QED
        BY <2>1, <2>2, <3>5 DEF Setup, Setting
    <2> QED
      BY <2>2, <2>3, <2>4
  <1> QED
    BY <1>2, <1>3, <1>4, <1>5, <1>6 DEF Step

\* A driver leaves its own transaction in the registers.
LEMMA RestAfterDriver ==
  ASSUME NEW d \in Drivers, NEW p \in Programs, Holds(d), ph[d] = "done", want[d] \in met[p]
  PROVE  Rest(p)
  BY DEF Holds, Rest, MixedReg, TheirAddress

LEMMA SetupAfterDriver ==
  ASSUME NEW d \in Drivers, NEW p \in Programs, Own(d), ph[d] = "done", want[d] \in met[p]
  PROVE  Setup(p)
  <1> DEFINE y == want[d]
  <1>1. /\ ~Busy /\ HST_CMD = y.reg /\ XMIT_SLVA = <<y.rw, y.dev>>
        /\ y.rw = "w" => HST_D0 = y.val
    BY DEF Own, Setting
  <1>2. MixedReg(want[p], met[p])
    BY <1>1 DEF MixedReg
  <1>3. \E z \in met[p] : TheirAddress(z) /\ TheirData(want[p], z)
    BY <1>1 DEF TheirAddress, TheirData
  <1> QED
    BY <1>1, <1>2, <1>3 DEF Setup, Setting

\* An idle program has nothing in the registers.
LEMMA SetupBegun ==
  ASSUME NEW p \in Programs, ph'[p] \in {"idle", "clear"}
  PROVE  Setup(p)' /\ Rest(p)' /\ DataOfWrite(p)'
  BY DEF Setup, Rest, Setting, DataOfWrite

LEMMA NextMixInv ==
  ASSUME OneProgram, Types, Alone, Spoilt, DriversOwn, MixInv, [Next]_vars
  PROVE  MixInv'
  <1> DEFINE Ready(p) == Rest(p) /\ (hasty[p] = {} => Setup(p))
  <1> SUFFICES ASSUME NEW p \in Programs PROVE DataOfWrite(p)' /\ (DriversIdle' => Ready(p)')
    BY DEF MixInv
  <1>1. /\ p \in Tasks /\ ph \in [Tasks -> Phases] /\ p \notin Drivers
        /\ hasty \in [Tasks -> SUBSET Ways]
    BY SmbusAssumption DEF Tasks, Types, TypeOK, Phases, Ways
  <1>2. DataOfWrite(p) /\ (DriversIdle => Ready(p))
    BY DEF MixInv
  <1>3. CASE Finish
    <2>1. /\ Busy /\ ~Busy' /\ ph' = ph /\ want' = want /\ met' = met /\ hasty' = hasty
          /\ HST_CMD' = HST_CMD /\ XMIT_SLVA' = XMIT_SLVA
      BY <1>3 DEF Finish, call, Busy
    <2>2. DataOfWrite(p)'
      BY <1>2, <2>1 DEF DataOfWrite
    <2>3. DriversIdle' => Rest(p)'
      BY <1>2, <2>1 DEF DriversIdle, Rest, MixedReg, OwnAddress, TheirAddress
    <2>4. DriversIdle' /\ hasty'[p] = {} => ph'[p] \notin Setting
      BY <1>2, <2>1 DEF DriversIdle, Setup
    <2>5. DriversIdle' /\ hasty'[p] = {} => Setup(p)'
      BY <2>4 DEF Setup, Setting
    <2> QED
      BY <2>2, <2>3, <2>5
  <1>4. CASE UNCHANGED vars
    <2>1. DataOfWrite(p)' /\ (DriversIdle' <=> DriversIdle)
      BY <1>2, <1>4 DEF vars, DataOfWrite, DriversIdle
    <2>2. Rest(p) => Rest(p)'
      BY <1>4 DEF vars, Rest, MixedReg, OwnAddress, TheirAddress
    <2>3. Setup(p) => Setup(p)'
      BY <1>4 DEF vars, Setup, Busy, MixedReg, OwnAddress, TheirAddress, TheirData
    <2>4. hasty' = hasty
      BY <1>4 DEF vars
    <2> QED
      BY <1>2, <2>1, <2>2, <2>3, <2>4
  <1>5. ASSUME NEW u \in Tasks, u # p, Begin(u) \/ Step(u) \/ Kill(u)
        PROVE  DataOfWrite(p)' /\ (DriversIdle' => Ready(p)')
    <2>1. /\ u \in Drivers /\ ph'[p] = ph[p] /\ want'[p] = want[p]
          /\ met[p] \subseteq met'[p]
      BY <1>5, OtherIsDriver
    <2>2. DataOfWrite(p)'
      BY <1>2, <2>1 DEF DataOfWrite
    <2>3. ASSUME DriversIdle' PROVE Ready(p)'
      <3>1. ph'[u] = "idle"
        BY <2>1, <2>3 DEF DriversIdle
      <3>2. ~Begin(u)
        BY <1>1, <3>1 DEF Begin, At
      <3>3. Return(u) \/ Kill(u)
        BY <1>5, <3>1, <3>2, StepPhase
      <3>4. Return(u)
        BY <2>1, <3>3, SmbusAssumption DEF Kill
      <3>5. /\ ph[u] = "done" /\ controller' = controller /\ met' = [met EXCEPT ![u] = {}]
            /\ hasty' = [hasty EXCEPT ![u] = {}]
        BY <3>4 DEF Return, Leave
      <3>6. met'[p] = met[p] /\ hasty'[p] = hasty[p]
        BY <1>1, <1>5, <3>5 DEF Types, TypeOK
      <3>7. CASE ph[p] = "idle"
        BY <2>1, <3>7, SetupBegun
      <3>8. CASE ph[p] # "idle"
        <4>1. want[u] \in met[p] /\ Holds(u) /\ (hasty[p] = {} => Own(u))
          BY <2>1, <3>5, <3>8 DEF Alone, Spoilt, DriversOwn
        <4>2. /\ HST_CMD' = HST_CMD /\ XMIT_SLVA' = XMIT_SLVA /\ HST_D0' = HST_D0
              /\ flight' = flight
          BY <3>5 DEF controller
        <4>3. Rest(p)
          BY <2>1, <3>5, <4>1, RestAfterDriver
        <4>4. hasty[p] = {} => Setup(p)
          BY <2>1, <3>5, <4>1, SetupAfterDriver
        <4>5. Rest(p)'
          BY <2>1, <3>6, <4>2, <4>3 DEF Rest, MixedReg, OwnAddress, TheirAddress
        <4>6. Setup(p) => Setup(p)'
          BY <2>1, <3>6, <4>2 DEF Setup, Busy, MixedReg, OwnAddress, TheirAddress, TheirData
        <4> QED
          BY <3>6, <4>4, <4>5, <4>6
      <3> QED
        BY <3>7, <3>8
    <2> QED
      BY <2>2, <2>3
  <1>6. CASE Begin(p) \/ Return(p) \/ Kill(p)
    <2>1. ph'[p] \in {"clear", "idle"}
      BY <1>1, <1>6 DEF Begin, Return, Kill, Leave, At
    <2> QED
      BY <2>1, SetupBegun
  <1>7. CASE Step(p) /\ ~Return(p)
    <2>1. CanRun(p)
      BY <1>1, <1>7, StepPhase
    <2>2. DriversIdle
      BY <1>1, <2>1 DEF CanRun, DriversIdle
    <2>3. hasty'[p] = {} => hasty[p] = {} /\ ~GiveUp(p)
      <3>1. hasty[p] \subseteq hasty'[p]
        BY <1>1, <1>7, StepHastier
      <3>2. GiveUp(p) => "wait" \in hasty'[p]
        BY <1>1, HurryTypes DEF GiveUp
      <3> QED
        BY <3>1, <3>2
    <2>4. DataOfWrite(p)' /\ (Setup(p) /\ ~GiveUp(p) => Setup(p)')
      BY <1>2, <1>7, SetupStep
    <2>5. Rest(p)'
      BY <1>2, <1>7, <2>2, RestStep
    <2> QED
      BY <1>2, <2>2, <2>3, <2>4, <2>5
  <1> QED
    BY <1>3, <1>4, <1>5, <1>6, <1>7 DEF Next

-----------------------------------------------------------------------------
(* Refinement. *)

\* The transaction that Start puts on the bus.
Latch == [rw |-> XMIT_SLVA[1], dev |-> XMIT_SLVA[2], reg |-> HST_CMD, val |-> HST_D0]

\* A transaction of which the registers hold all but, perhaps, the data.
LEMMA LatchOf ==
  ASSUME Types, NEW z \in Xact, HST_CMD = z.reg, XMIT_SLVA = <<z.rw, z.dev>>,
         z.rw = "w" => HST_D0 = z.val
  PROVE  Latch \in Bus!Latched(z)
  <1>1. z = [rw |-> z.rw, dev |-> z.dev, reg |-> z.reg, val |-> z.val]
    BY DEF Xact
  <1>2. Latch = [rw |-> z.rw, dev |-> z.dev, reg |-> z.reg, val |-> HST_D0]
    BY DEF Latch
  <1>3. CASE z.rw = "w"
    <2>1. Latch = z
      BY <1>1, <1>2, <1>3
    <2> QED
      BY <1>3, <2>1 DEF Bus!Latched
  <1>4. CASE z.rw # "w"
    <2>1. Latch = [z EXCEPT !.val = HST_D0]
      BY <1>1, <1>2
    <2>2. HST_D0 \in Values
      BY DEF Types, TypeOK
    <2> QED
      BY <1>4, <2>1, <2>2 DEF Bus!Latched, Bus!AnyData
  <1> QED
    BY <1>3, <1>4

\* A transaction of which they hold all but the data.
LEMMA LatchAny ==
  ASSUME Types, NEW z \in Xact, HST_CMD = z.reg, XMIT_SLVA = <<z.rw, z.dev>>
  PROVE  Latch \in Bus!AnyData(z)
  <1>1. z = [rw |-> z.rw, dev |-> z.dev, reg |-> z.reg, val |-> z.val]
    BY DEF Xact
  <1>2. Latch = [rw |-> z.rw, dev |-> z.dev, reg |-> z.reg, val |-> HST_D0]
    BY DEF Latch
  <1>3. Latch = [z EXCEPT !.val = HST_D0]
    BY <1>1, <1>2
  <1>4. HST_D0 \in Values
    BY DEF Types, TypeOK
  <1> QED
    BY <1>3, <1>4 DEF Bus!AnyData

Loose == {t \in Tasks : hasty[t] # {}}

\* The transaction that may go, and the one that may only go loose.
LEMMA MayGo ==
  ASSUME Types, NEW t \in Tasks, Start(t), flight' = Latch, ~Busy,
         NEW z \in Bus!May(t), Latch \in Bus!Latched(z)
  PROVE  Bus!Go(t)
  <1>1. ph[t] = "start" /\ cells' = cells /\ want' = want /\ met' = met /\ Loose' = Loose
    BY DEF Start, At, call, Loose
  <1>2. want[t] # NoXact
    BY <1>1, WantIn
  <1> QED
    BY <1>1, <1>2 DEF Bus!Go, Busy, Loose

LEMMA MayGoLoose ==
  ASSUME Types, NEW t \in Tasks, Start(t), flight' = Latch, hasty[t] # {},
         NEW z \in Bus!May(t), Latch \in Bus!AnyData(z)
  PROVE  Bus!GoLoose(t)
  <1>1. ph[t] = "start" /\ cells' = cells /\ want' = want /\ met' = met /\ Loose' = Loose
    BY DEF Start, At, call, Loose
  <1>2. want[t] # NoXact
    BY <1>1, WantIn
  <1> QED
    BY <1>1, <1>2 DEF Bus!GoLoose, Loose

\* What a driver starts is what it was asked for.
LEMMA DriverGoes ==
  ASSUME Types, NEW d \in Drivers, Holds(d), hasty[d] = {} => Own(d), Start(d), flight' = Latch
  PROVE  Bus!Go(d) \/ Bus!GoLoose(d)
  <1>1. ph[d] = "start" /\ d \in Tasks
    BY DEF Start, At, Tasks
  <1>2. want[d] \in Xact /\ want[d] \in Bus!May(d)
    BY <1>1, WantIn DEF Bus!May
  <1>3. HST_CMD = want[d].reg /\ XMIT_SLVA = <<want[d].rw, want[d].dev>>
    BY <1>1 DEF Holds
  <1>4. CASE hasty[d] = {}
    <2>1. ~Busy /\ (want[d].rw = "w" => HST_D0 = want[d].val)
      BY <1>1, <1>4 DEF Own, Setting
    <2>2. Latch \in Bus!Latched(want[d])
      BY <1>2, <1>3, <2>1, LatchOf
    <2> QED
      BY <1>1, <1>2, <2>1, <2>2, MayGo
  <1>5. CASE hasty[d] # {}
    <2>1. Latch \in Bus!AnyData(want[d])
      BY <1>2, <1>3, LatchAny
    <2> QED
      BY <1>1, <1>2, <1>5, <2>1, MayGoLoose
  <1> QED
    BY <1>4, <1>5

\* What a program starts is its own transaction, or one mixed with that of a
\* driver it has met.
LEMMA MayMixed ==
  ASSUME NEW p \in Programs, NEW y \in met[p], NEW z \in Bus!Mixed(want[p], y)
  PROVE  z \in Bus!May(p)
  <1>1. p \notin Drivers
    BY SmbusAssumption
  <1> QED
    BY <1>1 DEF Bus!May

LEMMA ProgramGoes ==
  ASSUME Types, NEW p \in Programs, Setup(p), Start(p), flight' = Latch
  PROVE  Bus!Go(p)
  <1> DEFINE x == want[p]
  <1>1. ph[p] = "start" /\ p \in Tasks
    BY DEF Start, At, Tasks
  <1>2. x \in Xact /\ met[p] \subseteq Xact
    BY <1>1, WantIn DEF Types, TypeOK
  <1>3. /\ ~Busy
        /\ \/ MixedReg(x, met[p]) /\ OwnAddress(x) /\ (x.rw = "w" => HST_D0 = x.val)
           \/ \E y \in met[p] : TheirAddress(y) /\ TheirData(x, y)
    BY <1>1 DEF Setup, Setting
  <1>4. ASSUME NEW z \in Bus!May(p), Latch \in Bus!Latched(z) PROVE Bus!Go(p)
    BY <1>1, <1>3, <1>4, MayGo
  <1>5. CASE OwnAddress(x) /\ HST_CMD = x.reg /\ (x.rw = "w" => HST_D0 = x.val)
    <2>1. Latch \in Bus!Latched(x)
      BY <1>2, <1>5, LatchOf DEF OwnAddress
    <2>2. x \in Bus!May(p)
      BY DEF Bus!May
    <2> QED
      BY <1>4, <2>1, <2>2
  <1>6. ASSUME NEW y \in met[p], OwnAddress(x), HST_CMD = y.reg, x.rw = "w" => HST_D0 = x.val
        PROVE  Bus!Go(p)
    <2> DEFINE z == [x EXCEPT !.reg = y.reg]
    <2>1. y \in Xact
      BY <1>2
    <2>2. y.reg \in Regs
      BY <2>1, XactFields
    <2>3. /\ z \in Xact /\ z.reg = y.reg /\ z.rw = x.rw /\ z.dev = x.dev /\ z.val = x.val
      BY <1>2, <2>2 DEF Xact
    <2>4. z \in Bus!Mixed(x, y)
      BY DEF Bus!Mixed
    <2> HIDE DEF z
    <2>5. Latch \in Bus!Latched(z)
      BY <1>6, <2>3, LatchOf DEF OwnAddress
    <2> QED
      BY <1>4, <2>4, <2>5, MayMixed
  <1>7. ASSUME NEW y \in met[p], TheirAddress(y), TheirData(x, y)
        PROVE  Bus!Go(p)
    <2>1. y \in Xact
      BY <1>2
    <2>2. y \in Bus!Mixed(x, y) /\ [y EXCEPT !.val = IF x.rw = "w" THEN x.val ELSE @] \in Bus!Mixed(x, y)
      BY DEF Bus!Mixed
    <2>3. CASE y.rw = "w" => HST_D0 = y.val
      <3>1. Latch \in Bus!Latched(y)
        BY <1>7, <2>1, <2>3, LatchOf DEF TheirAddress
      <3> QED
        BY <1>4, <2>2, <3>1, MayMixed
    <2>4. CASE y.rw = "w" /\ x.rw = "w" /\ HST_D0 = x.val
      <3> DEFINE z == [y EXCEPT !.val = x.val]
      <3>1. z \in Bus!Mixed(x, y)
        BY <2>2, <2>4
      <3>2. x.val \in Values
        BY <1>2, XactFields
      <3>3. z \in Xact /\ z.reg = y.reg /\ z.rw = y.rw /\ z.dev = y.dev /\ z.val = x.val
        BY <2>1, <3>2 DEF Xact
      <3> HIDE DEF z
      <3>4. Latch \in Bus!Latched(z)
        BY <1>7, <2>4, <3>3, LatchOf DEF TheirAddress
      <3> QED
        BY <1>4, <3>1, <3>4, MayMixed
    <2> QED
      BY <1>7, <2>3, <2>4 DEF TheirData
  <1> QED
    BY <1>3, <1>5, <1>6, <1>7 DEF MixedReg

\* A hasty one starts the same, but for the data.
LEMMA ProgramGoesLoose ==
  ASSUME Types, NEW p \in Programs, Rest(p), Start(p), flight' = Latch, hasty[p] # {}
  PROVE  Bus!GoLoose(p)
  <1> DEFINE x == want[p]
  <1>1. ph[p] = "start" /\ p \in Tasks
    BY DEF Start, At, Tasks
  <1>2. x \in Xact /\ met[p] \subseteq Xact
    BY <1>1, WantIn DEF Types, TypeOK
  <1>3. \/ MixedReg(x, met[p]) /\ OwnAddress(x)
        \/ \E y \in met[p] : TheirAddress(y)
    BY <1>1 DEF Rest
  <1>4. ASSUME NEW z \in Bus!May(p), Latch \in Bus!AnyData(z) PROVE Bus!GoLoose(p)
    BY <1>1, <1>4, MayGoLoose
  <1>5. CASE OwnAddress(x) /\ HST_CMD = x.reg
    <2>1. Latch \in Bus!AnyData(x)
      BY <1>2, <1>5, LatchAny DEF OwnAddress
    <2>2. x \in Bus!May(p)
      BY DEF Bus!May
    <2> QED
      BY <1>4, <2>1, <2>2
  <1>6. ASSUME NEW y \in met[p], OwnAddress(x), HST_CMD = y.reg
        PROVE  Bus!GoLoose(p)
    <2> DEFINE z == [x EXCEPT !.reg = y.reg]
    <2>1. y \in Xact
      BY <1>2
    <2>2. y.reg \in Regs
      BY <2>1, XactFields
    <2>3. /\ z \in Xact /\ z.reg = y.reg /\ z.rw = x.rw /\ z.dev = x.dev
      BY <1>2, <2>2 DEF Xact
    <2>4. z \in Bus!Mixed(x, y)
      BY DEF Bus!Mixed
    <2> HIDE DEF z
    <2>5. Latch \in Bus!AnyData(z)
      BY <1>6, <2>3, LatchAny DEF OwnAddress
    <2> QED
      BY <1>4, <2>4, <2>5, MayMixed
  <1>7. ASSUME NEW y \in met[p], TheirAddress(y)
        PROVE  Bus!GoLoose(p)
    <2>1. y \in Xact /\ y \in Bus!Mixed(x, y)
      BY <1>2 DEF Bus!Mixed
    <2>2. Latch \in Bus!AnyData(y)
      BY <1>7, <2>1, LatchAny DEF TheirAddress
    <2> QED
      BY <1>4, <2>1, <2>2, MayMixed
  <1> QED
    BY <1>3, <1>5, <1>6, <1>7 DEF MixedReg

\* One that goes on while the controller is busy becomes loose.
LEMMA HurryLoose ==
  ASSUME Types, NEW t \in Tasks, ph[t] # "idle", Busy, NEW how \in {"wait", "look"}, Hurry(t, how),
         cells' = cells, want' = want, met' = met, flight' = flight
  PROVE  Bus!Hurry(t)
  <1>1. hasty \in [Tasks -> SUBSET Ways]
    BY DEF Types, TypeOK, Ways
  <1>2. /\ \A u \in Tasks : hasty[u] \subseteq hasty'[u]
        /\ how \in hasty'[t]
        /\ \A u \in Tasks \ {t} :
             hasty'[u] = IF t \in Drivers /\ u \in Programs /\ ph[u] # "idle"
                           THEN hasty[u] \cup {"driver"} ELSE hasty[u]
    BY <1>1, HurryTypes
  <1>3. \A u \in Tasks : (u \in Programs /\ ph[u] # "idle") <=> (u \in Bus!ProgramsUnderWay)
    BY SmbusAssumption DEF Tasks, Types, WantInv, Bus!ProgramsUnderWay
  <1>4. \A u \in Tasks :
          (hasty'[u] # {}) <=> (hasty[u] # {} \/ u = t \/ (t \in Drivers /\ u \in Bus!ProgramsUnderWay))
    BY <1>2, <1>3
  <1>5. Bus!ProgramsUnderWay \subseteq Tasks
    BY DEF Bus!ProgramsUnderWay
  <1>6. Loose' = Loose \cup {t} \cup (IF t \in Drivers THEN Bus!ProgramsUnderWay ELSE {})
    BY <1>4, <1>5 DEF Loose
  <1>7. want[t] # NoXact
    BY WantIn
  <1> QED
    BY <1>6, <1>7 DEF Bus!Hurry, Loose, Busy

BusInv == Types /\ Hastes /\ Spoilt /\ Alone /\ DriversOwn /\ MixInv

LEMMA BusStep ==
  BusInv /\ [Next]_vars => [Bus!BusNext]_(Bus!busVars)
  <1> SUFFICES ASSUME BusInv, [Next]_vars PROVE Bus!BusNext \/ UNCHANGED Bus!busVars
    BY DEF Bus!busVars
  <1>0. Types /\ ph \in [Tasks -> Phases] /\ hasty \in [Tasks -> SUBSET Ways]
    BY DEF BusInv, Types, TypeOK, Phases, Ways
  <1>1. CASE Finish
    <2>1. Bus!Land
      BY <1>1 DEF Finish, Busy, call, CellOf, Bus!Land
    <2> QED
      BY <2>1 DEF Bus!BusNext
  <1>2. CASE UNCHANGED vars
    BY <1>2 DEF vars, Bus!busVars
  <1>3. ASSUME NEW t \in Tasks, Begin(t) PROVE Bus!BusNext
    <2>1. PICK x \in XactsOf[t] :
            /\ want' = [want EXCEPT ![t] = x]
            /\ met' = IF t \in Drivers
                        THEN [u \in Tasks |-> IF u \in Programs /\ ph[u] # "idle"
                                                THEN met[u] \cup {x} ELSE met[u]]
                        ELSE met
      BY <1>3 DEF Begin
    <2>2. want[t] = NoXact /\ cells' = cells /\ flight' = flight /\ Loose' = Loose
      BY <1>0, <1>3 DEF Begin, At, controller, Types, WantInv, Loose
    <2>3. \A u \in Tasks : (u \in Programs /\ ph[u] # "idle") <=> (u \in Bus!ProgramsUnderWay)
      BY <1>0, SmbusAssumption DEF Tasks, Types, WantInv, Bus!ProgramsUnderWay
    <2>4. met' = IF t \in Drivers
                  THEN [u \in Tasks |-> IF u \in Bus!ProgramsUnderWay
                                          THEN met[u] \cup {x} ELSE met[u]]
                  ELSE met
      BY <2>1, <2>3
    <2>5. Bus!Call(t)
      BY <2>1, <2>2, <2>4 DEF Bus!Call, Loose
    <2> QED
      BY <2>5 DEF Bus!BusNext
  <1>4. ASSUME NEW t \in Tasks, Return(t) \/ Kill(t) PROVE Bus!BusNext
    <2>1. ph[t] # "idle" /\ Leave(t)
      BY <1>4 DEF Return, Kill
    <2>2. want[t] # NoXact
      BY <1>0, <2>1 DEF Types, WantInv
    <2>3. Loose' = Loose \ {t}
      BY <1>0, <2>1 DEF Leave, Loose
    <2>4. Bus!Return(t)
      BY <2>1, <2>2, <2>3 DEF Leave, controller, Bus!Return, Loose
    <2> QED
      BY <2>4 DEF Bus!BusNext
  <1>5. ASSUME NEW t \in Tasks, Start(t), flight' = Latch PROVE Bus!BusNext
    <2>1. CASE t \in Drivers
      BY <1>0, <1>5, <2>1, DriverGoes DEF BusInv, DriversOwn, Bus!BusNext
    <2>2. CASE t \in Programs
      <3>1. t \notin Drivers
        BY <2>2, SmbusAssumption
      <3>2. DriversIdle
        BY <1>5, <3>1 DEF Start, At, CanRun, DriversIdle
      <3>3. Rest(t) /\ (hasty[t] = {} => Setup(t))
        BY <2>2, <3>2 DEF BusInv, MixInv
      <3>4. Bus!Go(t) \/ Bus!GoLoose(t)
        BY <1>0, <1>5, <2>2, <3>3, ProgramGoes, ProgramGoesLoose
      <3> QED
        BY <3>4 DEF Bus!BusNext
    <2> QED
      BY <2>1, <2>2 DEF Tasks
  <1>6. ASSUME NEW t \in Tasks, Step(t), ~Return(t), ~(Start(t) /\ flight' = Latch)
        PROVE  Bus!BusNext \/ UNCHANGED Bus!busVars
    <2>1. want' = want /\ met' = met /\ cells' = cells /\ ph[t] # "idle"
      BY <1>0, <1>6, StepPhase
    <2>2. flight' = flight
      BY <1>6 DEF Step, ClearStatus, TestBusy, GiveUp, SetCommand, SetAddress, SetData, Start,
                  Check, Fetch, controller, Latch
    <2>3. CASE hasty' = hasty
      BY <2>1, <2>2, <2>3 DEF Bus!busVars
    <2>4. ASSUME Busy, NEW how \in {"wait", "look"}, Hurry(t, how) PROVE Bus!BusNext
      BY <1>0, <2>1, <2>2, <2>4, HurryLoose DEF Bus!BusNext
    <2> QED
      BY <1>0, <1>6, <2>3, <2>4, StepHasty
  <1> QED
    BY <1>1, <1>2, <1>3, <1>4, <1>5, <1>6 DEF Next

LEMMA BusStart == Init => Bus!BusInit
  BY DEF Init, Bus!BusInit

\* The controller's registers, set up step by step by any number of drivers
\* and by one program that they may interrupt anywhere, implement the bus on
\* which transactions are atomic.
THEOREM Refinement ==
  ASSUME OneProgram
  PROVE  Spec => ImplementsSharedBus
  <1>1. Spec => []BusInv
    <2>1. Init => BusInv
      BY InitTypes, InitHastes, InitSpoilt, InitAlone, InitDriversOwn, InitMixInv DEF BusInv
    <2>2. BusInv /\ [Next]_vars => BusInv'
      BY NextTypes, NextHastes, NextSpoilt, NextAlone, NextDriversOwn, NextMixInv DEF BusInv
    <2> QED
      BY <2>1, <2>2, PTL DEF Spec
  <1> QED
    BY <1>1, BusStart, BusStep, PTL DEF Spec, ImplementsSharedBus, Bus!BusSpec
=============================================================================
