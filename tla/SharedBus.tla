------------------------------ MODULE SharedBus ------------------------------
(***************************************************************************)
(* What the programs on the SMBus get from the one host controller they    *)
(* share: one transaction at a time on the bus.  The transaction of a      *)
(* driver is the one it asked for.  That of a program with direct port     *)
(* access may take over register, address and data, in this order, from a  *)
(* driver's transaction that came while it was being set up; one that met  *)
(* no driver is the one asked for.  This is so as long as nobody goes on   *)
(* while the bus is busy.  Who does is loose, and so are the programs that *)
(* a driver finds when it does: a loose task may send other data than it   *)
(* was asked to, and cut off the transaction before it.                    *)
(***************************************************************************)
CONSTANTS Tasks, Drivers, XactsOf, Cells, Values, NoXact

VARIABLES
  cells,   \* the registers of the devices
  want,    \* the transaction each task is about
  met,     \* the drivers' transactions called since
  loose,   \* the tasks that the bus promises less
  flight   \* the transaction on the bus

busVars == <<cells, want, met, loose, flight>>

Mixed(x, y) ==
  {[x EXCEPT !.reg = y.reg],
   [y EXCEPT !.val = IF x.rw = "w" THEN x.val ELSE @],
   y}

AnyData(x) == {[x EXCEPT !.val = v] : v \in Values}

\* What the data register holds is of no account in a read.
Latched(x) == IF x.rw = "w" THEN {x} ELSE AnyData(x)

May(t) ==
  {want[t]} \cup (IF t \in Drivers THEN {} ELSE UNION {Mixed(want[t], y) : y \in met[t]})

BusInit ==
  /\ cells \in [Cells -> Values]
  /\ want = [t \in Tasks |-> NoXact]
  /\ met = [t \in Tasks |-> {}]
  /\ loose = {}
  /\ flight = NoXact

ProgramsUnderWay == {u \in Tasks \ Drivers : want[u] # NoXact}

\* A driver that is called meets every program that is under way.
Call(t) ==
  \E x \in XactsOf[t] :
    /\ want[t] = NoXact
    /\ want' = [want EXCEPT ![t] = x]
    /\ met' = IF t \in Drivers
                THEN [u \in Tasks |-> IF u \in ProgramsUnderWay THEN met[u] \cup {x} ELSE met[u]]
                ELSE met
    /\ UNCHANGED <<cells, loose, flight>>

Go(t) ==
  /\ want[t] # NoXact /\ flight = NoXact
  /\ \E x \in May(t) : flight' \in Latched(x)
  /\ UNCHANGED <<cells, want, met, loose>>

\* A task does not wait until the bus is free.
Hurry(t) ==
  /\ want[t] # NoXact /\ flight # NoXact
  /\ loose' = loose \cup {t} \cup (IF t \in Drivers THEN ProgramsUnderWay ELSE {})
  /\ UNCHANGED <<cells, want, met, flight>>

GoLoose(t) ==
  /\ t \in loose /\ want[t] # NoXact
  /\ \E x \in May(t) : flight' \in AnyData(x)
  /\ UNCHANGED <<cells, want, met, loose>>

\* The bus carries the transaction out, or it fails.
Land ==
  /\ flight # NoXact /\ flight' = NoXact
  /\ \/ /\ flight.rw = "w"
        /\ cells' = [cells EXCEPT ![<<flight.dev, flight.reg>>] = flight.val]
     \/ UNCHANGED cells
  /\ UNCHANGED <<want, met, loose>>

Return(t) ==
  /\ want[t] # NoXact
  /\ want' = [want EXCEPT ![t] = NoXact]
  /\ met' = [met EXCEPT ![t] = {}]
  /\ loose' = loose \ {t}
  /\ UNCHANGED <<cells, flight>>

BusNext ==
  Land \/ \E t \in Tasks : Call(t) \/ Go(t) \/ Hurry(t) \/ GoLoose(t) \/ Return(t)

BusSpec == BusInit /\ [][BusNext]_busVars

=============================================================================
