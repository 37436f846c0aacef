----------------------------- MODULE Pms_proofs -----------------------------
(***************************************************************************)
(* Proofs about pms, for any readings and conditions that supplies may     *)
(* report: how it decodes a number, that a printed line comes from the     *)
(* register it is labelled with, and that the warning at the end is there  *)
(* exactly if it should be.                                                *)
(***************************************************************************)
EXTENDS Pms, TLAPS

-----------------------------------------------------------------------------
(* Numbers. *)

\* The provers know powers of given numbers only.
LEMMA PowerPositive ==
  ASSUME NEW k \in 0 .. 16
  PROVE  2 ^ k \in Nat \ {0}
  <1>1. CASE k = 0
    <2>1. 2 ^ k = 1
      BY <1>1
    <2> QED
      BY <2>1
  <1>2. CASE k = 1
    <2>1. 2 ^ k = 2
      BY <1>2
    <2> QED
      BY <2>1
  <1>3. CASE k = 2
    <2>1. 2 ^ k = 4
      BY <1>3
    <2> QED
      BY <2>1
  <1>4. CASE k = 3
    <2>1. 2 ^ k = 8
      BY <1>4
    <2> QED
      BY <2>1
  <1>5. CASE k = 4
    <2>1. 2 ^ k = 16
      BY <1>5
    <2> QED
      BY <2>1
  <1>6. CASE k = 5
    <2>1. 2 ^ k = 32
      BY <1>6
    <2> QED
      BY <2>1
  <1>7. CASE k = 6
    <2>1. 2 ^ k = 64
      BY <1>7
    <2> QED
      BY <2>1
  <1>8. CASE k = 7
    <2>1. 2 ^ k = 128
      BY <1>8
    <2> QED
      BY <2>1
  <1>9. CASE k = 8
    <2>1. 2 ^ k = 256
      BY <1>9
    <2> QED
      BY <2>1
  <1>10. CASE k = 9
    <2>1. 2 ^ k = 512
      BY <1>10
    <2> QED
      BY <2>1
  <1>11. CASE k = 10
    <2>1. 2 ^ k = 1024
      BY <1>11
    <2> QED
      BY <2>1
  <1>12. CASE k = 11
    <2>1. 2 ^ k = 2048
      BY <1>12
    <2> QED
      BY <2>1
  <1>13. CASE k = 12
    <2>1. 2 ^ k = 4096
      BY <1>13
    <2> QED
      BY <2>1
  <1>14. CASE k = 13
    <2>1. 2 ^ k = 8192
      BY <1>14
    <2> QED
      BY <2>1
  <1>15. CASE k = 14
    <2>1. 2 ^ k = 16384
      BY <1>15
    <2> QED
      BY <2>1
  <1>16. CASE k = 15
    <2>1. 2 ^ k = 32768
      BY <1>16
    <2> QED
      BY <2>1
  <1>17. CASE k = 16
    <2>1. 2 ^ k = 65536
      BY <1>17
    <2> QED
      BY <2>1
  <1> QED
    BY <1>1, <1>2, <1>3, <1>4, <1>5, <1>6, <1>7, <1>8, <1>9, <1>10, <1>11, <1>12, <1>13, <1>14, <1>15, <1>16, <1>17

Pow(k) == 2 ^ k

LEMMA PowersPositive == \A k \in 0 .. 16 : Pow(k) \in Nat \ {0}
  BY PowerPositive DEF Pow

\* The parts of a word, which the proofs take apart only here.
Low(w) == w % 2048
Magnitude(w) == w % 1024
SignBit(w) == (w \div 1024) % 2

LEMMA FieldRange ==
  ASSUME NEW w \in Word
  PROVE  Field(w) \in 0 .. 31 /\ (w >= 32768 <=> Field(w) >= 16)
  <1> DEFINE f == Field(w)
  <1>1. w \in Nat /\ w < 65536
    BY DEF Word
  <1>2. f \in Int /\ 2048 * f <= w /\ w < 2048 * f + 2048
    BY <1>1, SMTT(30) DEF Field
  <1> HIDE DEF f
  <1>3. f \in 0 .. 31 /\ (w >= 32768 <=> f >= 16)
    BY <1>1, <1>2
  <1> QED
    BY <1>3 DEF f

LEMMA Parts ==
  ASSUME NEW w \in Nat
  PROVE  /\ SignBit(w) \in {0, 1} /\ Magnitude(w) \in Nat /\ Magnitude(w) < 1024
         /\ Low(w) = SignBit(w) * 1024 + Magnitude(w)
  <1> DEFINE q == w \div 1024
  <1> DEFINE h == q \div 2
  <1> DEFINE b == q % 2
  <1> DEFINE r == w % 1024
  <1>1. q \in Nat /\ r \in Nat /\ r < 1024 /\ w = 1024 * q + r
    BY SMTT(30)
  <1>2. b = SignBit(w) /\ r = Magnitude(w)
    BY DEF SignBit, Magnitude
  <1> HIDE DEF q, r
  <1>3. h \in Nat /\ b \in {0, 1} /\ q = 2 * h + b
    BY <1>1, SMTT(30)
  <1> HIDE DEF h, b
  <1> DEFINE m == 1024 * b + r
  <1>4. w = 2048 * h + m /\ m \in Nat /\ m < 2048
    BY <1>1, <1>3
  <1>5. m = b * 1024 + r
    BY <1>1, <1>3
  <1> HIDE DEF m
  <1>6. w % 2048 = m
    BY <1>3, <1>4, SMTT(30)
  <1>7. Low(w) = b * 1024 + r
    BY <1>5, <1>6 DEF Low
  <1> QED
    BY <1>1, <1>2, <1>3, <1>7

LEMMA Fields ==
  ASSUME NEW w \in Word
  PROVE  /\ Low(w) \in Nat /\ (Low(w) < 1024 \/ Low(w) >= 1024)
         /\ Low(w) < 1024 => SignBit(w) = 0 /\ Magnitude(w) = Low(w)
         /\ Low(w) >= 1024 => SignBit(w) = 1 /\ Low(w) < 2048
  <1> DEFINE b == SignBit(w)
  <1> DEFINE r == Magnitude(w)
  <1> DEFINE m == Low(w)
  <1>1. w \in Nat
    BY DEF Word
  <1>2. b \in {0, 1} /\ r \in Nat /\ r < 1024 /\ m = b * 1024 + r
    BY <1>1, Parts
  <1> HIDE DEF b, r, m
  <1>3. CASE b = 0
    <2>1. m = r
      BY <1>2, <1>3
    <2>2. m \in Nat /\ m < 1024 /\ ~(m >= 1024)
      BY <1>2, <2>1
    <2> QED
      BY <1>3, <2>1, <2>2 DEF b, r, m
  <1>4. CASE b = 1
    <2>1. m = 1024 + r
      BY <1>2, <1>4
    <2>2. m \in Nat /\ m >= 1024 /\ m < 2048 /\ ~(m < 1024)
      BY <1>2, <2>1
    <2> QED
      BY <1>4, <2>2 DEF b, r, m
  <1> QED
    BY <1>2, <1>3, <1>4

\* The decoding and the definition in terms of the parts.
Taken(w) == IF SignBit(w) = 1 THEN -Magnitude(w) ELSE Magnitude(w)
LEMMA DecodedParts ==
  ASSUME NEW w
  PROVE  lin5_11ToFloat1(w) = IF w >= 32768 THEN <<Taken(w), exponent(Field(w))>>
                              ELSE <<Taken(w) * exponent(Field(w)), 1>>
  BY DEF lin5_11ToFloat1, Taken, SignBit, Magnitude

LEMMA MeaningParts ==
  ASSUME NEW w
  PROVE  Meaning(w) = IF Signed(Field(w), 16) < 0
                      THEN <<Signed(Low(w), 1024), Pow(-Signed(Field(w), 16))>>
                      ELSE <<Signed(Low(w), 1024) * Pow(Signed(Field(w), 16)), 1>>
  BY DEF Meaning, Low, Pow

\* A mantissa that is not negative is decoded right.
LEMMA Decoded ==
  ASSUME NEW w \in Word, Low(w) < 1024
  PROVE  lin5_11ToFloat1(w) = Meaning(w)
  <1> DEFINE d == Low(w)
  <1> DEFINE k == Field(w)
  <1>1. k \in 0 .. 31 /\ (w >= 32768 <=> k >= 16)
    BY FieldRange
  <1>2. d \in Nat /\ d < 1024 /\ Taken(w) = d
    BY Fields DEF Taken
  <1>3. Signed(d, 1024) = d
    BY <1>2 DEF Signed
  <1>4. CASE k < 16
    <2>1. Signed(k, 16) = k /\ exponent(k) = Pow(k) /\ ~(w >= 32768) /\ ~(k < 0)
      BY <1>1, <1>4 DEF Signed, exponent, Pow
    <2>2. lin5_11ToFloat1(w) = <<d * Pow(k), 1>>
      BY <1>2, <2>1, DecodedParts
    <2>3. Meaning(w) = <<d * Pow(k), 1>>
      BY <1>3, <2>1, MeaningParts
    <2> QED
      BY <2>2, <2>3
  <1>5. CASE k >= 16
    <2>1. Signed(k, 16) = k - 32 /\ exponent(k) = Pow(32 - k) /\ w >= 32768
      BY <1>1, <1>5 DEF Signed, exponent, Pow
    <2>2. k - 32 < 0 /\ -(k - 32) = 32 - k
      BY <1>1, <1>5
    <2>3. lin5_11ToFloat1(w) = <<d, Pow(32 - k)>>
      BY <1>2, <2>1, DecodedParts
    <2>4. Meaning(w) = <<d, Pow(32 - k)>>
      BY <1>3, <2>1, <2>2, MeaningParts
    <2> QED
      BY <2>3, <2>4
  <1> QED
    BY <1>1, <1>4, <1>5

\* A number that pms decodes, or should have decoded, from a word with a
\* negative mantissa is not positive.
LEMMA NegativeMeaning ==
  ASSUME NEW w \in Word, Low(w) >= 1024
  PROVE  /\ Meaning(w)[1] \in Int /\ Meaning(w)[1] < 0
         /\ Meaning(w)[2] \in Nat \ {0}
  <1> DEFINE d == Signed(Low(w), 1024)
  <1> DEFINE p == Signed(Field(w), 16)
  <1>1. d \in Int /\ d < 0
    <2> DEFINE m == Low(w)
    <2>1. m \in Nat /\ m >= 1024 /\ m < 2048
      BY Fields
    <2> HIDE DEF m
    <2>2. Signed(m, 1024) \in Int /\ Signed(m, 1024) < 0
      BY <2>1 DEF Signed
    <2> QED
      BY <2>2 DEF m
  <1>2. p \in -16 .. 15
    BY FieldRange DEF Signed
  <1>3. Meaning(w) = IF p < 0 THEN <<d, Pow(-p)>> ELSE <<d * Pow(p), 1>>
    BY MeaningParts
  <1> HIDE DEF d, p
  <1>4. CASE p < 0
    <2>1. -p \in 0 .. 16
      BY <1>2, <1>4
    <2>2. Pow(-p) \in Nat \ {0}
      BY <2>1, PowersPositive
    <2> QED
      BY <1>1, <1>3, <1>4, <2>2
  <1>5. CASE ~(p < 0)
    <2> DEFINE e == Pow(p)
    <2>1. p \in 0 .. 16
      BY <1>2, <1>5
    <2>2. e \in Nat \ {0}
      BY <2>1, PowersPositive
    <2>3. Meaning(w) = <<d * e, 1>>
      BY <1>3, <1>5
    <2> HIDE DEF e
    <2>4. d * e \in Int /\ d * e < 0
      BY <1>1, <2>2
    <2> QED
      BY <2>3, <2>4
  <1> QED
    BY <1>4, <1>5

LEMMA NegativeDecoded ==
  ASSUME NEW w \in Word, Low(w) >= 1024
  PROVE  /\ lin5_11ToFloat1(w)[1] \in Int /\ lin5_11ToFloat1(w)[1] <= 0
         /\ lin5_11ToFloat1(w)[2] \in Nat \ {0}
  <1> DEFINE d == Taken(w)
  <1> DEFINE e == exponent(Field(w))
  <1>1. d \in Int /\ d <= 0
    <2>1. SignBit(w) = 1
      BY Fields
    <2>2. w \in Nat
      BY DEF Word
    <2>3. Magnitude(w) \in Nat /\ Magnitude(w) < 1024
      BY <2>2, Parts
    <2> QED
      BY <2>1, <2>3 DEF Taken
  <1>2. e \in Nat \ {0}
    <2>1. CASE Field(w) < 16
      <3>1. Field(w) \in 0 .. 16
        BY <2>1, FieldRange
      <3>2. Pow(Field(w)) \in Nat \ {0}
        BY <3>1, PowersPositive
      <3> QED
        BY <2>1, <3>2 DEF exponent, Pow
    <2>2. CASE ~(Field(w) < 16)
      <3>1. 32 - Field(w) \in 0 .. 16
        BY <2>2, FieldRange
      <3>2. Pow(32 - Field(w)) \in Nat \ {0}
        BY <3>1, PowersPositive
      <3> QED
        BY <2>2, <3>2 DEF exponent, Pow
    <2> QED
      BY <2>1, <2>2
  <1>3. lin5_11ToFloat1(w) = IF w >= 32768 THEN <<d, e>> ELSE <<d * e, 1>>
    BY DecodedParts
  <1> HIDE DEF d, e
  <1>4. d * e \in Int /\ d * e <= 0
    BY <1>1, <1>2
  <1> QED
    BY <1>1, <1>2, <1>3, <1>4

Signless == {"Fan_Speed", "Temp1", "Temp2"}

\* The ranges are checked as PMBus means the numbers.
LEMMA RangeRight ==
  ASSUME NEW w \in Word, NEW label \in Readings, label \in Signless => Meaning(w)[1] >= 0
  PROVE  OutOfRange(label, lin5_11ToFloat1(w)) <=> OutOfRange(label, Meaning(w))
  <1>1. CASE Low(w) < 1024
    BY <1>1, Decoded
  <1>2. CASE Low(w) >= 1024
    <2> DEFINE x == lin5_11ToFloat1(w)
    <2> DEFINE y == Meaning(w)
    <2>1. y[1] \in Int /\ y[1] < 0 /\ y[2] \in Nat \ {0}
      BY <1>2, NegativeMeaning
    <2>2. x[1] \in Int /\ x[1] <= 0 /\ x[2] \in Nat \ {0}
      BY <1>2, NegativeDecoded
    <2> HIDE DEF x, y
    <2>3. label \in Signless => y[1] >= 0
      BY DEF y
    <2>4. label \in {"12V", "5Vsb"}
      BY <2>1, <2>3 DEF Signless, Readings
    <2>5. /\ AtMost(x, 10) /\ AtMost(y, 10) /\ AtMost(x, 3) /\ AtMost(y, 3)
      BY <2>1, <2>2 DEF AtMost
    <2>6. OutOfRange(label, x) /\ OutOfRange(label, y)
      BY <2>4, <2>5 DEF OutOfRange
    <2> QED
      BY <2>6 DEF x, y
  <1>3. Low(w) < 1024 \/ Low(w) >= 1024
    BY Fields
  <1> QED
    BY <1>1, <1>2, <1>3

-----------------------------------------------------------------------------
(* Types. *)

Pages3 == {"page_VOUT", "page_12V", "page_5Vsb"}
LEMMA RegOfIn ==
  ASSUME NEW label \in Readings \cup Reg
  PROVE  RegOf(label) \in Reg
  BY DEF RegOf, Readings, Reg

LEMMA OriginIn ==
  ASSUME NEW m \in Supply, NEW reg \in Reg, NEW pg \in {Main, Standby}
  PROVE  Origin(m, reg, pg) \in Source
  <1>1. (IF reg \in Paged THEN pg ELSE Main) \in {Main, Standby}
    OBVIOUS
  <1> QED
    BY <1>1 DEF Origin, Source

LEMMA RightIn ==
  ASSUME NEW m \in Supply, NEW label \in Readings
  PROVE  Right(label, m) \in Measured
  BY DEF Measured

LEMMA SenseIn ==
  ASSUME TypeOK, NEW m \in Supply, NEW label \in Readings
  PROVE  sense[Right(label, m)] \in Word
  BY RightIn, PmsAssumption DEF TypeOK

\* A transaction of a run.
LEMMA FetchType ==
  ASSUME TypeOK, NEW reg \in Reg, NEW fails \in BOOLEAN, Fetch(reg, fails)
  PROVE  /\ d0' \in Source \cup {Nothing} /\ clean' \in BOOLEAN
         /\ clean' => clean /\ (~fails \/ pc = "probe")
         /\ ~fails => d0' = Origin(mod, reg, page[mod])
  <1>1. Origin(mod, reg, page[mod]) \in Source
    BY OriginIn DEF TypeOK
  <1> QED
    BY <1>1 DEF Fetch, Outcome, TypeOK

LEMMA ShowType ==
  ASSUME TypeOK, NEW label \in Readings \cup Reg, NEW fails \in BOOLEAN, Show(label, fails)
  PROVE  /\ d0' \in Source \cup {Nothing} /\ clean' \in BOOLEAN
         /\ clean' => clean /\ (~fails \/ pc = "probe")
         /\ ~fails => d0' = Origin(mod, RegOf(label), page[mod])
         /\ shown' = <<label, mod, d0', ~fails /\ (RegOf(label) \in Paged => turned)>>
         /\ shown' \in (Readings \cup Reg) \X Supply \X (Source \cup {Nothing}) \X BOOLEAN
  <1>1. RegOf(label) \in Reg /\ Fetch(RegOf(label), fails)
    BY RegOfIn DEF Show
  <1>2. /\ d0' \in Source \cup {Nothing} /\ clean' \in BOOLEAN
        /\ clean' => clean /\ (~fails \/ pc = "probe")
        /\ ~fails => d0' = Origin(mod, RegOf(label), page[mod])
    BY <1>1, FetchType
  <1>3. shown' = <<label, mod, d0', ~fails /\ (RegOf(label) \in Paged => turned)>>
    BY DEF Show
  <1>4. (~fails /\ (RegOf(label) \in Paged => turned)) \in BOOLEAN /\ mod \in Supply
    BY DEF TypeOK
  <1>5. shown' \in (Readings \cup Reg) \X Supply \X (Source \cup {Nothing}) \X BOOLEAN
    BY <1>2, <1>3, <1>4, Zenon
  <1> QED
    BY <1>2, <1>3, <1>5

-----------------------------------------------------------------------------
(* The invariant. *)

Early == {"probe", "MFR_FW_ID", "SN"}
Late == {"STATUS_WORD"} \cup Details \cup Pages3 \cup Readings

\* The readings of the supply at hand that have been taken.
Labels(at) ==
  CASE at \in {"page_5Vsb", "5Vsb"} -> {"12V"}
    [] at = "Fan_Speed" -> {"12V", "5Vsb"}
    [] at = "Temp1" -> {"12V", "5Vsb", "Fan_Speed"}
    [] at = "Temp2" -> {"12V", "5Vsb", "Fan_Speed", "Temp1"}
    [] OTHER -> {}

\* Those of supply m, when supply cur is at hand.
Counted(at, cur, m) ==
  IF at = "end" \/ m < cur THEN Readings ELSE IF m = cur THEN Labels(at) ELSE {}

Present == Supply \ absent
Readable ==
  \A m \in Present, label \in Signless : Meaning(sense[Right(label, m)])[1] >= 0
Warned == \E m \in Present : \E label \in Counted(pc, mod, m) : Off(label, m)

\* The page is right if its last write has succeeded.
Paging ==
  /\ pc \in {"12V", "STATUS_VOUT"} /\ turned => page[mod] = Main
  /\ pc = "5Vsb" /\ turned => page[mod] = Standby

\* What a run knows on its way.
Run ==
  /\ pc \in Late \ {"STATUS_WORD"} => mod \notin absent
  /\ clean /\ pc \in {"12V", "STATUS_VOUT", "5Vsb"} => turned
  /\ clean /\ pc \in Early => ~bWaring
  /\ clean /\ pc \in Late \cup {"end"} /\ Readable => (bWaring <=> Warned)

IInv == TypeOK /\ Paging /\ LabelsRight /\ Run

\* The places of a run, as TypeOK lists them.
Pcs == {"idle", "end"} \cup Early \cup Late

LEMMA PcsType ==
  Pcs = {"idle", "probe", "MFR_FW_ID", "SN", "STATUS_WORD", "page_VOUT", "page_12V",
         "page_5Vsb", "end"} \cup Details \cup Readings
  BY DEF Pcs, Early, Late, Pages3

LEMMA InvImplies == IInv => TypeOK /\ LabelsRight /\ WarnedRight
  <1> SUFFICES ASSUME IInv PROVE WarnedRight
    BY DEF IInv
  <1> SUFFICES ASSUME pc = "end", clean,
                      \A m \in Supply \ absent, label \in {"Fan_Speed", "Temp1", "Temp2"} :
                        Meaning(sense[Right(label, m)])[1] >= 0
               PROVE  bWaring <=> \E m \in Supply \ absent, label \in Readings : Off(label, m)
    BY Zenon DEF WarnedRight
  <1>1. Readable
    BY DEF Readable, Present, Signless
  <1>2. bWaring <=> Warned
    BY <1>1 DEF IInv, Run
  <1>3. \A m \in Present : Counted(pc, mod, m) = Readings
    BY DEF Counted
  <1>4. Warned <=> \E m \in Supply \ absent, label \in Readings : Off(label, m)
    BY <1>3, Zenon DEF Warned, Present
  <1> QED
    BY <1>2, <1>4, Zenon

LEMMA InitInv == Init => IInv
  <1> SUFFICES ASSUME Init PROVE IInv
    OBVIOUS
  <1>1. TypeOK
    BY DEF Init, TypeOK, Blank, Nothing, Readings, Reg, Supply, Main
  <1>2. Paging /\ Run
    BY DEF Init, Paging, Run, Early, Late, Details, Pages3, Readings
  <1>3. LabelsRight
    BY DEF Init, LabelsRight, Blank
  <1> QED
    BY <1>1, <1>2, <1>3 DEF IInv

\* A printed line, if the page is right for its register.
LEMMA ShowRight ==
  ASSUME TypeOK, NEW label \in Readings \cup Reg, NEW fails \in BOOLEAN, Show(label, fails),
         RegOf(label) \in Paged /\ turned /\ label # "STATUS_IOUT" => page[mod] = PageOf(label)
  PROVE  LabelsRight'
  <1> DEFINE good == ~fails /\ (RegOf(label) \in Paged => turned)
  <1>1. shown' = <<label, mod, d0', good>>
    BY ShowType
  <1>2. ~fails => d0' = Origin(mod, RegOf(label), page[mod])
    BY ShowType
  <1>3. ASSUME good, label # "STATUS_IOUT" PROVE d0' = Right(label, mod)
    BY <1>2, <1>3 DEF Right, Origin
  <1> HIDE DEF good
  <1>4. shown'[1] = label /\ shown'[2] = mod /\ shown'[3] = d0' /\ shown'[4] = good
    BY <1>1
  <1> QED
    BY <1>3, <1>4 DEF LabelsRight

LEMMA OffSame ==
  ASSUME sense' = sense, NEW label, NEW m
  PROVE  Off(label, m)' <=> Off(label, m)
  BY DEF Off

-----------------------------------------------------------------------------
(* The steps. *)

\* A step of a run that takes no reading and stays with its supply.
LEMMA QuietRun ==
  ASSUME TypeOK, Run, pc \in Late, pc' \in Late, Labels(pc') = Labels(pc),
         mod' = mod, absent' = absent, sense' = sense, bWaring' = bWaring,
         mod \notin absent, clean' => clean,
         clean' /\ pc' \in {"12V", "STATUS_VOUT", "5Vsb"} => turned'
  PROVE  Run'
  <1>1. pc \notin Early \cup {"end"} /\ pc' \notin Early \cup {"end"}
    BY DEF Early, Late, Details, Pages3, Readings
  <1>2. \A m \in Supply : Counted(pc', mod', m) = Counted(pc, mod, m)
    BY <1>1 DEF Counted
  <1>3. Present' = Present /\ Present \subseteq Supply
    BY DEF Present
  <1>4. Readable' <=> Readable
    BY <1>3 DEF Readable
  <1>5. Warned' <=> Warned
    <2>1. \A m \in Present : \A label : Off(label, m)' <=> Off(label, m)
      BY OffSame
    <2> QED
      BY <1>2, <1>3, <2>1, Zenon DEF Warned
  <1>6. clean' /\ Readable' => (bWaring' <=> Warned')
    BY <1>4, <1>5 DEF Run
  <1> QED
    BY <1>1, <1>6 DEF Run

\* A step at the beginning of a run.
LEMMA EarlyRun ==
  ASSUME Run, clean' => ~bWaring', pc' \in Early
  PROVE  Run'
  <1>1. pc' \notin Late \cup {"end"}
    BY DEF Early, Late, Details, Pages3, Readings
  <1>2. pc' \notin {"12V", "STATUS_VOUT", "5Vsb"}
    BY DEF Early
  <1> QED
    BY <1>1, <1>2 DEF Run

\* On with the next supply, and from the first part of a run to the second.
LEMMA TurnRun ==
  ASSUME TypeOK, Run, absent' = absent, sense' = sense, bWaring' = bWaring, clean' => clean,
         \/ pc = "SN" /\ mod' = 1 /\ pc' = "STATUS_WORD"
         \/ pc = "MFR_FW_ID" /\ mod' = 1 /\ pc' = "STATUS_WORD"
         \/ pc = "STATUS_WORD" /\ mod \in absent /\ mod' = 3 - mod
              /\ pc' = (IF mod = 1 THEN "STATUS_WORD" ELSE "end")
  PROVE  Run'
  <1>1. /\ pc' \in {"STATUS_WORD", "end"} /\ pc' \notin Early
        /\ pc' \notin Late \ {"STATUS_WORD"}
    BY DEF Early, Late, Details, Pages3, Readings
  <1>2. Present' = Present /\ Present \subseteq Supply
    BY DEF Present
  <1>3. Readable' <=> Readable
    BY <1>2 DEF Readable
  <1>4. ASSUME clean', Readable' PROVE bWaring' <=> Warned'
    <2>1. CASE pc \in Early
      <3>1. pc' = "STATUS_WORD" /\ mod' = 1
        BY <2>1 DEF Early
      <3>2. \A m \in Supply : Counted(pc', mod', m) = {}
        BY <3>1 DEF Counted, Labels, Supply
      <3>3. ~Warned'
        BY <1>2, <3>2, Zenon DEF Warned
      <3> QED
        BY <1>4, <2>1, <3>3 DEF Run
    <2>2. CASE pc = "STATUS_WORD"
      <3>1. mod \in absent /\ mod' = 3 - mod /\ pc' = (IF mod = 1 THEN "STATUS_WORD" ELSE "end")
        BY <2>2
      <3>2. \A m \in Present : m \in Supply /\ m # mod
        BY <3>1 DEF Present
      <3>3. mod = 1 \/ mod = 2
        BY DEF TypeOK, Supply
      <3>4. \A m \in Present : Counted(pc', mod', m) = Counted(pc, mod, m)
        BY <2>2, <3>1, <3>2, <3>3 DEF Counted, Labels, Supply
      <3>5. \A m \in Present : \A label : Off(label, m)' <=> Off(label, m)
        BY OffSame
      <3>6. Warned' <=> Warned
        BY <1>2, <3>4, <3>5, Zenon DEF Warned
      <3>7. bWaring <=> Warned
        BY <1>3, <1>4, <2>2 DEF Run, Late
      <3> QED
        BY <3>6, <3>7
    <2> QED
      BY <2>1, <2>2 DEF Early
  <1> QED
    BY <1>1, <1>4 DEF Run

\* A reading.
LEMMA MeasureRun ==
  ASSUME TypeOK, Paging, Run, NEW label \in Readings, NEW fails \in BOOLEAN, pc = label,
         Show(label, fails), Warn(label), absent' = absent, sense' = sense, turned' = turned,
         pc' \in Late \cup {"end"}, pc' \notin {"12V", "STATUS_VOUT", "5Vsb"},
         \A m \in Supply : Counted(pc', mod', m)
                            = Counted(pc, mod, m) \cup (IF m = mod THEN {label} ELSE {}),
         pc' \in Late \ {"STATUS_WORD"} => mod' = mod
  PROVE  Run'
  <1>1. pc \in Late \ {"STATUS_WORD"} /\ pc' \notin Early
    BY DEF Early, Late, Details, Pages3, Readings
  <1>2. mod \notin absent /\ mod \in Present /\ mod \in Supply
    BY <1>1 DEF Run, Present, TypeOK
  <1>3. Present' = Present /\ Present \subseteq Supply
    BY DEF Present
  <1>4. Readable' <=> Readable
    BY <1>3 DEF Readable
  <1>5. ASSUME clean', Readable' PROVE bWaring' <=> Warned'
    <2>1. clean /\ ~fails
      BY <1>1, <1>5, ShowType DEF Late, Details, Pages3, Readings
    <2>2. RegOf(label) \in Paged => page[mod] = PageOf(label)
      BY <2>1 DEF Run, Paging, RegOf, PageOf, Paged, Readings
    <2>3. d0' = Right(label, mod)
      BY <2>1, <2>2, ShowType DEF Right, Origin
    <2>4. d0' \in Measured
      BY <1>2, <2>3, RightIn
    <2>5. bWaring' = (bWaring \/ OutOfRange(label, lin5_11ToFloat1(sense[d0'])))
      BY <2>4 DEF Warn
    <2>6. sense[d0'] \in Word
      BY <1>2, <2>3, SenseIn
    <2>7. label \in Signless => Meaning(sense[d0'])[1] >= 0
      BY <1>2, <1>4, <1>5, <2>3 DEF Readable
    <2>8. OutOfRange(label, lin5_11ToFloat1(sense[d0'])) <=> OutOfRange(label, Meaning(sense[d0']))
      BY <2>6, <2>7, RangeRight
    <2>9. bWaring' <=> bWaring \/ Off(label, mod)
      BY <2>3, <2>5, <2>8 DEF Off
    <2>10. bWaring <=> Warned
      BY <1>1, <1>4, <1>5, <2>1 DEF Run
    <2>11. \A m \in Present : \A l : Off(l, m)' <=> Off(l, m)
      BY OffSame
    <2>12. Warned' <=> \E m \in Present : \E l \in Counted(pc', mod', m) : Off(l, m)
      BY <1>3, <2>11, Zenon DEF Warned
    <2>13. Warned' <=> Warned \/ Off(label, mod)
      BY <1>2, <1>3, <2>12 DEF Warned
    <2> QED
      BY <2>9, <2>10, <2>13
  <1> QED
    BY <1>1, <1>2, <1>5 DEF Run

\* A step of someone else.
LEMMA SameRun ==
  ASSUME TypeOK, Run, pc' = pc, mod' = mod, absent' = absent, sense' = sense,
         bWaring' = bWaring, clean' = clean, turned' = turned
  PROVE  Run'
  <1>1. Present' = Present
    BY DEF Present
  <1>2. Readable' <=> Readable
    BY <1>1 DEF Readable
  <1>3. \A m, label : Off(label, m)' <=> Off(label, m)
    BY OffSame
  <1>4. Warned' <=> Warned
    BY <1>1, <1>3, Zenon DEF Warned
  <1> QED
    BY <1>2, <1>4 DEF Run

LEMMA MayFailType == ASSUME NEW m PROVE MayFail(m) \subseteq BOOLEAN
  BY DEF MayFail

\* The first part of a run.
LEMMA StartInv == IInv /\ Start => IInv'
  <1> SUFFICES ASSUME IInv, Start PROVE IInv'
    OBVIOUS
  <1>1. /\ pc' = "probe" /\ mod' = 1 /\ absent' = {} /\ flags' = {} /\ bWaring' = FALSE
        /\ block_d' = Nothing /\ shown' = Blank /\ turned' = FALSE /\ clean' = TRUE
        /\ plugged' = plugged /\ on' = on /\ page' = page /\ sense' = sense /\ d0' = d0
    BY DEF Start, Goto, supplies
  <1>2. TypeOK'
    BY <1>1 DEF IInv, TypeOK, Blank, Nothing, Readings, Reg, Supply, Main
  <1>3. Paging' /\ LabelsRight'
    BY <1>1 DEF Paging, LabelsRight, Blank
  <1>4. Run'
    BY <1>1, EarlyRun DEF IInv, Early
  <1> QED
    BY <1>2, <1>3, <1>4 DEF IInv

\* The next supply.
LEMMA Other ==
  ASSUME NEW m \in Supply
  PROVE  3 - m \in Supply /\ (m # 1 => 3 - m = 1) /\ (m = 1 => 3 - m = 2)
  BY DEF Supply

LEMMA ProbeInv == IInv /\ Probe => IInv'
  <1> SUFFICES ASSUME IInv, Probe PROVE IInv'
    OBVIOUS
  <1>0. TypeOK /\ mod \in Supply
    BY DEF IInv, TypeOK
  <1>1. PICK fails \in MayFail(mod) :
          /\ Fetch("PAGE", fails)
          /\ absent' = IF fails THEN absent \cup {mod} ELSE absent
    BY DEF Probe
  <1>2. /\ pc = "probe" /\ pc' = (IF mod = 1 THEN "probe" ELSE "MFR_FW_ID") /\ mod' = 3 - mod
        /\ flags' = flags /\ block_d' = block_d /\ bWaring' = bWaring /\ shown' = shown
        /\ turned' = turned /\ plugged' = plugged /\ on' = on /\ page' = page /\ sense' = sense
    BY DEF Probe, Turn, Goto, supplies
  <1>3. fails \in BOOLEAN /\ "PAGE" \in Reg
    BY <1>1, MayFailType DEF Reg
  <1>4. d0' \in Source \cup {Nothing} /\ clean' \in BOOLEAN /\ (clean' => clean)
    BY <1>0, <1>1, <1>3, FetchType
  <1>5. mod' \in Supply /\ absent' \subseteq Supply
    BY <1>0, <1>1, <1>2, Other DEF TypeOK
  <1>6. pc' \in Early
    BY <1>2 DEF Early
  <1>7. TypeOK'
    BY <1>0, <1>2, <1>4, <1>5, <1>6 DEF TypeOK, Early
  <1>8. Paging' /\ LabelsRight'
    BY <1>2, <1>6 DEF Paging, LabelsRight, Early, IInv
  <1>9. Run'
    <2>1. clean' => ~bWaring'
      BY <1>2, <1>4 DEF IInv, Run, Early
    <2> QED
      BY <1>6, <2>1, EarlyRun DEF IInv
  <1> QED
    BY <1>7, <1>8, <1>9 DEF IInv

LEMMA PowerModeInv == IInv /\ PowerMode => IInv'
  <1> SUFFICES ASSUME IInv, PowerMode PROVE IInv'
    OBVIOUS
  <1>0. TypeOK /\ mod \in Supply
    BY DEF IInv, TypeOK
  <1>1. PICK fails \in MayFail(mod) :
          /\ Fetch("MFR_FW_ID", fails)
          /\ block_d' \in IF fails THEN {block_d, Nothing} ELSE {d0'}
          /\ shown' = <<"MFR_FW_ID", mod, block_d', ~fails>>
    BY DEF PowerMode
  <1>2. /\ pc = "MFR_FW_ID" /\ pc' = "SN" /\ mod' = mod /\ absent' = absent
        /\ flags' = flags /\ bWaring' = bWaring /\ turned' = turned
        /\ plugged' = plugged /\ on' = on /\ page' = page /\ sense' = sense
    BY DEF PowerMode, Goto, supplies
  <1>3. fails \in BOOLEAN /\ "MFR_FW_ID" \in Reg
    BY <1>1, MayFailType DEF Reg
  <1>4. /\ d0' \in Source \cup {Nothing} /\ clean' \in BOOLEAN /\ (clean' => clean)
        /\ ~fails => d0' = Origin(mod, "MFR_FW_ID", page[mod])
    BY <1>0, <1>1, <1>3, FetchType
  <1>5. block_d' \in Source \cup {Nothing}
    BY <1>0, <1>1, <1>4 DEF TypeOK
  <1>6. shown' \in (Readings \cup Reg) \X Supply \X (Source \cup {Nothing}) \X BOOLEAN
    BY <1>0, <1>1, <1>3, <1>5, Zenon
  <1>7. TypeOK'
    BY <1>0, <1>2, <1>4, <1>5, <1>6 DEF TypeOK
  <1>8. LabelsRight'
    <2>1. ~fails => block_d' = Right("MFR_FW_ID", mod)
      BY <1>1, <1>4 DEF Right, Origin, RegOf, Paged
    <2>2. shown'[1] = "MFR_FW_ID" /\ shown'[2] = mod /\ shown'[3] = block_d' /\ shown'[4] = ~fails
      BY <1>1
    <2> QED
      BY <2>1, <2>2 DEF LabelsRight
  <1>9. Paging'
    BY <1>2 DEF Paging
  <1>10. Run'
    <2>1. clean' => ~bWaring'
      BY <1>2, <1>4 DEF IInv, Run, Early
    <2>2. pc' \in Early
      BY <1>2 DEF Early
    <2> QED
      BY <2>1, <2>2, EarlyRun DEF IInv
  <1> QED
    BY <1>7, <1>8, <1>9, <1>10 DEF IInv

LEMMA SerialNumberInv == IInv /\ SerialNumber => IInv'
  <1> SUFFICES ASSUME IInv, SerialNumber PROVE IInv'
    OBVIOUS
  <1>0. TypeOK /\ mod \in Supply
    BY DEF IInv, TypeOK
  <1>1. PICK fails \in MayFail(mod) : Show("SN", fails)
    BY DEF SerialNumber
  <1>2. /\ pc = "SN" /\ pc' = (IF mod = 1 THEN "MFR_FW_ID" ELSE "STATUS_WORD")
        /\ mod' = 3 - mod /\ absent' = absent /\ block_d' = block_d
        /\ flags' = flags /\ bWaring' = bWaring /\ turned' = turned
        /\ plugged' = plugged /\ on' = on /\ page' = page /\ sense' = sense
    BY DEF SerialNumber, Turn, Goto, supplies
  <1>3. fails \in BOOLEAN /\ "SN" \in Readings \cup Reg
    BY <1>1, MayFailType DEF Reg
  <1>4. /\ d0' \in Source \cup {Nothing} /\ clean' \in BOOLEAN /\ (clean' => clean)
        /\ shown' \in (Readings \cup Reg) \X Supply \X (Source \cup {Nothing}) \X BOOLEAN
    BY <1>0, <1>1, <1>3, ShowType
  <1>5. TypeOK'
    BY <1>0, <1>2, <1>4, Other DEF TypeOK
  <1>6. LabelsRight'
    <2>1. RegOf("SN") \notin Paged
      BY DEF RegOf, Paged
    <2> QED
      BY <1>0, <1>1, <1>3, <2>1, ShowRight
  <1>7. Paging'
    BY <1>2 DEF Paging
  <1>8. Run'
    <2>1. CASE mod = 1
      <3>1. clean' => ~bWaring'
        BY <1>2, <1>4 DEF IInv, Run, Early
      <3>2. pc' \in Early
        BY <1>2, <2>1 DEF Early
      <3> QED
        BY <3>1, <3>2, EarlyRun DEF IInv
    <2>2. CASE mod # 1
      <3>1. mod' = 1 /\ pc' = "STATUS_WORD"
        BY <1>0, <1>2, <2>2, Other
      <3> QED
        BY <1>0, <1>2, <1>4, <3>1, TurnRun DEF IInv
    <2> QED
      BY <2>1, <2>2
  <1> QED
    BY <1>5, <1>6, <1>7, <1>8 DEF IInv

LEMMA AbsentInv == IInv /\ Absent => IInv'
  <1> SUFFICES ASSUME IInv, Absent PROVE IInv'
    OBVIOUS
  <1>0. TypeOK /\ mod \in Supply
    BY DEF IInv, TypeOK
  <1>1. /\ mod \in absent /\ mod' = 3 - mod /\ absent' = absent /\ flags' = flags /\ d0' = d0
        /\ block_d' = block_d /\ bWaring' = bWaring /\ shown' = shown /\ turned' = turned
        /\ clean' = clean /\ plugged' = plugged /\ on' = on /\ page' = page /\ sense' = sense
    BY DEF Absent, Turn, supplies
  <1>2. \/ pc = "MFR_FW_ID" /\ pc' = (IF mod = 1 THEN "MFR_FW_ID" ELSE "STATUS_WORD")
        \/ pc = "STATUS_WORD" /\ pc' = (IF mod = 1 THEN "STATUS_WORD" ELSE "end")
    BY DEF Absent, Turn, Goto
  <1>3. TypeOK'
    BY <1>0, <1>1, <1>2, Other DEF TypeOK
  <1>4. Paging' /\ LabelsRight'
    BY <1>1, <1>2 DEF Paging, LabelsRight, IInv
  <1>5. Run'
    <2>1. CASE pc = "MFR_FW_ID" /\ mod = 1
      <3>1. clean' => ~bWaring'
        BY <1>1, <2>1 DEF IInv, Run, Early
      <3>2. pc' \in Early
        BY <1>2, <2>1 DEF Early
      <3> QED
        BY <3>1, <3>2, EarlyRun DEF IInv
    <2>2. CASE pc = "MFR_FW_ID" /\ mod # 1
      <3>1. mod' = 1 /\ pc' = "STATUS_WORD"
        BY <1>0, <1>1, <1>2, <2>2, Other
      <3> QED
        BY <1>0, <1>1, <2>2, <3>1, TurnRun DEF IInv
    <2>3. CASE pc = "STATUS_WORD"
      <3>1. pc' = (IF mod = 1 THEN "STATUS_WORD" ELSE "end")
        BY <1>2, <2>3
      <3> QED
        BY <1>0, <1>1, <2>3, <3>1, TurnRun DEF IInv
    <2> QED
      BY <1>2, <2>1, <2>2, <2>3
  <1> QED
    BY <1>3, <1>4, <1>5 DEF IInv

\* The second part.
LEMMA StatusInv == IInv /\ Status => IInv'
  <1> SUFFICES ASSUME IInv, Status PROVE IInv'
    OBVIOUS
  <1>0. TypeOK /\ mod \in Supply
    BY DEF IInv, TypeOK
  <1>1. PICK fails \in MayFail(mod) : Show("STATUS_WORD", fails)
    BY DEF Status
  <1>2. /\ mod \notin absent /\ pc = "STATUS_WORD" /\ pc' = "STATUS_TEMPERATURE"
        /\ mod' = mod /\ absent' = absent /\ block_d' = block_d
        /\ flags' \in FlagSets /\ bWaring' = bWaring /\ turned' = turned
        /\ plugged' = plugged /\ on' = on /\ page' = page /\ sense' = sense
    BY DEF Status, Goto, supplies
  <1>3. fails \in BOOLEAN /\ "STATUS_WORD" \in Readings \cup Reg
    BY <1>1, MayFailType DEF Reg
  <1>4. /\ d0' \in Source \cup {Nothing} /\ clean' \in BOOLEAN /\ (clean' => clean)
        /\ shown' \in (Readings \cup Reg) \X Supply \X (Source \cup {Nothing}) \X BOOLEAN
    BY <1>0, <1>1, <1>3, ShowType
  <1>5. flags' \subseteq Details
    BY <1>2, PmsAssumption
  <1>6. TypeOK'
    BY <1>0, <1>2, <1>4, <1>5 DEF TypeOK, Details
  <1>7. LabelsRight'
    <2>1. RegOf("STATUS_WORD") \notin Paged
      BY DEF RegOf, Paged
    <2> QED
      BY <1>0, <1>1, <1>3, <2>1, ShowRight
  <1>8. Paging'
    BY <1>2 DEF Paging
  <1>9. Run'
    <2>1. pc \in Late /\ pc' \in Late /\ Labels(pc') = Labels(pc)
      BY <1>2 DEF Late, Details, Labels
    <2> QED
      BY <1>0, <1>2, <1>4, <2>1, QuietRun DEF IInv
  <1> QED
    BY <1>6, <1>7, <1>8, <1>9 DEF IInv

\* Where a look into a condition leads.
DetailTo(reg, to) ==
  \/ reg = "STATUS_TEMPERATURE" /\ to = "STATUS_FANS_1_2"
  \/ reg = "STATUS_FANS_1_2" /\ to = "STATUS_INPUT"
  \/ reg = "STATUS_INPUT" /\ to = "STATUS_IOUT"
  \/ reg = "STATUS_IOUT" /\ to \in {"page_VOUT", "page_12V"}
  \/ reg = "STATUS_VOUT" /\ to = "page_12V"

LEMMA DetailInv ==
  ASSUME IInv, NEW reg, NEW to, DetailTo(reg, to), Detail(reg, to)
  PROVE  IInv'
  <1>0. TypeOK /\ mod \in Supply
    BY DEF IInv, TypeOK
  <1>1. /\ pc = reg /\ pc' = to /\ mod' = mod /\ absent' = absent /\ block_d' = block_d
        /\ flags' = flags /\ bWaring' = bWaring /\ turned' = turned
        /\ plugged' = plugged /\ on' = on /\ page' = page /\ sense' = sense
    BY DEF Detail, Goto, supplies
  <1>2. reg \in Details /\ reg \in Readings \cup Reg
    BY DEF DetailTo, Details, Reg
  <1>3. /\ reg \in Late \ {"STATUS_WORD"} /\ to \in Late /\ Labels(to) = Labels(reg)
        /\ to \notin {"12V", "STATUS_VOUT", "5Vsb"}
    BY DEF DetailTo, Late, Details, Labels, Pages3
  <1>4. /\ d0' \in Source \cup {Nothing} /\ clean' \in BOOLEAN /\ (clean' => clean)
        /\ shown' \in (Readings \cup Reg) \X Supply \X (Source \cup {Nothing}) \X BOOLEAN
        /\ LabelsRight'
    <2>1. ASSUME reg \in flags
          PROVE  \E fails \in MayFail(mod) : Show(reg, fails)
      BY <2>1 DEF Detail
    <2>2. CASE reg \in flags
      <3>1. PICK fails \in MayFail(mod) : Show(reg, fails)
        BY <2>1, <2>2
      <3>2. fails \in BOOLEAN
        BY MayFailType
      <3>3. RegOf(reg) \in Paged /\ turned /\ reg # "STATUS_IOUT" => page[mod] = PageOf(reg)
        <4>1. SUFFICES ASSUME RegOf(reg) \in Paged, turned, reg # "STATUS_IOUT"
                       PROVE  page[mod] = PageOf(reg)
          OBVIOUS
        <4>2. reg = "STATUS_VOUT"
          BY <4>1 DEF DetailTo, RegOf, Paged
        <4>3. page[mod] = Main
          BY <1>1, <4>1, <4>2 DEF IInv, Paging
        <4> QED
          BY <4>2, <4>3 DEF PageOf
      <3>4. LabelsRight'
        BY <1>0, <1>2, <3>1, <3>2, <3>3, ShowRight
      <3> QED
        BY <1>0, <1>2, <3>1, <3>2, <3>4, ShowType
    <2>3. CASE reg \notin flags
      <3>1. d0' = d0 /\ shown' = shown /\ clean' = clean
        BY <2>3 DEF Detail
      <3> QED
        BY <1>0, <3>1 DEF TypeOK, IInv, LabelsRight
    <2> QED
      BY <2>2, <2>3
  <1>5. to \in Details \cup {"page_VOUT", "page_12V"}
    BY DEF DetailTo, Details
  <1>6. TypeOK'
    BY <1>0, <1>1, <1>4, <1>5 DEF TypeOK
  <1>7. Paging'
    BY <1>1, <1>3 DEF Paging
  <1>8. mod \notin absent
    BY <1>1, <1>3 DEF IInv, Run
  <1>9. Run'
    BY <1>0, <1>1, <1>3, <1>4, <1>8, QuietRun DEF IInv
  <1> QED
    BY <1>4, <1>6, <1>7, <1>9 DEF IInv

LEMMA DetailsInv == IInv /\ StatusDetails => IInv'
  <1> SUFFICES ASSUME IInv, StatusDetails PROVE IInv'
    OBVIOUS
  <1>1. CASE Detail("STATUS_TEMPERATURE", "STATUS_FANS_1_2")
    BY <1>1, DetailInv DEF DetailTo
  <1>2. CASE Detail("STATUS_FANS_1_2", "STATUS_INPUT")
    BY <1>2, DetailInv DEF DetailTo
  <1>3. CASE Detail("STATUS_INPUT", "STATUS_IOUT")
    BY <1>3, DetailInv DEF DetailTo
  <1>4. CASE Detail("STATUS_IOUT", IF "STATUS_VOUT" \in flags THEN "page_VOUT" ELSE "page_12V")
    BY <1>4, DetailInv DEF DetailTo
  <1>5. CASE Detail("STATUS_VOUT", "page_12V")
    BY <1>5, DetailInv DEF DetailTo
  <1> QED
    BY <1>1, <1>2, <1>3, <1>4, <1>5 DEF StatusDetails

LEMMA PageInv ==
  ASSUME IInv, NEW from, NEW pg, NEW to, Page(from, pg, to),
         \/ from = "page_VOUT" /\ pg = Main /\ to = "STATUS_VOUT"
         \/ from = "page_12V" /\ pg = Main /\ to = "12V"
         \/ from = "page_5Vsb" /\ pg = Standby /\ to = "5Vsb"
  PROVE  IInv'
  <1>0. TypeOK /\ mod \in Supply /\ page \in [Supply -> {Main, Standby}]
    BY DEF IInv, TypeOK
  <1>1. PICK fails \in MayFail(mod) : SetPage(pg, fails)
    BY DEF Page
  <1>2. /\ pc = from /\ pc' = to /\ mod' = mod /\ absent' = absent /\ block_d' = block_d
        /\ flags' = flags /\ bWaring' = bWaring /\ shown' = shown
    BY DEF Page, Goto
  <1>3. /\ page' = (IF fails THEN page ELSE [page EXCEPT ![mod] = pg])
        /\ d0' = Origin(mod, "PAGE", Main) /\ turned' = ~fails
        /\ clean' = (clean /\ (fails => pc = "probe"))
        /\ plugged' = plugged /\ on' = on /\ sense' = sense
    BY <1>1 DEF SetPage, Outcome
  <1>4. fails \in BOOLEAN /\ pg \in {Main, Standby}
    BY MayFailType
  <1>5. page' \in [Supply -> {Main, Standby}] /\ (turned' => page'[mod] = pg)
    BY <1>0, <1>3, <1>4
  <1>6. d0' \in Source
    BY <1>0, <1>3, OriginIn DEF Reg
  <1>7. turned' \in BOOLEAN /\ clean' \in BOOLEAN /\ (clean' => clean)
    BY <1>0, <1>3, <1>4 DEF TypeOK
  <1>8. /\ from \in Late \ {"STATUS_WORD"} /\ to \in Late /\ Labels(to) = Labels(from)
        /\ from # "probe"
    BY DEF Late, Details, Labels, Pages3, Readings
  <1>9. to \in Details \cup Readings
    BY DEF Details, Readings
  <1>10. TypeOK'
    BY <1>0, <1>2, <1>3, <1>5, <1>6, <1>7, <1>9 DEF TypeOK
  <1>11. Paging'
    <2>1. /\ pc' \in {"12V", "STATUS_VOUT"} => pg = Main
          /\ pc' = "5Vsb" => pg = Standby
      BY <1>2
    <2> QED
      BY <1>2, <1>5, <2>1 DEF Paging
  <1>12. LabelsRight'
    BY <1>2 DEF IInv, LabelsRight
  <1>13. Run'
    <2>1. mod \notin absent
      BY <1>2, <1>8 DEF IInv, Run
    <2>2. clean' => turned'
      BY <1>2, <1>3, <1>8
    <2> QED
      BY <1>0, <1>2, <1>3, <1>7, <1>8, <2>1, <2>2, QuietRun DEF IInv
  <1> QED
    BY <1>10, <1>11, <1>12, <1>13 DEF IInv

LEMMA PagesInv == IInv /\ Pages => IInv'
  BY PageInv DEF Pages

\* What the readings have in common.
LEMMA TakeInv ==
  ASSUME IInv, NEW label \in Readings, NEW fails \in MayFail(mod), pc = label,
         Show(label, fails), Warn(label),
         UNCHANGED <<plugged, on, page, sense, absent, flags, block_d, turned>>,
         mod' \in Supply, pc' \in {"STATUS_WORD", "end", "page_5Vsb", "Fan_Speed", "Temp1", "Temp2"},
         \A m \in Supply : Counted(pc', mod', m)
                            = Counted(pc, mod, m) \cup (IF m = mod THEN {label} ELSE {}),
         pc' # "STATUS_WORD" => mod' = mod \/ pc' = "end"
  PROVE  IInv'
  <1>0. TypeOK /\ mod \in Supply
    BY DEF IInv, TypeOK
  <1>1. fails \in BOOLEAN /\ label \in Readings \cup Reg
    BY MayFailType
  <1>2. /\ d0' \in Source \cup {Nothing} /\ clean' \in BOOLEAN
        /\ shown' \in (Readings \cup Reg) \X Supply \X (Source \cup {Nothing}) \X BOOLEAN
    BY <1>0, <1>1, ShowType
  <1>3. bWaring' \in BOOLEAN
    <2>1. bWaring \in BOOLEAN
      BY <1>0 DEF TypeOK
    <2>2. CASE d0' \in Measured
      <3>1. bWaring' = (bWaring \/ OutOfRange(label, lin5_11ToFloat1(sense[d0'])))
        BY <2>2 DEF Warn
      <3>2. (bWaring \/ OutOfRange(label, lin5_11ToFloat1(sense[d0']))) \in BOOLEAN
        OBVIOUS
      <3> QED
        BY <3>1, <3>2, Zenon
    <2>3. CASE d0' \notin Measured
      BY <2>1, <2>3 DEF Warn
    <2> QED
      BY <2>2, <2>3
  <1>4. TypeOK'
    BY <1>0, <1>2, <1>3 DEF TypeOK, Readings
  <1>5. LabelsRight'
    <2>1. RegOf(label) \in Paged /\ turned => page[mod] = PageOf(label)
      BY DEF IInv, Paging, RegOf, PageOf, Paged, Readings
    <2> QED
      BY <1>0, <1>1, <2>1, ShowRight
  <1>6. Paging'
    BY DEF Paging
  <1>7. Run'
    <2>1. /\ pc' \in Late \cup {"end"} /\ pc' \notin {"12V", "STATUS_VOUT", "5Vsb"}
          /\ "end" \notin Late
      BY DEF Late, Details, Pages3, Readings
    <2>2. pc' \in Late \ {"STATUS_WORD"} => mod' = mod
      BY <2>1
    <2> QED
      BY <1>0, <1>1, <2>1, <2>2, MeasureRun DEF IInv
  <1> QED
    BY <1>4, <1>5, <1>6, <1>7 DEF IInv

LEMMA MeasureInv ==
  ASSUME IInv, NEW label \in Readings, NEW to, Measure(label, to),
         \/ label = "12V" /\ to = "page_5Vsb"
         \/ label = "5Vsb" /\ to = "Fan_Speed"
         \/ label = "Fan_Speed" /\ to = "Temp1"
         \/ label = "Temp1" /\ to = "Temp2"
  PROVE  IInv'
  <1>1. PICK fails \in MayFail(mod) : Show(label, fails)
    BY DEF Measure
  <1>2. /\ pc = label /\ pc' = to /\ mod' = mod /\ Warn(label)
        /\ UNCHANGED <<plugged, on, page, sense, absent, flags, block_d, turned>>
    BY DEF Measure, Goto, supplies
  <1>3. mod \in Supply
    BY DEF IInv, TypeOK
  <1>4. Labels(to) = Labels(label) \cup {label} /\ to # "end" /\ label # "end"
    BY DEF Labels
  <1>5. \A m \in Supply : Counted(pc', mod', m)
                          = Counted(pc, mod, m) \cup (IF m = mod THEN {label} ELSE {})
    BY <1>2, <1>4 DEF Counted, Supply
  <1>6. to \in {"STATUS_WORD", "end", "page_5Vsb", "Fan_Speed", "Temp1", "Temp2"}
    OBVIOUS
  <1> QED
    BY <1>1, <1>2, <1>3, <1>5, <1>6, TakeInv

LEMMA LastInv == IInv /\ LastMeasure => IInv'
  <1> SUFFICES ASSUME IInv, LastMeasure PROVE IInv'
    OBVIOUS
  <1>1. PICK fails \in MayFail(mod) : Show("Temp2", fails)
    BY DEF LastMeasure
  <1>2. /\ pc = "Temp2" /\ pc' = (IF mod = 1 THEN "STATUS_WORD" ELSE "end") /\ mod' = 3 - mod
        /\ Warn("Temp2")
        /\ UNCHANGED <<plugged, on, page, sense, absent, flags, block_d, turned>>
    BY DEF LastMeasure, Turn, Goto, supplies
  <1>3. mod \in Supply /\ mod' \in Supply /\ "Temp2" \in Readings
    BY <1>2, Other DEF IInv, TypeOK, Readings
  <1>4. Labels("Temp2") \cup {"Temp2"} = Readings /\ Labels("STATUS_WORD") = {}
    BY DEF Labels, Readings
  <1>5. \A m \in Supply : Counted(pc', mod', m)
                          = Counted(pc, mod, m) \cup (IF m = mod THEN {"Temp2"} ELSE {})
    <2>1. CASE mod = 1
      BY <1>2, <1>4, <2>1 DEF Counted, Supply, Readings
    <2>2. CASE mod = 2
      BY <1>2, <1>4, <2>2 DEF Counted, Supply, Readings
    <2> QED
      BY <1>3, <2>1, <2>2 DEF Supply
  <1> QED
    BY <1>1, <1>2, <1>3, <1>5, TakeInv

LEMMA MeasuresInv == IInv /\ Measures => IInv'
  BY MeasureInv, LastInv DEF Measures, Readings

\* Around the runs.
LEMMA ExitInv == IInv /\ Exit => IInv'
  <1> SUFFICES ASSUME IInv, Exit PROVE IInv'
    OBVIOUS
  <1>1. pc' = "idle" /\ UNCHANGED <<plugged, on, page, sense, mod, absent, flags, d0, block_d,
                                    bWaring, shown, turned, clean>>
    BY DEF Exit, supplies
  <1>2. TypeOK'
    BY <1>1 DEF IInv, TypeOK
  <1>3. Paging' /\ LabelsRight'
    BY <1>1 DEF IInv, Paging, LabelsRight
  <1>4. Run'
    BY <1>1 DEF Run, Early, Late, Details, Pages3, Readings
  <1> QED
    BY <1>2, <1>3, <1>4 DEF IInv

LEMMA SwapInv == ASSUME IInv, NEW m \in Supply, Swap(m) PROVE IInv'
  <1>1. pc' = "idle" /\ UNCHANGED <<on, sense, mod, absent, flags, d0, block_d, bWaring, shown,
                                    turned, clean>>
    BY DEF Swap
  <1>2. plugged' \subseteq Supply /\ page' \in [Supply -> {Main, Standby}]
    BY DEF Swap, IInv, TypeOK
  <1>3. TypeOK'
    BY <1>1, <1>2 DEF IInv, TypeOK
  <1>4. Paging' /\ LabelsRight'
    BY <1>1 DEF IInv, Paging, LabelsRight
  <1>5. Run'
    BY <1>1 DEF Run, Early, Late, Details, Pages3, Readings
  <1> QED
    BY <1>3, <1>4, <1>5 DEF IInv

LEMMA SwitchInv == IInv /\ (SetGpioLvlSel \/ UNCHANGED vars) => IInv'
  <1> SUFFICES ASSUME IInv, SetGpioLvlSel \/ UNCHANGED vars PROVE IInv'
    OBVIOUS
  <1>1. /\ on' \in BOOLEAN
        /\ UNCHANGED <<plugged, page, sense, pc, mod, absent, flags, d0, block_d, bWaring,
                       shown, turned, clean>>
    BY DEF SetGpioLvlSel, vars, IInv, TypeOK
  <1>2. TypeOK'
    BY <1>1 DEF IInv, TypeOK
  <1>3. Paging' /\ LabelsRight'
    BY <1>1 DEF IInv, Paging, LabelsRight
  <1>4. Run'
    BY <1>1, SameRun DEF IInv
  <1> QED
    BY <1>2, <1>3, <1>4 DEF IInv

LEMMA NextInv == IInv /\ [Next]_vars => IInv'
  BY StartInv, ProbeInv, PowerModeInv, SerialNumberInv, AbsentInv, StatusInv, DetailsInv,
     PagesInv, MeasuresInv, ExitInv, SwapInv, SwitchInv DEF Next

LEMMA Invariance == Spec => []IInv
  BY InitInv, NextInv, PTL DEF Spec

\* The types of the supplies' state and of the tool's.
THEOREM TypeCorrect == Spec => []TypeOK
  BY Invariance, InvImplies, PTL

\* pms.c, main(): a line whose own transactions have succeeded shows the
\* register and the output it is labelled with, for any readings and any
\* failures before it.
THEOREM LabelsCorrect == Spec => []LabelsRight
  BY Invariance, InvImplies, PTL

\* pms.c, main() and lin5_11ToFloat1(): at the end of a run without failures
\* the warning is there exactly if a reading is out of range, for any LINEAR11
\* words with speed and temperatures not below 0.
THEOREM WarnedCorrect == Spec => []WarnedRight
  BY Invariance, InvImplies, PTL
=============================================================================
