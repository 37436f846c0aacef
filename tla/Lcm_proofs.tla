------------------------------ MODULE Lcm_proofs ------------------------------
(***************************************************************************)
(* Proofs about the LCM driver and lcm_tst, for lines of any width.        *)
(***************************************************************************)
EXTENDS Lcm, TLAPS

\* In the loop of line l the buffer has gone on from where the run found it; it
\* has been shown, and the cursor has left the start of the line, once it has
\* come past its end.
InLine(l) ==
  /\ start + i < Width => j = start + i /\ row = l
  /\ start + i >= Width => j = (start + i) - Width /\ row = 0
  /\ start = 0 => \A c \in 0 .. (i - 1) : text[c] = Text[l][c]

\* Outside the loops the buffer is as the run found it.
OutsideLoops == {"opened", "clr", "ins", "call", "btn", "done"}

IInv ==
  /\ TypeOK
  /\ pc \in {"opened", "clr"} => i = 0
  /\ pc \in {"call", "btn"} => op = "btn"
  /\ pc = "line1" => InLine(1)
  /\ pc = "line2" => InLine(2)
  /\ pc \in OutsideLoops => j = start
  /\ start = 0 /\ pc \in {"ins", "line2"} => display[1] = Text[1]
  /\ LinesShown

\* The characters of a text: none of them is NUL.
LEMMA TextChars ==
  \A l \in Line : \A c \in Cols : Text[l][c] \in Char /\ Text[l][c] # Nul
  <1> TAKE l \in Line
  <1> TAKE c \in Cols
  <1>1. Text[l][c] = <<l, c>>
    BY DEF Text
  <1>2. l # 0
    BY DEF Line
  <1> QED
    BY <1>1, <1>2 DEF Char, Nul

LEMMA TextLines == \A l \in Line : Text[l] \in [Cols -> Char]
  <1> TAKE l \in Line
  <1>1. Text[l] = [c \in Cols |-> <<l, c>>]
    BY DEF Text
  <1> QED
    BY <1>1, TextChars DEF Char

LEMMA ColsNonEmpty == 0 \in Cols /\ Width - 1 \in Cols /\ Width \in Nat /\ Cols \subseteq Nat
  BY LcmAssumption DEF Cols

LEMMA InitInv == Init => IInv
  <1> SUFFICES ASSUME Init PROVE IInv
    OBVIOUS
  <1>1. text \in [Cols -> Char]
    BY DEF Init, Char
  <1>2. display \in [Line -> [Cols -> Char \cup {Blank}]]
    BY DEF Init, Cleared
  <1>3. read \in Keys \cup {Noise} /\ rx = << >>
    BY DEF Init
  <1>6. \A S : << >> \in Seq(S)
    OBVIOUS
  <1>5. rx \in Seq(Keys \cup {Noise})
    BY <1>3, <1>6
  <1>7. configured \in BOOLEAN
    BY DEF Init
  <1>8. j \in Cols /\ i \in Cols /\ start \in Cols /\ row \in 0 .. 2
    BY ColsNonEmpty DEF Init
  <1>4. TypeOK
    BY <1>1, <1>2, <1>3, <1>5, <1>7, <1>8 DEF Init, TypeOK, Command
  <1> QED
    BY <1>4 DEF Init, IInv, OutsideLoops, LinesShown

\* What LCM_SHOW does to the screen.
LEMMA ShowEffect ==
  ASSUME TypeOK, NEW t \in [Cols -> Char], LCM_SHOW(t)
  PROVE  /\ display' \in [Line -> [Cols -> Char \cup {Blank}]]
         /\ row' = 0
         /\ \A l \in Line : l # row => display'[l] = display[l]
         /\ \A l \in Line : l = row /\ (\A c \in Cols : t[c] # Nul) => display'[l] = t
  <1>1. /\ display' = [l \in Line |-> [c \in Cols |->
             IF l = row /\ \A b \in 0 .. c : t[b] # Nul THEN t[c] ELSE display[l][c]]]
        /\ row' = 0
    BY DEF LCM_SHOW
  <1>2. display \in [Line -> [Cols -> Char \cup {Blank}]]
    BY DEF TypeOK
  <1>3. \A l \in Line : display'[l] = [c \in Cols |->
             IF l = row /\ \A b \in 0 .. c : t[b] # Nul THEN t[c] ELSE display[l][c]]
    BY <1>1
  <1>4. \A l \in Line : display'[l] \in [Cols -> Char \cup {Blank}]
    <2> TAKE l \in Line
    <2>1. \A c \in Cols : t[c] \in Char \cup {Blank} /\ display[l][c] \in Char \cup {Blank}
      BY <1>2
    <2> QED
      BY <1>3, <2>1
  <1>5. display' \in [Line -> [Cols -> Char \cup {Blank}]]
    BY <1>1, <1>4
  <1>6. ASSUME NEW l \in Line, l # row PROVE display'[l] = display[l]
    <2>1. display'[l] = [c \in Cols |-> display[l][c]]
      BY <1>3, <1>6
    <2> QED
      BY <2>1, <1>2
  <1>7. ASSUME NEW l \in Line, l = row, \A c \in Cols : t[c] # Nul PROVE display'[l] = t
    <2>1. \A c \in Cols : \A b \in 0 .. c : b \in Cols
      BY LcmAssumption DEF Cols
    <2>2. \A c \in Cols : \A b \in 0 .. c : t[b] # Nul
      BY <2>1, <1>7
    <2>3. display'[l] = [c \in Cols |-> t[c]]
      BY <1>3, <1>7, <2>2
    <2> QED
      BY <2>3
  <1> QED
    BY <1>1, <1>5, <1>6, <1>7

-----------------------------------------------------------------------------
(* Each action keeps the invariant. *)

\* The actions other than the two loops leave the buffer alone.
LEMMA OpenInv == IInv /\ Open => IInv'
  <1> SUFFICES ASSUME IInv, Open PROVE IInv'
    OBVIOUS
  <1>1. i' \in Cols /\ start' \in Cols /\ j' = start'
    BY ColsNonEmpty DEF Open, IInv, TypeOK
  <1>3. TypeOK'
    BY <1>1 DEF Open, IInv, TypeOK, screen
  <1> QED
    BY <1>1, <1>3 DEF Open, IInv, OutsideLoops, LinesShown

LEMMA LCM_initInv == IInv /\ LCM_init => IInv'
  <1> SUFFICES ASSUME IInv, LCM_init PROVE IInv'
    OBVIOUS
  <1>1. rx' \in Seq(Keys \cup {Noise})
    BY DEF LCM_init, IInv, TypeOK
  <1>2. configured' \in BOOLEAN
    BY DEF LCM_init, IInv, TypeOK
  <1>3. TypeOK'
    BY <1>1, <1>2 DEF LCM_init, IInv, TypeOK, screen
  <1> QED
    BY <1>3 DEF LCM_init, IInv, OutsideLoops, LinesShown, screen

LEMMA LCM_CLRInv == IInv /\ LCM_CLR => IInv'
  <1> SUFFICES ASSUME IInv, LCM_CLR PROVE IInv'
    OBVIOUS
  <1>1. display' \in [Line -> [Cols -> Char \cup {Blank}]] /\ row' \in 0 .. 2
    BY DEF LCM_CLR, Cleared
  <1>2. configured' \in BOOLEAN
    BY DEF LCM_CLR, IInv, TypeOK
  <1>3. TypeOK'
    BY <1>1, <1>2 DEF LCM_CLR, IInv, TypeOK
  <1>4. pc' = "line1" => InLine(1)'
    <2>1. i' = 0 /\ start' = start /\ j' = start /\ row' = 1
      BY DEF LCM_CLR, IInv, OutsideLoops
    <2>2. start \in Cols
      BY DEF IInv, TypeOK
    <2> QED
      BY <2>1, <2>2, LcmAssumption DEF InLine, Cols
  <1> QED
    BY <1>3, <1>4 DEF LCM_CLR, IInv, OutsideLoops, LinesShown

LEMMA LCM_INSInv == IInv /\ LCM_INS => IInv'
  <1> SUFFICES ASSUME IInv, LCM_INS PROVE IInv'
    OBVIOUS
  <1>1. i' \in Cols /\ row' \in 0 .. 2
    BY ColsNonEmpty DEF LCM_INS
  <1>2. configured' \in BOOLEAN
    BY DEF LCM_INS, IInv, TypeOK
  <1>3. TypeOK'
    BY <1>1, <1>2 DEF LCM_INS, IInv, TypeOK
  <1>4. InLine(2)'
    <2>1. i' = 0 /\ start' = start /\ j' = start /\ row' = 2
      BY DEF LCM_INS, IInv, OutsideLoops
    <2>2. start \in Cols
      BY DEF IInv, TypeOK
    <2> QED
      BY <2>1, <2>2, LcmAssumption DEF InLine, Cols
  <1> QED
    BY <1>3, <1>4 DEF LCM_INS, IInv, OutsideLoops, LinesShown

\* One character of line l: the buffer goes on by one place, and the line is
\* shown if that was its last.
LEMMA CollectEffect ==
  ASSUME IInv, NEW l \in Line, InLine(l), Collect(Text[l][i])
  PROVE  /\ text' \in [Cols -> Char] /\ j' \in Cols
         /\ display' \in [Line -> [Cols -> Char \cup {Blank}]] /\ row' \in 0 .. 2
         /\ start + (i + 1) < Width => j' = start + (i + 1) /\ row' = l
         /\ start + (i + 1) >= Width => j' = (start + (i + 1)) - Width /\ row' = 0
         /\ start = 0 => \A c \in 0 .. i : text'[c] = Text[l][c]
         /\ start = 0 /\ i = Width - 1 => display'[l] = Text[l]
         /\ start = 0 => \A k \in Line : k # l => display'[k] = display[k]
  <1>1. /\ TypeOK /\ Width \in Nat \ {0}
        /\ start \in 0 .. (Width - 1) /\ i \in 0 .. (Width - 1) /\ j \in 0 .. (Width - 1)
    BY LcmAssumption DEF IInv, TypeOK, Cols
  <1>2. text \in [Cols -> Char] /\ Text[l][i] \in Char /\ j \in Cols /\ i \in Cols
    BY <1>1, TextChars DEF TypeOK
  <1>3. text' = [text EXCEPT ![j] = Text[l][i]] /\ text' \in [Cols -> Char]
    BY <1>2 DEF Collect
  <1>4. start = 0 => j = i /\ row = l
    BY <1>1 DEF InLine
  <1>5. start = 0 => \A c \in 0 .. i : text'[c] = Text[l][c]
    <2> SUFFICES ASSUME start = 0, NEW c \in 0 .. i PROVE text'[c] = Text[l][c]
      OBVIOUS
    <2>1. c \in Cols /\ (c = i \/ c \in 0 .. (i - 1))
      BY <1>1 DEF Cols
    <2>2. CASE c = i
      BY <1>2, <1>3, <1>4, <2>2
    <2>3. CASE c # i
      <3>1. text[c] = Text[l][c]
        BY <2>1, <2>3 DEF InLine
      <3> QED
        BY <1>2, <1>3, <1>4, <2>1, <2>3, <3>1
    <2> QED
      BY <2>2, <2>3
  <1>6. CASE j = Width - 1
    <2>1. j' = 0 /\ LCM_SHOW(text')
      BY <1>6 DEF Collect
    <2>2. start + i = Width - 1
      BY <1>1, <1>6 DEF InLine
    <2>3. row = l
      BY <1>1, <2>2 DEF InLine
    <2>4. /\ display' \in [Line -> [Cols -> Char \cup {Blank}]]
          /\ row' = 0
          /\ \A k \in Line : k # row => display'[k] = display[k]
          /\ \A k \in Line : k = row /\ (\A c \in Cols : text'[c] # Nul) => display'[k] = text'
      BY <1>1, <1>3, <2>1, ShowEffect
    <2>5. start = 0 => display'[l] = Text[l]
      <3> SUFFICES ASSUME start = 0 PROVE display'[l] = Text[l]
        OBVIOUS
      <3>1. 0 .. i = Cols
        BY <1>1, <2>2 DEF Cols
      <3>2. \A c \in Cols : text'[c] = Text[l][c]
        BY <1>5, <3>1
      <3>3. Text[l] \in [Cols -> Char]
        BY TextLines
      <3>4. text' = Text[l]
        BY <1>3, <3>2, <3>3
      <3>5. \A c \in Cols : text'[c] # Nul
        BY <3>2, TextChars
      <3> QED
        BY <2>3, <2>4, <3>4, <3>5
    <2>6. /\ start + (i + 1) = Width /\ ~(start + (i + 1) < Width)
          /\ j' = (start + (i + 1)) - Width
      BY <1>1, <2>1, <2>2
    <2>7. j' \in Cols /\ row' \in 0 .. 2
      BY <1>1, <2>1, <2>4 DEF Cols
    <2>8. \A k \in Line : k # l => display'[k] = display[k]
      BY <2>3, <2>4
    <2> QED
      BY <1>3, <1>5, <2>4, <2>5, <2>6, <2>7, <2>8
  <1>7. CASE j # Width - 1
    <2>1. j' = j + 1 /\ display' = display /\ row' = row
      BY <1>7 DEF Collect, screen
    <2>2. /\ display' \in [Line -> [Cols -> Char \cup {Blank}]] /\ row' \in 0 .. 2
          /\ \A k \in Line : display'[k] = display[k]
      BY <1>1, <2>1 DEF TypeOK
    <2>3. j' \in Cols
      BY <1>1, <1>7, <2>1 DEF Cols
    <2>4. ~(start = 0 /\ i = Width - 1)
      BY <1>4, <1>7
    <2>5. start + (i + 1) < Width => j' = start + (i + 1) /\ row' = l
      BY <1>1, <2>1 DEF InLine
    <2>6. start + (i + 1) >= Width => j' = (start + (i + 1)) - Width /\ row' = 0
      <3>1. start + i # Width - 1
        BY <1>1, <1>7 DEF InLine
      <3> QED
        BY <1>1, <2>1, <3>1 DEF InLine
    <2> QED
      BY <1>3, <1>5, <2>2, <2>3, <2>4, <2>5, <2>6
  <1> QED
    BY <1>6, <1>7

\* The end of a loop, or one more turn of it.
LEMMA ShowCharInv ==
  ASSUME IInv, NEW l \in Line, InLine(l), NEW here, NEW there, ShowChar(here, there, l),
         there \in {"ins", "done"}
  PROVE  /\ TypeOK'
         /\ pc' = here \/ pc' = there
         /\ start' = start /\ op' = op
         /\ here # there /\ pc' = here => InLine(l)'
         /\ pc' = there /\ here # there => j' = start /\ (start = 0 => display'[l] = Text[l])
         /\ start = 0 => \A k \in Line : k # l => display'[k] = display[k]
  <1>1. /\ text' \in [Cols -> Char] /\ j' \in Cols
        /\ display' \in [Line -> [Cols -> Char \cup {Blank}]] /\ row' \in 0 .. 2
        /\ start + (i + 1) < Width => j' = start + (i + 1) /\ row' = l
        /\ start + (i + 1) >= Width => j' = (start + (i + 1)) - Width /\ row' = 0
        /\ start = 0 => \A c \in 0 .. i : text'[c] = Text[l][c]
        /\ start = 0 /\ i = Width - 1 => display'[l] = Text[l]
        /\ start = 0 => \A k \in Line : k # l => display'[k] = display[k]
    BY CollectEffect DEF ShowChar
  <1>2. /\ Width \in Nat \ {0} /\ start \in 0 .. (Width - 1) /\ i \in 0 .. (Width - 1)
        /\ pc = here
        /\ configured' = configured /\ rx' = rx /\ read' = read /\ op' = op
        /\ start' = start
    BY LcmAssumption DEF IInv, TypeOK, Cols, ShowChar
  <1>3. configured' \in BOOLEAN
    BY <1>2 DEF IInv, TypeOK
  <1>4. CASE i = Width - 1
    <2>1. pc' = there /\ i' = i
      BY <1>4 DEF ShowChar
    <2>2. j' = start
      BY <1>1, <1>2, <1>4
    <2>3. TypeOK'
      BY <1>1, <1>2, <1>3, <2>1 DEF IInv, TypeOK
    <2> QED
      BY <1>1, <1>2, <1>4, <2>1, <2>2, <2>3
  <1>5. CASE i # Width - 1
    <2>1. i' = i + 1 /\ pc' = pc
      BY <1>5 DEF ShowChar
    <2>2. i' \in Cols /\ 0 .. (i' - 1) = 0 .. i
      BY <1>2, <1>5, <2>1 DEF Cols
    <2>3. TypeOK'
      BY <1>1, <1>2, <1>3, <2>1, <2>2 DEF IInv, TypeOK
    <2>4. InLine(l)'
      BY <1>1, <1>2, <2>1, <2>2 DEF InLine
    <2> QED
      BY <1>1, <1>2, <2>1, <2>3, <2>4
  <1> QED
    BY <1>4, <1>5

LEMMA ShowLine1Inv == IInv /\ ShowLine1 => IInv'
  <1> SUFFICES ASSUME IInv, ShowLine1 PROVE IInv'
    OBVIOUS
  <1>1. 1 \in Line /\ pc = "line1" /\ InLine(1) /\ ShowChar("line1", "ins", 1)
    BY DEF IInv, ShowLine1, ShowChar, Line
  <1>2. /\ TypeOK'
        /\ pc' = "line1" \/ pc' = "ins"
        /\ pc' = "line1" => InLine(1)'
        /\ pc' = "ins" => j' = start /\ (start = 0 => display'[1] = Text[1])
        /\ start' = start
    BY <1>1, ShowCharInv
  <1> QED
    BY <1>2 DEF IInv, OutsideLoops, LinesShown

LEMMA ShowLine2Inv == IInv /\ ShowLine2 => IInv'
  <1> SUFFICES ASSUME IInv, ShowLine2 PROVE IInv'
    OBVIOUS
  <1>1. /\ 1 \in Line /\ 2 \in Line /\ 1 # 2
        /\ pc = "line2" /\ InLine(2) /\ ShowChar("line2", "done", 2)
    BY DEF IInv, ShowLine2, ShowChar, Line
  <1>2. /\ TypeOK'
        /\ pc' = "line2" \/ pc' = "done"
        /\ pc' = "line2" => InLine(2)'
        /\ pc' = "done" => j' = start /\ (start = 0 => display'[2] = Text[2])
        /\ start' = start
        /\ start = 0 => \A k \in Line : k # 2 => display'[k] = display[k]
    BY <1>1, ShowCharInv
  <1>3. start = 0 => display'[1] = Text[1]
    BY <1>1, <1>2 DEF IInv
  <1>4. pc' = "done" /\ start = 0 => display' = Text
    <2> SUFFICES ASSUME pc' = "done", start = 0 PROVE display' = Text
      OBVIOUS
    <2>1. \A l \in Line : display'[l] = Text[l]
      BY <1>2, <1>3 DEF Line
    <2>2. display' = [l \in Line |-> display'[l]]
      BY <1>2 DEF TypeOK
    <2>3. Text = [l \in Line |-> Text[l]]
      BY DEF Text
    <2> QED
      BY <2>1, <2>2, <2>3
  <1> QED
    BY <1>2, <1>3, <1>4 DEF IInv, OutsideLoops, LinesShown

LEMMA CallBtnInv == IInv /\ CallBtn => IInv'
  <1> SUFFICES ASSUME IInv, CallBtn PROVE IInv'
    OBVIOUS
  <1>1. read' \in Keys \cup {Noise}
    BY DEF CallBtn
  <1>2. configured' \in BOOLEAN
    BY DEF CallBtn, IInv, TypeOK
  <1>3. TypeOK'
    BY <1>1, <1>2 DEF CallBtn, IInv, TypeOK, screen
  <1> QED
    BY <1>3 DEF CallBtn, IInv, OutsideLoops, LinesShown, screen

LEMMA LCM_BTNInv == IInv /\ LCM_BTN => IInv'
  <1> SUFFICES ASSUME IInv, LCM_BTN PROVE IInv'
    OBVIOUS
  <1>1. read' \in Keys \cup {Noise} /\ rx' \in Seq(Keys \cup {Noise})
    <2>1. read \in Keys \cup {Noise} /\ rx \in Seq(Keys \cup {Noise})
      BY DEF IInv, TypeOK
    <2>2. CASE rx = << >>
      BY <2>1, <2>2 DEF LCM_BTN
    <2>3. CASE rx # << >>
      <3> DEFINE S == Keys \cup {Noise}
      <3>1. rx \in Seq(S)
        BY <2>1
      <3> HIDE DEF S
      <3>2. Head(rx) \in S /\ Tail(rx) \in Seq(S)
        BY <2>3, <3>1
      <3>3. read' \in S /\ rx' \in Seq(S)
        BY <2>3, <3>2 DEF LCM_BTN
      <3> QED
        BY <3>3 DEF S
    <2> QED
      BY <2>2, <2>3
  <1>2. configured' \in BOOLEAN
    BY DEF LCM_BTN, IInv, TypeOK
  <1>4. pc' \in {"btn", "done"} /\ pc = "btn" /\ op' = op
    BY DEF LCM_BTN
  <1>5. TypeOK'
    BY <1>1, <1>2, <1>4 DEF LCM_BTN, IInv, TypeOK, screen
  <1> QED
    BY <1>4, <1>5 DEF LCM_BTN, IInv, OutsideLoops, LinesShown, screen

LEMMA EndInv == IInv /\ (Close \/ Kill) => IInv'
  <1> SUFFICES ASSUME IInv, Close \/ Kill PROVE IInv'
    OBVIOUS
  <1>1. /\ pc' = "none"
        /\ UNCHANGED <<text, j, screen, configured, rx, read, op, i, start>>
    BY DEF Close, Kill
  <1>2. configured' \in BOOLEAN
    BY <1>1 DEF IInv, TypeOK
  <1>3. TypeOK'
    BY <1>1, <1>2 DEF IInv, TypeOK, screen
  <1> QED
    BY <1>1, <1>3 DEF IInv, OutsideLoops, LinesShown

LEMMA PressInv == IInv /\ Press => IInv'
  <1> SUFFICES ASSUME IInv, Press PROVE IInv'
    OBVIOUS
  <1>1. rx' \in Seq(Keys \cup {Noise})
    <2> DEFINE S == Keys \cup {Noise}
    <2>1. PICK byte \in (IF configured THEN Keys ELSE {}) \cup {Noise} : rx' = Append(rx, byte)
      BY DEF Press
    <2>2. byte \in S /\ rx \in Seq(S)
      BY DEF IInv, TypeOK
    <2> HIDE DEF S
    <2>3. Append(rx, byte) \in Seq(S)
      BY <2>2
    <2> QED
      BY <2>1, <2>3 DEF S
  <1>2. configured' \in BOOLEAN
    BY DEF Press, IInv, TypeOK
  <1>3. TypeOK'
    BY <1>1, <1>2 DEF Press, IInv, TypeOK, screen
  <1> QED
    BY <1>3 DEF Press, IInv, InLine, OutsideLoops, LinesShown, screen

LEMMA StutterInv == IInv /\ UNCHANGED vars => IInv'
  <1> SUFFICES ASSUME IInv, UNCHANGED vars PROVE IInv'
    OBVIOUS
  <1>1. configured' \in BOOLEAN
    BY DEF vars, IInv, TypeOK
  <1>2. TypeOK'
    BY <1>1 DEF vars, IInv, TypeOK
  <1> QED
    BY <1>2 DEF vars, IInv, InLine, OutsideLoops, LinesShown

-----------------------------------------------------------------------------
(* The theorems. *)

LEMMA Invariance == Spec => []IInv
  <1>1. Init => IInv
    BY InitInv
  <1>2. IInv /\ [Next]_vars => IInv'
    BY OpenInv, LCM_initInv, LCM_CLRInv, LCM_INSInv, ShowLine1Inv, ShowLine2Inv,
       CallBtnInv, LCM_BTNInv, EndInv, PressInv, StutterInv DEF Next, Step
  <1> QED
    BY <1>1, <1>2, PTL DEF Spec

\* The variables keep their types: the buffer's place stays inside the buffer
\* (lcm_ioctl writes text[j] and wraps j at 15).
THEOREM TypeCorrect == Spec => []TypeOK
  <1>1. IInv => TypeOK
    BY DEF IInv
  <1> QED
    BY <1>1, Invariance, PTL

\* A run of -show that finds the buffer empty and is not killed shows both
\* texts, for lines of any width.
THEOREM LinesCorrect == Spec => []LinesShown
  <1>1. IInv => LinesShown
    BY DEF IInv
  <1> QED
    BY <1>1, Invariance, PTL

\* The driver shows its buffer only with the cursor at the start of a line,
\* however far a killed run has shifted the buffer.
THEOREM NoOverrun == Spec => []ShownAtLineStart
  <1>1. IInv => ShownAtLineStart
    <2> SUFFICES ASSUME IInv, pc \in {"line1", "line2"}, j = Width - 1
                 PROVE  row # 0
      BY DEF ShownAtLineStart
    <2>1. /\ Width \in Nat \ {0}
          /\ start \in 0 .. (Width - 1) /\ i \in 0 .. (Width - 1)
      BY LcmAssumption DEF IInv, TypeOK, Cols
    <2>2. CASE pc = "line1"
      BY <2>1, <2>2 DEF IInv, InLine
    <2>3. CASE pc = "line2"
      BY <2>1, <2>3 DEF IInv, InLine
    <2> QED
      BY <2>2, <2>3
  <1> QED
    BY <1>1, Invariance, PTL

\* A complete run leaves the buffer's shift as it found it: only a reload or
\* another kill changes it.
THEOREM ShiftCorrect == Spec => []ShiftStays
  <1>1. IInv => ShiftStays
    BY DEF IInv, OutsideLoops, ShiftStays
  <1> QED
    BY <1>1, Invariance, PTL

-----------------------------------------------------------------------------
(* The end of a run: the part of BtnAnswers that needs no fairness. *)

\* The ioctls a run has left, at most; one LCM_BTN counts however long it waits.
CallsLeft ==
  CASE pc = "none"   -> 0
    [] pc = "done"   -> 1
    [] pc = "line2"  -> 1 + Width - i
    [] pc = "ins"    -> 2 + Width
    [] pc = "line1"  -> 2 + Width + Width - i
    [] pc = "btn"    -> 2
    [] pc = "call"   -> 3
    [] pc = "clr"    -> 3 + Width + Width
    [] pc = "opened" -> 4 + Width + Width

\* Never more than two lines have characters, and the calls around them.
WithinLines == CallsLeft \in 0 .. (4 + Width + Width) /\ (CallsLeft = 0 <=> pc = "none")

\* A run goes on at every step of its own, except in the loop of LCM_BTN.
RunShortens == [][pc # "none" => Press \/ LCM_BTN \/ CallsLeft' < CallsLeft]_vars

\* The n-th byte in the receiver is the first that a button has sent.
FirstKeyAt(n) ==
  n \in 1 .. Len(rx) /\ rx[n] \in Keys /\ \A m \in 1 .. (n - 1) : rx[m] \notin Keys

\* While LCM_BTN waits, a key in the receiver comes one byte closer with each
\* turn of the loop, until it is its turn and the ioctl ends; what else is
\* received in the meantime does not push it back.  The loop may also end by
\* the leftover in its variable, if the receiver is empty.
KeyComesCloser ==
  [][\A n \in Nat :
       pc = "btn" /\ FirstKeyAt(n) =>
         \/ Press /\ pc' = "btn" /\ FirstKeyAt(n)'
         \/ LCM_BTN /\ n = 1 /\ pc' = "done"
         \/ LCM_BTN /\ n > 1 /\ pc' = "btn" /\ FirstKeyAt(n - 1)']_vars

LEMMA CallsRange == TypeOK => WithinLines
  <1> SUFFICES ASSUME TypeOK PROVE WithinLines
    OBVIOUS
  <1>1. Width \in Nat /\ i \in Nat /\ i < Width
    BY ColsNonEmpty DEF TypeOK, Cols
  <1>2. pc \in {"none", "opened", "clr", "line1", "ins", "line2", "call", "btn", "done"}
    BY DEF TypeOK
  <1>3. CallsLeft \in Nat
    BY <1>1, <1>2 DEF CallsLeft
  <1>4. CallsLeft <= 4 + Width + Width
    BY <1>1, <1>2 DEF CallsLeft
  <1>5. CallsLeft = 0 <=> pc = "none"
    BY <1>1, <1>2 DEF CallsLeft
  <1>6. 4 + Width + Width \in Nat
    BY <1>1
  <1> QED
    BY <1>1, <1>3, <1>4, <1>5, <1>6 DEF WithinLines

LEMMA CallsDecrease ==
  ASSUME TypeOK, pc # "none", Next
  PROVE  Press \/ LCM_BTN \/ CallsLeft' < CallsLeft
  <1>1. Width \in Nat \ {0} /\ i \in Nat /\ i < Width
    BY LcmAssumption, ColsNonEmpty DEF TypeOK, Cols
  <1>2. CASE Close \/ Kill
    <2>1. pc' = "none"
      BY <1>2 DEF Close, Kill
    <2>2. CallsLeft' = 0
      BY <2>1 DEF CallsLeft
    <2>3. CallsLeft > 0
      BY CallsRange DEF WithinLines
    <2> QED
      BY <2>2, <2>3
  <1>3. CASE LCM_init
    <2>1. pc = "opened" /\ pc' \in {"call", "done", "clr"}
      BY <1>3 DEF LCM_init
    <2> QED
      BY <1>1, <2>1 DEF CallsLeft
  <1>4. CASE LCM_CLR
    <2>1. pc = "clr" /\ pc' \in {"line1", "done"} /\ i' = i
      BY <1>4 DEF LCM_CLR
    <2> QED
      BY <1>1, <2>1 DEF CallsLeft
  <1>5. CASE LCM_INS
    <2>1. pc = "ins" /\ pc' = "line2" /\ i' = 0
      BY <1>5 DEF LCM_INS
    <2> QED
      BY <1>1, <2>1 DEF CallsLeft
  <1>6. CASE ShowLine1
    <2>1. /\ pc = "line1"
          /\ \/ pc' = "ins" /\ i' = i
             \/ pc' = "line1" /\ i' = i + 1
      BY <1>6 DEF ShowLine1, ShowChar
    <2> QED
      BY <1>1, <2>1 DEF CallsLeft
  <1>7. CASE ShowLine2
    <2>1. /\ pc = "line2"
          /\ \/ pc' = "done" /\ i' = i
             \/ pc' = "line2" /\ i' = i + 1
      BY <1>7 DEF ShowLine2, ShowChar
    <2> QED
      BY <1>1, <2>1 DEF CallsLeft
  <1>8. CASE CallBtn
    BY <1>8 DEF CallBtn, CallsLeft
  <1>9. ~Open
    BY DEF Open
  <1> QED
    BY <1>2, <1>3, <1>4, <1>5, <1>6, <1>7, <1>8, <1>9 DEF Next, Step

\* A run that does not wait for a button is over after 2 * Width + 4 calls at
\* most, whatever is received: every step of it leaves fewer calls.
THEOREM RunsBounded == Spec => []WithinLines /\ RunShortens
  <1>1. IInv => WithinLines
    BY CallsRange DEF IInv
  <1>2. IInv /\ [Next]_vars => [pc # "none" => Press \/ LCM_BTN \/ CallsLeft' < CallsLeft]_vars
    BY CallsDecrease DEF IInv
  <1> QED
    BY <1>1, <1>2, Invariance, PTL DEF Spec, RunShortens

\* What one step makes of a button's byte in the receiver.
LEMMA KeyPress ==
  ASSUME TypeOK, pc = "btn", NEW n \in Nat, FirstKeyAt(n), Press
  PROVE  pc' = "btn" /\ FirstKeyAt(n)'
  <1>1. PICK byte : rx' = Append(rx, byte)
    BY DEF Press
  <1>2. rx \in Seq(Keys \cup {Noise})
    BY DEF TypeOK
  <1>3. Len(rx') = Len(rx) + 1 /\ Len(rx) \in Nat /\ \A m \in 1 .. Len(rx) : rx'[m] = rx[m]
    <2> DEFINE S == Keys \cup {Noise} \cup {byte}
    <2>1. rx \in Seq(S) /\ byte \in S
      BY <1>2
    <2> HIDE DEF S
    <2> QED
      BY <1>1, <2>1
  <1>4. n \in 1 .. Len(rx') /\ \A m \in 1 .. n : rx'[m] = rx[m]
    BY <1>3 DEF FirstKeyAt
  <1>5. n \in 1 .. n /\ \A m \in 1 .. (n - 1) : m \in 1 .. n
    BY DEF FirstKeyAt
  <1>6. FirstKeyAt(n)'
    BY <1>4, <1>5 DEF FirstKeyAt
  <1> QED
    BY <1>6 DEF Press

LEMMA KeyTurn ==
  ASSUME TypeOK, NEW n \in Nat, FirstKeyAt(n), LCM_BTN
  PROVE  \/ n = 1 /\ pc' = "done"
         \/ n > 1 /\ pc' = "btn" /\ FirstKeyAt(n - 1)'
  <1> DEFINE S == Keys \cup {Noise}
  <1>1. rx \in Seq(S)
    BY DEF TypeOK
  <1> HIDE DEF S
  <1>2. Len(rx) \in Nat /\ Len(rx) >= 1 /\ rx # << >> /\ n \in 1 .. Len(rx)
    BY <1>1 DEF FirstKeyAt
  <1>3. read' = rx[1] /\ rx' = Tail(rx)
    BY <1>1, <1>2 DEF LCM_BTN
  <1>4. CASE n = 1
    BY <1>3, <1>4 DEF FirstKeyAt, LCM_BTN
  <1>5. CASE n > 1
    <2>1. 1 \in 1 .. (n - 1)
      BY <1>2, <1>5
    <2>2. rx[1] \notin Keys
      BY <2>1 DEF FirstKeyAt
    <2>3. pc' = "btn"
      BY <1>3, <2>2 DEF LCM_BTN
    <2>4. Len(rx') = Len(rx) - 1 /\ \A m \in 1 .. (Len(rx) - 1) : rx'[m] = rx[m + 1]
      BY <1>1, <1>2, <1>3
    <2>5. n - 1 \in 1 .. Len(rx') /\ rx'[n - 1] = rx[n]
      BY <1>2, <1>5, <2>4
    <2>6. ASSUME NEW m \in 1 .. ((n - 1) - 1) PROVE rx'[m] \notin Keys
      <3>1. m \in 1 .. (Len(rx) - 1) /\ m + 1 \in 1 .. (n - 1)
        BY <1>2, <2>6
      <3> QED
        BY <2>4, <3>1 DEF FirstKeyAt
    <2>7. FirstKeyAt(n - 1)'
      BY <2>5, <2>6 DEF FirstKeyAt
    <2> QED
      BY <1>5, <2>3, <2>7
  <1> QED
    BY <1>2, <1>4, <1>5

\* LCM_BTN takes as many turns as there are bytes up to the first key, whatever
\* is pressed meanwhile: with a loop that goes on, it ends.
THEOREM KeyFound == Spec => KeyComesCloser
  <1>1. IInv /\ [Next]_vars =>
          [\A n \in Nat :
             pc = "btn" /\ FirstKeyAt(n) =>
               \/ Press /\ pc' = "btn" /\ FirstKeyAt(n)'
               \/ LCM_BTN /\ n = 1 /\ pc' = "done"
               \/ LCM_BTN /\ n > 1 /\ pc' = "btn" /\ FirstKeyAt(n - 1)']_vars
    <2> SUFFICES ASSUME TypeOK, Next, NEW n \in Nat, pc = "btn", FirstKeyAt(n)
                 PROVE  \/ Press /\ pc' = "btn" /\ FirstKeyAt(n)'
                        \/ LCM_BTN /\ n = 1 /\ pc' = "done"
                        \/ LCM_BTN /\ n > 1 /\ pc' = "btn" /\ FirstKeyAt(n - 1)'
      BY DEF IInv
    <2>1. Press \/ LCM_BTN
      BY DEF Next, Step, Open, Kill, LCM_init, LCM_CLR, LCM_INS, ShowLine1, ShowLine2,
             ShowChar, CallBtn, Close
    <2> QED
      BY <2>1, KeyPress, KeyTurn
  <1> QED
    BY <1>1, Invariance, PTL DEF Spec, KeyComesCloser

=============================================================================
