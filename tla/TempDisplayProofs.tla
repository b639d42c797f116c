--------------------------- MODULE TempDisplayProofs --------------------------
(***************************************************************************)
(* Proofs about TempDisplay, for every number of processes, digits and     *)
(* readings told apart, and every pair of dividers: the inductive          *)
(* invariant IInv and what it says of the lamps.                           *)
(***************************************************************************)
EXTENDS TempDisplay, TLAPS

-----------------------------------------------------------------------------
(* Arithmetic *)

\* A counter that stays below its modulus is not wrapped.
LEMMA ModSmall ==
  ASSUME NEW n \in Nat, NEW m \in Nat, n < m
  PROVE  n % m = n
  OBVIOUS

\* The digit after the last is the first.
LEMMA NextDigit ==
  ASSUME NEW d \in Digit
  PROVE  /\ (d + 1) % Digits \in Digit
         /\ d + 1 < Digits => (d + 1) % Digits = d + 1
         /\ ~ (d + 1 < Digits) => d = Digits - 1
<1>1. Digits \in Nat \ {0} /\ d \in 0..Digits - 1
  BY ScannerAssumption DEF Digit
<1>2. CASE d + 1 < Digits
  BY <1>1, <1>2, ModSmall DEF Digit
<1>3. CASE ~ (d + 1 < Digits)
  <2>1. (d + 1) % Digits \in 0..Digits - 1
    BY <1>1
  <2> QED BY <1>1, <1>3, <2>1 DEF Digit
<1> QED BY <1>2, <1>3

\* The number of a reading is one of those that a cell can hold.
LEMMA CellsType ==
  ASSUME NEW p \in Proc, NEW n \in 0..Readings
  PROVE  Cells(p, n) \in 0..NProcs * Readings
<1>1. NProcs \in Nat /\ Readings \in Nat /\ p \in 1..NProcs /\ n \in Nat /\ n <= Readings
  BY DisplayAssumption DEF Proc
<1>2. (p - 1) * Readings \in Nat
  BY <1>1
<1>3. p * Readings = (p - 1) * Readings + Readings
  BY <1>1
<1>4. p * Readings <= NProcs * Readings
  <2>1. NProcs - p \in Nat
    BY <1>1
  <2>2. (NProcs - p) * Readings \in Nat
    BY <1>1, <2>1
  <2>3. NProcs * Readings = p * Readings + (NProcs - p) * Readings
    BY <1>1
  <2> QED BY <1>1, <2>2, <2>3
<1>5. NProcs * Readings \in Nat
  BY <1>1
<1> QED BY <1>1, <1>2, <1>3, <1>4, <1>5 DEF Cells

\* The number of the next reading is a number of a reading, and not that of none.
LEMMA NextReading ==
  ASSUME NEW n \in 0..Readings
  PROVE  (n % Readings) + 1 \in 1..Readings
  BY DisplayAssumption

-----------------------------------------------------------------------------
(* Initial states *)

\* A board after power-up, with no process ever started, satisfies IInv.
LEMMA InitIInv == Init => IInv
<1> SUFFICES ASSUME Init PROVE IInv
  OBVIOUS
<1> USE ScannerAssumption, DisplayAssumption
<1>1. 0 \in 0..NProcs * Readings
  <2>1. NProcs * Readings \in Nat
    OBVIOUS
  <2> QED BY <2>1
<1>2. TypeOK
  BY <1>1 DEF Init, HwReset, TypeOK, Digit
<1>3. DwellBounded
  BY DEF Init, HwReset, DwellBounded
<1>4. AloneMeansNoOther /\ \A p \in Proc : Own(p)
  BY DEF Init, AloneMeansNoOther, Running, Own, Clearing, Dark, Waiting, Writing, Written
<1> QED BY <1>2, <1>3, <1>4 DEF IInv

-----------------------------------------------------------------------------
(* The fabric *)

\* A clock cycle keeps the index a digit and the timer within the dividers.
LEMMA ClockStep == IInv /\ Clock /\ UNCHANGED swVars => IInv'
<1> SUFFICES ASSUME IInv, Clock, UNCHANGED swVars PROVE IInv'
  OBVIOUS
<1> USE ScannerAssumption, DisplayAssumption
<1>1. /\ timer \in 0..TimerWrap - 1 /\ idx \in Digit
      /\ divider \in {DefaultDivider, Divider}
  BY DEF IInv, TypeOK
<1>2. idx' \in Digit /\ timer' \in 0..TimerWrap - 1 /\ DwellBounded'
  <2>1. CASE ~ enable
    BY <2>1, <1>1 DEF Clock, Digit, DwellBounded
  <2>2. CASE enable /\ timer >= divider
    BY <2>2, <1>1, NextDigit DEF Clock, DwellBounded
  <2>3. CASE enable /\ ~ (timer >= divider)
    <3>1. timer + 1 < TimerWrap /\ timer + 1 <= divider
      BY <2>3, <1>1
    <3>2. timer' = timer + 1 /\ idx' = idx
      BY <3>1, <2>3, <1>1, ModSmall DEF Clock
    <3> QED BY <3>1, <3>2, <1>1 DEF DwellBounded
  <2> QED BY <2>1, <2>2, <2>3
<1>3. TypeOK'
  BY <1>2 DEF IInv, TypeOK, Clock, csrVars, swVars
<1>4. AloneMeansNoOther' /\ \A p \in Proc : alone'[p] => Own(p)'
  BY DEF IInv, AloneMeansNoOther, Running, Own, Clearing, Dark, Waiting, Writing, Written,
         Old, New, Clock, csrVars, swVars
<1> QED BY <1>2, <1>3, <1>4 DEF IInv

-----------------------------------------------------------------------------
(* The processes *)

\* While p runs, no other process has the display to itself.
LEMMA OnlyOneAlone ==
  ASSUME IInv, NEW p \in Proc, Running(p), NEW q \in Proc, alone[q]
  PROVE  q = p
  BY DEF IInv, AloneMeansNoOther

\* What is left to show of a step of p that leaves the timer alone: the types,
\* and what p finds in the CSRs if it is alone.
LEMMA StepOfOne ==
  ASSUME IInv, NEW p \in Proc, Running(p),
         UNCHANGED <<timer, alone>>,
         \A q \in Proc \ {p} : pc'[q] = pc[q],
         TypeOK',
         alone[p] => Own(p)'
  PROVE  IInv'
<1>1. DwellBounded'
  BY DEF IInv, DwellBounded
<1>2. AloneMeansNoOther'
  <2> SUFFICES ASSUME NEW q \in Proc, alone'[q], NEW r \in Proc \ {q} PROVE ~ Running(r)'
    BY DEF AloneMeansNoOther
  <2>1. q = p
    BY OnlyOneAlone
  <2>2. ~ Running(r)
    BY DEF IInv, AloneMeansNoOther
  <2> QED BY <2>1, <2>2 DEF Running
<1>3. ASSUME NEW q \in Proc, alone'[q] PROVE Own(q)'
  <2>1. q = p
    BY <1>3, OnlyOneAlone
  <2> QED BY <1>3, <2>1
<1> QED BY <1>1, <1>2, <1>3 DEF IInv

\* A process that starts knows nothing of the CSRs yet.
LEMMA StartStep ==
  ASSUME IInv, NEW p \in Proc, Start(p)
  PROVE  IInv'
<1>1. TypeOK'
  <2>1. 0 \in Digit /\ 0 \in 0..Readings
    BY ScannerAssumption, DisplayAssumption DEF Digit
  <2> QED BY <2>1 DEF IInv, TypeOK, Start, Set, hwVars, csrVars, scanVars
<1>2. DwellBounded'
  BY DEF IInv, DwellBounded, Start, hwVars, csrVars, scanVars
<1>3. /\ pc' = [pc EXCEPT ![p] = "off"]
      /\ \A q \in Proc : alone'[q] => q = p /\ \A r \in Proc \ {p} : ~ Running(r)
  BY DEF IInv, TypeOK, Start, Set
<1>4. AloneMeansNoOther'
  BY <1>3 DEF IInv, TypeOK, AloneMeansNoOther, Running
<1>5. \A q \in Proc : alone'[q] => Own(q)'
  BY <1>3 DEF IInv, TypeOK, Own, Clearing, Dark, Waiting, Writing, Written
<1> QED BY <1>1, <1>2, <1>4, <1>5 DEF IInv

\* Switching the scanner off starts a blank.
LEMMA BlankOffStep ==
  ASSUME IInv, NEW p \in Proc, BlankOff(p), UNCHANGED alone
  PROVE  IInv'
<1>1. TypeOK'
  <2>1. 0 \in Digit /\ 0 \in 0..Readings
    BY ScannerAssumption, DisplayAssumption DEF Digit
  <2> QED BY <2>1 DEF IInv, TypeOK, BlankOff, WriteControl, Set, scanVars
<1>2. /\ Running(p) /\ UNCHANGED timer /\ ~ enable'
      /\ pc' = [pc EXCEPT ![p] = "zero"] /\ i'[p] = 0
  BY DEF IInv, TypeOK, BlankOff, WriteControl, Set, Running, scanVars
<1>3. Own(p)'
  BY <1>2, ScannerAssumption DEF IInv, TypeOK, Own, Clearing, Dark, Waiting, Writing, Written, Digit
<1> QED BY <1>1, <1>2, <1>3, StepOfOne DEF IInv, TypeOK

\* Clearing a cell extends the dark part; the last one completes it.
LEMMA BlankCellStep ==
  ASSUME IInv, NEW p \in Proc, BlankCell(p), UNCHANGED alone
  PROVE  IInv'
<1> DEFINE c == i[p]
<1>1. /\ TypeOK /\ c \in Digit /\ Digits \in Nat \ {0}
      /\ pc[p] = "zero" /\ Running(p)
      /\ cell' = [cell EXCEPT ![c] = 0]
      /\ i' = [i EXCEPT ![p] = (c + 1) % Digits]
      /\ pc' = IF c + 1 < Digits THEN pc
               ELSE [pc EXCEPT ![p] = IF final[p] THEN "exited" ELSE "loop"]
      /\ UNCHANGED <<enable, divider, idx, timer, final, reading, shown, stop, alone>>
  BY ScannerAssumption DEF IInv, TypeOK, BlankCell, WriteDigit, Set, Running, scanVars
<1>2. (c + 1) % Digits \in Digit /\ (c + 1 < Digits => (c + 1) % Digits = c + 1)
      /\ (~ (c + 1 < Digits) => c = Digits - 1)
  BY <1>1, NextDigit
<1>3. TypeOK'
  <2>1. 0 \in 0..NProcs * Readings
    BY <1>1, CellsType, DisplayAssumption DEF Cells
  <2> QED BY <1>1, <1>2, <2>1 DEF TypeOK
<1>4. ASSUME alone[p] PROVE Own(p)'
  <2>1. ~ enable /\ \A d \in Digit : d < c => cell[d] = 0
    BY <1>1, <1>4 DEF IInv, Own, Clearing
  <2>2. \A d \in Digit : d <= c => cell'[d] = 0
    BY <1>1, <2>1 DEF TypeOK, Digit
  <2>3. CASE c + 1 < Digits
    <3>1. pc'[p] = "zero" /\ i'[p] = c + 1
      BY <1>1, <1>2, <2>3 DEF TypeOK
    <3>2. \A d \in Digit : d < c + 1 => d <= c
      BY <1>1 DEF Digit
    <3> QED BY <1>1, <2>1, <2>2, <3>1, <3>2 DEF Own, Clearing, Dark, Waiting, Writing, Written
  <2>4. CASE ~ (c + 1 < Digits)
    <3>1. \A d \in Digit : cell'[d] = 0
      BY <1>1, <1>2, <2>2, <2>4 DEF Digit
    <3>2. pc'[p] \in {"exited", "loop"}
      BY <1>1, <2>4 DEF TypeOK
    <3> QED BY <1>1, <2>1, <3>1, <3>2 DEF Own, Clearing, Dark, Waiting, Writing, Written
  <2> QED BY <2>3, <2>4
<1> QED BY <1>1, <1>3, <1>4, StepOfOne DEF TypeOK

\* Leaving the loop changes no CSR.
LEMMA LeaveLoopStep ==
  ASSUME IInv, NEW p \in Proc, LeaveLoop(p), UNCHANGED alone
  PROVE  IInv'
<1>1. TypeOK'
  BY DEF IInv, TypeOK, LeaveLoop, Set, hwVars, csrVars, scanVars
<1>2. Running(p) /\ UNCHANGED timer /\ pc' = [pc EXCEPT ![p] = "off"]
  BY DEF LeaveLoop, Set, Running, hwVars, scanVars
<1>3. Own(p)'
  BY <1>2 DEF IInv, TypeOK, Own, Clearing, Dark, Waiting, Writing, Written
<1> QED BY <1>1, <1>2, <1>3, StepOfOne DEF IInv, TypeOK

\* With a new reading built, the one before is what a lit display shows.
LEMMA BuildStep ==
  ASSUME IInv, NEW p \in Proc, Build(p), UNCHANGED alone
  PROVE  IInv'
<1>1. /\ TypeOK /\ Running(p) /\ pc[p] = "loop"
      /\ pc' = [pc EXCEPT ![p] = "cells"]
      /\ reading' = [reading EXCEPT ![p] = (reading[p] % Readings) + 1]
      /\ i' = [i EXCEPT ![p] = 0]
      /\ UNCHANGED <<enable, divider, cell, idx, timer, final, shown, stop>>
  BY DEF IInv, Build, Set, Running, hwVars, csrVars, scanVars
<1>2. reading'[p] \in 1..Readings
  BY <1>1, NextReading DEF TypeOK
<1>3. TypeOK'
  <2>1. 0 \in Digit
    BY ScannerAssumption DEF Digit
  <2>2. (reading[p] % Readings) + 1 \in 0..Readings
    BY <1>1, NextReading, DisplayAssumption DEF TypeOK
  <2> QED BY <1>1, <2>1, <2>2 DEF TypeOK
<1>4. ASSUME alone[p] PROVE Own(p)'
  <2>1. pc'[p] = "cells" /\ i'[p] = 0 /\ reading'[p] # 0
    BY <1>1, <1>2 DEF TypeOK
  <2>2. enable => shown[p] # 0 /\ \A d \in Digit : cell[d] = Old(p)
    BY <1>1, <1>4 DEF IInv, Own, Waiting, Old, New
  <2>3. \A d \in Digit : ~ (d < i'[p])
    BY <2>1, ScannerAssumption DEF Digit
  <2> QED BY <1>1, <2>1, <2>2, <2>3 DEF Own, Clearing, Dark, Waiting, Writing, Written, Old
<1> QED BY <1>1, <1>3, <1>4, StepOfOne DEF TypeOK

\* Writing a cell moves the border between the new reading and the one before.
LEMMA WriteCellStep ==
  ASSUME IInv, NEW p \in Proc, WriteCell(p), UNCHANGED alone
  PROVE  IInv'
<1> DEFINE c == i[p]
<1>1. /\ TypeOK /\ c \in Digit /\ Digits \in Nat \ {0}
      /\ pc[p] = "cells" /\ Running(p)
      /\ cell' = [cell EXCEPT ![c] = New(p)]
      /\ i' = [i EXCEPT ![p] = (c + 1) % Digits]
      /\ pc' = IF c + 1 < Digits THEN pc ELSE [pc EXCEPT ![p] = "on"]
      /\ UNCHANGED <<enable, divider, idx, timer, final, reading, shown, stop, alone>>
  BY ScannerAssumption DEF IInv, TypeOK, WriteCell, WriteDigit, New, Set, Running, scanVars
<1>2. (c + 1) % Digits \in Digit /\ (c + 1 < Digits => (c + 1) % Digits = c + 1)
      /\ (~ (c + 1 < Digits) => c = Digits - 1)
  BY <1>1, NextDigit
<1>3. TypeOK'
  <2>1. New(p) \in 0..NProcs * Readings
    BY <1>1, CellsType DEF New, TypeOK
  <2> QED BY <1>1, <1>2, <2>1 DEF TypeOK
<1>4. ASSUME alone[p] PROVE Own(p)'
  <2>1. /\ reading[p] # 0 /\ \A d \in Digit : d < c => cell[d] = New(p)
        /\ enable => shown[p] # 0 /\ \A d \in Digit : d >= c => cell[d] = Old(p)
    BY <1>1, <1>4 DEF IInv, Own, Writing
  <2>2. New(p)' = New(p) /\ Old(p)' = Old(p)
    BY <1>1 DEF New, Old
  <2>3. \A d \in Digit : d <= c => cell'[d] = New(p)
    BY <1>1, <2>1 DEF TypeOK, Digit
  <2>4. CASE c + 1 < Digits
    <3>1. pc'[p] = "cells" /\ i'[p] = c + 1
      BY <1>1, <1>2, <2>4 DEF TypeOK
    <3>2. \A d \in Digit : (d < c + 1 => d <= c) /\ (d >= c + 1 => d >= c /\ d # c)
      BY <1>1 DEF Digit
    <3>3. enable => \A d \in Digit : d >= c + 1 => cell'[d] = Old(p)
      BY <1>1, <2>1, <3>2 DEF TypeOK
    <3> QED BY <1>1, <2>1, <2>2, <2>3, <3>1, <3>2, <3>3
            DEF Own, Clearing, Dark, Waiting, Writing, Written
  <2>5. CASE ~ (c + 1 < Digits)
    <3>1. \A d \in Digit : cell'[d] = New(p)
      BY <1>1, <1>2, <2>3, <2>5 DEF Digit
    <3>2. pc'[p] = "on"
      BY <1>1, <2>5 DEF TypeOK
    <3> QED BY <1>1, <2>1, <2>2, <3>1, <3>2 DEF Own, Clearing, Dark, Waiting, Writing, Written
  <2> QED BY <2>4, <2>5
<1> QED BY <1>1, <1>3, <1>4, StepOfOne DEF TypeOK

\* A scanner switched on shows the reading just written.
LEMMA SwitchOnStep ==
  ASSUME IInv, NEW p \in Proc, SwitchOn(p), UNCHANGED alone
  PROVE  IInv'
<1>1. /\ TypeOK /\ Running(p) /\ pc[p] = "on"
      /\ enable' = TRUE /\ divider' = Divider
      /\ shown' = [shown EXCEPT ![p] = reading[p]]
      /\ pc' = [pc EXCEPT ![p] = "loop"]
      /\ UNCHANGED <<cell, idx, timer, final, i, reading, stop>>
  BY DEF IInv, SwitchOn, WriteControl, Set, Running, scanVars
<1>2. TypeOK'
  BY <1>1 DEF TypeOK
<1>3. ASSUME alone[p] PROVE Own(p)'
  <2>1. reading[p] # 0 /\ \A d \in Digit : cell[d] = New(p)
    BY <1>1, <1>3 DEF IInv, Own, Written
  <2>2. pc'[p] = "loop" /\ shown'[p] = reading[p] /\ New(p)' = New(p)
    BY <1>1 DEF TypeOK, New
  <2> QED BY <1>1, <2>1, <2>2 DEF Own, Clearing, Dark, Waiting, Writing, Written
<1> QED BY <1>1, <1>2, <1>3, StepOfOne DEF TypeOK

\* A signal is only noted; a kill leaves the CSRs as they are.
LEMMA SignalOrKillStep ==
  ASSUME IInv, NEW p \in Proc, Signal(p) \/ Kill(p)
  PROVE  IInv'
<1>1. /\ TypeOK /\ Running(p)
      /\ pc' = pc \/ pc' = [pc EXCEPT ![p] = "killed"]
      /\ UNCHANGED <<enable, divider, cell, idx, timer, final, i, reading, shown, alone>>
  BY DEF IInv, Signal, Kill, Set, hwVars, csrVars, scanVars
<1>2. TypeOK'
  BY <1>1 DEF TypeOK, Signal, Kill, Set
<1>3. alone[p] => Own(p)'
  BY <1>1 DEF IInv, TypeOK, Own, Clearing, Dark, Waiting, Writing, Written, Old, New
<1> QED BY <1>1, <1>2, <1>3, StepOfOne DEF TypeOK

-----------------------------------------------------------------------------
(* Theorems *)

(***************************************************************************)
(* Whatever processes are started, signalled and killed on the scanner,    *)
(* IInv holds.                                                             *)
(***************************************************************************)
THEOREM Invariance == Spec => []IInv
<1>1. IInv /\ [Next]_vars => IInv'
  <2> SUFFICES ASSUME IInv, [Next]_vars PROVE IInv'
    OBVIOUS
  <2>1. CASE Clock /\ UNCHANGED swVars
    BY <2>1, ClockStep
  <2>2. ASSUME NEW p \in Proc, Start(p) PROVE IInv'
    BY <2>2, StartStep
  <2>3. ASSUME NEW p \in Proc, Step(p) PROVE IInv'
    BY <2>3, BlankOffStep, BlankCellStep, LeaveLoopStep, BuildStep, WriteCellStep, SwitchOnStep
    DEF Step
  <2>4. ASSUME NEW p \in Proc, Signal(p) \/ Kill(p) PROVE IInv'
    BY <2>4, SignalOrKillStep
  <2>5. CASE UNCHANGED vars
    BY <2>5 DEF vars, hwVars, csrVars, scanVars, swVars, IInv, TypeOK, DwellBounded,
                AloneMeansNoOther, Running, Own, Clearing, Dark, Waiting, Writing, Written, Old, New
  <2> QED BY <2>1, <2>2, <2>3, <2>4, <2>5 DEF Next
<1> QED BY InitIInv, <1>1, PTL DEF Spec

(***************************************************************************)
(* The types of scanner and processes, with an index that is always a      *)
(* digit, also while a process rewrites the CSRs under the running fabric. *)
(***************************************************************************)
THEOREM TypeInvariant == Spec => []TypeOK
  BY Invariance, PTL DEF IInv

(***************************************************************************)
(* No digit is lit longer than the longer divider allows, although a write *)
(* to control may shrink the divider below the running timer.              *)
(***************************************************************************)
THEOREM DwellIsBounded == Spec => []DwellBounded
  BY Invariance, PTL DEF IInv

(***************************************************************************)
(* A process that exits on a signal, whenever it came, leaves the scanner  *)
(* off and every cell clear, if it had the display to itself.              *)
(***************************************************************************)
THEOREM ExitLeavesDark == Spec => []DarkAfterExit
<1>1. IInv => DarkAfterExit
  BY DEF IInv, Own, Dark, DarkAfterExit
<1> QED BY <1>1, Invariance, PTL

(***************************************************************************)
(* What a process lights that has the display to itself is never anything  *)
(* but its new reading left of the loop index and the one before right of  *)
(* it, whatever it found in the CSRs.                                      *)
(***************************************************************************)
THEOREM NothingStaleIsLit == Spec => []LightsOwnReadings
<1>1. IInv => LightsOwnReadings
  <2> SUFFICES ASSUME IInv, NEW p \in Proc, alone[p],
                      pc[p] \in {"zero", "loop", "cells", "on"}, enable
               PROVE  /\ shown[p] # 0
                      /\ \A d \in Digit :
                            cell[d] = IF pc[p] = "cells" /\ d >= i[p] THEN Old(p) ELSE New(p)
    BY DEF LightsOwnReadings
  <2>1. Own(p) /\ i[p] \in Digit
    BY DEF IInv, TypeOK
  <2>2. \A d \in Digit : d < i[p] \/ d >= i[p]
    BY <2>1, ScannerAssumption DEF Digit
  <2> QED BY <2>1, <2>2 DEF Own, Clearing, Dark, Waiting, Writing, Written
<1> QED BY <1>1, Invariance, PTL
==============================================================================
