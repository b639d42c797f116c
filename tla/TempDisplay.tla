----------------------------- MODULE TempDisplay -----------------------------
(***************************************************************************)
(* sevenseg_temp_display on the scanner: a process blanks the display,     *)
(* writes the eight cells of a reading one by one, switches the scanner    *)
(* on, and blanks again when a signal asks it to stop, while the fabric    *)
(* goes on scanning whatever the CSRs hold.  Nothing keeps two processes   *)
(* from mapping the same CSRs, and a process may be killed at any point    *)
(* and started again on what it left behind.                               *)
(*                                                                         *)
(* The cells of a reading are one number, different for every process and  *)
(* for its last Readings readings; how a reading is formatted is the       *)
(* subject of module TempFormat.                                           *)
(***************************************************************************)
EXTENDS SevenSegScanner

CONSTANTS NProcs,     \* processes on the board
          Divider,    \* divider field of scanner_control_value
          Readings    \* bound: readings of a process told apart

ASSUME DisplayAssumption ==
    /\ NProcs \in Nat \ {0}
    /\ Divider \in 1..TimerWrap - 1
    /\ Readings \in Nat \ {0}

Proc == 1..NProcs

VARIABLES pc,       \* "off", "zero": scanner_blank; "loop": the loop of main;
                    \* "cells", "on": scanner_write_cells; "exited", "killed"
          final,    \* the blank under way is the one after the loop
          i,        \* next cell of the for loop
          reading,  \* the last reading built by build_display_cells, 0: none
          shown,    \* the last reading written completely since the blank
          stop,     \* stop_requested
          alone     \* history: no other process has run since it was started

swVars == <<pc, final, i, reading, shown, stop, alone>>
vars   == <<hwVars, swVars>>

Cells(p, n) == IF n = 0 THEN 0 ELSE (p - 1) * Readings + n

Running(p) == pc[p] \notin {"exited", "killed"}

Set(f, p, value) == [f EXCEPT ![p] = value]

Init == /\ HwReset
        /\ pc = [p \in Proc |-> "exited"]
        /\ final = [p \in Proc |-> FALSE]
        /\ i = [p \in Proc |-> 0]
        /\ reading = [p \in Proc |-> 0]
        /\ shown = [p \in Proc |-> 0]
        /\ stop = [p \in Proc |-> FALSE]
        /\ alone = [p \in Proc |-> TRUE]

-----------------------------------------------------------------------------
\* The process is started, on hardware as it is.
Start(p) ==
    /\ ~ Running(p)
    /\ pc' = Set(pc, p, "off")
    /\ final' = Set(final, p, FALSE)
    /\ i' = Set(i, p, 0)
    /\ reading' = Set(reading, p, 0)
    /\ shown' = Set(shown, p, 0)
    /\ stop' = Set(stop, p, FALSE)
    /\ alone' = [q \in Proc |-> q = p /\ \A other \in Proc \ {p} : ~ Running(other)]
    /\ UNCHANGED hwVars

\* Mutant: the scanner is left on while its cells are cleared.
BlankOff_LeavesOn(p) ==
    /\ pc[p] = "off"
    /\ WriteControl(enable, Divider)
    /\ pc' = Set(pc, p, "zero")
    /\ i' = Set(i, p, 0)
    /\ shown' = Set(shown, p, 0)
    /\ UNCHANGED <<final, reading, stop>>

\* scanner_blank: the scanner is switched off,
BlankOff(p) ==
    /\ pc[p] = "off"
    /\ WriteControl(FALSE, Divider)
    /\ pc' = Set(pc, p, "zero")
    /\ i' = Set(i, p, 0)
    /\ shown' = Set(shown, p, 0)
    /\ UNCHANGED <<final, reading, stop>>

\* Mutant: the last cell is left as it is.
BlankCell_OneShort(p) ==
    /\ pc[p] = "zero"
    /\ WriteDigit(i[p], IF i[p] + 1 = Digits THEN cell[i[p]] ELSE 0)
    /\ i' = Set(i, p, (i[p] + 1) % Digits)
    /\ pc' = IF i[p] + 1 < Digits THEN pc
             ELSE Set(pc, p, IF final[p] THEN "exited" ELSE "loop")
    /\ UNCHANGED <<final, reading, shown, stop>>

\* then each cell is cleared; after the last, main goes on or returns.
BlankCell(p) ==
    /\ pc[p] = "zero"
    /\ WriteDigit(i[p], 0)
    /\ i' = Set(i, p, (i[p] + 1) % Digits)
    /\ pc' = IF i[p] + 1 < Digits THEN pc
             ELSE Set(pc, p, IF final[p] THEN "exited" ELSE "loop")
    /\ UNCHANGED <<final, reading, shown, stop>>

\* The loop's condition: a stop leads to the last blank.
LeaveLoop(p) ==
    /\ pc[p] = "loop"
    /\ stop[p]
    /\ pc' = Set(pc, p, "off")
    /\ final' = Set(final, p, TRUE)
    /\ UNCHANGED <<i, reading, shown, stop, hwVars>>

\* An update is due: build_display_cells.  Which iteration it is, is left open.
Build(p) ==
    /\ pc[p] = "loop"
    /\ ~ stop[p]
    /\ reading' = Set(reading, p, (reading[p] % Readings) + 1)
    /\ i' = Set(i, p, 0)
    /\ pc' = Set(pc, p, "cells")
    /\ UNCHANGED <<final, shown, stop, hwVars>>

\* scanner_write_cells: the cells from the left,
WriteCell(p) ==
    /\ pc[p] = "cells"
    /\ WriteDigit(i[p], Cells(p, reading[p]))
    /\ i' = Set(i, p, (i[p] + 1) % Digits)
    /\ pc' = IF i[p] + 1 < Digits THEN pc ELSE Set(pc, p, "on")
    /\ UNCHANGED <<final, reading, shown, stop>>

\* Mutant: the scanner is switched on for the first reading only.
SwitchOn_Once(p) ==
    /\ pc[p] = "on"
    /\ IF shown[p] = 0 THEN WriteControl(TRUE, Divider) ELSE UNCHANGED hwVars
    /\ shown' = Set(shown, p, reading[p])
    /\ pc' = Set(pc, p, "loop")
    /\ UNCHANGED <<final, i, reading, stop>>

\* then the scanner is switched on.
SwitchOn(p) ==
    /\ pc[p] = "on"
    /\ WriteControl(TRUE, Divider)
    /\ shown' = Set(shown, p, reading[p])
    /\ pc' = Set(pc, p, "loop")
    /\ UNCHANGED <<final, i, reading, stop>>

\* SIGINT or SIGTERM, at any point.
Signal(p) ==
    /\ Running(p)
    /\ stop' = Set(stop, p, TRUE)
    /\ UNCHANGED <<pc, final, i, reading, shown, alone, hwVars>>

\* SIGKILL, at any point.
Kill(p) ==
    /\ Running(p)
    /\ pc' = Set(pc, p, "killed")
    /\ UNCHANGED <<final, i, reading, shown, stop, alone, hwVars>>

Step(p) == /\ \/ BlankOff(p) \/ BlankCell(p) \/ LeaveLoop(p)
              \/ Build(p) \/ WriteCell(p) \/ SwitchOn(p)
           /\ UNCHANGED alone

Next == \/ Clock /\ UNCHANGED swVars
        \/ \E p \in Proc : Start(p) \/ Step(p) \/ Signal(p) \/ Kill(p)

Spec == Init /\ [][Next]_vars

(***************************************************************************)
(* The clock ticks, and Linux runs every process that waits, again and     *)
(* again: main's loop sleeps 20 ms and is due for an update sooner or      *)
(* later.                                                                  *)
(***************************************************************************)
FairSpec == /\ Spec
            /\ WF_vars(Clock /\ UNCHANGED swVars)
            /\ \A p \in Proc : WF_vars(Step(p))

-----------------------------------------------------------------------------
\* CSRs, scanner and processes have their types; the index is always a digit.
TypeOK ==
    /\ enable \in BOOLEAN
    /\ divider \in {DefaultDivider, Divider}
    /\ cell \in [Digit -> 0..NProcs * Readings]
    /\ idx \in Digit
    /\ timer \in 0..TimerWrap - 1
    /\ pc \in [Proc -> {"off", "zero", "loop", "cells", "on", "exited", "killed"}]
    /\ final \in [Proc -> BOOLEAN]
    /\ i \in [Proc -> Digit]
    /\ reading \in [Proc -> 0..Readings]
    /\ shown \in [Proc -> 0..Readings]
    /\ stop \in [Proc -> BOOLEAN]
    /\ alone \in [Proc -> BOOLEAN]

(***************************************************************************)
(* No digit is lit for longer than the longer of the two dividers allows,  *)
(* although the divider may shrink below the running timer.                *)
(***************************************************************************)
DwellBounded ==
    timer <= IF DefaultDivider > Divider THEN DefaultDivider ELSE Divider

(***************************************************************************)
(* A process that has exited on a signal has left the display dark,        *)
(* whenever the signal came and whatever it had found: the scanner off and *)
(* every cell clear, until another process starts.                         *)
(***************************************************************************)
DarkAfterExit ==
    \A p \in Proc : pc[p] = "exited" /\ final[p] /\ alone[p] =>
        ~ enable /\ \A d \in Digit : cell[d] = 0

Old(p) == Cells(p, shown[p])
New(p) == Cells(p, reading[p])

(***************************************************************************)
(* What a process that has had the display to itself lights is its own:    *)
(* once past its first blank, cells that are lit are those of the reading  *)
(* being written, left of the loop index, and those of the reading before, *)
(* right of it.  Nothing of processes that were killed or stopped earlier  *)
(* shows through, nor a cell never written.                                *)
(***************************************************************************)
LightsOwnReadings ==
    \A p \in Proc : alone[p] /\ pc[p] \in {"zero", "loop", "cells", "on"} /\ enable =>
        /\ shown[p] # 0
        /\ \A d \in Digit :
              cell[d] = IF pc[p] = "cells" /\ d >= i[p] THEN Old(p) ELSE New(p)

(***************************************************************************)
(* What keeps the two properties above.  A process whose `alone' is set    *)
(* shares the board with no other; what it finds in the CSRs follows from  *)
(* how far it has got: `zero' clears from the left on a dark display,      *)
(* `cells' writes the new reading from the left over the one before, and a *)
(* scanner that is on in the loop shows the last reading.                  *)
(***************************************************************************)
AloneMeansNoOther ==
    \A p \in Proc : alone[p] => \A q \in Proc \ {p} : ~ Running(q)

Clearing(p) ==
    pc[p] = "zero" => ~ enable /\ \A d \in Digit : d < i[p] => cell[d] = 0

Dark(p) ==
    pc[p] = "exited" /\ final[p] => ~ enable /\ \A d \in Digit : cell[d] = 0

Waiting(p) ==
    pc[p] = "loop" /\ enable =>
        shown[p] # 0 /\ shown[p] = reading[p] /\ \A d \in Digit : cell[d] = New(p)

Writing(p) ==
    pc[p] = "cells" =>
        /\ reading[p] # 0
        /\ \A d \in Digit : d < i[p] => cell[d] = New(p)
        /\ enable => shown[p] # 0 /\ \A d \in Digit : d >= i[p] => cell[d] = Old(p)

Written(p) ==
    pc[p] = "on" =>
        /\ reading[p] # 0
        /\ \A d \in Digit : cell[d] = New(p)
        /\ enable => shown[p] # 0

Own(p) == Clearing(p) /\ Dark(p) /\ Waiting(p) /\ Writing(p) /\ Written(p)

IInv == /\ TypeOK
        /\ DwellBounded
        /\ AloneMeansNoOther
        /\ \A p \in Proc : alone[p] => Own(p)

Alone(p) == Running(p) /\ ~ stop[p] /\ \A q \in Proc \ {p} : ~ Running(q)

AllOf(p) == enable /\ \A d \in Digit : cell[d] = Old(p) /\ shown[p] # 0

(***************************************************************************)
(* A process that is left alone with the display ends up showing its own   *)
(* readings on it, whatever the others did to the CSRs, and wherever they  *)
(* stopped.                                                                *)
(***************************************************************************)
LastOneShows == \A p \in Proc : <>[]Alone(p) => []<>AllOf(p)

(***************************************************************************)
(* While the scanner stays on, every digit is lit again and again, however *)
(* the process and its writes to control interleave with the clock.        *)
(***************************************************************************)
EveryDigitLit == \A d \in Digit : <>[]enable => []<>(idx = d)
==============================================================================
