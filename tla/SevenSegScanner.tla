--------------------------- MODULE SevenSegScanner ---------------------------
(***************************************************************************)
(* SevenSegScanner of the LiteX target: the fabric that multiplexes the    *)
(* display's digits from CSRs that Linux writes.  A cell is a value to be  *)
(* shown, 0 being the dark one; polarity and digit order, which only       *)
(* permute the pins, are left out.                                         *)
(***************************************************************************)
EXTENDS Integers

CONSTANTS Digits,          \* number of digits (8 in the code)
          TimerWrap,       \* 2 ^ width of timer and divider (2 ^ 24)
          DefaultDivider   \* divider field of control at reset

ASSUME ScannerAssumption ==
    /\ Digits \in Nat \ {0}
    /\ TimerWrap \in Nat \ {0}
    /\ DefaultDivider \in 0..TimerWrap - 1

VARIABLES enable,    \* control bit 0
          divider,   \* control bits 8..31
          cell,      \* digit0 .. digit7
          idx,       \* digit being lit
          timer      \* clocks it has been lit

csrVars  == <<enable, divider, cell>>
scanVars == <<idx, timer>>
hwVars   == <<csrVars, scanVars>>

Digit == 0..Digits - 1

HwReset ==
    /\ enable = TRUE
    /\ divider = DefaultDivider
    /\ cell = [d \in Digit |-> 0]
    /\ idx = 0
    /\ timer = 0

\* Mutant: the digit advances only when the timer meets the divider exactly.
Clock_Exact ==
    /\ IF ~ enable THEN timer' = 0 /\ idx' = 0
       ELSE IF timer = divider THEN timer' = 0 /\ idx' = (idx + 1) % Digits
       ELSE timer' = (timer + 1) % TimerWrap /\ idx' = idx
    /\ UNCHANGED csrVars

\* Mutant: the digit counter is one count too long.
Clock_OneMore ==
    /\ IF ~ enable THEN timer' = 0 /\ idx' = 0
       ELSE IF timer >= divider THEN timer' = 0 /\ idx' = (idx + 1) % (Digits + 1)
       ELSE timer' = (timer + 1) % TimerWrap /\ idx' = idx
    /\ UNCHANGED csrVars

\* One cycle of the system clock.
Clock ==
    /\ IF ~ enable THEN timer' = 0 /\ idx' = 0
       ELSE IF timer >= divider THEN timer' = 0 /\ idx' = (idx + 1) % Digits
       ELSE timer' = (timer + 1) % TimerWrap /\ idx' = idx
    /\ UNCHANGED csrVars

\* Mutant: a write to control restarts the digit.
WriteControl_Restarts(on, div) ==
    /\ enable' = on
    /\ divider' = div
    /\ timer' = 0
    /\ UNCHANGED <<cell, idx>>

\* Writes of the bus.
WriteControl(on, div) ==
    /\ enable' = on
    /\ divider' = div
    /\ UNCHANGED <<cell, scanVars>>

WriteDigit(d, value) ==
    /\ cell' = [cell EXCEPT ![d] = value]
    /\ UNCHANGED <<enable, divider, scanVars>>
==============================================================================
