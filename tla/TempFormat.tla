----------------------------- MODULE TempFormat ------------------------------
(***************************************************************************)
(* build_display_cells: from the sensors, along whichever sources answer,  *)
(* to the eight cells of the display, four per temperature.                *)
(*                                                                         *)
(* A cell is the character it shows, a digit, a minus or a space, and its  *)
(* decimal point.                                                          *)
(***************************************************************************)
EXTENDS TempSensors, SequencesExt

CONSTANT Inputs     \* [fpga, ambient, answering] tried: what is in the XADC's
                    \* and the ADT7420's register, and which sources answer

ASSUME FormatAssumption ==
    \A in \in Inputs : /\ in.fpga \in Code12
                       /\ in.ambient \in Code16
                       /\ in.answering \subseteq {"hwmon", "xadc", "i2c", "rawi2c"}

VARIABLES fpga,             \* code in the XADC's register
          ambient,          \* code in the ADT7420's
          wide,             \* its resolution bit
          answering,        \* sources that answer
          no_raw_fallback,  \* option
          cells,            \* the eight cells
          built             \* they have been built from the inputs

inputs == <<fpga, ambient, wide, answering, no_raw_fallback>>
vars   == <<inputs, cells, built>>

-----------------------------------------------------------------------------
(* format_temp_group *)

GROUP_DIGITS == 4

Minus == 10
Space == 11

Cell(ch, dp) == [ch |-> ch, dp |-> dp]

Dashes == [c \in 1..GROUP_DIGITS |-> Cell(Minus, FALSE)]

\* %ld of a number that is not negative, up to nine digits.
Decimal(n) ==
    LET len == CHOOSE k \in 1..9 :
                  n < 10 ^ k /\ (k > 1 => n >= 10 ^ (k - 1))
    IN  [d \in 1..len |-> (n \div 10 ^ (len - d)) % 10]

\* Mutant: negative temperatures are rounded as if they were positive.
Tenths_Upwards(mc) == Quot(mc + 50, 100)

\* Tenths of a degree, halves away from zero.
Tenths(mc) == IF mc >= 0 THEN Quot(mc + 50, 100) ELSE Quot(mc - 50, 100)

\* The characters of the text without the point, which goes to the last but
\* one of them.
Characters(mc) ==
    LET tenths == Tenths(mc)
        sign   == IF tenths < 0 THEN <<Minus>> ELSE <<>>
    IN  sign \o Decimal(Abs(tenths) \div 10) \o <<Abs(tenths) % 10>>

\* Right-aligned, or dashes when the text does not fit.
format_temp_group(mc) ==
    LET text == Characters(mc)
        pad  == GROUP_DIGITS - Len(text)
    IN  IF Len(text) > GROUP_DIGITS THEN Dashes
        ELSE [c \in 1..GROUP_DIGITS |->
                IF c <= pad THEN Cell(Space, FALSE)
                ELSE Cell(text[c - pad], c = GROUP_DIGITS - 1)]

-----------------------------------------------------------------------------
(* The sources *)

fpga_mc == litex_temp_transfer_fun(fpga, temp_mul, temp_div, temp_offset)

\* The bare CSRs are read when the kernel's source gives nothing.
Raw(kernel) == kernel \notin answering /\ ~ no_raw_fallback

HaveFpga == \/ "hwmon" \in answering
            \/ Raw("hwmon") /\ "xadc" \in answering /\ raw_xadc_valid(fpga)

FpgaMc == IF "hwmon" \in answering THEN fpga_mc ELSE raw_xadc_to_mc(fpga)

HaveAmbient == \/ "i2c" \in answering
               \/ Raw("i2c") /\ "rawi2c" \in answering

AmbientMc == adt7420_raw_to_mc(wide, ambient)

FpgaGroup    == SubSeq(cells, 1, GROUP_DIGITS)
AmbientGroup == SubSeq(cells, GROUP_DIGITS + 1, 2 * GROUP_DIGITS)

Init == /\ \E in \in Inputs : /\ fpga = in.fpga
                             /\ ambient = in.ambient
                             /\ answering = in.answering
        /\ wide \in BOOLEAN
        /\ no_raw_fallback \in BOOLEAN
        /\ cells = Dashes \o Dashes
        /\ built = FALSE

build_display_cells ==
    /\ cells' = (IF HaveFpga THEN format_temp_group(FpgaMc) ELSE Dashes)
             \o (IF HaveAmbient THEN format_temp_group(AmbientMc) ELSE Dashes)
    /\ built' = TRUE
    /\ UNCHANGED inputs

Spec == Init /\ [][build_display_cells]_vars

-----------------------------------------------------------------------------
(* The cells as somebody reads them *)

Lit(group) == {c \in 1..GROUP_DIGITS : group[c].ch # Space}

Digit(ch) == ch \in 0..9

\* The tenths of a degree that a group shows.
Shown(group) ==
    LET place(c) == IF Digit(group[c].ch)
                       THEN group[c].ch * 10 ^ (GROUP_DIGITS - c) ELSE 0
        size == place(1) + place(2) + place(3) + place(4)
    IN  IF \E c \in Lit(group) : group[c].ch = Minus THEN - size ELSE size

\* A sign at most, then digits, the point after the last but one of them.
WellFormed(group) ==
    /\ \A c \in 1..GROUP_DIGITS :
          /\ group[c].dp <=> c = GROUP_DIGITS - 1
          /\ Digit(group[c].ch) =>
                \A d \in c..GROUP_DIGITS : Digit(group[d].ch)
          /\ group[c].ch = Space => \A d \in 1..c : group[d].ch = Space
    /\ Digit(group[GROUP_DIGITS - 1].ch)
    /\ Digit(group[GROUP_DIGITS].ch)

Fits(mc) == -99950 < mc /\ mc < 999950

\* A group shows the temperature nearest to mc, of those the lamps can show.
Shows(group, have, mc) ==
    IF have /\ Fits(mc)
       THEN WellFormed(group) /\ Abs(100 * Shown(group) - mc) <= 50
       ELSE group = Dashes

-----------------------------------------------------------------------------
(***************************************************************************)
(* The lamps, read as a number, are the temperature rounded to a tenth     *)
(* whatever its sign and size, and whichever way it was read: the driver,  *)
(* which subtracts without sign, shows of the XADC what the bare CSR does. *)
(* Dashes mean that no source answered or that four cells cannot hold the  *)
(* temperature, and nothing else is ever shown.                            *)
(***************************************************************************)
ShowsNearest ==
    built => /\ Shows(FpgaGroup, HaveFpga, raw_xadc_to_mc(fpga))
             /\ Shows(AmbientGroup, HaveAmbient, AmbientMc)

(***************************************************************************)
(* The ADT7420's register is a two's complement number of 1/128 degrees.   *)
(* The 16-bit reading is that number to within a millidegree, the 13-bit   *)
(* one below it by less than a coarse step: through zero, at the sign bit  *)
(* and for negative codes, whose low bits a shift carries towards minus    *)
(* infinity and the division towards zero.                                 *)
(***************************************************************************)
ReadsRegister ==
    LET nominal == IF ambient < 2 ^ 15 THEN ambient ELSE ambient - 2 ^ 16
        below(w) == 1000 * nominal - 128 * adt7420_raw_to_mc(w, ambient)
    IN  /\ below(TRUE) \in -127..127
        /\ below(FALSE) \in -127..7 * 1000 + 127
==============================================================================
