----------------------------- MODULE TempSensors -----------------------------
(***************************************************************************)
(* The conversions from what the two sensors hold to millidegrees, along   *)
(* both ways the display helper reads each of them: through the kernel     *)
(* (the hwmon driver with the project's patch, i2c-dev) and on the bare    *)
(* CSRs.  C's integer division truncates towards zero.                     *)
(***************************************************************************)
EXTENDS Integers

Code12 == 0..2 ^ 12 - 1      \* XADC temperature register
Code16 == 0..2 ^ 16 - 1      \* ADT7420 registers 0 and 1

Abs(n) == IF n < 0 THEN - n ELSE n

Quot(a, b) == IF a < 0 THEN - ((- a) \div b) ELSE a \div b

-----------------------------------------------------------------------------
(* ADT7420 *)

\* Mutant: the sign bit is kept as a value.
sign_extend_Unsigned(value, bits) == value % 2 ^ bits

\* Shifting the low bits up to the sign bit of an int and back.
sign_extend(value, bits) ==
    LET low == value % 2 ^ bits
    IN  IF low < 2 ^ (bits - 1) THEN low ELSE low - 2 ^ bits

\* Bit 7 of the configuration selects 16 bits; otherwise the low three bits
\* of the register are flags.
adt7420_raw_to_mc(wide, raw) ==
    IF wide THEN Quot(sign_extend(raw, 16) * 1000, 128)
            ELSE Quot(sign_extend(raw \div 8, 13) * 1000, 16)

-----------------------------------------------------------------------------
(* XADC *)

\* A u64 is four half-words, the lowest first; n < 2^31.
Half == 2 ^ 16

u64(n) == [h \in 0..3 |-> IF h = 0 THEN n % Half
                           ELSE IF h = 1 THEN n \div Half ELSE 0]

\* The difference of two u64, which wraps: a half-word borrows when what is
\* below it in a is less than what is below it in b.
Difference(a, b) ==
    LET borrow[h \in 0..4] ==
            IF h > 0 /\ a[h - 1] - b[h - 1] - borrow[h - 1] < 0 THEN 1 ELSE 0
    IN  [h \in 0..3 |-> (a[h] - b[h] - borrow[h]) % Half]

\* A u64 as a long, which has 32 bits on this CPU.
long(w) == sign_extend(w[1], 16) * Half + w[0]

\* The patched hwmon driver: div_u64's quotient less a u32, in 64 bits.
litex_temp_transfer_fun(raw, mul, div, offset) ==
    long(Difference(u64((raw * mul) \div div), u64(offset)))

\* What the driver uses where the device tree says nothing.
temp_mul    == 503975
temp_div    == 4096
temp_offset == 273150

\* The register's ends mean that no reading has been made.
raw_xadc_valid(raw) == raw # 0 /\ raw # 2 ^ 12 - 1

raw_xadc_to_mc(raw) == (raw * 503975) \div 4096 - 273150
==============================================================================
