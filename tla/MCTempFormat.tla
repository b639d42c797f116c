---------------------------- MODULE MCTempFormat -----------------------------
(* Instances of TempFormat for TLC.                                          *)
EXTENDS TempFormat

\* Codes at the ends of the range, at zero and at the borders of the display.
FpgaEdges    == {0, 1, 1407, 2220, 2221, 2500, 4094, 4095}
AmbientEdges == {0, 1, 7, 8, 4864, 12793, 32767, 32768, 52742, 52743, 52744,
                 65528, 65535}

Everything == SUBSET {"hwmon", "xadc", "i2c", "rawi2c"}
BareOnly   == {{"xadc", "rawi2c"}}
KernelOnly == {{"hwmon", "i2c"}}

Trials(f, a, s) == [fpga : f, ambient : a, answering : s]

\* The edges with every set of sources, and every code read from the CSRs and,
\* of the XADC, through its driver.
AllInputs == Trials(FpgaEdges, AmbientEdges, Everything)
             \cup Trials({2500}, Code16, BareOnly)
             \cup Trials(Code12, {4864}, BareOnly \cup KernelOnly)
==============================================================================
