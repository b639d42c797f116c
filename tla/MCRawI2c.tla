------------------------------ MODULE MCRawI2c -------------------------------
(* Instances of RawI2c for TLC, with bytes as wide as they are.              *)
EXTENDS RawI2c

\* 0x4b, where the board has its ADT7420, and two addresses where it is not.
SensorAddress == <<1, 0, 0, 1, 0, 1, 1>>
InPlace       == {SensorAddress}
Anywhere      == InPlace \cup {<<1, 0, 0, 1, 0, 1, 0>>, <<0, 0, 0, 0, 0, 0, 0>>}

Filled(a, b, c, d) == [r \in 0..3 |-> <<a, b, c, d>>[r + 1]]

Low  == <<0, 0, 0, 0, 0, 0, 0, 0>>
High == <<1, 1, 1, 1, 1, 1, 1, 1>>

\* 25.5 degrees, -0.5 degrees, all lines low, which holds SDA for longest, and
\* 32 degrees with flags at which two readings after a kill go wrong, the first
\* failing and the second with another configuration.
AllContents == { Filled(Low, Low, Low, Low),
                 Filled(<<0, 0, 0, 1, 0, 0, 0, 0>>, <<0, 0, 0, 0, 0, 0, 1, 0>>,
                        <<0, 0, 0, 0, 0, 0, 1, 1>>, Low),
                 Filled(<<0, 0, 0, 0, 1, 1, 0, 0>>, <<1, 1, 0, 0, 0, 0, 0, 0>>, High, Low),
                 Filled(High, <<1, 1, 0, 0, 0, 0, 0, 0>>, Low, <<1, 0, 0, 0, 0, 0, 0, 0>>) }
==============================================================================
