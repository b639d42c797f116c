---------------------------- MODULE MCGatewareBuild ---------------------------
(***************************************************************************)
(* Environments and hand-made arguments for TLC.                           *)
(***************************************************************************)
EXTENDS GatewareBuild, TLC

Environment(on, timing, target) == [on |-> on, timing |-> timing, target |-> target]

\* Every combination of options, with the default timing, and of those with
\* video those of the other timings that ask for a display.
AllEnvs ==
    {Environment(on, "800x600@60Hz", target) : on \in SUBSET Option, target \in Target}
    \cup {Environment(on, timing, "local") :
            on \in {Defaults, Defaults \cup {"video_terminal"},
                    Defaults \cup {"video_framebuffer"}},
            timing \in {"640x480@60Hz", "unsupported"}}

\* The build that docs/peripherals.md describes for the VGA display.
Documented == {Environment(Defaults \cup {"video_framebuffer"}, "640x480@60Hz", "local")}

\* The defaults, the temperature display, the VGA build, a build without
\* local peripherals, and one with the GPIO display.
FewEnvs ==
    {Environment(on, "800x600@60Hz", "local") :
       on \in {Defaults, Defaults \cup {"xadc", "temp_i2c"}, {"sdcard"}}}
    \cup Documented \cup {Environment(Defaults, "800x600@60Hz", "gpio")}

\* Either bank of the display, both, or the buttons and the sensors, at the
\* bases of the SoC or at one that is not theirs.
HandMade(bases) ==
    [base  |-> [b \in Bank |-> IF b \in DOMAIN bases THEN bases[b] ELSE None],
     ngpio |-> Lines, irq |-> None]

SomeArgs ==
    {HandMade(("seven_seg" :> 13)), HandMade(("seven_seg_ctrl" :> 14)),
     HandMade(("seven_seg" :> 13) @@ ("seven_seg_ctrl" :> 14)),
     HandMade(("buttons" :> 21) @@ ("rgb_leds" :> 22)),
     HandMade(("xadc" :> 19) @@ ("temp_i2c" :> 20))}
==============================================================================
