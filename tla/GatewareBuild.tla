----------------------------- MODULE GatewareBuild ----------------------------
(***************************************************************************)
(* build_litex_nexys4ddr_linux and probe_litex_nexys4ddr_linux on a        *)
(* directory: options from the environment become flags of the target,     *)
(* LocalSoC adds peripherals and constants to the SoC, csr.json tells      *)
(* where they ended up, litex_json2dts_linux (external) writes a device    *)
(* tree source from it, and the patcher completes that.  A run may be      *)
(* broken off or fail anywhere and be followed by others in the same       *)
(* directory; the device tree may also be edited and patched by hand.      *)
(*                                                                         *)
(* A base is the number of a CSR slot of 2048 bytes; LiteX (external)      *)
(* gives the slots that nobody asked for, from the lowest free one up, to  *)
(* the other cores in the order of their names.  A SoC is the slots by     *)
(* name, the constants by name, and the pixel clock's timing.              *)
(***************************************************************************)
EXTENDS DtsPatch, FiniteSets, Functions

CONSTANTS Envs,      \* environments a script is called with
          Revisited, \* those after which a directory is used again, and with which
          HandArgs,  \* arguments of the patcher called by hand
          MaxCalls,  \* bound: calls of the scripts
          MaxEdits   \* bound: edits and patches by hand

Option == {"spi_sdcard", "sdcard", "ethernet", "switches", "buttons", "rgb_leds",
           "seven_seg", "xadc", "temp_i2c", "video_terminal", "video_framebuffer"}

Timing == {"800x600@60Hz", "640x480@60Hz", "unsupported"}

\* LITEX_TARGET_MODULE: the module in litex_targets, or the one that the
\* checked-in device trees were generated from, whose display was plain GPIO.
Target == {"local", "gpio"}

ASSUME GatewareAssumption ==
    /\ Envs \subseteq [on : SUBSET Option, timing : Timing, target : Target]
    /\ Revisited \subseteq Envs
    /\ MaxCalls \in Nat /\ MaxEdits \in Nat

\* What a shell without LITEX_ variables has.
Defaults == {"spi_sdcard", "ethernet", "switches", "buttons", "rgb_leds", "seven_seg"}

VARIABLES
    env, script,  \* of the last call
    pc,           \* "idle", or the command of the script that comes next
    status,       \* of the last call: "none", "ok" or "failed"
    csr, bit,     \* csr.json, and the SoC that the bitstream has
    dts,          \* digilent_nexys4ddr_linux.dts
    last,         \* {arguments of the last patch}, {} after an edit
    calls, edits

files == <<csr, bit, dts>>
vars  == <<env, script, pc, status, files, last, calls, edits>>

-----------------------------------------------------------------------------
(* The SoC *)

\* Video of either kind takes two cores.
Video(on) == on \cap {"video_terminal", "video_framebuffer"}
VideoCores(on) ==
    IF "video_framebuffer" \in on THEN {"video_framebuffer", "video_framebuffer_vtg"}
    ELSE IF "video_terminal" \in on THEN {"video_terminal", "video_terminal_vtg"} ELSE {}

\* Slots asked for by the CPU's module of LiteX.
CpuSlots == [uart |-> 2, timer0 |-> 3]

\* The other cores, and the order of all the names such a core can have.
OtherCores(on) ==
    {"ctrl", "ddrphy", "identifier_mem", "leds", "sdram"}
    \cup (IF "ethernet" \in on THEN {"ethmac", "ethphy"} ELSE {})
    \cup (IF "sdcard" \in on THEN {"sdcard_block2mem", "sdcard_core", "sdcard_irq",
                                   "sdcard_mem2block", "sdcard_phy"} ELSE {})
    \cup (IF "spi_sdcard" \in on THEN {"spisdcard"} ELSE {})
    \cup VideoCores(on)

NameOrder ==
    <<"ctrl", "ddrphy", "ethmac", "ethphy", "identifier_mem", "leds", "sdcard_block2mem",
      "sdcard_core", "sdcard_irq", "sdcard_mem2block", "sdcard_phy", "sdram", "spisdcard",
      "video_framebuffer", "video_framebuffer_vtg", "video_terminal", "video_terminal_vtg">>
Place == Inverse(NameOrder, DOMAIN NameOrder, ToSet(NameOrder))

\* Mutant: the sensors are put right behind the display.
LocalSlots_Packed ==
    [switches |-> 10, buttons |-> 11, rgb_leds |-> 12, seven_seg |-> 13, seven_seg_ctrl |-> 14,
     xadc |-> 15, temp_i2c |-> 16]

\* csr.add(name, n) of LocalSoC; the second bank was that of the GPIO display.
LocalSlots ==
    [switches |-> 10, buttons |-> 11, rgb_leds |-> 12, seven_seg |-> 13, seven_seg_ctrl |-> 14,
     xadc |-> 19, temp_i2c |-> 20]

LocalCores(on, target) ==
    (on \cap DOMAIN LocalSlots)
    \cup (IF target = "gpio" /\ "seven_seg" \in on THEN {"seven_seg_ctrl"} ELSE {})

Slots(on, target) ==
    LET asked == DOMAIN CpuSlots \cup LocalCores(on, target)
        slot  == [name \in asked |-> IF name \in DOMAIN CpuSlots THEN CpuSlots[name]
                                     ELSE LocalSlots[name]]
        free  == 0..31 \ Range(slot)
        other == OtherCores(on)
    IN [name \in asked \cup other |->
          IF name \in asked THEN slot[name]
          ELSE CHOOSE n \in free : Cardinality({m \in free : m < n})
                                = Cardinality({c \in other : Place[c] < Place[name]})]

\* Interrupts from 3 up are LiteX's to give, to Ethernet before the inputs.
SwitchesInterrupt(on) == 3 + Cardinality(on \cap {"ethernet"})
ButtonsInterrupt(on)  == 3 + Cardinality(on \cap {"ethernet", "switches"})

ConstantNames(on, target) ==
    (IF "switches" \in on THEN {"switches_ngpio", "switches_interrupt"} ELSE {})
    \cup (IF "buttons" \in on THEN {"buttons_ngpio", "buttons_interrupt"} ELSE {})
    \cup (IF "rgb_leds" \in on THEN {"rgb_leds_ngpio"} ELSE {})
    \cup (IF "seven_seg" \in on /\ target = "local"
          THEN {"seven_seg_ngpio", "seven_seg_ctrl_ngpio"} ELSE {})

ConstantValues(on) ==
    [switches_ngpio |-> 16, switches_interrupt |-> SwitchesInterrupt(on),
     buttons_ngpio |-> 5, buttons_interrupt |-> ButtonsInterrupt(on),
     rgb_leds_ngpio |-> 6, seven_seg_ngpio |-> 0, seven_seg_ctrl_ngpio |-> 0]

\* Mutant: nothing says that the scanner has no lines.
Constants_NoCount(on, target) ==
    Restrict(ConstantValues(on),
             ConstantNames(on, target) \ {"seven_seg_ngpio", "seven_seg_ctrl_ngpio"})

\* add_constant; irq.add makes the interrupt another one.
Constants(on, target) == Restrict(ConstantValues(on), ConstantNames(on, target))

\* The pixel clock is that of the timing, also where no video uses it.
video_pix_clk(timing) ==
    CASE timing = "640x480@60Hz" -> 25175 [] timing = "800x600@60Hz" -> 40000

LocalSoC(on, target, timing) ==
    [csr |-> Slots(on, target), constants |-> Constants(on, target),
     vga |-> video_pix_clk(timing)]

NoSoC == [csr |-> <<>>, constants |-> <<>>, vga |-> 0]

-----------------------------------------------------------------------------
(* From csr.json to the device tree *)

Constant(soc, name, default) ==
    IF name \in DOMAIN soc.constants THEN soc.constants[name] ELSE default

\* litex_json2dts_linux knows the LEDs and the switches, and takes 4 lines
\* where no constant counts them.
Generated(soc) ==
    LET known == IF "switches" \in DOMAIN soc.csr THEN <<"leds", "switches">> ELSE <<"leds">>
        irq   == [leds |-> None, switches |-> Constant(soc, "switches_interrupt", None)]
        count == [leds |-> 4, switches |-> Constant(soc, "switches_ngpio", 4)]
    IN [soc |-> [i \in DOMAIN known |-> Node(known[i], "gpio", soc.csr[known[i]], irq[known[i]])],
        marker |-> TRUE,
        refs |-> [i \in DOMAIN known |-> Ref(known[i], count[known[i]])]]

Bank == {"buttons", "rgb_leds", "seven_seg", "seven_seg_ctrl", "xadc", "temp_i2c"}
Gpio == {"leds", "switches", "buttons", "rgb_leds", "seven_seg", "seven_seg_ctrl"}

\* A count is written in digits, as the pattern finds it again.
ASSUME HandArgsAssumption ==
    HandArgs \subseteq [base  : [Bank -> Nat \cup {None}],
                        ngpio : [Gpio -> Nat],
                        irq   : Nat \cup {None}]

\* PATCH_ARGS: counts of the display from csr.json if it has them, else 8.
PatchArgs(soc) ==
    [base  |-> [b \in Bank |-> IF b \in DOMAIN soc.csr THEN soc.csr[b] ELSE None],
     ngpio |-> [leds |-> 16, switches |-> 16, buttons |-> 5, rgb_leds |-> 6,
                seven_seg |-> Constant(soc, "seven_seg_ngpio", 8),
                seven_seg_ctrl |-> Constant(soc, "seven_seg_ctrl_ngpio", 8)],
     irq   |-> Constant(soc, "buttons_interrupt", None)]

\* linux/dts/litex_nexys4ddr_vexriscv_smp.dts and its SD-root forms.
CheckedIn ==
    [soc  |-> <<Node("leds", "gpio", 7, None), Node("switches", "gpio", 10, 4),
                Node("buttons", "gpio", 11, 5), Node("rgb_leds", "gpio", 12, None),
                Node("seven_seg", "gpio", 13, None), Node("seven_seg_ctrl", "gpio", 14, None)>>,
     marker |-> TRUE,
     refs |-> <<Ref("leds", 16), Ref("switches", 16), Ref("buttons", 5), Ref("rgb_leds", 6),
                Ref("seven_seg", 8), Ref("seven_seg_ctrl", 8)>>]

-----------------------------------------------------------------------------
Init ==
    /\ env = [on |-> {}, timing |-> "800x600@60Hz", target |-> "local"] /\ script = "none"
    /\ pc = "idle" /\ status = "none"
    /\ csr = NoSoC /\ bit = NoSoC
    /\ dts \in {NoText, CheckedIn}   \* an empty directory, or a copy to be edited
    /\ last = {} /\ calls = 0 /\ edits = 0

Fail == pc' = "idle" /\ status' = "failed"

Clash(on) == \/ {"spi_sdcard", "sdcard"} \subseteq on
             \/ {"video_terminal", "video_framebuffer"} \subseteq on

\* Called with options that exclude each other, the script stops before it
\* touches anything; the probe then removes the directory.
Call(name, e) ==
    /\ pc = "idle" /\ calls < MaxCalls
    /\ calls = 0 \/ env \in Revisited
    /\ calls' = calls + 1
    /\ env' = e /\ script' = name
    /\ IF Clash(e.on) THEN Fail ELSE pc' = "target" /\ status' = "none"
    /\ IF name = "probe" /\ ~ Clash(e.on)
       THEN csr' = NoSoC /\ bit' = NoSoC /\ dts' = NoText /\ last' = {}
       ELSE UNCHANGED <<files, last>>
    /\ UNCHANGED edits

\* The option is given together with video only; the target has a default.
GivenTiming == IF Video(env.on) = {} THEN "800x600@60Hz" ELSE env.timing

\* main of the target up to Builder.build, which writes csr.json.
Elaborate ==
    /\ pc = "target"
    /\ IF GivenTiming = "unsupported" THEN Fail /\ csr' = csr
       ELSE /\ csr' = LocalSoC(env.on, env.target, GivenTiming)
            /\ pc' = IF script = "build" THEN "compile" ELSE "json2dts"
            /\ UNCHANGED status
    /\ UNCHANGED <<env, script, bit, dts, last, calls, edits>>

\* Without --no-compile the build goes on to the bitstream.
Compile ==
    /\ pc = "compile"
    /\ bit' = csr
    /\ pc' = "json2dts"
    /\ UNCHANGED <<env, script, status, csr, dts, last, calls, edits>>

Json2dts ==
    /\ pc = "json2dts"
    /\ dts' = Generated(csr)
    /\ last' = {}
    /\ pc' = "patch"
    /\ UNCHANGED <<env, script, status, csr, bit, calls, edits>>

\* The patcher on the file, with arguments args.
PatchDts(args) ==
    /\ dts' = Patched(dts, args)
    /\ last' = IF Fails(dts, args) THEN {} ELSE {args}

Patch ==
    /\ pc = "patch"
    /\ PatchDts(PatchArgs(csr))
    /\ IF Fails(dts, PatchArgs(csr)) THEN Fail ELSE pc' = "idle" /\ status' = "ok"
    /\ UNCHANGED <<env, script, csr, bit, calls, edits>>

\* A command fails, or the user stops the script; the shell has emptied the
\* output of the command that generates the device tree already.
BreakOff ==
    /\ pc # "idle"
    /\ Fail
    /\ IF pc = "json2dts" THEN dts' \in {dts, NoText} /\ last' = {} ELSE UNCHANGED <<dts, last>>
    /\ UNCHANGED <<env, script, csr, bit, calls, edits>>

ByHand == /\ pc = "idle" /\ dts # NoText
          /\ env \in Revisited \/ calls = 0
          /\ edits < MaxEdits
          /\ edits' = edits + 1
          /\ status' = "none"
          /\ UNCHANGED <<env, script, pc, csr, bit, calls>>

PatchByHand == ByHand /\ \E args \in HandArgs : PatchDts(args)

\* A count is removed, or the layout around the end of /soc changed.
EditByHand ==
    /\ ByHand
    /\ \/ \E i \in DOMAIN dts.refs : dts' = [dts EXCEPT !.refs[i].ngpio = None]
       \/ dts' = [dts EXCEPT !.marker = FALSE]
    /\ last' = {}

\* Nobody does anything any more.
Rest == pc = "idle" /\ UNCHANGED vars

Fresh == calls = 0 /\ dts = NoText

Next == \/ \E name \in {"build", "probe"}, e \in IF Fresh THEN Envs ELSE Revisited : Call(name, e)
        \/ Elaborate \/ Compile \/ Json2dts \/ Patch \/ BreakOff
        \/ PatchByHand \/ EditByHand \/ Rest

Spec == Init /\ [][Next]_vars

-----------------------------------------------------------------------------
(***************************************************************************)
(* No text that the patcher leaves, however often and with whatever        *)
(* arguments it is called on generated, checked-in or edited sources, has  *)
(* a label twice or a reference to a label that is not there: dtc takes    *)
(* it.                                                                     *)
(***************************************************************************)
DtsCompiles ==
    /\ \A i, j \in DOMAIN dts.soc : dts.soc[i].label = dts.soc[j].label => i = j
    /\ \A r \in ToSet(dts.refs) : \E n \in ToSet(dts.soc) : n.label = r.label

\* What Linux is to see of a SoC: the scanner's registers are no GPIO lines.
Scanner == IF env.target = "local" THEN {"seven_seg"} ELSE {}
Visible == (DOMAIN csr.csr \cap (Gpio \cup {"xadc", "temp_i2c"})) \ Scanner

Lines == [leds |-> 16, switches |-> 16, buttons |-> 5, rgb_leds |-> 6,
          seven_seg |-> 8, seven_seg_ctrl |-> 8]

(***************************************************************************)
(* A script that succeeds, whatever was in its directory and whichever     *)
(* calls before it failed half way, leaves a bitstream, a csr.json and a   *)
(* device tree of one SoC: a node at its base for each peripheral that     *)
(* Linux is to see, none for the scanner, every GPIO bank enabled with the *)
(* number of lines the board has, and the buttons on their interrupt.      *)
(***************************************************************************)
DescribesSoC ==
    status = "ok" =>
        /\ script = "build" => bit = csr
        /\ {<<n.label, n.base>> : n \in ToSet(dts.soc)} = {<<b, csr.csr[b]>> : b \in Visible}
        /\ ToSet(dts.refs) = {Ref(b, Lines[b]) : b \in Visible \cap Gpio}
        /\ \A n \in ToSet(dts.soc) :
              n.label = "buttons" => n.irq = csr.constants["buttons_interrupt"]

(***************************************************************************)
(* Whichever options a SoC is built with, no two cores share a slot, and   *)
(* the addresses built into sevenseg_temp_display are those of the SoC.    *)
(***************************************************************************)
ProgramsFindTheirCsrs ==
    LET slot == csr.csr
        built_in == [seven_seg |-> 13, xadc |-> 19, temp_i2c |-> 20]
    IN /\ IsInjective(slot)
       /\ \A name \in DOMAIN built_in \cap DOMAIN slot : slot[name] = built_in[name]

(***************************************************************************)
(* A SoC with the frame buffer has it and its timing generator where       *)
(* S09litex-vga and vga_bios_test_640x480 write, at 0xf0007800 and         *)
(* 0xf0008000, the addresses that docs/peripherals.md gives for the        *)
(* documented 640x480 build.                                               *)
(***************************************************************************)
VgaProgramsFindTheirCsrs ==
    LET slot == csr.csr
    IN "video_framebuffer" \in DOMAIN slot =>
          slot["video_framebuffer"] = 15 /\ slot["video_framebuffer_vtg"] = 16

Wanted(args, b) == args.base[b] # None /\ (b \in Gpio => args.ngpio[b] > 0)

Has(text, b)     == \E n \in ToSet(text.soc) : n.label = b
Enables(text, b) == \E r \in ToSet(text.refs) : r.label = b

\* The two ways in which a text leads the patcher astray: the second bank of
\* the display is enabled and the first is not; a count is missing from the
\* block of the LEDs or the switches, and possibly from some behind it.
Shadowed(text, b) == b = "seven_seg" /\ Enables(text, "seven_seg_ctrl") /\ ~ Enables(text, b)
Overrun(text, i)  == \E k \in 1..i - 1 : /\ text.refs[k].label \in {"leds", "switches"}
                                         /\ \A j \in k..i - 1 : text.refs[j].ngpio = None

\* What a call of the patcher owes: each bank it is given has a node, a new
\* one at its base, and is enabled; no other count changes.
Owed(text, args, new) ==
    /\ \A b \in Bank : Wanted(args, b) =>
          /\ \E n \in ToSet(new.soc) :
                n.label = b /\ (n \in ToSet(text.soc) \/ (~ Has(text, b) /\ n.base = args.base[b]))
          /\ b \in Gpio => Enables(new, b) \/ Shadowed(text, b)
    /\ IsPrefix(text.soc, new.soc)
    /\ \A i \in DOMAIN text.refs :
          /\ new.refs[i].label = text.refs[i].label
          /\ \/ new.refs[i].ngpio = text.refs[i].ngpio
             \/ /\ new.refs[i].label \in {"leds", "switches"}
                /\ new.refs[i].ngpio = args.ngpio[new.refs[i].label]
             \/ Overrun(text, i)

(***************************************************************************)
(* A call of the patcher that succeeds does what it owes, on every text,   *)
(* in spite of its tests for substrings, except on the two kinds of text   *)
(* above.                                                                  *)
(***************************************************************************)
PatchesAsTold ==
    [][\A args \in last' : Patch \/ PatchByHand => Owed(dts, args, dts')]_vars

(***************************************************************************)
(* Patching again with the same arguments changes nothing, except where    *)
(* the block of the LEDs or the switches has no count, and so may take     *)
(* that of a bank that the first call has added.                           *)
(***************************************************************************)
PatchedOnce ==
    (\A r \in ToSet(dts.refs) : r.label \in {"leds", "switches"} => r.ngpio # None)
        => \A args \in last : Patched(dts, args) = dts
==============================================================================
