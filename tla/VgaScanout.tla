------------------------------ MODULE VgaScanout -----------------------------
(***************************************************************************)
(* The two programs that switch on the VGA scanout: vga_bios_test_640x480, *)
(* which has the BIOS write the CSRs and the picture over the UART, and    *)
(* the init script S09litex-vga, which writes the CSRs with devmem under   *)
(* Linux.  Both write register after register and notice no write that     *)
(* fails; the tool may be broken off at any point, the board reset at any  *)
(* point, the init script called again with any argument, and what one     *)
(* left behind the other finds.                                            *)
(*                                                                         *)
(* The video cores are where both programs have them: GatewareBuild says   *)
(* of which builds that is true.                                           *)
(*                                                                         *)
(* A timing or DMA register holds the 640x480 value or another one.        *)
(***************************************************************************)
EXTENDS SequencesExt

CONSTANT MaxResets     \* bound: resets of the board

ASSUME ScanoutAssumption == MaxResets \in Nat

Timing == {"HRES", "HSYNC_START", "HSYNC_END", "HSCAN",
           "VRES", "VSYNC_START", "VSYNC_END", "VSCAN"}
Dma    == {"BASE", "LENGTH", "LOOP"}
Reg    == Timing \cup Dma

VARIABLES
    preset,     \* registers that hold their 640x480 value
    vtg, dma,   \* VTG_ENABLE, DMA_ENABLE
    drawn,      \* the framebuffer has been filled since the last reset
    board,      \* "bios" or "linux"
    fb0,        \* /dev/fb0 exists
    job,        \* writes still to be made by the program that runs
    program,    \* "none", "tool", "start", "stop" or "restart"
    ok,         \* the last start printed OK
    failed,     \* a write has failed since the last reset
    resets

csrs == <<preset, vtg, dma>>
vars == <<csrs, drawn, board, fb0, job, program, ok, failed, resets>>

-----------------------------------------------------------------------------
(* The writes of each program, in the order of the code *)

Quiesce == <<"vtg off", "dma off">>

TimingWrites == <<"HRES", "HSYNC_START", "HSYNC_END", "HSCAN",
                  "VRES", "VSYNC_START", "VSYNC_END", "VSCAN">>

\* Mutant: the DMA is started before it knows where.
SwitchOn_DmaFirst == <<"dma on", "BASE", "LENGTH", "LOOP", "vtg on">>

SwitchOn == <<"BASE", "LENGTH", "LOOP", "dma on", "vtg on">>

\* configure_vga_640x480, and start.
Configure == Quiesce \o TimingWrites \o SwitchOn

\* fill_white writes one run of pixels, fill_bars eight.
FillWhite == <<"fill">>
FillBars  == [b \in 1..8 |-> IF b = 8 THEN "fill" ELSE "bar"]

ToolWrites(fill, no_config) ==
    fill \o (IF no_config THEN <<>> ELSE Configure)

\* Mutant: start trusts the BIOS to have left the video off.
StartWrites_Trusting == TimingWrites \o SwitchOn

StartWrites == Configure

\* Without /dev/fb0, start and stop return at once.
Guarded(writes) == IF fb0 THEN writes ELSE <<>>

-----------------------------------------------------------------------------
Init ==
    /\ preset = {} /\ vtg = FALSE /\ dma = FALSE
    /\ drawn = FALSE
    /\ board = "bios" /\ fb0 = FALSE
    /\ job = <<>> /\ program = "none"
    /\ ok = FALSE /\ failed = FALSE
    /\ resets = 0

Run(name, writes) ==
    /\ program = "none"
    /\ program' = name
    /\ job' = writes
    /\ UNCHANGED <<csrs, drawn, board, fb0, failed, resets>>

Tool ==
    /\ board = "bios"
    /\ \E fill \in {FillWhite, FillBars}, no_config \in BOOLEAN :
          Run("tool", ToolWrites(fill, no_config))
    /\ UNCHANGED ok

Script ==
    /\ board = "linux"
    /\ \/ Run("start", Guarded(StartWrites))
       \/ Run("stop", Guarded(Quiesce))
       \/ Run("restart", Guarded(Quiesce \o StartWrites))
    /\ ok' = FALSE

Effect(write) ==
    /\ preset' = IF write \in Reg THEN preset \cup {write} ELSE preset
    /\ vtg' = CASE write = "vtg on" -> TRUE [] write = "vtg off" -> FALSE [] OTHER -> vtg
    /\ dma' = CASE write = "dma on" -> TRUE [] write = "dma off" -> FALSE [] OTHER -> dma
    /\ drawn' = (drawn \/ write = "fill")

\* mem_write, which does not look at what the BIOS answers, or devmem, whose
\* status the script ignores: the next write follows either way.
Write ==
    /\ job # <<>>
    /\ job' = Tail(job)
    /\ \/ Effect(Head(job)) /\ UNCHANGED failed
       \/ failed' = TRUE /\ UNCHANGED <<csrs, drawn>>
    /\ UNCHANGED <<board, fb0, program, ok, resets>>

\* The program returns; start has printed OK if there was a framebuffer.
Finish ==
    /\ program # "none"
    /\ job = <<>>
    /\ program' = "none"
    /\ ok' = (program \in {"start", "restart"} /\ fb0)
    /\ UNCHANGED <<csrs, drawn, board, fb0, job, failed, resets>>

\* The tool is interrupted, or its port fails.
BreakOff ==
    /\ program = "tool"
    /\ program' = "none" /\ job' = <<>>
    /\ UNCHANGED <<csrs, drawn, board, fb0, ok, failed, resets>>

\* Linux boots.  With the framebuffer node in its DTB the kernel has /dev/fb0
\* and its console has drawn before the init scripts run.
BootLinux ==
    /\ board = "bios" /\ program = "none"
    /\ board' = "linux"
    /\ fb0' \in BOOLEAN
    /\ drawn' = (drawn \/ fb0')
    /\ UNCHANGED <<csrs, job, program, ok, failed, resets>>

\* The reset button: the SoC's CSRs are at their reset values, the DDR is not
\* to be relied on.
Reset ==
    /\ resets < MaxResets
    /\ resets' = resets + 1
    /\ preset' = {} /\ vtg' = FALSE /\ dma' = FALSE
    /\ drawn' = FALSE
    /\ board' = "bios" /\ fb0' = FALSE
    /\ job' = <<>> /\ program' = "none"
    /\ ok' = FALSE /\ failed' = FALSE

Next == Tool \/ Script \/ Write \/ Finish \/ BreakOff \/ BootLinux \/ Reset

Spec == Init /\ [][Next]_vars

-----------------------------------------------------------------------------
Whole == preset = Reg /\ vtg /\ dma

Configured == /\ dma => Dma \subseteq preset
              /\ vtg => Whole /\ drawn

(***************************************************************************)
(* Wherever a program is broken off, and whatever is run after it, the DMA *)
(* never fetches and the monitor never syncs with registers that are not   *)
(* all set for 640x480, what is scanned out has been drawn, by the tool or *)
(* by the framebuffer console ahead of the init script, and start prints   *)
(* OK only for a scanout that is on: as long as no write has failed, which *)
(* neither program would notice.                                           *)
(***************************************************************************)
NeverHalfConfigured == ~ failed => Configured /\ (ok => Whole)

(***************************************************************************)
(* As long as no write has failed, registers are reprogrammed only while   *)
(* both the DMA and the timing generator are quiet, also when the BIOS or  *)
(* an earlier start left them running.                                     *)
(***************************************************************************)
ReprogramsQuietly ==
    [][(~ failed /\ job # <<>> /\ Head(job) \in Reg /\ job' = Tail(job))
          => ~ vtg /\ ~ dma]_vars
==============================================================================
