# Verification of the Nexys4 DDR LiteX Linux project

This directory holds TLA+ models of the parts of the repository that act: the
programs that talk to the board over a serial line, the fabric and the programs
that drive its peripherals, and the scripts that assemble what it boots. Each
module names in its header the code it stands for; `PROJECT.json` maps each
definition to its lines.

Run a model with `tlc -config <X>.cfg <Module>`; check proofs with
`tlapm <Module>.tla`, for each of the modules whose name ends in `Proofs`.

## 1. Inventory

| Part | State it keeps | Operations | Hard about it |
|---|---|---|---|
| SFL uploader, `serial_boot_litex_images.py` | position in the files, window, attempt, replies read | read chunk, write frames, read replies, resend, jump, capture console | lossy line, positional matching of replies, timeouts, retries |
| SFL frame encoding, same file | none | length, CRC-16 | table-driven arithmetic, limits of the length byte |
| Loader handshake, same file | `prompted`, `command_sent`, `cancelled_auto_serial`, `recent` | cancel automatic boot, ACK magic, type `serialboot`, probe | races a BIOS that boots on by itself; knows it by substrings of what it prints |
| `SevenSegScanner`, `litex_targets/nexys4ddr_linux.py` | CSRs, digit index, timer | clock, CSR writes | written while it scans |
| Display process, `tools/sevenseg_temp_display.c` | loop position, `stop_requested` | blank, build, write cells, enable | signals, kills, a second process |
| Temperature sources and formatting, same file and the hwmon patch | none | convert, fall back, format | signs, widths, rounding |
| Raw I2C, same file | pins in a CSR, the sensor's state | start, stop, write byte, read byte | killed inside a transfer |
| VGA scanout, `S09litex-vga` and `vga_bios_test_640x480.py` | video CSRs | configure, draw, stop | two writers, interruption, failing writes |
| Boot image scripts, `scripts/*.sh`, `buildroot/post-image-nexys4ddr.sh` | Buildroot's output, files in `linux/images` | make, copy, build DTB, write map | stopped half way, stale files |
| SoC assembly, `litex_targets/nexys4ddr_linux.py` | CSR slots, constants, pixel clock | options to cores, slots and constants | slots not asked for shift with every option |
| Device-tree patcher, `tools/patch_litex_nexys4ddr_dts.py` | the text of a device tree | insert nodes, append references, set counts | substring searches, repeated and partial edits |
| Gateware build and probe scripts | `csr.json`, bitstream, device tree | call the target, the generator and the patcher in turn | stopped half way, old files, options that clash |
| GPIO helper, post-build, smoke test, set-up | build products | see section 7 | not modelled yet |

How they interact. A build script turns its environment into options of the
target; the target writes `csr.json`, from which the generator and the patcher
make the device tree, while user programs have the addresses of the same CSRs
built in. The image scripts leave files and a JSON map; `load_images`
reads the map; the handshake brings the BIOS into its loader; the uploader
sends the files and jumps; Linux then boots with the device tree that came
along, `S09litex-vga` switches the scanout on, and the display process may run,
reading sensors through the kernel or through bare CSRs and writing the
scanner's CSRs. Shared state is always either files, the serial line or CSRs:
there are no locks anywhere, so every interleaving of the writers is possible.

What makes each part correct: chunks counted are stored and a booted board has
whole images (uploader); frames go only to a loader (handshake); nothing stale
or torn beyond one reading is lit (display); the lamps show the nearest tenth
(formatting); a reading is of the registers asked for and leaves the bus idle
(I2C); nothing unconfigured or undrawn is scanned out (VGA); the map's files
are of one make (images); bitstream, `csr.json` and device tree are of one SoC and
programs find their CSRs (gateware); intact frames are taken and damaged ones
are not (frames). The hazards, one by one and at their lines, are
listed in `PROJECT.json`.

## 2. Modules

`SflImages` holds the image list: load addresses and sizes in chunks, in JSON
order, and `Latest`, what an address holds after the first n images. A chunk is
named `<<image, position>>`; an address counts chunks.

`ImageLoad` is the abstract specification of a serial boot: chunks arrive in
any order, images finish in list order, the board boots when all are there, the
host confirms only a board that runs, and may give up at any time.

`SflUpload` is `upload_file`, `send_encoded_frames`, `read_ack`, `jump`,
`console_until` and the sequence in `main`. One action is one `ser.write` or
one `ser.read`, or the code between two of them (`ReadChunk`, `FlushTail`,
`EndOfImage`, `SendDone`, `Resend`). `toDev` and `toHost` are the two directions
of the UART. The BIOS is external: it executes an intact frame and answers K,
refuses one with C, U or E, or never sees it; a reply may be lost. `lost` counts
losses and appears only in the invariant. After the jump the board prints any
bytes, ACK codes among them.

`LoaderHandshake` is `wait_for_serial_loader`. `Iterate(n)` is one turn of the
loop that reads n tokens; its four disjuncts are the four ways through the
body. The BIOS is external and follows the strings and comments of the script:
menu, automatic serial boot, SD boot or prompt, and the `serialboot` command.
The script takes any recent output that has both `litex` and `>` for a prompt,
so these are two tokens (`PromptStrings`), a prompt prints both, and the other
text of a boot or a running system (`Chat`) may have either, both or none:
`chatter` says which. `misled` and `stale` are history variables: `serialboot`
was not typed at a prompt or was undone by a reset, and a reset is to blame.

`SflFrame` is `encode_frame` with the table-driven `crc16`, and external to it
the BIOS's check, written as a division by the polynomial one bit after the
other, and a line that flips bits. `SflUpload` abstracts from bytes and takes
from it that an intact frame is understood and a damaged one refused.

`SevenSegScanner` is the synchronous block of the fabric and its CSRs;
`TempDisplay` extends it with processes that run `main` of the display helper,
one CSR write per action. `Start` finds the CSRs as somebody left them. `alone`
is a history variable: no other process has run since this one was started.
`IInv` is the inductive invariant, which the run checks and the proofs use.

`TempSensors` has the arithmetic of the two sensors as operators, with C's
truncating division, and the driver's difference in 64 bits without sign, taken
half-word by half-word with its borrows and cut to a 32-bit `long`; `TempFormat` has `format_temp_group` and
`build_display_cells`, one step from sensor codes to cells.

`RawI2c` writes the functions `raw_i2c_*` as sequences of CSR accesses, named
as in the code, and runs them against a sensor that sees each edge of SCL and
SDA (external, from what the code expects of an ADT7420).

`VgaScanout` has the writes of both programs as sequences; programs run one at
a time on a board that may be reset and may boot Linux with or without
`/dev/fb0`. Neither program looks at what becomes of a write, so that any of
them may fail and the next is made all the same; `failed` remembers it.

`BootImages` has each script as its sequence of file operations; a file is the
number of the make it is of, and a device tree remembers the rootfs whose end it
holds. A make (external) replaces the images in Buildroot's output one by one in
any order, may be broken off, and makes any selection of them with a kernel and
a rootfs in one form or both; `build_buildroot_litex.sh` never cleans that
output, so what a make does not replace stays there.

`DtsPatch` is the patcher as operators on texts: nodes and references by label,
a label being a sequence of words so that substring tests find what they find
in the code, each reference with a count or without, and whether the end of
`/soc` is found. An insertion without its marker ends the program with nothing
written. `GatewareBuild` runs it: `Call` to `Patch` are the commands of the
build and probe scripts, any of which may fail or be stopped (`BreakOff`);
between calls the patcher and an editor work on the text by hand. `LocalSoC` is
the target; the slots that LiteX gives away itself are external, in the order
of names, as every address in the checked-in device trees and in the
documentation has them (`ethmac` 4, `ethphy` 5, `leds` 7, `spisdcard` 9).

`MCSflUpload`, `MCSflFrame`, `MCTempFormat`, `MCRawI2c` and `MCGatewareBuild` give the constants values that a
`.cfg` cannot write; the other modules are checked directly. Definitions headed
`Mutant:` are slips a programmer could make in the definition below them; no
specification uses them, and each property is known to notice at least one.

## 3. Runs and bounds

| Run | Question | Bounds, and why they are enough |
|---|---|---|
| `upload` | Is what is counted stored, is a booted board's memory whole, does the line ever hold more than a window or a reply of an earlier attempt, does the upload implement the abstract load, does the script always exit? | Three images, one empty, one overlapping another; the first has a warm-up frame, a full window of 2 and a partial one; 3 attempts: first, repeated, last; time is in the fairness. |
| `handshake` | Is `serialboot` ever typed away from a prompt? Is the automatic boot ever ACKed, does SD boot ever get frames? If nobody's wait expires, is the board in the loader when the script returns, and does a board at the prompt get there? | The four kinds of boot text (`Chatters`); boards found booting, at a prompt or running from SD; up to 3 tokens each way when something is added to them (`MaxLine`), so that a whole prompt and more is under way while probes overtake the BIOS, and one turn of the loop sees several events; waits that expire and waits that do not (`Timeliness`); one reset of the board. |
| `handshake_reset` | Is the automatic boot ACKed, whatever the resets and the boot text? It is. | Boot text with both strings or none. |
| `handshake_stuck` | Does a board at a prompt, menu missed, always get on? Violated. | |
| `display` | Does a process that has the display to itself light only its own readings, does a stop leave it dark, does the process that stays win, does every digit light? | 2 processes, 2 digits, 3 readings told apart: the one lit, the one being written and a stale one; timer values 0 to 3, reset divider larger than the process's, so that the divider shrinks under the timer. |
| `format` | Does the display show the nearest tenth, by whichever way the sensors are read? | All 65536 ADT7420 codes and all 4096 XADC codes; every set of answering sources, with and without fallback, at the codes where width, sign or validity change. |
| `i2c` | Does an undisturbed reading read what it asks, and what does a kill leave behind? | The real 7-bit address; sensor there, at a neighbouring address, or elsewhere; four register files, among them a negative reading, the all-low one that holds SDA longest, and one at which the second reading after a kill is good with another configuration; 2 kills, the second in what the first left. |
| `vga` | Is a scanout ever on with registers half configured or a memory not drawn, or OK printed for one that is off, before a write has failed? | One reset; any number of calls of both programs; any write may fail. |
| `images` | Is what a successful script leaves consistent? | 2 makes, of every selection of images, each broken off anywhere: an old one and a new one. |
| `frame` | Is every frame the script sends taken when intact, and refused when damaged? | Chunks of one byte of each value, so that every entry of the table is used; sizes 1, 2, 64, 250, 251, and 252, which `main` refuses; all pairs of bits of short frames, bursts, and damages far apart in the largest frame. |
| `gateware` | Do the files of a successful build agree, does the display program find its CSRs, what do repeated patches do? | Every set of options on both targets; 5 environments in which a directory is used again; 2 calls, the second in what the first left; 3 edits or patches by hand. 3 calls with 2 edits were also run. |
| `vga_addresses` | Does the documented 640x480 build have its video cores where the programs write? Violated. | That build alone. |

Deadlock is checked in every run: where a program may really stop (`Exited`,
`Settled`) the module says so with a stuttering step of its own.

A type invariant is kept where a run or a proof rests on it (inside `IInv` in
`display` and `upload`, and inside the invariants of the `Proofs` modules);
elsewhere a wrong type breaks one of the properties.

### Findings

* `handshake_reset`: `command_sent` is never cleared. If the board is reset
  after `serialboot` has been typed, the new automatic boot's magic is ACKed,
  which the comment at `serial_boot_litex_images.py:174` rules out. It is also
  ACKed without any reset, when the boot's own text has both `litex` and `>`
  (line 189 looks for them separately, anywhere in the last 4096 bytes) and is
  read before the magic: `serialboot` is then typed into a boot sequence, and
  the magic that follows is taken for its answer. `MisledOnlyIfStaleOrChatty`
  and `AutoAckedOnlyIfMisled` say what it takes: a reset that comes when the
  command has been typed or part of a prompt has not been acted on yet, or a
  text with both strings.
* `handshake_stuck`: the Q that cancels the automatic boot may arrive at the
  prompt, where it stays on the line and spoils the `serialboot` typed after
  it. Since `command_sent` is then set, the script neither probes nor types
  again, against the comment at line 196.
* `vga_addresses`: `docs/peripherals.md:310` gives the frame buffer of the
  documented 640x480 build the base `0xf0007800`, slot 15, and line 311 its
  timing generator `0xf0008000`, slot 16; `S09litex-vga` and
  `vga_bios_test_640x480.py` write there. These are the slots where the GPIO
  display had its second bank at 14 (`docs/peripherals.md:119`). The target of
  this repository leaves 14 free, so that the same build now has them at 14 and
  15, and the DMA's registers would be written into the timing generator. This
  rests on how LiteX gives away slots (section 2).

The observations that follow are no findings: they contradict no statement about
this code.

`S09litex-vga` and the BIOS test look at the outcome of no write: after one that
fails the scanout may be half configured and `OK` printed for a dark display.
`NeverHalfConfigured` and `ReprogramsQuietly` speak of the time before that.

A collect that follows a broken-off make succeeds on images of two makes, and
one that follows a make without a compressed rootfs takes the compressed rootfs
of an earlier one, if that is still in Buildroot's output, with the new kernel.
`KernelMatchesRootfs` says that there is no third way.

A display process killed within the pointer byte of a raw I2C transfer leaves the
sensor waiting for data, and the next process's address byte is written into
the sensor's configuration register. A sensor in the middle of a byte takes the
next start and address for clocks of that byte, and its own data for an
acknowledge: the readings after a kill may fail although it is there, and the
first good one may have another register's byte for the configuration. That
costs it at most the resolution, for the temperature itself is right in every
reading that counts as good (`GoodIsRight`), and from that one on all are right.
(Until it was to be proved, this project had it that only the first
completed reading after a kill can be wrong. Whether that holds depends on
the registers: a first one that fails may be followed by a good one with
another configuration byte. The fourth register file of `i2c` is one at which
that happens.)

The device tree for the temperature display keeps the initrd end of the rootfs
it was built with when a later collect replaces that rootfs.

The checked-in device trees describe GPIO banks `seven_seg` and
`seven_seg_ctrl` at slots 13 and 14. A target with the hardware scanner has the
registers of the scanner at 13, and `DescribesSoC` shows that a device tree built with it
describes neither.

`S09litex-vga` assumes 640x480, while the default timing of the build is 800x600.

The patcher has two kinds of text it does not serve (`PatchesAsTold` names
them): `&seven_seg` counts as present when only `&seven_seg_ctrl` is, and a
LED or switch block without a count takes the next block's for its own.

A frame has its CRC in front of what it covers. A burst of 12 bits or more
across the border of the two may go unnoticed; `Noticeable` leaves it out.

## 4. Fairness

* `SflUpload!FairSpec`: the host's process keeps running (`WF(HostStep)`), and
  `read_ack` and `console_until` compare the clock with a deadline on every
  turn of their loops, so each ends although bytes keep coming (`WF` of
  `AckTimeout` and `ConsoleGivesUp`). Nothing is assumed of the board.
* `LoaderHandshake!FairSpec`: the loop keeps reading all there is
  (`ser.read(4096)`), and keeps probing every two seconds; the BIOS reads its
  UART and goes on with its boot.
* `TempDisplay!FairSpec`: the clock ticks, and each process that runs is
  scheduled. Signals, kills and starts are never forced.
* `RawI2c!FairSpec`: readings go on, as `build_display_cells` makes one with
  every update.

## 5. Proofs

Each `Proofs` module is about one component, for every value of the constants
that the named assumptions allow. The properties are not inductive; each module
has an inductive invariant `IInv` that holds at the start, is kept by every
action (one lemma or case for each), and gives the properties. `IInv` of
`SflUpload` and `TempDisplay` is checked in the runs; those of handshake, raw I2C, VGA,
boot images and gateware were checked by TLC, on the instances of the runs or
smaller ones, before they were proved.

### Serial boot

`ImageLoadProofs` proves, for every image list (naturals for addresses and
lengths, at least one image: `ImagesAssumption`), that the abstract load keeps
its types (`TypeInvariant`) and boots only with the latest chunk at every
address (`BootsOnLatest`). Its inductive invariant is `LoadProgress`: every
address holds what the finished images left, or already the chunk of the image
being loaded.

`SflUploadProofs` proves, for every image list, every warm-up, every window of
at least one and every number of attempts (`UploadAssumption`), the invariants
and action properties that run `upload` checks, and the refinement. None of
the properties is inductive. The argument is in `IInv`:

* `Position` ties the chunk to be read next to the chunks counted and the
  window collected; `Sizes` bounds window, attempt and retries.
* `InFlight`: the frames on the line are the last ones of the attempt not taken
  yet, and while the BIOS receives, frames written = replies read + replies on
  the line + frames on the line + losses. This is why an attempt can only end
  (`acked = Len(sending)`) when nothing was lost and the line is empty, which is
  `AttemptComplete`.
* `Replies`: as long as nothing was lost, the j-th reply answers the j-th
  frame, so that K means stored and every frame not stored is in `retry`.
* `Stored`: chunks counted are in memory; a chunk of the window is in memory or
  in the attempt. A resend keeps it because of `Replies`.
* `Quiet` and `Phase`: between sends the line is empty; the board boots only in
  the jump.

There is one lemma per action (`ReadChunkStep` ... `BootedStep`), with the steps
that only give up in `GivingUp` and the board's answers in `Answering`.
`StoreKeeps` is the arithmetic fact that chunks of one image have distinct
addresses. `Refinement` maps `ddr`, `img - 1`, `pc` and `dev` to the abstract
variables: `Execute` of a LOAD is `Store`, of a JUMP is `Boot`; `EndOfImage` is
`FinishImage`; the return of `jump` is `Confirm`; all else stutters or gives
up. `BootsWholeImages` then follows from `BootsOnLatest`.

The `TypeInvariant` of `ImageLoadProofs` is about the abstract module, whose types no run lists as a
property of its own.

`LoaderHandshakeProofs`, for every initial board, boot text, bound of the lines,
number of resets and timeliness: `MisledOnlyIfStaleOrChatty`,
`NoFramesIntoSdBoot`, `FramesOnlyToLoader` and `AutoAckedOnlyIfMisled`. What the
two ends do next depends on what is under way between them, so the invariant is
about the contents of both lines:

* `Undecided`: before the command is typed, a magic or prompt that has been read
  has been acted on, and nothing on the line to the board can bring it into a
  loader. This is what rules out an ACK of the automatic boot.
* `PromptIsTrue`: as long as no reset is to blame, a string that this board
  prints only in a prompt (`Telling`) and that is still to be acted on is of a
  prompt that the board sits at, with only prompts behind it. A boot text that
  lacks one of the two strings therefore never completes a prompt, and the
  command is typed into one: `MisledOnlyIfStaleOrChatty`, which is a part of the
  invariant.
* `CommandHeard`: afterwards, unless it was undone, the board is at the prompt
  or in a loader, which is why SD boot gets no frames.
* `InStep`: if no wait expires, nothing behind `serialboot` on the line cancels
  it, and the one magic that comes is its own.

### Display

`TempDisplayProofs`, for any number of processes, digits, readings told apart
and any two dividers: `DwellBounded`, `DarkAfterExit`, `LightsOwnReadings`.
`AloneMeansNoOther` keeps others off the CSRs of a process that is alone; then
what it finds there follows from how far it has got: cells left of the index
are zero while it clears (`Clearing`), of the new reading while it writes, and
of the last one right of the index (`Writing`, `Written`), and a scanner that
is on in the loop shows the last reading (`Waiting`).

### Raw I2C

`RawI2cProofs`, for any address of two bits or more, any sensor with any
registers, and any number of kills (`RawI2cAssumption`): `ReadsWhatItAsks`,
`LeavesBusIdle`, `GoodIsRight`, `NoConditionInsideByte` and `NeverWrites`. The
invariant is about the place in `Program`:

* Where a place is. `Program` is put together with `FlattenSeq`, a recursive
  function that the library's induction theorems could not be instantiated for.
  It is followed by least counterexample instead (`LeastElement`, `UpTo`,
  `FlattenPieces`), which gives plain positions: write_byte has three operations
  for each bit, read_byte five (`WriteOperations`, `ReadOperations`).
* `Where`, as long as nobody was killed: the place tells what the pins are, the
  sensor's mode, the clocks of the byte under way, the bits taken of it and
  those the process has read. There is one lemma for each piece (`StartStep`,
  `WriteStep`, `ReadStep`, `StopStep`), at any offset into `Program`, and
  `WhereStep` puts them in a row.
* `Sound`, always: the sensor pulls the line only to acknowledge a byte and to
  send a 0.
* `Astray`, after a kill, until `Where` holds again. A byte written and its
  acknowledge are as many clocks as a byte of the sensor's, so a sensor that
  has not seen the start is at the same clock when the process reads the
  acknowledge as when the byte began (`Clocked`, `Round`). If what is read is
  a 0, the sensor was acknowledging there, or sending (`Pulled`). In the first
  case it sees read_reg's second start. In the second it may miss that one
  too; but then it is sending while the process lets the line go for a whole
  byte, and what it reads at its own acknowledge clock tells it to stop
  (`Fading`). Either way the bus is idle when the second read_reg begins, and a
  reading can only be good if its temperature was asked for on an idle bus.

### VGA

`VgaScanoutProofs`, for any number of resets: `NeverHalfConfigured` and
`ReprogramsQuietly`. A program is broken off between any two writes and another
one follows, so the invariant is about the writes still to come: `DmaInOrder`,
`VtgInOrder` and `QuietInOrder` say that each switch finds what it needs, in the
registers or earlier in the list, and that each register is written with both
quiet; `OkComesLast` that a start which is to print `OK` still has the switch of
the timing generator to make, or has made it. All of it is for histories without
a failed write (`failed \/ Orderly`): after one it is false, because the next
write is made all the same.

### Boot images

`BootImagesProofs`, for any number of makes: `InitrdEndMatches`,
`SuccessIsLoadable`, `OneRootfs` and `KernelMatchesRootfs`. `Progress` says of
each script what its remaining operations tell of the files: an operation that
is no longer to be done has left its file as it is in `out`. The device
tree takes the end of whichever rootfs is there, so `First` is needed too: the
rootfs is copied before the device tree is made. `OutputOfMake` is the output's
part: unless they are still to be made, the kernel and a form of the rootfs are
of the last make. `Kept` is what success leaves.

### Gateware build and device trees

`GatewareBuildProofs`, for every set of environments and every options of the
patcher by hand with counts and bases that are naturals or left out
(`HandArgsAssumption`; a count is written in digits, and the pattern would not
find a negative one again): `DtsCompiles`, `DescribesSoC`, `PatchedOnce`,
`ProgramsFindTheirCsrs` and the action property `PatchesAsTold`. Most of it is about the patcher as a function:

* `SuffixTest` and `PrefixTest` settle the substring searches: a label ends
  with the words of another only if it is that label, and begins with them only
  in the case of `seven_seg` and `seven_seg_ctrl`.
* `patch_ref_ngpio` only sets counts (`Recounted`): of its own block, or, where
  counts are missing, of a later one (`Overrun`).
* The insertions only add (`Amended`): nodes at the end for banks that had
  none, references behind the others, each label once. Edits compose, so that
  `Edited` says of the whole `main` that it is a `Recounted` and then an
  `Amended` by the banks that the options name.
* `PatchedIsSound`: a text with each label once and each reference defined
  (`Sound`) stays so. `EditedTwice`: a second call finds every bank there, and
  each count its own. `EditedOwes`: the promise in `PatchesAsTold`, for every
  text.
* `BanksOf`, `ConstantsOf`, `ScriptsArgs`, `TakenOfSoC` and `DescribedSoC` follow a
  SoC through constants, options and the generated text: the patcher takes
  exactly the banks that Linux is to see and that the generator does not know.
* `NthSlot` and `GivenSlots` say that the slots which nobody asked for exist for
  every core that needs one (17 free ones are always left), and `SlotsDiffer`
  that no two cores share one and that they follow the names' order;
  `SlotsAsBuiltIn` has the display program's three.

The invariant of the state machine says that every text is `Sound`, and that
`csr.json`, bitstream and text are still those of the call that is running when
its next command starts; with it, `Assembled` says that `csr.json` is that of
some SoC or missing, also between calls.

### What is only model-checked

* Liveness (`Terminates`, `ReachesLoader`, `LastOneShows`, `EveryDigitLit`,
  `Recovers`): fairness and ENABLED are out of the prover's reach.
* The sensors' conversions (`ShowsNearest`, `ReadsRegister`): `format`
  goes through all register codes of both sensors.
* `SflFrame` uses `Bitwise`, whose operators are RECURSIVE, and what `crc16`, a
  recursive function, computes for every input would need induction over data,
  which the prover cannot instantiate. No module declares a RECURSIVE operator.

## 6. What the abstractions leave out

* Bytes of frames, in `SflUpload`: a damaged frame is refused, for the damages
  of which `SflFrame` shows it. Damage of the length byte, outside the CRC, is
  left out of both: the BIOS then splits the line elsewhere.
* Bytes before the boot that are no ACK code, and noise that looks like one.
* Text: the handshake's tokens stand for what the script searches for. Text that
  contains the menu's or the magic's own string is left out, and so is what a
  command prints beside its magic and the next prompt.
* Real time: a deadline may pass at any moment. In the handshake `timely`,
  chosen once, says whether the waits of either side can expire at all.
* Polarity and order of the digits, glyphs, and the pixels of a picture.
* The text of the device trees: in `BootImages` a DTB is the rootfs whose end
  it holds, in `DtsPatch` a text is its labels, bases, counts and interrupts.
* `LocalCRG` and `--load`, which only call LiteX, and the cores that neither
  the build scripts nor a program of the repository asks for.
* In `VgaScanout`, a command that the line damages into another one; one that is
  lost is a write that fails.
* In `BootImages`, half-copied files, and a make that finds its kernel unchanged:
  the kernel counts as put there again.
* Options: the serial and board programs run with any window, warm-up and number of attempts,
  and with the fallback on or off; other options have their defaults.

## 7. Plan

Written, in this order:

1. Serial boot: `SflImages`, `ImageLoad`, `SflUpload`, proofs;
   `LoaderHandshake`. Display: `SevenSegScanner`, `TempDisplay`, `TempSensors`,
   `TempFormat`, `RawI2c`. `VgaScanout`. `BootImages`.
2. `SflFrame`: frames and their CRC. `DtsPatch` and `GatewareBuild`: the
   device-tree patcher, the SoC and the scripts that build it.
3. Proofs of the components above, as section 5 lists them.

To follow:

4. Composition: handshake followed by upload, with a reset between them;
   display process with the raw I2C reading inside its loop.
5. The rest of the hwmon patch, `scanner_control_value`'s arithmetic with the
   32-bit width, `gpio_output_set`, the post-build edits and the smoke test.
