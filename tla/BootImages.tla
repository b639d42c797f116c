------------------------------ MODULE BootImages -----------------------------
(***************************************************************************)
(* linux/images: what the image scripts leave there for the serial boot.   *)
(* Buildroot's make replaces the images in its output one by one, and has  *)
(* the post-image script run when it has made them all; a make that fails  *)
(* or is broken off leaves new images beside old ones, and no make removes *)
(* an image that it does not make.  From there the post-image script and   *)
(* collect_litex_linux_images copy; they and the prepare scripts build a   *)
(* device tree and write the JSON map that load_images reads, one file     *)
(* after the other.  Each may be broken off, or stop on a missing file,    *)
(* with part of the files replaced.                                        *)
(*                                                                         *)
(* A file is the number of the make it is of, which stands for a rootfs's  *)
(* size too: a device tree built for an initrd holds the number of that    *)
(* rootfs in linux,initrd-end.                                             *)
(***************************************************************************)
EXTENDS Integers, Sequences

CONSTANTS MaxBuilds,  \* bound: makes
          Abortable   \* TRUE: scripts may be broken off

ASSUME ImagesAssumption == MaxBuilds \in Nat /\ Abortable \in BOOLEAN

Flavour == {"initramfs", "temp", "sdroot"}

\* What a make may put into Buildroot's output: a kernel, firmware, a rootfs
\* in either form, a device tree.
Output == {"Image", "fw", "gz", "cpio", "dtb"}

Missing  == 0                   \* of a file
Window   == MaxBuilds + 1       \* a DTB with the DTS's fixed initrd window
NoInitrd == MaxBuilds + 2       \* a DTB without initrd
Foreign  == MaxBuilds + 3       \* a DTB that Buildroot made

VARIABLES
    build,    \* number of the last make
    left,     \* images the last make has still to put into Buildroot's output
    out,      \* Buildroot's output: the make each image is of
    image, opensbi,
    gz, cpio, \* the make whose rootfs is in rootfs.cpio.gz, rootfs.cpio
    dtb,      \* of each flavour
    json,     \* of each flavour: rootfs it names, or "missing"
    todo,     \* operations the running script still has to do
    script,   \* "none", or the make or script that runs
    done      \* the last of them to end, if it succeeded; "broken off" if not

buildroot == <<build, left, out>>
files     == <<image, opensbi, gz, cpio, dtb, json>>
vars      == <<buildroot, files, todo, script, done>>

-----------------------------------------------------------------------------
(* The scripts: their operations, in order *)

\* Mutant: the device tree is left to the next collect.
PostImage_NoDtb == <<"Image", "gz", "rm cpio", "opensbi", "json gz">>

PostImage == <<"Image", "gz", "rm cpio", "opensbi", "dtb gz", "json gz">>

\* Mutant: the other rootfs stays.
CollectRootfs_Both == IF out["gz"] # Missing THEN <<"gz">> ELSE <<"cpio">>

CollectRootfs ==
    IF out["gz"] # Missing THEN <<"gz", "rm cpio">> ELSE <<"cpio", "rm gz">>

\* A device tree of Buildroot's goes before one that is there already, but
\* only with the uncompressed rootfs.
CollectDtb ==
    IF out["gz"] # Missing THEN <<"dtb gz">>
    ELSE IF out["dtb"] # Missing THEN <<"dtb foreign">>
    ELSE IF dtb["initramfs"] # Missing THEN <<>>
    ELSE <<"dtb default">>

\* Mutant: the kernel is not copied.
Collect_NoKernel == CollectRootfs \o <<"opensbi or keep">> \o CollectDtb
    \o <<IF out["gz"] # Missing THEN "json gz" ELSE "json cpio">>

Collect == <<"Image">> \o CollectRootfs \o <<"opensbi or keep">> \o CollectDtb
           \o <<IF out["gz"] # Missing THEN "json gz" ELSE "json cpio">>

\* The map is written before the files it names are looked for.
PrepareSdroot == <<"dtb sdroot", "json sdroot", "need Image", "need opensbi">>

\* The files are looked for first; the rootfs is the compressed one.
PrepareTemp == <<"need Image", "need gz", "need opensbi", "dtb temp", "json temp">>

BuildDtb == <<"dtb default">>

Operations(s) == CASE s = "post-image"      -> PostImage
                   [] s = "collect"         -> Collect
                   [] s = "prepare_sdroot"  -> PrepareSdroot
                   [] s = "prepare_temp"    -> PrepareTemp
                   [] s = "build_litex_dtb" -> BuildDtb

\* Those that one calls; Buildroot calls the other.
Called == {"collect", "prepare_sdroot", "prepare_temp", "build_litex_dtb"}
Script == Called \cup {"post-image"}

-----------------------------------------------------------------------------
Init ==
    /\ build = 0 /\ left = {} /\ out = [f \in Output |-> Missing]
    /\ image = Missing /\ opensbi = Missing /\ gz = Missing /\ cpio = Missing
    /\ dtb = [f \in Flavour |-> Missing]
    /\ json = [f \in Flavour |-> "missing"]
    /\ todo = <<>> /\ script = "none" /\ done = "none"

\* build_buildroot_litex's make starts, of a configuration that makes a kernel
\* and a rootfs.  (A kernel that has not changed since the make before is not
\* put there again; it is then as much this make's as that one's.)
StartMake ==
    /\ script = "none"
    /\ build < MaxBuilds
    /\ script' = "make"
    /\ build' = build + 1
    /\ \E made \in SUBSET Output :
          /\ "Image" \in made /\ made \cap {"gz", "cpio"} # {}
          /\ left' = made
    /\ UNCHANGED <<out, files, todo, done>>

\* Buildroot (external) replaces one of the images, in an order of its own.
Make ==
    /\ script = "make"
    /\ \E f \in left : /\ out' = [out EXCEPT ![f] = build]
                       /\ left' = left \ {f}
    /\ UNCHANGED <<build, files, todo, script, done>>

\* All are made: where the configuration has it, the post-image script starts.
EndMake ==
    /\ script = "make" /\ left = {}
    /\ \/ script' = "post-image" /\ todo' = PostImage /\ UNCHANGED done
       \/ script' = "none" /\ done' = "make" /\ UNCHANGED todo
    /\ UNCHANGED <<buildroot, files>>

Call(s) ==
    /\ script = "none"
    /\ script' = s
    /\ todo' = Operations(s)
    /\ UNCHANGED <<buildroot, files, done>>

\* build_litex_dtb without INITRD_IMAGE takes the compressed rootfs if it is
\* there, and otherwise leaves the window of the DTS.
DefaultDtb == IF gz # Missing THEN gz ELSE Window

\* Mutant: a missing OpenSBI is not noticed.
Fails_KeepsNothing(op) ==
    \/ op \in {"Image", "gz", "cpio"} /\ out[op] = Missing
    \/ op = "opensbi" /\ out["fw"] = Missing
    \/ op = "need Image" /\ image = Missing
    \/ op = "need gz" /\ gz = Missing
    \/ op = "need opensbi" /\ opensbi = Missing

\* A file that the operation needs is not there: the script ends with 1.
Fails(op) ==
    \/ op \in {"Image", "gz", "cpio"} /\ out[op] = Missing
    \/ op = "opensbi" /\ out["fw"] = Missing
    \/ op = "opensbi or keep" /\ out["fw"] = Missing /\ opensbi = Missing
    \/ op = "need Image" /\ image = Missing
    \/ op = "need gz" /\ gz = Missing
    \/ op = "need opensbi" /\ opensbi = Missing

NewDtb(op) ==
    CASE op = "dtb gz"      -> [dtb EXCEPT !["initramfs"] = gz]
      [] op = "dtb default" -> [dtb EXCEPT !["initramfs"] = DefaultDtb]
      [] op = "dtb foreign" -> [dtb EXCEPT !["initramfs"] = Foreign]
      [] op = "dtb temp"    -> [dtb EXCEPT !["temp"] = gz]
      [] op = "dtb sdroot"  -> [dtb EXCEPT !["sdroot"] = NoInitrd]
      [] OTHER              -> dtb

NewJson(op) ==
    CASE op = "json gz"     -> [json EXCEPT !["initramfs"] = "gz"]
      [] op = "json cpio"   -> [json EXCEPT !["initramfs"] = "cpio"]
      [] op = "json temp"   -> [json EXCEPT !["temp"] = "gz"]
      [] op = "json sdroot" -> [json EXCEPT !["sdroot"] = "no rootfs"]
      [] OTHER              -> json

\* The next operation; with set -e one that fails ends the script.
Operate ==
    /\ todo # <<>>
    /\ ~ Fails(Head(todo))
    /\ LET op == Head(todo) IN
       /\ image' = IF op = "Image" THEN out["Image"] ELSE image
       /\ opensbi' = IF op \in {"opensbi", "opensbi or keep"} /\ out["fw"] # Missing
                     THEN out["fw"] ELSE opensbi
       /\ gz' = IF op = "gz" THEN out["gz"] ELSE IF op = "rm gz" THEN Missing ELSE gz
       /\ cpio' = IF op = "cpio" THEN out["cpio"]
                  ELSE IF op = "rm cpio" THEN Missing ELSE cpio
       /\ dtb' = NewDtb(op)
       /\ json' = NewJson(op)
    /\ todo' = Tail(todo)
    /\ UNCHANGED <<buildroot, script, done>>

Return ==
    /\ script \in Script
    /\ todo = <<>>
    /\ script' = "none"
    /\ done' = script
    /\ UNCHANGED <<buildroot, files, todo>>

\* A script is broken off, or an operation fails; a make fails where it likes.
BreakOff ==
    /\ \/ todo # <<>> /\ (Abortable \/ Fails(Head(todo)))
       \/ script = "make"
    /\ todo' = <<>> /\ script' = "none"
    /\ done' = "broken off"
    /\ UNCHANGED <<buildroot, files>>

Next == \/ StartMake \/ Make \/ EndMake
        \/ \E s \in Called : Call(s)
        \/ Operate \/ Return \/ BreakOff

Spec == Init /\ [][Next]_vars

-----------------------------------------------------------------------------
(* What the serial boot would load *)

Rootfs(f) == IF json[f] = "gz" THEN gz ELSE cpio

\* load_images finds every file that the map names.
Loadable(f) ==
    /\ json[f] # "missing"
    /\ image # Missing /\ opensbi # Missing /\ dtb[f] # Missing
    /\ json[f] # "no rootfs" => Rootfs(f) # Missing

(***************************************************************************)
(* After Buildroot's post-image script, or a collect of a compressed       *)
(* rootfs, has succeeded, the map's device tree ends the initrd where the  *)
(* rootfs beside it ends, whatever other scripts did, or left half done,   *)
(* before: the kernel unpacks neither less nor more.                       *)
(***************************************************************************)
InitrdEndMatches ==
    script = "none" /\ done \in {"post-image", "collect"} /\ json["initramfs"] = "gz"
        => dtb["initramfs"] = gz

(***************************************************************************)
(* A script that succeeds leaves a map whose files are all there.          *)
(***************************************************************************)
SuccessIsLoadable ==
    script = "none" =>
        /\ done \in {"post-image", "collect"} => Loadable("initramfs")
        /\ done = "prepare_temp" => Loadable("temp")
        /\ done = "prepare_sdroot" => Loadable("sdroot")

(***************************************************************************)
(* After a collect or a post-image there is one rootfs, of the kind that   *)
(* the map names: a build_litex_dtb that follows cannot fit the device     *)
(* tree to an older one.                                                   *)
(***************************************************************************)
OneRootfs ==
    script = "none" /\ done \in {"post-image", "collect"} =>
        /\ gz = Missing <=> json["initramfs"] = "cpio"
        /\ cpio = Missing <=> json["initramfs"] = "gz"

(***************************************************************************)
(* After a collect or a post-image the kernel and the rootfs of the map    *)
(* are of one make, so that a boot finds the modules of its kernel, but in *)
(* two cases: the last make was broken off with images still to be made,   *)
(* or it made no compressed rootfs and an older one was in the output.     *)
(***************************************************************************)
KernelMatchesRootfs ==
    script = "none" /\ done \in {"post-image", "collect"} =>
        \/ image = Rootfs("initramfs")
        \/ left # {}
        \/ out["gz"] \notin {Missing, build}
==============================================================================
