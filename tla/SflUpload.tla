------------------------------ MODULE SflUpload ------------------------------
(***************************************************************************)
(* serial_boot_litex_images.py from the magic ACK to the end of main:      *)
(* upload_file cuts each image into LOAD frames, sends the first Warmup of *)
(* them one at a time and the others in windows; send_encoded_frames       *)
(* writes a window, reads one reply per frame, and resends the frames      *)
(* answered by a CRC error; jump sends the JUMP frame; console_until waits *)
(* for the marker.  The other side of the serial line, the LiteX BIOS, is  *)
(* external: it is modelled from the frames this code writes and the       *)
(* replies it expects.                                                     *)
(*                                                                         *)
(* A LOAD frame is [cmd, addr, data]; its length byte and CRC are what     *)
(* lets the BIOS refuse a damaged frame (module SflFrame), and are left    *)
(* out.  Bytes before the boot that read_ack skips because they are no ACK *)
(* code change nothing and are left out; the console of a running system   *)
(* may print any byte, ACK codes included.                                 *)
(***************************************************************************)
EXTENDS SflImages, Functions

CONSTANTS Warmup,      \* warmup_frames: frames sent one at a time
          Window,      \* ack_window
          Retries,     \* retries of send_encoded_frames (16 in the code)
          MaxConsole   \* bound: console bytes waiting to be read by the host

ASSUME UploadAssumption ==
    /\ Warmup \in Nat
    /\ Window \in Nat \ {0}
    /\ Retries \in Nat \ {0}
    /\ MaxConsole \in Nat

VARIABLES
    (* host *)
    pc,        \* where the script is; "ok" and "failed" are its exits
    img,       \* image being uploaded; NImages + 1 when all of them are
    next,      \* chunk that f.read returns next (frame_count = next - 1)
    pending,   \* upload_file's pending: frames waiting for a full window
    sent,      \* chunks that upload_file counts as sent
    sending,   \* send_encoded_frames' pending: frames of this attempt
    retry,     \* frames answered by a CRC error in this attempt
    written,   \* frames of this attempt already written
    acked,     \* replies of this attempt already read
    attempt,   \* attempts of this window before the current one
    (* serial line *)
    toDev,     \* frames on their way to the board
    toHost,    \* bytes on their way to the host
    lost,      \* frames and replies lost on the line so far
    (* board *)
    ddr,       \* what each address of memory holds
    dev        \* "sfl": BIOS receives frames; "booted": jumped

hostVars == <<pc, img, next, pending, sent, sending, retry, written, acked, attempt>>
lineVars == <<toDev, toHost, lost>>
devVars  == <<ddr, dev>>
vars     == <<hostVars, lineVars, devVars>>

-----------------------------------------------------------------------------
(* Frames and replies *)

RejectReply == {"C", "U", "E"}          \* SFL_ACK_CRCERROR, _UNKNOWN, _ERROR
AckByte     == {"K"} \cup RejectReply

\* Two console bytes that are no ACK code: the exit marker, and any other.
ConsoleByte == AckByte \cup {"marker", "text"}

LoadFrame(i, k) == [cmd  |-> "load",
                    addr |-> Images[i].base + k - 1,
                    data |-> <<i, k>>]

JumpFrame == [cmd |-> "jump", addr |-> JumpAddress, data |-> Blank]

Frame == [cmd : {"load", "jump"}, addr : Nat, data : Chunk \cup {Blank}]

-----------------------------------------------------------------------------
(* Host: upload_file, jump *)

Init ==
    /\ pc = "read"
    /\ img = 1
    /\ next = 1
    /\ sent = 0
    /\ pending = <<>> /\ sending = <<>> /\ retry = <<>>
    /\ written = 0 /\ acked = 0 /\ attempt = 0
    /\ toDev = <<>> /\ toHost = <<>>
    /\ lost = 0
    /\ ddr = [a \in Addr |-> Blank]
    /\ dev = "sfl"

\* The call of send_encoded_frames.
StartSend(frames) ==
    /\ sending' = frames
    /\ retry' = <<>>
    /\ written' = 0 /\ acked' = 0 /\ attempt' = 0
    /\ pc' = "write"

KeepSend == UNCHANGED <<sending, retry, written, acked, attempt, pc>>

IsWarmup(k) == k <= Warmup

\* Mutant: the window is sent one frame late.
WindowFull_OneLate(frames) == Len(frames) > Window

WindowFull(frames) == Len(frames) >= Window

\* f.read returns a chunk: it is sent alone, or joins the window, which is
\* sent when it is full.
ReadChunk ==
    /\ pc = "read"
    /\ img <= NImages
    /\ next <= Images[img].len
    /\ next' = next + 1
    /\ \/ /\ IsWarmup(next)
          /\ StartSend(<<LoadFrame(img, next)>>)
          /\ UNCHANGED pending
       \/ /\ ~ IsWarmup(next)
          /\ pending' = Append(pending, LoadFrame(img, next))
          /\ IF WindowFull(pending') THEN StartSend(pending') ELSE KeepSend
    /\ UNCHANGED <<img, sent, lineVars, devVars>>

\* End of file with a partial window: it is sent too.
FlushTail ==
    /\ pc = "read"
    /\ img <= NImages
    /\ next > Images[img].len
    /\ pending # <<>>
    /\ StartSend(pending)
    /\ UNCHANGED <<img, next, pending, sent, lineVars, devVars>>

\* Mutant: the partial window at the end of the file is forgotten.
EndOfImage_DropsTail ==
    /\ pc = "read"
    /\ img <= NImages
    /\ next > Images[img].len
    /\ img' = img + 1
    /\ next' = 1
    /\ sent' = 0
    /\ pending' = <<>>
    /\ KeepSend
    /\ UNCHANGED <<lineVars, devVars>>

\* End of file with nothing left to send: on to the next image.
EndOfImage ==
    /\ pc = "read"
    /\ img <= NImages
    /\ next > Images[img].len
    /\ pending = <<>>
    /\ img' = img + 1
    /\ next' = 1
    /\ sent' = 0
    /\ KeepSend
    /\ UNCHANGED <<pending, lineVars, devVars>>

Jump ==
    /\ pc = "read"
    /\ img = NImages + 1
    /\ StartSend(<<JumpFrame>>)
    /\ UNCHANGED <<img, next, pending, sent, lineVars, devVars>>

-----------------------------------------------------------------------------
(* Host: send_encoded_frames, read_ack *)

WriteFrame ==
    /\ pc = "write"
    /\ toDev' = Append(toDev, sending[written + 1])
    /\ written' = written + 1
    /\ pc' = IF written + 1 = Len(sending) THEN "ack" ELSE "write"
    /\ UNCHANGED <<img, next, pending, sent, sending, retry, acked, attempt,
                   toHost, lost, devVars>>

\* Mutant: a CRC error is taken for a success.
TakeReply_IgnoresCrc(reply) ==
    /\ acked' = acked + 1
    /\ retry' = retry
    /\ pc' = IF reply \in {"K", "C"} THEN pc ELSE "failed"

\* read_ack returns the next ACK code, which stands for the reply to the next
\* frame of the window; anything but K and C ends the upload.
TakeReply(reply) ==
    /\ acked' = acked + 1
    /\ retry' = IF reply = "C" THEN Append(retry, sending[acked + 1]) ELSE retry
    /\ pc' = IF reply \in {"K", "C"} THEN pc ELSE "failed"

ReadAck ==
    /\ pc = "ack"
    /\ acked < Len(sending)
    /\ toHost # <<>>
    /\ toHost' = Tail(toHost)
    /\ \/ Head(toHost) \in AckByte /\ TakeReply(Head(toHost))
       \/ Head(toHost) \notin AckByte /\ UNCHANGED <<acked, retry, pc>>
    /\ UNCHANGED <<img, next, pending, sent, sending, written, attempt,
                   toDev, lost, devVars>>

\* read_ack's deadline passes, whatever the board still has to say.
AckTimeout ==
    /\ pc = "ack"
    /\ acked < Len(sending)
    /\ pc' = "failed"
    /\ UNCHANGED <<img, next, pending, sent, sending, retry, written, acked,
                   attempt, lineVars, devVars>>

\* Chunks of the window that upload_file counts when its send returns: one
\* in the warm-up, where pending is empty, and pending otherwise.
Batch == IF pending = <<>> THEN 1 ELSE Len(pending)

\* Every frame was answered by K: the send returns.
SendDone ==
    /\ pc = "ack"
    /\ acked = Len(sending)
    /\ retry = <<>>
    /\ IF img = NImages + 1
          THEN /\ pc' = "console"
               /\ UNCHANGED <<sent, pending>>
          ELSE /\ pc' = "read"
               /\ sent' = sent + Batch
               /\ pending' = <<>>
    /\ UNCHANGED <<img, next, sending, retry, written, acked, attempt,
                   lineVars, devVars>>

\* Mutant: the resend does not wait for the replies still to come.
Resend_Eager ==
    /\ pc = "ack"
    /\ retry # <<>>
    /\ IF attempt + 1 < Retries
          THEN /\ sending' = retry
               /\ retry' = <<>>
               /\ written' = 0 /\ acked' = 0
               /\ attempt' = attempt + 1
               /\ pc' = "write"
          ELSE /\ pc' = "failed"
               /\ UNCHANGED <<sending, retry, written, acked, attempt>>
    /\ UNCHANGED <<img, next, pending, sent, lineVars, devVars>>

\* Mutant: attempts are not counted.
Resend_Forever ==
    /\ pc = "ack"
    /\ acked = Len(sending)
    /\ retry # <<>>
    /\ sending' = retry
    /\ retry' = <<>>
    /\ written' = 0 /\ acked' = 0
    /\ pc' = "write"
    /\ UNCHANGED <<img, next, pending, sent, attempt, lineVars, devVars>>

\* Some frame was answered by C: those frames are the next attempt, unless
\* this was the last one.
Resend ==
    /\ pc = "ack"
    /\ acked = Len(sending)
    /\ retry # <<>>
    /\ IF attempt + 1 < Retries
          THEN /\ sending' = retry
               /\ retry' = <<>>
               /\ written' = 0 /\ acked' = 0
               /\ attempt' = attempt + 1
               /\ pc' = "write"
          ELSE /\ pc' = "failed"
               /\ UNCHANGED <<sending, retry, written, acked, attempt>>
    /\ UNCHANGED <<img, next, pending, sent, lineVars, devVars>>

\* write and read raise SerialException, which nothing catches.
PortError ==
    /\ pc \in {"write", "ack"}
    /\ pc' = "failed"
    /\ UNCHANGED <<img, next, pending, sent, sending, retry, written, acked,
                   attempt, lineVars, devVars>>

-----------------------------------------------------------------------------
(* Host: console_until *)

ReadConsole ==
    /\ pc = "console"
    /\ toHost # <<>>
    /\ toHost' = <<>>
    /\ pc' = IF "marker" \in Range(toHost) THEN "ok" ELSE "console"
    /\ UNCHANGED <<img, next, pending, sent, sending, retry, written, acked,
                   attempt, toDev, lost, devVars>>

\* The console timeout passes, or the port fails.
ConsoleGivesUp ==
    /\ pc = "console"
    /\ pc' = "failed"
    /\ UNCHANGED <<img, next, pending, sent, sending, retry, written, acked,
                   attempt, lineVars, devVars>>

-----------------------------------------------------------------------------
(* Board (external): the BIOS's frame loop, and the system it jumps to *)

\* An intact frame is executed and answered by K; the reply may be lost.
Execute ==
    /\ dev = "sfl"
    /\ toDev # <<>>
    /\ toDev' = Tail(toDev)
    /\ LET f == Head(toDev) IN
       IF f.cmd = "load"
          THEN ddr' = [ddr EXCEPT ![f.addr] = f.data] /\ UNCHANGED dev
          ELSE dev' = "booted" /\ UNCHANGED ddr
    /\ \/ toHost' = Append(toHost, "K") /\ UNCHANGED lost
       \/ lost' = lost + 1 /\ UNCHANGED toHost
    /\ UNCHANGED hostVars

\* A frame damaged on the line is refused by its CRC.
Refuse ==
    /\ dev = "sfl"
    /\ toDev # <<>>
    /\ toDev' = Tail(toDev)
    /\ \E r \in RejectReply : toHost' = Append(toHost, r)
    /\ UNCHANGED <<hostVars, lost, devVars>>

\* A frame never recognised, as when the UART's receive FIFO overflows.
LoseFrame ==
    /\ dev = "sfl"
    /\ toDev # <<>>
    /\ toDev' = Tail(toDev)
    /\ lost' = lost + 1
    /\ UNCHANGED <<hostVars, toHost, devVars>>

\* The booted system takes what still arrives as console input ...
SwallowFrame ==
    /\ dev = "booted"
    /\ toDev # <<>>
    /\ toDev' = Tail(toDev)
    /\ UNCHANGED <<hostVars, toHost, lost, devVars>>

\* ... and prints.
PrintConsole ==
    /\ dev = "booted"
    /\ Len(toHost) < MaxConsole
    /\ \E b \in ConsoleByte : toHost' = Append(toHost, b)
    /\ UNCHANGED <<hostVars, toDev, lost, devVars>>

-----------------------------------------------------------------------------
HostStep == \/ ReadChunk \/ FlushTail \/ EndOfImage \/ Jump
            \/ WriteFrame \/ ReadAck \/ AckTimeout \/ SendDone \/ Resend
            \/ PortError \/ ReadConsole \/ ConsoleGivesUp

BoardStep == Execute \/ Refuse \/ LoseFrame \/ SwallowFrame \/ PrintConsole

\* The script has exited.
Exited == pc \in {"ok", "failed"} /\ UNCHANGED vars

Next == HostStep \/ BoardStep \/ Exited

Spec == Init /\ [][Next]_vars

\* The script runs; read_ack and console_until test their deadlines on every
\* turn of their loops, so neither can go on for ever.  Nothing is assumed of
\* the board.
Fairness == WF_vars(HostStep) /\ WF_vars(AckTimeout) /\ WF_vars(ConsoleGivesUp)

FairSpec == Spec /\ Fairness

-----------------------------------------------------------------------------
(* Type invariant *)

\* Every variable of the script, the line and the board has its type; the
\* attempts of a window stay below `retries'.
TypeOK ==
    /\ pc \in {"read", "write", "ack", "console", "ok", "failed"}
    /\ img \in 1..NImages + 1
    /\ next \in Nat \ {0}
    /\ sent \in Nat
    /\ pending \in Seq(Frame) /\ sending \in Seq(Frame) /\ retry \in Seq(Frame)
    /\ written \in 0..Len(sending)
    /\ acked \in 0..Len(sending)
    /\ attempt \in 0..Retries - 1
    /\ toDev \in Seq(Frame)
    /\ toHost \in Seq(ConsoleByte)
    /\ lost \in Nat
    /\ ddr \in [Addr -> Chunk \cup {Blank}]
    /\ dev \in {"sfl", "booted"}

-----------------------------------------------------------------------------
(* Inductive invariant: why a counted chunk is stored.  send_encoded_frames  *)
(* matches replies to frames by position alone, so the argument is that     *)
(* while nothing is lost positions agree, and after a loss no attempt ends. *)

\* The board did what the frame asks for.
Done(f) == IF f.cmd = "load" THEN ddr[f.addr] = f.data ELSE dev = "booted"

\* The frames the host may have under way: chunks of the current image that
\* upload_file has read and not counted yet, or the jump.
CurrentAt(i, from, to, f) ==
    IF i = NImages + 1
       THEN f = JumpFrame
       ELSE \E k \in from + 1 .. to - 1 : f = LoadFrame(i, k)

Current(f) == CurrentAt(img, sent, next, f)

\* Where the host is in the current image.
Position ==
    IF img = NImages + 1
       THEN pending = <<>> /\ sent = 0 /\ next = 1
       ELSE /\ next <= Images[img].len + 1
            /\ \A j \in 1..Len(pending) : pending[j] = LoadFrame(img, sent + j)
            /\ pending # <<>> => sent >= Warmup
            /\ pc = "read" => next = sent + Len(pending) + 1
            /\ pc \in {"write", "ack", "failed"} => next = sent + Batch + 1

\* The frames on the line are those last written and not yet taken.
InFlight ==
    /\ \A j \in 1..Len(toDev) : Current(toDev[j])
    /\ dev = "sfl" /\ pc \in {"write", "ack"} =>
          /\ written = acked + Len(toHost) + Len(toDev) + lost
          /\ \A j \in 1..Len(toDev) : toDev[j] = sending[written - Len(toDev) + j]

\* The frames of the attempt.
Sending ==
    pc \in {"write", "ack"} =>
          /\ sending # <<>>
          /\ \A j \in 1..Len(sending) : Current(sending[j])
          /\ \A j \in 1..Len(retry) : Current(retry[j])
          /\ pc = "write" => written < Len(sending) /\ acked = 0 /\ retry = <<>>
          /\ pc = "ack" => written = Len(sending)

\* The sizes of the window, of the attempt and of its retries.
Sizes ==
    /\ Len(pending) <= Window
    /\ pc = "read" => Len(pending) < Window
    /\ pc \in {"write", "ack"} => Len(sending) <= Batch /\ Len(retry) <= acked

\* While no frame or reply has been lost, the replies match the frames by
\* position: a frame answered by K is done, one answered by C is in retry.
Replies ==
    dev = "sfl" /\ pc \in {"write", "ack"} /\ lost = 0 =>
          /\ \A j \in 1..Len(toHost) :
                toHost[j] = "K" => Done(sending[acked + j])
          /\ \A j \in 1..acked :
                Done(sending[j]) \/ \E i \in 1..Len(retry) : retry[i] = sending[j]

\* What upload_file has counted is in memory, and of the window being sent a
\* chunk is in memory or in the attempt.
Stored ==
    img <= NImages =>
          /\ \A k \in 1..sent : Done(LoadFrame(img, k))
          /\ pc \in {"write", "ack"} =>
                \A k \in sent + 1 .. next - 1 :
                   \/ Done(LoadFrame(img, k))
                   \/ \E j \in 1..Len(sending) : sending[j] = LoadFrame(img, k)

\* Between two sends the line is quiet.
Quiet ==
    pc = "read" => toDev = <<>> /\ toHost = <<>> /\ lost = 0 /\ dev = "sfl"

Phase ==
    /\ dev = "booted" => img = NImages + 1
    /\ dev = "sfl" => \A j \in 1..Len(toHost) : toHost[j] \in AckByte
    /\ pc \in {"console", "ok"} => dev = "booted"

\* The upload's bookkeeping, line and memory fit together at every step.
IInv == /\ TypeOK /\ Position /\ InFlight /\ Sending /\ Sizes
        /\ Replies /\ Stored /\ Quiet /\ Phase

-----------------------------------------------------------------------------
(* Safety *)

(***************************************************************************)
(* The progress upload_file reports is true: every chunk it counts in      *)
(* `sent' is in the board's memory, whatever was refused, resent or lost   *)
(* on the way.                                                             *)
(***************************************************************************)
SentIsStored ==
    img <= NImages =>
        \A k \in 1..sent : ddr[Images[img].base + k - 1] = <<img, k>>

(***************************************************************************)
(* When the board has jumped, each address holds the chunk of the last     *)
(* image of the JSON list that covers it (load_images keeps the list's     *)
(* order and does not look for overlaps), even if the host has meanwhile   *)
(* timed out on the reply to the jump.                                     *)
(***************************************************************************)
BootedOnWholeImages ==
    dev = "booted" => \A a \in Addr : Latest(NImages, a, ddr[a])

(***************************************************************************)
(* main captures the console, and exits with success, only of a board that *)
(* jumped: no reply to a LOAD frame, and no byte printed before the jump,  *)
(* is taken for the reply to the JUMP frame.                               *)
(***************************************************************************)
ConsoleMeansBooted == pc \in {"console", "ok"} => dev = "booted"

(***************************************************************************)
(* While the BIOS is receiving, no more than ack_window frames are ever    *)
(* unanswered, and a frame of the warm-up is alone on the line, in resends *)
(* too: the receive FIFO the docstring worries about meets no longer       *)
(* burst.                                                                  *)
(***************************************************************************)
WindowRespected ==
    dev = "sfl" /\ pc \in {"write", "ack"} =>
        /\ Len(toDev) + Len(toHost) <= Window
        /\ (\E j \in 1..Len(toDev) : toDev[j].cmd = "load" /\ toDev[j].data[2] <= Warmup)
              => Len(toDev) + Len(toHost) = 1

(***************************************************************************)
(* No reply answers a frame of an earlier attempt: when the host starts an *)
(* attempt on a BIOS that still receives, every frame of the attempt       *)
(* before has been answered, and nothing is on the line either way.        *)
(***************************************************************************)
FreshAttempt ==
    [][pc' = "write" /\ pc # "write" /\ dev = "sfl"
          => toDev = <<>> /\ toHost = <<>> /\ lost = 0]_vars

(***************************************************************************)
(* The upload implements its abstract specification.                       *)
(***************************************************************************)
Abstract == INSTANCE ImageLoad WITH
    memory <- ddr,
    loaded <- img - 1,
    host   <- IF pc \in {"read", "write", "ack"} THEN "loading" ELSE pc,
    board  <- IF dev = "sfl" THEN "loader" ELSE "running"

ImplementsImageLoad == Abstract!Spec

-----------------------------------------------------------------------------
(* Liveness *)

(***************************************************************************)
(* The script always exits, whatever the board does or fails to do: the    *)
(* attempts are bounded by `retries', and each wait by its deadline.       *)
(***************************************************************************)
Terminates == <>(pc \in {"ok", "failed"})
==============================================================================
