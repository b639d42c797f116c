--------------------------- MODULE LoaderHandshake ---------------------------
(***************************************************************************)
(* wait_for_serial_loader: how the boot script brings a LiteX BIOS in an   *)
(* unknown state into its serial loader before the first frame.  The       *)
(* script sees the UART's output as text, and knows the board's state only *)
(* from what it finds in it; meanwhile the BIOS's own boot sequence goes   *)
(* on.  The BIOS is external: it is what the script's strings and comments *)
(* presuppose, no more.                                                    *)
(*                                                                         *)
(* Text is a token per thing the script looks for.  It takes for a prompt  *)
(* any output that contains "litex" and ">", wherever they are, and other  *)
(* text contains them too: a BIOS's banner, the log of a running system.   *)
(* `chatter' is which of the two this board's other text contains.         *)
(*                                                                         *)
(* The script tests `recent' only for containment, so it is a set.  Enough *)
(* text to push what was read before out of `recent' is a token "text"; a  *)
(* chunk read is at most as long as `recent', so none of it is lost.       *)
(* The elapsed time is left open: a probe may be due at any iteration, the *)
(* deadline may pass at any iteration of a run that is not timely.         *)
(***************************************************************************)
EXTENDS Integers, Sequences, Functions

CONSTANTS InitialBoard,  \* states the board may be in when the script starts
          Chatters,      \* values of `chatter'
          Timeliness,    \* values of `timely'
          MaxResets,     \* bound: times the reset button is pressed
          MaxLine        \* bound: tokens under way in each direction

\* What the script looks for in a prompt, and what the BIOS prints as one.
PromptStrings == {"litex", ">"}
Prompt        == <<"litex", ">">>

ASSUME HandshakeAssumption ==
    /\ InitialBoard \subseteq {"boot", "prompt", "sd"}
    /\ Chatters \subseteq SUBSET PromptStrings
    /\ Timeliness \subseteq BOOLEAN
    /\ MaxResets \in Nat
    /\ MaxLine \in Nat

VARIABLES
    (* script *)
    pc,          \* "wait", "upload" (returned) or "timedout" (raised)
    prompted,    \* the boot menu has been seen
    commandSent, \* serialboot has been typed
    cancelled,   \* cancelled_auto_serial
    recent,      \* tokens in the recent output
    (* UART *)
    toBoard,     \* tokens typed: "CR", "Q", "serialboot", "magicAck"
    toHost,      \* tokens printed: "menu", "magic", "litex", ">", "text"
    (* board *)
    board,       \* "boot", "menu", "auto", "prompt", "explicit", "sfl", "sd"
    typed,       \* the prompt's line holds characters already
    resets,
    chatter,     \* the strings of a prompt that its other text contains
    (* history *)
    misled,      \* serialboot was not typed at a prompt, or it was undone
    stale,       \* a reset undid it, or found part of a prompt not yet acted on
    (* time *)
    timely       \* neither the script's deadline nor the BIOS's wait for the
                 \* ACK of an explicit serialboot ever passes

script == <<pc, prompted, commandSent, cancelled, recent>>
bios   == <<board, typed, resets, chatter>>
told   == <<misled, stale>>
vars   == <<script, toBoard, toHost, bios, told, timely>>

Init ==
    /\ pc = "wait"
    /\ prompted = FALSE /\ commandSent = FALSE /\ cancelled = FALSE
    /\ recent = {}
    /\ toBoard = <<"CR">>                  \* the kick before the loop
    /\ toHost = <<>>
    /\ board \in InitialBoard
    /\ typed \in IF board = "prompt" THEN BOOLEAN ELSE {FALSE}
    /\ resets = 0 /\ chatter \in Chatters
    /\ misled = FALSE /\ stale = FALSE
    /\ timely \in Timeliness

-----------------------------------------------------------------------------
(* Script: one iteration of the loop.  `seen' is recent after read_some,    *)
(* `keys' what this iteration has typed so far.                             *)

\* Mutant: every magic is cancelled, the one of the typed serialboot too.
CancelAutoBoot_Always(seen, keys) ==
    /\ "magic" \in seen
    /\ toBoard' = toBoard \o (IF keys # <<>> \/ cancelled THEN keys ELSE <<"Q">>)
    /\ cancelled' = TRUE
    /\ recent' = {}
    /\ UNCHANGED <<pc, commandSent, misled>>

\* The magic of the automatic boot: cancel it, forget the output, go round.
CancelAutoBoot(seen, keys) ==
    /\ "magic" \in seen
    /\ ~ commandSent
    /\ toBoard' = toBoard \o (IF keys # <<>> \/ cancelled THEN keys ELSE <<"Q">>)
    /\ cancelled' = TRUE
    /\ recent' = {}
    /\ UNCHANGED <<pc, commandSent, misled>>

\* Mutant: any magic is answered.
AckMagic_Any(seen, keys) ==
    /\ "magic" \in seen
    /\ toBoard' = toBoard \o keys \o <<"magicAck">>
    /\ pc' = "upload"
    /\ recent' = seen
    /\ cancelled' = (cancelled \/ keys # <<>>)
    /\ UNCHANGED <<commandSent, misled>>

\* The magic of the serialboot that was typed: answer it and return.
AckMagic(seen, keys) ==
    /\ "magic" \in seen
    /\ commandSent
    /\ toBoard' = toBoard \o keys \o <<"magicAck">>
    /\ pc' = "upload"
    /\ recent' = seen
    /\ cancelled' = (cancelled \/ keys # <<>>)
    /\ UNCHANGED <<commandSent, misled>>

\* The board is at its prompt, and nothing older is still to be read.
AtPrompt == board = "prompt" /\ Range(toHost') \cap {"menu", "magic"} = {}

\* Mutant: either string is taken for the prompt.
TypeSerialboot_Either(seen, keys) ==
    /\ "magic" \notin seen
    /\ PromptStrings \cap seen # {} /\ ~ commandSent
    /\ toBoard' = toBoard \o keys \o <<"serialboot">>
    /\ commandSent' = TRUE
    /\ recent' = {}
    /\ cancelled' = (cancelled \/ keys # <<>>)
    /\ misled' = ~ AtPrompt
    /\ UNCHANGED pc

\* What is taken for the prompt: type serialboot.
TypeSerialboot(seen, keys) ==
    /\ "magic" \notin seen
    /\ PromptStrings \subseteq seen /\ ~ commandSent
    /\ toBoard' = toBoard \o keys \o <<"serialboot">>
    /\ commandSent' = TRUE
    /\ recent' = {}
    /\ cancelled' = (cancelled \/ keys # <<>>)
    /\ misled' = ~ AtPrompt
    /\ UNCHANGED pc

\* Neither: type a carriage return if one is due and the menu was not seen.
Poll(seen, keys) ==
    /\ "magic" \notin seen
    /\ ~ PromptStrings \subseteq seen \/ commandSent
    /\ recent' = seen
    /\ \/ toBoard' = toBoard \o keys
       \/ /\ ~ commandSent /\ ~ prompted'
          /\ Len(toBoard) < MaxLine
          /\ toBoard' = toBoard \o keys \o <<"CR">>
    /\ cancelled' = (cancelled \/ keys # <<>>)
    /\ UNCHANGED <<pc, commandSent, misled>>

\* `recent' after n more tokens.
Record(n) ==
    LET read == Range(SubSeq(toHost, 1, n))
    IN  IF "text" \in read THEN read \ {"text"} ELSE recent \cup read

Iterate(n) ==
    LET seen == Record(n)
        keys == IF "menu" \in seen /\ ~ prompted THEN <<"Q">> ELSE <<>>
    IN  /\ pc = "wait"
        /\ toHost' = SubSeq(toHost, n + 1, Len(toHost))
        /\ prompted' = (prompted \/ keys # <<>>)
        /\ \/ CancelAutoBoot(seen, keys)
           \/ AckMagic(seen, keys)
           \/ TypeSerialboot(seen, keys)
           \/ Poll(seen, keys)
        /\ UNCHANGED <<bios, stale, timely>>

\* The loop's deadline passes: TimeoutError.
Deadline ==
    /\ pc = "wait"
    /\ ~ timely
    /\ pc' = "timedout"
    /\ UNCHANGED <<prompted, commandSent, cancelled, recent, toBoard, toHost, bios, told, timely>>

-----------------------------------------------------------------------------
(* Board (external) *)

Goto(state, printed) ==
    /\ board' = state
    /\ typed' = FALSE
    /\ toHost' = toHost \o printed
    /\ UNCHANGED <<script, resets, chatter, told, timely>>

\* The boot sequence: a menu where the BIOS has one, then the automatic
\* serial boot, then the SD card, or the prompt when that fails.
BootSequence ==
    /\ UNCHANGED toBoard
    /\ \/ board = "boot" /\ Goto("menu", <<"menu">>)
       \/ board \in {"boot", "menu"} /\ Goto("auto", <<"magic">>)
       \/ board = "auto" /\ Goto("sd", <<>>)
       \/ board = "auto" /\ Goto("prompt", Prompt)

\* Its other text: the banner and the messages of the boot sequence, the log
\* of the system it starts.  (A command's messages come after the script has
\* seen a prompt for the last time.)
Chat ==
    /\ board \in {"boot", "menu", "auto", "sd"}
    /\ Len(toHost) < MaxLine
    /\ \E t \in chatter \cup {"text"} :
          /\ toHost # <<>> => toHost[Len(toHost)] # t
          /\ toHost' = Append(toHost, t)
    /\ UNCHANGED <<script, toBoard, bios, told, timely>>

\* The serialboot command stops waiting for its ACK.
ExplicitTimeout ==
    /\ board = "explicit"
    /\ ~ timely
    /\ Goto("prompt", Prompt)
    /\ UNCHANGED toBoard

\* The next key reaches the board.
TakeKey == /\ toBoard # <<>>
           /\ Len(toHost) < MaxLine
           /\ toBoard' = Tail(toBoard)

Ignore == UNCHANGED <<script, toHost, bios, told, timely>>

\* At the prompt a line already begun spoils the command.
KeyAtPrompt(key) ==
    /\ board = "prompt"
    /\ \/ key = "serialboot" /\ ~ typed /\ Goto("explicit", <<"magic">>)
       \/ key = "serialboot" /\ typed /\ Goto("prompt", Prompt)
       \/ key \in {"CR", "magicAck"} /\ Goto("prompt", Prompt)
       \/ /\ key = "Q"
          /\ typed' = TRUE
          /\ UNCHANGED <<script, toHost, board, resets, chatter, told, timely>>

\* While the BIOS waits, Q cancels, and the ACK is taken if there was a magic.
KeyWhileWaiting(key) ==
    /\ board \in {"menu", "auto", "explicit"}
    /\ \/ key = "Q" /\ Goto("prompt", Prompt)
       \/ key = "magicAck" /\ board # "menu" /\ Goto("sfl", <<>>)
       \/ key = "magicAck" /\ board = "menu" /\ Ignore
       \/ key \in {"CR", "serialboot"} /\ Ignore

ReadKey ==
    /\ TakeKey
    /\ \/ KeyAtPrompt(Head(toBoard))
       \/ KeyWhileWaiting(Head(toBoard))
       \/ board = "sd" /\ Ignore

\* The reset button, which the documentation asks for before a new attempt.
Reset ==
    /\ resets < MaxResets
    /\ resets' = resets + 1
    /\ board' = "boot" /\ typed' = FALSE
    /\ toBoard' = <<>>
    /\ misled' = (misled \/ commandSent)
    /\ stale' = (stale \/ commandSent
                     \/ (PromptStrings \ chatter) \cap (recent \cup Range(toHost)) # {})
    /\ UNCHANGED <<script, toHost, chatter, timely>>

Settled == (pc # "wait" \/ board \in {"sfl", "sd"}) /\ UNCHANGED vars

Next == \/ \E n \in 0..Len(toHost) : Iterate(n)
        \/ Deadline
        \/ BootSequence \/ Chat \/ ExplicitTimeout \/ ReadKey \/ Reset
        \/ Settled

Spec == Init /\ [][Next]_vars

\* The script keeps reading all there is, and probes again and again; the
\* board reads its UART and does not stay in a step of its boot sequence.
ReadAll == Iterate(Len(toHost))
Probe   == ReadAll /\ Len(toBoard') > Len(toBoard)

Fairness == WF_vars(ReadAll) /\ WF_vars(Probe) /\ WF_vars(ReadKey) /\ WF_vars(BootSequence)

FairSpec == Spec /\ Fairness

-----------------------------------------------------------------------------
(***************************************************************************)
(* The loader is never entered from the automatic boot attempt: its magic  *)
(* is not ACKed, whatever is still buffered in either direction.           *)
(***************************************************************************)
AutoNeverAcked == [][board = "auto" => board' # "sfl"]_vars

(***************************************************************************)
(* The script types serialboot only at a prompt, and no reset undoes it,   *)
(* but in two cases: a reset comes when the command has been typed or when *)
(* part of a prompt is still to be acted on, or the board's other text has *)
(* both strings that the script takes for a prompt.                        *)
(***************************************************************************)
MisledOnlyIfStaleOrChatty == misled => stale \/ PromptStrings \subseteq chatter

(***************************************************************************)
(* An automatic boot is ACKed only then: a serialboot typed at a prompt    *)
(* and not undone has its own magic answered, and none typed has none.     *)
(***************************************************************************)
AutoAckedOnlyIfMisled == [][board = "auto" /\ board' = "sfl" => misled]_vars

(***************************************************************************)
(* The script never returns to its uploader while the board has gone on to *)
(* boot from SD, unless it was misled: no frame is in flight to a system   *)
(* that reads it as input.                                                 *)
(***************************************************************************)
NoFramesIntoSdBoot == ~ misled /\ pc = "upload" => board # "sd"

(***************************************************************************)
(* When nobody runs out of time, a script that was not misled returns only *)
(* to a board that is in the loader, or about to read the ACK that puts it *)
(* there.                                                                  *)
(***************************************************************************)
FramesOnlyToLoader ==
    timely /\ ~ misled /\ pc = "upload" =>
        board = "sfl" \/ (board = "explicit" /\ "magicAck" \in Range(toBoard))

(***************************************************************************)
(* From a board idle at the prompt, with an empty or a half-typed line,    *)
(* the script gets it into the loader when no wait runs out and nobody     *)
(* resets it.                                                              *)
(***************************************************************************)
ReachesLoader ==
    timely /\ board = "prompt" /\ [](resets = 0) => <>(pc = "upload" /\ board = "sfl")

(***************************************************************************)
(* A board that missed having its menu seen, and sits at a prompt, is      *)
(* brought into the loader by the probes.                                  *)
(***************************************************************************)
PromptWorks == (board = "prompt" /\ ~ prompted /\ pc = "wait") ~> (board = "sfl")
==============================================================================
