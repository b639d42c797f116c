------------------------------ MODULE ImageLoad ------------------------------
(***************************************************************************)
(* What booting over serial promises, with no frames, windows, replies or  *)
(* retries: images reach memory one after the other, in list order; the    *)
(* board starts only when all of them are there; the host believes the     *)
(* board started only if it did; and the host may give up at any time.     *)
(***************************************************************************)
EXTENDS SflImages

VARIABLES memory,   \* what each address holds
          loaded,   \* number of images that are complete
          host,     \* "loading", "console", "ok" or "failed"
          board     \* "loader" or "running"

vars == <<memory, loaded, host, board>>

\* Memory holds chunks of the images, and the phases are the four named ones.
TypeOK == /\ memory \in [Addr -> Chunk \cup {Blank}]
          /\ loaded \in 0..NImages
          /\ host \in {"loading", "console", "ok", "failed"}
          /\ board \in {"loader", "running"}

Init == /\ memory = [a \in Addr |-> Blank]
        /\ loaded = 0
        /\ host = "loading"
        /\ board = "loader"

\* One chunk of the image being loaded arrives; the order is free, and it may
\* still happen when the host has given up.
Store(a) ==
    /\ board = "loader"
    /\ loaded < NImages
    /\ InImage(loaded + 1, a)
    /\ memory' = [memory EXCEPT ![a] = ChunkAt(loaded + 1, a)]
    /\ UNCHANGED <<loaded, host, board>>

FinishImage ==
    /\ host = "loading"
    /\ loaded < NImages
    /\ \A a \in Addr : InImage(loaded + 1, a) => memory[a] = ChunkAt(loaded + 1, a)
    /\ loaded' = loaded + 1
    /\ UNCHANGED <<memory, host, board>>

Boot ==
    /\ board = "loader"
    /\ loaded = NImages
    /\ board' = "running"
    /\ UNCHANGED <<memory, loaded, host>>

Confirm ==
    /\ host = "loading"
    /\ board = "running"
    /\ host' = "console"
    /\ UNCHANGED <<memory, loaded, board>>

Succeed ==
    /\ host = "console"
    /\ host' = "ok"
    /\ UNCHANGED <<memory, loaded, board>>

GiveUp ==
    /\ host \in {"loading", "console"}
    /\ host' = "failed"
    /\ UNCHANGED <<memory, loaded, board>>

Next == \/ \E a \in Addr : Store(a)
        \/ FinishImage
        \/ Boot
        \/ Confirm
        \/ Succeed
        \/ GiveUp

Spec == Init /\ [][Next]_vars

-----------------------------------------------------------------------------
(***************************************************************************)
(* A running board finds, at every address, the chunk of the last image in *)
(* list order that covers it: no chunk is missing, none is from an image   *)
(* that a later one was to overwrite.                                      *)
(***************************************************************************)
RunsWhatWasLoaded ==
    board = "running" => \A a \in Addr : Latest(NImages, a, memory[a])

(***************************************************************************)
(* The strengthening that is inductive: before the board runs, an address  *)
(* of the image being loaded holds that image's chunk or what the earlier  *)
(* images left, and every other address what the earlier images left.      *)
(***************************************************************************)
LoadProgress ==
    \A a \in Addr :
       \/ Latest(loaded, a, memory[a])
       \/ /\ loaded < NImages
          /\ InImage(loaded + 1, a)
          /\ memory[a] = ChunkAt(loaded + 1, a)

RunsComplete == board = "running" => loaded = NImages
==============================================================================
