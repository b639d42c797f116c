------------------------------ MODULE SflImages ------------------------------
(***************************************************************************)
(* The image list of a serial boot: what load_images reads from the JSON   *)
(* file and main walks in order.  An image is its load address and its     *)
(* number of SFL data chunks; the unit of address is one chunk, and a      *)
(* chunk is named <<image, position>> instead of by its bytes.             *)
(***************************************************************************)
EXTENDS Integers, Sequences

CONSTANT Images     \* sequence of [base : Nat, len : Nat], in JSON order

\* load_images rejects an empty list.  A file may be empty (len = 0), and
\* nothing in the code keeps two images from overlapping.
ASSUME ImagesAssumption ==
    /\ Images \in Seq([base : Nat, len : Nat])
    /\ Images # <<>>

NImages == Len(Images)

\* The address load_images returns beside the list: images[-1][1].
JumpAddress == Images[NImages].base

InImage(i, a) == /\ Images[i].base <= a
                 /\ a < Images[i].base + Images[i].len

\* The chunk that image i puts at address a.
ChunkAt(i, a) == <<i, a - Images[i].base + 1>>

Addr == UNION {Images[i].base .. Images[i].base + Images[i].len - 1 :
                 i \in 1..NImages}

\* Memory the boot has not written.
Blank == <<0, 0>>

Chunk == (1..NImages) \X (Nat \ {0})

\* v is what address a holds once the first n images are in memory: the chunk
\* of the last of them that covers a, or still Blank.
Latest(n, a, v) ==
    \/ /\ v = Blank
       /\ \A i \in 1..n : ~ InImage(i, a)
    \/ \E i \in 1..n :
          /\ InImage(i, a)
          /\ v = ChunkAt(i, a)
          /\ \A j \in i+1..n : ~ InImage(j, a)
==============================================================================
