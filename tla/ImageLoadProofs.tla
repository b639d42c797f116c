--------------------------- MODULE ImageLoadProofs ---------------------------
(***************************************************************************)
(* Proofs about ImageLoad, for every image list.                           *)
(***************************************************************************)
EXTENDS ImageLoad, TLAPS

\* load_images refuses an empty list: there is at least one image.
LEMMA NImagesNat == NImages \in Nat \ {0}
  BY ImagesAssumption DEF NImages, ImagesAssumption

\* An image of the list has a natural load address and length.
LEMMA ImageFields ==
  ASSUME NEW i \in 1..NImages
  PROVE  /\ Images[i].base \in Nat
         /\ Images[i].len \in Nat
<1> DEFINE R == [base : Nat, len : Nat]
<1>1. Images \in Seq(R)
  BY ImagesAssumption
<1>2. Images[i] \in R
  <2> HIDE DEF R
  <2> QED BY <1>1 DEF NImages
<1> QED BY <1>2

\* Addresses are naturals.
LEMMA AddrNat == Addr \subseteq Nat
  BY ImageFields DEF Addr

\* The chunk an image puts at one of its addresses is a chunk.
LEMMA ChunkAtType ==
  ASSUME NEW i \in 1..NImages, NEW a \in Addr, InImage(i, a)
  PROVE  ChunkAt(i, a) \in Chunk
  BY NImagesNat, ImageFields, AddrNat DEF ChunkAt, Chunk, InImage

\* When image n + 1 is complete, the value it gives an address is the latest.
LEMMA LatestCovered ==
  ASSUME NEW n \in Nat, NEW a \in Addr, InImage(n + 1, a)
  PROVE  Latest(n + 1, a, ChunkAt(n + 1, a))
  BY DEF Latest

\* An address outside image n + 1 keeps what the first n images left.
LEMMA LatestKept ==
  ASSUME NEW n \in Nat, NEW a \in Addr, NEW v, Latest(n, a, v), ~ InImage(n + 1, a)
  PROVE  Latest(n + 1, a, v)
<1>1. CASE v = Blank /\ \A i \in 1..n : ~ InImage(i, a)
  <2>1. \A i \in 1..n + 1 : i \in 1..n \/ i = n + 1
    OBVIOUS
  <2> QED BY <1>1, <2>1 DEF Latest
<1>2. CASE \E i \in 1..n : /\ InImage(i, a)
                           /\ v = ChunkAt(i, a)
                           /\ \A j \in i+1..n : ~ InImage(j, a)
  <2>1. PICK i \in 1..n : /\ InImage(i, a)
                          /\ v = ChunkAt(i, a)
                          /\ \A j \in i+1..n : ~ InImage(j, a)
    BY <1>2
  <2>2. i \in 1..n + 1 /\ \A j \in i+1..n+1 : j \in i+1..n \/ j = n + 1
    OBVIOUS
  <2> QED BY <2>1, <2>2 DEF Latest
<1> QED BY <1>1, <1>2 DEF Latest

-----------------------------------------------------------------------------
\* Before any image is loaded, blank is what every address holds.
LEMMA InitLatest ==
  ASSUME NEW a \in Addr
  PROVE  Latest(0, a, Blank)
  BY DEF Latest

(***************************************************************************)
(* Every variable of the abstract load keeps its type: memory only ever    *)
(* holds chunks of the listed images.                                      *)
(***************************************************************************)
THEOREM TypeInvariant == Spec => []TypeOK
<1>1. Init => TypeOK
  BY NImagesNat DEF Init, TypeOK
<1>2. TypeOK /\ [Next]_vars => TypeOK'
  <2> SUFFICES ASSUME TypeOK, [Next]_vars PROVE TypeOK'
    OBVIOUS
  <2>1. ASSUME NEW a \in Addr, Store(a) PROVE TypeOK'
    <3>1. loaded + 1 \in 1..NImages
      BY <2>1, NImagesNat DEF Store, TypeOK
    <3>2. ChunkAt(loaded + 1, a) \in Chunk
      BY <2>1, <3>1, ChunkAtType DEF Store
    <3> QED BY <2>1, <3>2 DEF Store, TypeOK
  <2>2. CASE FinishImage
    BY <2>2, NImagesNat DEF FinishImage, TypeOK
  <2>3. CASE Boot \/ Confirm \/ Succeed \/ GiveUp
    BY <2>3 DEF Boot, Confirm, Succeed, GiveUp, TypeOK
  <2>4. CASE UNCHANGED vars
    BY <2>4 DEF vars, TypeOK
  <2> QED BY <2>1, <2>2, <2>3, <2>4 DEF Next
<1> QED BY <1>1, <1>2, PTL DEF Spec

(***************************************************************************)
(* Whatever the number, sizes and addresses of the images, a board that    *)
(* runs finds the latest chunk at every address.                           *)
(***************************************************************************)
THEOREM BootsOnLatest == Spec => []RunsWhatWasLoaded
<1> DEFINE Inv == LoadProgress /\ RunsComplete
<1>1. Init => Inv
  BY InitLatest DEF Init, LoadProgress, RunsComplete
<1>2. TypeOK /\ Inv /\ [Next]_vars => Inv'
  <2> SUFFICES ASSUME TypeOK, Inv, [Next]_vars PROVE Inv'
    OBVIOUS
  <2>1. ASSUME NEW a \in Addr, Store(a) PROVE Inv'
    <3>1. \A b \in Addr \ {a} : memory'[b] = memory[b]
      BY <2>1 DEF Store, TypeOK
    <3>2. memory'[a] = ChunkAt(loaded + 1, a)
      BY <2>1 DEF Store, TypeOK
    <3>3. LoadProgress'
      BY <2>1, <3>1, <3>2 DEF Store, LoadProgress
    <3> QED BY <2>1, <3>3 DEF Store, RunsComplete
  <2>2. CASE FinishImage
    <3>1. loaded \in Nat /\ loaded' = loaded + 1
      BY <2>2, NImagesNat DEF FinishImage, TypeOK
    <3>2. ASSUME NEW a \in Addr PROVE Latest(loaded + 1, a, memory[a])
      <4>1. CASE InImage(loaded + 1, a)
        BY <2>2, <3>1, <4>1, LatestCovered DEF FinishImage
      <4>2. CASE ~ InImage(loaded + 1, a)
        BY <3>1, <4>2, LatestKept DEF LoadProgress
      <4> QED BY <4>1, <4>2
    <3>3. LoadProgress'
      BY <2>2, <3>1, <3>2 DEF FinishImage, LoadProgress
    <3> QED BY <2>2, <3>1, <3>3, NImagesNat DEF FinishImage, RunsComplete
  <2>3. CASE Boot \/ Confirm \/ Succeed \/ GiveUp
    BY <2>3 DEF Boot, Confirm, Succeed, GiveUp, LoadProgress, RunsComplete
  <2>4. CASE UNCHANGED vars
    BY <2>4 DEF vars, LoadProgress, RunsComplete
  <2> QED BY <2>1, <2>2, <2>3, <2>4 DEF Next
<1>3. TypeOK /\ Inv => RunsWhatWasLoaded
  BY NImagesNat DEF TypeOK, LoadProgress, RunsComplete, RunsWhatWasLoaded
<1> QED BY <1>1, <1>2, <1>3, TypeInvariant, PTL DEF Spec
==============================================================================
