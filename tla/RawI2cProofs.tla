---------------------------- MODULE RawI2cProofs -----------------------------
(***************************************************************************)
(* For any address, any sensor and registers, and any number of kills: a   *)
(* reading that nobody was killed before, or that follows a good one,      *)
(* reads what it asked for, leaves the bus idle, puts no condition inside  *)
(* a byte and writes no register; and after any kills a reading that       *)
(* counts as good has the temperature's registers right.                   *)
(*                                                                         *)
(* What the process does next depends on its place in Program alone, and   *)
(* as long as nobody kills it that place also tells what the pins are and  *)
(* what the sensor is doing: its mode, the clocks of the byte under way    *)
(* and the bits taken of it. Where says so, piece by piece (a start, a bit *)
(* written, an acknowledge, a bit read, ...), each at any offset o into    *)
(* Program.                                                                *)
(*                                                                         *)
(* After a kill the sensor may be anywhere in a byte, with the line pulled *)
(* low, and take the next start and address for clocks of that byte. Sound *)
(* says what it can be doing at all, and Astray where the process may be.  *)
(* A byte and its acknowledge are as many clocks as the sensor's own byte, *)
(* so a 0 read as the acknowledge tells where in its byte the sensor was   *)
(* when the write began, and is again when it ends (Clocked, Pulled). So   *)
(* read_reg's second start is seen, or the line is let go for a whole byte *)
(* while a sending sensor passes its acknowledge clock, which tells it to  *)
(* stop: the second read_reg begins on an idle bus, and Where holds from   *)
(* there.                                                                  *)
(*                                                                         *)
(* Where a piece lies is known from FlattenSeq, whose recursive function   *)
(* is followed by least counterexample; the lemmas of the first two parts  *)
(* turn it into plain positions.                                           *)
(***************************************************************************)
EXTENDS RawI2c, FiniteSetTheorems, SequenceTheorems, TLAPS

-----------------------------------------------------------------------------
(* Sequences put together *)

\* A set of naturals that is not empty has a least element.
LEMMA LeastElement ==
  ASSUME NEW C, C \subseteq Nat, C # {}
  PROVE  \E x \in C : \A y \in C : x <= y
<1> DEFINE F == {C \cap 0..m : m \in C}
<1>1. F \subseteq FiniteSubsetsOf(Nat)
  <2>1. ASSUME NEW m \in C PROVE C \cap 0..m \in FiniteSubsetsOf(Nat)
    <3>1. IsFiniteSet(0..m)
      BY FS_Interval
    <3>2. IsFiniteSet(C \cap 0..m)
      BY <3>1, FS_Subset
    <3> QED BY <3>2 DEF FiniteSubsetsOf
  <2> QED BY <2>1
<1>2. F # {}
  OBVIOUS
<1>3. PICK U \in F : \A V \in F : ~ (<<V, U>> \in StrictSubsetOrdering(Nat))
  BY <1>1, <1>2, FS_StrictSubsetOrderingWellFounded, WFMin
<1>4. PICK x \in C : U = C \cap 0..x
  OBVIOUS
<1>5. ASSUME NEW y \in C PROVE x <= y
  <2>1. SUFFICES ASSUME y < x PROVE FALSE
    OBVIOUS
  <2>2. C \cap 0..y \in F /\ C \cap 0..y \subseteq U /\ x \in U /\ x \notin 0..y
    BY <1>4, <2>1
  <2>3. <<C \cap 0..y, U>> \in StrictSubsetOrdering(Nat)
    BY <2>2, <1>4 DEF StrictSubsetOrdering
  <2> QED BY <1>3, <2>2, <2>3
<1> QED BY <1>5

\* Induction from 1 to n, for a set: one that holds 1, and k with k - 1, has
\* no least counterexample.
LEMMA UpTo ==
  ASSUME NEW n \in Nat, NEW G, 1 \in G,
         \A k \in 2..n : k - 1 \in G => k \in G
  PROVE  1..n \subseteq G
<1> DEFINE C == (1..n) \ G
<1>1. SUFFICES ASSUME C # {} PROVE FALSE
  OBVIOUS
<1>2. PICK x \in C : \A y \in C : x <= y
  <2>1. C \subseteq Nat
    OBVIOUS
  <2> HIDE DEF C
  <2> QED BY <1>1, <2>1, LeastElement
<1>3. x \in 2..n /\ x - 1 \in 1..n
  OBVIOUS
<1>4. x - 1 \in G
  BY <1>2, <1>3
<1> QED BY <1>3, <1>4

\* The function by which FlattenSeq is defined exists: a beginning of it can
\* be continued.
Flattens(f, seqs, k) ==
    f = [i \in 1..k |-> IF i = 1 THEN seqs[i] ELSE f[i - 1] \o seqs[i]]

LEMMA FlattensExists ==
  ASSUME NEW S, NEW seqs \in Seq(Seq(S)), Len(seqs) >= 1
  PROVE  \E f : Flattens(f, seqs, Len(seqs))
<1> DEFINE n == Len(seqs)
           G == {k \in 1..n : \E f : Flattens(f, seqs, k)}
<1>0. n \in Nat /\ n >= 1
  OBVIOUS
<1>1. 1 \in G
  <2>1. Flattens([i \in 1..1 |-> seqs[1]], seqs, 1)
    BY DEF Flattens
  <2> QED BY <2>1
<1>2. ASSUME NEW k \in 2..n, k - 1 \in G PROVE k \in G
  <2>1. PICK f : Flattens(f, seqs, k - 1)
    BY <1>2
  <2> DEFINE h == [i \in 1..k |-> IF i < k THEN f[i] ELSE f[k - 1] \o seqs[k]]
  <2>2. f = [i \in 1..k - 1 |-> IF i = 1 THEN seqs[i] ELSE f[i - 1] \o seqs[i]]
    BY <2>1 DEF Flattens
  <2>3. ASSUME NEW i \in 1..k
        PROVE  h[i] = IF i = 1 THEN seqs[i] ELSE h[i - 1] \o seqs[i]
    <3>1. CASE i = k
      BY <3>1, <1>0
    <3>2. CASE i < k
      <4>1. i \in 1..k - 1
        BY <3>2, <1>0
      <4>2. h[i] = f[i] /\ (i # 1 => h[i - 1] = f[i - 1])
        BY <3>2, <4>1, <1>0
      <4>3. f[i] = IF i = 1 THEN seqs[i] ELSE f[i - 1] \o seqs[i]
        BY <2>2, <4>1
      <4> QED BY <4>2, <4>3
    <3> QED BY <3>1, <3>2, <1>0
  <2>4. h = [i \in 1..k |-> IF i = 1 THEN seqs[i] ELSE h[i - 1] \o seqs[i]]
    <3>1. h = [i \in 1..k |-> h[i]]
      OBVIOUS
    <3> HIDE DEF h
    <3> QED BY <2>3, <3>1
  <2> HIDE DEF h
  <2>5. Flattens(h, seqs, k)
    BY <2>4 DEF Flattens
  <2>6. k \in 1..n
    BY <1>0
  <2> QED BY <2>5, <2>6
<1>3. 1..n \subseteq G
  <2> HIDE DEF G, n
  <2> QED BY <1>0, <1>1, <1>2, UpTo
<1> QED BY <1>0, <1>3

\* FlattenSeq is the last value of such a function.
LEMMA FlattenSeqFlattens ==
  ASSUME NEW S, NEW seqs \in Seq(Seq(S)), Len(seqs) >= 1
  PROVE  \E f : Flattens(f, seqs, Len(seqs)) /\ FlattenSeq(seqs) = f[Len(seqs)]
<1> DEFINE flatten[i \in 1..Len(seqs)] ==
              IF i = 1 THEN seqs[i] ELSE flatten[i - 1] \o seqs[i]
<1>1. FlattenSeq(seqs) = flatten[Len(seqs)]
  BY DEF FlattenSeq
<1>2. \E f : f = [i \in 1..Len(seqs) |-> IF i = 1 THEN seqs[i] ELSE f[i - 1] \o seqs[i]]
  BY FlattensExists DEF Flattens
<1>3. flatten = [i \in 1..Len(seqs) |-> IF i = 1 THEN seqs[i] ELSE flatten[i - 1] \o seqs[i]]
  BY <1>2, Zenon
<1> HIDE DEF flatten
<1> QED BY <1>1, <1>3 DEF Flattens
\* Ends that come one after the other grow.
LEMMA EndsGrow ==
  ASSUME NEW n \in Nat, NEW ends \in [0..n -> Nat],
         \A i \in 1..n : ends[i - 1] <= ends[i]
  PROVE  \A m \in 1..n : \A u \in 1..m : ends[u] <= ends[m]
<1> DEFINE H == {m \in 1..n : \A u \in 1..m : ends[u] <= ends[m]}
<1>1. CASE n = 0
  BY <1>1
<1>2. CASE n >= 1
  <2>1. 1 \in H
    <3>1. ends[1] \in Nat /\ \A u \in 1..1 : u = 1
      BY <1>2
    <3>2. \A u \in 1..1 : ends[u] <= ends[1]
      BY <3>1
    <3> QED BY <1>2, <3>2
  <2>2. ASSUME NEW m \in 2..n, m - 1 \in H PROVE m \in H
    <3>1. ends[m - 1] <= ends[m] /\ ends[m] \in Nat /\ ends[m - 1] \in Nat /\ m \in 1..n
      OBVIOUS
    <3>2. \A u \in 1..m : (u \in 1..m - 1 \/ u = m) /\ ends[u] \in Nat
      BY <3>1
    <3>3. \A u \in 1..m - 1 : ends[u] <= ends[m - 1]
      BY <2>2
    <3>4. \A u \in 1..m : ends[u] <= ends[m]
      BY <3>1, <3>2, <3>3
    <3> QED BY <3>1, <3>4
  <2>3. 1..n \subseteq H
    <3> HIDE DEF H
    <3> QED BY <2>1, <2>2, UpTo
  <2> QED BY <2>3
<1> QED BY <1>1, <1>2

\* A place in a piece, counted from the beginning.
LEMMA PlaceInPiece ==
  ASSUME NEW a \in Nat, NEW l \in Nat, NEW m \in Nat, NEW t \in Nat, NEW j \in 1..l
  PROVE  /\ a + l <= m => a + j \in 1..m + t /\ a + j <= m
         /\ a + j - a = j
  OBVIOUS

\* Pieces of lengths that add up to ends: each is found where the ones before
\* it end.
LEMMA FlattenPieces ==
  ASSUME NEW S, NEW seqs \in Seq(Seq(S)), Len(seqs) >= 1,
         NEW ends \in [0..Len(seqs) -> Nat], ends[0] = 0,
         \A i \in 1..Len(seqs) : ends[i] = ends[i - 1] + Len(seqs[i])
  PROVE  /\ FlattenSeq(seqs) \in Seq(S)
         /\ Len(FlattenSeq(seqs)) = ends[Len(seqs)]
         /\ \A i \in 1..Len(seqs) : \A j \in 1..Len(seqs[i]) :
               FlattenSeq(seqs)[ends[i - 1] + j] = seqs[i][j]
<1> DEFINE n == Len(seqs)
<1>0. n \in Nat /\ n >= 1 /\ \A i \in 1..n : seqs[i] \in Seq(S) /\ Len(seqs[i]) \in Nat
  OBVIOUS
<1>1. PICK f : Flattens(f, seqs, n) /\ FlattenSeq(seqs) = f[n]
  BY FlattenSeqFlattens
<1>2. \A i \in 1..n : f[i] = IF i = 1 THEN seqs[i] ELSE f[i - 1] \o seqs[i]
  BY <1>1 DEF Flattens
<1> HIDE DEF n
<1>3. /\ \A i \in 0..n : ends[i] \in Nat
      /\ \A i \in 1..n : ends[i] = ends[i - 1] + Len(seqs[i]) /\ ends[i - 1] \in Nat
  <2>1. ends \in [0..n -> Nat] /\ \A i \in 1..n : ends[i] = ends[i - 1] + Len(seqs[i])
    BY DEF n
  <2>2. \A i \in 1..n : i - 1 \in 0..n
    BY <1>0
  <2> QED BY <2>1, <2>2
<1>4. \A m \in 1..n : \A u \in 1..m : ends[u] <= ends[m]
  <2>1. ASSUME NEW i \in 1..n PROVE ends[i - 1] <= ends[i]
    <3>1. ends[i] = ends[i - 1] + Len(seqs[i]) /\ ends[i - 1] \in Nat /\ Len(seqs[i]) \in Nat
      BY <1>0, <1>3
    <3> QED BY <3>1
  <2> QED BY <1>0, <2>1, EndsGrow DEF n
<1> DEFINE Found(k) == \A i \in 1..k : \A j \in 1..Len(seqs[i]) :
                          f[k][ends[i - 1] + j] = seqs[i][j]
           G == {k \in 1..n : f[k] \in Seq(S) /\ Len(f[k]) = ends[k] /\ Found(k)}
<1>5. 1 \in G
  <2>1. f[1] = seqs[1] /\ seqs[1] \in Seq(S) /\ ends[1] = Len(seqs[1])
    BY <1>0, <1>2, <1>3
  <2>2. Found(1)
    BY <1>0, <2>1
  <2> QED BY <1>0, <2>1, <2>2
<1>6. ASSUME NEW k \in 2..n, k - 1 \in G PROVE k \in G
  <2>1. k \in 1..n /\ k - 1 \in 1..n /\ k # 1
    BY <1>0
  <2>2. /\ f[k] = f[k - 1] \o seqs[k] /\ seqs[k] \in Seq(S)
        /\ ends[k] = ends[k - 1] + Len(seqs[k]) /\ ends[k - 1] \in Nat /\ Len(seqs[k]) \in Nat
    BY <1>0, <1>2, <1>3, <2>1
  <2>3. f[k - 1] \in Seq(S) /\ Len(f[k - 1]) = ends[k - 1] /\ Found(k - 1)
    BY <1>6
  <2>4. /\ f[k] \in Seq(S) /\ Len(f[k]) = ends[k]
        /\ \A x \in 1..ends[k] : f[k][x] = IF x <= ends[k - 1] THEN f[k - 1][x]
                                           ELSE seqs[k][x - ends[k - 1]]
    <3> DEFINE s == f[k - 1]
               t == seqs[k]
    <3>1. s \in Seq(S) /\ t \in Seq(S)
      BY <2>2, <2>3
    <3> HIDE DEF s, t
    <3>2. /\ s \o t \in Seq(S) /\ Len(s \o t) = Len(s) + Len(t)
          /\ \A x \in 1..Len(s) + Len(t) :
                (s \o t)[x] = IF x <= Len(s) THEN s[x] ELSE t[x - Len(s)]
      BY <3>1, ConcatProperties
    <3> QED BY <3>2, <2>2, <2>3 DEF s, t
  <2>5. ASSUME NEW i \in 1..k, NEW j \in 1..Len(seqs[i])
        PROVE  f[k][ends[i - 1] + j] = seqs[i][j]
    <3>0. j \in Nat /\ 1 <= j /\ j <= Len(seqs[i])
      BY <1>0, <2>1
    <3>1. CASE i = k
      <4>1. /\ ends[k - 1] + j \in 1..ends[k] /\ ~ (ends[k - 1] + j <= ends[k - 1])
            /\ ends[k - 1] + j - ends[k - 1] = j
        BY <3>0, <3>1, <2>2
      <4> DEFINE x == ends[k - 1] + j
      <4>2. f[k][x] = seqs[k][x - ends[k - 1]]
        <5>1. x \in 1..ends[k] /\ ~ (x <= ends[k - 1])
          BY <4>1
        <5> HIDE DEF x
        <5> QED BY <5>1, <2>4
      <4>3. x - ends[k - 1] = j
        BY <3>1, <2>2, PlaceInPiece
      <4> QED BY <3>1, <4>2, <4>3
    <3>2. CASE i < k
      <4>1. i \in 1..k - 1 /\ i \in 1..n
        BY <3>2, <2>1, <1>0
      <4>2. f[k - 1][ends[i - 1] + j] = seqs[i][j]
        BY <2>3, <4>1
      <4>3. ends[i] <= ends[k - 1]
        BY <1>4, <2>1, <4>1
      <4>4. /\ ends[i] = ends[i - 1] + Len(seqs[i]) /\ ends[i - 1] \in Nat
            /\ Len(seqs[i]) \in Nat
        BY <1>0, <1>3, <4>1
      <4>5. ends[i - 1] + j \in 1..ends[k] /\ ends[i - 1] + j <= ends[k - 1]
        <5>1. ends[i - 1] + Len(seqs[i]) <= ends[k - 1]
          BY <4>3, <4>4
        <5>2. ends[i - 1] + j \in 1..ends[k - 1] + Len(seqs[k]) /\ ends[i - 1] + j <= ends[k - 1]
          BY <4>4, <5>1, <2>2, PlaceInPiece
        <5> QED BY <5>2, <2>2
      <4> QED BY <4>2, <4>5, <2>4
    <3> QED BY <3>1, <3>2
  <2>6. Found(k)
    BY <2>5
  <2> QED BY <2>1, <2>4, <2>6
<1>7. 1..n \subseteq G
  <2> HIDE DEF G
  <2> QED BY <1>0, <1>5, <1>6, UpTo
<1>8. n \in G
  BY <1>0, <1>7
<1> QED BY <1>1, <1>8 DEF n

\* Two sequences put together: where the elements of each are found.
LEMMA ConcatElements ==
  ASSUME NEW S, NEW s \in Seq(S), NEW t \in Seq(S)
  PROVE  /\ s \o t \in Seq(S) /\ Len(s \o t) = Len(s) + Len(t)
         /\ \A j \in 1..Len(s) : (s \o t)[j] = s[j]
         /\ \A j \in 1..Len(t) : (s \o t)[Len(s) + j] = t[j]
<1>1. /\ s \o t \in Seq(S) /\ Len(s \o t) = Len(s) + Len(t)
      /\ \A j \in 1..Len(s) + Len(t) : (s \o t)[j] = IF j <= Len(s) THEN s[j] ELSE t[j - Len(s)]
  BY ConcatProperties
<1>2. Len(s) \in Nat /\ Len(t) \in Nat
  OBVIOUS
<1>3. ASSUME NEW j \in 1..Len(s) PROVE (s \o t)[j] = s[j]
  <2>1. j \in 1..Len(s) + Len(t) /\ j <= Len(s)
    BY <1>2
  <2> QED BY <1>1, <2>1
<1>4. ASSUME NEW j \in 1..Len(t) PROVE (s \o t)[Len(s) + j] = t[j]
  <2> DEFINE i == Len(s) + j
  <2>1. i \in 1..Len(s) + Len(t) /\ ~ (i <= Len(s)) /\ i - Len(s) = j
    BY <1>2
  <2> HIDE DEF i
  <2>2. (s \o t)[i] = t[j]
    BY <1>1, <2>1
  <2> QED BY <2>2 DEF i
<1> QED BY <1>1, <1>3, <1>4

-----------------------------------------------------------------------------
(* The operations of a reading *)

Operation == {"zero", "release", "low", "scl0", "scl1", "ack", "check", "bit", "close"}

WriteLen == 3 * ByteBits + 7
ReadLen  == 5 * ByteBits + 6

\* s are the operations of Program that follow the first o.
Lies(s, o) == \A j \in 1..Len(s) : Program[o + j] = s[j]

\* A part of a part.
LEMMA LiesConcat ==
  ASSUME NEW S, NEW s \in Seq(S), NEW t \in Seq(S), NEW o \in Nat, Lies(s \o t, o)
  PROVE  /\ Lies(s, o) /\ Lies(t, o + Len(s))
         /\ s \o t \in Seq(S) /\ Len(s \o t) = Len(s) + Len(t)
<1>1. Len(s) \in Nat /\ Len(t) \in Nat
  OBVIOUS
<1>2. ASSUME NEW j \in 1..Len(s) PROVE Program[o + j] = s[j]
  <2>1. j \in 1..Len(s) + Len(t)
    BY <1>1
  <2> QED BY <2>1, ConcatElements DEF Lies
<1>3. ASSUME NEW j \in 1..Len(t) PROVE Program[o + Len(s) + j] = t[j]
  <2> DEFINE i == Len(s) + j
  <2>1. i \in 1..Len(s) + Len(t) /\ o + Len(s) + j = o + i
    BY <1>1
  <2> HIDE DEF i
  <2>2. Program[o + i] = (s \o t)[i]
    BY <2>1, ConcatElements DEF Lies
  <2> QED BY <2>1, <2>2, ConcatElements DEF i
<1> QED BY <1>2, <1>3, ConcatElements DEF Lies

\* A byte has a pointer's two bits and more.
LEMMA Widths ==
  /\ AddressBits \in Nat /\ ByteBits \in Nat /\ AddressBits = ByteBits - 1 /\ ByteBits >= 3
  /\ Address \in [1..AddressBits -> {0, 1}]
  BY RawI2cAssumption DEF AddressBits, ByteBits

\* The bytes that the process writes.
LEMMA WrittenBytes ==
  /\ \A d \in {0, 1} : /\ Append(Address, d) \in Byte
                       /\ Append(Address, d)[ByteBits] = d
                       /\ \A i \in 1..AddressBits : Append(Address, d)[i] = Address[i]
  /\ \A r \in {0, 3} : Register(r) \in Byte /\ Value(Register(r)) = r
<1>1. ASSUME NEW d \in {0, 1}
      PROVE  /\ Append(Address, d) \in Byte
             /\ Append(Address, d)[ByteBits] = d
             /\ \A i \in 1..AddressBits : Append(Address, d)[i] = Address[i]
  <2>1. Address \in Seq({0, 1})
    BY RawI2cAssumption
  <2>2. /\ Append(Address, d) \in Seq({0, 1}) /\ Len(Append(Address, d)) = AddressBits + 1
        /\ \A i \in 1..Len(Address) : Append(Address, d)[i] = Address[i]
        /\ Append(Address, d)[Len(Address) + 1] = d
    BY <2>1, AppendProperties DEF AddressBits
  <2>3. Append(Address, d) \in [1..Len(Append(Address, d)) -> {0, 1}]
    BY <2>2, LenProperties
  <2> QED BY <2>2, <2>3 DEF Byte, ByteBits, AddressBits
<1>2. ASSUME NEW r \in {0, 3} PROVE Register(r) \in Byte /\ Value(Register(r)) = r
  <2>1. ByteBits \in 1..ByteBits /\ ByteBits - 1 \in 1..ByteBits /\ ByteBits # ByteBits - 1
        /\ ByteBits \in Nat
    BY Widths
  <2>2. r % 2 \in {0, 1} /\ r \div 2 \in {0, 1} /\ 2 * (r \div 2) + (r % 2) = r
    <3>1. CASE r = 0
      BY <3>1
    <3>2. CASE r = 3
      BY <3>2
    <3> QED BY <3>1, <3>2
  <2>3. /\ Register(r)[ByteBits] = r % 2
        /\ Register(r)[ByteBits - 1] = r \div 2
    BY <2>1 DEF Register
  <2>4. Register(r) \in Byte
    BY <2>1, <2>2 DEF Register, Byte
  <2> QED BY <2>2, <2>3, <2>4 DEF Value
<1> QED BY <1>1, <1>2

\* The short ones.
LEMMA ShortPieces ==
  /\ raw_i2c_init_bus \in Seq(Operation) /\ Len(raw_i2c_init_bus) = 3
  /\ raw_i2c_init_bus[1] = "zero" /\ raw_i2c_init_bus[2] = "release"
  /\ raw_i2c_init_bus[3] = "scl1"
  /\ raw_i2c_start \in Seq(Operation) /\ Len(raw_i2c_start) = 4
  /\ raw_i2c_start[1] = "release" /\ raw_i2c_start[2] = "scl1"
  /\ raw_i2c_start[3] = "low" /\ raw_i2c_start[4] = "scl0"
  /\ raw_i2c_stop \in Seq(Operation) /\ Len(raw_i2c_stop) = 3
  /\ raw_i2c_stop[1] = "low" /\ raw_i2c_stop[2] = "scl1" /\ raw_i2c_stop[3] = "release"
  /\ <<"close">> \in Seq(Operation) /\ Len(<<"close">>) = 1
  BY DEF raw_i2c_init_bus, raw_i2c_start, raw_i2c_stop, Operation

\* The operations of write_byte: three for each bit, seven for the acknowledge.
LEMMA WriteOperations ==
  ASSUME NEW byte \in Byte
  PROVE  LET w == raw_i2c_write_byte(byte) IN
         /\ w \in Seq(Operation) /\ Len(w) = WriteLen
         /\ \A b \in 1..ByteBits :
              /\ w[3 * (b - 1) + 1] = "scl0"
              /\ w[3 * (b - 1) + 2] = IF byte[b] = 1 THEN "release" ELSE "low"
              /\ w[3 * (b - 1) + 3] = "scl1"
         /\ w[3 * ByteBits + 1] = "scl0" /\ w[3 * ByteBits + 2] = "release"
         /\ w[3 * ByteBits + 3] = "scl1" /\ w[3 * ByteBits + 4] = "release"
         /\ w[3 * ByteBits + 5] = "ack" /\ w[3 * ByteBits + 6] = "scl0"
         /\ w[3 * ByteBits + 7] = "check"
<1> DEFINE clock(b) == <<"scl0", IF byte[b] = 1 THEN "release" ELSE "low", "scl1">>
           clocks == [b \in 1..ByteBits |-> clock(b)]
           tail == <<"scl0", "release", "scl1", "release", "ack", "scl0", "check">>
           head == FlattenSeq(clocks)
           w == raw_i2c_write_byte(byte)
           ends == [i \in 0..ByteBits |-> 3 * i]
<1>1. ASSUME NEW b \in 1..ByteBits
      PROVE  /\ clock(b) \in Seq(Operation) /\ Len(clock(b)) = 3
             /\ clock(b)[1] = "scl0" /\ clock(b)[3] = "scl1"
             /\ clock(b)[2] = IF byte[b] = 1 THEN "release" ELSE "low"
  BY DEF Operation
<1> HIDE DEF clock
<1>2. clocks \in Seq(Seq(Operation)) /\ Len(clocks) = ByteBits /\ ByteBits >= 1 /\ ByteBits \in Nat
  BY <1>1, Widths
<1>3. \A b \in 1..ByteBits : clocks[b] = clock(b)
  OBVIOUS
<1> HIDE DEF clocks
<1>4. /\ ends \in [0..Len(clocks) -> Nat] /\ ends[0] = 0
      /\ \A i \in 1..Len(clocks) : ends[i] = ends[i - 1] + Len(clocks[i])
  <2>1. ends \in [0..ByteBits -> Nat] /\ ends[0] = 0
    BY <1>2
  <2>2. \A i \in 1..ByteBits : ends[i] = 3 * i /\ ends[i - 1] = 3 * (i - 1) /\ Len(clocks[i]) = 3
    BY <1>1, <1>2, <1>3
  <2>3. \A i \in 1..ByteBits : 3 * i = 3 * (i - 1) + 3
    BY <1>2
  <2> HIDE DEF ends
  <2> QED BY <1>2, <2>1, <2>2, <2>3
<1>5. /\ head \in Seq(Operation) /\ Len(head) = ends[ByteBits]
      /\ \A i \in 1..ByteBits : \A j \in 1..Len(clocks[i]) : head[ends[i - 1] + j] = clocks[i][j]
  <2> HIDE DEF ends
  <2>1. Len(clocks) >= 1
    BY <1>2
  <2>2. /\ FlattenSeq(clocks) \in Seq(Operation)
        /\ Len(FlattenSeq(clocks)) = ends[Len(clocks)]
        /\ \A i \in 1..Len(clocks) : \A j \in 1..Len(clocks[i]) :
              FlattenSeq(clocks)[ends[i - 1] + j] = clocks[i][j]
    BY <1>2, <1>4, <2>1, FlattenPieces
  <2> QED BY <1>2, <2>2
<1>6. Len(head) = 3 * ByteBits /\ \A i \in 1..ByteBits : ends[i - 1] = 3 * (i - 1)
  BY <1>2, <1>5
<1> HIDE DEF ends, head
<1>7. ASSUME NEW b \in 1..ByteBits
      PROVE  /\ head[3 * (b - 1) + 1] = "scl0"
             /\ head[3 * (b - 1) + 2] = IF byte[b] = 1 THEN "release" ELSE "low"
             /\ head[3 * (b - 1) + 3] = "scl1"
  <2>1. Len(clocks[b]) = 3 /\ 1 \in 1..3 /\ 2 \in 1..3 /\ 3 \in 1..3
    BY <1>1, <1>3
  <2>2. /\ head[ends[b - 1] + 1] = clock(b)[1] /\ head[ends[b - 1] + 2] = clock(b)[2]
        /\ head[ends[b - 1] + 3] = clock(b)[3]
    BY <1>3, <1>5, <2>1
  <2>3. ends[b - 1] = 3 * (b - 1)
    BY <1>6
  <2> QED BY <1>1, <2>2, <2>3
<1>8. /\ tail \in Seq(Operation) /\ Len(tail) = 7
      /\ tail[1] = "scl0" /\ tail[2] = "release" /\ tail[3] = "scl1" /\ tail[4] = "release"
      /\ tail[5] = "ack" /\ tail[6] = "scl0" /\ tail[7] = "check"
  BY DEF Operation
<1>9. w = head \o tail
  BY DEF raw_i2c_write_byte, head, clocks, clock
<1> HIDE DEF tail, w
<1>10. /\ w \in Seq(Operation) /\ Len(w) = 3 * ByteBits + 7
       /\ \A j \in 1..Len(head) : w[j] = head[j]
       /\ \A j \in 1..Len(tail) : w[Len(head) + j] = tail[j]
  <2>1. head \in Seq(Operation) /\ tail \in Seq(Operation)
    BY <1>5, <1>8
  <2>2. /\ head \o tail \in Seq(Operation) /\ Len(head \o tail) = Len(head) + Len(tail)
        /\ \A j \in 1..Len(head) : (head \o tail)[j] = head[j]
        /\ \A j \in 1..Len(tail) : (head \o tail)[Len(head) + j] = tail[j]
    BY <2>1, ConcatElements
  <2> QED BY <1>6, <1>8, <1>9, <2>2
<1>11. \A j \in 1..3 * ByteBits : w[j] = head[j]
  BY <1>6, <1>10
<1>12. \A k \in 1..7 : w[3 * ByteBits + k] = tail[k]
  BY <1>6, <1>8, <1>10
<1>13. \A b \in 1..ByteBits : {3 * (b - 1) + 1, 3 * (b - 1) + 2, 3 * (b - 1) + 3} \subseteq 1..3 * ByteBits
  BY <1>2
<1>14. \A b \in 1..ByteBits :
          /\ w[3 * (b - 1) + 1] = "scl0"
          /\ w[3 * (b - 1) + 2] = IF byte[b] = 1 THEN "release" ELSE "low"
          /\ w[3 * (b - 1) + 3] = "scl1"
  BY <1>7, <1>11, <1>13
<1>15. /\ w[3 * ByteBits + 1] = tail[1] /\ w[3 * ByteBits + 2] = tail[2]
       /\ w[3 * ByteBits + 3] = tail[3] /\ w[3 * ByteBits + 4] = tail[4]
       /\ w[3 * ByteBits + 5] = tail[5] /\ w[3 * ByteBits + 6] = tail[6]
       /\ w[3 * ByteBits + 7] = tail[7]
  BY <1>12
<1> QED BY <1>8, <1>10, <1>14, <1>15 DEF w, WriteLen

\* The operations of read_byte: one, five for each bit, five for the answer.
LEMMA ReadOperations ==
  ASSUME NEW ack \in BOOLEAN
  PROVE  LET r == raw_i2c_read_byte(ack) IN
         /\ r \in Seq(Operation) /\ Len(r) = ReadLen
         /\ r[1] = "release"
         /\ \A b \in 1..ByteBits :
              /\ r[5 * (b - 1) + 2] = "scl0" /\ r[5 * (b - 1) + 3] = "release"
              /\ r[5 * (b - 1) + 4] = "scl1" /\ r[5 * (b - 1) + 5] = "release"
              /\ r[5 * (b - 1) + 6] = "bit"
         /\ r[5 * ByteBits + 2] = "scl0"
         /\ r[5 * ByteBits + 3] = IF ack THEN "low" ELSE "release"
         /\ r[5 * ByteBits + 4] = "scl1" /\ r[5 * ByteBits + 5] = "scl0"
         /\ r[5 * ByteBits + 6] = "release"
<1> DEFINE clock == <<"scl0", "release", "scl1", "release", "bit">>
           clocks == [b \in 1..ByteBits |-> clock]
           first == <<"release">>
           tail == <<"scl0", IF ack THEN "low" ELSE "release", "scl1", "scl0", "release">>
           middle == FlattenSeq(clocks)
           r == raw_i2c_read_byte(ack)
           ends == [i \in 0..ByteBits |-> 5 * i]
<1>1. /\ clock \in Seq(Operation) /\ Len(clock) = 5
      /\ clock[1] = "scl0" /\ clock[2] = "release" /\ clock[3] = "scl1"
      /\ clock[4] = "release" /\ clock[5] = "bit"
  BY DEF Operation
<1>2. /\ tail \in Seq(Operation) /\ Len(tail) = 5
      /\ tail[1] = "scl0" /\ tail[2] = IF ack THEN "low" ELSE "release"
      /\ tail[3] = "scl1" /\ tail[4] = "scl0" /\ tail[5] = "release"
  BY DEF Operation
<1>3. first \in Seq(Operation) /\ Len(first) = 1 /\ first[1] = "release"
  BY DEF Operation
<1> HIDE DEF clock
<1>4. clocks \in Seq(Seq(Operation)) /\ Len(clocks) = ByteBits /\ ByteBits >= 1 /\ ByteBits \in Nat
  BY <1>1, Widths
<1>5. \A b \in 1..ByteBits : clocks[b] = clock
  OBVIOUS
<1> HIDE DEF clocks
<1>6. /\ ends \in [0..Len(clocks) -> Nat] /\ ends[0] = 0
      /\ \A i \in 1..Len(clocks) : ends[i] = ends[i - 1] + Len(clocks[i])
  <2>1. ends \in [0..ByteBits -> Nat] /\ ends[0] = 0
    BY <1>4
  <2>2. \A i \in 1..ByteBits : ends[i] = 5 * i /\ ends[i - 1] = 5 * (i - 1) /\ Len(clocks[i]) = 5
    BY <1>1, <1>4, <1>5
  <2>3. \A i \in 1..ByteBits : 5 * i = 5 * (i - 1) + 5
    BY <1>4
  <2> HIDE DEF ends
  <2> QED BY <1>4, <2>1, <2>2, <2>3
<1>7. /\ middle \in Seq(Operation) /\ Len(middle) = ends[ByteBits]
      /\ \A i \in 1..ByteBits : \A j \in 1..Len(clocks[i]) : middle[ends[i - 1] + j] = clocks[i][j]
  <2> HIDE DEF ends
  <2>1. Len(clocks) >= 1
    BY <1>4
  <2>2. /\ FlattenSeq(clocks) \in Seq(Operation)
        /\ Len(FlattenSeq(clocks)) = ends[Len(clocks)]
        /\ \A i \in 1..Len(clocks) : \A j \in 1..Len(clocks[i]) :
              FlattenSeq(clocks)[ends[i - 1] + j] = clocks[i][j]
    BY <1>4, <1>6, <2>1, FlattenPieces
  <2> QED BY <1>4, <2>2
<1>8. Len(middle) = 5 * ByteBits /\ \A i \in 1..ByteBits : ends[i - 1] = 5 * (i - 1)
  BY <1>4, <1>7
<1> HIDE DEF ends, middle
<1>9. \A b \in 1..ByteBits : \A j \in 1..5 : middle[5 * (b - 1) + j] = clock[j]
  BY <1>1, <1>5, <1>7, <1>8
<1>10. r = first \o middle \o tail
  BY DEF raw_i2c_read_byte, middle, clocks, clock
<1> HIDE DEF tail, r, first
<1> DEFINE front == first \o middle
<1>11. /\ front \in Seq(Operation) /\ Len(front) = 5 * ByteBits + 1
       /\ front[1] = "release"
       /\ \A j \in 1..5 * ByteBits : front[1 + j] = middle[j]
  <2>0. first \in Seq(Operation) /\ middle \in Seq(Operation)
    BY <1>3, <1>7
  <2>1. /\ first \o middle \in Seq(Operation)
        /\ Len(first \o middle) = Len(first) + Len(middle)
        /\ \A j \in 1..Len(first) : (first \o middle)[j] = first[j]
        /\ \A j \in 1..Len(middle) : (first \o middle)[Len(first) + j] = middle[j]
    BY <2>0, ConcatElements
  <2> QED BY <1>3, <1>4, <1>8, <2>1
<1>12. r = front \o tail
  BY <1>10
<1> HIDE DEF front
<1>13. /\ r \in Seq(Operation) /\ Len(r) = 5 * ByteBits + 6
       /\ \A j \in 1..5 * ByteBits + 1 : r[j] = front[j]
       /\ \A j \in 1..5 : r[5 * ByteBits + 1 + j] = tail[j]
  <2>0. front \in Seq(Operation) /\ tail \in Seq(Operation)
    BY <1>2, <1>11
  <2>1. /\ front \o tail \in Seq(Operation) /\ Len(front \o tail) = Len(front) + Len(tail)
        /\ \A j \in 1..Len(front) : (front \o tail)[j] = front[j]
        /\ \A j \in 1..Len(tail) : (front \o tail)[Len(front) + j] = tail[j]
    BY <2>0, ConcatElements
  <2>2. Len(front) + Len(tail) = 5 * ByteBits + 6
    BY <1>2, <1>4, <1>11
  <2> QED BY <1>2, <1>11, <1>12, <2>1, <2>2
<1>14. ASSUME NEW b \in 1..ByteBits, NEW j \in 1..5
       PROVE  r[5 * (b - 1) + (j + 1)] = clock[j]
  <2> DEFINE x == 5 * (b - 1) + j
  <2>1. x \in 1..5 * ByteBits /\ 1 + x \in 1..5 * ByteBits + 1 /\ 1 + x = 5 * (b - 1) + (j + 1)
    BY <1>4
  <2>2. middle[x] = clock[j]
    BY <1>9
  <2> HIDE DEF x
  <2>3. r[1 + x] = clock[j]
    BY <1>11, <1>13, <2>1, <2>2
  <2> QED BY <2>1, <2>3
<1>15. \A b \in 1..ByteBits :
          /\ r[5 * (b - 1) + 2] = clock[1] /\ r[5 * (b - 1) + 3] = clock[2]
          /\ r[5 * (b - 1) + 4] = clock[3] /\ r[5 * (b - 1) + 5] = clock[4]
          /\ r[5 * (b - 1) + 6] = clock[5]
  BY <1>14
<1>16. /\ r[5 * ByteBits + 2] = tail[1] /\ r[5 * ByteBits + 3] = tail[2]
       /\ r[5 * ByteBits + 4] = tail[3] /\ r[5 * ByteBits + 5] = tail[4]
       /\ r[5 * ByteBits + 6] = tail[5]
  <2>1. \A j \in 1..5 : r[5 * ByteBits + (j + 1)] = tail[j]
    <3> TAKE j \in 1..5
    <3>1. 5 * ByteBits + (j + 1) = 5 * ByteBits + 1 + j
      BY <1>4
    <3> QED BY <1>13, <3>1
  <2> QED BY <2>1
<1>17. r[1] = "release"
  BY <1>4, <1>11, <1>13
<1> QED BY <1>1, <1>2, <1>13, <1>15, <1>16, <1>17 DEF r, ReadLen

\* The bytes that read_reg reads: all but the last are acknowledged.
LEMMA FetchOperations ==
  ASSUME NEW len \in {1, 2}
  PROVE  LET f == FlattenSeq([b \in 1..len |-> raw_i2c_read_byte(b < len)]) IN
         /\ f \in Seq(Operation) /\ Len(f) = len * ReadLen
         /\ \A o \in Nat : Lies(f, o) =>
              \A b \in 1..len : Lies(raw_i2c_read_byte(b < len), o + (b - 1) * ReadLen)
<1> DEFINE reads == [b \in 1..len |-> raw_i2c_read_byte(b < len)]
           f == FlattenSeq(reads)
           ends == [i \in 0..len |-> i * ReadLen]
<1>1. ReadLen \in Nat /\ len \in Nat /\ len >= 1
  BY Widths DEF ReadLen
<1>2. ASSUME NEW b \in 1..len
      PROVE  reads[b] = raw_i2c_read_byte(b < len) /\ reads[b] \in Seq(Operation)
             /\ Len(reads[b]) = ReadLen
  <2>1. (b < len) \in BOOLEAN
    OBVIOUS
  <2>2. raw_i2c_read_byte(b < len) \in Seq(Operation) /\ Len(raw_i2c_read_byte(b < len)) = ReadLen
    BY <2>1, ReadOperations
  <2> QED BY <2>2
<1>3. reads \in Seq(Seq(Operation)) /\ Len(reads) = len
  <2>1. reads = [b \in 1..len |-> reads[b]]
    OBVIOUS
  <2> HIDE DEF reads
  <2> QED BY <1>1, <1>2, <2>1
<1> HIDE DEF reads
<1>4. /\ ends \in [0..len -> Nat] /\ ends[0] = 0
      /\ \A i \in 1..len : ends[i] = ends[i - 1] + Len(reads[i]) /\ ends[i - 1] = (i - 1) * ReadLen
      /\ ends[len] = len * ReadLen
  <2>1. ends[0] = 0 /\ ends[1] = ReadLen /\ (len = 2 => ends[2] = 2 * ReadLen)
    BY <1>1
  <2>2. ends \in [0..len -> Nat]
    <3>1. CASE len = 1
      BY <1>1, <3>1
    <3>2. CASE len = 2
      BY <1>1, <3>2
    <3> QED BY <3>1, <3>2
  <2>3. ASSUME NEW i \in 1..len
        PROVE  ends[i] = ends[i - 1] + Len(reads[i]) /\ ends[i - 1] = (i - 1) * ReadLen
    <3>1. Len(reads[i]) = ReadLen
      BY <1>2
    <3>2. i = 1 \/ (i = 2 /\ len = 2)
      OBVIOUS
    <3> HIDE DEF ends
    <3> QED BY <1>1, <2>1, <3>1, <3>2
  <2>4. ends[len] = len * ReadLen
    BY <1>1
  <2> HIDE DEF ends
  <2> QED BY <2>1, <2>2, <2>3, <2>4
<1> HIDE DEF ends
<1>5. /\ FlattenSeq(reads) \in Seq(Operation)
      /\ Len(FlattenSeq(reads)) = ends[Len(reads)]
      /\ \A i \in 1..Len(reads) : \A j \in 1..Len(reads[i]) :
            FlattenSeq(reads)[ends[i - 1] + j] = reads[i][j]
  <2>1. /\ Len(reads) >= 1 /\ ends \in [0..Len(reads) -> Nat] /\ ends[0] = 0
        /\ \A i \in 1..Len(reads) : ends[i] = ends[i - 1] + Len(reads[i])
    BY <1>1, <1>3, <1>4
  <2> QED BY <1>3, <2>1, FlattenPieces
<1>6. f \in Seq(Operation) /\ Len(f) = len * ReadLen
  BY <1>3, <1>4, <1>5
<1>7. ASSUME NEW o \in Nat, Lies(f, o), NEW b \in 1..len
      PROVE  Lies(raw_i2c_read_byte(b < len), o + (b - 1) * ReadLen)
  <2>1. ASSUME NEW j \in 1..ReadLen
        PROVE  Program[o + (b - 1) * ReadLen + j] = reads[b][j]
    <3> DEFINE x == (b - 1) * ReadLen + j
    <3>1. b = 1 \/ (b = 2 /\ len = 2)
      OBVIOUS
    <3>2. x \in 1..len * ReadLen /\ o + (b - 1) * ReadLen + j = o + x
      <4>1. CASE b = 1
        <5>1. x = j /\ (b - 1) * ReadLen = 0 /\ ReadLen <= len * ReadLen
          BY <1>1, <4>1
        <5> HIDE DEF x
        <5> QED BY <1>1, <5>1
      <4>2. CASE b = 2
        <5>1. len = 2
          BY <4>2
        <5> QED BY <1>1, <4>2, <5>1
      <4> QED BY <3>1, <4>1, <4>2
    <3>3. f[x] = reads[b][j]
      BY <1>2, <1>3, <1>4, <1>5
    <3> HIDE DEF x, f
    <3>4. Program[o + x] = f[x]
      BY <1>6, <1>7, <3>2 DEF Lies
    <3> QED BY <3>2, <3>3, <3>4
  <2>2. reads[b] = raw_i2c_read_byte(b < len) /\ Len(reads[b]) = ReadLen
    BY <1>2
  <2> QED BY <2>1, <2>2 DEF Lies
<1> QED BY <1>6, <1>7 DEF f, reads

\* Where the pieces of read_reg begin, from its own beginning.
FetchFrom == 8 + 3 * WriteLen

LEMMA ReadRegOperations ==
  ASSUME NEW reg \in {0, 3}, NEW len \in {1, 2}
  PROVE  LET r == raw_i2c_read_reg(reg, len) IN
         /\ r \in Seq(Operation) /\ Len(r) = FetchFrom + len * ReadLen + 3
         /\ \A o \in Nat : Lies(r, o) =>
              /\ Lies(raw_i2c_start, o)
              /\ Lies(raw_i2c_write_byte(Append(Address, 0)), o + 4)
              /\ Lies(raw_i2c_write_byte(Register(reg)), o + 4 + WriteLen)
              /\ Lies(raw_i2c_start, o + 4 + 2 * WriteLen)
              /\ Lies(raw_i2c_write_byte(Append(Address, 1)), o + 8 + 2 * WriteLen)
              /\ \A b \in 1..len :
                    Lies(raw_i2c_read_byte(b < len), o + FetchFrom + (b - 1) * ReadLen)
              /\ Lies(raw_i2c_stop, o + FetchFrom + len * ReadLen)
<1> DEFINE w0 == raw_i2c_write_byte(Append(Address, 0))
           w1 == raw_i2c_write_byte(Register(reg))
           w2 == raw_i2c_write_byte(Append(Address, 1))
           f  == FlattenSeq([b \in 1..len |-> raw_i2c_read_byte(b < len)])
           p1 == raw_i2c_start \o w0
           p2 == p1 \o w1
           p3 == p2 \o raw_i2c_start
           p4 == p3 \o w2
           p5 == p4 \o f
           r  == raw_i2c_read_reg(reg, len)
<1>1. r = p5 \o raw_i2c_stop
  BY DEF raw_i2c_read_reg
<1>2. /\ WriteLen \in Nat /\ ReadLen \in Nat /\ len * ReadLen \in Nat
  BY Widths DEF WriteLen, ReadLen
<1>3. /\ w0 \in Seq(Operation) /\ Len(w0) = WriteLen
      /\ w1 \in Seq(Operation) /\ Len(w1) = WriteLen
      /\ w2 \in Seq(Operation) /\ Len(w2) = WriteLen
  <2>1. Append(Address, 0) \in Byte /\ Append(Address, 1) \in Byte /\ Register(reg) \in Byte
    BY WrittenBytes
  <2> QED BY <2>1, WriteOperations
<1>4. /\ f \in Seq(Operation) /\ Len(f) = len * ReadLen
      /\ \A o \in Nat : Lies(f, o) =>
            \A b \in 1..len : Lies(raw_i2c_read_byte(b < len), o + (b - 1) * ReadLen)
  BY FetchOperations
<1>5. /\ raw_i2c_start \in Seq(Operation) /\ Len(raw_i2c_start) = 4
      /\ raw_i2c_stop \in Seq(Operation) /\ Len(raw_i2c_stop) = 3
  BY ShortPieces
<1> HIDE DEF w0, w1, w2, f, r
<1>6. p1 \in Seq(Operation) /\ Len(p1) = 4 + WriteLen
  <2>1. p1 \in Seq(Operation) /\ Len(p1) = Len(raw_i2c_start) + Len(w0)
    BY <1>3, <1>5, ConcatElements
  <2> QED BY <2>1, <1>3, <1>5
<1>7. p2 \in Seq(Operation) /\ Len(p2) = 4 + 2 * WriteLen
  <2> HIDE DEF p1
  <2>1. p2 \in Seq(Operation) /\ Len(p2) = Len(p1) + Len(w1)
    BY <1>3, <1>6, ConcatElements
  <2> QED BY <2>1, <1>2, <1>3, <1>6
<1>8. p3 \in Seq(Operation) /\ Len(p3) = 8 + 2 * WriteLen
  <2> HIDE DEF p2
  <2>1. p3 \in Seq(Operation) /\ Len(p3) = Len(p2) + Len(raw_i2c_start)
    BY <1>5, <1>7, ConcatElements
  <2> QED BY <2>1, <1>2, <1>5, <1>7
<1>9. p4 \in Seq(Operation) /\ Len(p4) = FetchFrom
  <2> HIDE DEF p3
  <2>1. p4 \in Seq(Operation) /\ Len(p4) = Len(p3) + Len(w2)
    BY <1>3, <1>8, ConcatElements
  <2> QED BY <2>1, <1>2, <1>3, <1>8 DEF FetchFrom
<1>10. p5 \in Seq(Operation) /\ Len(p5) = FetchFrom + len * ReadLen
  <2> HIDE DEF p4
  <2>1. p5 \in Seq(Operation) /\ Len(p5) = Len(p4) + Len(f)
    BY <1>4, <1>9, ConcatElements
  <2> QED BY <2>1, <1>4, <1>9
<1>11. r \in Seq(Operation) /\ Len(r) = FetchFrom + len * ReadLen + 3
  <2> HIDE DEF p5
  <2>1. r \in Seq(Operation) /\ Len(r) = Len(p5) + Len(raw_i2c_stop)
    BY <1>1, <1>5, <1>10, ConcatElements
  <2> QED BY <2>1, <1>5, <1>10
<1>12. ASSUME NEW o \in Nat, Lies(r, o)
       PROVE  /\ Lies(raw_i2c_start, o)
              /\ Lies(w0, o + 4)
              /\ Lies(w1, o + 4 + WriteLen)
              /\ Lies(raw_i2c_start, o + 4 + 2 * WriteLen)
              /\ Lies(w2, o + 8 + 2 * WriteLen)
              /\ Lies(f, o + FetchFrom)
              /\ Lies(raw_i2c_stop, o + FetchFrom + len * ReadLen)
  <2>1. Lies(p5, o) /\ Lies(raw_i2c_stop, o + Len(p5))
    <3> HIDE DEF p5
    <3> QED BY <1>1, <1>5, <1>10, <1>12, LiesConcat
  <2>2. Lies(p4, o) /\ Lies(f, o + Len(p4))
    <3> HIDE DEF p4
    <3> QED BY <2>1, <1>4, <1>9, LiesConcat
  <2>3. Lies(p3, o) /\ Lies(w2, o + Len(p3))
    <3> HIDE DEF p3
    <3> QED BY <2>2, <1>3, <1>8, LiesConcat
  <2>4. Lies(p2, o) /\ Lies(raw_i2c_start, o + Len(p2))
    <3> HIDE DEF p2
    <3> QED BY <2>3, <1>5, <1>7, LiesConcat
  <2>5. Lies(p1, o) /\ Lies(w1, o + Len(p1))
    <3> HIDE DEF p1
    <3> QED BY <2>4, <1>3, <1>6, LiesConcat
  <2>6. Lies(raw_i2c_start, o) /\ Lies(w0, o + Len(raw_i2c_start))
    BY <2>5, <1>3, <1>5, LiesConcat
  <2> HIDE DEF p1, p2, p3, p4, p5
  <2>7. /\ o + Len(p5) = o + FetchFrom + len * ReadLen /\ o + Len(p4) = o + FetchFrom
        /\ o + Len(p3) = o + 8 + 2 * WriteLen /\ o + Len(p2) = o + 4 + 2 * WriteLen
        /\ o + Len(p1) = o + 4 + WriteLen /\ o + Len(raw_i2c_start) = o + 4
    BY <1>2, <1>5, <1>6, <1>7, <1>8, <1>9, <1>10 DEF FetchFrom
  <2> QED BY <2>1, <2>2, <2>3, <2>4, <2>5, <2>6, <2>7, Zenon
<1>13. ASSUME NEW o \in Nat, Lies(r, o), NEW b \in 1..len
       PROVE  Lies(raw_i2c_read_byte(b < len), o + FetchFrom + (b - 1) * ReadLen)
  <2>1. Lies(f, o + FetchFrom) /\ o + FetchFrom \in Nat
    BY <1>2, <1>12, <1>13 DEF FetchFrom
  <2> QED BY <2>1, <1>4
<1> QED BY <1>11, <1>12, <1>13 DEF w0, w1, w2, r

\* Where the pieces of Program begin, and that it fails to the stop of the
\* second read_reg.
Fetch1 == 3 + FetchFrom
Stop1  == Fetch1 + ReadLen
Second == Stop1 + 3
Fetch2 == Second + FetchFrom
Fetch3 == Fetch2 + ReadLen
Stop2  == Fetch3 + ReadLen
Stop3  == Stop2 + 3

LEMMA ProgramOperations ==
  /\ Lies(raw_i2c_init_bus, 0)
  /\ Lies(raw_i2c_read_reg(3, 1), 3)
  /\ Lies(raw_i2c_read_reg(0, 2), Second)
  /\ Lies(raw_i2c_stop, Stop3)
  /\ Program[Stop3 + 4] = "close"
  /\ FailAt = Stop2 + 1
<1> DEFINE r1 == raw_i2c_read_reg(3, 1)
           r2 == raw_i2c_read_reg(0, 2)
           p1 == raw_i2c_init_bus \o r1
           p2 == p1 \o r2
<1>1. WriteLen \in Nat /\ ReadLen \in Nat
  BY Widths DEF WriteLen, ReadLen
<1>2. /\ r1 \in Seq(Operation) /\ Len(r1) = FetchFrom + ReadLen + 3
      /\ r2 \in Seq(Operation) /\ Len(r2) = FetchFrom + 2 * ReadLen + 3
  <2>1. 1 * ReadLen = ReadLen
    BY <1>1
  <2> QED BY <2>1, ReadRegOperations
<1>3. Program = p2 \o Ending
  BY DEF Program
<1> HIDE DEF r1, r2
<1>4. /\ raw_i2c_init_bus \in Seq(Operation) /\ Len(raw_i2c_init_bus) = 3
      /\ raw_i2c_stop \in Seq(Operation) /\ Len(raw_i2c_stop) = 3
      /\ <<"close">> \in Seq(Operation) /\ Len(<<"close">>) = 1
  BY ShortPieces
<1>5. p1 \in Seq(Operation) /\ Len(p1) = Second
  <2>1. p1 \in Seq(Operation) /\ Len(p1) = Len(raw_i2c_init_bus) + Len(r1)
    BY <1>2, <1>4, ConcatElements
  <2> QED BY <1>1, <1>2, <1>4, <2>1 DEF Second, Stop1, Fetch1, FetchFrom
<1>6. p2 \in Seq(Operation) /\ Len(p2) = Stop3
  <2> HIDE DEF p1
  <2>1. p2 \in Seq(Operation) /\ Len(p2) = Len(p1) + Len(r2)
    BY <1>2, <1>5, ConcatElements
  <2> QED BY <1>1, <1>2, <1>5, <2>1
          DEF Stop3, Stop2, Fetch3, Fetch2, Second, Stop1, Fetch1, FetchFrom
<1>7. Ending \in Seq(Operation) /\ Len(Ending) = 4
  <2>1. Ending \in Seq(Operation) /\ Len(Ending) = Len(raw_i2c_stop) + Len(<<"close">>)
    <3>1. raw_i2c_stop \in Seq(Operation) /\ <<"close">> \in Seq(Operation)
      BY <1>4
    <3>2. \A t \in Seq(Operation) : /\ raw_i2c_stop \o t \in Seq(Operation)
                                   /\ Len(raw_i2c_stop \o t) = Len(raw_i2c_stop) + Len(t)
      BY <3>1, ConcatElements
    <3> QED BY <3>1, <3>2 DEF Ending
  <2> QED BY <1>4, <2>1
<1>8. Program \in Seq(Operation) /\ Len(Program) = Stop3 + 4
  <2> HIDE DEF p2
  <2>1. Program \in Seq(Operation) /\ Len(Program) = Len(p2) + Len(Ending)
    BY <1>3, <1>6, <1>7, ConcatElements
  <2> QED BY <1>6, <1>7, <2>1
<1>9. Lies(Program, 0)
  <2>1. \A j \in 1..Len(Program) : 0 + j = j
    BY <1>8
  <2> QED BY <2>1 DEF Lies
<1>10. Lies(p2, 0) /\ Lies(Ending, Stop3)
  <2> HIDE DEF p2
  <2>1. Lies(p2, 0) /\ Lies(Ending, 0 + Len(p2))
    BY <1>3, <1>6, <1>7, <1>9, LiesConcat
  <2> QED BY <1>6, <2>1
<1>11. Lies(p1, 0) /\ Lies(r2, Second)
  <2> HIDE DEF p1
  <2>1. Lies(p1, 0) /\ Lies(r2, 0 + Len(p1))
    BY <1>2, <1>5, <1>10, LiesConcat
  <2> QED BY <1>5, <2>1
<1>12. Lies(raw_i2c_init_bus, 0) /\ Lies(r1, 3)
  <2>1. Lies(raw_i2c_init_bus, 0) /\ Lies(r1, 0 + Len(raw_i2c_init_bus))
    BY <1>2, <1>4, <1>11, LiesConcat
  <2> QED BY <1>4, <2>1
<1>13. Stop3 \in Nat /\ Stop2 \in Nat /\ Stop3 = Stop2 + 3
  BY <1>1 DEF Stop3, Stop2, Fetch3, Fetch2, Second, Stop1, Fetch1, FetchFrom
<1>14. Lies(raw_i2c_stop, Stop3) /\ Program[Stop3 + 4] = "close"
  <2>1. Lies(raw_i2c_stop, Stop3) /\ Lies(<<"close">>, Stop3 + Len(raw_i2c_stop))
    <3>1. raw_i2c_stop \in Seq(Operation) /\ <<"close">> \in Seq(Operation)
      BY <1>4
    <3>2. \A t \in Seq(Operation) : Lies(raw_i2c_stop \o t, Stop3)
             => Lies(raw_i2c_stop, Stop3) /\ Lies(t, Stop3 + Len(raw_i2c_stop))
      BY <1>13, <3>1, LiesConcat
    <3> QED BY <1>10, <3>1, <3>2 DEF Ending
  <2>2. Lies(<<"close">>, Stop3 + 3)
    BY <1>4, <2>1
  <2>3. Program[Stop3 + 3 + 1] = <<"close">>[1]
    BY <1>4, <2>2 DEF Lies
  <2>4. Stop3 + 3 + 1 = Stop3 + 4
    BY <1>13
  <2> QED BY <2>1, <2>3, <2>4
<1>15. FailAt = Stop2 + 1
  BY <1>4, <1>7, <1>8, <1>13 DEF FailAt
<1> QED BY <1>11, <1>12, <1>14, <1>15 DEF r1, r2

-----------------------------------------------------------------------------
(* The invariant: as long as nobody is killed, the next operation tells    *)
(* what the pins and the sensor are.                                       *)

Here == sensor = Address

\* The bits a reading is to bring, those of them that are right even after a
\* kill, and the first k read.
Wanted == file[3] \o file[0] \o file[1]

Sure(i) == settled \/ i > ByteBits

Got(k) == /\ bits \in Seq({0, 1}) /\ Len(bits) = k
          /\ \A i \in 1..k : Sure(i) => bits[i] = Wanted[i]

Reading(k) == result = "none" /\ Got(k)

\* The first n bits of a byte.
Taken(s, byte, n) == /\ s \in Seq({0, 1}) /\ Len(s) = n
                     /\ \A i \in 1..n : s[i] = byte[i]

\* Within raw_i2c_init_bus, and any piece that begins after o operations.
InInit == at \in 1..3 /\ low = FALSE /\ pull = FALSE /\ scl \in {0, 1} /\ mode = "idle"

\* raw_i2c_start: on an idle bus, or when a byte written has been accepted.
InStart(o) ==
    /\ pull = FALSE
    /\ \/ /\ at \in {o + 1, o + 2} /\ low = FALSE
          /\ \/ mode = "idle" /\ scl \in {0, 1}
             \/ mode = "data" /\ scl = 0 /\ count = 0
       \/ /\ at = o + 3 /\ low = FALSE /\ scl = 1
          /\ mode = "idle" \/ (mode = "data" /\ count = 1)
       \/ /\ at = o + 4 /\ low = TRUE /\ scl = 1
          /\ mode = "address" /\ count = 0 /\ shift = <<>>

\* raw_i2c_write_byte, to a sensor in mode m: the bits.
InWriteBit(o, m, byte, b) ==
    /\ mode = m /\ count = b - 1 /\ Taken(shift, byte, b - 1)
    /\ pull = FALSE /\ low \in BOOLEAN
    /\ \/ at = o + (3 * (b - 1) + 1) /\ scl \in {0, 1}
       \/ at = o + (3 * (b - 1) + 2) /\ scl = 0
       \/ at = o + (3 * (b - 1) + 3) /\ scl = 0 /\ low = (byte[b] = 0)

\* Another sensor is called; or this one acknowledges, and accepts the byte.
Ignored(m) == mode = "idle" /\ pull = FALSE /\ m = "address" /\ ~ Here

Answered(m, byte, c) ==
    \/ /\ mode = m /\ count = c /\ Taken(shift, byte, ByteBits) /\ pull = TRUE
       /\ m = "address" => Here
    \/ Ignored(m)

Accepted(m, byte) ==
    /\ count = 0 /\ shift = <<>>
    /\ mode = IF m = "pointer" THEN "data"
              ELSE IF byte[ByteBits] = 1 THEN "send" ELSE "pointer"
    /\ pull = (mode = "send" /\ SentBit(ptr, 1))
    /\ m = "pointer" => ptr = Value(byte)
    /\ m = "address" => Here

\* raw_i2c_write_byte: the acknowledge.
InWriteAck(o, m, byte) ==
    \/ /\ at = o + (3 * ByteBits + 1) /\ scl = 1 /\ low \in BOOLEAN /\ pull = FALSE
       /\ mode = m /\ count = ByteBits /\ Taken(shift, byte, ByteBits)
    \/ /\ at = o + (3 * ByteBits + 2) /\ scl = 0 /\ low \in BOOLEAN
       /\ Answered(m, byte, ByteBits)
    \/ /\ at = o + (3 * ByteBits + 3) /\ scl = 0 /\ low = FALSE
       /\ Answered(m, byte, ByteBits)
    \/ /\ at \in {o + (3 * ByteBits + 4), o + (3 * ByteBits + 5)} /\ scl = 1 /\ low = FALSE
       /\ Answered(m, byte, ByteBits + 1)
    \/ /\ at = o + (3 * ByteBits + 6) /\ scl = 1 /\ low = FALSE /\ acked = pull
       /\ Answered(m, byte, ByteBits + 1)
    \/ /\ at = o + (3 * ByteBits + 7) /\ scl = 0 /\ low = FALSE
       /\ \/ acked = TRUE /\ Accepted(m, byte)
          \/ acked = FALSE /\ Ignored(m)

InWrite(o, m, byte) ==
    (\E b \in 1..ByteBits : InWriteBit(o, m, byte, b)) \/ InWriteAck(o, m, byte)

\* raw_i2c_read_byte of register r, after k other bits: the bits.
Sending(r, c) == mode = "send" /\ ptr = r /\ count = c

InReadBit(o, r, k, b) ==
    /\ low = FALSE /\ Got(k + (b - 1))
    /\ \/ /\ at = o + (5 * (b - 1) + 2) /\ Sending(r, b - 1)
          /\ \/ scl = 0 /\ pull = SentBit(r, b)
             \/ scl = 1 /\ pull \in BOOLEAN
       \/ /\ at \in {o + (5 * (b - 1) + 3), o + (5 * (b - 1) + 4)} /\ Sending(r, b - 1)
          /\ scl = 0 /\ pull = SentBit(r, b)
       \/ /\ at \in {o + (5 * (b - 1) + 5), o + (5 * (b - 1) + 6)} /\ Sending(r, b)
          /\ scl = 1 /\ pull = SentBit(r, b)

\* The sensor goes on with the next register, or has been told to stop.
Answer(ack, r) ==
    \/ ack = TRUE /\ Sending((r + 1) % 4, 0) /\ pull = SentBit(ptr, 1)
    \/ ack = FALSE /\ mode = "idle" /\ pull = FALSE

\* raw_i2c_read_byte: the answer.
InReadAck(o, ack, r, k) ==
    /\ Got(k + ByteBits)
    /\ \/ /\ at = o + (5 * ByteBits + 2) /\ scl = 1 /\ low = FALSE /\ pull \in BOOLEAN
          /\ Sending(r, ByteBits)
       \/ /\ at = o + (5 * ByteBits + 3) /\ scl = 0 /\ low = FALSE /\ pull = FALSE
          /\ Sending(r, ByteBits)
       \/ /\ at = o + (5 * ByteBits + 4) /\ scl = 0 /\ low = ack /\ pull = FALSE
          /\ Sending(r, ByteBits)
       \/ /\ at = o + (5 * ByteBits + 5) /\ scl = 1 /\ low = ack /\ pull = FALSE
          /\ Sending(r, ByteBits + 1) /\ shift = <<Wire(ack, FALSE)>>
       \/ at = o + (5 * ByteBits + 6) /\ scl = 0 /\ low = ack /\ Answer(ack, r)

InRead(o, ack, r, k) ==
    \/ /\ at = o + 1 /\ scl = 0 /\ low = FALSE /\ Got(k)
       /\ Sending(r, 0) /\ pull = SentBit(r, 1)
    \/ \E b \in 1..ByteBits : InReadBit(o, r, k, b)
    \/ InReadAck(o, ack, r, k)

\* raw_i2c_stop, on an idle bus too.
InStop(o) ==
    /\ pull = FALSE
    /\ \/ at = o + 1 /\ low = FALSE /\ scl \in {0, 1} /\ mode = "idle"
       \/ at = o + 2 /\ low = TRUE /\ scl = 0 /\ mode = "idle"
       \/ at \in {o + 2, o + 3} /\ low = TRUE /\ scl = 1 /\ (mode = "idle" \/ count = 0)

BusIdle == scl = 1 /\ low = FALSE /\ pull = FALSE /\ mode = "idle"

\* A read_reg of register r, after k bits of others, up to the first byte read.
InReadReg(o, r, k) ==
    /\ Reading(k)
    /\ \/ InStart(o)
       \/ InWrite(o + 4, "address", Append(Address, 0))
       \/ InWrite(o + 4 + WriteLen, "pointer", Register(r)) /\ Here
       \/ InStart(o + 4 + 2 * WriteLen) /\ Here /\ ptr = r
       \/ InWrite(o + 8 + 2 * WriteLen, "address", Append(Address, 1)) /\ Here /\ ptr = r

\* What the reading has come to, when nothing is left to read.
Outcome == \/ result # "failed" /\ Here /\ Got(3 * ByteBits)
           \/ result = "failed" /\ ~ Here

Between ==
    /\ at = 0 /\ low = FALSE /\ pull = FALSE /\ scl \in {0, 1} /\ mode = "idle"
    /\ result \in {"none", "ok", "failed"}
    /\ result # "none" => scl = 1 /\ Outcome

Where ==
    \/ Between
    \/ InInit /\ Reading(0)
    \/ InReadReg(3, 3, 0)
    \/ InRead(Fetch1, FALSE, 3, 0) /\ Here /\ result = "none"
    \/ InStop(Stop1) /\ Reading(ByteBits)
    \/ InReadReg(Second, 0, ByteBits)
    \/ InRead(Fetch2, TRUE, 0, ByteBits) /\ Here /\ result = "none"
    \/ InRead(Fetch3, FALSE, 1, 2 * ByteBits) /\ Here /\ result = "none"
    \/ InStop(Stop2) /\ Outcome
    \/ InStop(Stop3) /\ Outcome
    \/ at = Stop3 + 4 /\ BusIdle /\ Outcome

-----------------------------------------------------------------------------
(* The invariant after a kill: what the sensor may be doing at all, and    *)
(* where the process may be while it has not seen a start.                 *)

Typed ==
    /\ kills \in Nat /\ settled \in BOOLEAN
    /\ scl \in {0, 1} /\ low \in BOOLEAN /\ pull \in BOOLEAN
    /\ file \in [0..3 -> Byte] /\ ptr \in 0..3
    /\ mode \in {"idle", "address", "pointer", "data", "send"}

\* It pulls the line only to acknowledge a byte and to send a 0.
Sound ==
    /\ mode = "idle" => pull = FALSE
    /\ Receiving =>
         /\ count \in 0..ByteBits + 1
         /\ shift \in Seq({0, 1})
         /\ Len(shift) = IF count <= ByteBits THEN count ELSE ByteBits
         /\ pull = (count = ByteBits + 1 \/ (count = ByteBits /\ scl = 0))
         /\ count = ByteBits + 1 => scl = 1
    /\ mode = "send" =>
         /\ count \in 0..ByteBits + 1
         /\ scl = 1 => count >= 1
         /\ scl = 0 => count <= ByteBits
         /\ count = ByteBits /\ scl = 0 => pull = FALSE
         /\ count = ByteBits + 1 => pull = FALSE

\* The clock of its byte at which a sensor that has not seen a start is, if
\* it is at clock c: a byte and its acknowledge later it is there again.
Clocked(c) ==
    \/ mode = "idle"
    \/ /\ mode \in {"pointer", "data", "send"}
       /\ count = IF scl = 0 /\ c = ByteBits + 1 THEN 0 ELSE c

After(p, b) == IF p + b <= ByteBits + 1 THEN p + b ELSE p + b - (ByteBits + 1)

\* It has pulled the line at clock p: to acknowledge, or sending a 0.
Pulled(p) == Clocked(p) /\ mode = IF p = ByteBits + 1 THEN "data" ELSE "send"

\* raw_i2c_write_byte to a sensor that takes the clocks for others.
InDeafWrite(o, p) ==
    \/ \E b \in 1..ByteBits + 1 :
         /\ Clocked(After(p, b - 1))
         /\ \/ at = o + (3 * (b - 1) + 1)
            \/ at = o + (3 * (b - 1) + 2) /\ scl = 0
            \/ at = o + (3 * (b - 1) + 3) /\ scl = 0 /\ (b = ByteBits + 1 => low = FALSE)
    \/ /\ at \in {o + (3 * ByteBits + 4), o + (3 * ByteBits + 5)}
       /\ scl = 1 /\ low = FALSE /\ Clocked(p)
    \/ at = o + (3 * ByteBits + 6) /\ scl = 1 /\ low = FALSE /\ Clocked(p) /\ acked = pull
    \/ /\ at = o + (3 * ByteBits + 7) /\ scl = 0 /\ low = FALSE
       /\ acked = TRUE => Pulled(p)

\* The second raw_i2c_start of read_reg, not seen so far.
InDeafStart(o) ==
    \/ /\ at \in {o + 1, o + 2} /\ scl = 0 /\ low = FALSE
       /\ \E p \in 1..ByteBits + 1 : Pulled(p)
    \/ /\ at = o + 3 /\ scl = 1 /\ low = FALSE
       /\ \/ mode = "data" /\ count = 1
          \/ mode = "send" /\ count \in 2..ByteBits + 1
    \/ at = o + 4 /\ scl = 1 /\ pull = TRUE /\ mode = "send" /\ count \in 2..ByteBits

\* raw_i2c_read_byte: the process lets the line go at every bit, and so tells
\* the sensor to stop.
Fading(c) ==
    \/ mode = "idle"
    \/ mode = "send" /\ count \in c + 2..ByteBits + 1 /\ (count = ByteBits + 1 => shift = <<1>>)

InDeafRead(o) ==
    /\ low = FALSE
    /\ \/ at = o + 1 /\ scl = 0 /\ Reading(0) /\ Fading(0)
       \/ \E b \in 1..ByteBits :
            /\ Reading(b - 1)
            /\ \/ at = o + (5 * (b - 1) + 2) /\ Fading(b - 1)
               \/ /\ at \in {o + (5 * (b - 1) + 3), o + (5 * (b - 1) + 4)}
                  /\ scl = 0 /\ Fading(b - 1)
               \/ /\ at \in {o + (5 * (b - 1) + 5), o + (5 * (b - 1) + 6)}
                  /\ scl = 1 /\ Fading(b)
       \/ /\ Reading(ByteBits) /\ mode = "idle"
          /\ \/ at = o + (5 * ByteBits + 2) /\ scl = 1
             \/ at \in {o + (5 * ByteBits + 3), o + (5 * ByteBits + 4)} /\ scl = 0
             \/ at = o + (5 * ByteBits + 5) /\ scl = 1
             \/ at = o + (5 * ByteBits + 6) /\ scl = 0

\* The first read_reg, which starts on what the killed process left.
Write1   == 7
Write2   == 7 + WriteLen
Restart  == 7 + 2 * WriteLen
Write3   == 11 + 2 * WriteLen

\* To the first start, and that start if it is not seen.
InDeafInit ==
    \/ at = 1
    \/ at \in {2, 3} /\ scl = 0 /\ low = FALSE
    \/ at \in {4, 5, 6} /\ scl = 1 /\ low = FALSE
    \/ at = 7 /\ scl = 1 /\ low = TRUE /\ pull = TRUE

\* The second start has been seen: the byte read is of some register.
InOtherReg ==
    \/ Reading(0) /\ InStart(Restart)
    \/ Reading(0) /\ InWrite(Write3, "address", Append(Address, 1))
    \/ result = "none" /\ Here /\ \E r \in 0..3 : InRead(Fetch1, FALSE, r, 0)

Astray ==
    \/ at = 0 /\ result \in {"none", "failed"}
    \/ Reading(0) /\ InDeafInit
    \/ Reading(0) /\ \E p \in 1..ByteBits + 1 : InDeafWrite(Write1, p)
    \/ Reading(0) /\ \E p \in 1..ByteBits + 1 : InDeafWrite(Write2, p)
    \/ Reading(0) /\ InDeafStart(Restart)
    \/ Reading(0) /\ \E p \in 2..ByteBits : InDeafWrite(Write3, p)
    \/ InDeafRead(Fetch1)
    \/ InOtherReg
    \/ result = "failed" /\ at \in Stop2 + 1..Stop3 + 4

IInv == /\ Typed /\ Sound
        /\ Where \/ (settled = FALSE /\ Astray)

-----------------------------------------------------------------------------
(* What an operation does to the pins, and the sensor with them *)

\* SDA does not move inside a byte while the clock is high.
Quiet == scl = 1 /\ scl' = 1 /\ SDA' # SDA /\ mode # "idle" => count <= 1

\* Only the pins and the sensor.
Moves == at' = at + 1 /\ UNCHANGED <<acked, bits, result, settled, kills>>

LEMMA OnlySetsPins ==
  ASSUME at # 0, Program[at] \in {"zero", "release", "low", "scl0", "scl1"}, Step
  PROVE  SetPins
  BY DEF Step, Begin, ReadAck, CheckAck, ReadBit, Close, Op

LEMMA LowersClock ==
  ASSUME at # 0, Program[at] = "scl0", Step
  PROVE  /\ Moves /\ Quiet /\ scl' = 0 /\ low' = low
         /\ scl = 0 => UNCHANGED slave
         /\ scl = 1 => Fall
<1>1. SetPins
  BY OnlySetsPins
<1>2. scl' = 0 /\ low' = low /\ React(0, low) /\ Moves
  BY <1>1 DEF SetPins, Op, Moves
<1> QED BY <1>2 DEF React, Quiet

LEMMA ZeroesPins ==
  ASSUME at # 0, Program[at] = "zero", Step
  PROVE  /\ Moves /\ Quiet /\ scl' = 0 /\ low' = FALSE
         /\ scl = 0 => UNCHANGED slave
         /\ scl = 1 => Fall
<1>1. SetPins
  BY OnlySetsPins
<1>2. scl' = 0 /\ low' = FALSE /\ React(scl', low') /\ Moves
  BY <1>1 DEF SetPins, Op, Moves
<1>3. React(0, FALSE)
  BY <1>2
<1> QED BY <1>2, <1>3 DEF React, Quiet

LEMMA RaisesClock ==
  ASSUME at # 0, Program[at] = "scl1", Step
  PROVE  /\ Moves /\ Quiet /\ scl' = 1 /\ low' = low
         /\ scl = 0 => Rise(Wire(low, pull))
         /\ scl = 1 => UNCHANGED slave
<1>1. SetPins
  BY OnlySetsPins
<1>2. scl' = 1 /\ low' = low /\ React(1, low) /\ Moves
  BY <1>1 DEF SetPins, Op, Moves
<1>3. scl = 0 => Rise(Wire(low, pull))
  BY <1>2 DEF React
<1>4. scl = 1 => UNCHANGED slave
  BY <1>2 DEF React, SDA, Wire
<1>5. Quiet
  <2>1. CASE scl = 1
    <3>1. pull' = pull
      BY <1>4, <2>1 DEF slave
    <3> QED BY <1>2, <3>1 DEF Quiet, SDA
  <2>2. CASE scl # 1
    BY <2>2 DEF Quiet
  <2> QED BY <2>1, <2>2
<1> QED BY <1>2, <1>3, <1>4, <1>5

\* While the clock is low, or the line is as it was already.
LEMMA KeepsData ==
  ASSUME at # 0, Program[at] \in {"release", "low"}, Step,
         low \in BOOLEAN, scl = 0 \/ (scl = 1 /\ low = FALSE /\ Program[at] = "release")
  PROVE  /\ Moves /\ Quiet /\ scl' = scl /\ low' = (Program[at] = "low")
         /\ UNCHANGED slave
<1>1. SetPins
  BY OnlySetsPins
<1>2. scl' = scl /\ low' = (Program[at] = "low") /\ React(scl', low') /\ Moves
  BY <1>1 DEF SetPins, Op, Moves
<1>3. CASE scl = 0
  BY <1>2, <1>3 DEF React, Quiet
<1>4. CASE scl = 1 /\ low = FALSE /\ Program[at] = "release"
  <2>1. low' = low
    BY <1>2, <1>4
  <2>2. React(1, low)
    BY <1>2, <1>4, <2>1
  <2>3. UNCHANGED slave
    BY <1>4, <2>2 DEF React, SDA, Wire
  <2>4. Quiet
    BY <2>1, <2>3 DEF Quiet, SDA, slave
  <2> QED BY <1>2, <2>3, <2>4
<1> QED BY <1>3, <1>4

\* A start: the process pulls the line, the clock being high.
LEMMA Starts ==
  ASSUME at # 0, Program[at] = "low", Step, scl = 1, low = FALSE, pull = FALSE,
         mode = "idle" \/ count <= 1
  PROVE  Moves /\ Quiet /\ scl' = 1 /\ low' = TRUE /\ Seen("address")
<1>1. SetPins
  BY OnlySetsPins
<1>2. scl' = 1 /\ low' = TRUE /\ React(scl', low') /\ Moves
  BY <1>1 DEF SetPins, Op, Moves
<1>3. React(1, TRUE)
  BY <1>2
<1>4. SDA = 1 /\ Wire(TRUE, pull) = 0
  BY DEF SDA, Wire
<1>5. Seen("address")
  BY <1>3 DEF React, SDA, Wire
<1> QED BY <1>2, <1>5 DEF Quiet

\* A stop: it lets the line go.
LEMMA Stops ==
  ASSUME at # 0, Program[at] = "release", Step, scl = 1, low = TRUE, pull = FALSE,
         mode = "idle" \/ count <= 1
  PROVE  Moves /\ Quiet /\ scl' = 1 /\ low' = FALSE /\ Seen("idle")
<1>1. SetPins
  BY OnlySetsPins
<1>2. scl' = 1 /\ low' = FALSE /\ React(scl', low') /\ Moves
  BY <1>1 DEF SetPins, Op, Moves
<1>3. React(1, FALSE)
  BY <1>2
<1>4. SDA = 0 /\ Wire(FALSE, pull) = 1
  BY DEF SDA, Wire
<1>5. Seen("idle")
  BY <1>3 DEF React, SDA, Wire
<1> QED BY <1>2, <1>5 DEF Quiet

\* The operations that do not touch the pins.
LEMMA Reads ==
  ASSUME at # 0, Step
  PROVE  /\ Program[at] = "ack" =>
              /\ acked' = (SDA = 0) /\ at' = at + 1
              /\ UNCHANGED <<bits, result, settled, kills, pins, slave>>
         /\ Program[at] = "check" => CheckAck
         /\ Program[at] = "bit" =>
              /\ bits' = Append(bits, SDA) /\ at' = at + 1
              /\ UNCHANGED <<acked, result, settled, kills, pins, slave>>
         /\ Program[at] = "close" => Close
         /\ Program[at] \in {"ack", "check", "bit", "close"} => Quiet
<1>1. Program[at] = "ack" => ReadAck
  BY DEF Step, Begin, SetPins, CheckAck, ReadBit, Close, Op
<1>2. Program[at] = "check" => CheckAck
  BY DEF Step, Begin, SetPins, ReadAck, ReadBit, Close, Op
<1>3. Program[at] = "bit" => ReadBit
  BY DEF Step, Begin, SetPins, ReadAck, CheckAck, Close, Op
<1>4. Program[at] = "close" => Close
  BY DEF Step, Begin, SetPins, ReadAck, CheckAck, ReadBit, Op
<1>5. UNCHANGED <<pins, slave>> => Quiet
  BY DEF Quiet, pins, slave, SDA
<1> QED BY <1>1, <1>2, <1>3, <1>4, <1>5 DEF ReadAck, CheckAck, ReadBit, Close

\* A sensor that no byte is for, or in the middle of one that it receives.
LEMMA SensorStays ==
  /\ mode = "idle" /\ Fall => UNCHANGED slave
  /\ \A x : mode = "idle" /\ Rise(x) => UNCHANGED slave
  /\ Receiving /\ count \in 0..ByteBits - 1 /\ Fall => UNCHANGED slave
<1>1. mode = "idle" /\ Fall => UNCHANGED slave
  BY DEF Fall, Acknowledge, Accept, Send, Receiving
<1>2. ASSUME NEW x, mode = "idle", Rise(x) PROVE UNCHANGED slave
  BY <1>2 DEF Rise, slave
<1>3. Receiving /\ count \in 0..ByteBits - 1 /\ Fall => UNCHANGED slave
  <2> HAVE Receiving /\ count \in 0..ByteBits - 1 /\ Fall
  <2>1. count # ByteBits /\ count # ByteBits + 1
    BY Widths
  <2>2. mode # "send" /\ mode # "idle"
    BY DEF Receiving
  <2> QED BY <2>1, <2>2 DEF Fall, Acknowledge, Accept, Send
<1> QED BY <1>1, <1>2, <1>3

-----------------------------------------------------------------------------
(* Steps within the pieces *)

\* Nothing of what the reading is about changes.
Calm == Quiet /\ UNCHANGED <<bits, result, settled, kills, sensor, file>>

\* raw_i2c_init_bus: to the first start.
LEMMA InitBusStep ==
  ASSUME InInit, Step
  PROVE  (InInit' \/ InStart(3)') /\ Calm
<1>1. Program[1] = "zero" /\ Program[2] = "release" /\ Program[3] = "scl1"
  <2>1. /\ Lies(raw_i2c_init_bus, 0) /\ Len(raw_i2c_init_bus) = 3
        /\ raw_i2c_init_bus[1] = "zero" /\ raw_i2c_init_bus[2] = "release"
        /\ raw_i2c_init_bus[3] = "scl1"
    BY ProgramOperations, ShortPieces
  <2>2. \A j \in 1..3 : Program[0 + j] = raw_i2c_init_bus[j]
    BY <2>1 DEF Lies
  <2>3. Program[0 + 1] = raw_i2c_init_bus[1] /\ Program[0 + 2] = raw_i2c_init_bus[2]
        /\ Program[0 + 3] = raw_i2c_init_bus[3]
    BY <2>2
  <2> QED BY <2>1, <2>3
<1>2. /\ at \in 1..3 /\ at # 0 /\ low = FALSE /\ pull = FALSE /\ scl \in {0, 1}
      /\ mode = "idle"
  BY DEF InInit
<1>3. /\ Moves /\ Quiet /\ low' = FALSE /\ UNCHANGED slave /\ scl' \in {0, 1}
  <2>1. CASE at = 1
    BY <1>1, <1>2, <2>1, ZeroesPins, SensorStays
  <2>2. CASE at = 2
    BY <1>1, <1>2, <2>2, KeepsData
  <2>3. CASE at = 3
    <3>1. /\ Moves /\ Quiet /\ scl' = 1 /\ low' = low
          /\ scl = 0 => Rise(Wire(low, pull))
          /\ scl = 1 => UNCHANGED slave
      BY <1>1, <1>2, <2>3, RaisesClock
    <3> QED BY <3>1, <1>2, SensorStays
  <2>4. at = 1 \/ at = 2 \/ at = 3
    BY <1>2
  <2> QED BY ONLY <2>1, <2>2, <2>3, <2>4, Zenon
<1>4. Calm /\ pull' = FALSE /\ mode' = "idle"
  BY <1>2, <1>3 DEF Calm, Moves, slave
<1>5. CASE at \in 1..2
  <2>1. at' \in 1..3
    BY <1>3, <1>5 DEF Moves
  <2> QED BY <1>3, <1>4, <2>1 DEF InInit
<1>6. CASE at = 3
  <2>1. at' = 3 + 1
    BY <1>3, <1>6 DEF Moves
  <2>2. InStart(3)'
    BY <1>3, <1>4, <2>1 DEF InStart
  <2> QED BY <1>4, <2>2
<1> QED BY <1>2, <1>5, <1>6

\* The first of the operations of write_byte.
WriteBegins(o, m) ==
    /\ at = o + 1 /\ scl = 0 /\ low \in BOOLEAN /\ pull = FALSE
    /\ mode = m /\ count = 0 /\ shift = <<>>

LEMMA WriteBeginsInWrite ==
  ASSUME NEW o \in Nat, NEW m, NEW byte, WriteBegins(o, m)'
  PROVE  InWrite(o, m, byte)'
<1>1. 1 \in 1..ByteBits /\ 0 = 1 - 1 /\ o + 1 = o + (3 * (1 - 1) + 1)
  BY Widths
<1>2. Taken(shift', byte, 0)
  BY DEF Taken, WriteBegins
<1>3. InWriteBit(o, m, byte, 1)'
  BY <1>1, <1>2 DEF InWriteBit, WriteBegins
<1> QED BY <1>1, <1>3 DEF InWrite

\* raw_i2c_start: to the address byte.
LEMMA StartStep ==
  ASSUME NEW o \in Nat, Lies(raw_i2c_start, o), InStart(o), Step
  PROVE  /\ InStart(o)' \/ WriteBegins(o + 4, "address")'
         /\ Calm /\ ptr' = ptr
<1>1. /\ Program[o + 1] = "release" /\ Program[o + 2] = "scl1"
      /\ Program[o + 3] = "low" /\ Program[o + 4] = "scl0"
  BY ShortPieces DEF Lies
<1>2. at # 0 /\ pull = FALSE
  BY DEF InStart
<1>3. CASE at = o + 1
  <2>1. /\ low = FALSE
        /\ \/ mode = "idle" /\ scl \in {0, 1}
           \/ mode = "data" /\ scl = 0 /\ count = 0
    BY <1>3 DEF InStart
  <2>2. Moves /\ Quiet /\ scl' = scl /\ low' = FALSE /\ UNCHANGED slave
    BY <1>1, <1>2, <1>3, <2>1, KeepsData
  <2>3. at' = o + 2
    BY <1>3, <2>2 DEF Moves
  <2>4. pull' = FALSE /\ mode' = mode /\ count' = count
    BY <1>2, <2>2 DEF slave
  <2>5. InStart(o)'
    BY <2>1, <2>2, <2>3, <2>4 DEF InStart
  <2> QED BY <2>2, <2>5 DEF Calm, Moves, slave
<1>4. CASE at = o + 2
  <2>1. /\ low = FALSE
        /\ \/ mode = "idle" /\ scl \in {0, 1}
           \/ mode = "data" /\ scl = 0 /\ count = 0
    BY <1>4 DEF InStart
  <2>2. /\ Moves /\ Quiet /\ scl' = 1 /\ low' = FALSE
        /\ scl = 0 => Rise(Wire(low, pull))
        /\ scl = 1 => UNCHANGED slave
    BY <1>1, <1>2, <1>4, <2>1, RaisesClock
  <2>3. at' = o + 3
    BY <1>4, <2>2 DEF Moves
  <2>4. /\ UNCHANGED <<sensor, file, mode, ptr, pull>>
        /\ mode = "data" => count' = 1
    <3>1. CASE mode = "idle"
      <4>1. UNCHANGED slave
        BY <2>1, <2>2, <3>1, SensorStays
      <4> QED BY <3>1, <4>1 DEF slave
    <3>2. CASE mode = "data" /\ scl = 0 /\ count = 0
      BY <2>2, <3>2 DEF Rise
    <3> QED BY <2>1, <3>1, <3>2
  <2>5. InStart(o)'
    BY <1>2, <2>1, <2>2, <2>3, <2>4 DEF InStart
  <2> QED BY <2>2, <2>4, <2>5 DEF Calm, Moves
<1>5. CASE at = o + 3
  <2>1. low = FALSE /\ scl = 1 /\ (mode = "idle" \/ count <= 1)
    BY <1>5 DEF InStart
  <2>2. Moves /\ Quiet /\ scl' = 1 /\ low' = TRUE /\ Seen("address")
    BY <1>1, <1>2, <1>5, <2>1, Starts
  <2>3. at' = o + 4
    BY <1>5, <2>2 DEF Moves
  <2>4. InStart(o)'
    BY <2>2, <2>3 DEF InStart, Seen
  <2> QED BY <2>2, <2>4 DEF Calm, Moves, Seen
<1>6. CASE at = o + 4
  <2>1. low = TRUE /\ scl = 1 /\ mode = "address" /\ count = 0 /\ shift = <<>>
    BY <1>6 DEF InStart
  <2>2. Moves /\ Quiet /\ scl' = 0 /\ low' = TRUE /\ Fall
    BY <1>1, <1>2, <1>6, <2>1, LowersClock
  <2>3. UNCHANGED slave
    <3>1. Receiving /\ count \in 0..ByteBits - 1
      BY <2>1, Widths DEF Receiving
    <3> QED BY <2>2, <3>1, SensorStays
  <2>4. at' = o + 4 + 1
    BY <1>6, <2>2 DEF Moves
  <2>5. WriteBegins(o + 4, "address")'
    BY <1>2, <2>1, <2>2, <2>3, <2>4 DEF WriteBegins, slave
  <2> QED BY <2>2, <2>3, <2>5 DEF Calm, Moves, slave
<1>7. at = o + 1 \/ at = o + 2 \/ at = o + 3 \/ at = o + 4
  BY DEF InStart
<1> QED BY ONLY <1>3, <1>4, <1>5, <1>6, <1>7, Zenon

\* raw_i2c_stop: to an idle bus.
LEMMA StopStep ==
  ASSUME NEW o \in Nat, Lies(raw_i2c_stop, o), InStop(o), Step
  PROVE  /\ InStop(o)' \/ (at' = o + 4 /\ BusIdle')
         /\ Calm
<1>1. Program[o + 1] = "low" /\ Program[o + 2] = "scl1" /\ Program[o + 3] = "release"
  BY ShortPieces DEF Lies
<1>2. at # 0 /\ pull = FALSE
  BY DEF InStop
<1>3. CASE at = o + 1
  <2>1. low = FALSE /\ scl \in {0, 1} /\ mode = "idle"
    BY <1>3 DEF InStop
  <2>2. CASE scl = 0
    <3>1. Moves /\ Quiet /\ scl' = 0 /\ low' = TRUE /\ UNCHANGED slave
      BY <1>1, <1>2, <1>3, <2>1, <2>2, KeepsData
    <3>2. at' = o + 2
      BY <1>3, <3>1 DEF Moves
    <3>3. InStop(o)'
      BY <1>2, <2>1, <3>1, <3>2 DEF InStop, slave
    <3> QED BY <3>1, <3>3 DEF Calm, Moves, slave
  <2>3. CASE scl = 1
    <3>1. Moves /\ Quiet /\ scl' = 1 /\ low' = TRUE /\ Seen("address")
      BY <1>1, <1>2, <1>3, <2>1, <2>3, Starts
    <3>2. at' = o + 2
      BY <1>3, <3>1 DEF Moves
    <3>3. InStop(o)'
      BY <3>1, <3>2 DEF InStop, Seen
    <3> QED BY <3>1, <3>3 DEF Calm, Moves, Seen
  <2> QED BY <2>1, <2>2, <2>3
<1>4. CASE at = o + 2
  <2>1. low = TRUE /\ ((scl = 0 /\ mode = "idle") \/ (scl = 1 /\ (mode = "idle" \/ count = 0)))
    BY <1>4 DEF InStop
  <2>2. /\ Moves /\ Quiet /\ scl' = 1 /\ low' = low
        /\ scl = 0 => Rise(Wire(low, pull))
        /\ scl = 1 => UNCHANGED slave
    BY <1>1, <1>2, <1>4, RaisesClock
  <2>3. UNCHANGED slave
    BY <2>1, <2>2, SensorStays
  <2>4. at' = o + 3
    BY <1>4, <2>2 DEF Moves
  <2>5. InStop(o)'
    BY <1>2, <2>1, <2>2, <2>3, <2>4 DEF InStop, slave
  <2> QED BY <2>2, <2>3, <2>5 DEF Calm, Moves, slave
<1>5. CASE at = o + 3
  <2>1. low = TRUE /\ scl = 1 /\ (mode = "idle" \/ count <= 1)
    BY <1>5 DEF InStop
  <2>2. Moves /\ Quiet /\ scl' = 1 /\ low' = FALSE /\ Seen("idle")
    BY <1>1, <1>2, <1>5, <2>1, Stops
  <2>3. at' = o + 4
    BY <1>5, <2>2 DEF Moves
  <2> QED BY <2>2, <2>3 DEF Calm, Moves, Seen, BusIdle
<1>6. at = o + 1 \/ at = o + 2 \/ at = o + 3
  BY DEF InStop
<1> QED BY ONLY <1>3, <1>4, <1>5, <1>6, Zenon

\* One more bit of a byte.
LEMMA TakesBit ==
  ASSUME NEW byte \in Byte, NEW n \in 0..ByteBits - 1, NEW s, Taken(s, byte, n),
         NEW t, t = Append(s, byte[n + 1])
  PROVE  Taken(t, byte, n + 1)
<1>1. byte[n + 1] \in {0, 1} /\ n \in Nat
  BY Widths DEF Byte
<1>2. s \in Seq({0, 1}) /\ Len(s) = n /\ \A i \in 1..n : s[i] = byte[i]
  BY DEF Taken
<1>3. /\ t \in Seq({0, 1}) /\ Len(t) = n + 1 /\ t[n + 1] = byte[n + 1]
      /\ \A i \in 1..n : t[i] = s[i]
  BY <1>1, <1>2, AppendProperties
<1>4. \A i \in 1..n + 1 : i \in 1..n \/ i = n + 1
  BY <1>1
<1> QED BY <1>2, <1>3, <1>4 DEF Taken

\* raw_i2c_write_byte, the bits: to the next, or to the acknowledge.
LEMMA WriteBitStep ==
  ASSUME NEW o \in Nat, NEW m \in {"address", "pointer"}, NEW byte \in Byte,
         Lies(raw_i2c_write_byte(byte), o),
         NEW b \in 1..ByteBits, InWriteBit(o, m, byte, b), Step
  PROVE  InWrite(o, m, byte)' /\ Calm /\ ptr' = ptr
<1> DEFINE w == raw_i2c_write_byte(byte)
           p == 3 * (b - 1)
<1>1. ByteBits \in Nat /\ ByteBits >= 3 /\ b \in Nat /\ p \in Nat /\ p + 3 <= 3 * ByteBits
      /\ WriteLen = 3 * ByteBits + 7
  BY Widths DEF WriteLen
<1>2. /\ Len(w) = WriteLen /\ w[p + 1] = "scl0" /\ w[p + 3] = "scl1"
      /\ w[p + 2] = IF byte[b] = 1 THEN "release" ELSE "low"
  BY WriteOperations
<1>3. /\ mode = m /\ count = b - 1 /\ Taken(shift, byte, b - 1)
      /\ pull = FALSE /\ low \in BOOLEAN
      /\ \/ at = o + (p + 1) /\ scl \in {0, 1}
         \/ at = o + (p + 2) /\ scl = 0
         \/ at = o + (p + 3) /\ scl = 0 /\ low = (byte[b] = 0)
  BY DEF InWriteBit
<1> HIDE DEF w, p
<1>4. /\ Program[o + (p + 1)] = "scl0" /\ Program[o + (p + 3)] = "scl1"
      /\ Program[o + (p + 2)] = IF byte[b] = 1 THEN "release" ELSE "low"
  <2>1. p + 1 \in 1..WriteLen /\ p + 2 \in 1..WriteLen /\ p + 3 \in 1..WriteLen
    BY <1>1
  <2>2. Lies(w, o)
    BY DEF w
  <2> QED BY <1>2, <2>1, <2>2 DEF Lies
<1>5. byte[b] \in {0, 1}
  BY DEF Byte
<1>6. at # 0 /\ Receiving /\ mode # "idle" /\ mode # "send"
  BY <1>1, <1>3 DEF Receiving
<1>7. CASE at = o + (p + 1) /\ scl \in {0, 1}
  <2>1. /\ Moves /\ Quiet /\ scl' = 0 /\ low' = low
        /\ scl = 0 => UNCHANGED slave
        /\ scl = 1 => Fall
    BY <1>4, <1>6, <1>7, LowersClock
  <2>2. count \in 0..ByteBits - 1
    BY <1>1, <1>3
  <2>3. UNCHANGED slave
    BY <1>6, <1>7, <2>1, <2>2, SensorStays
  <2>4. at' = o + (p + 2)
    BY <1>1, <1>7, <2>1 DEF Moves
  <2>5. InWriteBit(o, m, byte, b)'
    BY <1>3, <2>1, <2>3, <2>4 DEF InWriteBit, slave, p
  <2> QED BY <2>1, <2>3, <2>5 DEF Calm, Moves, slave, InWrite
<1>8. CASE at = o + (p + 2) /\ scl = 0
  <2>1. Moves /\ Quiet /\ scl' = scl /\ low' = (Program[at] = "low") /\ UNCHANGED slave
    <3>1. Program[at] \in {"release", "low"}
      BY <1>4, <1>8
    <3> QED BY <1>3, <1>6, <1>8, <3>1, KeepsData
  <2>2. low' = (byte[b] = 0)
    <3>1. (Program[at] = "low") = (byte[b] = 0)
      BY <1>4, <1>5, <1>8
    <3> QED BY <2>1, <3>1
  <2>3. at' = o + (p + 3)
    BY <1>1, <1>8, <2>1 DEF Moves
  <2>4. InWriteBit(o, m, byte, b)'
    BY <1>3, <1>8, <2>1, <2>2, <2>3 DEF InWriteBit, slave, p
  <2> QED BY <2>1, <2>4 DEF Calm, Moves, slave, InWrite
<1>9. CASE at = o + (p + 3) /\ scl = 0 /\ low = (byte[b] = 0)
  <2>1. Moves /\ Quiet /\ scl' = 1 /\ low' = low /\ Rise(Wire(low, pull))
    BY <1>4, <1>6, <1>9, RaisesClock
  <2>2. Wire(low, pull) = byte[b]
    BY <1>3, <1>5, <1>9 DEF Wire
  <2>3. Rise(byte[b])
    BY <2>1, <2>2
  <2>4. /\ count' = b /\ shift' = Append(shift, byte[b])
        /\ UNCHANGED <<sensor, file, mode, ptr, pull>>
    <3>1. count + 1 = b /\ count < ByteBits
      BY <1>1, <1>3
    <3> QED BY <1>6, <2>3, <3>1 DEF Rise
  <2>5. Taken(shift', byte, b)
    <3>1. b - 1 \in 0..ByteBits - 1 /\ b - 1 + 1 = b
      BY <1>1
    <3> QED BY <1>3, <2>4, <3>1, TakesBit
  <2>6. at' = o + (p + 3) + 1
    BY <1>9, <2>1 DEF Moves
  <2>7. CASE b < ByteBits
    <3>1. b + 1 \in 1..ByteBits /\ b + 1 - 1 = b
      BY <1>1, <2>7
    <3>2. at' = o + (3 * (b + 1 - 1) + 1)
      BY <1>1, <2>6 DEF p
    <3>3. InWriteBit(o, m, byte, b + 1)'
      BY <1>3, <2>1, <2>4, <2>5, <3>1, <3>2 DEF InWriteBit
    <3>4. InWrite(o, m, byte)'
      BY <3>1, <3>3 DEF InWrite
    <3> QED BY <2>1, <2>4, <3>4 DEF Calm, Moves
  <2>8. CASE b = ByteBits
    <3>1. at' = o + (3 * ByteBits + 1)
      BY <1>1, <2>6, <2>8 DEF p
    <3>2. InWriteAck(o, m, byte)'
      BY <1>3, <2>1, <2>4, <2>5, <2>8, <3>1 DEF InWriteAck
    <3> QED BY <2>1, <2>4, <3>2 DEF Calm, Moves, InWrite
  <2> QED BY <1>1, <2>7, <2>8
<1> QED BY ONLY <1>3, <1>7, <1>8, <1>9, Zenon

\* The address received is the one called.
LEMMA ReceivedAddress ==
  ASSUME NEW byte \in Byte, NEW s, Taken(s, byte, ByteBits),
         \A i \in 1..AddressBits : byte[i] = Address[i]
  PROVE  SubSeq(s, 1, AddressBits) = Address
<1>1. s \in Seq({0, 1}) /\ Len(s) = ByteBits /\ \A i \in 1..ByteBits : s[i] = byte[i]
  BY DEF Taken
<1>2. AddressBits \in Nat /\ AddressBits <= ByteBits /\ Address \in [1..AddressBits -> {0, 1}]
  BY Widths
<1>3. SubSeq(s, 1, AddressBits) = [i \in 1..AddressBits |-> s[i]]
  BY <1>1, <1>2
<1>4. \A i \in 1..AddressBits : s[i] = Address[i]
  BY <1>1, <1>2
<1>5. Address = [i \in 1..AddressBits |-> Address[i]]
  BY <1>2
<1> QED BY <1>3, <1>4, <1>5

\* The clock falls after the last bit of a byte.
LEMMA Acknowledges ==
  ASSUME NEW m \in {"address", "pointer"}, NEW byte \in Byte,
         m = "address" => \A i \in 1..AddressBits : byte[i] = Address[i],
         mode = m, count = ByteBits, Taken(shift, byte, ByteBits), Fall
  PROVE  Answered(m, byte, ByteBits)' /\ UNCHANGED <<sensor, file, ptr>>
<1>1. Acknowledge
  <2>1. ByteBits \in Nat /\ ByteBits # ByteBits + 1 /\ ~ (ByteBits < ByteBits)
    BY Widths
  <2> QED BY <2>1 DEF Fall, Accept, Send
<1>2. m = "address" => SubSeq(shift, 1, AddressBits) = Address
  BY ReceivedAddress
<1>3. CASE mode = "address" /\ SubSeq(shift, 1, AddressBits) # sensor /\ Seen("idle")
  BY <1>2, <1>3 DEF Seen, Answered, Ignored, Here
<1>4. CASE /\ mode = "address" => SubSeq(shift, 1, AddressBits) = sensor
           /\ pull' = TRUE
           /\ UNCHANGED <<sensor, file, mode, count, shift, ptr>>
  BY <1>2, <1>4 DEF Answered, Here, Taken
<1> QED BY <1>1, <1>3, <1>4 DEF Acknowledge

\* The clock falls after the acknowledge.
LEMMA Accepts ==
  ASSUME NEW m \in {"address", "pointer"}, NEW byte \in Byte, m = "address" => Here,
         mode = m, count = ByteBits + 1, Taken(shift, byte, ByteBits), Fall
  PROVE  /\ Accepted(m, byte)' /\ UNCHANGED <<sensor, file>>
         /\ m = "address" => ptr' = ptr
<1>1. Accept
  <2>1. ByteBits \in Nat /\ ByteBits + 1 # ByteBits /\ ~ (ByteBits + 1 < ByteBits)
    BY Widths
  <2> QED BY <2>1 DEF Fall, Acknowledge, Send
<1>2. shift[ByteBits] = byte[ByteBits] /\ shift[ByteBits - 1] = byte[ByteBits - 1]
  <2>1. ByteBits \in 1..ByteBits /\ ByteBits - 1 \in 1..ByteBits
    BY Widths
  <2> QED BY <2>1 DEF Taken
<1>3. /\ count' = 0 /\ shift' = <<>>
      /\ mode' = IF m # "address" THEN "data"
                 ELSE IF byte[ByteBits] = 1 THEN "send" ELSE "pointer"
      /\ pull' = (mode' = "send" /\ SentBit(ptr, 1))
      /\ file' = file /\ sensor' = sensor
      /\ ptr' = IF m = "pointer" THEN Value(byte) ELSE ptr
  BY <1>1, <1>2 DEF Accept, Value
<1>4. CASE m = "address"
  <2>1. ptr' = ptr /\ SentBit(ptr, 1)' = SentBit(ptr, 1)
    BY <1>3, <1>4 DEF SentBit
  <2> QED BY <1>3, <1>4, <2>1 DEF Accepted, Here
<1>5. CASE m = "pointer"
  BY <1>3, <1>5 DEF Accepted
<1> QED BY <1>4, <1>5

\* write_byte has returned, or its caller goes to the end.
WriteDone(o, m, byte) ==
    at = o + 1 /\ scl = 0 /\ low = FALSE /\ Accepted(m, byte)

Fails(m) ==
    at = FailAt /\ scl = 0 /\ low = FALSE /\ result = "failed" /\ Ignored(m)

\* raw_i2c_write_byte, the acknowledge.
LEMMA WriteAckStep ==
  ASSUME NEW o \in Nat, NEW m \in {"address", "pointer"}, NEW byte \in Byte,
         m = "address" => \A i \in 1..AddressBits : byte[i] = Address[i],
         Lies(raw_i2c_write_byte(byte), o), InWriteAck(o, m, byte), Step
  PROVE  /\ Quiet /\ UNCHANGED <<bits, settled, kills, sensor, file>>
         /\ m = "address" => ptr' = ptr
         /\ \/ result' = result /\ InWrite(o, m, byte)'
            \/ result' = result /\ WriteDone(o + WriteLen, m, byte)'
            \/ Fails(m)'
<1> DEFINE w == raw_i2c_write_byte(byte)
           p == 3 * ByteBits
<1>1. ByteBits \in Nat /\ ByteBits >= 3 /\ p \in Nat /\ WriteLen = p + 7
  BY Widths DEF WriteLen
<1>2. /\ Len(w) = WriteLen /\ w[p + 1] = "scl0" /\ w[p + 2] = "release" /\ w[p + 3] = "scl1"
      /\ w[p + 4] = "release" /\ w[p + 5] = "ack" /\ w[p + 6] = "scl0" /\ w[p + 7] = "check"
  BY WriteOperations
<1>3. \/ /\ at = o + (p + 1) /\ scl = 1 /\ low \in BOOLEAN /\ pull = FALSE
         /\ mode = m /\ count = ByteBits /\ Taken(shift, byte, ByteBits)
      \/ at = o + (p + 2) /\ scl = 0 /\ low \in BOOLEAN /\ Answered(m, byte, ByteBits)
      \/ at = o + (p + 3) /\ scl = 0 /\ low = FALSE /\ Answered(m, byte, ByteBits)
      \/ at = o + (p + 4) /\ scl = 1 /\ low = FALSE /\ Answered(m, byte, ByteBits + 1)
      \/ at = o + (p + 5) /\ scl = 1 /\ low = FALSE /\ Answered(m, byte, ByteBits + 1)
      \/ /\ at = o + (p + 6) /\ scl = 1 /\ low = FALSE /\ acked = pull
         /\ Answered(m, byte, ByteBits + 1)
      \/ /\ at = o + (p + 7) /\ scl = 0 /\ low = FALSE
         /\ \/ acked = TRUE /\ Accepted(m, byte)
            \/ acked = FALSE /\ Ignored(m)
  BY DEF InWriteAck
<1> HIDE DEF w, p
<1>4. /\ Program[o + (p + 1)] = "scl0" /\ Program[o + (p + 2)] = "release"
      /\ Program[o + (p + 3)] = "scl1" /\ Program[o + (p + 4)] = "release"
      /\ Program[o + (p + 5)] = "ack" /\ Program[o + (p + 6)] = "scl0"
      /\ Program[o + (p + 7)] = "check"
  <2>1. {p + 1, p + 2, p + 3, p + 4, p + 5, p + 6, p + 7} \subseteq 1..WriteLen
    BY <1>1
  <2>2. Lies(w, o)
    BY DEF w
  <2> QED BY <1>2, <2>1, <2>2 DEF Lies
<1>5. at # 0
  BY <1>1, <1>3
<1>6. \A c : UNCHANGED slave /\ Answered(m, byte, c) => Answered(m, byte, c)'
  BY DEF slave, Answered, Ignored, Here, Taken
<1>7. \A c : Answered(m, byte, c) => pull \in BOOLEAN
  BY DEF Answered, Ignored
<1>8. CASE /\ at = o + (p + 1) /\ scl = 1 /\ low \in BOOLEAN /\ pull = FALSE
           /\ mode = m /\ count = ByteBits /\ Taken(shift, byte, ByteBits)
  <2>1. Moves /\ Quiet /\ scl' = 0 /\ low' = low /\ Fall
    BY <1>4, <1>5, <1>8, LowersClock
  <2>2. Answered(m, byte, ByteBits)' /\ UNCHANGED <<sensor, file, ptr>>
    BY <1>8, <2>1, Acknowledges
  <2>3. at' = o + (p + 2)
    BY <1>1, <1>8, <2>1 DEF Moves
  <2>4. InWriteAck(o, m, byte)'
    BY <1>8, <2>1, <2>2, <2>3 DEF InWriteAck, p
  <2> QED BY <2>1, <2>2, <2>4 DEF Moves, InWrite
<1>9. CASE at = o + (p + 2) /\ scl = 0 /\ low \in BOOLEAN /\ Answered(m, byte, ByteBits)
  <2>1. Moves /\ Quiet /\ scl' = 0 /\ low' = FALSE /\ UNCHANGED slave
    BY <1>4, <1>5, <1>9, KeepsData
  <2>2. at' = o + (p + 3)
    BY <1>1, <1>9, <2>1 DEF Moves
  <2>3. InWriteAck(o, m, byte)'
    BY <1>6, <1>9, <2>1, <2>2 DEF InWriteAck, p
  <2> QED BY <2>1, <2>3 DEF Moves, InWrite, slave
<1>10. CASE at = o + (p + 3) /\ scl = 0 /\ low = FALSE /\ Answered(m, byte, ByteBits)
  <2>1. Moves /\ Quiet /\ scl' = 1 /\ low' = FALSE /\ Rise(Wire(low, pull))
    BY <1>4, <1>5, <1>10, RaisesClock
  <2>2. at' = o + (p + 4)
    BY <1>1, <1>10, <2>1 DEF Moves
  <2>3. Answered(m, byte, ByteBits + 1)'
    <3>1. CASE Ignored(m)
      <4>1. UNCHANGED slave
        BY <2>1, <3>1, SensorStays DEF Ignored
      <4> QED BY <3>1, <4>1 DEF Answered, Ignored, slave, Here
    <3>2. CASE /\ mode = m /\ count = ByteBits /\ Taken(shift, byte, ByteBits) /\ pull = TRUE
               /\ m = "address" => Here
      <4>1. mode # "idle" /\ mode # "send" /\ ~ (count < ByteBits)
        BY <1>1, <3>2
      <4>2. /\ count' = ByteBits + 1 /\ shift' = shift
            /\ UNCHANGED <<sensor, file, mode, ptr, pull>>
        BY <2>1, <3>2, <4>1 DEF Rise
      <4> QED BY <3>2, <4>2 DEF Answered, Taken, Here
    <3> QED BY <1>10, <3>1, <3>2 DEF Answered
  <2>4. UNCHANGED <<sensor, file, ptr>>
    BY <2>1 DEF Rise
  <2>5. InWriteAck(o, m, byte)'
    BY <2>1, <2>2, <2>3 DEF InWriteAck, p
  <2> QED BY <2>1, <2>4, <2>5 DEF Moves, InWrite
<1>11. CASE at = o + (p + 4) /\ scl = 1 /\ low = FALSE /\ Answered(m, byte, ByteBits + 1)
  <2>1. Moves /\ Quiet /\ scl' = 1 /\ low' = FALSE /\ UNCHANGED slave
    BY <1>4, <1>5, <1>11, KeepsData
  <2>2. at' = o + (p + 5)
    BY <1>1, <1>11, <2>1 DEF Moves
  <2>3. InWriteAck(o, m, byte)'
    BY <1>6, <1>11, <2>1, <2>2 DEF InWriteAck, p
  <2> QED BY <2>1, <2>3 DEF Moves, InWrite, slave
<1>12. CASE at = o + (p + 5) /\ scl = 1 /\ low = FALSE /\ Answered(m, byte, ByteBits + 1)
  <2>1. /\ acked' = (SDA = 0) /\ at' = o + (p + 5) + 1 /\ Quiet
        /\ UNCHANGED <<bits, result, settled, kills, pins, slave>>
    BY <1>4, <1>5, <1>12, Reads
  <2>2. at' = o + (p + 6) /\ scl' = 1 /\ low' = FALSE
    BY <1>1, <1>12, <2>1 DEF pins
  <2>3. acked' = pull'
    <3>1. pull \in BOOLEAN /\ pull' = pull
      BY <1>7, <1>12, <2>1 DEF slave
    <3>2. (SDA = 0) = pull
      BY <1>12, <3>1 DEF SDA, Wire
    <3> QED BY <2>1, <3>1, <3>2
  <2>4. Answered(m, byte, ByteBits + 1)'
    BY <1>6, <1>12, <2>1
  <2>5. InWriteAck(o, m, byte)'
    BY <2>2, <2>3, <2>4 DEF InWriteAck, p
  <2> QED BY <2>1, <2>5 DEF InWrite, slave
<1>13. CASE /\ at = o + (p + 6) /\ scl = 1 /\ low = FALSE /\ acked = pull
            /\ Answered(m, byte, ByteBits + 1)
  <2>1. Moves /\ Quiet /\ scl' = 0 /\ low' = FALSE /\ Fall
    BY <1>4, <1>5, <1>13, LowersClock
  <2>2. at' = o + (p + 7)
    BY <1>1, <1>13, <2>1 DEF Moves
  <2>3. CASE Ignored(m)
    <3>1. UNCHANGED slave
      BY <2>1, <2>3, SensorStays DEF Ignored
    <3>2. Ignored(m)' /\ acked' = FALSE
      BY <1>13, <2>1, <2>3, <3>1 DEF Ignored, slave, Here, Moves
    <3>3. InWriteAck(o, m, byte)'
      BY <2>1, <2>2, <3>2 DEF InWriteAck, p
    <3> QED BY <2>1, <3>1, <3>3 DEF Moves, InWrite, slave
  <2>4. CASE /\ mode = m /\ count = ByteBits + 1 /\ Taken(shift, byte, ByteBits) /\ pull = TRUE
             /\ m = "address" => Here
    <3>1. /\ Accepted(m, byte)' /\ UNCHANGED <<sensor, file>>
          /\ m = "address" => ptr' = ptr
      BY <2>1, <2>4, Accepts
    <3>2. acked' = TRUE
      BY <1>13, <2>1, <2>4 DEF Moves
    <3>3. InWriteAck(o, m, byte)'
      BY <2>1, <2>2, <3>1, <3>2 DEF InWriteAck, p
    <3> QED BY <2>1, <3>1, <3>3 DEF Moves, InWrite
  <2> QED BY <1>13, <2>3, <2>4 DEF Answered
<1>14. CASE /\ at = o + (p + 7) /\ scl = 0 /\ low = FALSE
            /\ \/ acked = TRUE /\ Accepted(m, byte)
               \/ acked = FALSE /\ Ignored(m)
  <2>1. CheckAck /\ Quiet
    BY <1>4, <1>5, <1>14, Reads
  <2>2. /\ at' = IF acked THEN at + 1 ELSE FailAt
        /\ result' = IF acked THEN result ELSE "failed"
        /\ UNCHANGED <<bits, settled, kills, sensor, file, mode, count, shift, ptr, pull, scl, low>>
    BY <2>1 DEF CheckAck, pins, slave
  <2>3. CASE acked = TRUE /\ Accepted(m, byte)
    <3>1. at' = o + WriteLen + 1 /\ result' = result
      BY <1>1, <1>14, <2>2, <2>3
    <3>2. Accepted(m, byte)'
      BY <2>2, <2>3 DEF Accepted, Here, SentBit
    <3>3. WriteDone(o + WriteLen, m, byte)'
      BY <1>14, <2>2, <3>1, <3>2 DEF WriteDone
    <3> QED BY <2>1, <2>2, <3>1, <3>3
  <2>4. CASE acked = FALSE /\ Ignored(m)
    <3>1. Fails(m)'
      BY <1>14, <2>2, <2>4 DEF Fails, Ignored, Here
    <3> QED BY <2>1, <2>2, <3>1
  <2> QED BY <1>14, <2>3, <2>4
<1> QED BY ONLY <1>3, <1>8, <1>9, <1>10, <1>11, <1>12, <1>13, <1>14, Zenon

\* What is read stays read while neither it nor the registers change.
LEMMA GotStays ==
  ASSUME NEW k, bits' = bits, file' = file, settled' = settled
  PROVE  Got(k)' = Got(k)
  BY DEF Got, Wanted, Sure

\* The sensor's state at a bit, and its next one at a falling clock.
LEMMA SendsBit ==
  ASSUME NEW r \in 0..3, NEW b \in 1..ByteBits, Sending(r, b - 1), Fall
  PROVE  /\ Sending(r, b - 1)' /\ pull' = SentBit(r, b) /\ UNCHANGED <<sensor, file>>
<1>1. b \in Nat /\ b - 1 + 1 = b /\ b - 1 < ByteBits /\ ByteBits \in Nat
  BY Widths
<1>2. mode = "send" /\ ptr = r /\ count = b - 1
  BY DEF Sending
<1>3. count < ByteBits /\ count # ByteBits /\ count # ByteBits + 1 /\ count + 1 = b
  BY <1>1, <1>2
<1>4. Send
  BY <1>2 DEF Fall, Acknowledge, Accept, Receiving
<1>5. /\ pull' = SentBit(ptr, count + 1) /\ UNCHANGED <<mode, count, shift, ptr, sensor, file>>
  BY <1>3, <1>4 DEF Send
<1> QED BY <1>2, <1>3, <1>5 DEF Sending

\* raw_i2c_read_byte, the bits: to the next, or to the answer.
LEMMA ReadBitStep ==
  ASSUME NEW o \in Nat, NEW ack \in BOOLEAN, NEW r \in 0..3, NEW k \in Nat,
         file \in [0..3 -> Byte], \A b \in 1..ByteBits : Sure(k + b) => Wanted[k + b] = file[r][b],
         Lies(raw_i2c_read_byte(ack), o),
         NEW b \in 1..ByteBits, InReadBit(o, r, k, b), Step
  PROVE  /\ InRead(o, ack, r, k)'
         /\ Quiet /\ UNCHANGED <<result, settled, kills, sensor, file>>
<1> DEFINE w == raw_i2c_read_byte(ack)
           p == 5 * (b - 1)
<1>1. ByteBits \in Nat /\ ByteBits >= 3 /\ b \in Nat /\ p \in Nat /\ p + 6 <= 5 * ByteBits + 1
      /\ ReadLen = 5 * ByteBits + 6 /\ k + (b - 1) \in Nat /\ k + (b - 1) + 1 = k + b
  BY Widths DEF ReadLen
<1>2. /\ Len(w) = ReadLen /\ w[p + 2] = "scl0" /\ w[p + 3] = "release" /\ w[p + 4] = "scl1"
      /\ w[p + 5] = "release" /\ w[p + 6] = "bit"
  BY ReadOperations
<1>3. /\ low = FALSE /\ Got(k + (b - 1))
      /\ \/ /\ at = o + (p + 2) /\ Sending(r, b - 1)
            /\ \/ scl = 0 /\ pull = SentBit(r, b)
               \/ scl = 1 /\ pull \in BOOLEAN
         \/ /\ at = o + (p + 3) /\ Sending(r, b - 1) /\ scl = 0 /\ pull = SentBit(r, b)
         \/ /\ at = o + (p + 4) /\ Sending(r, b - 1) /\ scl = 0 /\ pull = SentBit(r, b)
         \/ /\ at = o + (p + 5) /\ Sending(r, b) /\ scl = 1 /\ pull = SentBit(r, b)
         \/ /\ at = o + (p + 6) /\ Sending(r, b) /\ scl = 1 /\ pull = SentBit(r, b)
  BY DEF InReadBit
<1> HIDE DEF w, p
<1>4. /\ Program[o + (p + 2)] = "scl0" /\ Program[o + (p + 3)] = "release"
      /\ Program[o + (p + 4)] = "scl1" /\ Program[o + (p + 5)] = "release"
      /\ Program[o + (p + 6)] = "bit"
  <2>1. {p + 2, p + 3, p + 4, p + 5, p + 6} \subseteq 1..ReadLen
    BY <1>1
  <2>2. Lies(w, o)
    BY DEF w
  <2> QED BY <1>2, <2>1, <2>2 DEF Lies
<1>5. at # 0 /\ mode = "send" /\ ptr = r
  BY <1>1, <1>3 DEF Sending
<1>6. \A c : UNCHANGED slave => Sending(r, c)' = Sending(r, c) /\ SentBit(r, b)' = SentBit(r, b)
  BY DEF slave, Sending, SentBit
<1>7. CASE /\ at = o + (p + 2) /\ Sending(r, b - 1)
           /\ \/ scl = 0 /\ pull = SentBit(r, b)
              \/ scl = 1 /\ pull \in BOOLEAN
  <2>1. /\ Moves /\ Quiet /\ scl' = 0 /\ low' = FALSE
        /\ scl = 0 => UNCHANGED slave
        /\ scl = 1 => Fall
    BY <1>3, <1>4, <1>5, <1>7, LowersClock
  <2>2. /\ Sending(r, b - 1)' /\ pull' = SentBit(r, b) /\ UNCHANGED <<sensor, file>>
    <3>1. CASE scl = 0 /\ pull = SentBit(r, b)
      BY <1>6, <1>7, <2>1, <3>1 DEF slave
    <3>2. CASE scl = 1
      BY <1>7, <2>1, <3>2, SendsBit
    <3> QED BY <1>7, <3>1, <3>2
  <2>3. at' = o + (p + 3)
    BY <1>1, <1>7, <2>1 DEF Moves
  <2>4. Got(k + (b - 1))' /\ SentBit(r, b)' = SentBit(r, b)
    BY <1>3, <2>1, <2>2, GotStays DEF Moves, SentBit
  <2>5. InReadBit(o, r, k, b)'
    BY <2>1, <2>2, <2>3, <2>4 DEF InReadBit, p
  <2> QED BY <2>1, <2>2, <2>5 DEF Moves, InRead
<1>8. CASE /\ at = o + (p + 3) /\ Sending(r, b - 1) /\ scl = 0 /\ pull = SentBit(r, b)
  <2>1. Moves /\ Quiet /\ scl' = 0 /\ low' = FALSE /\ UNCHANGED slave
    BY <1>3, <1>4, <1>5, <1>8, KeepsData
  <2>2. at' = o + (p + 4)
    BY <1>1, <1>8, <2>1 DEF Moves
  <2>3. Got(k + (b - 1))' /\ Sending(r, b - 1)' /\ pull' = SentBit(r, b)'
    BY <1>3, <1>6, <1>8, <2>1, GotStays DEF Moves, slave
  <2>4. InReadBit(o, r, k, b)'
    BY <2>1, <2>2, <2>3 DEF InReadBit, p
  <2> QED BY <2>1, <2>4 DEF Moves, InRead, slave
<1>9. CASE /\ at = o + (p + 4) /\ Sending(r, b - 1) /\ scl = 0 /\ pull = SentBit(r, b)
  <2>1. Moves /\ Quiet /\ scl' = 1 /\ low' = FALSE /\ Rise(Wire(low, pull))
    BY <1>3, <1>4, <1>5, <1>9, RaisesClock
  <2>2. at' = o + (p + 5)
    BY <1>1, <1>9, <2>1 DEF Moves
  <2>3. count' = b /\ UNCHANGED <<sensor, file, mode, ptr, pull>>
    <3>1. count = b - 1 /\ count + 1 = b
      BY <1>1, <1>9 DEF Sending
    <3> QED BY <1>5, <2>1, <3>1 DEF Rise
  <2>4. Got(k + (b - 1))' /\ Sending(r, b)' /\ pull' = SentBit(r, b)'
    BY <1>3, <1>5, <1>9, <2>1, <2>3, GotStays DEF Moves, Sending, SentBit
  <2>5. InReadBit(o, r, k, b)'
    BY <2>1, <2>2, <2>4 DEF InReadBit, p
  <2> QED BY <2>1, <2>3, <2>5 DEF Moves, InRead
<1>10. CASE /\ at = o + (p + 5) /\ Sending(r, b) /\ scl = 1 /\ pull = SentBit(r, b)
  <2>1. Moves /\ Quiet /\ scl' = 1 /\ low' = FALSE /\ UNCHANGED slave
    BY <1>3, <1>4, <1>5, <1>10, KeepsData
  <2>2. at' = o + (p + 6)
    BY <1>1, <1>10, <2>1 DEF Moves
  <2>3. Got(k + (b - 1))' /\ Sending(r, b)' /\ pull' = SentBit(r, b)'
    BY <1>3, <1>6, <1>10, <2>1, GotStays DEF Moves, slave
  <2>4. InReadBit(o, r, k, b)'
    BY <2>1, <2>2, <2>3 DEF InReadBit, p
  <2> QED BY <2>1, <2>4 DEF Moves, InRead, slave
<1>11. CASE /\ at = o + (p + 6) /\ Sending(r, b) /\ scl = 1 /\ pull = SentBit(r, b)
  <2>1. /\ bits' = Append(bits, SDA) /\ at' = o + (p + 6) + 1 /\ Quiet
        /\ UNCHANGED <<acked, result, settled, kills, pins, slave>>
    BY <1>4, <1>5, <1>11, Reads
  <2>2. file[r][b] \in {0, 1} /\ SDA = file[r][b]
    <3>1. file[r][b] \in {0, 1}
      BY DEF Byte
    <3>2. SDA = IF file[r][b] = 0 THEN 0 ELSE 1
      BY <1>3, <1>11 DEF SDA, Wire, SentBit
    <3> QED BY <3>1, <3>2
  <2>3. Got(k + b)'
    <3>1. /\ bits \in Seq({0, 1}) /\ Len(bits) = k + (b - 1)
          /\ \A i \in 1..k + (b - 1) : Sure(i) => bits[i] = Wanted[i]
      BY <1>3 DEF Got
    <3>2. /\ bits' \in Seq({0, 1}) /\ Len(bits') = k + (b - 1) + 1
          /\ \A i \in 1..k + (b - 1) : bits'[i] = bits[i]
          /\ bits'[k + (b - 1) + 1] = file[r][b]
      BY <2>1, <2>2, <3>1, AppendProperties
    <3>3. /\ Wanted' = Wanted /\ (Sure(k + b) => Wanted[k + b] = file[r][b])
          /\ \A i : Sure(i)' = Sure(i)
      BY <2>1 DEF Wanted, Sure, slave
    <3>4. \A i \in 1..k + b : i \in 1..k + (b - 1) \/ i = k + b
      BY <1>1
    <3>5. \A i \in 1..k + b : Sure(i) => bits'[i] = Wanted[i]
      BY <1>1, <3>1, <3>2, <3>3, <3>4
    <3> QED BY <1>1, <3>2, <3>3, <3>5 DEF Got
  <2>4. scl' = 1 /\ low' = FALSE /\ pull' \in BOOLEAN /\ Sending(r, b)'
    BY <1>3, <1>6, <1>11, <2>1 DEF pins, slave, SentBit
  <2>5. CASE b < ByteBits
    <3>1. b + 1 \in 1..ByteBits /\ b + 1 - 1 = b
      BY <1>1, <2>5
    <3>2. at' = o + (5 * (b + 1 - 1) + 2)
      BY <1>1, <2>1 DEF p
    <3>3. InReadBit(o, r, k, b + 1)'
      BY <2>3, <2>4, <3>1, <3>2 DEF InReadBit
    <3>4. InRead(o, ack, r, k)'
      BY <3>1, <3>3 DEF InRead
    <3> QED BY <2>1, <3>4 DEF slave
  <2>6. CASE b = ByteBits
    <3>0. p + 5 = 5 * ByteBits
      BY <1>1, <2>6 DEF p
    <3>1. at' = o + (5 * ByteBits + 2)
      BY <1>1, <2>1, <3>0
    <3>2. InReadAck(o, ack, r, k)'
      BY <2>3, <2>4, <2>6, <3>1 DEF InReadAck
    <3> QED BY <2>1, <3>2 DEF InRead, slave
  <2> QED BY <1>1, <2>5, <2>6
<1> QED BY ONLY <1>3, <1>7, <1>8, <1>9, <1>10, <1>11, Zenon

\* The clock falls after the last bit sent, and after the answer.
LEMMA SendsNoMore ==
  ASSUME NEW r, Sending(r, ByteBits), Fall
  PROVE  Sending(r, ByteBits)' /\ pull' = FALSE /\ UNCHANGED <<sensor, file>>
<1>1. mode = "send" /\ ptr = r /\ count = ByteBits
  BY DEF Sending
<1>2. ~ (count < ByteBits) /\ count # ByteBits + 1
  BY <1>1, Widths
<1>3. Send
  BY <1>1 DEF Fall, Acknowledge, Accept, Receiving
<1> QED BY <1>1, <1>2, <1>3 DEF Send, Sending

LEMMA HeedsAnswer ==
  ASSUME NEW r, NEW ack \in BOOLEAN, Sending(r, ByteBits + 1),
         shift = <<Wire(ack, FALSE)>>, Fall
  PROVE  Answer(ack, r)' /\ UNCHANGED <<sensor, file>>
<1>1. mode = "send" /\ ptr = r /\ count = ByteBits + 1
  BY DEF Sending
<1>2. ~ (count < ByteBits) /\ count # ByteBits
  BY <1>1, Widths
<1>3. Send
  BY <1>1 DEF Fall, Acknowledge, Accept, Receiving
<1>4. /\ count' = 0 /\ ptr' = (r + 1) % 4
      /\ mode' = IF shift = <<0>> THEN "send" ELSE "idle"
      /\ pull' = (mode' = "send" /\ SentBit(ptr', 1))
      /\ UNCHANGED <<sensor, file>>
  BY <1>1, <1>2, <1>3 DEF Send
<1>5. SentBit(ptr', 1) = SentBit(ptr, 1)'
  BY <1>4 DEF SentBit
<1>6. CASE ack = TRUE
  <2>1. Wire(ack, FALSE) = 0
    BY <1>6 DEF Wire
  <2>2. mode' = "send"
    BY <1>4, <2>1
  <2>3. pull' = SentBit(ptr', 1)
    BY <1>4, <2>2 DEF SentBit
  <2> QED BY <1>4, <1>5, <1>6, <2>2, <2>3 DEF Answer, Sending
<1>7. CASE ack = FALSE
  <2>1. Wire(ack, FALSE) = 1
    BY <1>7 DEF Wire
  <2>2. shift # <<0>>
    <3>1. shift[1] = 1
      BY <2>1
    <3>2. shift = <<0>> => shift[1] = 0
      OBVIOUS
    <3>3. 1 # 0
      OBVIOUS
    <3> QED BY ONLY <3>1, <3>2, <3>3, Zenon
  <2>3. mode' = "idle"
    BY <1>4, <2>2
  <2> QED BY <1>4, <1>7, <2>3 DEF Answer
<1> QED BY <1>6, <1>7

\* read_byte has returned.
ReadDone(o, ack, r, k) ==
    at = o + 1 /\ scl = 0 /\ low = FALSE /\ Answer(ack, r) /\ Got(k + ByteBits)

\* raw_i2c_read_byte, the answer.
LEMMA ReadAckStep ==
  ASSUME NEW o \in Nat, NEW ack \in BOOLEAN, NEW r \in 0..3, NEW k \in Nat,
         Lies(raw_i2c_read_byte(ack), o), InReadAck(o, ack, r, k), Step
  PROVE  /\ InRead(o, ack, r, k)' \/ ReadDone(o + ReadLen, ack, r, k)'
         /\ Quiet /\ UNCHANGED <<result, settled, kills, sensor, file>>
<1> DEFINE w == raw_i2c_read_byte(ack)
           p == 5 * ByteBits
<1>1. ByteBits \in Nat /\ p \in Nat /\ ReadLen = p + 6
  BY Widths DEF ReadLen
<1>2. /\ Len(w) = ReadLen /\ w[p + 2] = "scl0"
      /\ w[p + 3] = IF ack THEN "low" ELSE "release"
      /\ w[p + 4] = "scl1" /\ w[p + 5] = "scl0" /\ w[p + 6] = "release"
  BY ReadOperations
<1>3. /\ Got(k + ByteBits)
      /\ \/ /\ at = o + (p + 2) /\ scl = 1 /\ low = FALSE /\ pull \in BOOLEAN
            /\ Sending(r, ByteBits)
         \/ /\ at = o + (p + 3) /\ scl = 0 /\ low = FALSE /\ pull = FALSE
            /\ Sending(r, ByteBits)
         \/ /\ at = o + (p + 4) /\ scl = 0 /\ low = ack /\ pull = FALSE
            /\ Sending(r, ByteBits)
         \/ /\ at = o + (p + 5) /\ scl = 1 /\ low = ack /\ pull = FALSE
            /\ Sending(r, ByteBits + 1) /\ shift = <<Wire(ack, FALSE)>>
         \/ at = o + (p + 6) /\ scl = 0 /\ low = ack /\ Answer(ack, r)
  BY DEF InReadAck
<1> HIDE DEF w, p
<1>4. /\ Program[o + (p + 2)] = "scl0"
      /\ Program[o + (p + 3)] = IF ack THEN "low" ELSE "release"
      /\ Program[o + (p + 4)] = "scl1" /\ Program[o + (p + 5)] = "scl0"
      /\ Program[o + (p + 6)] = "release"
  <2>1. {p + 2, p + 3, p + 4, p + 5, p + 6} \subseteq 1..ReadLen
    BY <1>1
  <2>2. Lies(w, o)
    BY DEF w
  <2> QED BY <1>2, <2>1, <2>2 DEF Lies
<1>5. at # 0
  <2>1. \/ at = o + (p + 2) \/ at = o + (p + 3) \/ at = o + (p + 4)
        \/ at = o + (p + 5) \/ at = o + (p + 6)
    BY ONLY <1>3, Zenon
  <2> QED BY <1>1, <2>1
<1>6. CASE /\ at = o + (p + 2) /\ scl = 1 /\ low = FALSE /\ pull \in BOOLEAN
           /\ Sending(r, ByteBits)
  <2>1. Moves /\ Quiet /\ scl' = 0 /\ low' = FALSE /\ Fall
    BY <1>4, <1>5, <1>6, LowersClock
  <2>2. Sending(r, ByteBits)' /\ pull' = FALSE /\ UNCHANGED <<sensor, file>>
    BY <1>6, <2>1, SendsNoMore
  <2>3. at' = o + (p + 3)
    BY <1>1, <1>6, <2>1 DEF Moves
  <2>4. Got(k + ByteBits)'
    BY <1>3, <2>1, <2>2, GotStays DEF Moves
  <2>5. InReadAck(o, ack, r, k)'
    BY <2>1, <2>2, <2>3, <2>4 DEF InReadAck, p
  <2> QED BY <2>1, <2>2, <2>5 DEF Moves, InRead
<1>7. CASE /\ at = o + (p + 3) /\ scl = 0 /\ low = FALSE /\ pull = FALSE
           /\ Sending(r, ByteBits)
  <2>1. Program[at] \in {"release", "low"} /\ (Program[at] = "low") = ack
    BY <1>4, <1>7
  <2>2. Moves /\ Quiet /\ scl' = 0 /\ low' = ack /\ UNCHANGED slave
    BY <1>5, <1>7, <2>1, KeepsData
  <2>3. at' = o + (p + 4)
    BY <1>1, <1>7, <2>2 DEF Moves
  <2>4. Got(k + ByteBits)' /\ Sending(r, ByteBits)' /\ pull' = FALSE
    BY <1>3, <1>7, <2>2, GotStays DEF Moves, slave, Sending
  <2>5. InReadAck(o, ack, r, k)'
    BY <2>2, <2>3, <2>4 DEF InReadAck, p
  <2> QED BY <2>2, <2>5 DEF Moves, InRead, slave
<1>8. CASE /\ at = o + (p + 4) /\ scl = 0 /\ low = ack /\ pull = FALSE
           /\ Sending(r, ByteBits)
  <2>1. Moves /\ Quiet /\ scl' = 1 /\ low' = low /\ Rise(Wire(low, pull))
    BY <1>4, <1>5, <1>8, RaisesClock
  <2>2. Wire(low, pull) = Wire(ack, FALSE)
    BY <1>8 DEF Wire
  <2>3. /\ count' = ByteBits + 1 /\ shift' = <<Wire(ack, FALSE)>>
        /\ UNCHANGED <<sensor, file, mode, ptr, pull>>
    <3>1. mode = "send" /\ count = ByteBits
      BY <1>8 DEF Sending
    <3> QED BY <2>1, <2>2, <3>1 DEF Rise
  <2>4. at' = o + (p + 5)
    BY <1>1, <1>8, <2>1 DEF Moves
  <2>5. Got(k + ByteBits)' /\ Sending(r, ByteBits + 1)'
    BY <1>3, <1>8, <2>1, <2>3, GotStays DEF Moves, Sending
  <2>6. low' = ack /\ pull' = FALSE
    BY <1>8, <2>1, <2>3
  <2>7. InReadAck(o, ack, r, k)'
    BY <2>1, <2>3, <2>4, <2>5, <2>6 DEF InReadAck, p, Wire
  <2> QED BY <2>1, <2>3, <2>7 DEF Moves, InRead
<1>9. CASE /\ at = o + (p + 5) /\ scl = 1 /\ low = ack /\ pull = FALSE
           /\ Sending(r, ByteBits + 1) /\ shift = <<Wire(ack, FALSE)>>
  <2>1. Moves /\ Quiet /\ scl' = 0 /\ low' = low /\ Fall
    BY <1>4, <1>5, <1>9, LowersClock
  <2>2. Answer(ack, r)' /\ UNCHANGED <<sensor, file>>
    BY <1>9, <2>1, HeedsAnswer
  <2>3. at' = o + (p + 6)
    BY <1>1, <1>9, <2>1 DEF Moves
  <2>4. Got(k + ByteBits)' /\ low' = ack
    BY <1>3, <1>9, <2>1, <2>2, GotStays DEF Moves
  <2>5. InReadAck(o, ack, r, k)'
    BY <2>1, <2>2, <2>3, <2>4 DEF InReadAck, p
  <2> QED BY <2>1, <2>2, <2>5 DEF Moves, InRead
<1>10. CASE at = o + (p + 6) /\ scl = 0 /\ low = ack /\ Answer(ack, r)
  <2>1. Moves /\ Quiet /\ scl' = 0 /\ low' = FALSE /\ UNCHANGED slave
    BY <1>4, <1>5, <1>10, KeepsData
  <2>2. at' = o + ReadLen + 1
    BY <1>1, <1>10, <2>1 DEF Moves
  <2>3. Got(k + ByteBits)' /\ Answer(ack, r)'
    BY <1>3, <1>10, <2>1, GotStays DEF Moves, slave, Answer, Sending, SentBit
  <2>4. ReadDone(o + ReadLen, ack, r, k)'
    BY <2>1, <2>2, <2>3 DEF ReadDone
  <2> QED BY <2>1, <2>4 DEF Moves, slave
<1> QED BY ONLY <1>3, <1>6, <1>7, <1>8, <1>9, <1>10, Zenon

\* raw_i2c_read_byte begins when the sensor has been told to send.
ReadBegins(o, r, k) ==
    /\ at = o + 1 /\ scl = 0 /\ low = FALSE /\ Got(k)
    /\ Sending(r, 0) /\ pull = SentBit(r, 1)

\* raw_i2c_read_byte.
LEMMA ReadStep ==
  ASSUME NEW o \in Nat, NEW ack \in BOOLEAN, NEW r \in 0..3, NEW k \in Nat,
         file \in [0..3 -> Byte], \A b \in 1..ByteBits : Sure(k + b) => Wanted[k + b] = file[r][b],
         Lies(raw_i2c_read_byte(ack), o), InRead(o, ack, r, k), Step
  PROVE  /\ InRead(o, ack, r, k)' \/ ReadDone(o + ReadLen, ack, r, k)'
         /\ Quiet /\ UNCHANGED <<result, settled, kills, sensor, file>>
<1>1. CASE ReadBegins(o, r, k)
  <2>1. Program[o + 1] = "release"
    <3>1. Len(raw_i2c_read_byte(ack)) = ReadLen /\ raw_i2c_read_byte(ack)[1] = "release"
      BY ReadOperations
    <3>2. 1 \in 1..ReadLen
      BY Widths DEF ReadLen
    <3> QED BY <3>1, <3>2 DEF Lies
  <2>2. at # 0 /\ at = o + 1 /\ scl = 0 /\ low = FALSE /\ Got(k)
    BY <1>1 DEF ReadBegins
  <2>3. Moves /\ Quiet /\ scl' = 0 /\ low' = FALSE /\ UNCHANGED slave
    BY <2>1, <2>2, KeepsData
  <2>4. 1 \in 1..ByteBits /\ at' = o + (5 * (1 - 1) + 2) /\ k + (1 - 1) = k /\ 1 - 1 = 0
    BY <2>2, <2>3, Widths DEF Moves
  <2>5. Got(k)' /\ Sending(r, 0)' /\ pull' = SentBit(r, 1)'
    BY <1>1, <2>3, GotStays DEF Moves, slave, Sending, SentBit, ReadBegins
  <2>6. InReadBit(o, r, k, 1)'
    BY <2>3, <2>4, <2>5 DEF InReadBit
  <2> QED BY <2>3, <2>4, <2>6 DEF InRead, Moves, slave
<1>2. ASSUME NEW b \in 1..ByteBits, InReadBit(o, r, k, b)
      PROVE  /\ InRead(o, ack, r, k)'
             /\ Quiet /\ UNCHANGED <<result, settled, kills, sensor, file>>
  BY <1>2, ReadBitStep
<1>3. CASE InReadAck(o, ack, r, k)
  BY <1>3, ReadAckStep
<1>4. \/ ReadBegins(o, r, k) \/ InReadAck(o, ack, r, k)
      \/ \E b \in 1..ByteBits : InReadBit(o, r, k, b)
  BY DEF InRead, ReadBegins
<1> QED BY ONLY <1>1, <1>2, <1>3, <1>4, Zenon

\* raw_i2c_write_byte.
LEMMA WriteStep ==
  ASSUME NEW o \in Nat, NEW m \in {"address", "pointer"}, NEW byte \in Byte,
         m = "address" => \A i \in 1..AddressBits : byte[i] = Address[i],
         Lies(raw_i2c_write_byte(byte), o), InWrite(o, m, byte), Step
  PROVE  /\ Quiet /\ UNCHANGED <<bits, settled, kills, sensor, file>>
         /\ m = "address" => ptr' = ptr
         /\ \/ result' = result /\ InWrite(o, m, byte)'
            \/ result' = result /\ WriteDone(o + WriteLen, m, byte)'
            \/ Fails(m)'
<1>1. ASSUME NEW b \in 1..ByteBits, InWriteBit(o, m, byte, b)
      PROVE  InWrite(o, m, byte)' /\ Calm /\ ptr' = ptr
  BY <1>1, WriteBitStep
<1>2. CASE \E b \in 1..ByteBits : InWriteBit(o, m, byte, b)
  BY <1>1, <1>2 DEF Calm
<1>3. CASE InWriteAck(o, m, byte)
  BY <1>3, WriteAckStep
<1> QED BY <1>2, <1>3 DEF InWrite

\* raw_i2c_read_reg, up to its first read_byte.
LEMMA ReadRegStep ==
  ASSUME NEW o \in Nat, NEW r \in {0, 3}, NEW len \in {1, 2}, NEW k \in Nat,
         Lies(raw_i2c_read_reg(r, len), o), InReadReg(o, r, k), Step
  PROVE  /\ Quiet /\ UNCHANGED <<bits, settled, kills, sensor, file>>
         /\ \/ InReadReg(o, r, k)'
            \/ (ReadBegins(o + FetchFrom, r, k) /\ Here /\ result = "none")'
            \/ Fails("address")'
<1> DEFINE a0 == Append(Address, 0)
           a1 == Append(Address, 1)
           o1 == o + 4
           o2 == o + 4 + WriteLen
           o3 == o + 4 + 2 * WriteLen
           o4 == o + 8 + 2 * WriteLen
           o5 == o + FetchFrom
<1>1. /\ o1 \in Nat /\ o2 \in Nat /\ o3 \in Nat /\ o4 \in Nat /\ o5 \in Nat
      /\ o1 + WriteLen = o2 /\ o2 + WriteLen = o3 /\ o3 + 4 = o4 /\ o4 + WriteLen = o5
  BY Widths DEF WriteLen, FetchFrom
<1>2. /\ Lies(raw_i2c_start, o) /\ Lies(raw_i2c_write_byte(a0), o1)
      /\ Lies(raw_i2c_write_byte(Register(r)), o2) /\ Lies(raw_i2c_start, o3)
      /\ Lies(raw_i2c_write_byte(a1), o4)
  BY ReadRegOperations
<1>3. /\ a0 \in Byte /\ a0[ByteBits] = 0 /\ \A i \in 1..AddressBits : a0[i] = Address[i]
      /\ a1 \in Byte /\ a1[ByteBits] = 1 /\ \A i \in 1..AddressBits : a1[i] = Address[i]
      /\ Register(r) \in Byte /\ Value(Register(r)) = r
  BY WrittenBytes
<1>4. /\ Reading(k)
      /\ \/ InStart(o)
         \/ InWrite(o1, "address", a0)
         \/ InWrite(o2, "pointer", Register(r)) /\ Here
         \/ InStart(o3) /\ Here /\ ptr = r
         \/ InWrite(o4, "address", a1) /\ Here /\ ptr = r
  BY DEF InReadReg
<1>5. ASSUME /\ Reading(k)'
             /\ \/ InStart(o)'
                \/ InWrite(o1, "address", a0)'
                \/ InWrite(o2, "pointer", Register(r))' /\ Here'
                \/ InStart(o3)' /\ Here' /\ ptr' = r
                \/ InWrite(o4, "address", a1)' /\ Here' /\ ptr' = r
      PROVE  InReadReg(o, r, k)'
  BY <1>5 DEF InReadReg
<1>6. ASSUME bits' = bits, result' = result, settled' = settled, sensor' = sensor,
             file' = file
      PROVE  Reading(k)' /\ Here' = Here /\ result' = "none"
  BY <1>4, <1>6, GotStays DEF Reading, Here
<1> HIDE DEF a0, a1, o1, o2, o3, o4, o5
<1>7. CASE InStart(o)
  <2>1. (InStart(o)' \/ WriteBegins(o1, "address")') /\ Calm
    BY <1>2, <1>7, StartStep DEF o1
  <2>2. WriteBegins(o1, "address")' => InWrite(o1, "address", a0)'
    BY <1>1, WriteBeginsInWrite
  <2>3. Reading(k)'
    BY <1>6, <2>1 DEF Calm
  <2>4. InReadReg(o, r, k)'
    BY <1>5, <2>1, <2>2, <2>3
  <2> QED BY <2>1, <2>4 DEF Calm
<1>8. CASE InWrite(o1, "address", a0)
  <2>1. /\ Quiet /\ UNCHANGED <<bits, settled, kills, sensor, file>>
        /\ \/ result' = result /\ InWrite(o1, "address", a0)'
           \/ result' = result /\ WriteDone(o1 + WriteLen, "address", a0)'
           \/ Fails("address")'
    BY <1>1, <1>2, <1>3, <1>8, WriteStep
  <2>2. CASE result' = result /\ InWrite(o1, "address", a0)'
    <3>1. InReadReg(o, r, k)'
      BY <1>5, <1>6, <2>1, <2>2
    <3> QED BY <2>1, <3>1
  <2>3. CASE result' = result /\ WriteDone(o1 + WriteLen, "address", a0)'
    <3>1. WriteBegins(o2, "pointer")' /\ Here'
      <4>1. /\ at' = o2 + 1 /\ scl' = 0 /\ low' = FALSE /\ count' = 0 /\ shift' = <<>>
            /\ pull' = (mode' = "send" /\ SentBit(ptr, 1)') /\ Here'
        BY <1>1, <2>3 DEF WriteDone, Accepted
      <4>2. mode' = "pointer"
        BY <1>3, <2>3 DEF WriteDone, Accepted
      <4>3. pull' = FALSE
        BY <4>1, <4>2
      <4> QED BY <4>1, <4>2, <4>3 DEF WriteBegins
    <3>2. InWrite(o2, "pointer", Register(r))'
      BY <1>1, <3>1, WriteBeginsInWrite
    <3>3. InReadReg(o, r, k)'
      BY <1>5, <1>6, <2>1, <2>3, <3>1, <3>2
    <3> QED BY <2>1, <3>3
  <2> QED BY <2>1, <2>2, <2>3
<1>9. CASE InWrite(o2, "pointer", Register(r)) /\ Here
  <2>1. /\ Quiet /\ UNCHANGED <<bits, settled, kills, sensor, file>>
        /\ \/ result' = result /\ InWrite(o2, "pointer", Register(r))'
           \/ result' = result /\ WriteDone(o2 + WriteLen, "pointer", Register(r))'
           \/ Fails("pointer")'
    BY <1>1, <1>2, <1>3, <1>9, WriteStep
  <2>2. ~ Fails("pointer")'
    BY DEF Fails, Ignored
  <2>3. Here' /\ result' = result
    BY <1>9, <2>1, <2>2 DEF Here
  <2>4. CASE InWrite(o2, "pointer", Register(r))'
    <3>1. InReadReg(o, r, k)'
      BY <1>5, <1>6, <2>1, <2>3, <2>4
    <3> QED BY <2>1, <3>1
  <2>5. CASE WriteDone(o2 + WriteLen, "pointer", Register(r))'
    <3>1. InStart(o3)' /\ ptr' = r
      BY <1>1, <1>3, <2>5 DEF WriteDone, Accepted, InStart
    <3>2. InReadReg(o, r, k)'
      BY <1>5, <1>6, <2>1, <2>3, <3>1
    <3> QED BY <2>1, <3>2
  <2> QED BY <2>1, <2>2, <2>4, <2>5
<1>10. CASE InStart(o3) /\ Here /\ ptr = r
  <2>1. (InStart(o3)' \/ WriteBegins(o4, "address")') /\ Calm /\ ptr' = r
    BY <1>1, <1>2, <1>10, StartStep
  <2>2. WriteBegins(o4, "address")' => InWrite(o4, "address", a1)'
    BY <1>1, WriteBeginsInWrite
  <2>3. Reading(k)' /\ Here'
    BY <1>6, <1>10, <2>1 DEF Calm
  <2>4. InReadReg(o, r, k)'
    BY <1>5, <2>1, <2>2, <2>3
  <2> QED BY <2>1, <2>4 DEF Calm
<1>11. CASE InWrite(o4, "address", a1) /\ Here /\ ptr = r
  <2>1. /\ Quiet /\ UNCHANGED <<bits, settled, kills, sensor, file>> /\ ptr' = r
        /\ \/ result' = result /\ InWrite(o4, "address", a1)'
           \/ result' = result /\ WriteDone(o4 + WriteLen, "address", a1)'
           \/ Fails("address")'
    BY <1>1, <1>2, <1>3, <1>11, WriteStep
  <2>2. CASE result' = result /\ InWrite(o4, "address", a1)'
    <3>1. InReadReg(o, r, k)'
      BY <1>5, <1>6, <1>11, <2>1, <2>2
    <3> QED BY <2>1, <3>1
  <2>3. CASE result' = result /\ WriteDone(o4 + WriteLen, "address", a1)'
    <3>1. Reading(k)' /\ Here' /\ result' = "none"
      BY <1>6, <1>11, <2>1, <2>3
    <3>2. /\ at' = o5 + 1 /\ scl' = 0 /\ low' = FALSE /\ count' = 0 /\ mode' = "send"
          /\ pull' = (mode' = "send" /\ SentBit(ptr, 1)')
      BY <1>1, <1>3, <2>3 DEF WriteDone, Accepted
    <3>3. pull' = SentBit(r, 1)'
      BY <2>1, <3>2 DEF SentBit
    <3>4. ReadBegins(o5, r, k)'
      BY <2>1, <3>1, <3>2, <3>3 DEF ReadBegins, Sending, Reading
    <3> QED BY <2>1, <3>1, <3>4 DEF o5
  <2> QED BY <2>1, <2>2, <2>3
<1> QED BY ONLY <1>4, <1>7, <1>8, <1>9, <1>10, <1>11, Zenon

-----------------------------------------------------------------------------
(* The whole reading *)

\* The bits of the three registers, and what it is to have got them all.
LEMMA WantedBits ==
  ASSUME file \in [0..3 -> Byte]
  PROVE  /\ \A b \in 1..ByteBits : /\ Wanted[0 + b] = file[3][b]
                                   /\ Wanted[ByteBits + b] = file[0][b]
                                   /\ Wanted[2 * ByteBits + b] = file[1][b]
         /\ Got(3 * ByteBits) => TemperatureBits /\ (settled => RightBits)
<1> DEFINE S == {0, 1}
           a == file[3]
           b == file[0]
           c == file[1]
           p == a \o b
<1>1. ByteBits \in Nat
  BY Widths
<1>2. /\ a \in Seq(S) /\ Len(a) = ByteBits /\ b \in Seq(S) /\ Len(b) = ByteBits
      /\ c \in Seq(S) /\ Len(c) = ByteBits
  <2>1. \A f \in Byte : f \in Seq(S) /\ Len(f) = ByteBits
    BY <1>1 DEF Byte
  <2> QED BY <2>1
<1>3. Wanted = p \o c
  BY DEF Wanted
<1> HIDE DEF a, b, c, S
<1>4. /\ p \in Seq(S) /\ Len(p) = Len(a) + Len(b)
      /\ \A j \in 1..Len(a) : p[j] = a[j]
      /\ \A j \in 1..Len(b) : p[Len(a) + j] = b[j]
  <2>1. a \in Seq(S) /\ b \in Seq(S)
    BY <1>2
  <2> QED BY ONLY <2>1, ConcatElements
<1> HIDE DEF p
<1>5. /\ Wanted \in Seq(S) /\ Len(Wanted) = Len(p) + Len(c)
      /\ \A j \in 1..Len(p) : Wanted[j] = p[j]
      /\ \A j \in 1..Len(c) : Wanted[Len(p) + j] = c[j]
  <2>1. p \in Seq(S) /\ c \in Seq(S)
    BY <1>2, <1>4
  <2>2. /\ p \o c \in Seq(S) /\ Len(p \o c) = Len(p) + Len(c)
        /\ \A j \in 1..Len(p) : (p \o c)[j] = p[j]
        /\ \A j \in 1..Len(c) : (p \o c)[Len(p) + j] = c[j]
    BY ONLY <2>1, ConcatElements
  <2> QED BY <1>3, <2>2
<1>6. Len(p) = 2 * ByteBits /\ Len(Wanted) = 3 * ByteBits
  BY <1>1, <1>2, <1>4, <1>5
<1>7. ASSUME NEW i \in 1..ByteBits
      PROVE  /\ Wanted[0 + i] = a[i] /\ Wanted[ByteBits + i] = b[i]
             /\ Wanted[2 * ByteBits + i] = c[i]
  <2>1. /\ 0 + i = i /\ i \in 1..2 * ByteBits /\ ByteBits + i \in 1..2 * ByteBits
    BY <1>1
  <2>2. Wanted[i] = p[i] /\ Wanted[ByteBits + i] = p[ByteBits + i]
    BY <1>5, <1>6, <2>1
  <2>3. p[i] = a[i] /\ p[ByteBits + i] = b[i]
    BY <1>2, <1>4
  <2>4. Wanted[2 * ByteBits + i] = c[i]
    BY <1>2, <1>5, <1>6
  <2> QED BY <2>1, <2>2, <2>3, <2>4
<1>8. ASSUME Got(3 * ByteBits), settled PROVE RightBits
  <2>1. bits \in Seq(S) /\ Len(bits) = Len(Wanted) /\ \A i \in 1..Len(bits) : bits[i] = Wanted[i]
    BY <1>6, <1>8 DEF Got, Sure, S
  <2>2. bits = Wanted
    BY <1>5, <2>1, SeqEqual
  <2> QED BY <2>2 DEF RightBits, Wanted
<1>9. ASSUME Got(3 * ByteBits) PROVE TemperatureBits
  <2> DEFINE cfg == [i \in 1..ByteBits |-> bits[i]]
             q == cfg \o b
  <2>1. /\ bits \in Seq(S) /\ Len(bits) = 3 * ByteBits
        /\ \A i \in 1..Len(bits) : bits[i] \in S /\ (i > ByteBits => bits[i] = Wanted[i])
    BY <1>9 DEF Got, Sure, S
  <2>2. cfg \in Byte /\ cfg \in Seq(S) /\ Len(cfg) = ByteBits
        /\ \A i \in 1..ByteBits : cfg[i] = bits[i]
    BY <1>1, <2>1 DEF Byte, S
  <2> HIDE DEF cfg
  <2>3. /\ q \in Seq(S) /\ Len(q) = Len(cfg) + Len(b)
        /\ \A j \in 1..Len(cfg) : q[j] = cfg[j]
        /\ \A j \in 1..Len(b) : q[Len(cfg) + j] = b[j]
    <3>1. cfg \in Seq(S) /\ b \in Seq(S)
      BY <1>2, <2>2
    <3> QED BY ONLY <3>1, ConcatElements DEF q
  <2> HIDE DEF q
  <2>4. /\ q \o c \in Seq(S) /\ Len(q \o c) = Len(q) + Len(c)
        /\ \A j \in 1..Len(q) : (q \o c)[j] = q[j]
        /\ \A j \in 1..Len(c) : (q \o c)[Len(q) + j] = c[j]
    <3>1. q \in Seq(S) /\ c \in Seq(S)
      BY <1>2, <2>3
    <3> QED BY ONLY <3>1, ConcatElements
  <2>5. ASSUME NEW i \in 1..Len(bits) PROVE bits[i] = (q \o c)[i]
    <3>1. CASE i \in 1..ByteBits
      BY <1>1, <1>2, <2>2, <2>3, <2>4, <3>1
    <3>2. CASE i \in ByteBits + 1..2 * ByteBits
      <4>1. i - ByteBits \in 1..ByteBits /\ i = ByteBits + (i - ByteBits)
            /\ i \in 1..2 * ByteBits /\ i > ByteBits
        BY <1>1, <3>2
      <4>2. bits[i] = b[i - ByteBits]
        BY <1>7, <2>1, <4>1
      <4> QED BY <1>1, <1>2, <2>2, <2>3, <2>4, <4>1, <4>2
    <3>3. CASE i \in 2 * ByteBits + 1..3 * ByteBits
      <4>1. i - 2 * ByteBits \in 1..ByteBits /\ i = 2 * ByteBits + (i - 2 * ByteBits)
            /\ i > ByteBits
        BY <1>1, <3>3
      <4>2. bits[i] = c[i - 2 * ByteBits]
        BY <1>7, <2>1, <4>1
      <4> QED BY <1>1, <1>2, <2>2, <2>3, <2>4, <4>1, <4>2
    <3>4. i \in 1..3 * ByteBits
      BY <2>1
    <3>5. \/ i \in 1..ByteBits \/ i \in ByteBits + 1..2 * ByteBits
          \/ i \in 2 * ByteBits + 1..3 * ByteBits
      BY ONLY <1>1, <3>4
    <3> QED BY ONLY <3>1, <3>2, <3>3, <3>5
  <2>6. Len(bits) = Len(q \o c)
    BY <1>1, <1>2, <2>1, <2>2, <2>3, <2>4
  <2>7. bits = q \o c
    BY <2>1, <2>4, <2>5, <2>6, SeqEqual
  <2> QED BY <2>2, <2>7 DEF TemperatureBits, q, b, c
<1> QED BY <1>7, <1>8, <1>9 DEF a, b, c

\* Where the pieces of Program are that follow the first bytes of a read_reg.
LEMMA LatePieces ==
  /\ Fetch1 \in Nat /\ Stop1 \in Nat /\ Second \in Nat /\ Fetch2 \in Nat /\ Fetch3 \in Nat
  /\ Stop2 \in Nat /\ Stop3 \in Nat
  /\ Lies(raw_i2c_read_byte(FALSE), Fetch1) /\ Lies(raw_i2c_stop, Stop1)
  /\ Lies(raw_i2c_read_byte(TRUE), Fetch2) /\ Lies(raw_i2c_read_byte(FALSE), Fetch3)
  /\ Lies(raw_i2c_stop, Stop2)
<1>1. WriteLen \in Nat /\ ReadLen \in Nat /\ FetchFrom \in Nat
  BY Widths DEF WriteLen, ReadLen, FetchFrom
<1>2. /\ Fetch1 \in Nat /\ Stop1 \in Nat /\ Second \in Nat /\ Fetch2 \in Nat /\ Fetch3 \in Nat
      /\ Stop2 \in Nat /\ Stop3 \in Nat
  BY <1>1 DEF Fetch1, Stop1, Second, Fetch2, Fetch3, Stop2, Stop3
<1>3. Lies(raw_i2c_read_reg(3, 1), 3) /\ Lies(raw_i2c_read_reg(0, 2), Second)
  BY ProgramOperations
<1>4. /\ \A b \in 1..1 : Lies(raw_i2c_read_byte(b < 1), 3 + FetchFrom + (b - 1) * ReadLen)
      /\ Lies(raw_i2c_stop, 3 + FetchFrom + 1 * ReadLen)
  BY <1>3, ReadRegOperations
<1>5. /\ \A b \in 1..2 : Lies(raw_i2c_read_byte(b < 2), Second + FetchFrom + (b - 1) * ReadLen)
      /\ Lies(raw_i2c_stop, Second + FetchFrom + 2 * ReadLen)
  BY <1>2, <1>3, ReadRegOperations
<1>6. /\ 3 + FetchFrom + (1 - 1) * ReadLen = Fetch1 /\ 3 + FetchFrom + 1 * ReadLen = Stop1
      /\ Second + FetchFrom + (1 - 1) * ReadLen = Fetch2
      /\ Second + FetchFrom + (2 - 1) * ReadLen = Fetch3
      /\ Second + FetchFrom + 2 * ReadLen = Stop2
  BY <1>1, <1>2 DEF Fetch1, Stop1, Fetch2, Fetch3, Stop2
<1>7. (1 < 1) = FALSE /\ (1 < 2) = TRUE /\ (2 < 2) = FALSE
  OBVIOUS
<1>8. Lies(raw_i2c_read_byte(FALSE), Fetch1)
  <2>1. Lies(raw_i2c_read_byte(1 < 1), 3 + FetchFrom + (1 - 1) * ReadLen)
    BY <1>4
  <2> QED BY <2>1, <1>6, <1>7
<1>9. Lies(raw_i2c_read_byte(TRUE), Fetch2) /\ Lies(raw_i2c_read_byte(FALSE), Fetch3)
  <2>1. /\ Lies(raw_i2c_read_byte(1 < 2), Second + FetchFrom + (1 - 1) * ReadLen)
        /\ Lies(raw_i2c_read_byte(2 < 2), Second + FetchFrom + (2 - 1) * ReadLen)
    BY <1>5
  <2> QED BY <2>1, <1>6, <1>7
<1> QED BY <1>2, <1>4, <1>5, <1>6, <1>8, <1>9

\* A step keeps the process where the invariant says, moves no line inside a
\* byte and writes no register.
LEMMA WhereStep ==
  ASSUME file \in [0..3 -> Byte], Where, Step
  PROVE  Where' /\ Quiet /\ UNCHANGED <<kills, sensor, file>>
<1>1. /\ Fetch1 \in Nat /\ Stop1 \in Nat /\ Second \in Nat /\ Fetch2 \in Nat /\ Fetch3 \in Nat
      /\ Stop2 \in Nat /\ Stop3 \in Nat /\ ByteBits \in Nat
      /\ Fetch1 + ReadLen = Stop1 /\ Stop1 + 3 = Second /\ Fetch2 + ReadLen = Fetch3
      /\ Fetch3 + ReadLen = Stop2 /\ Stop2 + 3 = Stop3
      /\ 3 + FetchFrom = Fetch1 /\ Second + FetchFrom = Fetch2
  BY LatePieces, Widths DEF Stop1, Second, Fetch3, Stop2, Stop3, Fetch1, Fetch2
<1>2. ASSUME NEW o \in Nat, NEW ack \in BOOLEAN, NEW r \in 0..3, NEW k \in Nat,
             \A b \in 1..ByteBits : Sure(k + b) => Wanted[k + b] = file[r][b],
             Lies(raw_i2c_read_byte(ack), o), InRead(o, ack, r, k)
      PROVE  /\ InRead(o, ack, r, k)' \/ ReadDone(o + ReadLen, ack, r, k)'
             /\ Quiet /\ UNCHANGED <<result, settled, kills, sensor, file>>
  BY <1>2, ReadStep
<1>3. /\ \A b \in 1..ByteBits : Wanted[0 + b] = file[3][b]
      /\ \A b \in 1..ByteBits : Wanted[ByteBits + b] = file[0][b]
      /\ \A b \in 1..ByteBits : Wanted[2 * ByteBits + b] = file[1][b]
      /\ {0, ByteBits, 2 * ByteBits} \subseteq Nat /\ {0, 1, 3} \subseteq 0..3
  BY <1>1, WantedBits
<1>4. FailAt = Stop2 + 1
  BY ProgramOperations
<1>5. ASSUME UNCHANGED <<bits, result, settled, sensor, file>>
      PROVE  /\ \A k : Reading(k)' = Reading(k)
             /\ Here' = Here /\ result' = result
             /\ Outcome' = Outcome
  BY <1>5, GotStays DEF Reading, Here, Outcome
<1>6. ASSUME Fails("address")' PROVE Where'
  <2>1. InStop(Stop2)' /\ Outcome'
    BY <1>4, <1>6 DEF Fails, Ignored, InStop, Outcome
  <2> QED BY <2>1 DEF Where
<1>7. CASE Between
  <2>1. Begin
    BY <1>7 DEF Between, Step, Begin, SetPins, ReadAck, CheckAck, ReadBit, Close
  <2>2. /\ at' = 1 /\ bits' = <<>> /\ result' = "none"
        /\ UNCHANGED <<kills, pins, slave>>
    BY <2>1 DEF Begin
  <2>3. InInit'
    BY <1>7, <2>2 DEF Between, InInit, pins, slave
  <2>4. Reading(0)'
    BY <2>2 DEF Reading, Got
  <2>5. Quiet
    BY <2>2 DEF Quiet, pins, slave, SDA
  <2> QED BY <2>2, <2>3, <2>4, <2>5 DEF Where, slave
<1>8. CASE InInit /\ Reading(0)
  <2>1. (InInit' \/ InStart(3)') /\ Calm
    BY <1>8, InitBusStep
  <2>2. Reading(0)'
    BY <1>5, <1>8, <2>1 DEF Calm
  <2>3. InStart(3)' => InReadReg(3, 3, 0)'
    BY <2>2 DEF InReadReg
  <2>4. Where'
    BY <2>1, <2>2, <2>3 DEF Where
  <2> QED BY <2>1, <2>4 DEF Calm
<1>9. CASE InReadReg(3, 3, 0)
  <2>1. /\ Quiet /\ UNCHANGED <<bits, settled, kills, sensor, file>>
        /\ \/ InReadReg(3, 3, 0)'
           \/ (ReadBegins(3 + FetchFrom, 3, 0) /\ Here /\ result = "none")'
           \/ Fails("address")'
    BY <1>9, ProgramOperations, ReadRegStep
  <2>2. ReadBegins(Fetch1, 3, 0)' => InRead(Fetch1, FALSE, 3, 0)'
    BY DEF ReadBegins, InRead
  <2>3. Where'
    BY <1>1, <1>6, <2>1, <2>2 DEF Where
  <2> QED BY <2>1, <2>3
<1>10. CASE InRead(Fetch1, FALSE, 3, 0) /\ Here /\ result = "none"
  <2>1. /\ InRead(Fetch1, FALSE, 3, 0)' \/ ReadDone(Fetch1 + ReadLen, FALSE, 3, 0)'
        /\ Quiet /\ UNCHANGED <<result, settled, kills, sensor, file>>
    <3>1. 0 \in Nat /\ 3 \in 0..3 /\ FALSE \in BOOLEAN
      OBVIOUS
    <3>2. Fetch1 \in Nat /\ Lies(raw_i2c_read_byte(FALSE), Fetch1)
      BY LatePieces
    <3>3. \A b \in 1..ByteBits : Sure(0 + b) => Wanted[0 + b] = file[3][b]
      BY <1>3
    <3>4. InRead(Fetch1, FALSE, 3, 0)
      BY <1>10
    <3> QED BY ONLY <1>2, <3>1, <3>2, <3>3, <3>4, Zenon
  <2>2. Here' /\ result' = "none"
    BY <1>10, <2>1 DEF Here
  <2>3. ASSUME ReadDone(Fetch1 + ReadLen, FALSE, 3, 0)'
        PROVE  InStop(Stop1)' /\ Reading(ByteBits)'
    <3>1. /\ at' = Stop1 + 1 /\ scl' = 0 /\ low' = FALSE /\ mode' = "idle" /\ pull' = FALSE
          /\ Got(0 + ByteBits)'
      BY <1>1, <2>3 DEF ReadDone, Answer
    <3>2. 0 + ByteBits = ByteBits
      BY <1>1
    <3> QED BY <2>2, <3>1, <3>2 DEF InStop, Reading
  <2>4. Where'
    BY <2>1, <2>2, <2>3 DEF Where
  <2> QED BY <2>1, <2>4
<1>11. CASE InStop(Stop1) /\ Reading(ByteBits)
  <2>1. (InStop(Stop1)' \/ (at' = Stop1 + 4 /\ BusIdle')) /\ Calm
    BY <1>1, <1>11, LatePieces, StopStep
  <2>2. Reading(ByteBits)'
    BY <1>5, <1>11, <2>1 DEF Calm
  <2>3. ASSUME at' = Stop1 + 4 /\ BusIdle' PROVE InReadReg(Second, 0, ByteBits)'
    <3>1. at' = Second + 1
      BY <1>1, <2>3
    <3>2. InStart(Second)'
      BY <2>3, <3>1 DEF BusIdle, InStart
    <3> QED BY <2>2, <3>2 DEF InReadReg
  <2>4. Where'
    BY <2>1, <2>2, <2>3 DEF Where
  <2> QED BY <2>1, <2>4 DEF Calm
<1>12. CASE InReadReg(Second, 0, ByteBits)
  <2>1. /\ Quiet /\ UNCHANGED <<bits, settled, kills, sensor, file>>
        /\ \/ InReadReg(Second, 0, ByteBits)'
           \/ (ReadBegins(Second + FetchFrom, 0, ByteBits) /\ Here /\ result = "none")'
           \/ Fails("address")'
    BY <1>1, <1>12, ProgramOperations, ReadRegStep
  <2>2. ReadBegins(Fetch2, 0, ByteBits)' => InRead(Fetch2, TRUE, 0, ByteBits)'
    BY DEF ReadBegins, InRead
  <2>3. Where'
    BY <1>1, <1>6, <2>1, <2>2 DEF Where
  <2> QED BY <2>1, <2>3
<1>13. CASE InRead(Fetch2, TRUE, 0, ByteBits) /\ Here /\ result = "none"
  <2>1. /\ InRead(Fetch2, TRUE, 0, ByteBits)' \/ ReadDone(Fetch2 + ReadLen, TRUE, 0, ByteBits)'
        /\ Quiet /\ UNCHANGED <<result, settled, kills, sensor, file>>
    BY <1>1, <1>2, <1>3, <1>13, LatePieces, Zenon
  <2>2. Here' /\ result' = "none"
    BY <1>13, <2>1 DEF Here
  <2>3. ASSUME ReadDone(Fetch2 + ReadLen, TRUE, 0, ByteBits)'
        PROVE  InRead(Fetch3, FALSE, 1, 2 * ByteBits)'
    <3>1. (0 + 1) % 4 = 1 /\ ByteBits + ByteBits = 2 * ByteBits
      BY <1>1
    <3>2. /\ at' = Fetch3 + 1 /\ scl' = 0 /\ low' = FALSE /\ Got(ByteBits + ByteBits)'
          /\ Sending((0 + 1) % 4, 0)' /\ pull' = SentBit(ptr, 1)'
      BY <1>1, <2>3 DEF ReadDone, Answer
    <3>3. Sending(1, 0)' /\ pull' = SentBit(1, 1)'
      BY <3>1, <3>2 DEF Sending, SentBit
    <3>4. ReadBegins(Fetch3, 1, 2 * ByteBits)'
      BY <3>1, <3>2, <3>3 DEF ReadBegins
    <3> QED BY <3>4 DEF ReadBegins, InRead
  <2>4. Where'
    BY <2>1, <2>2, <2>3 DEF Where
  <2> QED BY <2>1, <2>4
<1>14. CASE InRead(Fetch3, FALSE, 1, 2 * ByteBits) /\ Here /\ result = "none"
  <2>1. /\ \/ InRead(Fetch3, FALSE, 1, 2 * ByteBits)'
           \/ ReadDone(Fetch3 + ReadLen, FALSE, 1, 2 * ByteBits)'
        /\ Quiet /\ UNCHANGED <<result, settled, kills, sensor, file>>
    <3>1. 2 * ByteBits \in Nat /\ 1 \in 0..3 /\ FALSE \in BOOLEAN
      BY <1>1
    <3>2. Fetch3 \in Nat /\ Lies(raw_i2c_read_byte(FALSE), Fetch3)
      BY LatePieces
    <3>3. \A b \in 1..ByteBits : Sure(2 * ByteBits + b) => Wanted[2 * ByteBits + b] = file[1][b]
      BY <1>3
    <3>4. InRead(Fetch3, FALSE, 1, 2 * ByteBits)
      BY <1>14
    <3> QED BY ONLY <1>2, <3>1, <3>2, <3>3, <3>4, Zenon
  <2>2. Here' /\ result' = "none"
    BY <1>14, <2>1 DEF Here
  <2>3. ASSUME ReadDone(Fetch3 + ReadLen, FALSE, 1, 2 * ByteBits)'
        PROVE  InStop(Stop2)' /\ Outcome'
    <3>1. 2 * ByteBits + ByteBits = 3 * ByteBits
      BY <1>1
    <3>2. /\ at' = Stop2 + 1 /\ scl' = 0 /\ low' = FALSE /\ mode' = "idle" /\ pull' = FALSE
          /\ Got(2 * ByteBits + ByteBits)'
      BY <1>1, <2>3 DEF ReadDone, Answer
    <3>3. InStop(Stop2)'
      BY <3>2 DEF InStop
    <3>4. Got(3 * ByteBits)'
      BY <3>1, <3>2
    <3> QED BY <2>2, <3>3, <3>4 DEF Outcome
  <2>4. Where'
    BY <2>1, <2>2, <2>3 DEF Where
  <2> QED BY <2>1, <2>4
<1>15. CASE InStop(Stop2) /\ Outcome
  <2>1. (InStop(Stop2)' \/ (at' = Stop2 + 4 /\ BusIdle')) /\ Calm
    BY <1>1, <1>15, LatePieces, StopStep
  <2>2. Outcome'
    BY <1>5, <1>15, <2>1 DEF Calm
  <2>3. ASSUME at' = Stop2 + 4 /\ BusIdle' PROVE InStop(Stop3)'
    <3>1. at' = Stop3 + 1
      BY <1>1, <2>3
    <3> QED BY <2>3, <3>1 DEF BusIdle, InStop
  <2>4. Where'
    BY <2>1, <2>2, <2>3 DEF Where
  <2> QED BY <2>1, <2>4 DEF Calm
<1>16. CASE InStop(Stop3) /\ Outcome
  <2>1. (InStop(Stop3)' \/ (at' = Stop3 + 4 /\ BusIdle')) /\ Calm
    BY <1>1, <1>16, ProgramOperations, StopStep
  <2>2. Outcome'
    BY <1>5, <1>16, <2>1 DEF Calm
  <2>3. Where'
    BY <2>1, <2>2 DEF Where
  <2> QED BY <2>1, <2>3 DEF Calm
<1>17. CASE at = Stop3 + 4 /\ BusIdle /\ Outcome
  <2>1. at # 0 /\ Program[at] = "close"
    BY <1>1, <1>17, ProgramOperations
  <2>2. Close /\ Quiet
    BY <2>1, Reads
  <2>3. /\ at' = 0 /\ result' = IF result = "failed" THEN "failed" ELSE "ok"
        /\ UNCHANGED <<bits, settled, kills, scl, low, mode, pull, sensor, file>>
    BY <2>2 DEF Close, pins, slave
  <2>4. Outcome'
    BY <1>17, <2>3, GotStays DEF Outcome, Here
  <2>5. Between'
    BY <1>17, <2>3, <2>4 DEF Between, BusIdle
  <2> QED BY <2>2, <2>3, <2>5 DEF Where
<1> QED BY ONLY Where, <1>7, <1>8, <1>9, <1>10, <1>11, <1>12, <1>13, <1>14, <1>15, <1>16, <1>17,
                Zenon DEF Where

\* Between two readings the process is in none of the pieces.
LEMMA OnlyBetween ==
  ASSUME Where, at = 0
  PROVE  Between
<1>1. ASSUME NEW o \in Nat PROVE ~ InStart(o) /\ ~ InStop(o)
  BY DEF InStart, InStop
<1>2. ASSUME NEW o \in Nat, NEW m, NEW byte PROVE ~ InWrite(o, m, byte)
  <2>1. ByteBits \in Nat
    BY Widths
  <2>2. ASSUME NEW b \in 1..ByteBits PROVE ~ InWriteBit(o, m, byte, b)
    <3>1. 3 * (b - 1) \in Nat
      BY <2>1
    <3> QED BY <3>1 DEF InWriteBit
  <2>3. 3 * ByteBits \in Nat
    BY <2>1
  <2>4. ~ InWriteAck(o, m, byte)
    BY <2>3 DEF InWriteAck
  <2> QED BY <2>2, <2>4 DEF InWrite
<1>3. ASSUME NEW o \in Nat, NEW ack, NEW r, NEW k PROVE ~ InRead(o, ack, r, k)
  <2>1. ByteBits \in Nat
    BY Widths
  <2>2. ASSUME NEW b \in 1..ByteBits PROVE ~ InReadBit(o, r, k, b)
    <3>1. 5 * (b - 1) \in Nat
      BY <2>1
    <3> QED BY <3>1 DEF InReadBit
  <2>3. 5 * ByteBits \in Nat
    BY <2>1
  <2>4. ~ InReadAck(o, ack, r, k)
    <3>1. InReadAck(o, ack, r, k) =>
            \/ at = o + (5 * ByteBits + 2) \/ at = o + (5 * ByteBits + 3)
            \/ at = o + (5 * ByteBits + 4) \/ at = o + (5 * ByteBits + 5)
            \/ at = o + (5 * ByteBits + 6)
      BY Zenon DEF InReadAck
    <3> QED BY <2>3, <3>1
  <2> QED BY <2>2, <2>4 DEF InRead
<1>4. ASSUME NEW o \in Nat, NEW r, NEW k PROVE ~ InReadReg(o, r, k)
  <2>1. /\ o + 4 \in Nat /\ o + 4 + WriteLen \in Nat /\ o + 4 + 2 * WriteLen \in Nat
        /\ o + 8 + 2 * WriteLen \in Nat
    BY Widths DEF WriteLen
  <2> QED BY <1>1, <1>2, <2>1 DEF InReadReg
<1>5. /\ ~ InInit /\ ~ InReadReg(3, 3, 0) /\ ~ InRead(Fetch1, FALSE, 3, 0) /\ ~ InStop(Stop1)
      /\ ~ InReadReg(Second, 0, ByteBits) /\ ~ InRead(Fetch2, TRUE, 0, ByteBits)
      /\ ~ InRead(Fetch3, FALSE, 1, 2 * ByteBits) /\ ~ InStop(Stop2) /\ ~ InStop(Stop3)
      /\ at # Stop3 + 4
  <2>1. ~ InInit /\ at # Stop3 + 4
    BY LatePieces DEF InInit
  <2>2. 3 \in Nat
    OBVIOUS
  <2> QED BY <1>1, <1>3, <1>4, <2>1, <2>2, LatePieces, Zenon
<1> QED BY ONLY Where, <1>5, Zenon DEF Where


-----------------------------------------------------------------------------
(* What a sensor may do, wherever the process is *)

\* A rising clock: a bit is taken.
LEMMA RiseSound ==
  ASSUME Typed, Sound, scl = 0, scl' = 1, NEW x \in {0, 1}, Rise(x)
  PROVE  Sound' /\ UNCHANGED <<file, mode, ptr, pull>>
<1>1. UNCHANGED <<file, mode, ptr, pull>> /\ Receiving' = Receiving
  BY DEF Rise, Receiving
<1>2. ByteBits \in Nat /\ ByteBits >= 3
  BY Widths
<1>3. CASE mode = "idle"
  BY <1>1, <1>3 DEF Sound, Receiving
<1>4. CASE Receiving
  <2>1. count' = count + 1 /\ shift' = IF count < ByteBits THEN Append(shift, x) ELSE shift
    BY <1>4 DEF Rise, Receiving
  <2>2. /\ count \in 0..ByteBits /\ shift \in Seq({0, 1}) /\ Len(shift) = count
        /\ pull = (count = ByteBits)
    BY <1>2, <1>4 DEF Sound
  <2>3. CASE count < ByteBits
    <3>1. shift' \in Seq({0, 1}) /\ Len(shift') = count + 1
      BY <2>1, <2>2, <2>3, AppendProperties
    <3> QED BY <1>1, <1>2, <1>4, <2>1, <2>2, <2>3, <3>1 DEF Sound, Receiving
  <2>4. CASE count = ByteBits
    BY <1>1, <1>2, <1>4, <2>1, <2>2, <2>4 DEF Sound, Receiving
  <2> QED BY <1>2, <2>2, <2>3, <2>4
<1>5. CASE mode = "send"
  <2>1. count' = count + 1 /\ count \in 0..ByteBits /\ (count = ByteBits => pull = FALSE)
    BY <1>2, <1>5 DEF Rise, Sound
  <2> QED BY <1>1, <1>2, <1>5, <2>1 DEF Sound, Receiving
<1> QED BY <1>1, <1>3, <1>4, <1>5 DEF Typed, Receiving

\* A byte received is one of Byte.
LEMMA WholeByte ==
  ASSUME NEW s \in Seq({0, 1}), Len(s) = ByteBits
  PROVE  s \in Byte /\ Value(s) \in 0..3
<1>1. ByteBits \in Nat /\ ByteBits \in 1..ByteBits /\ ByteBits - 1 \in 1..ByteBits
  BY Widths
<1>2. s \in [1..ByteBits -> {0, 1}]
  BY LenProperties
<1>3. s[ByteBits] \in {0, 1} /\ s[ByteBits - 1] \in {0, 1}
  BY <1>1, <1>2
<1> QED BY <1>2, <1>3 DEF Byte, Value

\* A falling clock: the sensor acknowledges, takes a byte, sends or stays.
LEMMA FallSound ==
  ASSUME Typed, Sound, scl = 1, scl' = 0, Fall
  PROVE  /\ Sound' /\ file' \in [0..3 -> Byte] /\ ptr' \in 0..3 /\ pull' \in BOOLEAN
         /\ mode' \in {"idle", "address", "pointer", "data", "send"}
<1>1. ByteBits \in Nat /\ ByteBits >= 3
  BY Widths
<1>2. CASE Acknowledge
  <2>1. /\ Receiving /\ count = ByteBits /\ shift \in Seq({0, 1}) /\ Len(shift) = ByteBits
    BY <1>1, <1>2 DEF Acknowledge, Sound
  <2>2. CASE Seen("idle")
    BY <1>1, <2>1, <2>2 DEF Seen, Sound, Receiving, Typed
  <2>3. CASE pull' = TRUE /\ UNCHANGED <<sensor, file, mode, count, shift, ptr>>
    <3>1. Receiving' /\ mode' # "idle" /\ mode' # "send"
      BY <2>1, <2>3 DEF Receiving
    <3>2. count' = ByteBits /\ shift' = shift /\ pull' = TRUE
      BY <2>1, <2>3
    <3>3. pull' = (count' = ByteBits + 1 \/ (count' = ByteBits /\ scl' = 0))
      BY <3>2
    <3>4. count' \in 0..ByteBits + 1 /\ count' # ByteBits + 1 /\ count' <= ByteBits
      BY <1>1, <3>2
    <3>5. Sound'
      BY <2>1, <3>1, <3>2, <3>3, <3>4 DEF Sound
    <3> QED BY <2>3, <3>5 DEF Typed
  <2> QED BY <1>2, <2>2, <2>3 DEF Acknowledge
<1>3. CASE Accept
  <2>1. /\ Receiving /\ count = ByteBits + 1 /\ shift \in Seq({0, 1}) /\ Len(shift) = ByteBits
        /\ count' = 0 /\ shift' = <<>> /\ pull' = (mode' = "send" /\ SentBit(ptr, 1))
        /\ mode' \in {"pointer", "data", "send"}
    BY <1>1, <1>3 DEF Accept, Sound
  <2>2. shift \in Byte /\ Value(shift) \in 0..3
    BY <2>1, WholeByte
  <2>3. file' \in [0..3 -> Byte]
    BY <1>3, <2>2 DEF Accept, Typed
  <2>4. ptr' \in 0..3
    BY <1>3, <2>2 DEF Accept, Typed
  <2>5. pull' \in BOOLEAN /\ (mode' # "send" => pull' = FALSE)
    BY <2>1
  <2>6. <<>> \in Seq({0, 1}) /\ Len(<<>>) = 0
    OBVIOUS
  <2>7. 0 # ByteBits /\ 0 # ByteBits + 1 /\ 0 \in 0..ByteBits + 1 /\ 0 <= ByteBits
    BY <1>1
  <2>8. Sound'
    BY <2>1, <2>5, <2>6, <2>7 DEF Sound, Receiving
  <2> QED BY <2>1, <2>3, <2>4, <2>5, <2>8
<1>4. CASE Send
  <2>1. mode = "send" /\ count \in 1..ByteBits + 1
    BY <1>1, <1>4 DEF Send, Sound
  <2>2. CASE count < ByteBits /\ pull' = SentBit(ptr, count + 1)
             /\ UNCHANGED <<mode, count, shift, ptr, file>>
    <3>1. pull' \in BOOLEAN
      BY <2>2 DEF SentBit
    <3> QED BY <1>1, <2>1, <2>2, <3>1 DEF Sound, Receiving, Typed
  <2>3. CASE count = ByteBits /\ pull' = FALSE /\ UNCHANGED <<mode, count, shift, ptr, file>>
    <3>1. ~ Receiving' /\ mode' = "send"
      BY <2>1, <2>3 DEF Receiving
    <3>2. count' = ByteBits /\ pull' = FALSE /\ ByteBits # ByteBits + 1
          /\ ByteBits \in 0..ByteBits + 1 /\ ByteBits <= ByteBits
      BY <1>1, <2>3
    <3>3. Sound'
      BY <3>1, <3>2 DEF Sound
    <3> QED BY <2>3, <3>1, <3>3 DEF Typed
  <2>4. CASE /\ count' = 0 /\ ptr' = (ptr + 1) % 4
             /\ mode' = IF shift = <<0>> THEN "send" ELSE "idle"
             /\ pull' = (mode' = "send" /\ SentBit(ptr', 1)) /\ file' = file
    <3>1. pull' \in BOOLEAN /\ (mode' # "send" => pull' = FALSE) /\ mode' \in {"send", "idle"}
      BY <2>4
    <3>2. ptr' \in 0..3
      BY <2>4 DEF Typed
    <3> QED BY <1>1, <2>4, <3>1, <3>2 DEF Sound, Receiving, Typed
  <2> QED BY <1>4, <2>2, <2>3, <2>4 DEF Send
<1>5. CASE UNCHANGED slave /\ (mode = "idle" \/ (Receiving /\ count < ByteBits))
  BY <1>1, <1>5 DEF slave, Sound, Receiving, Typed
<1> QED BY <1>2, <1>3, <1>4, <1>5 DEF Fall

LEMMA StepSound ==
  ASSUME Typed, Sound, Step
  PROVE  Typed' /\ Sound' /\ kills' = kills
<1>1. CASE UNCHANGED <<pins, slave>> /\ settled' \in BOOLEAN /\ kills' = kills
  BY <1>1 DEF Typed, Sound, Receiving, pins, slave
<1>2. CASE SetPins
  <2>1. scl' \in {0, 1} /\ low' \in BOOLEAN /\ settled' = settled /\ kills' = kills
    BY <1>2 DEF SetPins, Typed
  <2>2. React(scl', low')
    BY <1>2 DEF SetPins
  <2>3. Wire(low', pull) \in {0, 1}
    BY DEF Wire
  <2>4. ByteBits \in Nat /\ ByteBits >= 3
    BY Widths
  <2>5. CASE scl = 1 /\ scl' = 1 /\ (Seen("address") \/ Seen("idle"))
    <3>1. <<>> \in Seq({0, 1}) /\ Len(<<>>) = 0
      OBVIOUS
    <3>2. /\ count' = 0 /\ shift' = <<>> /\ pull' = FALSE /\ mode' \in {"address", "idle"}
          /\ UNCHANGED <<sensor, file, ptr>>
      BY <2>5 DEF Seen
    <3>3. 0 # ByteBits /\ 0 # ByteBits + 1 /\ 0 \in 0..ByteBits + 1 /\ 0 <= ByteBits
      BY <2>4
    <3>4. pull' = (count' = ByteBits + 1 \/ (count' = ByteBits /\ scl' = 0))
      BY <3>2, <3>3
    <3>5. shift' \in Seq({0, 1}) /\ Len(shift') = 0
      BY <3>1, <3>2
    <3>6. mode' # "send" /\ (mode' = "idle" => pull' = FALSE)
      BY <3>2
    <3>7. Sound'
      BY <3>2, <3>3, <3>4, <3>5, <3>6 DEF Sound
    <3> QED BY <2>1, <3>2, <3>7 DEF Typed
  <2>6. CASE scl = 0 /\ scl' = 1 /\ Rise(Wire(low', pull))
    BY <2>1, <2>3, <2>6, RiseSound DEF Typed
  <2>7. CASE scl = 1 /\ scl' = 0 /\ Fall
    BY <2>1, <2>7, FallSound DEF Typed
  <2>8. CASE scl' = scl /\ UNCHANGED slave
    BY <2>1, <2>8 DEF Typed, Sound, Receiving, slave
  <2> QED BY <2>2, <2>5, <2>6, <2>7, <2>8 DEF React
<1>3. CASE Begin
  <2>1. UNCHANGED <<pins, slave>> /\ settled' \in BOOLEAN /\ kills' = kills
    BY <1>3 DEF Begin, Typed
  <2> QED BY <1>1, <2>1
<1>4. CASE ReadAck \/ CheckAck \/ ReadBit \/ Close
  <2>1. UNCHANGED <<pins, slave>> /\ settled' \in BOOLEAN /\ kills' = kills
    BY <1>4 DEF ReadAck, CheckAck, ReadBit, Close, Typed
  <2> QED BY <1>1, <2>1
<1> QED BY <1>2, <1>3, <1>4 DEF Step

-----------------------------------------------------------------------------
(* A sensor that has not seen the start *)

\* Clocks counted round the byte.
LEMMA Round ==
  ASSUME NEW p \in 1..ByteBits + 1
  PROVE  /\ After(p, 0) = p /\ After(p, ByteBits + 1) = p
         /\ \A b \in 0..ByteBits + 1 : After(p, b) \in 1..ByteBits + 1
         /\ \A b \in 1..ByteBits + 1 : After(After(p, b - 1), 1) = After(p, b)
<1>1. ByteBits \in Nat /\ ByteBits >= 3
  BY Widths
<1>2. After(p, 0) = p /\ After(p, ByteBits + 1) = p
  BY <1>1 DEF After
<1>3. ASSUME NEW b \in 0..ByteBits + 1 PROVE After(p, b) \in 1..ByteBits + 1
  BY <1>1 DEF After
<1>4. ASSUME NEW b \in 1..ByteBits + 1 PROVE After(After(p, b - 1), 1) = After(p, b)
  <2>1. CASE p + (b - 1) < ByteBits + 1
    <3>1. After(p, b - 1) = p + (b - 1) /\ After(p, b) = p + b
      BY <1>1, <2>1 DEF After
    <3> QED BY <1>1, <2>1, <3>1 DEF After
  <2>2. CASE p + (b - 1) = ByteBits + 1
    <3>1. After(p, b - 1) = ByteBits + 1 /\ After(p, b) = 1
      BY <1>1, <2>2 DEF After
    <3> QED BY <1>1, <3>1 DEF After
  <2>3. CASE p + (b - 1) > ByteBits + 1
    <3>1. /\ After(p, b - 1) = p + (b - 1) - (ByteBits + 1)
          /\ After(p, b) = p + b - (ByteBits + 1)
          /\ p + (b - 1) - (ByteBits + 1) + 1 <= ByteBits + 1
      BY <1>1, <2>3 DEF After
    <3> QED BY <1>1, <2>3, <3>1 DEF After
  <2> QED BY <1>1, <2>1, <2>2, <2>3
<1> QED BY <1>2, <1>3, <1>4

LEMMA ClockRises ==
  ASSUME Typed, Sound, NEW c \in 1..ByteBits + 1, Clocked(c), scl = 0, scl' = 1,
         NEW x \in {0, 1}, Rise(x)
  PROVE  Clocked(After(c, 1))'
<1>1. ByteBits \in Nat /\ ByteBits >= 3
  BY Widths
<1>2. mode' = mode
  BY DEF Rise
<1>3. CASE mode = "idle"
  BY <1>2, <1>3 DEF Clocked
<1>4. CASE /\ mode \in {"pointer", "data", "send"}
           /\ count = IF c = ByteBits + 1 THEN 0 ELSE c
  <2>1. count' = count + 1
    BY <1>4 DEF Rise
  <2>2. count + 1 = After(c, 1)
    BY <1>1, <1>4 DEF After
  <2> QED BY <1>2, <1>4, <2>1, <2>2 DEF Clocked, After
<1> QED BY <1>3, <1>4 DEF Clocked

LEMMA ClockFalls ==
  ASSUME Typed, Sound, NEW c \in 1..ByteBits + 1, Clocked(c), scl = 1, scl' = 0, Fall
  PROVE  Clocked(c)' /\ (pull = TRUE => Pulled(c)')
<1>1. ByteBits \in Nat /\ ByteBits >= 3
  BY Widths
<1>2. CASE mode = "idle"
  <2>1. UNCHANGED slave
    BY <1>2, SensorStays
  <2> QED BY <1>2, <2>1 DEF Clocked, slave, Sound
<1>3. CASE mode \in {"pointer", "data"} /\ count = c
  <2>1. Receiving /\ mode # "address" /\ mode # "send" /\ mode # "idle"
    BY <1>3 DEF Receiving
  <2>2. pull = (count = ByteBits + 1 \/ (count = ByteBits /\ scl = 0))
    BY <2>1 DEF Sound
  <2>3. CASE c < ByteBits
    <3>1. count \in 0..ByteBits - 1 /\ count # ByteBits + 1 /\ count # ByteBits
      BY <1>1, <1>3, <2>3
    <3>2. UNCHANGED slave
      BY <2>1, <3>1, SensorStays
    <3>3. pull = FALSE
      BY <2>2, <3>1
    <3>4. mode' = mode /\ count' = c /\ c # ByteBits + 1
      BY <1>3, <3>1, <3>2 DEF slave
    <3> QED BY <1>3, <3>3, <3>4 DEF Clocked
  <2>4. CASE c = ByteBits
    <3>1. count # ByteBits + 1 /\ c # ByteBits + 1 /\ scl # 0
      BY <1>1, <1>3, <2>4
    <3>2. Acknowledge
      BY <1>1, <1>3, <2>1, <2>4 DEF Fall, Accept, Send
    <3>3. pull = FALSE
      BY <2>2, <3>1
    <3>4. mode' = mode /\ count' = c
      BY <1>3, <2>1, <3>2 DEF Acknowledge
    <3> QED BY <1>3, <3>1, <3>3, <3>4 DEF Clocked
  <2>5. CASE c = ByteBits + 1
    <3>1. Accept
      BY <1>1, <1>3, <2>1, <2>5 DEF Fall, Acknowledge, Send
    <3>2. mode' = "data" /\ count' = 0
      BY <2>1, <3>1 DEF Accept
    <3> QED BY <2>5, <3>2 DEF Clocked, Pulled
  <2>6. c < ByteBits \/ c = ByteBits \/ c = ByteBits + 1
    BY <1>1
  <2> QED BY <2>3, <2>4, <2>5, <2>6
<1>4. CASE mode = "send" /\ count = c
  <2>1. Send
    BY <1>4 DEF Fall, Acknowledge, Accept, Receiving
  <2>2. CASE c <= ByteBits
    <3>1. mode' = "send" /\ count' = c /\ c # ByteBits + 1
      BY <1>1, <1>4, <2>1, <2>2 DEF Send
    <3> QED BY <3>1 DEF Clocked, Pulled
  <2>3. CASE c = ByteBits + 1
    <3>1. count' = 0 /\ mode' \in {"send", "idle"}
      BY <1>1, <1>4, <2>1, <2>3 DEF Send
    <3>2. pull = FALSE
      BY <1>4, <2>3 DEF Sound
    <3> QED BY <2>3, <3>1, <3>2 DEF Clocked
  <2>4. c <= ByteBits \/ c = ByteBits + 1
    BY <1>1
  <2> QED BY <2>2, <2>3, <2>4
<1>5. \/ mode = "idle"
      \/ mode \in {"pointer", "data"} /\ count = c
      \/ mode = "send" /\ count = c
  BY DEF Clocked
<1> QED BY <1>2, <1>3, <1>4, <1>5

\* Nothing happens to it while the clock stays.
LEMMA ClockStays ==
  ASSUME UNCHANGED slave, scl' = scl
  PROVE  /\ \A c : Clocked(c)' = Clocked(c) /\ Pulled(c)' = Pulled(c)
         /\ \A c : Fading(c)' = Fading(c)
  BY DEF slave, Clocked, Pulled, Fading

\* The operations that move the clock, when it is at clock c.
LEMMA DeafLow ==
  ASSUME Typed, Sound, at # 0, Program[at] = "scl0", Step,
         NEW c \in 1..ByteBits + 1, Clocked(c)
  PROVE  /\ Moves /\ scl' = 0 /\ low' = low /\ Clocked(c)'
         /\ scl = 1 /\ pull = TRUE => Pulled(c)'
<1>1. /\ Moves /\ scl' = 0 /\ low' = low
      /\ scl = 0 => UNCHANGED slave
      /\ scl = 1 => Fall
  BY LowersClock
<1>2. CASE scl = 0
  <2>1. Clocked(c)'
    BY <1>1, <1>2, ClockStays
  <2> QED BY <1>1, <1>2, <2>1
<1>3. CASE scl = 1
  <2>1. Clocked(c)' /\ (pull = TRUE => Pulled(c)')
    BY <1>1, <1>3, ClockFalls
  <2> QED BY <1>1, <2>1
<1> QED BY <1>2, <1>3 DEF Typed

LEMMA DeafHigh ==
  ASSUME Typed, Sound, at # 0, Program[at] = "scl1", Step, scl = 0,
         NEW c \in 1..ByteBits + 1, Clocked(c)
  PROVE  Moves /\ scl' = 1 /\ low' = low /\ Clocked(After(c, 1))'
<1>1. Moves /\ scl' = 1 /\ low' = low /\ Rise(Wire(low, pull))
  BY RaisesClock
<1>2. Wire(low, pull) \in {0, 1}
  BY DEF Wire
<1> QED BY <1>1, <1>2, ClockRises

\* raw_i2c_write_byte, its clocks: to the next, or to reading the answer.
LEMMA DeafBitStep ==
  ASSUME NEW o \in Nat, NEW p \in 1..ByteBits + 1, NEW byte \in Byte,
         Lies(raw_i2c_write_byte(byte), o), Typed, Sound, Step,
         NEW b \in 1..ByteBits + 1, Clocked(After(p, b - 1)),
         \/ at = o + (3 * (b - 1) + 1)
         \/ at = o + (3 * (b - 1) + 2) /\ scl = 0
         \/ at = o + (3 * (b - 1) + 3) /\ scl = 0 /\ (b = ByteBits + 1 => low = FALSE)
  PROVE  InDeafWrite(o, p)' /\ UNCHANGED <<bits, result, settled>>
<1> DEFINE w == raw_i2c_write_byte(byte)
           q == 3 * (b - 1)
           c == After(p, b - 1)
<1>1. /\ ByteBits \in Nat /\ ByteBits >= 3 /\ b \in Nat /\ q \in Nat /\ q + 3 <= WriteLen
      /\ WriteLen = 3 * ByteBits + 7
  BY Widths DEF WriteLen
<1>2. /\ Len(w) = WriteLen /\ w[q + 1] = "scl0" /\ w[q + 3] = "scl1"
      /\ w[q + 2] \in {"release", "low"}
      /\ b = ByteBits + 1 => w[q + 2] = "release"
  <2>1. CASE b \in 1..ByteBits
    <3>1. b # ByteBits + 1
      BY <1>1, <2>1
    <3> QED BY <2>1, <3>1, WriteOperations
  <2>2. CASE b = ByteBits + 1
    <3>1. q = 3 * ByteBits
      BY <1>1, <2>2
    <3> HIDE DEF q, w
    <3>2. w = raw_i2c_write_byte(byte)
      BY DEF w
    <3> QED BY <3>1, <3>2, WriteOperations
  <2> QED BY <1>1, <2>1, <2>2
<1>3. c \in 1..ByteBits + 1 /\ After(c, 1) = After(p, b)
  <2>1. b - 1 \in 0..ByteBits + 1
    BY <1>1
  <2> QED BY <2>1, Round
<1>4. Clocked(c)
  OBVIOUS
<1>5. \/ at = o + (q + 1)
      \/ at = o + (q + 2) /\ scl = 0
      \/ at = o + (q + 3) /\ scl = 0 /\ (b = ByteBits + 1 => low = FALSE)
  OBVIOUS
<1> HIDE DEF w, q, c
<1>6. /\ Program[o + (q + 1)] = "scl0" /\ Program[o + (q + 2)] = w[q + 2]
      /\ Program[o + (q + 3)] = "scl1"
  <2>1. q + 1 \in 1..WriteLen /\ q + 2 \in 1..WriteLen /\ q + 3 \in 1..WriteLen
    BY <1>1
  <2>2. Lies(w, o)
    BY DEF w
  <2> QED BY <1>2, <2>1, <2>2 DEF Lies
<1>7. at # 0
  BY <1>1, <1>5
<1>8. CASE at = o + (q + 1)
  <2>1. Moves /\ scl' = 0 /\ Clocked(c)'
    BY <1>3, <1>4, <1>6, <1>7, <1>8, DeafLow
  <2>2. at' = o + (q + 2)
    BY <1>1, <1>8, <2>1 DEF Moves
  <2>3. InDeafWrite(o, p)'
    BY <2>1, <2>2 DEF InDeafWrite, c, q
  <2> QED BY <2>1, <2>3 DEF Moves
<1>9. CASE at = o + (q + 2) /\ scl = 0
  <2>1. Moves /\ scl' = scl /\ low' = (Program[at] = "low") /\ UNCHANGED slave
    <3>1. Program[at] \in {"release", "low"}
      BY <1>2, <1>6, <1>9
    <3> QED BY <1>7, <1>9, <3>1, KeepsData DEF Typed
  <2>2. Clocked(c)'
    BY <1>4, <2>1, ClockStays
  <2>3. at' = o + (q + 3)
    BY <1>1, <1>9, <2>1 DEF Moves
  <2>4. b = ByteBits + 1 => low' = FALSE
    BY <1>2, <1>6, <1>9, <2>1
  <2>5. InDeafWrite(o, p)'
    BY <1>9, <2>1, <2>2, <2>3, <2>4 DEF InDeafWrite, c, q
  <2> QED BY <2>1, <2>5 DEF Moves
<1>10. CASE at = o + (q + 3) /\ scl = 0 /\ (b = ByteBits + 1 => low = FALSE)
  <2>1. Moves /\ scl' = 1 /\ low' = low /\ Clocked(After(p, b))'
    BY <1>3, <1>4, <1>6, <1>7, <1>10, DeafHigh
  <2>2. at' = o + (q + 3) + 1
    BY <1>10, <2>1 DEF Moves
  <2>3. CASE b < ByteBits + 1
    <3>1. b + 1 \in 1..ByteBits + 1 /\ b + 1 - 1 = b
      BY <1>1, <2>3
    <3>2. at' = o + (3 * (b + 1 - 1) + 1)
      BY <1>1, <2>2 DEF q
    <3>3. Clocked(After(p, b + 1 - 1))'
      BY <2>1, <3>1
    <3>4. InDeafWrite(o, p)'
      BY <3>1, <3>2, <3>3 DEF InDeafWrite
    <3> QED BY <2>1, <3>4 DEF Moves
  <2>4. CASE b = ByteBits + 1
    <3>1. at' = o + (3 * ByteBits + 4)
      BY <1>1, <2>2, <2>4 DEF q
    <3>2. Clocked(p)'
      BY <2>1, <2>4, Round
    <3>3. InDeafWrite(o, p)'
      BY <1>10, <2>1, <2>4, <3>1, <3>2 DEF InDeafWrite
    <3> QED BY <2>1, <3>3 DEF Moves
  <2> QED BY <1>1, <2>3, <2>4
<1> QED BY <1>5, <1>8, <1>9, <1>10

\* raw_i2c_write_byte: on to its end, and there to its caller's next operation
\* if it has read a 0, which is where the sensor was a byte before.
LEMMA DeafWriteStep ==
  ASSUME NEW o \in Nat, NEW p \in 1..ByteBits + 1, NEW byte \in Byte,
         Lies(raw_i2c_write_byte(byte), o), Typed, Sound, Step, InDeafWrite(o, p)
  PROVE  /\ UNCHANGED <<bits, settled>>
         /\ \/ result' = result /\ InDeafWrite(o, p)'
            \/ result' = result /\ at' = o + WriteLen + 1 /\ scl' = 0 /\ low' = FALSE /\ Pulled(p)'
            \/ result' = "failed" /\ at' = FailAt
<1> DEFINE w == raw_i2c_write_byte(byte)
           q == 3 * ByteBits
<1>1. ByteBits \in Nat /\ ByteBits >= 3 /\ q \in Nat /\ WriteLen = q + 7
  BY Widths DEF WriteLen
<1>2. /\ Len(w) = WriteLen /\ w[q + 4] = "release" /\ w[q + 5] = "ack" /\ w[q + 6] = "scl0"
      /\ w[q + 7] = "check"
  BY WriteOperations
<1>3. \/ \E b \in 1..ByteBits + 1 :
           /\ Clocked(After(p, b - 1))
           /\ \/ at = o + (3 * (b - 1) + 1)
              \/ at = o + (3 * (b - 1) + 2) /\ scl = 0
              \/ at = o + (3 * (b - 1) + 3) /\ scl = 0 /\ (b = ByteBits + 1 => low = FALSE)
      \/ at = o + (q + 4) /\ scl = 1 /\ low = FALSE /\ Clocked(p)
      \/ at = o + (q + 5) /\ scl = 1 /\ low = FALSE /\ Clocked(p)
      \/ at = o + (q + 6) /\ scl = 1 /\ low = FALSE /\ Clocked(p) /\ acked = pull
      \/ at = o + (q + 7) /\ scl = 0 /\ low = FALSE /\ (acked = TRUE => Pulled(p))
  BY DEF InDeafWrite
<1> HIDE DEF w, q
<1>4. /\ Program[o + (q + 4)] = "release" /\ Program[o + (q + 5)] = "ack"
      /\ Program[o + (q + 6)] = "scl0" /\ Program[o + (q + 7)] = "check"
  <2>1. {q + 4, q + 5, q + 6, q + 7} \subseteq 1..WriteLen
    BY <1>1
  <2>2. Lies(w, o)
    BY DEF w
  <2> QED BY <1>2, <2>1, <2>2 DEF Lies
<1>5. CASE \E b \in 1..ByteBits + 1 :
             /\ Clocked(After(p, b - 1))
             /\ \/ at = o + (3 * (b - 1) + 1)
                \/ at = o + (3 * (b - 1) + 2) /\ scl = 0
                \/ at = o + (3 * (b - 1) + 3) /\ scl = 0 /\ (b = ByteBits + 1 => low = FALSE)
  <2>1. PICK b \in 1..ByteBits + 1 :
             /\ Clocked(After(p, b - 1))
             /\ \/ at = o + (3 * (b - 1) + 1)
                \/ at = o + (3 * (b - 1) + 2) /\ scl = 0
                \/ at = o + (3 * (b - 1) + 3) /\ scl = 0 /\ (b = ByteBits + 1 => low = FALSE)
    BY <1>5
  <2>2. InDeafWrite(o, p)' /\ UNCHANGED <<bits, result, settled>>
    BY <2>1, DeafBitStep
  <2> QED BY <2>2
<1>6. CASE at = o + (q + 4) /\ scl = 1 /\ low = FALSE /\ Clocked(p)
  <2>1. at # 0
    BY <1>1, <1>6
  <2>2. Moves /\ scl' = scl /\ low' = FALSE /\ UNCHANGED slave
    BY <1>4, <1>6, <2>1, KeepsData
  <2>3. Clocked(p)'
    BY <1>6, <2>2, ClockStays
  <2>4. at' = o + (q + 5)
    BY <1>1, <1>6, <2>2 DEF Moves
  <2>5. InDeafWrite(o, p)'
    BY <1>6, <2>2, <2>3, <2>4 DEF InDeafWrite, q
  <2> QED BY <2>2, <2>5 DEF Moves
<1>7. CASE at = o + (q + 5) /\ scl = 1 /\ low = FALSE /\ Clocked(p)
  <2>1. at # 0
    BY <1>1, <1>7
  <2>2. /\ acked' = (SDA = 0) /\ at' = at + 1
        /\ UNCHANGED <<bits, result, settled, scl, low>> /\ UNCHANGED slave
    BY <1>4, <1>7, <2>1, Reads DEF pins
  <2>3. Clocked(p)'
    BY <1>7, <2>2, ClockStays
  <2>4. acked' = pull'
    <3>1. pull \in BOOLEAN /\ pull' = pull
      BY <2>2 DEF slave, Typed
    <3>2. (SDA = 0) = pull
      BY <1>7, <3>1 DEF SDA, Wire
    <3> QED BY <2>2, <3>1, <3>2
  <2>5. at' = o + (q + 6)
    BY <1>1, <1>7, <2>2
  <2>6. InDeafWrite(o, p)'
    BY <1>7, <2>2, <2>3, <2>4, <2>5 DEF InDeafWrite, q
  <2> QED BY <2>2, <2>6
<1>8. CASE at = o + (q + 6) /\ scl = 1 /\ low = FALSE /\ Clocked(p) /\ acked = pull
  <2>1. at # 0
    BY <1>1, <1>8
  <2>2. Moves /\ scl' = 0 /\ low' = low /\ (pull = TRUE => Pulled(p)')
    BY <1>4, <1>8, <2>1, DeafLow
  <2>3. acked' = TRUE => Pulled(p)'
    BY <1>8, <2>2 DEF Moves
  <2>4. at' = o + (q + 7)
    BY <1>1, <1>8, <2>2 DEF Moves
  <2>5. InDeafWrite(o, p)'
    BY <1>8, <2>2, <2>3, <2>4 DEF InDeafWrite, q
  <2> QED BY <2>2, <2>5 DEF Moves
<1>9. CASE at = o + (q + 7) /\ scl = 0 /\ low = FALSE /\ (acked = TRUE => Pulled(p))
  <2>1. at # 0
    BY <1>1, <1>9
  <2>2. CheckAck
    BY <1>4, <1>9, <2>1, Reads
  <2>3. /\ at' = IF acked THEN at + 1 ELSE FailAt
        /\ result' = IF acked THEN result ELSE "failed"
        /\ UNCHANGED <<bits, settled, scl, low>> /\ UNCHANGED slave
    BY <2>2 DEF CheckAck, pins
  <2>4. CASE acked = TRUE
    <3>1. at' = o + WriteLen + 1 /\ result' = result
      BY <1>1, <1>9, <2>3, <2>4
    <3>2. Pulled(p)'
      BY <1>9, <2>3, <2>4, ClockStays
    <3> QED BY <1>9, <2>3, <3>1, <3>2
  <2>5. CASE acked # TRUE
    BY <2>3, <2>5
  <2> QED BY <2>4, <2>5
<1> QED BY ONLY <1>3, <1>5, <1>6, <1>7, <1>8, <1>9, Zenon

\* A start that a pulled line hides.
LEMMA StartsOrNot ==
  ASSUME Typed, at # 0, Program[at] = "low", Step, scl = 1, low = FALSE
  PROVE  /\ Moves /\ scl' = 1 /\ low' = TRUE
         /\ pull = TRUE => UNCHANGED slave
         /\ pull = FALSE => Seen("address")
<1>1. SetPins
  BY OnlySetsPins
<1>2. scl' = 1 /\ low' = TRUE /\ React(scl', low') /\ Moves
  BY <1>1 DEF SetPins, Op, Moves
<1>3. React(1, TRUE)
  BY <1>2
<1>4. CASE pull = TRUE
  <2>1. SDA = 0
    BY <1>4 DEF SDA, Wire
  <2>2. UNCHANGED slave
    BY <1>3, <1>4, <2>1 DEF React, Wire
  <2> QED BY <1>2, <1>4, <2>2
<1>5. CASE pull = FALSE
  <2>1. SDA = 1
    BY <1>5 DEF SDA, Wire
  <2>2. Seen("address")
    BY <1>3, <1>5, <2>1 DEF React, Wire
  <2> QED BY <1>2, <1>5, <2>2
<1> QED BY <1>4, <1>5 DEF Typed

\* write_byte begins, the sensor being at clock p.
LEMMA DeafWriteBegins ==
  ASSUME NEW o \in Nat, NEW p \in 1..ByteBits + 1, (at = o + 1)', Clocked(p)'
  PROVE  InDeafWrite(o, p)'
<1>1. 1 \in 1..ByteBits + 1 /\ o + 1 = o + (3 * (1 - 1) + 1) /\ After(p, 1 - 1) = p
  BY Widths, Round
<1> QED BY <1>1 DEF InDeafWrite

\* raw_i2c_init_bus and the first start: the start is seen, or the sensor takes
\* its clock for one of its byte.
LEMMA DeafInitStep ==
  ASSUME Typed, Sound, Step, InDeafInit
  PROVE  /\ UNCHANGED <<bits, result, settled>>
         /\ InDeafInit' \/ InStart(3)' \/ \E p \in 1..ByteBits + 1 : InDeafWrite(Write1, p)'
<1>1. /\ Program[1] = "zero" /\ Program[2] = "release" /\ Program[3] = "scl1"
      /\ Program[4] = "release" /\ Program[5] = "scl1" /\ Program[6] = "low"
      /\ Program[7] = "scl0"
  <2>1. Lies(raw_i2c_init_bus, 0)
    BY ProgramOperations
  <2>2. Lies(raw_i2c_start, 3)
    BY ProgramOperations, ReadRegOperations
  <2>3. /\ Program[0 + 1] = "zero" /\ Program[0 + 2] = "release" /\ Program[0 + 3] = "scl1"
    BY <2>1, ShortPieces DEF Lies
  <2>4. /\ Program[3 + 1] = "release" /\ Program[3 + 2] = "scl1" /\ Program[3 + 3] = "low"
        /\ Program[3 + 4] = "scl0"
    BY <2>2, ShortPieces DEF Lies
  <2> QED BY <2>3, <2>4
<1>2. CASE at = 1
  <2>1. Moves /\ scl' = 0 /\ low' = FALSE
    BY <1>1, <1>2, ZeroesPins
  <2> QED BY <1>2, <2>1 DEF Moves, InDeafInit
<1>3. CASE at = 2 /\ scl = 0 /\ low = FALSE
  <2>1. Moves /\ scl' = 0 /\ low' = FALSE
    BY <1>1, <1>3, KeepsData
  <2> QED BY <1>3, <2>1 DEF Moves, InDeafInit
<1>4. CASE at = 3 /\ scl = 0 /\ low = FALSE
  <2>1. Moves /\ scl' = 1 /\ low' = FALSE
    BY <1>1, <1>4, RaisesClock
  <2> QED BY <1>4, <2>1 DEF Moves, InDeafInit
<1>5. CASE at = 4 /\ scl = 1 /\ low = FALSE
  <2>1. Moves /\ scl' = 1 /\ low' = FALSE
    BY <1>1, <1>5, KeepsData
  <2> QED BY <1>5, <2>1 DEF Moves, InDeafInit
<1>6. CASE at = 5 /\ scl = 1 /\ low = FALSE
  <2>1. Moves /\ scl' = 1 /\ low' = FALSE
    BY <1>1, <1>6, RaisesClock
  <2> QED BY <1>6, <2>1 DEF Moves, InDeafInit
<1>7. CASE at = 6 /\ scl = 1 /\ low = FALSE
  <2>1. /\ Moves /\ scl' = 1 /\ low' = TRUE
        /\ pull = TRUE => UNCHANGED slave
        /\ pull = FALSE => Seen("address")
    BY <1>1, <1>7, StartsOrNot
  <2>2. at' = 7
    BY <1>7, <2>1 DEF Moves
  <2>3. CASE pull = TRUE
    <3>1. InDeafInit'
      BY <2>1, <2>2, <2>3 DEF InDeafInit, slave
    <3> QED BY <2>1, <3>1 DEF Moves
  <2>4. CASE pull = FALSE
    <3>1. InStart(3)'
      BY <2>1, <2>2, <2>4 DEF InStart, Seen
    <3> QED BY <2>1, <3>1 DEF Moves
  <2> QED BY <2>3, <2>4 DEF Typed
<1>8. CASE at = 7 /\ scl = 1 /\ low = TRUE /\ pull = TRUE
  <2>1. Moves /\ scl' = 0 /\ Fall
    <3>1. at # 0 /\ Program[at] = "scl0"
      BY <1>1, <1>8
    <3> QED BY <1>8, <3>1, LowersClock
  <2>2. at' = Write1 + 1 /\ Write1 \in Nat
    BY <1>8, <2>1 DEF Moves, Write1
  <2>3. ByteBits \in Nat /\ ByteBits >= 3
    BY Widths
  <2>4. PICK p \in 1..ByteBits + 1 : Clocked(p)'
    <3>1. CASE Receiving
      <4>1. count = ByteBits + 1
        <5>1. pull = (count = ByteBits + 1 \/ (count = ByteBits /\ scl = 0)) /\ scl # 0
          BY <1>8, <3>1 DEF Sound
        <5> QED BY <1>8, <5>1
      <4>2. mode # "send" /\ mode # "idle" /\ count # ByteBits /\ ~ (count < ByteBits)
        BY <2>3, <3>1, <4>1 DEF Receiving
      <4>3. Accept
        BY <2>1, <4>2 DEF Fall, Acknowledge, Send
      <4>4. count' = 0 /\ mode' \in {"data", "send", "pointer"}
        BY <4>3 DEF Accept
      <4>5. Clocked(ByteBits + 1)'
        BY <2>1, <4>4 DEF Clocked
      <4>6. ByteBits + 1 \in 1..ByteBits + 1
        BY <2>3
      <4> QED BY <4>5, <4>6
    <3>2. CASE mode = "send"
      <4>1. count \in 1..ByteBits + 1
        BY <1>8, <2>3, <3>2 DEF Sound
      <4>2. Clocked(count)
        BY <1>8, <3>2 DEF Clocked
      <4>3. Clocked(count') /\ count' = count /\ mode' = "send" /\ count # ByteBits + 1
        <5>1. count # ByteBits + 1
          BY <1>8, <3>2 DEF Sound
        <5>2. Send
          BY <2>1, <3>2 DEF Fall, Acknowledge, Accept, Receiving
        <5>3. count' = count /\ mode' = mode
          BY <5>1, <5>2 DEF Send
        <5> QED BY <3>2, <4>2, <5>1, <5>3
      <4>4. ASSUME NEW p, p = count PROVE Clocked(p)'
        BY <2>1, <4>3, <4>4 DEF Clocked
      <4> QED BY <4>1, <4>4
    <3>3. mode # "idle"
      BY <1>8 DEF Sound
    <3> QED BY <3>1, <3>2, <3>3 DEF Typed, Receiving
  <2>5. InDeafWrite(Write1, p)'
    BY <2>2, <2>4, DeafWriteBegins
  <2> QED BY <2>1, <2>5 DEF Moves
<1> QED BY <1>2, <1>3, <1>4, <1>5, <1>6, <1>7, <1>8 DEF InDeafInit

\* The second start of read_reg: a sensor that has read an acknowledge is in
\* the middle of a byte or about to receive one.
LEMMA DeafStartStep ==
  ASSUME Typed, Sound, Step, NEW o \in Nat, Lies(raw_i2c_start, o), InDeafStart(o)
  PROVE  /\ UNCHANGED <<bits, result, settled>>
         /\ \/ InDeafStart(o)' \/ InStart(o)'
            \/ \E p \in 2..ByteBits : InDeafWrite(o + 4, p)'
<1>1. /\ Program[o + 1] = "release" /\ Program[o + 2] = "scl1"
      /\ Program[o + 3] = "low" /\ Program[o + 4] = "scl0"
  BY ShortPieces DEF Lies
<1>2. ByteBits \in Nat /\ ByteBits >= 3
  BY Widths
<1>3. CASE at = o + 1 /\ scl = 0 /\ low = FALSE /\ \E p \in 1..ByteBits + 1 : Pulled(p)
  <2>1. at # 0
    BY <1>3
  <2>2. Moves /\ scl' = scl /\ low' = FALSE /\ UNCHANGED slave
    BY <1>1, <1>3, <2>1, KeepsData
  <2>3. at' = o + 2
    BY <1>3, <2>2 DEF Moves
  <2>4. \E p \in 1..ByteBits + 1 : Pulled(p)'
    BY <1>3, <2>2, ClockStays
  <2>5. InDeafStart(o)'
    BY <1>3, <2>2, <2>3, <2>4 DEF InDeafStart
  <2> QED BY <2>2, <2>5 DEF Moves
<1>4. CASE at = o + 2 /\ scl = 0 /\ low = FALSE /\ \E p \in 1..ByteBits + 1 : Pulled(p)
  <2>1. at # 0
    BY <1>4
  <2>2. Moves /\ scl' = 1 /\ low' = low /\ Rise(Wire(low, pull))
    BY <1>1, <1>4, <2>1, RaisesClock
  <2>3. at' = o + 3
    BY <1>4, <2>2 DEF Moves
  <2>4. PICK p \in 1..ByteBits + 1 : Pulled(p)
    BY <1>4
  <2>5. \/ mode = "data" /\ count = 0
        \/ mode = "send" /\ count \in 1..ByteBits
    <3>1. CASE p = ByteBits + 1
      BY <1>4, <2>4, <3>1 DEF Pulled, Clocked
    <3>2. CASE p # ByteBits + 1
      <4>1. p \in 1..ByteBits
        BY <1>2, <3>2
      <4> QED BY <1>4, <2>4, <3>2, <4>1 DEF Pulled, Clocked
    <3> QED BY <3>1, <3>2
  <2>6. mode' = mode /\ count' = count + 1
    BY <2>2, <2>5 DEF Rise
  <2>7. \/ mode' = "data" /\ count' = 1
        \/ mode' = "send" /\ count' \in 2..ByteBits + 1
    BY <1>2, <2>5, <2>6
  <2>8. InDeafStart(o)'
    BY <1>4, <2>2, <2>3, <2>7 DEF InDeafStart
  <2> QED BY <2>2, <2>8 DEF Moves
<1>5. CASE /\ at = o + 3 /\ scl = 1 /\ low = FALSE
           /\ \/ mode = "data" /\ count = 1
              \/ mode = "send" /\ count \in 2..ByteBits + 1
  <2>1. at # 0
    BY <1>5
  <2>2. /\ Moves /\ scl' = 1 /\ low' = TRUE
        /\ pull = TRUE => UNCHANGED slave
        /\ pull = FALSE => Seen("address")
    BY <1>1, <1>5, <2>1, StartsOrNot
  <2>3. at' = o + 4
    BY <1>5, <2>2 DEF Moves
  <2>4. CASE pull = TRUE
    <3>1. mode # "data" \/ count # 1
      <4>1. 1 # ByteBits + 1 /\ 1 # ByteBits
        BY <1>2
      <4> QED BY <2>4, <4>1 DEF Sound, Receiving
    <3>2. mode = "send" /\ count \in 2..ByteBits + 1
      BY <1>5, <3>1
    <3>3. count # ByteBits + 1
      BY <2>4, <3>2 DEF Sound
    <3>4. count \in 2..ByteBits
      BY <1>2, <3>2, <3>3
    <3>5. InDeafStart(o)'
      BY <2>2, <2>3, <2>4, <3>2, <3>4 DEF InDeafStart, slave
    <3> QED BY <2>2, <3>5 DEF Moves
  <2>5. CASE pull = FALSE
    <3>1. InStart(o)'
      BY <2>2, <2>3, <2>5 DEF InStart, Seen
    <3> QED BY <2>2, <3>1 DEF Moves
  <2> QED BY <2>4, <2>5 DEF Typed
<1>6. CASE at = o + 4 /\ scl = 1 /\ pull = TRUE /\ mode = "send" /\ count \in 2..ByteBits
  <2>1. at # 0 /\ Program[at] = "scl0"
    BY <1>1, <1>6
  <2>2. count \in 1..ByteBits + 1 /\ count # ByteBits + 1
    BY <1>2, <1>6
  <2>3. PICK p \in 2..ByteBits : p = count
    BY <1>6
  <2>4. p \in 1..ByteBits + 1
    BY <2>2, <2>3
  <2>5. Clocked(p)
    BY <1>6, <2>3 DEF Clocked
  <2>6. Moves /\ Clocked(p)'
    BY <2>1, <2>4, <2>5, DeafLow
  <2>7. at' = o + 4 + 1 /\ o + 4 \in Nat
    BY <1>6, <2>6 DEF Moves
  <2>8. InDeafWrite(o + 4, p)'
    BY <2>4, <2>6, <2>7, DeafWriteBegins
  <2> QED BY <2>3, <2>6, <2>8 DEF Moves
<1> QED BY <1>3, <1>4, <1>5, <1>6 DEF InDeafStart

\* What is read of a sensor that may not be listening is not to be relied on.
LEMMA ReadingBits ==
  ASSUME settled = FALSE, settled' = FALSE, NEW n \in 0..ByteBits
  PROVE  /\ Reading(n) => result = "none" /\ bits \in Seq({0, 1}) /\ Len(bits) = n
         /\ result' = "none" /\ bits' \in Seq({0, 1}) /\ Len(bits') = n => Reading(n)'
<1>1. \A i \in 1..n : ~ Sure(i) /\ ~ Sure(i)'
  BY Widths DEF Sure
<1> QED BY <1>1 DEF Reading, Got

\* raw_i2c_read_byte: the clocks tell the sensor to stop.
LEMMA FadingLow ==
  ASSUME Typed, Sound, at # 0, Program[at] = "scl0", Step, NEW c \in Nat, Fading(c)
  PROVE  Moves /\ scl' = 0 /\ low' = low /\ Fading(c)'
<1>1. /\ Moves /\ scl' = 0 /\ low' = low
      /\ scl = 0 => UNCHANGED slave
      /\ scl = 1 => Fall
  BY LowersClock
<1>2. ByteBits \in Nat /\ ByteBits >= 3
  BY Widths
<1>3. CASE UNCHANGED slave
  BY <1>1, <1>3 DEF Fading, slave
<1>4. CASE scl = 1 /\ mode = "idle"
  BY <1>1, <1>3, <1>4, SensorStays
<1>5. CASE /\ scl = 1 /\ mode = "send" /\ count \in c + 2..ByteBits + 1
           /\ count = ByteBits + 1 => shift = <<1>>
  <2>1. Send
    BY <1>1, <1>5 DEF Fall, Acknowledge, Accept, Receiving
  <2>2. CASE count = ByteBits + 1
    <3>1. <<1>> # <<0>>
      OBVIOUS
    <3>2. mode' = "idle"
      BY <1>2, <1>5, <2>1, <2>2, <3>1 DEF Send
    <3> QED BY <1>1, <3>2 DEF Fading
  <2>3. CASE count # ByteBits + 1
    <3>1. mode' = mode /\ count' = count
      BY <2>1, <2>3 DEF Send
    <3> QED BY <1>1, <1>5, <2>3, <3>1 DEF Fading
  <2> QED BY <2>2, <2>3
<1> QED BY <1>1, <1>3, <1>4, <1>5 DEF Fading, Typed

LEMMA FadingHigh ==
  ASSUME Typed, Sound, at # 0, Program[at] = "scl1", Step, NEW c \in Nat, Fading(c),
         scl = 0, low = FALSE
  PROVE  Moves /\ scl' = 1 /\ low' = FALSE /\ Fading(c + 1)'
<1>1. Moves /\ scl' = 1 /\ low' = FALSE /\ Rise(Wire(low, pull))
  BY RaisesClock
<1>2. ByteBits \in Nat /\ ByteBits >= 3
  BY Widths
<1>3. CASE mode = "idle"
  <2>1. UNCHANGED slave
    BY <1>1, <1>3, SensorStays
  <2> QED BY <1>1, <1>3, <2>1 DEF Fading, slave
<1>4. CASE mode = "send" /\ count \in c + 2..ByteBits + 1
  <2>1. count <= ByteBits /\ (count = ByteBits => pull = FALSE)
    BY <1>4 DEF Sound
  <2>2. mode' = "send" /\ count' = count + 1 /\ shift' = <<Wire(low, pull)>>
    BY <1>1, <1>4 DEF Rise
  <2>3. count' \in c + 1 + 2..ByteBits + 1
    BY <1>2, <1>4, <2>1, <2>2
  <2>4. count' = ByteBits + 1 => shift' = <<1>>
    <3>1. count' = ByteBits + 1 => count = ByteBits
      BY <1>2, <1>4, <2>2
    <3>2. pull = FALSE => Wire(low, pull) = 1
      BY DEF Wire
    <3> QED BY <2>1, <2>2, <3>1, <3>2
  <2> QED BY <1>1, <2>2, <2>3, <2>4 DEF Fading
<1> QED BY <1>3, <1>4 DEF Fading

\* raw_i2c_read_byte: on to its end, where the sensor has stopped.
LEMMA DeafReadStep ==
  ASSUME Typed, Sound, Step, settled = FALSE, NEW o \in Nat,
         Lies(raw_i2c_read_byte(FALSE), o), InDeafRead(o)
  PROVE  /\ settled' = FALSE
         /\ \/ InDeafRead(o)'
            \/ (at = o + ReadLen + 1 /\ scl = 0 /\ low = FALSE /\ mode = "idle"
                  /\ Reading(ByteBits))'
<1> DEFINE w == raw_i2c_read_byte(FALSE)
           q == 5 * ByteBits
<1>1. ByteBits \in Nat /\ ByteBits >= 3 /\ q \in Nat /\ ReadLen = q + 6
  BY Widths DEF ReadLen
<1>2. /\ Len(w) = ReadLen /\ w[1] = "release"
      /\ \A b \in 1..ByteBits :
           /\ w[5 * (b - 1) + 2] = "scl0" /\ w[5 * (b - 1) + 3] = "release"
           /\ w[5 * (b - 1) + 4] = "scl1" /\ w[5 * (b - 1) + 5] = "release"
           /\ w[5 * (b - 1) + 6] = "bit"
      /\ w[q + 2] = "scl0" /\ w[q + 3] = "release" /\ w[q + 4] = "scl1"
      /\ w[q + 5] = "scl0" /\ w[q + 6] = "release"
  BY ReadOperations
<1>3. \A j \in 1..ReadLen : Program[o + j] = w[j]
  BY <1>2 DEF Lies
<1>4. low = FALSE
  BY DEF InDeafRead
<1> HIDE DEF w
<1>5. ASSUME Moves, NEW n \in 0..ByteBits, Reading(n)
      PROVE  settled' = FALSE /\ Reading(n)'
  BY <1>5, ReadingBits DEF Moves
<1>6. CASE at = o + 1 /\ scl = 0 /\ Reading(0) /\ Fading(0)
  <2>1. 1 \in 1..ReadLen /\ 0 \in 0..ByteBits /\ 1 \in 1..ByteBits
    BY <1>1
  <2>2. at # 0 /\ Program[at] = "release"
    BY <1>2, <1>3, <1>6, <2>1
  <2>3. Moves /\ scl' = 0 /\ low' = FALSE /\ UNCHANGED slave
    BY <1>4, <1>6, <2>2, KeepsData
  <2>4. at' = o + (5 * (1 - 1) + 2) /\ 1 - 1 = 0
    BY <1>6, <2>3 DEF Moves
  <2>5. Fading(0)' /\ Reading(0)' /\ settled' = FALSE
    BY <1>5, <1>6, <2>1, <2>3, ClockStays
  <2>6. Fading(1 - 1)' /\ Reading(1 - 1)'
    BY <2>4, <2>5
  <2>7. InDeafRead(o)'
    BY <2>1, <2>3, <2>4, <2>6 DEF InDeafRead
  <2> QED BY <2>5, <2>7
<1>7. ASSUME NEW b \in 1..ByteBits, Reading(b - 1),
             \/ at = o + (5 * (b - 1) + 2) /\ Fading(b - 1)
             \/ /\ at \in {o + (5 * (b - 1) + 3), o + (5 * (b - 1) + 4)}
                /\ scl = 0 /\ Fading(b - 1)
             \/ /\ at \in {o + (5 * (b - 1) + 5), o + (5 * (b - 1) + 6)}
                /\ scl = 1 /\ Fading(b)
      PROVE  InDeafRead(o)' /\ settled' = FALSE
  <2> DEFINE p == 5 * (b - 1)
  <2>1. /\ b \in Nat /\ b - 1 \in Nat /\ b - 1 + 1 = b /\ p \in Nat /\ p + 6 <= ReadLen
        /\ b - 1 \in 0..ByteBits /\ b \in 0..ByteBits
    BY <1>1
  <2>2. /\ w[p + 2] = "scl0" /\ w[p + 3] = "release" /\ w[p + 4] = "scl1"
        /\ w[p + 5] = "release" /\ w[p + 6] = "bit"
    BY <1>2
  <2>3. \/ at = o + (p + 2) /\ Fading(b - 1)
        \/ at = o + (p + 3) /\ scl = 0 /\ Fading(b - 1)
        \/ at = o + (p + 4) /\ scl = 0 /\ Fading(b - 1)
        \/ at = o + (p + 5) /\ scl = 1 /\ Fading(b)
        \/ at = o + (p + 6) /\ scl = 1 /\ Fading(b)
    BY <1>7
  <2> HIDE DEF p
  <2>4. /\ Program[o + (p + 2)] = "scl0" /\ Program[o + (p + 3)] = "release"
        /\ Program[o + (p + 4)] = "scl1" /\ Program[o + (p + 5)] = "release"
        /\ Program[o + (p + 6)] = "bit"
    <3>1. {p + 2, p + 3, p + 4, p + 5, p + 6} \subseteq 1..ReadLen
      BY <1>1, <2>1
    <3> QED BY <1>3, <2>2, <3>1
  <2>5. at # 0
    BY <2>1, <2>3
  <2>6. CASE at = o + (p + 2) /\ Fading(b - 1)
    <3>1. Moves /\ scl' = 0 /\ low' = low /\ Fading(b - 1)'
      BY <2>1, <2>4, <2>5, <2>6, FadingLow
    <3>2. at' = o + (p + 3)
      BY <2>1, <2>6, <3>1 DEF Moves
    <3>3. Reading(b - 1)' /\ settled' = FALSE
      BY <1>5, <1>7, <2>1, <3>1
    <3>4. InDeafRead(o)'
      BY <1>4, <3>1, <3>2, <3>3 DEF InDeafRead, p
    <3> QED BY <3>3, <3>4
  <2>7. CASE at = o + (p + 3) /\ scl = 0 /\ Fading(b - 1)
    <3>1. Moves /\ scl' = 0 /\ low' = FALSE /\ UNCHANGED slave
      BY <1>4, <2>4, <2>5, <2>7, KeepsData
    <3>2. at' = o + (p + 4)
      BY <2>1, <2>7, <3>1 DEF Moves
    <3>3. Reading(b - 1)' /\ settled' = FALSE
      BY <1>5, <1>7, <2>1, <3>1
    <3>4. Fading(b - 1)'
      BY <2>7, <3>1, ClockStays
    <3>5. InDeafRead(o)'
      BY <3>1, <3>2, <3>3, <3>4 DEF InDeafRead, p
    <3> QED BY <3>3, <3>5
  <2>8. CASE at = o + (p + 4) /\ scl = 0 /\ Fading(b - 1)
    <3>1. Moves /\ scl' = 1 /\ low' = FALSE /\ Fading(b - 1 + 1)'
      BY <1>4, <2>1, <2>4, <2>5, <2>8, FadingHigh
    <3>2. at' = o + (p + 5)
      BY <2>1, <2>8, <3>1 DEF Moves
    <3>3. Reading(b - 1)' /\ settled' = FALSE
      BY <1>5, <1>7, <2>1, <3>1
    <3>4. Fading(b)'
      BY <2>1, <3>1
    <3>5. InDeafRead(o)'
      BY <3>1, <3>2, <3>3, <3>4 DEF InDeafRead, p
    <3> QED BY <3>3, <3>5
  <2>9. CASE at = o + (p + 5) /\ scl = 1 /\ Fading(b)
    <3>1. Moves /\ scl' = 1 /\ low' = FALSE /\ UNCHANGED slave
      BY <1>4, <2>4, <2>5, <2>9, KeepsData
    <3>2. at' = o + (p + 6)
      BY <2>1, <2>9, <3>1 DEF Moves
    <3>3. Reading(b - 1)' /\ settled' = FALSE
      BY <1>5, <1>7, <2>1, <3>1
    <3>4. Fading(b)'
      BY <2>9, <3>1, ClockStays
    <3>5. InDeafRead(o)'
      BY <3>1, <3>2, <3>3, <3>4 DEF InDeafRead, p
    <3> QED BY <3>3, <3>5
  <2>10. CASE at = o + (p + 6) /\ scl = 1 /\ Fading(b)
    <3>1. /\ bits' = Append(bits, SDA) /\ at' = o + (p + 6) + 1
          /\ UNCHANGED <<result, settled, scl, low>> /\ UNCHANGED slave
      BY <2>4, <2>5, <2>10, Reads DEF pins
    <3>2. Fading(b)'
      BY <2>10, <3>1, ClockStays
    <3>3. Reading(b)' /\ settled' = FALSE
      <4>1. result = "none" /\ bits \in Seq({0, 1}) /\ Len(bits) = b - 1
        BY <1>7, <2>1, <3>1, ReadingBits
      <4>2. SDA \in {0, 1}
        BY DEF SDA, Wire
      <4>3. bits' \in Seq({0, 1}) /\ Len(bits') = b
        BY <2>1, <3>1, <4>1, <4>2, AppendProperties
      <4> QED BY <2>1, <3>1, <4>1, <4>3, ReadingBits
    <3>4. CASE b < ByteBits
      <4>1. PICK c \in 1..ByteBits : c - 1 = b
        <5>1. b + 1 \in 1..ByteBits /\ b + 1 - 1 = b
          BY <1>1, <2>1, <3>4
        <5> QED BY <5>1
      <4>2. at' = o + (5 * (c - 1) + 2)
        BY <2>1, <3>1, <4>1 DEF p
      <4>3. Fading(c - 1)' /\ Reading(c - 1)'
        BY <3>2, <3>3, <4>1
      <4>4. InDeafRead(o)'
        BY <1>4, <3>1, <4>2, <4>3 DEF InDeafRead
      <4> QED BY <3>3, <4>4
    <3>5. CASE b = ByteBits
      <4>1. at' = o + (5 * ByteBits + 2)
        BY <1>1, <3>1, <3>5 DEF p
      <4>2. mode' = "idle" /\ Reading(ByteBits)'
        <5>1. ~ (count' \in ByteBits + 2..ByteBits + 1)
          BY <1>1
        <5> QED BY <3>2, <3>3, <3>5, <5>1 DEF Fading
      <4>3. InDeafRead(o)'
        BY <1>4, <2>10, <3>1, <4>1, <4>2 DEF InDeafRead
      <4> QED BY <3>3, <4>3
    <3>6. b < ByteBits \/ b = ByteBits
      BY <1>1
    <3> QED BY <3>4, <3>5, <3>6
  <2> QED BY <2>3, <2>6, <2>7, <2>8, <2>9, <2>10
<1>8. CASE /\ Reading(ByteBits) /\ mode = "idle"
           /\ \/ at = o + (q + 2) /\ scl = 1
              \/ at \in {o + (q + 3), o + (q + 4)} /\ scl = 0
              \/ at = o + (q + 5) /\ scl = 1
              \/ at = o + (q + 6) /\ scl = 0
  <2> HIDE DEF q
  <2>1. /\ Program[o + (q + 2)] = "scl0" /\ Program[o + (q + 3)] = "release"
        /\ Program[o + (q + 4)] = "scl1" /\ Program[o + (q + 5)] = "scl0"
        /\ Program[o + (q + 6)] = "release"
    <3>1. {q + 2, q + 3, q + 4, q + 5, q + 6} \subseteq 1..ReadLen
      BY <1>1
    <3> QED BY <1>2, <1>3, <3>1
  <2>2. at # 0
    BY <1>1, <1>8
  <2>3. ASSUME Moves, low' = FALSE, UNCHANGED slave
        PROVE  low' = FALSE /\ mode' = "idle" /\ Reading(ByteBits)' /\ settled' = FALSE
    <3>1. ByteBits \in 0..ByteBits
      BY <1>1
    <3> QED BY <1>5, <1>8, <2>3, <3>1 DEF slave
  <2>4. CASE at = o + (q + 2) /\ scl = 1
    <3>1. Moves /\ scl' = 0 /\ low' = FALSE /\ UNCHANGED slave
      BY <1>4, <1>8, <2>1, <2>2, <2>4, LowersClock, SensorStays
    <3>2. at' = o + (q + 3)
      BY <1>1, <2>4, <3>1 DEF Moves
    <3> QED BY <2>3, <3>1, <3>2 DEF InDeafRead, q
  <2>5. CASE at = o + (q + 3) /\ scl = 0
    <3>1. Moves /\ scl' = 0 /\ low' = FALSE /\ UNCHANGED slave
      BY <1>4, <2>1, <2>2, <2>5, KeepsData
    <3>2. at' = o + (q + 4)
      BY <1>1, <2>5, <3>1 DEF Moves
    <3> QED BY <2>3, <3>1, <3>2 DEF InDeafRead, q
  <2>6. CASE at = o + (q + 4) /\ scl = 0
    <3>1. Moves /\ scl' = 1 /\ low' = FALSE /\ UNCHANGED slave
      BY <1>4, <1>8, <2>1, <2>2, <2>6, RaisesClock, SensorStays
    <3>2. at' = o + (q + 5)
      BY <1>1, <2>6, <3>1 DEF Moves
    <3> QED BY <2>3, <3>1, <3>2 DEF InDeafRead, q
  <2>7. CASE at = o + (q + 5) /\ scl = 1
    <3>1. Moves /\ scl' = 0 /\ low' = FALSE /\ UNCHANGED slave
      BY <1>4, <1>8, <2>1, <2>2, <2>7, LowersClock, SensorStays
    <3>2. at' = o + (q + 6)
      BY <1>1, <2>7, <3>1 DEF Moves
    <3> QED BY <2>3, <3>1, <3>2 DEF InDeafRead, q
  <2>8. CASE at = o + (q + 6) /\ scl = 0
    <3>1. Moves /\ scl' = 0 /\ low' = FALSE /\ UNCHANGED slave
      BY <1>4, <2>1, <2>2, <2>8, KeepsData
    <3>2. at' = o + ReadLen + 1
      BY <1>1, <2>8, <3>1 DEF Moves
    <3> QED BY <2>3, <3>1, <3>2
  <2> QED BY <1>8, <2>4, <2>5, <2>6, <2>7, <2>8
<1> QED BY <1>6, <1>7, <1>8 DEF InDeafRead

\* Where the pieces of the first read_reg are.
LEMMA FirstPieces ==
  /\ Write1 \in Nat /\ Write2 \in Nat /\ Restart \in Nat /\ Write3 \in Nat
  /\ Write1 + WriteLen = Write2 /\ Write2 + WriteLen = Restart
  /\ Restart + 4 = Write3 /\ Write3 + WriteLen = Fetch1
  /\ Lies(raw_i2c_write_byte(Append(Address, 0)), Write1)
  /\ Lies(raw_i2c_write_byte(Register(3)), Write2)
  /\ Lies(raw_i2c_start, Restart)
  /\ Lies(raw_i2c_write_byte(Append(Address, 1)), Write3)
<1>1. WriteLen \in Nat
  BY Widths DEF WriteLen
<1>2. /\ 3 + 4 = Write1 /\ 3 + 4 + WriteLen = Write2 /\ 3 + 4 + 2 * WriteLen = Restart
      /\ 3 + 8 + 2 * WriteLen = Write3
  BY <1>1 DEF Write1, Write2, Restart, Write3
<1>3. Lies(raw_i2c_read_reg(3, 1), 3)
  BY ProgramOperations
<1>4. /\ Lies(raw_i2c_write_byte(Append(Address, 0)), 3 + 4)
      /\ Lies(raw_i2c_write_byte(Register(3)), 3 + 4 + WriteLen)
      /\ Lies(raw_i2c_start, 3 + 4 + 2 * WriteLen)
      /\ Lies(raw_i2c_write_byte(Append(Address, 1)), 3 + 8 + 2 * WriteLen)
  BY <1>3, ReadRegOperations
<1>5. /\ Write1 \in Nat /\ Write2 \in Nat /\ Restart \in Nat /\ Write3 \in Nat
      /\ Write1 + WriteLen = Write2 /\ Write2 + WriteLen = Restart
      /\ Restart + 4 = Write3 /\ Write3 + WriteLen = Fetch1
  BY <1>1 DEF Write1, Write2, Restart, Write3, Fetch1, FetchFrom
<1> QED BY <1>2, <1>4, <1>5

\* The first read_reg from its second start on, once that one has been seen:
\* some register's byte is read, and the bus is as in any other reading.
LEMMA OtherRegStep ==
  ASSUME Typed, settled = FALSE, Step, InOtherReg
  PROVE  /\ settled' = FALSE
         /\ \/ InOtherReg'
            \/ InStop(Stop1)' /\ Reading(ByteBits)'
            \/ result' = "failed" /\ at' = FailAt
<1> DEFINE a1 == Append(Address, 1)
<1>1. 0 \in 0..ByteBits /\ 0 + ByteBits = ByteBits /\ ByteBits \in Nat
  BY Widths
<1>2. ASSUME UNCHANGED <<bits, result, settled>>, Reading(0)
      PROVE  Reading(0)' /\ settled' = FALSE
  BY <1>1, <1>2, ReadingBits
<1>3. CASE Reading(0) /\ InStart(Restart)
  <2>1. /\ InStart(Restart)' \/ WriteBegins(Restart + 4, "address")'
        /\ Calm
    BY <1>3, FirstPieces, StartStep
  <2>2. Reading(0)' /\ settled' = FALSE
    BY <1>2, <1>3, <2>1 DEF Calm
  <2>3. CASE InStart(Restart)'
    BY <2>2, <2>3 DEF InOtherReg
  <2>4. CASE WriteBegins(Restart + 4, "address")'
    <3>1. InWrite(Write3, "address", a1)'
      <4>1. Write3 \in Nat /\ WriteBegins(Write3, "address")'
        BY <2>4, FirstPieces
      <4> QED BY <4>1, WriteBeginsInWrite
    <3> QED BY <2>2, <3>1 DEF InOtherReg
  <2> QED BY <2>1, <2>3, <2>4
<1>4. CASE Reading(0) /\ InWrite(Write3, "address", a1)
  <2>1. a1 \in Byte /\ a1[ByteBits] = 1 /\ \A i \in 1..AddressBits : a1[i] = Address[i]
    BY WrittenBytes
  <2> HIDE DEF a1
  <2>2. /\ UNCHANGED <<bits, settled, sensor, file>> /\ ptr' = ptr
        /\ \/ result' = result /\ InWrite(Write3, "address", a1)'
           \/ result' = result /\ WriteDone(Write3 + WriteLen, "address", a1)'
           \/ Fails("address")'
    <3>1. Write3 \in Nat /\ Lies(raw_i2c_write_byte(a1), Write3) /\ "address" \in {"address", "pointer"}
      BY FirstPieces DEF a1
    <3> QED BY <1>4, <2>1, <3>1, WriteStep
  <2>3. CASE result' = result /\ InWrite(Write3, "address", a1)'
    <3>1. Reading(0)' /\ settled' = FALSE
      BY <1>2, <1>4, <2>2, <2>3
    <3> QED BY <2>3, <3>1 DEF InOtherReg, a1
  <2>4. CASE result' = result /\ WriteDone(Write3 + WriteLen, "address", a1)'
    <3>1. Reading(0)' /\ settled' = FALSE
      BY <1>2, <1>4, <2>2, <2>4
    <3>2. at' = Fetch1 + 1 /\ scl' = 0 /\ low' = FALSE /\ Accepted("address", a1)'
      BY <2>4, FirstPieces DEF WriteDone
    <3>3. mode' = "send" /\ count' = 0 /\ Here' /\ pull' = SentBit(ptr, 1)'
      <4>1. mode' = "send" /\ count' = 0 /\ Here'
        BY <2>1, <3>2 DEF Accepted
      <4>2. pull' = (mode' = "send" /\ SentBit(ptr, 1)')
        BY <3>2 DEF Accepted
      <4>3. SentBit(ptr, 1)' \in BOOLEAN
        BY DEF SentBit
      <4> QED BY <4>1, <4>2, <4>3
    <3>4. PICK r \in 0..3 : r = ptr
      BY DEF Typed
    <3>5. Sending(r, 0)' /\ pull' = SentBit(r, 1)'
      BY <2>2, <3>3, <3>4 DEF Sending, SentBit
    <3>6. Got(0)' /\ result' = "none"
      BY <3>1 DEF Reading
    <3>7. InRead(Fetch1, FALSE, r, 0)'
      BY <3>2, <3>5, <3>6 DEF InRead
    <3>8. InOtherReg'
      BY <3>3, <3>4, <3>6, <3>7 DEF InOtherReg
    <3> QED BY <3>1, <3>8
  <2>5. CASE Fails("address")'
    BY <2>2, <2>5 DEF Fails
  <2> QED BY <2>2, <2>3, <2>4, <2>5
<1>5. CASE result = "none" /\ Here /\ \E r \in 0..3 : InRead(Fetch1, FALSE, r, 0)
  <2>1. PICK r \in 0..3 : InRead(Fetch1, FALSE, r, 0)
    BY <1>5
  <2>2. \A b \in 1..ByteBits : Sure(0 + b) => Wanted[0 + b] = file[r][b]
    BY <1>1 DEF Sure
  <2>3. /\ InRead(Fetch1, FALSE, r, 0)' \/ ReadDone(Fetch1 + ReadLen, FALSE, r, 0)'
        /\ UNCHANGED <<result, settled, kills, sensor, file>>
    <3>1. 0 \in Nat /\ FALSE \in BOOLEAN /\ file \in [0..3 -> Byte]
      BY DEF Typed
    <3>2. Fetch1 \in Nat /\ Lies(raw_i2c_read_byte(FALSE), Fetch1)
      BY LatePieces
    <3> QED BY <2>1, <2>2, <3>1, <3>2, ReadStep, Zenon
  <2>4. settled' = FALSE /\ result' = "none" /\ Here'
    BY <1>5, <2>3 DEF Here
  <2>5. CASE InRead(Fetch1, FALSE, r, 0)'
    <3>1. InOtherReg'
      BY <2>1, <2>4, <2>5 DEF InOtherReg
    <3> QED BY <2>4, <3>1
  <2>6. CASE ReadDone(Fetch1 + ReadLen, FALSE, r, 0)'
    <3>1. /\ at' = Stop1 + 1 /\ scl' = 0 /\ low' = FALSE /\ mode' = "idle" /\ pull' = FALSE
          /\ Got(0 + ByteBits)'
      BY <2>6 DEF ReadDone, Answer, Stop1
    <3>2. InStop(Stop1)' /\ Reading(ByteBits)'
      BY <1>1, <2>4, <3>1 DEF InStop, Reading
    <3> QED BY <2>4, <3>2
  <2> QED BY <2>3, <2>5, <2>6
<1> QED BY <1>3, <1>4, <1>5 DEF InOtherReg

\* The stops and the end of a reading that has failed.
LEMMA FailedStep ==
  ASSUME Step, result = "failed", at \in Stop2 + 1..Stop3 + 4
  PROVE  /\ settled' = settled /\ result' = "failed"
         /\ at' = 0 \/ at' \in Stop2 + 1..Stop3 + 4
<1>1. Stop2 \in Nat /\ Stop3 \in Nat /\ Stop3 = Stop2 + 3
  BY LatePieces DEF Stop3
<1>2. /\ Program[Stop2 + 1] = "low" /\ Program[Stop2 + 2] = "scl1"
      /\ Program[Stop2 + 3] = "release"
      /\ Program[Stop3 + 1] = "low" /\ Program[Stop3 + 2] = "scl1"
      /\ Program[Stop3 + 3] = "release"
      /\ Program[Stop3 + 4] = "close"
  BY LatePieces, ProgramOperations, ShortPieces DEF Lies
<1>3. at # 0
  BY <1>1
<1>4. CASE at = Stop3 + 4
  <2>1. Close
    BY <1>2, <1>3, <1>4, Reads
  <2> QED BY <2>1 DEF Close
<1>5. CASE at # Stop3 + 4
  <2>1. at \in {Stop2 + 1, Stop2 + 2, Stop2 + 3, Stop3 + 1, Stop3 + 2, Stop3 + 3}
    BY <1>1, <1>5
  <2>2. Program[at] \in {"zero", "release", "low", "scl0", "scl1"}
    BY <1>2, <2>1
  <2>3. SetPins
    BY <1>3, <2>2, OnlySetsPins
  <2>4. at' = at + 1 /\ result' = result /\ settled' = settled
    BY <2>3 DEF SetPins
  <2> QED BY <1>1, <1>5, <2>4
<1> QED BY <1>4, <1>5

\* After a kill a step keeps the process astray or brings it where it would be
\* without one.
LEMMA AstrayStep ==
  ASSUME Typed, Sound, settled = FALSE, Astray, Step
  PROVE  settled' = FALSE /\ (Where' \/ Astray')
<1>1. /\ 0 \in 0..ByteBits /\ ByteBits \in Nat /\ ByteBits >= 3
      /\ \A p \in 2..ByteBits : p \in 1..ByteBits + 1 /\ p # ByteBits + 1
  BY Widths
<1>2. ASSUME UNCHANGED <<bits, settled>>, result' = result, Reading(0)
      PROVE  Reading(0)' /\ settled' = FALSE
  BY <1>1, <1>2, ReadingBits
<1>3. ASSUME result' = "failed", at' = FailAt PROVE Astray'
  <2>1. at' \in Stop2 + 1..Stop3 + 4
    BY <1>3, ProgramOperations, LatePieces DEF Stop3
  <2> QED BY <1>3, <2>1 DEF Astray
<1>4. /\ Append(Address, 0) \in Byte /\ Append(Address, 1) \in Byte /\ Register(3) \in Byte
  BY WrittenBytes
<1>5. CASE at = 0 /\ result \in {"none", "failed"}
  <2>1. Begin
    BY <1>5 DEF Step, Begin, SetPins, ReadAck, CheckAck, ReadBit, Close
  <2>2. at' = 1 /\ bits' = <<>> /\ result' = "none" /\ settled' = FALSE
    BY <1>5, <2>1 DEF Begin
  <2>3. Reading(0)' /\ InDeafInit'
    BY <2>2 DEF Reading, Got, InDeafInit
  <2> QED BY <2>2, <2>3 DEF Astray
<1>6. CASE Reading(0) /\ InDeafInit
  <2>1. /\ UNCHANGED <<bits, result, settled>>
        /\ InDeafInit' \/ InStart(3)' \/ \E p \in 1..ByteBits + 1 : InDeafWrite(Write1, p)'
    BY <1>6, DeafInitStep
  <2>2. Reading(0)' /\ settled' = FALSE
    BY <1>2, <1>6, <2>1
  <2>3. InStart(3)' => Where'
    BY <2>2 DEF InReadReg, Where
  <2>4. InDeafInit' \/ (\E p \in 1..ByteBits + 1 : InDeafWrite(Write1, p)') => Astray'
    BY <2>2 DEF Astray
  <2> QED BY <2>1, <2>2, <2>3, <2>4
<1>7. CASE Reading(0) /\ \E p \in 1..ByteBits + 1 : InDeafWrite(Write1, p)
  <2>1. PICK p \in 1..ByteBits + 1 : InDeafWrite(Write1, p)
    BY <1>7
  <2>2. /\ UNCHANGED <<bits, settled>>
        /\ \/ result' = result /\ InDeafWrite(Write1, p)'
           \/ result' = result /\ at' = Write1 + WriteLen + 1 /\ Pulled(p)'
           \/ result' = "failed" /\ at' = FailAt
    BY <1>4, <2>1, FirstPieces, DeafWriteStep
  <2>3. CASE result' = result /\ InDeafWrite(Write1, p)'
    <3>1. Reading(0)' /\ settled' = FALSE
      BY <1>2, <1>7, <2>2, <2>3
    <3> QED BY <2>3, <3>1 DEF Astray
  <2>4. CASE result' = result /\ at' = Write1 + WriteLen + 1 /\ Pulled(p)'
    <3>1. Reading(0)' /\ settled' = FALSE
      BY <1>2, <1>7, <2>2, <2>4
    <3>2. at' = Write2 + 1 /\ Write2 \in Nat
      BY <2>4, FirstPieces
    <3>3. InDeafWrite(Write2, p)'
      BY <2>4, <3>2, DeafWriteBegins DEF Pulled
    <3> QED BY <3>1, <3>3 DEF Astray
  <2>5. CASE result' = "failed" /\ at' = FailAt
    BY <1>3, <2>2, <2>5
  <2> QED BY <2>2, <2>3, <2>4, <2>5
<1>8. CASE Reading(0) /\ \E p \in 1..ByteBits + 1 : InDeafWrite(Write2, p)
  <2>1. PICK p \in 1..ByteBits + 1 : InDeafWrite(Write2, p)
    BY <1>8
  <2>2. /\ UNCHANGED <<bits, settled>>
        /\ \/ result' = result /\ InDeafWrite(Write2, p)'
           \/ /\ result' = result /\ at' = Write2 + WriteLen + 1
              /\ scl' = 0 /\ low' = FALSE /\ Pulled(p)'
           \/ result' = "failed" /\ at' = FailAt
    BY <1>4, <2>1, FirstPieces, DeafWriteStep
  <2>3. CASE result' = result /\ InDeafWrite(Write2, p)'
    <3>1. Reading(0)' /\ settled' = FALSE
      BY <1>2, <1>8, <2>2, <2>3
    <3> QED BY <2>3, <3>1 DEF Astray
  <2>4. CASE /\ result' = result /\ at' = Write2 + WriteLen + 1
             /\ scl' = 0 /\ low' = FALSE /\ Pulled(p)'
    <3>1. Reading(0)' /\ settled' = FALSE
      BY <1>2, <1>8, <2>2, <2>4
    <3>2. at' = Restart + 1
      BY <2>4, FirstPieces
    <3>3. InDeafStart(Restart)'
      BY <2>4, <3>2 DEF InDeafStart
    <3> QED BY <3>1, <3>3 DEF Astray
  <2>5. CASE result' = "failed" /\ at' = FailAt
    BY <1>3, <2>2, <2>5
  <2> QED BY <2>2, <2>3, <2>4, <2>5
<1>9. CASE Reading(0) /\ InDeafStart(Restart)
  <2>1. /\ UNCHANGED <<bits, result, settled>>
        /\ \/ InDeafStart(Restart)' \/ InStart(Restart)'
           \/ \E p \in 2..ByteBits : InDeafWrite(Restart + 4, p)'
    BY <1>9, FirstPieces, DeafStartStep
  <2>2. Reading(0)' /\ settled' = FALSE
    BY <1>2, <1>9, <2>1
  <2>3. Restart + 4 = Write3
    BY FirstPieces
  <2>4. InStart(Restart)' => Astray'
    BY <2>2 DEF InOtherReg, Astray
  <2>5. InDeafStart(Restart)' => Astray'
    BY <2>2 DEF Astray
  <2>6. (\E p \in 2..ByteBits : InDeafWrite(Restart + 4, p)') => Astray'
    BY <2>2, <2>3 DEF Astray
  <2> QED BY <2>1, <2>2, <2>4, <2>5, <2>6
<1>10. CASE Reading(0) /\ \E p \in 2..ByteBits : InDeafWrite(Write3, p)
  <2>1. PICK p \in 2..ByteBits : InDeafWrite(Write3, p)
    BY <1>10
  <2>2. p \in 1..ByteBits + 1 /\ p # ByteBits + 1
    BY <1>1
  <2>3. /\ UNCHANGED <<bits, settled>>
        /\ \/ result' = result /\ InDeafWrite(Write3, p)'
           \/ /\ result' = result /\ at' = Write3 + WriteLen + 1
              /\ scl' = 0 /\ low' = FALSE /\ Pulled(p)'
           \/ result' = "failed" /\ at' = FailAt
    BY <1>4, <2>1, <2>2, FirstPieces, DeafWriteStep
  <2>4. CASE result' = result /\ InDeafWrite(Write3, p)'
    <3>1. Reading(0)' /\ settled' = FALSE
      BY <1>2, <1>10, <2>3, <2>4
    <3> QED BY <2>4, <3>1 DEF Astray
  <2>5. CASE /\ result' = result /\ at' = Write3 + WriteLen + 1
             /\ scl' = 0 /\ low' = FALSE /\ Pulled(p)'
    <3>1. Reading(0)' /\ settled' = FALSE
      BY <1>2, <1>10, <2>3, <2>5
    <3>2. at' = Fetch1 + 1
      BY <2>5, FirstPieces
    <3>3. mode' = "send" /\ count' = p
      BY <2>2, <2>5 DEF Pulled, Clocked
    <3>4. Fading(0)'
      BY <1>1, <2>2, <3>3 DEF Fading
    <3>5. InDeafRead(Fetch1)'
      BY <2>5, <3>1, <3>2, <3>4 DEF InDeafRead
    <3> QED BY <3>1, <3>5 DEF Astray
  <2>6. CASE result' = "failed" /\ at' = FailAt
    BY <1>3, <2>3, <2>6
  <2> QED BY <2>3, <2>4, <2>5, <2>6
<1>11. CASE InDeafRead(Fetch1)
  <2>1. /\ settled' = FALSE
        /\ \/ InDeafRead(Fetch1)'
           \/ /\ at' = Fetch1 + ReadLen + 1 /\ scl' = 0 /\ low' = FALSE /\ mode' = "idle"
              /\ Reading(ByteBits)'
    BY <1>11, LatePieces, DeafReadStep
  <2>2. CASE InDeafRead(Fetch1)'
    BY <2>1, <2>2 DEF Astray
  <2>3. CASE /\ at' = Fetch1 + ReadLen + 1 /\ scl' = 0 /\ low' = FALSE /\ mode' = "idle"
             /\ Reading(ByteBits)'
    <3>1. pull' = FALSE
      BY <2>3, StepSound DEF Sound
    <3>2. InStop(Stop1)'
      BY <2>3, <3>1 DEF InStop, Stop1
    <3> QED BY <2>1, <2>3, <3>2 DEF Where
  <2> QED BY <2>1, <2>2, <2>3
<1>12. CASE InOtherReg
  <2>1. /\ settled' = FALSE
        /\ \/ InOtherReg'
           \/ InStop(Stop1)' /\ Reading(ByteBits)'
           \/ result' = "failed" /\ at' = FailAt
    BY <1>12, OtherRegStep
  <2>2. InStop(Stop1)' /\ Reading(ByteBits)' => Where'
    BY DEF Where
  <2>3. InOtherReg' => Astray'
    BY DEF Astray
  <2> QED BY <1>3, <2>1, <2>2, <2>3
<1>13. CASE result = "failed" /\ at \in Stop2 + 1..Stop3 + 4
  <2>1. /\ settled' = settled /\ result' = "failed"
        /\ at' = 0 \/ at' \in Stop2 + 1..Stop3 + 4
    BY <1>13, FailedStep
  <2> QED BY <2>1 DEF Astray
<1> QED BY ONLY Astray, <1>5, <1>6, <1>7, <1>8, <1>9, <1>10, <1>11, <1>12, <1>13, Zenon DEF Astray

-----------------------------------------------------------------------------
(* Theorems *)

LEMMA InitEstablishes ==
  ASSUME Init
  PROVE  IInv
<1>1. Typed
  <2>1. file \in [0..3 -> Byte]
    BY RawI2cAssumption DEF Init
  <2>2. kills \in Nat /\ ptr \in 0..3 /\ scl \in {0, 1}
    BY DEF Init
  <2>3. settled \in BOOLEAN /\ low \in BOOLEAN /\ pull \in BOOLEAN /\ mode = "idle"
    BY DEF Init
  <2> QED BY <2>1, <2>2, <2>3 DEF Typed
<1>2. Sound
  BY DEF Init, Sound, Receiving
<1>3. Between
  BY DEF Init, Between
<1> QED BY <1>1, <1>2, <1>3 DEF IInv, Where

\* A kill leaves the pins and the sensor as they are.
LEMMA KillPreserves ==
  ASSUME IInv, Kill
  PROVE  IInv'
<1>1. Typed /\ Sound
  BY DEF IInv
<1>2. Typed' /\ Sound'
  <2>1. kills' = kills + 1 /\ settled' = FALSE /\ UNCHANGED <<pins, slave>>
    BY DEF Kill
  <2>2. /\ scl' = scl /\ low' = low /\ pull' = pull /\ file' = file /\ ptr' = ptr
        /\ mode' = mode /\ count' = count /\ shift' = shift
    BY <2>1 DEF pins, slave
  <2>3. Typed'
    <3>1. kills' \in Nat
      BY <1>1, <2>1 DEF Typed
    <3> QED BY <1>1, <2>1, <2>2, <3>1 DEF Typed
  <2>4. Sound'
    BY <1>1, <2>2 DEF Sound, Receiving
  <2> QED BY <2>3, <2>4
<1>3. settled' = FALSE /\ Astray'
  BY DEF Kill, Astray
<1> QED BY <1>2, <1>3 DEF IInv

\* So does a stutter.
LEMMA StutterPreserves ==
  ASSUME IInv, UNCHANGED vars
  PROVE  IInv'
<1>1. /\ kills' = kills /\ file' = file /\ at' = at /\ low' = low /\ pull' = pull
      /\ scl' = scl /\ mode' = mode /\ result' = result /\ bits' = bits /\ sensor' = sensor
      /\ ptr' = ptr /\ count' = count /\ shift' = shift /\ acked' = acked
      /\ settled' = settled
  BY DEF vars, process, pins, slave
<1>2. /\ Here' = Here
      /\ \A k : Got(k)' = Got(k)
      /\ \A r, c : Sending(r, c)' = Sending(r, c) /\ SentBit(r, c)' = SentBit(r, c)
  BY <1>1, GotStays DEF Here, Sending, SentBit
<1>3. /\ \A o : InStart(o)' = InStart(o) /\ InStop(o)' = InStop(o)
      /\ InInit' = InInit /\ BusIdle' = BusIdle
  BY <1>1 DEF InStart, InStop, InInit, BusIdle
<1>4. Outcome' = Outcome /\ \A k : Reading(k)' = Reading(k)
  BY <1>1, <1>2 DEF Outcome, Reading
<1>5. Between' = Between
  BY <1>1, <1>4 DEF Between
<1>6. \A m, byte, c : /\ Answered(m, byte, c)' = Answered(m, byte, c)
                      /\ Accepted(m, byte)' = Accepted(m, byte) /\ Ignored(m)' = Ignored(m)
  BY <1>1, <1>2 DEF Answered, Accepted, Ignored, Taken
<1>7. \A o, m, byte, b : InWriteBit(o, m, byte, b)' = InWriteBit(o, m, byte, b)
  BY <1>1 DEF InWriteBit, Taken
<1>8. \A o, m, byte : InWriteAck(o, m, byte)' = InWriteAck(o, m, byte)
  BY <1>1, <1>6 DEF InWriteAck, Taken
<1>9. \A o, m, byte : InWrite(o, m, byte)' = InWrite(o, m, byte)
  BY <1>7, <1>8 DEF InWrite
<1>10. \A o, r, k : InReadReg(o, r, k)' = InReadReg(o, r, k)
  BY <1>1, <1>2, <1>3, <1>4, <1>9 DEF InReadReg
<1>11. \A o, r, k, b : InReadBit(o, r, k, b)' = InReadBit(o, r, k, b)
  BY <1>1, <1>2 DEF InReadBit
<1>12. ASSUME NEW o, NEW ack \in BOOLEAN, NEW r, NEW k
       PROVE  InReadAck(o, ack, r, k)' = InReadAck(o, ack, r, k)
  <2>1. Answer(ack, r)' = Answer(ack, r)
    BY <1>1, <1>2 DEF Answer
  <2>2. Got(k + ByteBits)' = Got(k + ByteBits)
    BY <1>2
  <2> QED BY <1>1, <1>2, <2>1, <2>2 DEF InReadAck
<1>13. \A o, r, k : \A ack \in BOOLEAN : InRead(o, ack, r, k)' = InRead(o, ack, r, k)
  BY <1>1, <1>2, <1>11, <1>12 DEF InRead
<1>14. Where' = Where
  BY <1>1, <1>2, <1>3, <1>4, <1>5, <1>10, <1>13 DEF Where
<1>15. /\ \A c : Clocked(c)' = Clocked(c) /\ Pulled(c)' = Pulled(c)
       /\ \A c : Fading(c)' = Fading(c)
  BY <1>1, ClockStays DEF slave
<1>16. \A o, p : InDeafWrite(o, p)' = InDeafWrite(o, p)
  BY <1>1, <1>15 DEF InDeafWrite
<1>17. \A o : InDeafStart(o)' = InDeafStart(o)
  BY <1>1, <1>15 DEF InDeafStart
<1>18. \A o : InDeafRead(o)' = InDeafRead(o)
  BY <1>1, <1>4, <1>15 DEF InDeafRead
<1>19. InDeafInit' = InDeafInit
  BY <1>1 DEF InDeafInit
<1>20. InOtherReg' = InOtherReg
  BY <1>1, <1>2, <1>3, <1>4, <1>9, <1>13 DEF InOtherReg
<1>21. Astray' = Astray
  BY <1>1, <1>4, <1>16, <1>17, <1>18, <1>19, <1>20 DEF Astray
<1>22. Typed' = Typed /\ Sound' = Sound
  BY <1>1 DEF Typed, Sound, Receiving
<1> QED BY <1>1, <1>14, <1>21, <1>22 DEF IInv

LEMMA StepPreserves ==
  ASSUME IInv, [Next]_vars
  PROVE  IInv'
<1>1. CASE Step
  <2>1. Typed /\ Sound /\ file \in [0..3 -> Byte]
    BY DEF IInv, Typed
  <2>2. Typed' /\ Sound'
    BY <1>1, <2>1, StepSound
  <2>3. CASE Where
    <3>1. Where'
      BY <1>1, <2>1, <2>3, WhereStep
    <3> QED BY <2>2, <3>1 DEF IInv
  <2>4. CASE settled = FALSE /\ Astray
    <3>1. settled' = FALSE /\ (Where' \/ Astray')
      BY <1>1, <2>1, <2>4, AstrayStep
    <3> QED BY <2>2, <3>1 DEF IInv
  <2> QED BY <2>3, <2>4 DEF IInv
<1> QED BY <1>1, KillPreserves, StutterPreserves DEF Next

\* The inductive invariant.
THEOREM Invariance == Spec => []IInv
<1>1. Init => IInv
  BY InitEstablishes
<1>2. IInv /\ [Next]_vars => IInv'
  BY StepPreserves
<1> QED BY <1>1, <1>2, PTL DEF Spec

\* Between two readings: where a reading that nobody disturbs would be, if it
\* was one or has ended well.
LEMMA SettledBetween ==
  ASSUME IInv, Closed, settled \/ result = "ok"
  PROVE  Between /\ Outcome /\ file \in [0..3 -> Byte]
<1>1. Where
  <2>1. CASE settled
    BY <2>1 DEF IInv
  <2>2. CASE result = "ok"
    <3>1. ~ Astray
      <4>1. at = 0 /\ result # "none" /\ result # "failed"
        BY <2>2 DEF Closed
      <4>2. /\ ~ InDeafInit
            /\ \A k : ~ Reading(k)
        BY <4>1 DEF InDeafInit, Reading
      <4>3. ~ InDeafRead(Fetch1) /\ ~ InOtherReg
        BY <4>1, <4>2 DEF InDeafRead, InOtherReg
      <4> QED BY <4>1, <4>2, <4>3 DEF Astray
    <3> QED BY <3>1 DEF IInv
  <2> QED BY <2>1, <2>2
<1>2. Between
  BY <1>1, OnlyBetween DEF Closed
<1> QED BY <1>2 DEF Between, Closed, IInv, Typed

\* The first safety property: a reading that nobody was killed before, or that
\* follows a good one, brings the registers it asked for from the sensor it
\* addressed (raw_i2c_read_reg).
THEOREM ReadsRight == Spec => []ReadsWhatItAsks
<1>1. IInv => ReadsWhatItAsks
  <2> SUFFICES ASSUME IInv, settled, Closed
               PROVE  \/ result = "ok" /\ sensor = Address /\ RightBits
                      \/ result = "failed" /\ sensor # Address
    BY DEF ReadsWhatItAsks
  <2>1. Between /\ Outcome /\ file \in [0..3 -> Byte]
    BY SettledBetween
  <2>2. result \in {"ok", "failed"}
    BY <2>1 DEF Between, Closed
  <2> QED BY <2>1, <2>2, WantedBits DEF Outcome, Here
<1> QED BY <1>1, Invariance, PTL

\* Such a reading, a failed one too, and any good one leave both lines high and
\* a sensor that has seen the stop (raw_i2c_stop).
THEOREM IdleBetween == Spec => []LeavesBusIdle
<1>1. IInv => LeavesBusIdle
  <2> SUFFICES ASSUME IInv, Closed, settled \/ result = "ok"
               PROVE  scl = 1 /\ SDA = 1 /\ mode = "idle"
    BY DEF LeavesBusIdle
  <2>1. Between /\ result # "none"
    BY SettledBetween DEF Closed
  <2> QED BY <2>1 DEF Between, SDA, Wire
<1> QED BY <1>1, Invariance, PTL

\* However often and wherever processes were killed, a reading that counts as
\* good has the temperature's registers right (raw_i2c_read_reg, called twice).
THEOREM GoodReadings == Spec => []GoodIsRight
<1>1. IInv => GoodIsRight
  <2> SUFFICES ASSUME IInv, Closed, result = "ok"
               PROVE  TemperatureBits
    BY DEF GoodIsRight
  <2>1. Outcome /\ file \in [0..3 -> Byte]
    BY SettledBetween
  <2>2. Got(3 * ByteBits)
    BY <2>1 DEF Outcome
  <2> QED BY <2>1, <2>2, WantedBits
<1> QED BY <1>1, Invariance, PTL

\* While the clock is high, SDA moves only where the sensor has no bit of a
\* byte under way, in a reading that no kill disturbs (raw_i2c_start,
\* raw_i2c_stop).
THEOREM ConditionsOutsideBytes == Spec => NoConditionInsideByte
<1>1. ASSUME IInv, [Next]_vars
      PROVE  [settled /\ scl = 1 /\ scl' = 1 /\ SDA' # SDA /\ mode # "idle" => count <= 1]_vars
  <2> SUFFICES ASSUME settled, scl = 1, scl' = 1, SDA' # SDA, mode # "idle"
               PROVE  count <= 1
    OBVIOUS
  <2>1. CASE Step
    <3>1. Where /\ file \in [0..3 -> Byte]
      BY <1>1 DEF IInv, Typed
    <3>2. Quiet
      BY <2>1, <3>1, WhereStep
    <3> QED BY <3>2 DEF Quiet
  <2>2. CASE Kill
    BY <2>2 DEF Kill, pins, slave, SDA
  <2>3. CASE UNCHANGED vars
    BY <2>3 DEF vars, pins, slave, SDA
  <2> QED BY <1>1, <2>1, <2>2, <2>3 DEF Next
<1> QED BY <1>1, Invariance, PTL DEF Spec, NoConditionInsideByte

\* Reading a register writes none, in a reading that no kill disturbs: the
\* sensor is never left to take a byte as data (raw_i2c_read_reg).
THEOREM ReadsOnly == Spec => NeverWrites
<1>1. ASSUME IInv, [Next]_vars
      PROVE  [settled => file' = file]_vars
  <2> SUFFICES ASSUME settled PROVE file' = file
    OBVIOUS
  <2>1. CASE Step
    <3>1. Where /\ file \in [0..3 -> Byte]
      BY <1>1 DEF IInv, Typed
    <3> QED BY <2>1, <3>1, WhereStep
  <2>2. CASE Kill
    BY <2>2 DEF Kill, slave
  <2>3. CASE UNCHANGED vars
    BY <2>3 DEF vars, slave
  <2> QED BY <1>1, <2>1, <2>2, <2>3 DEF Next
<1> QED BY <1>1, Invariance, PTL DEF Spec, NeverWrites
==============================================================================
