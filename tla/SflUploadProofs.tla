--------------------------- MODULE SflUploadProofs ---------------------------
(***************************************************************************)
(* Proofs about SflUpload, for every image list, warm-up, window and       *)
(* number of retries: the inductive invariant IInv, the safety properties  *)
(* it implies, and the refinement of ImageLoad.                            *)
(***************************************************************************)
EXTENDS SflUpload, TLAPS

-----------------------------------------------------------------------------
(* Constants *)

\* load_images refuses an empty list: there is at least one image.
LEMMA NImagesNat == NImages \in Nat \ {0}
  BY ImagesAssumption DEF NImages

\* An image of the list has a natural load address and length.
LEMMA ImageFields ==
  ASSUME NEW i \in 1..NImages
  PROVE  /\ Images[i].base \in Nat
         /\ Images[i].len \in Nat
<1> DEFINE R == [base : Nat, len : Nat]
<1>1. Images \in Seq(R)
  BY ImagesAssumption
<1>2. Images[i] \in R
  <2> HIDE DEF R
  <2> QED BY <1>1 DEF NImages
<1> QED BY <1>2

\* The JUMP frame of jump() is a frame.
LEMMA JumpFrameType == JumpFrame \in Frame
  BY NImagesNat, ImageFields DEF JumpFrame, Frame, JumpAddress

\* The LOAD frame of a chunk is a frame, and its address is one of Addr.
LEMMA LoadFrameType ==
  ASSUME NEW i \in 1..NImages, NEW k \in 1..Images[i].len
  PROVE  /\ LoadFrame(i, k) \in Frame
         /\ LoadFrame(i, k).cmd = "load"
         /\ LoadFrame(i, k).data = <<i, k>>
         /\ LoadFrame(i, k).addr = Images[i].base + k - 1
         /\ LoadFrame(i, k).addr \in Addr
<1>1. Images[i].base \in Nat /\ Images[i].len \in Nat
  BY ImageFields
<1>2. <<i, k>> \in Chunk
  BY <1>1, NImagesNat DEF Chunk
<1>3. Images[i].base + k - 1 \in Images[i].base .. Images[i].base + Images[i].len - 1
  BY <1>1
<1>4. Images[i].base + k - 1 \in Addr
  BY <1>3 DEF Addr
<1> QED BY <1>1, <1>2, <1>4 DEF LoadFrame, Frame

-----------------------------------------------------------------------------
(* Sequences *)

\* Length and elements of a sequence after Append.
LEMMA AppendProperties ==
  ASSUME NEW S, NEW s \in Seq(S), NEW e \in S
  PROVE  /\ Append(s, e) \in Seq(S)
         /\ Append(s, e) # <<>>
         /\ Len(Append(s, e)) = Len(s) + 1
         /\ Append(s, e)[Len(s) + 1] = e
         /\ \A j \in 1..Len(s) : Append(s, e)[j] = s[j]
  OBVIOUS

\* Length and element of a sequence of one.
LEMMA SingletonProperties ==
  ASSUME NEW S, NEW e \in S
  PROVE  /\ <<e>> \in Seq(S)
         /\ <<e>> # <<>>
         /\ \A j \in 1..Len(<<e>>) : <<e>>[j] = e
         /\ 1 \in 1..Len(<<e>>)
  OBVIOUS

\* Length and elements of the tail of a sequence.
LEMMA TailProperties ==
  ASSUME NEW S, NEW s \in Seq(S), s # <<>>
  PROVE  /\ Head(s) = s[1]
         /\ Head(s) \in S
         /\ Tail(s) \in Seq(S)
         /\ Len(s) \in Nat \ {0}
         /\ Len(Tail(s)) = Len(s) - 1
         /\ \A j \in 1..Len(s) - 1 : Tail(s)[j] = s[j + 1]
  OBVIOUS

-----------------------------------------------------------------------------
(* Initial states *)

\* The script's start satisfies the inductive invariant.
LEMMA InitIInv == Init => IInv
<1> SUFFICES ASSUME Init PROVE IInv
  OBVIOUS
<1>1. TypeOK
  BY NImagesNat, UploadAssumption DEF Init, TypeOK
<1>2. Position /\ InFlight /\ Sending /\ Sizes /\ Replies /\ Stored /\ Quiet /\ Phase
  BY NImagesNat, ImageFields, UploadAssumption DEF Init, Position, InFlight, Sending, Sizes, Replies, Stored, Quiet, Phase, Batch
<1> QED BY <1>1, <1>2 DEF IInv

-----------------------------------------------------------------------------
(* Steps of the host that only move its program counter to "failed" *)

\* A timeout, a serial error or the last failed attempt keeps the invariant.
LEMMA GivingUp ==
  ASSUME IInv, pc \in {"write", "ack", "console"}, pc' = "failed",
         UNCHANGED <<img, next, pending, sent, sending, retry, written, acked,
                     attempt, lineVars, devVars>>
  PROVE  IInv'
<1> USE DEF lineVars, devVars
<1>1. TypeOK'
  BY DEF IInv, TypeOK
<1>2. Position'
  BY DEF IInv, Position, Batch, Phase, TypeOK
<1>3. InFlight' /\ Sending' /\ Replies' /\ Stored' /\ Quiet' /\ Sizes'
  BY DEF IInv, Sizes, Batch, InFlight, Sending, Replies, Stored, Quiet, Current, Done
<1>4. Phase'
  BY DEF IInv, Phase
<1> QED BY <1>1, <1>2, <1>3, <1>4 DEF IInv

\* A send starts: the frames are current, the line is quiet.
LEMMA Starting ==
  ASSUME IInv, pc = "read",
         NEW frames \in Seq(Frame), frames # <<>>,
         StartSend(frames),
         UNCHANGED <<img, sent, lineVars, devVars>>,
         TypeOK',
         Position', Sizes',
         \A j \in 1..Len(frames) : CurrentAt(img, sent, next', frames[j]),
         img <= NImages =>
            \A k \in sent + 1 .. next' - 1 : \E j \in 1..Len(frames) : frames[j] = LoadFrame(img, k)
  PROVE  IInv'
<1> USE DEF lineVars, devVars
<1>1. /\ toDev = <<>> /\ toHost = <<>> /\ lost = 0 /\ dev = "sfl"
      /\ toDev' = <<>> /\ toHost' = <<>> /\ lost' = 0 /\ dev' = "sfl"
  BY DEF IInv, Quiet
<1>2. /\ sending' = frames /\ retry' = <<>> /\ written' = 0 /\ acked' = 0
      /\ pc' = "write"
  BY DEF StartSend
<1>3. InFlight' /\ Replies' /\ Quiet' /\ Phase'
  BY <1>1, <1>2 DEF InFlight, Replies, Quiet, Phase
<1>4. Sending'
  BY <1>2 DEF Sending, Current
<1>5. Stored'
  BY <1>2 DEF IInv, Stored, Done
<1> QED BY <1>3, <1>4, <1>5 DEF IInv

-----------------------------------------------------------------------------
(* Steps of the host *)

\* Reading a chunk, alone or into the window, keeps the invariant.
LEMMA ReadChunkStep == IInv /\ ReadChunk => IInv'
<1> SUFFICES ASSUME IInv, ReadChunk PROVE IInv'
  OBVIOUS
<1> DEFINE f == LoadFrame(img, next)
<1>1. /\ pc = "read" /\ img \in 1..NImages /\ next' = next + 1
      /\ next \in 1..Images[img].len /\ Images[img].len \in Nat
      /\ UNCHANGED <<img, sent, lineVars, devVars>>
  BY NImagesNat, ImageFields DEF ReadChunk, IInv, TypeOK
<1>2. f \in Frame
  BY <1>1, LoadFrameType
<1>3. /\ pending \in Seq(Frame) /\ sent \in Nat /\ Len(pending) \in Nat
      /\ next = sent + Len(pending) + 1
      /\ \A j \in 1..Len(pending) : pending[j] = LoadFrame(img, sent + j)
      /\ pending # <<>> => sent >= Warmup
      /\ Len(pending) < Window
  BY <1>1 DEF IInv, TypeOK, Position, Sizes
<1>4. img \in 1..NImages /\ img # NImages + 1
  BY <1>1, NImagesNat
<1>5. Warmup \in Nat /\ Window \in Nat \ {0} /\ Retries \in Nat \ {0}
  BY UploadAssumption
<1>6. CASE IsWarmup(next) /\ StartSend(<<f>>) /\ UNCHANGED pending
  <2>1. pending = <<>>
    BY <1>3, <1>5, <1>6 DEF IsWarmup
  <2>2. TypeOK'
    BY <1>1, <1>2, <1>5, <1>6 DEF IInv, TypeOK, StartSend, lineVars, devVars
  <2>3. Position' /\ Sizes'
    BY <1>1, <1>3, <1>4, <1>5, <1>6, <2>1 DEF Position, Sizes, StartSend, Batch
  <2>4. CurrentAt(img, sent, next', f)
    BY <1>1, <1>3, <1>4 DEF CurrentAt
  <2>5. \A k \in sent + 1 .. next' - 1 : k = next
    BY <1>1, <1>3, <2>1
  <2>6. /\ <<f>> \in Seq(Frame) /\ <<f>> # <<>> /\ 1 \in 1..Len(<<f>>)
        /\ \A j \in 1..Len(<<f>>) : <<f>>[j] = f
    BY <1>2, SingletonProperties
  <2>7. /\ \A j \in 1..Len(<<f>>) : CurrentAt(img, sent, next', <<f>>[j])
        /\ \A k \in sent + 1 .. next' - 1 : <<f>>[1] = LoadFrame(img, k)
    BY <2>4, <2>5, <2>6
  <2> HIDE DEF f
  <2> QED BY <1>1, <1>6, <2>2, <2>3, <2>6, <2>7, Starting
<1>7. CASE ~ IsWarmup(next) /\ pending' = Append(pending, f)
  <2>1. /\ pending' \in Seq(Frame) /\ pending' # <<>>
        /\ Len(pending') = Len(pending) + 1
        /\ pending'[Len(pending) + 1] = f
        /\ \A j \in 1..Len(pending) : pending'[j] = pending[j]
    BY <1>2, <1>3, <1>7, AppendProperties
  <2>2. \A j \in 1..Len(pending') : pending'[j] = LoadFrame(img, sent + j)
    BY <1>3, <2>1
  <2>3. sent >= Warmup
    BY <1>3, <1>5, <1>7 DEF IsWarmup
  <2>4. CASE WindowFull(pending') /\ StartSend(pending')
    <3>1. TypeOK'
      BY <1>1, <1>5, <2>1, <2>4 DEF IInv, TypeOK, StartSend, lineVars, devVars
    <3>2. Position' /\ Sizes'
      BY <1>1, <1>3, <1>4, <1>5, <2>1, <2>2, <2>3, <2>4 DEF Position, Sizes, StartSend, Batch
    <3>3. \A j \in 1..Len(pending') : CurrentAt(img, sent, next', pending'[j])
      <4>1. /\ sent \in Nat /\ next' = sent + Len(pending') + 1 /\ Len(pending') \in Nat
            /\ img # NImages + 1
        BY <1>1, <1>3, <1>4, <2>1
      <4> QED BY ONLY <4>1, <2>2 DEF CurrentAt
    <3>4. \A k \in sent + 1 .. next' - 1 : pending'[k - sent] = LoadFrame(img, k) /\ k - sent \in 1..Len(pending')
      BY <1>1, <1>3, <2>1, <2>2
    <3> QED BY <1>1, <2>1, <2>4, <3>1, <3>2, <3>3, <3>4, Starting
  <2>5. CASE ~ WindowFull(pending') /\ KeepSend
    <3>1. TypeOK'
      BY <1>1, <1>5, <2>1, <2>5 DEF IInv, TypeOK, KeepSend, lineVars, devVars
    <3>2. Position' /\ Sizes'
      BY <1>1, <1>3, <1>4, <1>5, <2>1, <2>2, <2>3, <2>5 DEF Position, Sizes, KeepSend, WindowFull
    <3>3. Quiet' /\ Phase'
      BY <1>1, <2>5 DEF IInv, Quiet, Phase, KeepSend, lineVars, devVars
    <3>4. InFlight' /\ Sending' /\ Replies' /\ Stored'
      BY <1>1, <2>5, <3>3 DEF IInv, Stored, Done, InFlight, Sending, Replies, Quiet, KeepSend, lineVars, devVars
    <3> QED BY <3>1, <3>2, <3>3, <3>4 DEF IInv
  <2> QED BY <1>7, <2>4, <2>5 DEF ReadChunk
<1> QED BY <1>6, <1>7 DEF ReadChunk

\* Sending the partial window at the end of a file keeps the invariant.
LEMMA FlushTailStep == IInv /\ FlushTail => IInv'
<1> SUFFICES ASSUME IInv, FlushTail PROVE IInv'
  OBVIOUS
<1>1. /\ pc = "read" /\ img \in 1..NImages /\ img # NImages + 1
      /\ pending # <<>> /\ pending \in Seq(Frame) /\ StartSend(pending)
      /\ UNCHANGED <<img, next, pending, sent, lineVars, devVars>>
  BY NImagesNat DEF FlushTail, IInv, TypeOK
<1>2. /\ sent \in Nat /\ Len(pending) \in Nat
      /\ next = sent + Len(pending) + 1
      /\ \A j \in 1..Len(pending) : pending[j] = LoadFrame(img, sent + j)
  BY <1>1 DEF IInv, TypeOK, Position
<1>3. TypeOK'
  BY <1>1, UploadAssumption DEF IInv, TypeOK, StartSend, lineVars, devVars
<1>4. Position' /\ Sizes'
  BY <1>1, <1>2 DEF IInv, Position, Sizes, StartSend, Batch
<1>5. \A j \in 1..Len(pending) : CurrentAt(img, sent, next', pending[j])
  BY <1>1, <1>2 DEF CurrentAt
<1>6. \A k \in sent + 1 .. next' - 1 : pending[k - sent] = LoadFrame(img, k) /\ k - sent \in 1..Len(pending)
  BY <1>1, <1>2
<1> QED BY <1>1, <1>3, <1>4, <1>5, <1>6, Starting

\* Going on to the next image keeps the invariant.
LEMMA EndOfImageStep == IInv /\ EndOfImage => IInv'
<1> SUFFICES ASSUME IInv, EndOfImage PROVE IInv'
  OBVIOUS
<1>1. /\ pc = "read" /\ img \in 1..NImages /\ pending = <<>>
      /\ img' = img + 1 /\ next' = 1 /\ sent' = 0 /\ KeepSend
      /\ UNCHANGED <<pending, lineVars, devVars>>
  BY NImagesNat DEF EndOfImage, IInv, TypeOK
<1>2. TypeOK'
  BY <1>1, NImagesNat DEF IInv, TypeOK, KeepSend, lineVars, devVars
<1>3. Position' /\ Sizes'
  <2>1. img' # NImages + 1 => img' \in 1..NImages
    BY <1>1, NImagesNat
  <2>2. img' # NImages + 1 => Images[img'].len \in Nat
    BY <2>1, ImageFields
  <2> QED BY <1>1, <2>2, UploadAssumption DEF IInv, Position, Sizes, KeepSend, Batch
<1>4. Quiet' /\ Phase'
  BY <1>1, NImagesNat DEF IInv, Quiet, Phase, KeepSend, lineVars, devVars
<1>5. InFlight' /\ Sending' /\ Replies' /\ Stored'
  BY <1>1, <1>4 DEF InFlight, Sending, Replies, Stored, Quiet, KeepSend
<1> QED BY <1>2, <1>3, <1>4, <1>5 DEF IInv

\* Sending the JUMP frame keeps the invariant.
LEMMA JumpStep == IInv /\ Jump => IInv'
<1> SUFFICES ASSUME IInv, Jump PROVE IInv'
  OBVIOUS
<1>1. /\ pc = "read" /\ img = NImages + 1 /\ StartSend(<<JumpFrame>>)
      /\ UNCHANGED <<img, next, pending, sent, lineVars, devVars>>
  BY DEF Jump
<1>2. TypeOK'
  BY <1>1, UploadAssumption, JumpFrameType DEF IInv, TypeOK, StartSend, lineVars, devVars
<1>3. Position' /\ Sizes'
  BY <1>1, UploadAssumption DEF IInv, Position, Sizes, StartSend, Batch
<1>4. CurrentAt(img, sent, next', JumpFrame)
  BY <1>1 DEF CurrentAt
<1>5. ~ (img <= NImages)
  BY <1>1, NImagesNat
<1>6. /\ <<JumpFrame>> \in Seq(Frame) /\ <<JumpFrame>> # <<>>
      /\ \A j \in 1..Len(<<JumpFrame>>) : <<JumpFrame>>[j] = JumpFrame
  BY JumpFrameType, SingletonProperties
<1>7. \A j \in 1..Len(<<JumpFrame>>) : CurrentAt(img, sent, next', <<JumpFrame>>[j])
  BY <1>4, <1>6
<1> QED BY <1>1, <1>2, <1>3, <1>5, <1>6, <1>7, Starting

\* Writing a frame of the attempt keeps the invariant.
LEMMA WriteFrameStep == IInv /\ WriteFrame => IInv'
<1> SUFFICES ASSUME IInv, WriteFrame PROVE IInv'
  OBVIOUS
<1> DEFINE f == sending[written + 1]
<1>1. /\ pc = "write" /\ toDev' = Append(toDev, f) /\ written' = written + 1
      /\ pc' = IF written + 1 = Len(sending) THEN "ack" ELSE "write"
      /\ UNCHANGED <<img, next, pending, sent, sending, retry, acked, attempt,
                     toHost, lost, devVars>>
  BY DEF WriteFrame
<1>2. /\ sending \in Seq(Frame) /\ Len(sending) \in Nat /\ toDev \in Seq(Frame)
      /\ written \in Nat /\ written < Len(sending)
      /\ acked = 0 /\ retry = <<>>
      /\ \A j \in 1..Len(sending) : Current(sending[j])
      /\ Len(toHost) \in Nat /\ Len(toDev) \in Nat /\ lost \in Nat
  BY <1>1 DEF IInv, TypeOK, Sending
<1>3. f \in Frame /\ Current(f)
  BY <1>2
<1>4. /\ toDev' \in Seq(Frame) /\ Len(toDev') = Len(toDev) + 1
      /\ toDev'[Len(toDev) + 1] = f
      /\ \A j \in 1..Len(toDev) : toDev'[j] = toDev[j]
  BY <1>1, <1>2, <1>3, AppendProperties
<1>5. TypeOK'
  BY <1>1, <1>2, <1>4 DEF IInv, TypeOK, devVars
<1>6. Position' /\ Sizes' /\ Quiet' /\ Phase'
  BY <1>1 DEF IInv, Position, Sizes, Quiet, Phase, Batch, devVars
<1>7. Sending'
  BY <1>1, <1>2 DEF IInv, Sending, Current
<1>8. Replies' /\ Stored'
  BY <1>1 DEF IInv, Replies, Stored, Done, devVars
<1>9. InFlight'
  <2>1. \A j \in 1..Len(toDev') : Current(toDev'[j])
    BY <1>1, <1>2, <1>3, <1>4 DEF IInv, InFlight
  <2>2. \A j \in 1..Len(toDev') : CurrentAt(img', sent', next', toDev'[j])
    BY <1>1, <2>1 DEF Current
  <2>3. CASE dev = "sfl"
    <3>1. /\ written = acked + Len(toHost) + Len(toDev) + lost
          /\ \A j \in 1..Len(toDev) : toDev[j] = sending[written - Len(toDev) + j]
      BY <1>1, <2>3 DEF IInv, InFlight
    <3>2. \A j \in 1..Len(toDev') : toDev'[j] = sending[written' - Len(toDev') + j]
      BY <1>1, <1>2, <1>4, <3>1
    <3> QED BY <1>1, <1>2, <1>4, <2>2, <3>1, <3>2 DEF InFlight, Current
  <2>4. CASE dev # "sfl"
    BY <1>1, <2>2, <2>4 DEF InFlight, Current, devVars
  <2> QED BY <2>3, <2>4
<1> QED BY <1>5, <1>6, <1>7, <1>8, <1>9 DEF IInv

\* When every reply of an attempt has been read and the BIOS still receives,
\* nothing was lost and nothing is on the line.
LEMMA AttemptComplete ==
  ASSUME IInv, pc = "ack", acked = Len(sending), dev = "sfl"
  PROVE  /\ toDev = <<>> /\ toHost = <<>> /\ lost = 0
         /\ \A j \in 1..Len(sending) :
               Done(sending[j]) \/ \E i \in 1..Len(retry) : retry[i] = sending[j]
<1>1. /\ Len(toDev) \in Nat /\ Len(toHost) \in Nat /\ lost \in Nat /\ acked \in Nat
      /\ toDev \in Seq(Frame) /\ toHost \in Seq(ConsoleByte)
  BY DEF IInv, TypeOK
<1>2. acked = acked + Len(toHost) + Len(toDev) + lost
  BY DEF IInv, Sending, InFlight
<1>3. Len(toDev) = 0 /\ Len(toHost) = 0 /\ lost = 0
  BY <1>1, <1>2
<1>4. toDev = <<>> /\ toHost = <<>>
  BY <1>1, <1>3
<1> QED BY <1>3, <1>4 DEF IInv, Replies

\* Reading a reply, or skipping a byte that is none, keeps the invariant.
LEMMA ReadAckStep == IInv /\ ReadAck => IInv'
<1> SUFFICES ASSUME IInv, ReadAck PROVE IInv'
  OBVIOUS
<1> DEFINE r == Head(toHost)
<1>1. /\ pc = "ack" /\ acked < Len(sending) /\ toHost # <<>> /\ toHost' = Tail(toHost)
      /\ UNCHANGED <<img, next, pending, sent, sending, written, attempt,
                     toDev, lost, devVars>>
  BY DEF ReadAck
<1>2. /\ sending \in Seq(Frame) /\ Len(sending) \in Nat /\ acked \in Nat
      /\ retry \in Seq(Frame) /\ Len(retry) \in Nat /\ toHost \in Seq(ConsoleByte)
      /\ Len(toDev) \in Nat /\ lost \in Nat
      /\ \A j \in 1..Len(sending) : Current(sending[j])
      /\ \A j \in 1..Len(retry) : Current(retry[j])
  BY <1>1 DEF IInv, TypeOK, Sending
<1>3. /\ r = toHost[1] /\ r \in ConsoleByte /\ Len(toHost) \in Nat \ {0}
      /\ toHost' \in Seq(ConsoleByte) /\ Len(toHost') = Len(toHost) - 1
      /\ \A j \in 1..Len(toHost) - 1 : toHost'[j] = toHost[j + 1]
  BY <1>1, <1>2, TailProperties
<1>4. CASE r \in AckByte /\ TakeReply(r)
  <2> DEFINE f == sending[acked + 1]
  <2>1. f \in Frame /\ Current(f)
    BY <1>1, <1>2
  <2>2. /\ Append(retry, f) \in Seq(Frame)
        /\ Len(Append(retry, f)) = Len(retry) + 1
        /\ Append(retry, f)[Len(retry) + 1] = f
        /\ \A j \in 1..Len(retry) : Append(retry, f)[j] = retry[j]
    BY <1>2, <2>1, AppendProperties
  <2>3. /\ acked' = acked + 1
        /\ retry' = IF r = "C" THEN Append(retry, f) ELSE retry
        /\ pc' = IF r \in {"K", "C"} THEN "ack" ELSE "failed"
    BY <1>1, <1>4 DEF TakeReply
  <2>4. /\ retry' \in Seq(Frame) /\ Len(retry') \in {Len(retry), Len(retry) + 1}
        /\ \A j \in 1..Len(retry) : retry'[j] = retry[j]
        /\ \A j \in 1..Len(retry') : Current(retry'[j])
        /\ r = "C" => Len(retry') = Len(retry) + 1 /\ retry'[Len(retry) + 1] = f
    BY <1>2, <2>1, <2>2, <2>3
  <2>5. TypeOK'
    BY <1>1, <1>2, <1>3, <2>3, <2>4 DEF IInv, TypeOK, devVars
  <2>6. Position' /\ Quiet' /\ Phase'
    BY <1>1, <1>3, <2>3 DEF IInv, Position, Quiet, Phase, Batch, devVars
  <2>7. Sizes'
    BY <1>1, <1>2, <2>3, <2>4 DEF IInv, Sizes, Batch
  <2>8. Sending'
    BY <1>1, <2>3, <2>4 DEF IInv, Sending, Current
  <2>9. InFlight'
    BY <1>1, <1>2, <1>3, <2>3 DEF IInv, InFlight, Current, devVars
  <2>10. Stored'
    BY <1>1, <2>3 DEF IInv, Stored, Done, devVars
  <2>11. Replies'
    <3> SUFFICES ASSUME dev = "sfl", lost = 0, pc' = "ack" PROVE Replies'
      BY <1>1, <2>3 DEF Replies, devVars
    <3>1. /\ \A j \in 1..Len(toHost) : toHost[j] = "K" => Done(sending[acked + j])
          /\ \A j \in 1..acked :
                Done(sending[j]) \/ \E i \in 1..Len(retry) : retry[i] = sending[j]
      BY <1>1 DEF IInv, Replies
    <3>2. ASSUME NEW j \in 1..Len(toHost'), toHost'[j] = "K"
          PROVE  Done(sending[acked' + j])
      <4>1. j + 1 \in 1..Len(toHost) /\ toHost[j + 1] = "K" /\ acked + (j + 1) = acked' + j
        BY <1>2, <1>3, <2>3, <3>2
      <4> QED BY <3>1, <4>1
    <3>3. ASSUME NEW j \in 1..acked'
          PROVE  Done(sending[j]) \/ \E i \in 1..Len(retry') : retry'[i] = sending[j]
      <4>1. CASE j \in 1..acked
        BY <1>2, <2>4, <3>1, <4>1
      <4>2. CASE j = acked + 1 /\ r = "C"
        BY <1>2, <2>4, <4>2
      <4>3. CASE j = acked + 1 /\ r = "K"
        <5>1. Done(sending[acked + 1])
          BY <1>3, <3>1, <4>3
        <5> QED BY <4>3, <5>1
      <4> QED BY <1>2, <2>3, <4>1, <4>2, <4>3
    <3>4. \A g : Done(g) => Done(g)'
      BY <1>1 DEF Done, devVars
    <3>5. ASSUME NEW g, Done(g) PROVE IF g.cmd = "load" THEN ddr'[g.addr] = g.data ELSE dev' = "booted"
      BY <1>1, <3>5 DEF Done, devVars
    <3> QED BY <1>1, <3>2, <3>3, <3>5 DEF Replies, Done
  <2> QED BY <2>5, <2>6, <2>7, <2>8, <2>9, <2>10, <2>11 DEF IInv
<1>5. CASE r \notin AckByte /\ UNCHANGED <<acked, retry, pc>>
  <2>1. dev = "booted"
    BY <1>3, <1>5 DEF IInv, TypeOK, Phase
  <2>2. TypeOK'
    BY <1>1, <1>3, <1>5 DEF IInv, TypeOK, devVars
  <2>3. /\ Position' /\ Quiet' /\ Phase' /\ Sizes' /\ Sending' /\ InFlight'
        /\ Stored' /\ Replies'
    BY <1>1, <1>5, <2>1 DEF IInv, Position, Quiet, Phase, Batch, Sizes, Sending,
       InFlight, Stored, Replies, Current, Done, devVars
  <2> QED BY <2>2, <2>3 DEF IInv
<1> QED BY <1>4, <1>5 DEF ReadAck

\* The return of send_encoded_frames keeps the invariant.
LEMMA SendDoneStep == IInv /\ SendDone => IInv'
<1> SUFFICES ASSUME IInv, SendDone PROVE IInv'
  OBVIOUS
<1>1. /\ pc = "ack" /\ acked = Len(sending) /\ retry = <<>>
      /\ UNCHANGED <<img, next, sending, retry, written, acked, attempt,
                     lineVars, devVars>>
  BY DEF SendDone
<1>2. /\ img \in 1..NImages + 1 /\ sent \in Nat /\ Len(pending) \in Nat /\ dev \in {"sfl", "booted"}
      /\ Len(sending) \in Nat \ {0}
      /\ \A j \in 1..Len(sending) : Current(sending[j])
  BY <1>1 DEF IInv, TypeOK, Sending
<1>3. CASE img = NImages + 1
  <2>1. pc' = "console" /\ UNCHANGED <<sent, pending>>
    BY <1>3 DEF SendDone
  <2>2. dev = "booted"
    <3> SUFFICES ASSUME dev = "sfl" PROVE FALSE
      BY <1>2
    <3>1. sending[1] = JumpFrame
      BY <1>2, <1>3 DEF Current, CurrentAt
    <3>2. Done(sending[1])
      BY <1>1, <1>2, AttemptComplete
    <3> QED BY <3>1, <3>2 DEF Done, JumpFrame
  <2>3. TypeOK'
    BY <1>1, <2>1 DEF IInv, TypeOK, lineVars, devVars
  <2>4. Position' /\ Sizes' /\ Quiet' /\ Phase'
    BY <1>1, <1>3, <2>1, <2>2 DEF IInv, Position, Sizes, Quiet, Phase, lineVars, devVars
  <2>5. InFlight' /\ Sending' /\ Replies' /\ Stored'
    BY <1>1, <2>1 DEF IInv, InFlight, Sending, Replies, Stored, Current, Done, lineVars, devVars
  <2> QED BY <2>3, <2>4, <2>5 DEF IInv
<1>4. CASE img # NImages + 1
  <2>1. pc' = "read" /\ sent' = sent + Batch /\ pending' = <<>>
    BY <1>4 DEF SendDone
  <2>2. img \in 1..NImages /\ dev = "sfl"
    BY <1>2, <1>4, NImagesNat DEF IInv, Phase
  <2>3. /\ toDev = <<>> /\ toHost = <<>> /\ lost = 0
        /\ \A j \in 1..Len(sending) : Done(sending[j])
    BY <1>1, <2>2, AttemptComplete
  <2>4. next = sent + Batch + 1 /\ next <= Images[img].len + 1 /\ Batch \in Nat
    BY <1>1, <1>2, <1>4 DEF IInv, Position, Batch
  <2>5. TypeOK'
    BY <1>1, <1>2, <2>1, <2>4 DEF IInv, TypeOK, lineVars, devVars
  <2>6. Position' /\ Sizes' /\ Quiet' /\ Phase'
    BY <1>1, <1>2, <1>4, <2>1, <2>2, <2>3, <2>4, UploadAssumption
    DEF IInv, Position, Sizes, Quiet, Phase, lineVars, devVars
  <2>7. InFlight' /\ Sending' /\ Replies'
    BY <1>1, <2>1, <2>3 DEF InFlight, Sending, Replies, lineVars, devVars
  <2>8. ASSUME NEW k \in 1..sent' PROVE Done(LoadFrame(img, k))
    <3>1. k \in 1..sent \/ k \in sent + 1 .. next - 1
      BY <1>2, <2>1, <2>4
    <3> QED BY <1>1, <2>2, <2>3, <3>1 DEF IInv, Stored
  <2>9. Stored'
    BY <1>1, <2>1, <2>8 DEF Stored, Done, devVars
  <2> QED BY <2>5, <2>6, <2>7, <2>9 DEF IInv
<1> QED BY <1>3, <1>4

\* Starting another attempt, or refusing to, keeps the invariant.
LEMMA ResendStep == IInv /\ Resend => IInv'
<1> SUFFICES ASSUME IInv, Resend PROVE IInv'
  OBVIOUS
<1>1. /\ pc = "ack" /\ acked = Len(sending) /\ retry # <<>>
      /\ UNCHANGED <<img, next, pending, sent, lineVars, devVars>>
  BY DEF Resend
<1>2. /\ retry \in Seq(Frame) /\ Len(retry) \in Nat \ {0} /\ dev \in {"sfl", "booted"}
      /\ \A j \in 1..Len(retry) : Current(retry[j])
      /\ Len(retry) <= Len(sending) /\ Len(sending) <= Batch /\ Len(sending) \in Nat
      /\ Len(pending) \in Nat /\ Batch \in Nat
  BY <1>1 DEF IInv, TypeOK, Sending, Sizes, Batch
<1>3. CASE attempt + 1 < Retries
  <2>1. /\ sending' = retry /\ retry' = <<>> /\ written' = 0 /\ acked' = 0
        /\ attempt' = attempt + 1 /\ pc' = "write"
    BY <1>3 DEF Resend
  <2>2. TypeOK'
    BY <1>1, <1>2, <1>3, <2>1, UploadAssumption DEF IInv, TypeOK, lineVars, devVars
  <2>3. Position' /\ Quiet' /\ Phase' /\ Sizes'
    BY <1>1, <1>2, <2>1 DEF IInv, Position, Quiet, Phase, Sizes, Batch, lineVars, devVars
  <2>4. Sending'
    BY <1>1, <1>2, <2>1 DEF Sending, Current
  <2>5. InFlight' /\ Replies'
    <3>1. dev = "sfl" => toDev = <<>> /\ toHost = <<>> /\ lost = 0
      BY <1>1, AttemptComplete
    <3> QED BY <1>1, <2>1, <3>1 DEF IInv, InFlight, Replies, Current, lineVars, devVars
  <2>6. Stored'
    <3> SUFFICES ASSUME img <= NImages PROVE Stored'
      BY <1>1 DEF Stored
    <3>1. dev = "sfl"
      BY <1>2, NImagesNat DEF IInv, Phase, TypeOK
    <3>2. \A j \in 1..Len(sending) :
             Done(sending[j]) \/ \E i \in 1..Len(retry) : retry[i] = sending[j]
      BY <1>1, <3>1, AttemptComplete
    <3>3. /\ \A k \in 1..sent : Done(LoadFrame(img, k))
          /\ \A k \in sent + 1 .. next - 1 :
                \/ Done(LoadFrame(img, k))
                \/ \E j \in 1..Len(sending) : sending[j] = LoadFrame(img, k)
      BY <1>1 DEF IInv, Stored
    <3>4. \A k \in sent + 1 .. next - 1 :
             \/ Done(LoadFrame(img, k))
             \/ \E j \in 1..Len(retry) : retry[j] = LoadFrame(img, k)
      BY <3>2, <3>3
    <3> QED BY <1>1, <2>1, <3>3, <3>4 DEF Stored, Done, devVars
  <2> QED BY <2>2, <2>3, <2>4, <2>5, <2>6 DEF IInv
<1>4. CASE ~ (attempt + 1 < Retries)
  BY <1>1, <1>4, GivingUp DEF Resend
<1> QED BY <1>3, <1>4

\* Reading the console keeps the invariant.
LEMMA ReadConsoleStep == IInv /\ ReadConsole => IInv'
<1> SUFFICES ASSUME IInv, ReadConsole PROVE IInv'
  OBVIOUS
<1>1. /\ pc = "console" /\ toHost' = <<>> /\ pc' \in {"ok", "console"}
      /\ UNCHANGED <<img, next, pending, sent, sending, retry, written, acked,
                     attempt, toDev, lost, devVars>>
  BY DEF ReadConsole
<1>2. TypeOK'
  BY <1>1 DEF IInv, TypeOK, devVars
<1>3. Position' /\ Quiet' /\ Phase' /\ Sizes'
  BY <1>1 DEF IInv, Position, Quiet, Phase, Sizes, devVars
<1>4. Sending' /\ InFlight' /\ Replies' /\ Stored'
  BY <1>1 DEF IInv, Sending, InFlight, Replies, Stored, Current, Done, devVars
<1> QED BY <1>2, <1>3, <1>4 DEF IInv

-----------------------------------------------------------------------------
(* Steps of the board *)

\* What a step takes from the line: the oldest frame, which is current.
LEMMA TakeFrame ==
  ASSUME IInv, toDev # <<>>, toDev' = Tail(toDev)
  PROVE  /\ Head(toDev) = toDev[1]
         /\ Current(Head(toDev))
         /\ toDev' \in Seq(Frame)
         /\ Len(toDev) \in Nat \ {0}
         /\ Len(toDev') = Len(toDev) - 1
         /\ \A j \in 1..Len(toDev') : toDev'[j] = toDev[j + 1] /\ Current(toDev'[j])
<1>1. toDev \in Seq(Frame)
  BY DEF IInv, TypeOK
<1>2. /\ Head(toDev) = toDev[1] /\ Tail(toDev) \in Seq(Frame)
      /\ Len(toDev) \in Nat \ {0} /\ Len(Tail(toDev)) = Len(toDev) - 1
      /\ \A j \in 1..Len(toDev) - 1 : Tail(toDev)[j] = toDev[j + 1]
  BY <1>1, TailProperties
<1> QED BY <1>2 DEF IInv, InFlight

\* A step of the board that answers or loses the oldest frame keeps the
\* invariant if what the board had done stays done and a K is earned.
LEMMA Answering ==
  ASSUME IInv, dev = "sfl", toDev # <<>>, toDev' = Tail(toDev),
         UNCHANGED hostVars, dev' \in {"sfl", "booted"},
         ddr' \in [Addr -> Chunk \cup {Blank}],
         dev' = "booted" => img = NImages + 1,
         \A f : Current(f) /\ Done(f) => Done(f)',
         img <= NImages => \A k \in 1..sent : Done(LoadFrame(img, k))',
         NEW head, head = Head(toDev),
         NEW r \in AckByte,
         \/ toHost' = Append(toHost, r) /\ lost' = lost
         \/ toHost' = toHost /\ lost' = lost + 1,
         r = "K" => Done(head)'
  PROVE  IInv'
<1>1. /\ Head(toDev) = toDev[1] /\ Current(Head(toDev)) /\ toDev' \in Seq(Frame)
      /\ Len(toDev) \in Nat \ {0} /\ Len(toDev') = Len(toDev) - 1
      /\ \A j \in 1..Len(toDev') : toDev'[j] = toDev[j + 1] /\ Current(toDev'[j])
  BY TakeFrame
<1>2. /\ toHost \in Seq(ConsoleByte) /\ Len(toHost) \in Nat /\ lost \in Nat
      /\ written \in Nat /\ acked \in Nat /\ Len(sending) \in Nat
      /\ written <= Len(sending)
      /\ r \in ConsoleByte
  BY DEF IInv, TypeOK, ConsoleByte
<1>3. /\ Append(toHost, r) \in Seq(ConsoleByte)
      /\ Len(Append(toHost, r)) = Len(toHost) + 1
      /\ Append(toHost, r)[Len(toHost) + 1] = r
      /\ \A j \in 1..Len(toHost) : Append(toHost, r)[j] = toHost[j]
  BY <1>2, AppendProperties
<1>4. /\ toHost' \in Seq(ConsoleByte) /\ lost' \in Nat
       /\ Len(toHost') + lost' = Len(toHost) + lost + 1
  <2>1. CASE toHost' = Append(toHost, r) /\ lost' = lost
    <3>1. toHost' \in Seq(ConsoleByte) /\ Len(toHost') = Len(toHost) + 1
      BY <1>3, <2>1 DEF hostVars
    <3> QED BY <1>2, <2>1, <3>1
  <2>2. CASE toHost' = toHost /\ lost' = lost + 1
    BY <1>2, <2>2
  <2> QED BY <2>1, <2>2
<1>5. pc \in {"write", "ack", "failed"}
  BY DEF IInv, TypeOK, Quiet, Phase
<1> USE DEF hostVars
<1>6. TypeOK'
  BY <1>1, <1>4 DEF IInv, TypeOK
<1>7. Position' /\ Sizes' /\ Sending'
  BY DEF IInv, Position, Sizes, Sending, Batch, Current
<1>8. Quiet'
  BY <1>5 DEF Quiet
<1>9. Phase'
  BY <1>2, <1>3, <1>5 DEF IInv, Phase
<1>10. InFlight'
  <2>1. \A j \in 1..Len(toDev') : CurrentAt(img', sent', next', toDev'[j])
    BY <1>1 DEF Current
  <2>2. CASE pc \in {"write", "ack"}
    <3>1. /\ written = acked + Len(toHost) + Len(toDev) + lost
          /\ \A j \in 1..Len(toDev) : toDev[j] = sending[written - Len(toDev) + j]
      BY <2>2 DEF IInv, InFlight
    <3>2. written' = acked' + Len(toHost') + Len(toDev') + lost'
      BY <1>1, <1>2, <1>4, <3>1
    <3>3. ASSUME NEW j \in 1..Len(toDev')
          PROVE  toDev'[j] = sending[written - Len(toDev') + j]
      <4>1. j + 1 \in 1..Len(toDev) /\ written - Len(toDev) + (j + 1) = written - Len(toDev') + j
        BY <1>1, <1>2
      <4> QED BY <1>1, <3>1, <4>1
    <3> QED BY <2>1, <3>2, <3>3 DEF InFlight, Current
  <2>3. CASE pc = "failed"
    BY <2>1, <2>3 DEF InFlight, Current
  <2> QED BY <1>5, <2>2, <2>3
<1>11. \A j \in 1..Len(sending) : pc \in {"write", "ack"} /\ Done(sending[j]) => Done(sending[j])'
  BY DEF IInv, Sending
<1>12. Stored'
  <2> SUFFICES ASSUME img <= NImages PROVE Stored'
    BY DEF Stored
  <2>1. \A k \in 1..sent : Done(LoadFrame(img, k))'
    OBVIOUS
  <2>2. ASSUME pc \in {"write", "ack"}, NEW k \in sent + 1 .. next - 1
        PROVE  \/ Done(LoadFrame(img, k))'
               \/ \E j \in 1..Len(sending) : sending[j] = LoadFrame(img, k)
    <3>1. Current(LoadFrame(img, k))
      BY NImagesNat DEF Current, CurrentAt
    <3> QED BY <2>2, <3>1 DEF IInv, Stored
  <2> QED BY <2>1, <2>2 DEF Stored
<1>13. Replies'
  <2> SUFFICES ASSUME dev' = "sfl", pc \in {"write", "ack"}, lost' = 0 PROVE Replies'
    BY DEF Replies
  <2>1. lost = 0 /\ toHost' = Append(toHost, r)
    BY <1>2
  <2>2. /\ written = acked + Len(toHost) + Len(toDev)
        /\ toDev[1] = sending[written - Len(toDev) + 1]
    BY <1>1, <1>2, <2>1 DEF IInv, InFlight
  <2>3. /\ written - Len(toDev) + 1 = acked + (Len(toHost) + 1)
        /\ Head(toDev) = sending[acked + (Len(toHost) + 1)]
    BY <1>1, <1>2, <2>2
  <2>4. /\ \A j \in 1..Len(toHost) : toHost[j] = "K" => Done(sending[acked + j])
        /\ \A j \in 1..acked :
              Done(sending[j]) \/ \E i \in 1..Len(retry) : retry[i] = sending[j]
    BY <2>1 DEF IInv, Replies
  <2>5. ASSUME NEW j \in 1..Len(toHost'), toHost'[j] = "K"
        PROVE  Done(sending[acked + j])'
    <3>1. CASE j \in 1..Len(toHost)
      <4>1. acked + j \in 1..Len(sending)
        BY <1>1, <1>2, <2>2, <3>1
      <4> QED BY <1>3, <1>11, <2>1, <2>4, <2>5, <3>1, <4>1
    <3>2. CASE j = Len(toHost) + 1
      BY <1>3, <2>1, <2>3, <2>5, <3>2
    <3> QED BY <1>2, <1>3, <2>1, <3>1, <3>2
  <2>6. ASSUME NEW j \in 1..acked
        PROVE  Done(sending[j])' \/ \E i \in 1..Len(retry) : retry[i] = sending[j]
    <3>1. j \in 1..Len(sending)
      BY <1>1, <1>2, <2>2
    <3> QED BY <1>11, <2>4, <3>1
  <2> QED BY <2>5, <2>6 DEF Replies
<1> QED BY <1>6, <1>7, <1>8, <1>9, <1>10, <1>12, <1>13 DEF IInv

\* Frames of one image have distinct addresses, so storing one chunk leaves
\* the image's other chunks alone.
LEMMA StoreKeeps ==
  ASSUME TypeOK, NEW i \in 1..NImages,
         NEW k \in 1..Images[i].len, NEW m \in 1..Images[i].len,
         ddr' = [ddr EXCEPT ![LoadFrame(i, k).addr] = LoadFrame(i, k).data],
         m = k \/ Done(LoadFrame(i, m))
  PROVE  ddr'[LoadFrame(i, m).addr] = LoadFrame(i, m).data
<1>1. /\ LoadFrame(i, k).cmd = "load" /\ LoadFrame(i, m).cmd = "load"
      /\ LoadFrame(i, k).addr \in Addr /\ LoadFrame(i, m).addr \in Addr
      /\ LoadFrame(i, k).addr = Images[i].base + k - 1
      /\ LoadFrame(i, m).addr = Images[i].base + m - 1
  BY LoadFrameType
<1>2. DOMAIN ddr = Addr
  BY DEF TypeOK
<1>3. CASE m = k
  BY <1>1, <1>2, <1>3
<1>4. CASE m # k /\ Done(LoadFrame(i, m))
  <2>1. LoadFrame(i, m).addr # LoadFrame(i, k).addr
    BY <1>1, <1>4, ImageFields
  <2> QED BY <1>1, <1>2, <1>4, <2>1 DEF Done
<1> QED BY <1>3, <1>4

\* The board executing a frame keeps the invariant.
LEMMA ExecuteStep == IInv /\ Execute => IInv'
<1> SUFFICES ASSUME IInv, Execute PROVE IInv'
  OBVIOUS
<1> DEFINE f == Head(toDev)
<1>1. /\ dev = "sfl" /\ toDev # <<>> /\ toDev' = Tail(toDev) /\ UNCHANGED hostVars
      /\ \/ toHost' = Append(toHost, "K") /\ lost' = lost
         \/ toHost' = toHost /\ lost' = lost + 1
      /\ IF f.cmd = "load"
            THEN ddr' = [ddr EXCEPT ![f.addr] = f.data] /\ dev' = dev
            ELSE dev' = "booted" /\ ddr' = ddr
  BY DEF Execute
<1>2. Current(f)
  BY <1>1, TakeFrame
<1>3. "K" \in AckByte
  BY DEF AckByte
<1>4. img \in 1..NImages + 1 /\ sent \in Nat /\ next \in Nat
  BY DEF IInv, TypeOK
<1>5. CASE img = NImages + 1
  <2>1. f = JumpFrame /\ JumpFrame.cmd = "jump"
    BY <1>2, <1>5 DEF Current, CurrentAt, JumpFrame
  <2>2. dev' = "booted" /\ ddr' = ddr
    BY <1>1, <2>1
  <2>3. ddr' \in [Addr -> Chunk \cup {Blank}]
    BY <2>2 DEF IInv, TypeOK
  <2>4. \A g : Current(g) /\ Done(g) => Done(g)'
    BY <2>2 DEF Done
  <2>5. ~ (img <= NImages)
    BY <1>5, NImagesNat
  <2>6. f.cmd # "load"
    BY <2>1
  <2>7. ASSUME NEW head, head = f PROVE Done(head)'
    BY <2>2, <2>6, <2>7 DEF Done
  <2> HIDE DEF f
  <2> QED BY <1>1, <1>3, <1>5, <2>2, <2>3, <2>4, <2>5, <2>7, Answering DEF f
<1>6. CASE img # NImages + 1
  <2>1. img \in 1..NImages
    BY <1>4, <1>6, NImagesNat
  <2>2. PICK k \in sent + 1 .. next - 1 : f = LoadFrame(img, k)
    BY <1>2, <1>6 DEF Current, CurrentAt
  <2>3. next <= Images[img].len + 1 /\ Images[img].len \in Nat
    BY <1>6, <2>1, ImageFields DEF IInv, Position
  <2>4. k \in 1..Images[img].len
    BY <1>4, <2>2, <2>3
  <2>5. f.cmd = "load" /\ f.addr \in Addr /\ f.data \in Chunk \cup {Blank}
    BY <2>1, <2>2, <2>4, LoadFrameType DEF Frame
  <2>6. ddr' = [ddr EXCEPT ![f.addr] = f.data] /\ dev' = "sfl"
    BY <1>1, <2>5
  <2>7. ddr' \in [Addr -> Chunk \cup {Blank}]
    BY <2>5, <2>6 DEF IInv, TypeOK
  <2>8. ASSUME NEW m \in 1..Images[img].len, m = k \/ Done(LoadFrame(img, m))
        PROVE  Done(LoadFrame(img, m))'
    <3>1. ddr'[LoadFrame(img, m).addr] = LoadFrame(img, m).data
      BY <2>1, <2>2, <2>4, <2>6, <2>8, StoreKeeps DEF IInv
    <3>2. img' = img /\ LoadFrame(img, m).cmd = "load"
      BY <1>1, <2>1, LoadFrameType DEF hostVars
    <3> QED BY <3>1, <3>2 DEF Done
  <2>9. \A g : Current(g) /\ Done(g) => Done(g)'
    <3> SUFFICES ASSUME NEW g, Current(g), Done(g) PROVE Done(g)'
      OBVIOUS
    <3>1. PICK m \in sent + 1 .. next - 1 : g = LoadFrame(img, m)
      BY <1>6 DEF Current, CurrentAt
    <3>2. m \in 1..Images[img].len
      BY <1>4, <2>3, <3>1
    <3>3. img' = img
      BY <1>1 DEF hostVars
    <3> QED BY <2>8, <3>1, <3>2, <3>3 DEF Done
  <2>10. ASSUME NEW m \in 1..sent PROVE Done(LoadFrame(img, m))'
    <3>1. Done(LoadFrame(img, m))
      BY <2>1 DEF IInv, Stored
    <3>2. m \in 1..Images[img].len
      BY <1>4, <2>2, <2>3
    <3> QED BY <2>8, <3>1, <3>2
  <2>11. ASSUME NEW head, head = f PROVE Done(head)'
    <3>1. Done(LoadFrame(img, k))'
      BY <2>4, <2>8
    <3>2. img' = img
      BY <1>1 DEF hostVars
    <3> QED BY <2>2, <2>11, <3>1, <3>2 DEF Done
  <2>12. dev' \in {"sfl", "booted"} /\ (dev' = "booted" => img = NImages + 1)
    BY <2>6
  <2> HIDE DEF f
  <2> QED BY <1>1, <1>3, <2>7, <2>9, <2>10, <2>11, <2>12, Answering DEF f
<1> QED BY <1>5, <1>6

\* The board refusing or missing a frame keeps the invariant.
LEMMA RefuseOrLoseStep == IInv /\ (Refuse \/ LoseFrame) => IInv'
<1> SUFFICES ASSUME IInv, Refuse \/ LoseFrame PROVE IInv'
  OBVIOUS
<1>1. /\ dev = "sfl" /\ toDev # <<>> /\ toDev' = Tail(toDev)
      /\ UNCHANGED hostVars /\ ddr' = ddr /\ dev' = dev
      /\ \E r \in RejectReply : \/ toHost' = Append(toHost, r) /\ lost' = lost
                                \/ toHost' = toHost /\ lost' = lost + 1
  BY DEF Refuse, LoseFrame, RejectReply, devVars
<1>2. PICK r \in RejectReply : \/ toHost' = Append(toHost, r) /\ lost' = lost
                               \/ toHost' = toHost /\ lost' = lost + 1
  BY <1>1
<1>3. r \in AckByte /\ r # "K"
  BY DEF AckByte, RejectReply
<1>4. ddr' \in [Addr -> Chunk \cup {Blank}] /\ dev' = "sfl"
  BY <1>1 DEF IInv, TypeOK
<1>5. \A f : Current(f) /\ Done(f) => Done(f)'
  BY <1>1 DEF Done
<1>6. img <= NImages => \A k \in 1..sent : Done(LoadFrame(img, k))'
  BY <1>1 DEF IInv, Stored, Done, hostVars
<1> DEFINE head == Head(toDev)
<1> QED BY <1>1, <1>2, <1>3, <1>4, <1>5, <1>6, Answering

\* The running system reading or printing on its console keeps it.
LEMMA BootedStep == IInv /\ (SwallowFrame \/ PrintConsole) => IInv'
<1> SUFFICES ASSUME IInv, SwallowFrame \/ PrintConsole PROVE IInv'
  OBVIOUS
<1>1. /\ dev = "booted" /\ UNCHANGED <<hostVars, lost, devVars>>
      /\ \/ toDev # <<>> /\ toDev' = Tail(toDev) /\ toHost' = toHost
         \/ toDev' = toDev /\ \E b \in ConsoleByte : toHost' = Append(toHost, b)
  BY DEF SwallowFrame, PrintConsole
<1>2. pc # "read"
  BY <1>1 DEF IInv, Quiet
<1>3. toDev' \in Seq(Frame) /\ \A j \in 1..Len(toDev') : Current(toDev'[j])
  <2>1. CASE toDev # <<>> /\ toDev' = Tail(toDev)
    BY <2>1, TakeFrame
  <2>2. CASE toDev' = toDev
    BY <2>2 DEF IInv, TypeOK, InFlight
  <2> QED BY <1>1, <2>1, <2>2
<1>4. toHost' \in Seq(ConsoleByte)
  <2>1. toHost \in Seq(ConsoleByte)
    BY DEF IInv, TypeOK
  <2>2. ASSUME NEW b \in ConsoleByte PROVE Append(toHost, b) \in Seq(ConsoleByte)
    BY <2>1, AppendProperties
  <2> QED BY <1>1, <2>1, <2>2
<1>5. TypeOK'
  BY <1>1, <1>3, <1>4 DEF IInv, TypeOK, hostVars, devVars
<1>6. Position' /\ Sending' /\ Sizes' /\ Replies' /\ Stored' /\ Quiet' /\ Phase'
  BY <1>1, <1>2 DEF IInv, Position, Sending, Sizes, Replies, Stored, Quiet, Phase,
     Batch, Current, Done, hostVars, devVars
<1>7. InFlight'
  BY <1>1, <1>3 DEF InFlight, Current, hostVars, devVars
<1> QED BY <1>5, <1>6, <1>7 DEF IInv

-----------------------------------------------------------------------------
(* The invariant *)

\* A step that changes nothing keeps the invariant.
LEMMA StutterStep == IInv /\ UNCHANGED vars => IInv'
  BY DEF IInv, TypeOK, Position, InFlight, Sending, Sizes, Replies, Stored, Quiet,
     Phase, Batch, Current, Done, vars, hostVars, lineVars, devVars

\* Every step keeps the invariant.
LEMMA NextIInv == IInv /\ [Next]_vars => IInv'
<1> SUFFICES ASSUME IInv, [Next]_vars PROVE IInv'
  OBVIOUS
<1>1. CASE ReadChunk \/ FlushTail \/ EndOfImage \/ Jump
  BY <1>1, ReadChunkStep, FlushTailStep, EndOfImageStep, JumpStep
<1>2. CASE WriteFrame \/ ReadAck \/ SendDone \/ Resend \/ ReadConsole
  BY <1>2, WriteFrameStep, ReadAckStep, SendDoneStep, ResendStep, ReadConsoleStep
<1>3. CASE AckTimeout \/ PortError \/ ConsoleGivesUp
  BY <1>3, GivingUp DEF AckTimeout, PortError, ConsoleGivesUp
<1>4. CASE BoardStep
  BY <1>4, ExecuteStep, RefuseOrLoseStep, BootedStep DEF BoardStep
<1>5. CASE Exited \/ UNCHANGED vars
  BY <1>5, StutterStep DEF Exited
<1> QED BY <1>1, <1>2, <1>3, <1>4, <1>5 DEF Next, HostStep

(***************************************************************************)
(* The inductive invariant holds throughout the upload: frames in flight,  *)
(* attempt, replies and memory fit together as the conjuncts of IInv say.  *)
(***************************************************************************)
THEOREM Invariance == Spec => []IInv
  BY InitIInv, NextIInv, PTL DEF Spec

-----------------------------------------------------------------------------
(* What the invariant implies *)

(***************************************************************************)
(* Every variable keeps its type.                                          *)
(***************************************************************************)
THEOREM TypeInvariant == Spec => []TypeOK
  BY Invariance, PTL DEF IInv

(***************************************************************************)
(* upload_file counts a chunk only when it is in the board's memory.       *)
(***************************************************************************)
THEOREM CountedChunksAreStored == Spec => []SentIsStored
<1>1. IInv => SentIsStored
  BY DEF IInv, Stored, SentIsStored, Done, LoadFrame
<1> QED BY <1>1, Invariance, PTL

(***************************************************************************)
(* The console is captured only of a board that jumped.                    *)
(***************************************************************************)
THEOREM ConsoleOfBootedBoard == Spec => []ConsoleMeansBooted
<1>1. IInv => ConsoleMeansBooted
  BY DEF IInv, Phase, ConsoleMeansBooted
<1> QED BY <1>1, Invariance, PTL

(***************************************************************************)
(* No more than ack_window frames are unanswered, and a warm-up frame is   *)
(* alone.                                                                  *)
(***************************************************************************)
THEOREM WindowIsRespected == Spec => []WindowRespected
<1>1. IInv => WindowRespected
  <2> SUFFICES ASSUME IInv, dev = "sfl", pc \in {"write", "ack"} PROVE WindowRespected
    BY DEF WindowRespected
  <2>1. /\ Len(toDev) \in Nat /\ Len(toHost) \in Nat /\ lost \in Nat /\ acked \in Nat
        /\ written \in Nat /\ written <= Len(sending) /\ Len(sending) \in Nat
        /\ Len(pending) \in Nat /\ img \in 1..NImages + 1 /\ sent \in Nat /\ next \in Nat
    BY DEF IInv, TypeOK
  <2>2. Len(toDev) + Len(toHost) <= written
    BY <2>1 DEF IInv, InFlight
  <2>3. Len(sending) <= Batch /\ Batch <= Window
    BY UploadAssumption DEF IInv, Sizes, Batch
  <2>4. Batch \in Nat
    BY <2>1 DEF Batch
  <2>5. Len(toDev) + Len(toHost) <= Window
    BY <2>1, <2>2, <2>3, <2>4, UploadAssumption
  <2>6. ASSUME NEW j \in 1..Len(toDev), toDev[j].cmd = "load", toDev[j].data[2] <= Warmup
        PROVE  Len(toDev) + Len(toHost) = 1
    <3>1. Current(toDev[j])
      BY DEF IInv, InFlight
    <3>2. img \in 1..NImages /\ img # NImages + 1
      BY <2>1, <2>6, <3>1, NImagesNat DEF Current, CurrentAt, JumpFrame
    <3>3. PICK k \in sent + 1 .. next - 1 : toDev[j] = LoadFrame(img, k)
      BY <3>1, <3>2 DEF Current, CurrentAt
    <3>4. k <= Warmup
      BY <2>6, <3>3 DEF LoadFrame
    <3>5. pending = <<>>
      BY <2>1, <3>2, <3>3, <3>4, UploadAssumption DEF IInv, Position
    <3>6. Batch = 1
      BY <3>5 DEF Batch
    <3> QED BY <2>1, <2>2, <2>3, <3>6
  <2> QED BY <2>5, <2>6 DEF WindowRespected
<1> QED BY <1>1, Invariance, PTL

(***************************************************************************)
(* A new attempt never meets a reply to an earlier one.                    *)
(***************************************************************************)
THEOREM AttemptsAreFresh == Spec => FreshAttempt
<1>1. IInv /\ [Next]_vars =>
         [pc' = "write" /\ pc # "write" /\ dev = "sfl"
            => toDev = <<>> /\ toHost = <<>> /\ lost = 0]_vars
  <2> SUFFICES ASSUME IInv, Next, pc' = "write", pc # "write", dev = "sfl"
               PROVE  toDev = <<>> /\ toHost = <<>> /\ lost = 0
    BY DEF vars, hostVars
  <2>1. CASE ReadChunk \/ FlushTail \/ EndOfImage \/ Jump
    BY <2>1 DEF ReadChunk, FlushTail, EndOfImage, Jump, IInv, Quiet
  <2>2. CASE Resend
    BY <2>2, AttemptComplete DEF Resend
  <2>3. CASE \/ WriteFrame \/ ReadAck \/ SendDone \/ ReadConsole
             \/ AckTimeout \/ PortError \/ ConsoleGivesUp
    BY <2>3 DEF WriteFrame, ReadAck, TakeReply, SendDone, ReadConsole, AckTimeout,
       PortError, ConsoleGivesUp
  <2>4. CASE BoardStep \/ Exited
    BY <2>4 DEF BoardStep, Execute, Refuse, LoseFrame, SwallowFrame, PrintConsole,
       Exited, vars, hostVars
  <2> QED BY <2>1, <2>2, <2>3, <2>4 DEF Next, HostStep
<1> QED BY <1>1, Invariance, PTL DEF Spec, FreshAttempt

-----------------------------------------------------------------------------
(* Refinement of ImageLoad *)

\* Both specifications mean the same by images, addresses and chunks.
LEMMA AbstractConstants ==
  /\ Abstract!NImages = NImages
  /\ Abstract!Addr = Addr
  /\ Abstract!Blank = Blank
  /\ \A i, a : Abstract!InImage(i, a) <=> InImage(i, a)
  /\ \A i, a : Abstract!ChunkAt(i, a) = ChunkAt(i, a)
  BY DEF Abstract!NImages, NImages, Abstract!Addr, Addr, Abstract!Blank, Blank,
     Abstract!InImage, InImage, Abstract!ChunkAt, ChunkAt

\* The script starts where the abstract load starts.
LEMMA AbstractInit == Init => Abstract!Init
  BY AbstractConstants DEF Init, Abstract!Init

\* A chunk the host has under way, stored by the board, is a Store.
LEMMA ExecuteRefines == IInv /\ Execute => Abstract!Next
<1> SUFFICES ASSUME IInv, Execute PROVE Abstract!Next
  OBVIOUS
<1> DEFINE f == Head(toDev)
<1>1. /\ dev = "sfl" /\ toDev # <<>> /\ toDev' = Tail(toDev) /\ UNCHANGED hostVars
      /\ IF f.cmd = "load"
            THEN ddr' = [ddr EXCEPT ![f.addr] = f.data] /\ dev' = dev
            ELSE dev' = "booted" /\ ddr' = ddr
  BY DEF Execute
<1>2. Current(f)
  BY <1>1, TakeFrame
<1>3. img \in 1..NImages + 1 /\ sent \in Nat /\ next \in Nat /\ pc' = pc /\ img' = img
  BY <1>1 DEF IInv, TypeOK, hostVars
<1>4. CASE img = NImages + 1
  <2>1. f.cmd # "load"
    BY <1>2, <1>4 DEF Current, CurrentAt, JumpFrame
  <2>2. dev' = "booted" /\ ddr' = ddr
    BY <1>1, <2>1
  <2>3. img - 1 = NImages
    BY <1>4, NImagesNat
  <2>4. Abstract!Boot
    BY <1>1, <1>3, <2>2, <2>3, AbstractConstants DEF Abstract!Boot
  <2> QED BY <2>4 DEF Abstract!Next
<1>5. CASE img # NImages + 1
  <2>1. img \in 1..NImages
    BY <1>3, <1>5, NImagesNat
  <2>2. PICK k \in sent + 1 .. next - 1 : f = LoadFrame(img, k)
    BY <1>2, <1>5 DEF Current, CurrentAt
  <2>3. next <= Images[img].len + 1 /\ Images[img].len \in Nat /\ Images[img].base \in Nat
    BY <1>5, <2>1, ImageFields DEF IInv, Position
  <2>4. k \in 1..Images[img].len
    BY <1>3, <2>2, <2>3
  <2> DEFINE a == Images[img].base + k - 1
  <2>5. f.cmd = "load" /\ f.addr = a /\ f.data = <<img, k>> /\ a \in Addr
    BY <2>1, <2>2, <2>4, LoadFrameType
  <2>6. InImage(img, a) /\ ChunkAt(img, a) = <<img, k>>
    BY <2>3, <2>4 DEF InImage, ChunkAt
  <2>7. ddr' = [ddr EXCEPT ![a] = ChunkAt(img, a)] /\ dev' = dev
    BY <1>1, <2>5, <2>6
  <2>8. img - 1 < NImages /\ (img - 1) + 1 = img
    BY <2>1, NImagesNat
  <2>9. Abstract!Store(a)
    <3> HIDE DEF a
    <3> QED BY <1>1, <1>3, <2>6, <2>7, <2>8, AbstractConstants DEF Abstract!Store
  <2> HIDE DEF a
  <2> QED BY <2>5, <2>9, AbstractConstants DEF Abstract!Next
<1> QED BY <1>4, <1>5

\* At the end of a file every chunk of the image is counted, hence stored.
LEMMA EndOfImageRefines == IInv /\ EndOfImage => Abstract!Next
<1> SUFFICES ASSUME IInv, EndOfImage PROVE Abstract!Next
  OBVIOUS
<1>1. /\ pc = "read" /\ img \in 1..NImages /\ next > Images[img].len /\ pending = <<>>
      /\ img' = img + 1 /\ pc' = pc /\ ddr' = ddr /\ dev' = dev
  BY NImagesNat DEF EndOfImage, KeepSend, devVars, IInv, TypeOK
<1>2. img # NImages + 1 /\ Images[img].len \in Nat /\ Images[img].base \in Nat
  BY <1>1, NImagesNat, ImageFields
<1>3. sent = Images[img].len
  BY <1>1, <1>2 DEF IInv, TypeOK, Position
<1>4. ASSUME NEW a \in Addr, InImage(img, a) PROVE ddr[a] = ChunkAt(img, a)
  <2> DEFINE k == a - Images[img].base + 1
  <2>1. a \in Nat
    BY ImageFields DEF Addr
  <2>2. k \in 1..sent /\ Images[img].base + k - 1 = a
    BY <1>2, <1>3, <1>4, <2>1 DEF InImage
  <2>3. Done(LoadFrame(img, k))
    BY <1>1, <2>2, NImagesNat DEF IInv, Stored
  <2>4. ddr[Images[img].base + k - 1] = <<img, k>>
    BY <2>3 DEF Done, LoadFrame
  <2> QED BY <2>2, <2>4 DEF ChunkAt
<1>5. img - 1 < NImages /\ (img - 1) + 1 = img /\ img' - 1 = (img - 1) + 1
  BY <1>1, NImagesNat
<1>6. Abstract!FinishImage
  BY <1>1, <1>4, <1>5, AbstractConstants DEF Abstract!FinishImage
<1> QED BY <1>6 DEF Abstract!Next

\* The reply to the jump is the host's confirmation that the board runs.
LEMMA SendDoneRefines == IInv /\ IInv' /\ SendDone => [Abstract!Next]_(Abstract!vars)
<1> SUFFICES ASSUME IInv, IInv', SendDone PROVE [Abstract!Next]_(Abstract!vars)
  OBVIOUS
<1>1. /\ pc = "ack" /\ img' = img /\ ddr' = ddr /\ dev' = dev
      /\ pc' \in {"console", "read"}
  BY DEF SendDone, devVars, lineVars
<1>2. CASE pc' = "read"
  BY <1>1, <1>2 DEF Abstract!vars
<1>3. CASE pc' = "console"
  <2>1. dev' = "booted"
    BY <1>3 DEF IInv, Phase
  <2>2. Abstract!Confirm
    BY <1>1, <1>3, <2>1 DEF Abstract!Confirm
  <2> QED BY <2>2 DEF Abstract!Next
<1> QED BY <1>1, <1>2, <1>3

\* Every step of the upload is a step or a stutter of the abstract load.
LEMMA NextRefines == IInv /\ IInv' /\ [Next]_vars => [Abstract!Next]_(Abstract!vars)
<1> SUFFICES ASSUME IInv, IInv', [Next]_vars PROVE [Abstract!Next]_(Abstract!vars)
  OBVIOUS
<1>1. CASE ReadChunk \/ FlushTail \/ Jump
  BY <1>1 DEF ReadChunk, FlushTail, Jump, StartSend, KeepSend, devVars, Abstract!vars
<1>2. CASE EndOfImage
  BY <1>2, EndOfImageRefines
<1>3. CASE WriteFrame
  BY <1>3 DEF WriteFrame, devVars, Abstract!vars
<1>4. CASE ReadAck \/ Resend
  <2>1. /\ pc = "ack" /\ pc' \in {"ack", "write", "failed"}
        /\ img' = img /\ ddr' = ddr /\ dev' = dev
    BY <1>4 DEF ReadAck, TakeReply, Resend, devVars, lineVars
  <2>2. CASE pc' = "failed"
    BY <2>1, <2>2 DEF Abstract!Next, Abstract!GiveUp
  <2>3. CASE pc' # "failed"
    BY <2>1, <2>3 DEF Abstract!vars
  <2> QED BY <2>2, <2>3
<1>5. CASE SendDone
  BY <1>5, SendDoneRefines
<1>6. CASE AckTimeout \/ PortError \/ ConsoleGivesUp
  BY <1>6 DEF AckTimeout, PortError, ConsoleGivesUp, devVars, Abstract!Next, Abstract!GiveUp
<1>7. CASE ReadConsole
  BY <1>7 DEF ReadConsole, devVars, Abstract!Next, Abstract!Succeed, Abstract!vars
<1>8. CASE Execute
  BY <1>8, ExecuteRefines
<1>9. CASE Refuse \/ LoseFrame \/ SwallowFrame \/ PrintConsole
  BY <1>9 DEF Refuse, LoseFrame, SwallowFrame, PrintConsole, hostVars, devVars, Abstract!vars
<1>10. CASE Exited \/ UNCHANGED vars
  BY <1>10 DEF Exited, vars, hostVars, devVars, Abstract!vars
<1> QED BY <1>1, <1>2, <1>3, <1>4, <1>5, <1>6, <1>7, <1>8, <1>9, <1>10
        DEF Next, HostStep, BoardStep

(***************************************************************************)
(* Whatever the images, the window and the faults of the line, uploading   *)
(* with frames, windows and retries implements loading image after image.  *)
(***************************************************************************)
THEOREM Refinement == Spec => ImplementsImageLoad
  BY AbstractInit, NextRefines, Invariance, PTL
  DEF Spec, ImplementsImageLoad, Abstract!Spec

-----------------------------------------------------------------------------
(* The contents of memory at the jump, from the theorem about ImageLoad *)

AbstractProofs == INSTANCE ImageLoadProofs WITH
    memory <- ddr,
    loaded <- img - 1,
    host   <- IF pc \in {"read", "write", "ack"} THEN "loading" ELSE pc,
    board  <- IF dev = "sfl" THEN "loader" ELSE "running"

(***************************************************************************)
(* A board that has jumped finds at every address the chunk of the last    *)
(* image that covers it.                                                   *)
(***************************************************************************)
THEOREM BootsWholeImages == Spec => []BootedOnWholeImages
<1>1. Abstract!Init => AbstractProofs!Init
  BY DEF Abstract!Init, AbstractProofs!Init, Abstract!Addr, AbstractProofs!Addr,
     Abstract!NImages, AbstractProofs!NImages, Abstract!Blank, AbstractProofs!Blank
<1>2. [Abstract!Next]_(Abstract!vars) => [AbstractProofs!Next]_(AbstractProofs!vars)
  BY DEF Abstract!Next, AbstractProofs!Next, Abstract!vars, AbstractProofs!vars,
     Abstract!Store, AbstractProofs!Store, Abstract!FinishImage, AbstractProofs!FinishImage,
     Abstract!Boot, AbstractProofs!Boot, Abstract!Confirm, AbstractProofs!Confirm,
     Abstract!Succeed, AbstractProofs!Succeed, Abstract!GiveUp, AbstractProofs!GiveUp,
     Abstract!Addr, AbstractProofs!Addr, Abstract!NImages, AbstractProofs!NImages,
     Abstract!InImage, AbstractProofs!InImage, Abstract!ChunkAt, AbstractProofs!ChunkAt
<1>3. IInv /\ AbstractProofs!RunsWhatWasLoaded => BootedOnWholeImages
  BY DEF AbstractProofs!RunsWhatWasLoaded, BootedOnWholeImages,
     AbstractProofs!Addr, Addr, AbstractProofs!NImages, NImages, AbstractProofs!Blank, Blank,
     AbstractProofs!InImage, InImage, AbstractProofs!ChunkAt, ChunkAt,
     AbstractProofs!Latest, Latest, IInv, TypeOK
<1>4. ImagesAssumption
  BY ImagesAssumption
<1>5. AbstractProofs!Spec => []AbstractProofs!RunsWhatWasLoaded
  BY <1>4, AbstractProofs!BootsOnLatest
<1> QED BY <1>1, <1>2, <1>3, <1>5, Refinement, Invariance, PTL
        DEF ImplementsImageLoad, Abstract!Spec, AbstractProofs!Spec
==============================================================================
