--------------------------- MODULE BootImagesProofs --------------------------
(***************************************************************************)
(* Proofs about BootImages, for every number of makes, and whether or not  *)
(* scripts are broken off: what a script has still to do tells which of    *)
(* the files are those of Buildroot's output, and what a make has still to *)
(* make tells which images of the output are its own.                      *)
(***************************************************************************)
EXTENDS BootImages, SequenceTheorems, TLAPS

Operation ==
    {"Image", "gz", "cpio", "rm gz", "rm cpio", "opensbi", "opensbi or keep",
     "dtb gz", "dtb default", "dtb foreign", "dtb temp", "dtb sdroot",
     "json gz", "json cpio", "json temp", "json sdroot",
     "need Image", "need gz", "need opensbi"}

TypeOK ==
    /\ build \in Nat /\ left \subseteq Output /\ out \in [Output -> Nat]
    /\ image \in Nat /\ opensbi \in Nat /\ gz \in Nat /\ cpio \in Nat
    /\ dtb \in [Flavour -> Nat]
    /\ json \in [Flavour -> {"missing", "gz", "cpio", "no rootfs"}]
    /\ todo \in Seq(Operation)
    /\ script \in Script \cup {"none", "make"}

Rest == Range(todo)

\* Of these operations, no b is before an a.
First(ops, a, b) == \A i, j \in 1..Len(ops) : ops[i] = b /\ ops[j] = a => j < i

\* A kernel and a rootfs that are not still to be made are of the last make.
OutputOfMake ==
    /\ "Image" \in left \/ out["Image"] = build
    /\ left \cap {"gz", "cpio"} # {} \/ out["gz"] = build \/ out["cpio"] = build

\* A script that copies the compressed rootfs, and firmware by this operation.
GzProgress(firmware) ==
    /\ Rest \subseteq {"Image", "gz", "rm cpio", firmware, "dtb gz", "json gz"}
    /\ First(todo, "gz", "dtb gz")
    /\ "Image" \in Rest \/ (image = out["Image"] /\ out["Image"] # Missing)
    /\ "gz" \in Rest \/ (gz = out["gz"] /\ out["gz"] # Missing)
    /\ "rm cpio" \in Rest \/ cpio = Missing
    /\ firmware \in Rest \/ opensbi # Missing
    /\ "dtb gz" \in Rest \/ dtb["initramfs"] = out["gz"]
    /\ "json gz" \in Rest \/ json["initramfs"] = "gz"

CpioProgress ==
    /\ Rest \subseteq {"Image", "cpio", "rm gz", "opensbi or keep",
                       "dtb foreign", "dtb default", "json cpio"}
    /\ "Image" \in Rest \/ (image = out["Image"] /\ out["Image"] # Missing)
    /\ "cpio" \in Rest \/ (cpio = out["cpio"] /\ out["cpio"] # Missing)
    /\ "rm gz" \in Rest \/ gz = Missing
    /\ "opensbi or keep" \in Rest \/ opensbi # Missing
    /\ "dtb foreign" \in Rest \/ "dtb default" \in Rest \/ dtb["initramfs"] # Missing
    /\ "json cpio" \in Rest \/ json["initramfs"] = "cpio"

TempProgress ==
    /\ Rest \subseteq {"need Image", "need gz", "need opensbi", "dtb temp", "json temp"}
    /\ First(todo, "need gz", "dtb temp")
    /\ "need Image" \in Rest \/ image # Missing
    /\ "need gz" \in Rest \/ gz # Missing
    /\ "need opensbi" \in Rest \/ opensbi # Missing
    /\ "dtb temp" \in Rest \/ dtb["temp"] # Missing
    /\ "json temp" \in Rest \/ json["temp"] = "gz"

SdrootProgress ==
    /\ Rest \subseteq {"need Image", "need opensbi", "dtb sdroot", "json sdroot"}
    /\ "need Image" \in Rest \/ image # Missing
    /\ "need opensbi" \in Rest \/ opensbi # Missing
    /\ "dtb sdroot" \in Rest \/ dtb["sdroot"] # Missing
    /\ "json sdroot" \in Rest \/ json["sdroot"] = "no rootfs"

Progress ==
    /\ script \in {"none", "make"} => todo = <<>>
    /\ script = "post-image" => GzProgress("opensbi")
    /\ script = "collect" /\ out["gz"] # Missing => GzProgress("opensbi or keep")
    /\ script = "collect" /\ out["gz"] = Missing => CpioProgress
    /\ script = "prepare_temp" => TempProgress
    /\ script = "prepare_sdroot" => SdrootProgress

\* What a collect or a post-image leaves: the compressed rootfs or the other.
Whole ==
    /\ image = out["Image"] /\ image # Missing /\ opensbi # Missing
    /\ \/ /\ json["initramfs"] = "gz" /\ cpio = Missing
          /\ gz = out["gz"] /\ gz # Missing /\ dtb["initramfs"] = gz
       \/ /\ json["initramfs"] = "cpio" /\ gz = Missing /\ out["gz"] = Missing
          /\ cpio = out["cpio"] /\ cpio # Missing /\ dtb["initramfs"] # Missing

Kept ==
    script = "none" =>
        /\ done \in {"post-image", "collect"} => Whole
        /\ done = "prepare_temp" => Loadable("temp")
        /\ done = "prepare_sdroot" => Loadable("sdroot")

IInv == TypeOK /\ OutputOfMake /\ Progress /\ Kept

-----------------------------------------------------------------------------
(* Lists of operations *)

LEMMA ShortLists ==
  /\ Range(<<>>) = {}
  /\ \A a : Range(<<a>>) = {a}
  /\ \A a, b : Range(<<a, b>>) = {a, b}
  /\ \A S : /\ <<>> \in Seq(S)
            /\ \A a \in S : <<a>> \in Seq(S)
            /\ \A a, b \in S : <<a, b>> \in Seq(S)
<1>1. Range(<<>>) = {}
  BY DEF Range
<1>2. ASSUME NEW a PROVE Range(<<a>>) = {a}
  <2>1. DOMAIN <<a>> = {1} /\ <<a>>[1] = a
    OBVIOUS
  <2> QED BY <2>1, Zenon DEF Range
<1>3. ASSUME NEW a, NEW b PROVE Range(<<a, b>>) = {a, b}
  <2>1. DOMAIN <<a, b>> = {1, 2} /\ <<a, b>>[1] = a /\ <<a, b>>[2] = b
    OBVIOUS
  <2> QED BY <2>1, Zenon DEF Range
<1>4. ASSUME NEW S
      PROVE  /\ <<>> \in Seq(S)
             /\ \A a \in S : <<a>> \in Seq(S)
             /\ \A a, b \in S : <<a, b>> \in Seq(S)
  OBVIOUS
<1> QED BY <1>1, <1>2, <1>3, <1>4

LEMMA Joined ==
  ASSUME NEW s \in Seq(Operation), NEW t \in Seq(Operation)
  PROVE  s \o t \in Seq(Operation) /\ Range(s \o t) = Range(s) \cup Range(t)
BY ConcatProperties, RangeConcatenation

LEMMA FirstWithout ==
  ASSUME NEW S, NEW s \in Seq(S), NEW a, NEW b, b \notin Range(s)
  PROVE  First(s, a, b)
<1>1. DOMAIN s = 1..Len(s)
  OBVIOUS
<1> QED BY <1>1, Zenon DEF First, Range

LEMMA FirstConcat ==
  ASSUME NEW S, NEW s \in Seq(S), NEW t \in Seq(S), NEW a, NEW b,
         First(s, a, b), a \notin Range(t)
  PROVE  First(s \o t, a, b)
<1> DEFINE m == Len(s)
           n == Len(t)
           c == s \o t
<1>1. /\ m \in Nat /\ n \in Nat /\ Len(c) = m + n /\ DOMAIN t = 1..n
      /\ \A j \in 1..m + n : c[j] = IF j <= m THEN s[j] ELSE t[j - m]
  BY ConcatProperties
<1> HIDE DEF m, n, c
<1>2. \A j \in 1..m + n : \/ j \in 1..m /\ c[j] = s[j]
                          \/ j > m /\ j - m \in 1..n /\ c[j] = t[j - m]
  BY <1>1
<1>3. \A j \in 1..m + n : c[j] = a => j \in 1..m
  BY <1>1, <1>2, Zenon DEF Range
<1>4. \A i, j \in 1..m + n : i > m /\ j \in 1..m => j < i
  BY <1>1
<1>5. ASSUME NEW i \in 1..m + n, NEW j \in 1..m + n, c[i] = b, c[j] = a
      PROVE  j < i
  <2>1. j \in 1..m /\ c[j] = s[j]
    BY <1>1, <1>3, <1>5
  <2>2. CASE i \in 1..m /\ c[i] = s[i]
    BY <1>5, <2>1, <2>2, Zenon DEF First, m
  <2>3. CASE i > m
    BY <1>4, <2>1, <2>3
  <2> QED BY <1>2, <2>2, <2>3
<1> QED BY <1>1, <1>5 DEF c, First

\* The head of the list is done.
LEMMA HeadDone ==
  ASSUME NEW S, NEW s \in Seq(S), s # <<>>
  PROVE  /\ Tail(s) \in Seq(S) /\ Head(s) \in S
         /\ Range(Tail(s)) \subseteq Range(s) /\ Head(s) \in Range(s)
         /\ \A x \in Range(s) : x = Head(s) \/ x \in Range(Tail(s))
         /\ \A a, b : First(s, a, b) =>
               /\ First(Tail(s), a, b)
               /\ Head(s) = b => a = b \/ a \notin Range(s)
<1> DEFINE n == Len(s)
           t == Tail(s)
<1>1. /\ n \in Nat /\ n # 0 /\ t \in Seq(S) /\ Head(s) \in S /\ Head(s) = s[1]
      /\ DOMAIN s = 1..n /\ Len(t) = n - 1 /\ DOMAIN t = 1..n - 1
      /\ \A j \in 1..n - 1 : t[j] = s[j + 1]
  OBVIOUS
<1> HIDE DEF n, t
<1>2. /\ 1 \in 1..n /\ \A j \in 1..n - 1 : j + 1 \in 1..n
      /\ \A j \in 1..n : j = 1 \/ (j - 1 \in 1..n - 1 /\ t[j - 1] = s[j] /\ ~ (j < 1))
      /\ \A i, j \in 1..n - 1 : j + 1 < i + 1 => j < i
  BY <1>1
<1>3. Head(s) \in Range(s)
  BY <1>1, <1>2, Zenon DEF Range
<1>4. ASSUME NEW x \in Range(t) PROVE x \in Range(s)
  <2>1. PICK j \in 1..n - 1 : x = t[j]
    BY <1>1, Zenon DEF Range
  <2> QED BY <1>1, <1>2, <2>1, Zenon DEF Range
<1>5. ASSUME NEW x \in Range(s) PROVE x = Head(s) \/ x \in Range(t)
  <2>1. PICK j \in 1..n : x = s[j]
    BY <1>1, Zenon DEF Range
  <2> QED BY <1>1, <1>2, <2>1, Zenon DEF Range
<1>6. ASSUME NEW a, NEW b, First(s, a, b)
      PROVE  First(t, a, b) /\ (Head(s) = b => a = b \/ a \notin Range(s))
  <2>1. \A i, j \in 1..n : s[i] = b /\ s[j] = a => j < i
    BY <1>6 DEF First, n
  <2>2. First(t, a, b)
    BY <1>1, <1>2, <2>1, Zenon DEF First
  <2>3. ASSUME Head(s) = b, a \in Range(s) PROVE a = b
    <3>1. PICK j \in 1..n : a = s[j]
      BY <1>1, <2>3, Zenon DEF Range
    <3>2. j < 1
      BY <1>1, <1>2, <2>1, <2>3, <3>1, Zenon
    <3> QED BY <1>1, <3>2
  <2> QED BY <2>2, <2>3
<1> QED BY <1>1, <1>3, <1>4, <1>5, <1>6 DEF t

-----------------------------------------------------------------------------
(* A script is called: everything is still to be done *)

LEMMA PostImageList ==
  /\ PostImage \in Seq(Operation) /\ First(PostImage, "gz", "dtb gz")
  /\ Range(PostImage) = {"Image", "gz", "rm cpio", "opensbi", "dtb gz", "json gz"}
<1>1. /\ Len(PostImage) = 6 /\ PostImage \in Seq(Operation)
      /\ PostImage[1] = "Image" /\ PostImage[2] = "gz" /\ PostImage[3] = "rm cpio"
      /\ PostImage[4] = "opensbi" /\ PostImage[5] = "dtb gz" /\ PostImage[6] = "json gz"
  BY DEF PostImage, Operation
<1>2. \A i \in 1..6 : i = 1 \/ i = 2 \/ i = 3 \/ i = 4 \/ i = 5 \/ i = 6
  OBVIOUS
<1>3. \A i \in 1..6 : PostImage[i] = "dtb gz" => i = 5
  BY <1>1, <1>2
<1>4. \A i \in 1..6 : PostImage[i] = "gz" => i = 2
  BY <1>1, <1>2
<1>5. First(PostImage, "gz", "dtb gz")
  <2>1. 2 < 5
    OBVIOUS
  <2> QED BY <1>1, <1>3, <1>4, <2>1, Zenon DEF First
<1>6. Range(PostImage) = {"Image", "gz", "rm cpio", "opensbi", "dtb gz", "json gz"}
  <2>1. DOMAIN PostImage = {1, 2, 3, 4, 5, 6}
    BY DEF PostImage
  <2> QED BY <1>1, <2>1, Zenon DEF Range
<1> QED BY <1>1, <1>5, <1>6, Zenon

LEMMA PrepareTempList ==
  /\ PrepareTemp \in Seq(Operation) /\ First(PrepareTemp, "need gz", "dtb temp")
  /\ Range(PrepareTemp) = {"need Image", "need gz", "need opensbi", "dtb temp", "json temp"}
<1>1. /\ Len(PrepareTemp) = 5 /\ PrepareTemp \in Seq(Operation)
      /\ PrepareTemp[1] = "need Image" /\ PrepareTemp[2] = "need gz"
      /\ PrepareTemp[3] = "need opensbi"
      /\ PrepareTemp[4] = "dtb temp" /\ PrepareTemp[5] = "json temp"
  BY DEF PrepareTemp, Operation
<1>2. \A i \in 1..5 : i = 1 \/ i = 2 \/ i = 3 \/ i = 4 \/ i = 5
  OBVIOUS
<1>3. \A i \in 1..5 : PrepareTemp[i] = "dtb temp" => i = 4
  BY <1>1, <1>2
<1>4. \A i \in 1..5 : PrepareTemp[i] = "need gz" => i = 2
  BY <1>1, <1>2
<1>5. First(PrepareTemp, "need gz", "dtb temp")
  <2>1. 2 < 4
    OBVIOUS
  <2> QED BY <1>1, <1>3, <1>4, <2>1, Zenon DEF First
<1>6. Range(PrepareTemp) = {"need Image", "need gz", "need opensbi", "dtb temp", "json temp"}
  <2>1. DOMAIN PrepareTemp = {1, 2, 3, 4, 5}
    BY DEF PrepareTemp
  <2> QED BY <1>1, <2>1, Zenon DEF Range
<1> QED BY <1>1, <1>5, <1>6, Zenon

LEMMA PrepareSdrootList ==
  /\ PrepareSdroot \in Seq(Operation)
  /\ Range(PrepareSdroot) = {"dtb sdroot", "json sdroot", "need Image", "need opensbi"}
<1>1. PrepareSdroot \in Seq(Operation)
  BY DEF PrepareSdroot, Operation
<1>2. Range(PrepareSdroot) = {"dtb sdroot", "json sdroot", "need Image", "need opensbi"}
  <2>1. /\ DOMAIN PrepareSdroot = {1, 2, 3, 4}
        /\ PrepareSdroot[1] = "dtb sdroot" /\ PrepareSdroot[2] = "json sdroot"
        /\ PrepareSdroot[3] = "need Image" /\ PrepareSdroot[4] = "need opensbi"
    BY DEF PrepareSdroot
  <2> QED BY <2>1, Zenon DEF Range
<1> QED BY <1>1, <1>2, Zenon

\* The steps of collect_litex_linux_images, and the choices among them.
LEMMA CollectList ==
  ASSUME TypeOK
  PROVE  /\ Collect \in Seq(Operation)
         /\ out["gz"] # Missing =>
               /\ First(Collect, "gz", "dtb gz")
               /\ Range(Collect) =
                     {"Image", "gz", "rm cpio", "opensbi or keep", "dtb gz", "json gz"}
         /\ out["gz"] = Missing =>
               /\ Range(Collect) \subseteq
                     {"Image", "cpio", "rm gz", "opensbi or keep", "dtb foreign",
                      "dtb default", "json cpio"}
               /\ {"Image", "cpio", "rm gz", "opensbi or keep", "json cpio"} \subseteq Range(Collect)
               /\ \/ "dtb foreign" \in Range(Collect) \/ "dtb default" \in Range(Collect)
                  \/ dtb["initramfs"] # Missing
<1> DEFINE j == IF out["gz"] # Missing THEN "json gz" ELSE "json cpio"
           s1 == <<"Image">> \o CollectRootfs
           s2 == s1 \o <<"opensbi or keep">>
           s3 == s2 \o CollectDtb
<1>2. Collect = s3 \o <<j>>
  BY DEF Collect
<1>o. /\ "Image" \in Operation /\ "opensbi or keep" \in Operation
      /\ "gz" \in Operation /\ "rm cpio" \in Operation
      /\ "cpio" \in Operation /\ "rm gz" \in Operation
      /\ "dtb gz" \in Operation /\ "dtb foreign" \in Operation
      /\ "dtb default" \in Operation /\ j \in Operation
  BY DEF Operation
<1>1. /\ <<"Image">> \in Seq(Operation) /\ CollectRootfs \in Seq(Operation)
      /\ <<"opensbi or keep">> \in Seq(Operation) /\ CollectDtb \in Seq(Operation)
      /\ <<j>> \in Seq(Operation)
  <2> HIDE DEF j
  <2>1. CollectRootfs \in Seq(Operation)
    BY <1>o, ShortLists, Zenon DEF CollectRootfs
  <2>2. CollectDtb \in Seq(Operation)
    BY <1>o, ShortLists, Zenon DEF CollectDtb
  <2> QED BY <1>o, <2>1, <2>2, ShortLists, Zenon
<1> HIDE DEF j
<1>3. s1 \in Seq(Operation) /\ Range(s1) = Range(<<"Image">>) \cup Range(CollectRootfs)
  BY <1>1, Joined, Zenon DEF s1
<1> HIDE DEF s1
<1>4. s2 \in Seq(Operation) /\ Range(s2) = Range(s1) \cup Range(<<"opensbi or keep">>)
  BY <1>1, <1>3, Joined, Zenon DEF s2
<1> HIDE DEF s2
<1>5. s3 \in Seq(Operation) /\ Range(s3) = Range(s2) \cup Range(CollectDtb)
  BY <1>1, <1>4, Joined, Zenon DEF s3
<1> HIDE DEF s3
<1>6. Collect \in Seq(Operation) /\ Range(Collect) = Range(s3) \cup Range(<<j>>)
  <2>1. /\ s3 \o <<j>> \in Seq(Operation)
        /\ Range(s3 \o <<j>>) = Range(s3) \cup Range(<<j>>)
    BY <1>1, <1>5, Joined, Zenon
  <2> QED BY <1>2, <2>1
<1>7. /\ Range(<<"Image">>) = {"Image"} /\ Range(<<"opensbi or keep">>) = {"opensbi or keep"}
      /\ Range(<<j>>) = {j}
  BY ShortLists, Zenon
<1>8. CASE out["gz"] # Missing
  <2>1. /\ Range(CollectRootfs) = {"gz", "rm cpio"} /\ Range(CollectDtb) = {"dtb gz"}
        /\ j = "json gz"
    BY <1>8, ShortLists, Zenon DEF CollectRootfs, CollectDtb, j
  <2>2. Range(Collect) = {"Image", "gz", "rm cpio", "opensbi or keep", "dtb gz", "json gz"}
    BY ONLY <1>3, <1>4, <1>5, <1>6, <1>7, <2>1
  <2>3. "dtb gz" \notin Range(s2)
    BY ONLY <1>3, <1>4, <1>7, <2>1
  <2>4. First(s2, "gz", "dtb gz")
    BY <1>4, <2>3, FirstWithout
  <2>5. "gz" \notin Range(CollectDtb) /\ "gz" \notin Range(<<j>>)
    BY <1>7, <2>1
  <2>6. First(s3, "gz", "dtb gz")
    BY <1>1, <1>4, <2>4, <2>5, FirstConcat DEF s3
  <2>7. First(Collect, "gz", "dtb gz")
    BY <1>1, <1>2, <1>5, <2>5, <2>6, FirstConcat
  <2> QED BY <1>6, <1>8, <2>2, <2>7
<1>9. CASE out["gz"] = Missing
  <2>1. Range(CollectRootfs) = {"cpio", "rm gz"} /\ j = "json cpio"
    BY <1>9, ShortLists, Zenon DEF CollectRootfs, j
  <2>2. \/ Range(CollectDtb) = {"dtb foreign"} \/ Range(CollectDtb) = {"dtb default"}
        \/ Range(CollectDtb) = {} /\ dtb["initramfs"] # Missing
    BY <1>9, ShortLists, Zenon DEF CollectDtb
  <2>3. Range(Collect) =
           {"Image", "cpio", "rm gz", "opensbi or keep", "json cpio"} \cup Range(CollectDtb)
    BY ONLY <1>3, <1>4, <1>5, <1>6, <1>7, <2>1
  <2> QED BY <1>6, <1>9, <2>2, <2>3
<1> QED BY <1>6, <1>8, <1>9

LEMMA CallKeeps ==
  ASSUME IInv, NEW s \in Called, Call(s)
  PROVE  IInv'
<1>1. /\ script' = s /\ todo' = Operations(s)
      /\ build' = build /\ left' = left /\ out' = out
      /\ image' = image /\ opensbi' = opensbi /\ gz' = gz /\ cpio' = cpio
      /\ dtb' = dtb /\ json' = json
  BY DEF Call, files, buildroot
<1>2. TypeOK /\ OutputOfMake
  BY DEF IInv
<1>4. CASE s = "collect"
  <2>1. todo' = Collect
    BY <1>1, <1>4 DEF Operations
  <2>2. TypeOK' /\ OutputOfMake' /\ Kept'
    BY <1>1, <1>2, <1>4, <2>1, CollectList DEF TypeOK, OutputOfMake, Kept, Script, Called
  <2>3. out["gz"] # Missing => GzProgress("opensbi or keep")'
    BY <1>1, <1>2, <2>1, CollectList DEF GzProgress, Rest
  <2>4. out["gz"] = Missing => CpioProgress'
    BY <1>1, <1>2, <2>1, CollectList DEF CpioProgress, Rest
  <2> QED BY <1>1, <1>4, <2>2, <2>3, <2>4 DEF IInv, Progress
<1>5. CASE s = "prepare_temp"
  <2>1. todo' = PrepareTemp
    BY <1>1, <1>5 DEF Operations
  <2> QED BY <1>1, <1>2, <1>5, <2>1, PrepareTempList
          DEF IInv, TypeOK, OutputOfMake, Kept, Progress, TempProgress, Rest, Script, Called
<1>6. CASE s = "prepare_sdroot"
  <2>1. todo' = PrepareSdroot
    BY <1>1, <1>6 DEF Operations
  <2> QED BY <1>1, <1>2, <1>6, <2>1, PrepareSdrootList
          DEF IInv, TypeOK, OutputOfMake, Kept, Progress, SdrootProgress, Rest, Script, Called
<1>7. CASE s = "build_litex_dtb"
  <2>1. todo' = BuildDtb
    BY <1>1, <1>7 DEF Operations
  <2>2. BuildDtb \in Seq(Operation)
    BY DEF BuildDtb, Operation
  <2> QED BY <1>1, <1>2, <1>7, <2>1, <2>2
          DEF IInv, TypeOK, OutputOfMake, Kept, Progress, Script, Called
<1> QED BY <1>4, <1>5, <1>6, <1>7 DEF Called

-----------------------------------------------------------------------------
(* An operation is done *)

Op == Head(todo)

\* What it did to each file, knowing that it did not fail.
LEMMA Effect ==
  ASSUME TypeOK, Operate
  PROVE  /\ /\ Op = "Image" => image' = out["Image"] /\ out["Image"] # Missing
            /\ Op # "Image" => image' = image
            /\ Op = "need Image" => image # Missing
         /\ /\ Op \in {"opensbi", "opensbi or keep"} => opensbi' # Missing
            /\ Op \notin {"opensbi", "opensbi or keep"} => opensbi' = opensbi
            /\ Op = "need opensbi" => opensbi # Missing
         /\ /\ Op = "gz" => gz' = out["gz"] /\ out["gz"] # Missing
            /\ Op = "rm gz" => gz' = Missing
            /\ Op \notin {"gz", "rm gz"} => gz' = gz
            /\ Op = "need gz" => gz # Missing
         /\ /\ Op = "cpio" => cpio' = out["cpio"] /\ out["cpio"] # Missing
            /\ Op = "rm cpio" => cpio' = Missing
            /\ Op \notin {"cpio", "rm cpio"} => cpio' = cpio
         /\ /\ Op = "dtb gz" => dtb'["initramfs"] = gz
            /\ Op \in {"dtb default", "dtb foreign"} => dtb'["initramfs"] # Missing
            /\ Op \notin {"dtb gz", "dtb default", "dtb foreign"} =>
                  dtb'["initramfs"] = dtb["initramfs"]
         /\ /\ Op = "dtb temp" => dtb'["temp"] = gz
            /\ Op # "dtb temp" => dtb'["temp"] = dtb["temp"]
         /\ /\ Op = "dtb sdroot" => dtb'["sdroot"] # Missing
            /\ Op # "dtb sdroot" => dtb'["sdroot"] = dtb["sdroot"]
         /\ /\ Op = "json gz" => json'["initramfs"] = "gz"
            /\ Op = "json cpio" => json'["initramfs"] = "cpio"
            /\ Op \notin {"json gz", "json cpio"} => json'["initramfs"] = json["initramfs"]
         /\ /\ Op = "json temp" => json'["temp"] = "gz"
            /\ Op # "json temp" => json'["temp"] = json["temp"]
         /\ /\ Op = "json sdroot" => json'["sdroot"] = "no rootfs"
            /\ Op # "json sdroot" => json'["sdroot"] = json["sdroot"]
         /\ image' \in Nat /\ opensbi' \in Nat /\ gz' \in Nat /\ cpio' \in Nat
         /\ dtb' \in [Flavour -> Nat]
         /\ json' \in [Flavour -> {"missing", "gz", "cpio", "no rootfs"}]
         /\ todo # <<>> /\ todo' = Tail(todo)
         /\ build' = build /\ left' = left /\ out' = out
         /\ script' = script /\ done' = done
<1>1. /\ ~ Fails(Op)
      /\ image' = IF Op = "Image" THEN out["Image"] ELSE image
      /\ opensbi' = IF Op \in {"opensbi", "opensbi or keep"} /\ out["fw"] # Missing
                    THEN out["fw"] ELSE opensbi
      /\ gz' = IF Op = "gz" THEN out["gz"] ELSE IF Op = "rm gz" THEN Missing ELSE gz
      /\ cpio' = IF Op = "cpio" THEN out["cpio"]
                 ELSE IF Op = "rm cpio" THEN Missing ELSE cpio
      /\ dtb' = NewDtb(Op) /\ json' = NewJson(Op)
      /\ todo # <<>> /\ todo' = Tail(todo)
      /\ build' = build /\ left' = left /\ out' = out /\ script' = script /\ done' = done
  BY DEF Operate, Op, buildroot
<1> HIDE DEF Op
<1>t. /\ \A f \in Output : out[f] \in Nat
      /\ "Image" \in Output /\ "fw" \in Output /\ "gz" \in Output /\ "cpio" \in Output
      /\ image \in Nat /\ opensbi \in Nat /\ gz \in Nat /\ cpio \in Nat
      /\ dtb \in [Flavour -> Nat]
      /\ json \in [Flavour -> {"missing", "gz", "cpio", "no rootfs"}]
      /\ "initramfs" \in Flavour /\ "temp" \in Flavour /\ "sdroot" \in Flavour
  BY DEF TypeOK, Flavour, Output
<1>m. /\ Missing \in Nat /\ Window \in Nat /\ NoInitrd \in Nat /\ Foreign \in Nat
      /\ Window # Missing /\ NoInitrd # Missing /\ Foreign # Missing
  BY ImagesAssumption DEF Missing, Window, NoInitrd, Foreign
<1>2. /\ Op = "Image" => image' = out["Image"] /\ out["Image"] # Missing
      /\ Op # "Image" => image' = image
      /\ Op = "need Image" => image # Missing
  BY <1>1 DEF Fails, Missing
<1>3. /\ Op \in {"opensbi", "opensbi or keep"} => opensbi' # Missing
      /\ Op \notin {"opensbi", "opensbi or keep"} => opensbi' = opensbi
      /\ Op = "need opensbi" => opensbi # Missing
  BY <1>1 DEF Fails
<1>4. /\ Op = "gz" => gz' = out["gz"] /\ out["gz"] # Missing
      /\ Op = "rm gz" => gz' = Missing
      /\ Op \notin {"gz", "rm gz"} => gz' = gz
      /\ Op = "need gz" => gz # Missing
  BY <1>1 DEF Fails
<1>5. /\ Op = "cpio" => cpio' = out["cpio"] /\ out["cpio"] # Missing
      /\ Op = "rm cpio" => cpio' = Missing
      /\ Op \notin {"cpio", "rm cpio"} => cpio' = cpio
  BY <1>1 DEF Fails
<1>6. /\ image' \in Nat /\ opensbi' \in Nat /\ gz' \in Nat /\ cpio' \in Nat
  BY <1>1, <1>t, <1>m
<1>d. DefaultDtb \in Nat /\ DefaultDtb # Missing
  BY <1>t, <1>m DEF DefaultDtb
<1>7. /\ Op = "dtb gz" => dtb' = [dtb EXCEPT !["initramfs"] = gz]
      /\ Op = "dtb default" => dtb' = [dtb EXCEPT !["initramfs"] = DefaultDtb]
      /\ Op = "dtb foreign" => dtb' = [dtb EXCEPT !["initramfs"] = Foreign]
      /\ Op = "dtb temp" => dtb' = [dtb EXCEPT !["temp"] = gz]
      /\ Op = "dtb sdroot" => dtb' = [dtb EXCEPT !["sdroot"] = NoInitrd]
      /\ Op \notin {"dtb gz", "dtb default", "dtb foreign", "dtb temp", "dtb sdroot"} =>
            dtb' = dtb
  BY <1>1 DEF NewDtb
<1>8. /\ Op = "json gz" => json' = [json EXCEPT !["initramfs"] = "gz"]
      /\ Op = "json cpio" => json' = [json EXCEPT !["initramfs"] = "cpio"]
      /\ Op = "json temp" => json' = [json EXCEPT !["temp"] = "gz"]
      /\ Op = "json sdroot" => json' = [json EXCEPT !["sdroot"] = "no rootfs"]
      /\ Op \notin {"json gz", "json cpio", "json temp", "json sdroot"} => json' = json
  BY <1>1 DEF NewJson
<1>9. /\ dtb' \in [Flavour -> Nat]
      /\ Op = "dtb gz" => dtb'["initramfs"] = gz
      /\ Op \in {"dtb default", "dtb foreign"} => dtb'["initramfs"] # Missing
      /\ Op \notin {"dtb gz", "dtb default", "dtb foreign"} =>
            dtb'["initramfs"] = dtb["initramfs"]
      /\ Op = "dtb temp" => dtb'["temp"] = gz
      /\ Op # "dtb temp" => dtb'["temp"] = dtb["temp"]
      /\ Op = "dtb sdroot" => dtb'["sdroot"] # Missing
      /\ Op # "dtb sdroot" => dtb'["sdroot"] = dtb["sdroot"]
  <2>1. CASE Op = "dtb gz"
    <3>1. dtb' = [dtb EXCEPT !["initramfs"] = gz]
      BY <1>7, <2>1
    <3>2. /\ dtb' \in [Flavour -> Nat] /\ dtb'["initramfs"] = gz
          /\ dtb'["temp"] = dtb["temp"] /\ dtb'["sdroot"] = dtb["sdroot"]
      BY ONLY <3>1, <1>t
    <3> QED BY <2>1, <3>2
  <2>2. CASE Op = "dtb default"
    <3>1. dtb' = [dtb EXCEPT !["initramfs"] = DefaultDtb]
      BY <1>7, <2>2
    <3>2. /\ dtb' \in [Flavour -> Nat] /\ dtb'["initramfs"] = DefaultDtb
          /\ dtb'["temp"] = dtb["temp"] /\ dtb'["sdroot"] = dtb["sdroot"]
      BY ONLY <3>1, <1>t, <1>d
    <3> QED BY <1>d, <2>2, <3>2
  <2>3. CASE Op = "dtb foreign"
    <3>1. dtb' = [dtb EXCEPT !["initramfs"] = Foreign]
      BY <1>7, <2>3
    <3>2. /\ dtb' \in [Flavour -> Nat] /\ dtb'["initramfs"] = Foreign
          /\ dtb'["temp"] = dtb["temp"] /\ dtb'["sdroot"] = dtb["sdroot"]
      BY ONLY <3>1, <1>t, <1>m
    <3> QED BY <1>m, <2>3, <3>2
  <2>4. CASE Op = "dtb temp"
    BY <1>7, <1>t, <2>4
  <2>5. CASE Op = "dtb sdroot"
    BY <1>7, <1>t, <1>m, <2>5
  <2>6. CASE Op \notin {"dtb gz", "dtb default", "dtb foreign", "dtb temp", "dtb sdroot"}
    BY <1>7, <1>t, <2>6
  <2> QED BY <2>1, <2>2, <2>3, <2>4, <2>5, <2>6
<1>10. /\ json' \in [Flavour -> {"missing", "gz", "cpio", "no rootfs"}]
       /\ Op = "json gz" => json'["initramfs"] = "gz"
       /\ Op = "json cpio" => json'["initramfs"] = "cpio"
       /\ Op \notin {"json gz", "json cpio"} => json'["initramfs"] = json["initramfs"]
       /\ Op = "json temp" => json'["temp"] = "gz"
       /\ Op # "json temp" => json'["temp"] = json["temp"]
       /\ Op = "json sdroot" => json'["sdroot"] = "no rootfs"
       /\ Op # "json sdroot" => json'["sdroot"] = json["sdroot"]
  <2>1. CASE Op = "json gz"
    BY <1>8, <1>t, <2>1
  <2>2. CASE Op = "json cpio"
    BY <1>8, <1>t, <2>2
  <2>3. CASE Op = "json temp"
    BY <1>8, <1>t, <2>3
  <2>4. CASE Op = "json sdroot"
    BY <1>8, <1>t, <2>4
  <2>5. CASE Op \notin {"json gz", "json cpio", "json temp", "json sdroot"}
    BY <1>8, <1>t, <2>5
  <2> QED BY <2>1, <2>2, <2>3, <2>4, <2>5
<1> QED BY <1>1, <1>2, <1>3, <1>4, <1>5, <1>6, <1>9, <1>10

\* The list without its head.
LEMMA Remaining ==
  ASSUME TypeOK, Operate
  PROVE  /\ todo' \in Seq(Operation)
         /\ Op \in Rest /\ Rest' \subseteq Rest
         /\ \A x \in Rest : x = Op \/ x \in Rest'
         /\ \A a, b : First(todo, a, b) =>
               First(todo', a, b) /\ (Op = b => a = b \/ a \notin Rest)
BY HeadDone DEF TypeOK, Operate, Op, Rest

LEMMA GzKeeps ==
  ASSUME TypeOK, Operate,
         NEW firmware \in {"opensbi", "opensbi or keep"}, GzProgress(firmware)
  PROVE  GzProgress(firmware)'
<1>1. /\ Op \in Rest /\ Rest' \subseteq Rest /\ \A x \in Rest : x = Op \/ x \in Rest'
      /\ First(todo', "gz", "dtb gz") /\ (Op = "dtb gz" => "gz" \notin Rest)
  BY Remaining DEF GzProgress
<1>2. Op \in {"Image", "gz", "rm cpio", firmware, "dtb gz", "json gz"}
  BY <1>1 DEF GzProgress
<1>3. out' = out
  BY Effect
<1>4. "Image" \in Rest' \/ (image' = out["Image"] /\ out["Image"] # Missing)
  BY <1>1, Effect DEF GzProgress
<1>5. "gz" \in Rest' \/ (gz' = out["gz"] /\ out["gz"] # Missing)
  BY <1>1, <1>2, Effect DEF GzProgress
<1>6. "rm cpio" \in Rest' \/ cpio' = Missing
  BY <1>1, <1>2, Effect DEF GzProgress
<1>7. firmware \in Rest' \/ opensbi' # Missing
  BY <1>1, <1>2, Effect DEF GzProgress
<1>8. "dtb gz" \in Rest' \/ dtb'["initramfs"] = out["gz"]
  BY <1>1, <1>2, Effect DEF GzProgress
<1>9. "json gz" \in Rest' \/ json'["initramfs"] = "gz"
  BY <1>1, <1>2, Effect DEF GzProgress
<1>10. Rest' \subseteq {"Image", "gz", "rm cpio", firmware, "dtb gz", "json gz"}
  BY <1>1 DEF GzProgress
<1> QED BY <1>1, <1>3, <1>4, <1>5, <1>6, <1>7, <1>8, <1>9, <1>10 DEF GzProgress

LEMMA CpioKeeps ==
  ASSUME TypeOK, Operate, CpioProgress
  PROVE  CpioProgress'
<1> DEFINE S == {"Image", "cpio", "rm gz", "opensbi or keep",
                 "dtb foreign", "dtb default", "json cpio"}
<1>1. /\ Op \in Rest /\ Rest' \subseteq Rest /\ \A x \in Rest : x = Op \/ x \in Rest'
      /\ Rest \subseteq S
  BY Remaining DEF CpioProgress
<1>2. Op \in S
  BY <1>1
<1>3. out' = out
  BY Effect
<1>4. "Image" \in Rest' \/ (image' = out["Image"] /\ out["Image"] # Missing)
  BY <1>1, Effect DEF CpioProgress
<1>5. "cpio" \in Rest' \/ (cpio' = out["cpio"] /\ out["cpio"] # Missing)
  BY <1>1, <1>2, Effect DEF CpioProgress
<1>6. "rm gz" \in Rest' \/ gz' = Missing
  BY <1>1, <1>2, Effect DEF CpioProgress
<1>7. "opensbi or keep" \in Rest' \/ opensbi' # Missing
  BY <1>1, <1>2, Effect DEF CpioProgress
<1>8. "dtb foreign" \in Rest' \/ "dtb default" \in Rest' \/ dtb'["initramfs"] # Missing
  BY <1>1, <1>2, Effect DEF CpioProgress
<1>9. "json cpio" \in Rest' \/ json'["initramfs"] = "cpio"
  BY <1>1, <1>2, Effect DEF CpioProgress
<1> QED BY <1>1, <1>3, <1>4, <1>5, <1>6, <1>7, <1>8, <1>9 DEF CpioProgress

LEMMA TempKeeps ==
  ASSUME TypeOK, Operate, TempProgress
  PROVE  TempProgress'
<1> DEFINE S == {"need Image", "need gz", "need opensbi", "dtb temp", "json temp"}
<1>1. /\ Op \in Rest /\ Rest' \subseteq Rest /\ \A x \in Rest : x = Op \/ x \in Rest'
      /\ First(todo', "need gz", "dtb temp") /\ (Op = "dtb temp" => "need gz" \notin Rest)
      /\ Rest \subseteq S
  BY Remaining DEF TempProgress
<1>2. Op \in S
  BY <1>1
<1>3. image' = image /\ gz' = gz /\ opensbi' = opensbi
  BY <1>2, Effect
<1>4. "need Image" \in Rest' \/ image' # Missing
  BY <1>1, <1>3, Effect DEF TempProgress
<1>5. "need gz" \in Rest' \/ gz' # Missing
  BY <1>1, <1>3, Effect DEF TempProgress
<1>6. "need opensbi" \in Rest' \/ opensbi' # Missing
  BY <1>1, <1>3, Effect DEF TempProgress
<1>7. "dtb temp" \in Rest' \/ dtb'["temp"] # Missing
  BY <1>1, <1>2, Effect DEF TempProgress
<1>8. "json temp" \in Rest' \/ json'["temp"] = "gz"
  BY <1>1, <1>2, Effect DEF TempProgress
<1> QED BY <1>1, <1>4, <1>5, <1>6, <1>7, <1>8 DEF TempProgress

LEMMA SdrootKeeps ==
  ASSUME TypeOK, Operate, SdrootProgress
  PROVE  SdrootProgress'
<1> DEFINE S == {"need Image", "need opensbi", "dtb sdroot", "json sdroot"}
<1>1. /\ Op \in Rest /\ Rest' \subseteq Rest /\ \A x \in Rest : x = Op \/ x \in Rest'
      /\ Rest \subseteq S
  BY Remaining DEF SdrootProgress
<1>2. Op \in S
  BY <1>1
<1>3. image' = image /\ opensbi' = opensbi
  BY <1>2, Effect
<1>4. "need Image" \in Rest' \/ image' # Missing
  BY <1>1, <1>3, Effect DEF SdrootProgress
<1>5. "need opensbi" \in Rest' \/ opensbi' # Missing
  BY <1>1, <1>3, Effect DEF SdrootProgress
<1>6. "dtb sdroot" \in Rest' \/ dtb'["sdroot"] # Missing
  BY <1>1, <1>2, Effect DEF SdrootProgress
<1>7. "json sdroot" \in Rest' \/ json'["sdroot"] = "no rootfs"
  BY <1>1, <1>2, Effect DEF SdrootProgress
<1> QED BY <1>1, <1>4, <1>5, <1>6, <1>7 DEF SdrootProgress

LEMMA OperateKeeps ==
  ASSUME IInv, Operate
  PROVE  IInv'
<1>1. /\ TypeOK /\ OutputOfMake /\ Progress
  BY DEF IInv
<1>2. /\ image' \in Nat /\ opensbi' \in Nat /\ gz' \in Nat /\ cpio' \in Nat
      /\ dtb' \in [Flavour -> Nat]
      /\ json' \in [Flavour -> {"missing", "gz", "cpio", "no rootfs"}]
      /\ todo # <<>> /\ build' = build /\ left' = left /\ out' = out /\ script' = script
  BY <1>1, Effect
<1>3. TypeOK' /\ OutputOfMake'
  BY <1>1, <1>2, Remaining DEF TypeOK, OutputOfMake
<1>4. Progress'
  <2>1. script' # "none"
    BY <1>1, <1>2 DEF Progress
  <2> QED BY <1>1, <1>2, <2>1, GzKeeps, CpioKeeps, TempKeeps, SdrootKeeps DEF Progress
<1>5. script # "none"
  BY <1>1, <1>2 DEF Progress
<1>6. Kept'
  BY <1>2, <1>5 DEF Kept
<1> QED BY <1>3, <1>4, <1>6 DEF IInv

-----------------------------------------------------------------------------
(* A script returns, or is broken off; a make runs *)

\* With nothing left to do the files fit together.
LEMMA ReturnKeeps ==
  ASSUME IInv, Return
  PROVE  IInv'
<1>1. /\ TypeOK /\ OutputOfMake /\ Progress
  BY DEF IInv
<1>2. /\ build' = build /\ left' = left /\ out' = out
      /\ image' = image /\ opensbi' = opensbi /\ gz' = gz /\ cpio' = cpio
      /\ dtb' = dtb /\ json' = json /\ todo' = todo
      /\ script' = "none" /\ done' = script /\ todo = <<>>
  BY DEF Return, files, buildroot
<1>3. TypeOK' /\ OutputOfMake' /\ Progress'
  BY <1>1, <1>2 DEF TypeOK, OutputOfMake, Progress
<1>4. Rest = {}
  BY <1>2, ShortLists DEF Rest
<1>6. script \in {"post-image", "collect"} => Whole
  <2>1. ASSUME GzProgress("opensbi") \/ GzProgress("opensbi or keep") PROVE Whole
    BY <1>4, <2>1 DEF GzProgress, Whole, Rootfs
  <2>2. ASSUME CpioProgress, out["gz"] = Missing PROVE Whole
    BY <1>4, <2>2 DEF CpioProgress, Whole, Rootfs
  <2> QED BY <1>1, <2>1, <2>2 DEF Progress
<1>7. script = "prepare_temp" => Loadable("temp")
  BY <1>1, <1>4 DEF Progress, TempProgress, Loadable, Rootfs
<1>8. script = "prepare_sdroot" => Loadable("sdroot")
  BY <1>1, <1>4 DEF Progress, SdrootProgress, Loadable
<1>9. /\ Whole' <=> Whole
      /\ Loadable("temp")' <=> Loadable("temp")
      /\ Loadable("sdroot")' <=> Loadable("sdroot")
  BY <1>2 DEF Whole, Loadable, Rootfs
<1>10. Kept'
  BY <1>2, <1>6, <1>7, <1>8, <1>9 DEF Kept
<1> QED BY <1>3, <1>10 DEF IInv

LEMMA MakeKeeps ==
  ASSUME IInv, StartMake \/ Make \/ EndMake
  PROVE  IInv'
<1>1. /\ TypeOK /\ OutputOfMake /\ Progress /\ Kept
  BY DEF IInv
<1>2. /\ image' = image /\ opensbi' = opensbi /\ gz' = gz /\ cpio' = cpio
      /\ dtb' = dtb /\ json' = json
  BY DEF StartMake, Make, EndMake, files
<1>3. CASE StartMake
  <2>1. PICK made \in SUBSET Output :
           "Image" \in made /\ made \cap {"gz", "cpio"} # {} /\ left' = made
    BY <1>3 DEF StartMake
  <2>2. /\ script = "none" /\ script' = "make" /\ build' = build + 1 /\ out' = out
        /\ todo' = todo /\ done' = done
    BY <1>3 DEF StartMake
  <2>3. TypeOK'
    <3>1. build \in Nat
      BY <1>1 DEF TypeOK
    <3>2. build' \in Nat
      BY <2>2, <3>1
    <3>3. left' \subseteq Output
      BY <2>1
    <3> QED BY <1>1, <1>2, <2>2, <3>2, <3>3 DEF TypeOK
  <2>4. OutputOfMake'
    BY <2>1 DEF OutputOfMake
  <2> QED BY <1>1, <2>2, <2>3, <2>4 DEF IInv, Progress, Kept
<1>4. CASE Make
  <2>1. PICK f \in left : out' = [out EXCEPT ![f] = build] /\ left' = left \ {f}
    BY <1>4 DEF Make
  <2>2. /\ script = "make" /\ script' = script /\ build' = build
        /\ todo' = todo /\ done' = done
    BY <1>4 DEF Make
  <2>3. f \in Output /\ build \in Nat /\ out \in [Output -> Nat]
    BY <1>1 DEF TypeOK
  <2>4. /\ out' \in [Output -> Nat] /\ left' \subseteq Output
        /\ \A g \in Output : out'[g] = IF g = f THEN build ELSE out[g]
    BY <1>1, <2>1, <2>3 DEF TypeOK
  <2>5. TypeOK'
    BY <1>1, <1>2, <2>2, <2>4 DEF TypeOK
  <2>6. OutputOfMake'
    <3>1. "Image" \in Output /\ "gz" \in Output /\ "cpio" \in Output
      BY DEF Output
    <3>2. "Image" \in left' \/ out'["Image"] = build
      BY <1>1, <2>1, <2>4, <3>1 DEF OutputOfMake
    <3>3. left' \cap {"gz", "cpio"} # {} \/ out'["gz"] = build \/ out'["cpio"] = build
      <4>1. CASE f \in {"gz", "cpio"}
        BY <2>4, <3>1, <4>1
      <4>2. CASE f \notin {"gz", "cpio"}
        BY <1>1, <2>1, <2>4, <3>1, <4>2 DEF OutputOfMake
      <4> QED BY <4>1, <4>2
    <3> QED BY <2>2, <3>2, <3>3 DEF OutputOfMake
  <2> QED BY <1>1, <2>2, <2>5, <2>6 DEF IInv, Progress, Kept
<1>5. CASE EndMake
  <2>1. /\ script = "make" /\ build' = build /\ left' = left /\ out' = out
        /\ \/ script' = "post-image" /\ todo' = PostImage /\ done' = done
           \/ script' = "none" /\ done' = "make" /\ todo' = todo
    BY <1>5 DEF EndMake, buildroot
  <2>2. TypeOK' /\ OutputOfMake'
    BY <1>1, <1>2, <2>1, PostImageList DEF TypeOK, OutputOfMake, Script
  <2>3. CASE script' = "post-image" /\ todo' = PostImage /\ done' = done
    <3>1. GzProgress("opensbi")'
      BY <2>1, <2>3, PostImageList DEF GzProgress, Rest
    <3> QED BY <2>2, <2>3, <3>1 DEF IInv, Progress, Kept
  <2>4. CASE script' = "none" /\ done' = "make" /\ todo' = todo
    BY <1>1, <2>1, <2>2, <2>4 DEF IInv, Progress, Kept
  <2> QED BY <2>1, <2>3, <2>4
<1> QED BY <1>3, <1>4, <1>5

LEMMA OtherStepKeeps ==
  ASSUME IInv, BreakOff \/ UNCHANGED vars
  PROVE  IInv'
<1>1. /\ TypeOK /\ OutputOfMake /\ Progress /\ Kept
  BY DEF IInv
<1>2. /\ build' = build /\ left' = left /\ out' = out
      /\ image' = image /\ opensbi' = opensbi /\ gz' = gz /\ cpio' = cpio
      /\ dtb' = dtb /\ json' = json
  BY DEF BreakOff, vars, files, buildroot
<1>3. /\ Whole' <=> Whole
      /\ Loadable("temp")' <=> Loadable("temp")
      /\ Loadable("sdroot")' <=> Loadable("sdroot")
  BY <1>2 DEF Whole, Loadable, Rootfs
<1>5. CASE BreakOff
  <2>1. /\ script' = "none" /\ todo' = <<>> /\ done' = "broken off"
    BY <1>5 DEF BreakOff
  <2>2. TypeOK' /\ OutputOfMake'
    BY <1>1, <1>2, <2>1, ShortLists DEF TypeOK, OutputOfMake
  <2>3. Progress' /\ Kept'
    BY <2>1 DEF Progress, Kept
  <2> QED BY <2>2, <2>3 DEF IInv
<1>6. CASE UNCHANGED vars
  <2>1. todo' = todo /\ script' = script /\ done' = done
    BY <1>6 DEF vars
  <2>2. TypeOK' /\ OutputOfMake' /\ Kept'
    BY <1>1, <1>2, <1>3, <2>1 DEF TypeOK, OutputOfMake, Kept
  <2>3. Progress'
    <3>1. Rest' = Rest
      BY <2>1 DEF Rest
    <3>2. \A f \in {"opensbi", "opensbi or keep"} : GzProgress(f) => GzProgress(f)'
      BY <1>2, <2>1, <3>1 DEF GzProgress
    <3>3. /\ CpioProgress => CpioProgress'
          /\ TempProgress => TempProgress'
          /\ SdrootProgress => SdrootProgress'
      BY <1>2, <2>1, <3>1 DEF CpioProgress, TempProgress, SdrootProgress
    <3> QED BY <1>1, <1>2, <2>1, <3>2, <3>3 DEF Progress
  <2> QED BY <2>2, <2>3 DEF IInv
<1> QED BY <1>5, <1>6

LEMMA Initially == Init => IInv
BY DEF Init, IInv, TypeOK, OutputOfMake, Progress, Kept, Flavour, Missing, Output

-----------------------------------------------------------------------------
(***************************************************************************)
(* What the running script has still to do tells which files it has        *)
(* already replaced by those of the build it works on, and which file was  *)
(* there before it was used: the invariant behind the properties below.    *)
(***************************************************************************)
THEOREM Invariance == Spec => []IInv
<1>1. IInv /\ [Next]_vars => IInv'
  BY MakeKeeps, CallKeeps, OperateKeeps, ReturnKeeps, OtherStepKeeps DEF Next
<1> QED BY Initially, <1>1, PTL DEF Spec

(***************************************************************************)
(* After a post-image or a collect that succeeded, the map's device tree   *)
(* is the one made for the compressed rootfs beside it.                    *)
(***************************************************************************)
THEOREM DtbFitsRootfs == Spec => []InitrdEndMatches
<1>1. IInv => InitrdEndMatches
  BY DEF IInv, Kept, Whole, InitrdEndMatches
<1> QED BY Invariance, <1>1, PTL

(***************************************************************************)
(* Whatever scripts ran before, also half-way, one that succeeds leaves a  *)
(* map whose files load_images finds.                                      *)
(***************************************************************************)
THEOREM SuccessLeavesAll == Spec => []SuccessIsLoadable
<1>1. Whole => Loadable("initramfs")
  BY DEF Whole, Loadable, Rootfs
<1>2. IInv => SuccessIsLoadable
  BY <1>1 DEF IInv, Kept, SuccessIsLoadable
<1> QED BY Invariance, <1>2, PTL

(***************************************************************************)
(* A post-image or a collect leaves one rootfs, of the kind the map names. *)
(***************************************************************************)
THEOREM OneRootfsIsLeft == Spec => []OneRootfs
<1>1. Whole => /\ gz = Missing <=> json["initramfs"] = "cpio"
               /\ cpio = Missing <=> json["initramfs"] = "gz"
  BY DEF Whole, Rootfs
<1>2. IInv => OneRootfs
  BY <1>1 DEF IInv, Kept, OneRootfs
<1> QED BY Invariance, <1>2, PTL

(***************************************************************************)
(* A post-image or a collect leaves a kernel and a rootfs of one make,     *)
(* unless the last make was broken off before it had made all its images,  *)
(* or left a compressed rootfs of an older one in Buildroot's output.      *)
(***************************************************************************)
THEOREM KernelFitsRootfs == Spec => []KernelMatchesRootfs
<1>1. IInv => KernelMatchesRootfs
  <2> SUFFICES ASSUME IInv, Whole, left = {}, out["gz"] \in {Missing, build}
               PROVE  image = Rootfs("initramfs")
    BY DEF IInv, Kept, KernelMatchesRootfs
  <2>1. image = build /\ image # Missing
    BY DEF IInv, OutputOfMake, Whole
  <2>2. out["gz"] = build \/ out["cpio"] = build
    BY DEF IInv, OutputOfMake
  <2> QED BY <2>1, <2>2 DEF Whole, Rootfs
<1> QED BY Invariance, <1>1, PTL
==============================================================================
