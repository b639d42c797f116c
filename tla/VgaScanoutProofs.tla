--------------------------- MODULE VgaScanoutProofs ---------------------------
(***************************************************************************)
(* Proofs about VgaScanout, for every number of resets: as long as no      *)
(* write has failed, the order of the writes still to be made, together    *)
(* with what the registers hold, never lets a scanout run half configured. *)
(***************************************************************************)
EXTENDS VgaScanout, SequenceTheorems, TLAPS

Command == Reg \cup {"vtg on", "vtg off", "dma on", "dma off", "fill", "bar"}

\* Of these writes, w comes before the k-th.
Before(writes, w, k) == \E j \in 1..k - 1 : writes[j] = w

\* What a switch finds when its turn comes, and what a register does.
DmaInOrder(writes, held) ==
    \A k \in 1..Len(writes) : writes[k] = "dma on" =>
        \A r \in Dma : r \in held \/ Before(writes, r, k)

VtgInOrder(writes, held, fetching, filled) ==
    \A k \in 1..Len(writes) : writes[k] = "vtg on" =>
        /\ \A r \in Reg : r \in held \/ Before(writes, r, k)
        /\ (fetching /\ ~ Before(writes, "dma off", k)) \/ Before(writes, "dma on", k)
        /\ filled \/ Before(writes, "fill", k)

QuietInOrder(writes, syncing, fetching) ==
    \A k \in 1..Len(writes) : writes[k] \in Reg \cup {"dma off"} =>
        /\ ~ syncing \/ Before(writes, "vtg off", k)
        /\ ~ Before(writes, "vtg on", k) /\ ~ Before(writes, "dma on", k)
        /\ writes[k] \in Reg => ~ fetching \/ Before(writes, "dma off", k)

InOrder(writes, held, syncing, fetching, filled) ==
    /\ DmaInOrder(writes, held)
    /\ VtgInOrder(writes, held, fetching, filled)
    /\ QuietInOrder(writes, syncing, fetching)

TypeOK ==
    /\ preset \subseteq Reg
    /\ vtg \in BOOLEAN /\ dma \in BOOLEAN /\ drawn \in BOOLEAN /\ fb0 \in BOOLEAN
    /\ job \in Seq(Command)
    /\ failed \in BOOLEAN

\* The framebuffer console has drawn before the init script may run.
DrawnUnderLinux == fb0 => drawn

Starting == program \in {"start", "restart"} /\ fb0

SwitchesOnLast(writes) == writes # <<>> /\ writes[Len(writes)] = "vtg on"

\* A start has the switch for its last write, and prints OK behind it.
OkComesLast ==
    /\ job # <<>> => program # "none"
    /\ program \in {"start", "restart"} => board = "linux"
    /\ Starting => SwitchesOnLast(job) \/ (job = <<>> /\ vtg)
    /\ ok => program = "none" /\ board = "linux" /\ vtg

Orderly == /\ InOrder(job, preset, vtg, dma, drawn)
           /\ OkComesLast
           /\ Configured

IInv == TypeOK /\ DrawnUnderLinux /\ (failed \/ Orderly)

-----------------------------------------------------------------------------
(* The writes of the programs *)

\* The fifteen writes of Configure, one by one.
LEMMA ConfigureWrites ==
  /\ Configure \in Seq(Command)
  /\ Len(Configure) = 15
  /\ Configure[1] = "vtg off" /\ Configure[2] = "dma off"
  /\ Configure[3] = "HRES" /\ Configure[4] = "HSYNC_START"
  /\ Configure[5] = "HSYNC_END" /\ Configure[6] = "HSCAN"
  /\ Configure[7] = "VRES" /\ Configure[8] = "VSYNC_START"
  /\ Configure[9] = "VSYNC_END" /\ Configure[10] = "VSCAN"
  /\ Configure[11] = "BASE" /\ Configure[12] = "LENGTH" /\ Configure[13] = "LOOP"
  /\ Configure[14] = "dma on" /\ Configure[15] = "vtg on"
<1>1. /\ Quiesce \in Seq(Command) /\ Len(Quiesce) = 2
      /\ Quiesce[1] = "vtg off" /\ Quiesce[2] = "dma off"
  BY DEF Quiesce, Command
<1>2. /\ TimingWrites \in Seq(Command) /\ Len(TimingWrites) = 8
      /\ TimingWrites[1] = "HRES" /\ TimingWrites[2] = "HSYNC_START"
      /\ TimingWrites[3] = "HSYNC_END" /\ TimingWrites[4] = "HSCAN"
      /\ TimingWrites[5] = "VRES" /\ TimingWrites[6] = "VSYNC_START"
      /\ TimingWrites[7] = "VSYNC_END" /\ TimingWrites[8] = "VSCAN"
  BY DEF TimingWrites, Command, Reg, Timing
<1>3. /\ SwitchOn \in Seq(Command) /\ Len(SwitchOn) = 5
      /\ SwitchOn[1] = "BASE" /\ SwitchOn[2] = "LENGTH" /\ SwitchOn[3] = "LOOP"
      /\ SwitchOn[4] = "dma on" /\ SwitchOn[5] = "vtg on"
  BY DEF SwitchOn, Command, Reg, Dma
<1> DEFINE c == Quiesce \o TimingWrites
<1>4. /\ c \in Seq(Command) /\ Len(c) = 10
      /\ \A j \in 1..2 : c[j] = Quiesce[j]
      /\ \A j \in 3..10 : c[j] = TimingWrites[j - 2]
  <2>1. Quiesce \in Seq(Command) /\ TimingWrites \in Seq(Command)
    BY <1>1, <1>2
  <2>2. /\ c \in Seq(Command) /\ Len(c) = Len(Quiesce) + Len(TimingWrites)
        /\ \A j \in 1..Len(Quiesce) + Len(TimingWrites) :
              c[j] = IF j <= Len(Quiesce) THEN Quiesce[j] ELSE TimingWrites[j - Len(Quiesce)]
    BY <2>1, ConcatProperties
  <2>3. Len(Quiesce) = 2 /\ Len(TimingWrites) = 8
    BY <1>1, <1>2
  <2> HIDE DEF c
  <2>4. \A j \in 1..10 : c[j] = IF j <= 2 THEN Quiesce[j] ELSE TimingWrites[j - 2]
    BY <2>2, <2>3
  <2>5. \A j \in 1..2 : c[j] = Quiesce[j]
    BY <2>4
  <2>6. \A j \in 3..10 : c[j] = TimingWrites[j - 2]
    BY <2>4
  <2> QED BY <2>2, <2>3, <2>5, <2>6
<1>5. /\ Configure \in Seq(Command) /\ Len(Configure) = 15
      /\ \A j \in 1..10 : Configure[j] = c[j]
      /\ \A j \in 11..15 : Configure[j] = SwitchOn[j - 10]
  <2>1. Configure = c \o SwitchOn /\ c \in Seq(Command) /\ SwitchOn \in Seq(Command)
    BY <1>3, <1>4 DEF Configure
  <2> HIDE DEF c
  <2>2. /\ Configure \in Seq(Command) /\ Len(Configure) = Len(c) + Len(SwitchOn)
        /\ \A j \in 1..Len(c) + Len(SwitchOn) :
              Configure[j] = IF j <= Len(c) THEN c[j] ELSE SwitchOn[j - Len(c)]
    BY <2>1, ConcatProperties
  <2>3. Len(c) = 10 /\ Len(SwitchOn) = 5
    BY <1>3, <1>4
  <2>4. \A j \in 1..15 : Configure[j] = IF j <= 10 THEN c[j] ELSE SwitchOn[j - 10]
    BY <2>2, <2>3
  <2>5. \A j \in 1..10 : Configure[j] = c[j]
    BY <2>4
  <2>6. \A j \in 11..15 : Configure[j] = SwitchOn[j - 10]
    BY <2>4
  <2> QED BY <2>2, <2>3, <2>5, <2>6
<1> HIDE DEF c
<1>6. /\ Configure[1] = Quiesce[1] /\ Configure[2] = Quiesce[2]
      /\ \A j \in 3..10 : Configure[j] = TimingWrites[j - 2]
  BY <1>4, <1>5
<1>7. /\ Configure[3] = TimingWrites[1] /\ Configure[4] = TimingWrites[2]
      /\ Configure[5] = TimingWrites[3] /\ Configure[6] = TimingWrites[4]
      /\ Configure[7] = TimingWrites[5] /\ Configure[8] = TimingWrites[6]
      /\ Configure[9] = TimingWrites[7] /\ Configure[10] = TimingWrites[8]
  BY <1>6
<1>8. /\ Configure[11] = SwitchOn[1] /\ Configure[12] = SwitchOn[2]
      /\ Configure[13] = SwitchOn[3] /\ Configure[14] = SwitchOn[4]
      /\ Configure[15] = SwitchOn[5]
  BY <1>5
<1> QED BY <1>1, <1>2, <1>3, <1>5, <1>6, <1>7, <1>8

\* Where Configure switches, and where it sets each register.
LEMMA ConfigureShape ==
  /\ \A m \in 1..15 : /\ Configure[m] = "dma on" => m = 14
                      /\ Configure[m] = "vtg on" => m = 15
                      /\ Configure[m] \in Reg => m \in 3..13
                      /\ Configure[m] = "dma off" => m = 2
  /\ \A r \in Reg : \E m \in 3..13 : Configure[m] = r
  /\ \A r \in Dma : \E m \in 11..13 : Configure[m] = r
  /\ Configure[1] \notin Reg \cup {"dma off"}
<1>1. \A m \in 1..15 : /\ Configure[m] = "dma on" => m = 14
                       /\ Configure[m] = "vtg on" => m = 15
                       /\ Configure[m] \in Reg => m \in 3..13
                       /\ Configure[m] = "dma off" => m = 2
  <2> TAKE m \in 1..15
  <2>1. \/ m \in {3, 4, 5, 6, 7, 8, 9, 10} \/ m \in {11, 12, 13}
        \/ m = 1 \/ m = 2 \/ m = 14 \/ m = 15
    OBVIOUS
  <2>2. m \in {3, 4, 5, 6, 7, 8, 9, 10} => Configure[m] \in Timing
    BY ConfigureWrites, Zenon DEF Timing
  <2>3. m \in {11, 12, 13} => Configure[m] \in Dma
    BY ConfigureWrites, Zenon DEF Dma
  <2>4. m \in {3, 4, 5, 6, 7, 8, 9, 10} \/ m \in {11, 12, 13} => m \in 3..13
    OBVIOUS
  <2>5. m = 1 => Configure[m] = "vtg off"
    BY ConfigureWrites, Zenon
  <2>6. m = 2 => Configure[m] = "dma off"
    BY ConfigureWrites, Zenon
  <2>7. m = 14 => Configure[m] = "dma on"
    BY ConfigureWrites, Zenon
  <2>8. m = 15 => Configure[m] = "vtg on"
    BY ConfigureWrites, Zenon
  <2>9. \A w \in Reg : w # "vtg off" /\ w # "dma off" /\ w # "dma on" /\ w # "vtg on"
    BY DEF Reg, Timing, Dma
  <2>10. \A w : w \in Timing \/ w \in Dma => w \in Reg
    BY DEF Reg
  <2>11. /\ "vtg off" # "dma on" /\ "vtg off" # "vtg on" /\ "vtg off" # "dma off"
         /\ "dma off" # "dma on" /\ "dma off" # "vtg on" /\ "dma on" # "vtg on"
    OBVIOUS
  <2> HIDE DEF Reg, Timing, Dma
  <2> QED BY ONLY <2>1, <2>2, <2>3, <2>4, <2>5, <2>6, <2>7, <2>8, <2>9, <2>10, <2>11, Zenon
<1>2. \A r \in Dma : \E m \in 11..13 : Configure[m] = r
  <2>1. \A r \in Dma : r = Configure[11] \/ r = Configure[12] \/ r = Configure[13]
    BY ConfigureWrites, Zenon DEF Dma
  <2>2. 11 \in 11..13 /\ 12 \in 11..13 /\ 13 \in 11..13
    OBVIOUS
  <2> QED BY ONLY <2>1, <2>2, Zenon
<1>3. \A r \in Timing : \E m \in 3..10 : Configure[m] = r
  <2>1. \A r \in Timing :
          \/ r = Configure[3] \/ r = Configure[4] \/ r = Configure[5] \/ r = Configure[6]
          \/ r = Configure[7] \/ r = Configure[8] \/ r = Configure[9] \/ r = Configure[10]
    BY ConfigureWrites, Zenon DEF Timing
  <2>2. {3, 4, 5, 6, 7, 8, 9, 10} \subseteq 3..10
    OBVIOUS
  <2> QED BY ONLY <2>1, <2>2, Zenon
<1>4. Configure[1] \notin Reg \cup {"dma off"}
  BY ConfigureWrites DEF Reg, Timing, Dma
<1>5. \A r \in Reg : \E m \in 3..13 : Configure[m] = r
  <2>1. 11..13 \subseteq 3..13 /\ 3..10 \subseteq 3..13
    OBVIOUS
  <2> QED BY ONLY <1>2, <1>3, <2>1, Zenon DEF Reg
<1> QED BY <1>1, <1>2, <1>4, <1>5

\* Writes that switch nothing on, with the DMA off only after the timing
\* generator.
Harmless(writes, n) ==
    \A j \in 1..n : /\ writes[j] \in {"fill", "bar", "vtg off", "dma off"}
                    /\ writes[j] = "dma off" => Before(writes, "vtg off", j)

ThenConfigures(writes, n) ==
    /\ writes \in Seq(Command) /\ Len(writes) = n + 15
    /\ Harmless(writes, n)
    /\ \A j \in n + 1..n + 15 : writes[j] = Configure[j - n]

\* A program that configures, after other writes that switch nothing on, has
\* its writes in order, if there is a picture or it draws one first.
LEMMA ConfiguringInOrder ==
  ASSUME NEW s, NEW held, NEW syncing, NEW fetching, NEW filled,
         NEW n \in Nat, ThenConfigures(s, n),
         filled \/ \E j \in 1..n : s[j] = "fill"
  PROVE  InOrder(s, held, syncing, fetching, filled)
<1>a. Len(s) = n + 15
  BY DEF ThenConfigures
<1>b. \A j \in 1..n : s[j] \in {"fill", "bar", "vtg off", "dma off"}
  BY DEF ThenConfigures, Harmless
<1>c. \A j \in 1..n : s[j] = "dma off" => Before(s, "vtg off", j)
  BY DEF ThenConfigures, Harmless
<1>d. \A j \in n + 1..n + 15 : s[j] = Configure[j - n]
  BY DEF ThenConfigures
<1>1. \A m \in 1..15 : s[n + m] = Configure[m]
  <2>1. \A m \in 1..15 : n + m \in n + 1..n + 15 /\ (n + m) - n = m
    OBVIOUS
  <2> QED BY <1>d, <2>1
<1>2. \A k \in 1..n + 15 :
        k \in 1..n \/ k \in {n + 1, n + 2, n + 3, n + 4, n + 5, n + 6, n + 7, n + 8,
                             n + 9, n + 10, n + 11, n + 12, n + 13, n + 14, n + 15}
  OBVIOUS
<1>3. \A k \in 1..n + 15 :
        /\ s[k] = "dma on" => k = n + 14
        /\ s[k] = "vtg on" => k = n + 15
        /\ s[k] \in Reg => k > n + 2 /\ k < n + 14
        /\ s[k] = "dma off" => k < n + 3
  <2> TAKE k \in 1..n + 15
  <2>1. CASE k \in 1..n
    <3>1. s[k] \in {"fill", "bar", "vtg off", "dma off"}
      BY <1>b, <2>1
    <3>2. k < n + 3
      BY ONLY n \in Nat, <2>1
    <3> QED BY <3>1, <3>2 DEF Reg, Timing, Dma
  <2>2. CASE k \in {n + 1, n + 2, n + 3, n + 4, n + 5, n + 6, n + 7, n + 8,
                     n + 9, n + 10, n + 11, n + 12, n + 13, n + 14, n + 15}
    <3>1. PICK m \in 1..15 : k = n + m
      BY <2>2
    <3>2. s[k] = Configure[m]
      BY <1>1, <3>1
    <3>3. /\ Configure[m] = "dma on" => m = 14
          /\ Configure[m] = "vtg on" => m = 15
          /\ Configure[m] \in Reg => m \in 3..13
          /\ Configure[m] = "dma off" => m = 2
      BY ConfigureShape
    <3>4. /\ m = 14 => k = n + 14
          /\ m = 15 => k = n + 15
          /\ m \in 3..13 => k > n + 2 /\ k < n + 14
          /\ m = 2 => k < n + 3
      BY ONLY n \in Nat, m \in 1..15, <3>1
    <3> QED BY ONLY <3>2, <3>3, <3>4
  <2> QED BY <1>2, <2>1, <2>2
<1>s. /\ s[n + 1] = "vtg off" /\ s[n + 2] = "dma off" /\ s[n + 14] = "dma on"
      /\ s[n + 1] \notin Reg \cup {"dma off"}
  <2>1. /\ s[n + 1] = Configure[1] /\ s[n + 2] = Configure[2]
        /\ s[n + 14] = Configure[14]
    BY <1>1
  <2> QED BY ONLY <2>1, ConfigureWrites, ConfigureShape, Zenon
<1>4. DmaInOrder(s, held)
  <2> SUFFICES ASSUME NEW r \in Dma PROVE \E j \in 1..(n + 14) - 1 : s[j] = r
    BY <1>a, <1>3 DEF DmaInOrder, Before
  <2>1. PICK m \in 11..13 : Configure[m] = r
    BY ConfigureShape
  <2>2. m \in 1..15 /\ n + m \in 1..(n + 14) - 1
    OBVIOUS
  <2> QED BY ONLY <1>1, <2>1, <2>2, Zenon
<1>5. VtgInOrder(s, held, fetching, filled)
  <2>1. \A r \in Reg : \E j \in 1..(n + 15) - 1 : s[j] = r
    <3> TAKE r \in Reg
    <3>1. \E m \in 3..13 : s[n + m] = r
      <4>1. PICK m \in 3..13 : Configure[m] = r
        BY ConfigureShape
      <4>2. m \in 1..15
        OBVIOUS
      <4> QED BY <1>1, <4>1, <4>2
    <3>2. \A m \in 3..13 : n + m \in 1..(n + 15) - 1
      OBVIOUS
    <3> QED BY <3>1, <3>2
  <2>3. \E j \in 1..(n + 15) - 1 : s[j] = "dma on"
    <3>1. n + 14 \in 1..(n + 15) - 1
      OBVIOUS
    <3> QED BY ONLY <1>s, <3>1, Zenon
  <2>2. filled \/ \E j \in 1..(n + 15) - 1 : s[j] = "fill"
    <3>1. \A j \in 1..n : j \in 1..(n + 15) - 1
      OBVIOUS
    <3> QED BY <3>1
  <2> QED BY <1>a, <1>3, <2>1, <2>2, <2>3 DEF VtgInOrder, Before
<1>6. QuietInOrder(s, syncing, fetching)
  <2> SUFFICES ASSUME NEW k \in 1..n + 15, s[k] \in Reg \cup {"dma off"}
               PROVE  /\ Before(s, "vtg off", k)
                      /\ ~ Before(s, "vtg on", k) /\ ~ Before(s, "dma on", k)
                      /\ s[k] \in Reg => Before(s, "dma off", k)
    BY <1>a DEF QuietInOrder
  <2>1. k < n + 14 /\ (s[k] \in Reg => k > n + 2)
    <3>1. /\ s[k] \in Reg => k > n + 2 /\ k < n + 14
          /\ s[k] = "dma off" => k < n + 3
      BY <1>3
    <3>2. s[k] \in Reg \/ s[k] = "dma off"
      OBVIOUS
    <3>3. "dma off" \notin Reg
      BY DEF Reg, Timing, Dma
    <3>4. CASE s[k] \in Reg
      BY <3>1, <3>4
    <3>5. CASE s[k] = "dma off"
      <4>1. k < n + 3
        BY <3>1, <3>5
      <4>2. k < n + 14
        BY ONLY n \in Nat, k \in 1..n + 15, <4>1
      <4> QED BY ONLY <4>2, <3>3, <3>5, Zenon
    <3> QED BY <3>2, <3>4, <3>5
  <2>2. /\ \A j \in 1..k - 1 : j \in 1..n + 15 /\ j # n + 14 /\ j # n + 15
        /\ k > n + 1 => n + 1 \in 1..k - 1
        /\ k > n + 2 => n + 2 \in 1..k - 1
        /\ k = n + 1 \/ k \in 1..n \/ k > n + 1
    BY ONLY n \in Nat, k \in 1..n + 15, <2>1
  <2>3. ~ Before(s, "vtg on", k) /\ ~ Before(s, "dma on", k)
    BY ONLY <1>3, <2>2 DEF Before
  <2>4. s[k] \in Reg => Before(s, "dma off", k)
    BY ONLY <1>s, <2>1, <2>2 DEF Before
  <2>5. Before(s, "vtg off", k)
    <3>1. s[n + 1] = "vtg off" /\ k # n + 1
      BY <1>s
    <3>2. CASE k > n + 1
      BY ONLY <2>2, <3>1, <3>2 DEF Before
    <3>3. CASE k \in 1..n
      <4>1. s[k] \notin Reg
        BY <1>b, <3>3 DEF Reg, Timing, Dma
      <4> QED BY <1>c, <3>3, <4>1
    <3> QED BY ONLY <2>2, <3>1, <3>2, <3>3
  <2> QED BY <2>3, <2>4, <2>5
<1> QED BY <1>4, <1>5, <1>6 DEF InOrder

\* A program that neither configures nor switches on has its writes in order.
LEMMA HarmlessInOrder ==
  ASSUME NEW s \in Seq(Command),
         NEW held, NEW syncing, NEW fetching, NEW filled,
         Harmless(s, Len(s))
  PROVE  InOrder(s, held, syncing, fetching, filled)
<1>1. \A j \in 1..Len(s) :
         s[j] \notin Reg /\ s[j] # "dma on" /\ s[j] # "vtg on"
  BY DEF Reg, Timing, Dma, Harmless
<1>2. \A k \in 1..Len(s) : \A j \in 1..k - 1 : j \in 1..Len(s)
  <2>1. Len(s) \in Nat
    BY ONLY s \in Seq(Command)
  <2>2. \A m \in Nat : \A k \in 1..m : \A j \in 1..k - 1 : j \in 1..m
    BY ONLY TRUE
  <2> QED BY <2>1, <2>2
<1>3. \A k \in 1..Len(s) : ~ Before(s, "vtg on", k) /\ ~ Before(s, "dma on", k)
  BY <1>1, <1>2 DEF Before
<1> QED BY <1>1, <1>3 DEF InOrder, DmaInOrder, VtgInOrder, QuietInOrder, Harmless

\* No writes at all are in order.
LEMMA NothingInOrder ==
  ASSUME NEW held, NEW syncing, NEW fetching, NEW filled
  PROVE  <<>> \in Seq(Command) /\ InOrder(<<>>, held, syncing, fetching, filled)
BY DEF InOrder, DmaInOrder, VtgInOrder, QuietInOrder

\* Writes in front of Configure that switch nothing on.
LEMMA AheadOfConfigure ==
  ASSUME NEW f \in Seq(Command), Harmless(f, Len(f))
  PROVE  /\ ThenConfigures(f \o Configure, Len(f))
         /\ \A j \in 1..Len(f) : (f \o Configure)[j] = f[j]
<1> DEFINE n == Len(f)
           s == f \o Configure
<1>1. Configure \in Seq(Command) /\ Len(Configure) = 15 /\ n \in Nat
  <2>1. n \in Nat
    OBVIOUS
  <2> QED BY <2>1, ConfigureWrites
<1>2. /\ s \in Seq(Command) /\ Len(s) = n + Len(Configure)
      /\ \A j \in 1..n + Len(Configure) : s[j] = IF j <= n THEN f[j] ELSE Configure[j - n]
  BY <1>1, ConcatProperties
<1> HIDE DEF s, n
<1>3. /\ Len(s) = n + 15
      /\ \A j \in 1..n + 15 : s[j] = IF j <= n THEN f[j] ELSE Configure[j - n]
  BY <1>1, <1>2
<1>4. \A j \in 1..n : s[j] = f[j]
  BY <1>1, <1>3
<1>5. \A j \in n + 1..n + 15 : s[j] = Configure[j - n]
  BY <1>1, <1>3
<1>6. \A j \in 1..n : f[j] = "dma off" => Before(s, "vtg off", j)
  <2> SUFFICES ASSUME NEW j \in 1..n, f[j] = "dma off" PROVE Before(s, "vtg off", j)
    OBVIOUS
  <2>1. PICK i \in 1..j - 1 : f[i] = "vtg off"
    BY DEF n, Harmless, Before
  <2>2. n \in Nat
    BY <1>1
  <2>3. \A m \in 1..n : \A l \in 1..m - 1 : l \in 1..n
    BY ONLY <2>2
  <2> QED BY <1>4, <2>1, <2>3, Zenon DEF Before
<1>7. Harmless(s, n)
  BY <1>4, <1>6 DEF n, Harmless
<1> QED BY <1>2, <1>3, <1>4, <1>5, <1>7 DEF s, n, ThenConfigures

\* What fill_white and fill_bars write.
LEMMA FillsAreHarmless ==
  ASSUME NEW f \in {FillWhite, FillBars}
  PROVE  /\ f \in Seq(Command) /\ Harmless(f, Len(f))
         /\ \E j \in 1..Len(f) : f[j] = "fill"
<1>1. CASE f = FillWhite
  <2>1. f \in Seq(Command) /\ Len(f) = 1 /\ f[1] = "fill"
    BY <1>1 DEF FillWhite, Command
  <2>2. 1 \in 1..1 /\ \A j \in 1..1 : j = 1
    OBVIOUS
  <2> QED BY <2>1, <2>2, Zenon DEF Harmless
<1>2. CASE f = FillBars
  <2>1. /\ f \in Seq(Command) /\ Len(f) = 8
        /\ \A j \in 1..8 : f[j] = IF j = 8 THEN "fill" ELSE "bar"
    BY <1>2 DEF FillBars, Command
  <2>2. \A j \in 1..8 : f[j] \in {"fill", "bar"}
    BY <2>1
  <2>3. f[8] = "fill" /\ 8 \in 1..8
    BY <2>1
  <2> QED BY <2>1, <2>2, <2>3, Zenon DEF Harmless
<1> QED BY <1>1, <1>2

LEMMA QuiesceIsHarmless ==
  Quiesce \in Seq(Command) /\ Len(Quiesce) = 2 /\ Harmless(Quiesce, Len(Quiesce))
<1>1. /\ Quiesce \in Seq(Command) /\ Len(Quiesce) = 2
      /\ Quiesce[1] = "vtg off" /\ Quiesce[2] = "dma off"
  BY DEF Quiesce, Command
<1>2. \A j \in 1..2 : j = 1 \/ j = 2
  OBVIOUS
<1>3. 1 \in 1..2 - 1
  OBVIOUS
<1> QED BY <1>1, <1>2, <1>3, Zenon DEF Harmless, Before

\* What the tool and the script set out to write is in order: for the tool,
\* because it draws first; for the script, because the console has drawn.
LEMMA ToolInOrder ==
  ASSUME NEW fill \in {FillWhite, FillBars}, NEW no_config \in BOOLEAN,
         NEW held, NEW syncing, NEW fetching, NEW filled
  PROVE  /\ ToolWrites(fill, no_config) \in Seq(Command)
         /\ InOrder(ToolWrites(fill, no_config), held, syncing, fetching, filled)
<1>1. /\ fill \in Seq(Command) /\ Harmless(fill, Len(fill))
      /\ \E j \in 1..Len(fill) : fill[j] = "fill"
  BY FillsAreHarmless
<1>2. CASE no_config
  <2>1. ToolWrites(fill, no_config) = fill
    BY <1>1, <1>2 DEF ToolWrites
  <2> QED BY <1>1, <2>1, HarmlessInOrder
<1>3. CASE ~ no_config
  <2>1. ToolWrites(fill, no_config) = fill \o Configure
    BY <1>3 DEF ToolWrites
  <2>2. /\ ThenConfigures(fill \o Configure, Len(fill))
        /\ \E j \in 1..Len(fill) : (fill \o Configure)[j] = "fill"
    BY <1>1, AheadOfConfigure
  <2>3. Len(fill) \in Nat
    BY <1>1
  <2>4. InOrder(fill \o Configure, held, syncing, fetching, filled)
    BY <2>2, <2>3, ConfiguringInOrder
  <2> QED BY <2>1, <2>2, <2>4 DEF ThenConfigures
<1> QED BY <1>2, <1>3

\* The last of some writes is the switch.
LEMMA LastWrite ==
  ASSUME NEW s \in Seq(Command), NEW n \in Nat \ {0}, Len(s) = n, s[n] = "vtg on"
  PROVE  SwitchesOnLast(s)
<1>1. s # <<>>
  OBVIOUS
<1> QED BY <1>1 DEF SwitchesOnLast

LEMMA ScriptInOrder ==
  ASSUME NEW writes \in {Quiesce, StartWrites, Quiesce \o StartWrites},
         NEW held, NEW syncing, NEW fetching, NEW filled,
         fb0 => filled
  PROVE  /\ Guarded(writes) \in Seq(Command)
         /\ InOrder(Guarded(writes), held, syncing, fetching, filled)
         /\ fb0 /\ writes # Quiesce => SwitchesOnLast(Guarded(writes))
<1>1. CASE ~ fb0
  <2>1. Guarded(writes) = <<>>
    BY <1>1 DEF Guarded
  <2> QED BY <1>1, <2>1, NothingInOrder
<1>2. CASE fb0
  <2>1. Guarded(writes) = writes
    BY <1>2 DEF Guarded
  <2>2. CASE writes = Quiesce
    <3>1. InOrder(Quiesce, held, syncing, fetching, filled)
      BY QuiesceIsHarmless, HarmlessInOrder
    <3> QED BY <2>1, <2>2, <3>1, QuiesceIsHarmless
  <2>3. CASE writes = StartWrites
    <3>1. ThenConfigures(Configure, 0)
      <4>1. 0 + 15 = 15 /\ \A j \in 0 + 1..0 + 15 : j - 0 = j
        OBVIOUS
      <4>2. \A j \in 1..0 : FALSE
        OBVIOUS
      <4> QED BY <4>1, <4>2, ConfigureWrites, Zenon DEF ThenConfigures, Harmless
    <3>2. InOrder(Configure, held, syncing, fetching, filled)
      BY <1>2, <3>1, ConfiguringInOrder
    <3>3. SwitchesOnLast(Configure)
      <4>1. 15 \in Nat \ {0}
        OBVIOUS
      <4> QED BY <4>1, ConfigureWrites, LastWrite, Zenon
    <3> QED BY <2>1, <2>3, <3>2, <3>3, ConfigureWrites DEF StartWrites
  <2>4. CASE writes = Quiesce \o StartWrites
    <3>1. ThenConfigures(Quiesce \o Configure, Len(Quiesce))
      BY QuiesceIsHarmless, AheadOfConfigure
    <3>2. Len(Quiesce) \in Nat
      BY QuiesceIsHarmless
    <3>3. InOrder(Quiesce \o Configure, held, syncing, fetching, filled)
      BY <1>2, <3>1, <3>2, ConfiguringInOrder
    <3>4. SwitchesOnLast(Quiesce \o Configure)
      <4> DEFINE s == Quiesce \o Configure
      <4>1. /\ s \in Seq(Command) /\ Len(s) = Len(Quiesce) + 15
            /\ \A j \in Len(Quiesce) + 1..Len(Quiesce) + 15 : s[j] = Configure[j - Len(Quiesce)]
        BY <3>1 DEF ThenConfigures
      <4> HIDE DEF s
      <4>2. Len(Quiesce) = 2
        BY QuiesceIsHarmless
      <4>3. Len(s) = 17 /\ s[17] = Configure[15] /\ 17 \in Nat \ {0}
        BY <4>1, <4>2
      <4>4. s[17] = "vtg on"
        BY <4>3, ConfigureWrites, Zenon
      <4> QED BY <4>1, <4>3, <4>4, LastWrite, Zenon DEF s
    <3> QED BY <2>1, <2>4, <3>1, <3>3, <3>4 DEF StartWrites, ThenConfigures
  <2> QED BY <2>2, <2>3, <2>4
<1> QED BY <1>1, <1>2

-----------------------------------------------------------------------------
(* A write is made *)

\* What comes before a write of the rest came before it in the whole.
LEMMA BeforeInTail ==
  ASSUME NEW s \in Seq(Command), s # <<>>
  PROVE  /\ Tail(s) \in Seq(Command) /\ Head(s) = s[1] /\ 1 \in 1..Len(s)
         /\ \A w : ~ Before(s, w, 1)
         /\ \A k \in 1..Len(Tail(s)) :
               /\ k + 1 \in 1..Len(s) /\ Tail(s)[k] = s[k + 1]
               /\ \A w : Before(s, w, k + 1) <=> Head(s) = w \/ Before(Tail(s), w, k)
<1>1. /\ Tail(s) \in Seq(Command) /\ Head(s) = s[1] /\ Len(s) \in Nat /\ Len(s) # 0
      /\ Len(Tail(s)) = Len(s) - 1 /\ \A j \in 1..Len(s) - 1 : Tail(s)[j] = s[j + 1]
  OBVIOUS
<1>2. \A w : ~ Before(s, w, 1)
  BY DEF Before
<1>3. ASSUME NEW k \in 1..Len(Tail(s)), NEW w
      PROVE  Before(s, w, k + 1) <=> Head(s) = w \/ Before(Tail(s), w, k)
  <2>1. /\ (k + 1) - 1 = k /\ 1 \in 1..k
        /\ \A j \in 1..k : j = 1 \/ (j - 1 \in 1..k - 1 /\ (j - 1) + 1 = j)
        /\ \A j \in 1..k - 1 : j + 1 \in 1..k /\ j \in 1..Len(s) - 1
    BY <1>1
  <2>2. ASSUME NEW j \in 1..k, s[j] = w
        PROVE  Head(s) = w \/ Before(Tail(s), w, k)
    <3>1. CASE j = 1
      BY <1>1, <2>2, <3>1
    <3>2. CASE j # 1
      <4>1. j - 1 \in 1..k - 1 /\ Tail(s)[j - 1] = s[j]
        BY <1>1, <2>1, <3>2
      <4> QED BY <2>2, <4>1, Zenon DEF Before
    <3> QED BY <3>1, <3>2
  <2>3. ASSUME NEW j \in 1..k - 1, Tail(s)[j] = w
        PROVE  \E i \in 1..k : s[i] = w
    BY <1>1, <2>1, <2>3
  <2> QED BY <1>1, <2>1, <2>2, <2>3 DEF Before
<1>4. 1 \in 1..Len(s) /\ \A k \in 1..Len(Tail(s)) : k + 1 \in 1..Len(s)
  BY <1>1
<1> QED BY <1>1, <1>2, <1>3, <1>4

\* The registers and the commands that are none.
LEMMA NotRegisters ==
  \A r \in Reg : r # "vtg on" /\ r # "vtg off" /\ r # "dma on" /\ r # "dma off" /\ r # "fill"
BY DEF Reg, Timing, Dma

\* The first of the writes in order is made: the rest is in order, and nothing
\* runs half configured.
LEMMA WriteInOrder ==
  ASSUME TypeOK, InOrder(job, preset, vtg, dma, drawn), Configured,
         job # <<>>, job' = Tail(job), Effect(Head(job))
  PROVE  /\ InOrder(job', preset', vtg', dma', drawn')
         /\ Configured'
         /\ Head(job) \in Reg => ~ vtg /\ ~ dma
<1> DEFINE w == Head(job)
<1>t. /\ vtg \in BOOLEAN /\ dma \in BOOLEAN /\ drawn \in BOOLEAN
      /\ preset \subseteq Reg /\ job \in Seq(Command)
  BY DEF TypeOK
<1>1. /\ w = job[1] /\ 1 \in 1..Len(job) /\ \A v : ~ Before(job, v, 1)
      /\ \A k \in 1..Len(job') :
            /\ k + 1 \in 1..Len(job) /\ job'[k] = job[k + 1]
            /\ \A v : Before(job, v, k + 1) <=> w = v \/ Before(job', v, k)
  BY <1>t, BeforeInTail
<1>2. /\ w = "vtg on" => vtg' = TRUE
      /\ w = "vtg off" => vtg' = FALSE
      /\ w # "vtg on" /\ w # "vtg off" => vtg' = vtg
      /\ w = "dma on" => dma' = TRUE
      /\ w = "dma off" => dma' = FALSE
      /\ w # "dma on" /\ w # "dma off" => dma' = dma
      /\ w = "fill" => drawn'
      /\ drawn => drawn'
      /\ preset \subseteq preset'
      /\ w \in Reg => w \in preset' /\ preset' = preset \cup {w}
      /\ w \notin Reg => preset' = preset
  BY DEF Effect
<1>w. /\ "vtg on" # "vtg off" /\ "vtg on" # "dma on" /\ "vtg on" # "dma off"
      /\ "vtg off" # "dma on" /\ "vtg off" # "dma off" /\ "dma on" # "dma off"
  OBVIOUS
<1> HIDE DEF w
<1>d. DmaInOrder(job, preset) /\ VtgInOrder(job, preset, dma, drawn) /\ QuietInOrder(job, vtg, dma)
  BY DEF InOrder
<1>3. ASSUME NEW k \in 1..Len(job'), job'[k] = "dma on", NEW r \in Dma
      PROVE  r \in preset' \/ Before(job', r, k)
  <2>1. r \in preset \/ Before(job, r, k + 1)
    BY <1>1, <1>3, <1>d, Zenon DEF DmaInOrder
  <2>2. CASE w = r
    BY <1>2, <2>2, Zenon DEF Reg
  <2>3. CASE w # r
    BY <1>1, <1>2, <2>1, <2>3, Zenon
  <2> QED BY <2>2, <2>3
<1>4. ASSUME NEW k \in 1..Len(job'), job'[k] = "vtg on"
      PROVE  /\ \A r \in Reg : r \in preset' \/ Before(job', r, k)
             /\ (dma' /\ ~ Before(job', "dma off", k)) \/ Before(job', "dma on", k)
             /\ drawn' \/ Before(job', "fill", k)
  <2>1. /\ \A r \in Reg : r \in preset \/ Before(job, r, k + 1)
        /\ (dma /\ ~ Before(job, "dma off", k + 1)) \/ Before(job, "dma on", k + 1)
        /\ drawn \/ Before(job, "fill", k + 1)
    BY <1>1, <1>4, <1>d, Zenon DEF VtgInOrder
  <2>2. ASSUME NEW r \in Reg PROVE r \in preset' \/ Before(job', r, k)
    BY <1>1, <1>2, <2>1, Zenon
  <2>3. (dma' /\ ~ Before(job', "dma off", k)) \/ Before(job', "dma on", k)
    <3>1. CASE w = "dma on"
      <4>1. ~ Before(job', "dma off", k)
        <5>1. SUFFICES ASSUME NEW j \in 1..k - 1, job'[j] = "dma off" PROVE FALSE
          BY DEF Before
        <5>2. j \in 1..Len(job')
          <6>1. Len(job') \in Nat
            BY <1>t, BeforeInTail
          <6>2. \A m \in 1..Len(job') : \A l \in 1..m - 1 : l \in 1..Len(job')
            BY ONLY <6>1
          <6> QED BY <6>2
        <5>3. job[j + 1] = "dma off" /\ j + 1 \in 1..Len(job) /\ Before(job, "dma on", j + 1)
          BY <1>1, <3>1, <5>1, <5>2, Zenon
        <5> QED BY <1>d, <5>3, Zenon DEF QuietInOrder
      <4> QED BY <1>2, <3>1, <4>1
    <3>2. CASE w # "dma on"
      BY <1>1, <1>2, <2>1, <3>2, Zenon
    <3> QED BY <3>1, <3>2
  <2>4. drawn' \/ Before(job', "fill", k)
    BY <1>1, <1>2, <2>1, Zenon
  <2> QED BY <2>2, <2>3, <2>4
<1>5. ASSUME NEW k \in 1..Len(job'), job'[k] \in Reg \cup {"dma off"}
      PROVE  /\ ~ vtg' \/ Before(job', "vtg off", k)
             /\ ~ Before(job', "vtg on", k) /\ ~ Before(job', "dma on", k)
             /\ job'[k] \in Reg => ~ dma' \/ Before(job', "dma off", k)
  <2>1. /\ ~ vtg \/ Before(job, "vtg off", k + 1)
        /\ ~ Before(job, "vtg on", k + 1) /\ ~ Before(job, "dma on", k + 1)
        /\ job[k + 1] \in Reg => ~ dma \/ Before(job, "dma off", k + 1)
    BY <1>1, <1>5, <1>d, Zenon DEF QuietInOrder
  <2>2. w # "vtg on" /\ w # "dma on"
    BY <1>1, <2>1, Zenon
  <2>3. ~ vtg' \/ Before(job', "vtg off", k)
    BY <1>1, <1>2, <2>1, <2>2, Zenon
  <2>4. job'[k] \in Reg => ~ dma' \/ Before(job', "dma off", k)
    BY <1>1, <1>2, <2>1, <2>2, Zenon
  <2>5. ~ Before(job', "vtg on", k) /\ ~ Before(job', "dma on", k)
    BY <1>1, <2>1, Zenon
  <2> QED BY <2>3, <2>4, <2>5
<1>6. w \in Reg \cup {"dma off"} => ~ vtg
  BY <1>1, <1>d, Zenon DEF QuietInOrder
<1>7. w \in Reg => ~ dma
  BY <1>1, <1>d, Zenon DEF QuietInOrder
<1>8. dma' => Dma \subseteq preset'
  <2>1. CASE w = "dma on"
    BY <1>1, <1>2, <1>d, <2>1, Zenon DEF DmaInOrder
  <2>2. CASE w # "dma on"
    BY <1>2, <2>2 DEF Configured
  <2> QED BY <2>1, <2>2
<1>9. vtg' => Whole' /\ drawn'
  <2>1. CASE w = "vtg on"
    <3>1. Reg \subseteq preset /\ dma /\ drawn
      BY <1>1, <1>d, <2>1, Zenon DEF VtgInOrder
    <3>2. w \notin Reg
      BY <2>1, NotRegisters
    <3>3. dma' = dma
      BY <1>2, <1>w, <2>1, Zenon
    <3> QED BY <1>t, <1>2, <2>1, <3>1, <3>2, <3>3 DEF Whole
  <2>2. CASE w # "vtg on" /\ vtg'
    <3>1. vtg /\ w # "vtg off"
      BY <1>2, <2>2, Zenon
    <3>2. w \notin Reg /\ w # "dma off"
      BY <1>6, <3>1
    <3>3. Whole /\ drawn
      BY <3>1 DEF Configured
    <3>4. dma'
      BY <1>2, <3>2, <3>3, Zenon DEF Whole
    <3> QED BY <1>2, <2>2, <3>2, <3>3, <3>4 DEF Whole
  <2> QED BY <2>1, <2>2
<1>10. InOrder(job', preset', vtg', dma', drawn')
  BY <1>3, <1>4, <1>5, Zenon DEF InOrder, DmaInOrder, VtgInOrder, QuietInOrder
<1> QED BY <1>6, <1>7, <1>8, <1>9, <1>10 DEF Configured, w

-----------------------------------------------------------------------------
(* The invariant *)

LEMMA Initially == Init => IInv
BY NothingInOrder
DEF Init, IInv, TypeOK, DrawnUnderLinux, Orderly, OkComesLast, Starting, Configured

LEMMA RunKeeps ==
  ASSUME IInv, NEW name, NEW writes \in Seq(Command), Run(name, writes),
         InOrder(writes, preset, vtg, dma, drawn), name # "none",
         name \in {"start", "restart"} =>
            board = "linux" /\ (fb0 => SwitchesOnLast(writes)),
         failed \/ ~ ok'
  PROVE  IInv'
<1>1. /\ preset' = preset /\ vtg' = vtg /\ dma' = dma /\ drawn' = drawn /\ fb0' = fb0
      /\ job' = writes /\ program' = name /\ board' = board /\ failed' = failed
  BY DEF Run, csrs
<1>2. TypeOK' /\ DrawnUnderLinux'
  BY <1>1 DEF IInv, TypeOK, DrawnUnderLinux
<1>3. ASSUME Orderly, ~ ok' PROVE Orderly'
  <2>1. InOrder(job', preset', vtg', dma', drawn') /\ Configured'
    BY <1>1, <1>3 DEF Orderly, Configured, Whole
  <2>2. OkComesLast'
    <3>1. Starting' => SwitchesOnLast(job')
      BY <1>1 DEF Starting
    <3> QED BY <1>1, <1>3, <3>1 DEF OkComesLast
  <2> QED BY <2>1, <2>2 DEF Orderly
<1> QED BY <1>1, <1>2, <1>3 DEF IInv

LEMMA ToolKeeps == IInv /\ Tool => IInv'
<1> SUFFICES ASSUME IInv, Tool PROVE IInv'
  OBVIOUS
<1>1. PICK fill \in {FillWhite, FillBars}, no_config \in BOOLEAN :
         Run("tool", ToolWrites(fill, no_config))
  BY DEF Tool
<1>2. /\ ToolWrites(fill, no_config) \in Seq(Command)
      /\ InOrder(ToolWrites(fill, no_config), preset, vtg, dma, drawn)
  BY ToolInOrder
<1>3. failed \/ ~ ok'
  BY DEF Tool, IInv, Orderly, OkComesLast
<1> QED BY <1>1, <1>2, <1>3, RunKeeps

LEMMA ScriptKeeps == IInv /\ Script => IInv'
<1> SUFFICES ASSUME IInv, Script PROVE IInv'
  OBVIOUS
<1>1. board = "linux" /\ ok' = FALSE
  BY DEF Script
<1>2. fb0 => drawn
  BY DEF IInv, DrawnUnderLinux
<1>3. ASSUME NEW name \in {"start", "stop", "restart"},
             NEW writes \in {Quiesce, StartWrites, Quiesce \o StartWrites},
             Run(name, Guarded(writes)), name # "stop" => writes # Quiesce
      PROVE  IInv'
  <2>1. /\ Guarded(writes) \in Seq(Command)
        /\ InOrder(Guarded(writes), preset, vtg, dma, drawn)
        /\ fb0 /\ writes # Quiesce => SwitchesOnLast(Guarded(writes))
    BY <1>2, ScriptInOrder
  <2>2. name # "none" /\ (name \in {"start", "restart"} => writes # Quiesce)
    BY <1>3
  <2> QED BY <1>1, <1>3, <2>1, <2>2, RunKeeps
<1>4. StartWrites # Quiesce /\ Quiesce \o StartWrites # Quiesce
  <2>1. Len(Quiesce) = 2 /\ Quiesce \in Seq(Command)
    BY QuiesceIsHarmless
  <2>2. Len(StartWrites) = 15 /\ StartWrites \in Seq(Command)
    BY ConfigureWrites DEF StartWrites
  <2>3. Len(Quiesce \o StartWrites) = 17
    <3>1. Len(Quiesce \o StartWrites) = Len(Quiesce) + Len(StartWrites)
      BY <2>1, <2>2, ConcatProperties
    <3> QED BY <2>1, <2>2, <3>1
  <2> QED BY <2>1, <2>2, <2>3
<1>5. \/ Run("start", Guarded(StartWrites))
      \/ Run("stop", Guarded(Quiesce))
      \/ Run("restart", Guarded(Quiesce \o StartWrites))
  BY DEF Script
<1> QED BY <1>3, <1>4, <1>5

\* A write that takes effect, or one that fails.
LEMMA WriteKeeps ==
  ASSUME IInv, Write
  PROVE  IInv'
<1>1. /\ job # <<>> /\ job' = Tail(job) /\ job \in Seq(Command)
      /\ fb0' = fb0 /\ board' = board /\ program' = program /\ ok' = ok
  BY DEF Write, IInv, TypeOK
<1>2. job' \in Seq(Command)
  BY <1>1
<1>3. CASE Effect(Head(job)) /\ UNCHANGED failed
  <2>1. TypeOK' /\ DrawnUnderLinux'
    <3>1. /\ preset' \subseteq Reg /\ vtg' \in BOOLEAN /\ dma' \in BOOLEAN
          /\ drawn' \in BOOLEAN /\ fb0' \in BOOLEAN /\ failed' \in BOOLEAN
          /\ (fb0' => drawn')
      BY <1>1, <1>3 DEF Effect, IInv, TypeOK, DrawnUnderLinux
    <3> QED BY <1>2, <3>1 DEF TypeOK, DrawnUnderLinux
  <2>2. ASSUME Orderly PROVE Orderly'
    <3>1. InOrder(job', preset', vtg', dma', drawn') /\ Configured'
      BY <1>1, <1>3, <2>2, WriteInOrder DEF IInv, Orderly
    <3>2. program # "none" /\ ~ ok /\ (program \in {"start", "restart"} => board = "linux")
      BY <1>1, <2>2 DEF Orderly, OkComesLast
    <3>3. Starting' => SwitchesOnLast(job') \/ (job' = <<>> /\ vtg')
      <4> SUFFICES ASSUME Starting' PROVE SwitchesOnLast(job') \/ (job' = <<>> /\ vtg')
        OBVIOUS
      <4>1. job[Len(job)] = "vtg on"
        BY <1>1, <2>2 DEF Orderly, OkComesLast, Starting, SwitchesOnLast
      <4>2. CASE job' = <<>>
        <5>1. Head(job) = job[Len(job)]
          <6>1. Len(job) = 1 /\ Head(job) = job[1]
            <7>1. Len(job) \in Nat /\ Len(job) # 0 /\ Len(Tail(job)) = Len(job) - 1
              BY <1>1
            <7>2. Tail(job) = <<>>
              BY <1>1, <4>2
            <7>3. Len(<<>>) = 0
              OBVIOUS
            <7>4. Len(Tail(job)) = 0
              BY <7>2, <7>3, Zenon
            <7> QED BY <1>1, <7>1, <7>4
          <6> QED BY <6>1
        <5> QED BY <1>3, <4>1, <4>2, <5>1 DEF Effect
      <4>3. CASE job' # <<>>
        <5>1. job'[Len(job')] = job[Len(job)]
          BY <1>1, <4>3
        <5> QED BY <4>1, <4>3, <5>1 DEF SwitchesOnLast
      <4> QED BY <4>2, <4>3
    <3>4. OkComesLast'
      BY <1>1, <3>2, <3>3 DEF OkComesLast
    <3> QED BY <3>1, <3>4 DEF Orderly
  <2> QED BY <1>3, <2>1, <2>2 DEF IInv
<1>4. CASE failed' = TRUE /\ UNCHANGED <<csrs, drawn>>
  BY <1>1, <1>2, <1>4 DEF IInv, TypeOK, DrawnUnderLinux, csrs
<1> QED BY <1>3, <1>4 DEF Write

LEMMA QuietStepKeeps ==
  ASSUME IInv, Finish \/ BreakOff \/ BootLinux \/ Reset \/ UNCHANGED vars
  PROVE  IInv'
<1>1. CASE Finish
  <2>1. /\ program # "none" /\ job = <<>> /\ program' = "none"
        /\ ok' = (program \in {"start", "restart"} /\ fb0)
        /\ preset' = preset /\ vtg' = vtg /\ dma' = dma /\ drawn' = drawn
        /\ board' = board /\ fb0' = fb0 /\ job' = job /\ failed' = failed
    BY <1>1 DEF Finish, csrs
  <2>2. ASSUME Orderly PROVE Orderly'
    <3>1. ok' => board = "linux" /\ vtg
      BY <2>1, <2>2 DEF Orderly, OkComesLast, Starting, SwitchesOnLast
    <3>2. OkComesLast'
      BY <2>1, <3>1 DEF OkComesLast, Starting
    <3>3. InOrder(job', preset', vtg', dma', drawn') /\ Configured'
      BY <2>1, <2>2 DEF Orderly, Configured, Whole
    <3> QED BY <3>2, <3>3 DEF Orderly
  <2> QED BY <2>1, <2>2 DEF IInv, TypeOK, DrawnUnderLinux
<1>2. CASE BreakOff
  <2>1. /\ program = "tool" /\ program' = "none" /\ job' = <<>> /\ ok' = ok
        /\ preset' = preset /\ vtg' = vtg /\ dma' = dma /\ drawn' = drawn
        /\ board' = board /\ fb0' = fb0 /\ failed' = failed
    BY <1>2 DEF BreakOff, csrs
  <2>2. ASSUME Orderly PROVE Orderly'
    <3>1. OkComesLast'
      BY <2>1, <2>2 DEF Orderly, OkComesLast, Starting
    <3>2. InOrder(job', preset', vtg', dma', drawn') /\ Configured'
      BY <2>1, <2>2, NothingInOrder DEF Orderly, Configured, Whole
    <3> QED BY <3>1, <3>2 DEF Orderly
  <2> QED BY <2>1, <2>2, NothingInOrder DEF IInv, TypeOK, DrawnUnderLinux
<1>3. CASE BootLinux
  <2>1. /\ board = "bios" /\ program = "none" /\ board' = "linux"
        /\ job' = job /\ program' = program /\ ok' = ok
        /\ preset' = preset /\ vtg' = vtg /\ dma' = dma /\ failed' = failed
        /\ drawn' = (drawn \/ fb0') /\ fb0' \in BOOLEAN
    BY <1>3 DEF BootLinux, csrs
  <2>2. ASSUME Orderly PROVE Orderly'
    <3>1. InOrder(job', preset', vtg', dma', drawn')
      BY <2>1, <2>2 DEF Orderly, InOrder, VtgInOrder
    <3>2. OkComesLast' /\ Configured'
      BY <2>1, <2>2 DEF Orderly, OkComesLast, Starting, Configured, Whole
    <3> QED BY <3>1, <3>2 DEF Orderly
  <2> QED BY <2>1, <2>2 DEF IInv, TypeOK, DrawnUnderLinux
<1>4. CASE Reset
  BY <1>4, NothingInOrder
  DEF Reset, IInv, TypeOK, DrawnUnderLinux, Orderly, OkComesLast, Starting, Configured
<1>5. CASE UNCHANGED vars
  BY <1>5
  DEF vars, csrs, IInv, TypeOK, DrawnUnderLinux, Orderly, OkComesLast, Starting,
      SwitchesOnLast, Configured, Whole
<1> QED BY <1>1, <1>2, <1>3, <1>4, <1>5

-----------------------------------------------------------------------------
(***************************************************************************)
(* As long as no write has failed, every state has the writes still to be  *)
(* made in an order that suits what the registers hold: the invariant that *)
(* configure_vga_640x480 and the init script's start keep by their order.  *)
(***************************************************************************)
THEOREM Invariance == Spec => []IInv
<1>1. IInv /\ [Next]_vars => IInv'
  BY ToolKeeps, ScriptKeeps, WriteKeeps, QuietStepKeeps DEF Next
<1> QED BY Initially, <1>1, PTL DEF Spec

(***************************************************************************)
(* As long as no write has failed, and whatever the tool and the init      *)
(* script find and wherever they are broken off, the DMA never fetches and *)
(* the monitor never syncs with registers that are not all set, nor is     *)
(* what nobody has drawn scanned out, and OK is true when it is printed.   *)
(***************************************************************************)
THEOREM NothingHalfConfigured == Spec => []NeverHalfConfigured
<1>1. IInv => NeverHalfConfigured
  BY DEF IInv, Orderly, OkComesLast, NeverHalfConfigured, Configured
<1> QED BY Invariance, <1>1, PTL

(***************************************************************************)
(* As long as no write has failed, a timing or DMA register is written     *)
(* only while both the DMA and the timing generator are off.               *)
(***************************************************************************)
THEOREM QuietReprogramming == Spec => ReprogramsQuietly
<1> DEFINE A == (~ failed /\ job # <<>> /\ Head(job) \in Reg /\ job' = Tail(job))
                   => ~ vtg /\ ~ dma
<1>1. IInv => A
  <2> SUFFICES ASSUME IInv, ~ failed, job # <<>>, Head(job) \in Reg PROVE ~ vtg /\ ~ dma
    OBVIOUS
  <2>1. /\ Head(job) = job[1] /\ 1 \in 1..Len(job) /\ \A v : ~ Before(job, v, 1)
    BY BeforeInTail DEF IInv, TypeOK
  <2> QED BY <2>1, Zenon DEF IInv, Orderly, InOrder, QuietInOrder
<1> QED BY Invariance, <1>1, PTL DEF ReprogramsQuietly
==============================================================================
