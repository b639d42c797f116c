------------------------ MODULE LoaderHandshakeProofs ------------------------
(***************************************************************************)
(* Proofs about LoaderHandshake, for every number of resets, every length  *)
(* of the lines, every initial state of the board, whatever its other text *)
(* contains, and both timelinesses: what is under way in both directions   *)
(* tells how far the two ends are.                                         *)
(***************************************************************************)
EXTENDS LoaderHandshake, SequenceTheorems, TLAPS

Key   == {"CR", "Q", "serialboot", "magicAck"}
Token == {"menu", "magic", "litex", ">", "text"}

TypeOK ==
    /\ pc \in {"wait", "upload", "timedout"}
    /\ prompted \in BOOLEAN /\ commandSent \in BOOLEAN
    /\ misled \in BOOLEAN /\ stale \in BOOLEAN /\ timely \in BOOLEAN
    /\ chatter \subseteq PromptStrings
    /\ recent \subseteq Token
    /\ toBoard \in Seq(Key) /\ toHost \in Seq(Token)
    /\ board \in {"boot", "menu", "auto", "prompt", "explicit", "sfl", "sd"}

\* The strings that only a prompt of this board has.
Telling == PromptStrings \ chatter

\* After a prompt the board prints nothing but prompts, until a command.
PromptsLast(s, H) ==
    \A i, j \in 1..Len(s) : i < j /\ s[i] \in H => s[j] \in PromptStrings

\* Before the command is typed, any magic or prompt is acted on at once, and
\* nothing typed can bring the board into a loader.
Undecided ==
    ~ commandSent =>
        /\ pc # "upload" /\ ~ misled
        /\ "magic" \notin recent
        /\ Range(toBoard) \subseteq {"CR", "Q"}
        /\ board \notin {"explicit", "sfl"}

\* Part of a prompt still to be acted on is of one the board sits at.
PromptIsTrue ==
    ~ stale /\ ~ commandSent =>
        /\ Telling \cap (recent \cup Range(toHost)) # {} => board = "prompt"
        /\ Telling \cap recent # {} => Range(toHost) \subseteq PromptStrings
        /\ PromptsLast(toHost, Telling)

\* The command finds the board at its prompt, which leaves it for the loader.
CommandHeard == ~ misled /\ commandSent => board \in {"prompt", "explicit", "sfl"}

\* Nothing follows serialboot on the line that could cancel it, the command's
\* is the only magic, and only it is answered.
CommandLast(s) == \A i \in 1..Len(s) - 1 : s[i] # "serialboot"

InStep ==
    ~ misled /\ commandSent /\ timely =>
        /\ "menu" \notin recent \cup Range(toHost)
        /\ board = "prompt" =>
              /\ pc # "upload"
              /\ "magic" \notin recent \cup Range(toHost)
              /\ CommandLast(toBoard) /\ "magicAck" \notin Range(toBoard)
        /\ board = "explicit" =>
              \/ pc # "upload" /\ toBoard = <<>>
              \/ pc = "upload" /\ toBoard = <<"magicAck">>

IInv == /\ TypeOK /\ Undecided /\ PromptIsTrue
        /\ MisledOnlyIfStaleOrChatty /\ CommandHeard /\ InStep

-----------------------------------------------------------------------------
(* Sequences as the two lines use them *)

LEMMA ConcatRange ==
  ASSUME NEW S, NEW s \in Seq(S), NEW t \in Seq(S)
  PROVE  s \o t \in Seq(S) /\ Range(s \o t) = Range(s) \cup Range(t)
BY ConcatProperties, RangeConcatenation

LEMMA ShortRange == Range(<<>>) = {} /\ \A x : Range(<<x>>) = {x}
<1>1. Range(<<>>) = {}
  BY DEF Range
<1>2. ASSUME NEW x PROVE Range(<<x>>) = {x}
  <2>1. DOMAIN <<x>> = {1} /\ <<x>>[1] = x
    OBVIOUS
  <2> QED BY <2>1, Zenon DEF Range
<1> QED BY <1>1, <1>2

LEMMA AppendRange ==
  ASSUME NEW S, NEW s \in Seq(S), NEW x \in S
  PROVE  s \o <<x>> \in Seq(S) /\ Range(s \o <<x>>) = Range(s) \cup {x}
<1>1. <<x>> \in Seq(S)
  OBVIOUS
<1>2. s \o <<x>> \in Seq(S) /\ Range(s \o <<x>>) = Range(s) \cup Range(<<x>>)
  BY <1>1, ConcatRange, Zenon
<1>3. Range(<<x>>) = {x}
  BY ShortRange, Zenon
<1> QED BY ONLY <1>2, <1>3, Zenon

LEMMA TailRange ==
  ASSUME NEW S, NEW s \in Seq(S), s # <<>>
  PROVE  /\ Tail(s) \in Seq(S) /\ Range(Tail(s)) \subseteq Range(s)
         /\ Head(s) \in Range(s) /\ Head(s) \in S
<1>1. /\ Tail(s) \in Seq(S) /\ Len(s) \in Nat /\ Len(s) # 0 /\ Head(s) = s[1] /\ Head(s) \in S
      /\ DOMAIN s = 1..Len(s) /\ DOMAIN Tail(s) = 1..Len(s) - 1
      /\ \A j \in 1..Len(s) - 1 : Tail(s)[j] = s[j + 1]
  OBVIOUS
<1>2. 1 \in 1..Len(s) /\ \A j \in 1..Len(s) - 1 : j + 1 \in 1..Len(s)
  BY <1>1
<1>3. Head(s) \in Range(s)
  BY <1>1, <1>2, Zenon DEF Range
<1>4. ASSUME NEW x \in Range(Tail(s)) PROVE x \in Range(s)
  <2>1. PICK j \in 1..Len(s) - 1 : x = Tail(s)[j]
    BY <1>1, Zenon DEF Range
  <2> QED BY <1>1, <1>2, <2>1, Zenon DEF Range
<1> QED BY <1>1, <1>3, <1>4

\* A line cut in two, as by a read.
LEMMA CutRange ==
  ASSUME NEW S, NEW s \in Seq(S), NEW n \in 0..Len(s), NEW H
  PROVE  /\ SubSeq(s, 1, n) \in Seq(S) /\ SubSeq(s, n + 1, Len(s)) \in Seq(S)
         /\ Range(SubSeq(s, 1, n)) \subseteq Range(s)
         /\ Range(SubSeq(s, n + 1, Len(s))) \subseteq Range(s)
         /\ PromptsLast(s, H) =>
               /\ PromptsLast(SubSeq(s, n + 1, Len(s)), H)
               /\ H \cap Range(SubSeq(s, 1, n)) # {} =>
                     Range(SubSeq(s, n + 1, Len(s))) \subseteq PromptStrings
<1> DEFINE l == Len(s)
           a == SubSeq(s, 1, n)
           b == SubSeq(s, n + 1, l)
<1>1. /\ l \in Nat /\ n \in 0..l /\ DOMAIN s = 1..l
      /\ a \in Seq(S) /\ DOMAIN a = 1..n /\ \A j \in 1..n : a[j] = s[j]
      /\ b \in Seq(S) /\ DOMAIN b = 1..l - n /\ Len(b) = l - n
      /\ \A j \in 1..l - n : b[j] = s[j + n]
PROOF OBVIOUS
<1> HIDE DEF l, a, b
<1>2. /\ \A j \in 1..n : j \in 1..l
      /\ \A j \in 1..l - n : j + n \in 1..l
      /\ \A i \in 1..n : \A j \in 1..l - n : i < j + n
      /\ \A i, j \in 1..l - n : i < j => i + n < j + n
  BY <1>1
<1>3. Range(a) \subseteq Range(s) /\ Range(b) \subseteq Range(s)
  BY <1>1, <1>2, Zenon DEF Range
<1>4. PromptsLast(s, H) => PromptsLast(b, H)
  BY <1>1, <1>2, Zenon DEF PromptsLast, l
<1>5. PromptsLast(s, H) /\ H \cap Range(a) # {} => Range(b) \subseteq PromptStrings
  <2> SUFFICES ASSUME PromptsLast(s, H), NEW h \in H, h \in Range(a), NEW x \in Range(b)
               PROVE  x \in PromptStrings
    OBVIOUS
  <2>1. PICK i \in 1..n : a[i] = h
    BY <1>1, Zenon DEF Range
  <2>2. PICK j \in 1..l - n : x = b[j]
    BY <1>1, Zenon DEF Range
  <2>3. i \in 1..l /\ j + n \in 1..l /\ i < j + n /\ s[i] = h /\ x = s[j + n]
    BY <1>1, <1>2, <2>1, <2>2, Zenon
  <2> QED BY <2>3, Zenon DEF PromptsLast, l
<1> QED BY <1>1, <1>3, <1>4, <1>5 DEF l, a, b

\* Text printed after prompts has to be of prompts.
LEMMA AppendPrompts ==
  ASSUME NEW S, NEW s \in Seq(S), NEW t \in Seq(S), NEW H,
         PromptsLast(s, H), PromptsLast(t, H),
         H \cap Range(s) # {} => Range(t) \subseteq PromptStrings
  PROVE  PromptsLast(s \o t, H)
<1> DEFINE l == Len(s)
           m == Len(t)
           c == s \o t
<1>1. /\ l \in Nat /\ m \in Nat /\ DOMAIN s = 1..l /\ DOMAIN t = 1..m
      /\ Len(c) = l + m /\ \A j \in 1..l : c[j] = s[j]
      /\ \A j \in 1..l + m : j > l => c[j] = t[j - l]
  BY ConcatProperties
<1> HIDE DEF l, m, c
<1> SUFFICES ASSUME NEW i \in 1..l + m, NEW j \in 1..l + m, i < j, c[i] \in H
             PROVE  c[j] \in PromptStrings
  BY <1>1, Zenon DEF PromptsLast, c
<1>2. CASE j \in 1..l
  <2>1. i \in 1..l
    BY <1>1, <1>2
  <2> QED BY <1>1, <1>2, <2>1, Zenon DEF PromptsLast, l
<1>3. CASE j > l
  <2>1. j - l \in 1..m /\ c[j] = t[j - l]
    BY <1>1, <1>3
  <2>2. CASE i \in 1..l
    <3>1. c[i] \in Range(s) /\ t[j - l] \in Range(t)
      BY <1>1, <2>1, <2>2, Zenon DEF Range
    <3> QED BY <2>1, <3>1
  <2>3. CASE i > l
    <3>1. i - l \in 1..m /\ i - l < j - l /\ c[i] = t[i - l]
      BY <1>1, <2>3
    <3> QED BY <2>1, <3>1, Zenon DEF PromptsLast, m
  <2> QED BY <1>1, <2>2, <2>3
<1> QED BY <1>1, <1>2, <1>3

\* What the board prints in one step.
LEMMA Texts ==
  ASSUME NEW H
  PROVE  /\ \A x \in Token : /\ <<x>> \in Seq(Token) /\ Range(<<x>>) = {x}
                             /\ PromptsLast(<<x>>, H)
         /\ Prompt \in Seq(Token) /\ Range(Prompt) = PromptStrings
         /\ PromptsLast(Prompt, H)
<1>1. ASSUME NEW x \in Token
      PROVE  <<x>> \in Seq(Token) /\ Range(<<x>>) = {x} /\ PromptsLast(<<x>>, H)
  <2>1. <<x>> \in Seq(Token) /\ Len(<<x>>) = 1
    OBVIOUS
  <2>2. PromptsLast(<<x>>, H)
    BY <2>1 DEF PromptsLast
  <2> QED BY <2>1, <2>2, ShortRange, Zenon
<1>2. "litex" \in Token /\ ">" \in Token
  BY DEF Token
<1>3. Prompt = <<"litex">> \o <<">">>
  BY DEF Prompt
<1>4. Prompt \in Seq(Token) /\ Range(Prompt) = PromptStrings
  <2>1. Prompt \in Seq(Token) /\ Range(Prompt) = Range(<<"litex">>) \cup Range(<<">">>)
    <3>1. <<"litex">> \in Seq(Token) /\ <<">">> \in Seq(Token)
      BY <1>1, <1>2, Zenon
    <3> QED BY <1>3, <3>1, ConcatRange
  <2> QED BY <2>1, ShortRange DEF PromptStrings
<1>5. PromptsLast(Prompt, H)
  <2>1. Range(<<">">>) \subseteq PromptStrings
    BY ShortRange DEF PromptStrings
  <2> QED BY <1>1, <1>2, <1>3, <2>1, AppendPrompts, Zenon
<1> QED BY <1>1, <1>4, <1>5

LEMMA AppendCommand ==
  ASSUME NEW S, NEW s \in Seq(S), "serialboot" \notin Range(s)
  PROVE  CommandLast(s \o <<"serialboot">>)
<1> DEFINE l == Len(s)
           c == s \o <<"serialboot">>
<1>1. /\ l \in Nat /\ DOMAIN s = 1..l
      /\ Len(c) = l + 1 /\ \A j \in 1..l : c[j] = s[j]
  OBVIOUS
<1> HIDE DEF l, c
<1>2. \A i \in 1..(l + 1) - 1 : i \in 1..l
  BY <1>1
<1>3. CommandLast(c)
  BY <1>1, <1>2, Zenon DEF CommandLast, Range
<1> QED BY <1>3 DEF c

LEMMA TakeFromLine ==
  ASSUME NEW S, NEW s \in Seq(S), s # <<>>, CommandLast(s)
  PROVE  CommandLast(Tail(s)) /\ (Head(s) = "serialboot" => Tail(s) = <<>>)
<1> DEFINE l == Len(s)
           t == Tail(s)
<1>1. /\ l \in Nat /\ l # 0 /\ Len(t) = l - 1 /\ Head(s) = s[1] /\ t \in Seq(S)
      /\ \A j \in 1..l - 1 : t[j] = s[j + 1]
  OBVIOUS
<1>2. Len(t) = 0 => t = <<>>
  <2>1. t # <<>> => Len(t) \in Nat \ {0}
    BY <1>1, EmptySeq, Zenon
  <2> QED BY <2>1
<1> HIDE DEF l, t
<1>3. \A j \in 1..(l - 1) - 1 : j \in 1..l - 1 /\ j + 1 \in 1..l - 1
  BY <1>1
<1>4. CommandLast(t)
  BY <1>1, <1>3, Zenon DEF CommandLast, l
<1>5. l = 1 \/ 1 \in 1..l - 1
  BY <1>1
<1>6. Head(s) = "serialboot" => l = 1
  BY <1>1, <1>5, Zenon DEF CommandLast, l
<1>7. l = 1 => Len(t) = 0
  BY <1>1
<1> QED BY <1>2, <1>4, <1>6, <1>7 DEF t

-----------------------------------------------------------------------------
(* The script's iteration *)

\* What an iteration has seen, types of its own accord and leaves unread.
Seen(n)   == Record(n)
Typed(n)  == IF "menu" \in Seen(n) /\ ~ prompted THEN <<"Q">> ELSE <<>>
Unread(n) == SubSeq(toHost, n + 1, Len(toHost))

LEMMA Reading ==
  ASSUME TypeOK, NEW n \in 0..Len(toHost)
  PROVE  /\ Unread(n) \in Seq(Token) /\ Range(Unread(n)) \subseteq Range(toHost)
         /\ Seen(n) \subseteq recent \cup Range(toHost) /\ Seen(n) \subseteq Token
         /\ PromptsLast(toHost, Telling) =>
               /\ PromptsLast(Unread(n), Telling)
               /\ Telling \cap (Seen(n) \ recent) # {} => Range(Unread(n)) \subseteq PromptStrings
         /\ "menu" \notin Seen(n) => Typed(n) = <<>>
         /\ \A k \in {<<>>, <<"Q">>, Typed(n)} :
               toBoard \o k \in Seq(Key) /\ Range(toBoard \o k) \subseteq Range(toBoard) \cup {"Q"}
         /\ toBoard \o <<>> = toBoard
<1>1. toHost \in Seq(Token) /\ recent \subseteq Token /\ toBoard \in Seq(Key)
  BY DEF TypeOK
<1> DEFINE read == Range(SubSeq(toHost, 1, n))
<1>2. /\ Unread(n) \in Seq(Token) /\ Range(Unread(n)) \subseteq Range(toHost)
      /\ read \subseteq Range(toHost)
      /\ PromptsLast(toHost, Telling) =>
            /\ PromptsLast(Unread(n), Telling)
            /\ Telling \cap read # {} => Range(Unread(n)) \subseteq PromptStrings
  BY <1>1, CutRange, Zenon DEF Unread
<1>3. Range(toHost) \subseteq Token
  BY <1>1 DEF Range
<1>4. toBoard \o <<>> = toBoard
  BY <1>1
<1>5. toBoard \o <<"Q">> \in Seq(Key) /\ Range(toBoard \o <<"Q">>) = Range(toBoard) \cup {"Q"}
  <2>1. "Q" \in Key
    BY DEF Key
  <2> QED BY <1>1, <2>1, AppendRange
<1>6. Typed(n) = <<>> \/ Typed(n) = <<"Q">>
  BY DEF Typed
<1>7. \A k \in {<<>>, <<"Q">>, Typed(n)} :
         toBoard \o k \in Seq(Key) /\ Range(toBoard \o k) \subseteq Range(toBoard) \cup {"Q"}
  <2>1. TAKE k \in {<<>>, <<"Q">>, Typed(n)}
  <2>2. CASE k = <<>>
    BY <1>1, <1>4, <2>2
  <2>3. CASE k = <<"Q">>
    BY <1>5, <2>3
  <2> QED BY <1>6, <2>2, <2>3
<1>8. Seen(n) = read \ {"text"} \/ Seen(n) = recent \cup read
  BY DEF Seen, Record
<1>9. Seen(n) \subseteq recent \cup read
  BY <1>8, Zenon
<1> HIDE DEF read
<1>a. /\ Seen(n) \subseteq recent \cup Range(toHost) /\ Seen(n) \subseteq Token
      /\ Telling \cap (Seen(n) \ recent) # {} => Telling \cap read # {}
  BY <1>1, <1>2, <1>3, <1>9
<1>b. "menu" \notin Seen(n) => Typed(n) = <<>>
  BY DEF Typed
<1> QED BY <1>2, <1>4, <1>7, <1>a, <1>b

LEMMA IterateKeeps ==
  ASSUME IInv, NEW n \in 0..Len(toHost), Iterate(n)
  PROVE  IInv'
<1>1. /\ pc = "wait" /\ toHost' = Unread(n) /\ prompted' \in BOOLEAN
      /\ board' = board /\ chatter' = chatter /\ stale' = stale /\ timely' = timely
      /\ \/ CancelAutoBoot(Seen(n), Typed(n))
         \/ AckMagic(Seen(n), Typed(n))
         \/ TypeSerialboot(Seen(n), Typed(n))
         \/ Poll(Seen(n), Typed(n))
  BY DEF Iterate, bios, IInv, TypeOK, Seen, Typed, Unread
<1>2. /\ Unread(n) \in Seq(Token) /\ Range(Unread(n)) \subseteq Range(toHost)
      /\ Seen(n) \subseteq recent \cup Range(toHost) /\ Seen(n) \subseteq Token
      /\ PromptsLast(toHost, Telling) =>
            /\ PromptsLast(Unread(n), Telling)
            /\ Telling \cap (Seen(n) \ recent) # {} => Range(Unread(n)) \subseteq PromptStrings
      /\ "menu" \notin Seen(n) => Typed(n) = <<>>
      /\ \A k \in {<<>>, <<"Q">>, Typed(n)} :
            toBoard \o k \in Seq(Key) /\ Range(toBoard \o k) \subseteq Range(toBoard) \cup {"Q"}
      /\ toBoard \o <<>> = toBoard
  BY Reading, Zenon DEF IInv
<1>3. /\ TypeOK /\ Undecided /\ PromptIsTrue /\ CommandHeard /\ InStep
      /\ MisledOnlyIfStaleOrChatty
  BY DEF IInv
<1>h. Telling' = Telling
  BY <1>1 DEF Telling
\* What was seen of a true prompt is of one the board is at, with no more to read.
<1>p. ~ stale /\ ~ commandSent =>
         /\ PromptsLast(Unread(n), Telling)
         /\ Telling \cap (Seen(n) \cup Range(Unread(n))) # {} => board = "prompt"
         /\ Telling \cap Seen(n) # {} => Range(Unread(n)) \subseteq PromptStrings
  <2> SUFFICES ASSUME ~ stale, ~ commandSent
               PROVE  /\ PromptsLast(Unread(n), Telling)
                      /\ Telling \cap (Seen(n) \cup Range(Unread(n))) # {} => board = "prompt"
                      /\ Telling \cap Seen(n) # {} => Range(Unread(n)) \subseteq PromptStrings
    OBVIOUS
  <2>1. /\ Telling \cap (recent \cup Range(toHost)) # {} => board = "prompt"
        /\ Telling \cap recent # {} => Range(toHost) \subseteq PromptStrings
        /\ PromptsLast(toHost, Telling)
    BY <1>3, Zenon DEF PromptIsTrue
  <2> QED BY ONLY <1>2, <2>1
<1>k. "serialboot" \in Key /\ "magicAck" \in Key /\ "CR" \in Key
  BY DEF Key
\* The line with the iteration's own key, and with one thing more.
<1>m. \A x \in Key : /\ (toBoard \o Typed(n)) \o <<x>> \in Seq(Key)
                     /\ Range((toBoard \o Typed(n)) \o <<x>>) = Range(toBoard \o Typed(n)) \cup {x}
  BY <1>2, AppendRange
<1>4. CASE CancelAutoBoot(Seen(n), Typed(n))
  <2>1. PICK k \in {<<>>, <<"Q">>, Typed(n)} : toBoard' = toBoard \o k
    BY <1>4 DEF CancelAutoBoot
  <2>2. /\ ~ commandSent /\ pc' = pc /\ commandSent' = commandSent /\ misled' = misled
        /\ recent' = {}
    BY <1>4 DEF CancelAutoBoot
  <2>3. toBoard' \in Seq(Key) /\ Range(toBoard') \subseteq Range(toBoard) \cup {"Q"}
    BY <1>2, <2>1, Zenon
  <2>4. TypeOK'
    BY <1>1, <1>2, <1>3, <2>2, <2>3 DEF TypeOK
  <2>5. Undecided'
    BY <1>1, <1>3, <2>2, <2>3 DEF Undecided
  <2>6. PromptIsTrue'
    BY <1>1, <1>h, <1>p, <2>2 DEF PromptIsTrue
  <2> QED BY <1>1, <1>3, <2>2, <2>4, <2>5, <2>6
          DEF IInv, MisledOnlyIfStaleOrChatty, CommandHeard, InStep
<1>5. CASE AckMagic(Seen(n), Typed(n))
  <2>1. /\ "magic" \in Seen(n) /\ commandSent /\ commandSent' = commandSent /\ misled' = misled
        /\ toBoard' = toBoard \o Typed(n) \o <<"magicAck">>
        /\ pc' = "upload" /\ recent' = Seen(n)
    BY <1>5 DEF AckMagic
  <2>2. TypeOK'
    BY <1>1, <1>2, <1>3, <1>k, <1>m, <2>1 DEF TypeOK
  <2>3. CommandHeard'
    BY <1>1, <1>3, <2>1 DEF CommandHeard
  <2>4. InStep'
    <3> SUFFICES ASSUME ~ misled, timely
                 PROVE  /\ "menu" \notin recent' \cup Range(toHost')
                        /\ board # "prompt"
                        /\ board = "explicit" => toBoard' = <<"magicAck">>
      BY <1>1, <2>1 DEF InStep
    <3>1. "menu" \notin recent \cup Range(toHost)
      BY <1>3, <2>1 DEF InStep
    <3>2. "menu" \notin Seen(n) /\ board # "prompt" /\ (board = "explicit" => toBoard = <<>>)
      BY <1>1, <1>2, <1>3, <2>1, <3>1 DEF InStep
    <3>3. board = "explicit" => toBoard' = <<"magicAck">>
      <4>1. board = "explicit" => toBoard' = <<>> \o <<>> \o <<"magicAck">>
        BY <1>2, <2>1, <3>2
      <4>2. <<>> \o <<>> \o <<"magicAck">> = <<"magicAck">>
        OBVIOUS
      <4> QED BY <4>1, <4>2
    <3> QED BY <1>1, <1>2, <2>1, <3>1, <3>2, <3>3
  <2> QED BY <1>1, <1>3, <2>1, <2>2, <2>3, <2>4
          DEF IInv, Undecided, PromptIsTrue, MisledOnlyIfStaleOrChatty
<1>6. CASE TypeSerialboot(Seen(n), Typed(n))
  <2>1. /\ PromptStrings \subseteq Seen(n) /\ ~ commandSent /\ commandSent'
        /\ toBoard' = toBoard \o Typed(n) \o <<"serialboot">>
        /\ recent' = {} /\ pc' = pc /\ commandSent' = TRUE
        /\ misled' = ~ (board = "prompt" /\ Range(Unread(n)) \cap {"menu", "magic"} = {})
    BY <1>1, <1>6 DEF TypeSerialboot, AtPrompt
  <2>2. TypeOK'
    BY <1>1, <1>2, <1>3, <1>k, <1>m, <2>1 DEF TypeOK
  <2>3. Range(toBoard) \subseteq {"CR", "Q"} /\ board \notin {"explicit", "sfl"}
    BY <1>3, <2>1 DEF Undecided
  <2>5. MisledOnlyIfStaleOrChatty'
    <3> SUFFICES ASSUME ~ stale, ~ PromptStrings \subseteq chatter PROVE ~ misled'
      BY <1>1 DEF MisledOnlyIfStaleOrChatty
    <3>1. Telling \cap Seen(n) # {}
      BY <2>1 DEF Telling
    <3>2. board = "prompt" /\ Range(Unread(n)) \subseteq PromptStrings
      BY <1>p, <2>1, <3>1
    <3> QED BY <2>1, <3>2 DEF PromptStrings
  <2>6. CommandHeard'
    BY <1>1, <2>1 DEF CommandHeard
  <2>7. toBoard \o Typed(n) \in Seq(Key) /\ Range(toBoard \o Typed(n)) \subseteq {"CR", "Q"}
    <3>1. /\ toBoard \o Typed(n) \in Seq(Key)
          /\ Range(toBoard \o Typed(n)) \subseteq Range(toBoard) \cup {"Q"}
      BY <1>2, Zenon
    <3> QED BY ONLY <2>3, <3>1
  <2>8. CommandLast(toBoard') /\ "magicAck" \notin Range(toBoard')
    <3>1. "serialboot" \notin Range(toBoard \o Typed(n))
      BY <2>7
    <3>2. CommandLast(toBoard')
      BY <2>1, <2>7, <3>1, AppendCommand
    <3>3. Range(toBoard') = Range(toBoard \o Typed(n)) \cup {"serialboot"}
      BY <1>k, <1>m, <2>1
    <3> QED BY <2>7, <3>2, <3>3
  <2>9. InStep'
    <3> SUFFICES ASSUME ~ misled'
                 PROVE  "menu" \notin Range(Unread(n)) /\ "magic" \notin Range(Unread(n))
      BY <1>1, <2>1, <2>3, <2>8 DEF InStep
    <3> QED BY <2>1
  <2> QED BY <2>1, <2>2, <2>5, <2>6, <2>9 DEF IInv, Undecided, PromptIsTrue
<1>7. CASE Poll(Seen(n), Typed(n))
  <2>1. /\ "magic" \notin Seen(n)
        /\ recent' = Seen(n) /\ pc' = pc /\ commandSent' = commandSent /\ misled' = misled
        /\ \/ toBoard' = toBoard \o Typed(n)
           \/ ~ commandSent /\ toBoard' = toBoard \o Typed(n) \o <<"CR">>
    BY <1>7 DEF Poll
  <2>2. /\ toBoard' \in Seq(Key)
        /\ Range(toBoard') \subseteq Range(toBoard) \cup {"CR", "Q"}
    <3>1. CASE toBoard' = toBoard \o Typed(n)
      <4>1. toBoard' \in Seq(Key) /\ Range(toBoard') \subseteq Range(toBoard) \cup {"Q"}
        BY <1>2, <3>1, Zenon
      <4> QED BY ONLY <4>1
    <3>2. CASE toBoard' = toBoard \o Typed(n) \o <<"CR">>
      <4>1. Range(toBoard \o Typed(n)) \subseteq Range(toBoard) \cup {"Q"}
        BY <1>2, Zenon
      <4>2. toBoard' \in Seq(Key) /\ Range(toBoard') = Range(toBoard \o Typed(n)) \cup {"CR"}
        BY <1>k, <1>m, <3>2
      <4> QED BY ONLY <4>1, <4>2
    <3> QED BY <2>1, <3>1, <3>2
  <2>3. TypeOK'
    BY <1>1, <1>2, <1>3, <2>1, <2>2 DEF TypeOK
  <2>4. Undecided'
    <3> SUFFICES ASSUME ~ commandSent
                 PROVE  Range(toBoard') \subseteq {"CR", "Q"}
      BY <1>1, <1>3, <2>1 DEF Undecided
    <3>1. Range(toBoard) \subseteq {"CR", "Q"}
      BY <1>3 DEF Undecided
    <3> QED BY <2>2, <3>1
  <2>5. PromptIsTrue'
    BY <1>1, <1>h, <1>p, <2>1 DEF PromptIsTrue
  <2>6. CommandHeard' /\ MisledOnlyIfStaleOrChatty'
    BY <1>1, <1>3, <2>1 DEF CommandHeard, MisledOnlyIfStaleOrChatty
  <2>7. InStep'
    <3> SUFFICES ASSUME ~ misled, commandSent, timely
                 PROVE  InStep'
      BY <1>1, <2>1 DEF InStep
    <3>1. "menu" \notin recent \cup Range(toHost)
      BY <1>3 DEF InStep
    <3>2. toBoard' = toBoard
      BY <1>2, <2>1, <3>1
    <3>3. \A t : t \notin recent \cup Range(toHost) => t \notin recent' \cup Range(toHost')
      BY <1>1, <1>2, <2>1
    <3> QED BY <1>1, <1>3, <2>1, <3>1, <3>2, <3>3 DEF InStep
  <2> QED BY <2>3, <2>4, <2>5, <2>6, <2>7 DEF IInv
<1> QED BY <1>1, <1>4, <1>5, <1>6, <1>7

-----------------------------------------------------------------------------
(* The board's steps *)

\* What the board prints.
LEMMA Printing ==
  ASSUME TypeOK, NEW t \in Seq(Token)
  PROVE  /\ toHost \o t \in Seq(Token) /\ Range(toHost \o t) = Range(toHost) \cup Range(t)
         /\ /\ PromptsLast(toHost, Telling) /\ PromptsLast(t, Telling)
            /\ Telling \cap Range(toHost) # {} => Range(t) \subseteq PromptStrings
            => PromptsLast(toHost \o t, Telling)
<1>1. toHost \in Seq(Token)
  BY DEF TypeOK
<1> QED BY <1>1, ConcatRange, AppendPrompts

\* The boot sequence and the systems it starts, which run on when nobody has
\* typed a command, or the script was misled.
LEMMA OnItsOwn ==
  ASSUME IInv, UNCHANGED <<script, toBoard, told, chatter, timely>>,
         board \in {"boot", "menu", "auto", "sd"},
         board' \in {"boot", "menu", "auto", "sd", "prompt"},
         NEW t \in Seq(Token), toHost' = toHost \o t, PromptsLast(t, Telling),
         Telling \cap Range(t) # {} => board' = "prompt"
  PROVE  IInv'
<1>1. TypeOK /\ Undecided /\ PromptIsTrue /\ MisledOnlyIfStaleOrChatty /\ CommandHeard
  BY DEF IInv
<1>2. /\ pc' = pc /\ prompted' = prompted /\ commandSent' = commandSent /\ recent' = recent
      /\ misled' = misled /\ stale' = stale /\ chatter' = chatter
      /\ timely' = timely /\ toBoard' = toBoard /\ Telling' = Telling
  BY DEF script, told, Telling
<1>3. misled \/ ~ commandSent
  BY <1>1 DEF CommandHeard
<1>4. toHost' \in Seq(Token) /\ Range(toHost') = Range(toHost) \cup Range(t)
  BY <1>1, Printing
<1>5. TypeOK'
  BY <1>1, <1>2, <1>4 DEF TypeOK
<1>6. Undecided'
  BY <1>1, <1>2 DEF Undecided
<1>7. PromptIsTrue'
  <2> SUFFICES ASSUME ~ stale, ~ commandSent PROVE PromptIsTrue'
    BY <1>2 DEF PromptIsTrue
  <2>1. Telling \cap (recent \cup Range(toHost)) = {} /\ PromptsLast(toHost, Telling)
    BY <1>1 DEF PromptIsTrue
  <2>2. PromptsLast(toHost', Telling)
    BY <1>1, <2>1, Printing
  <2>3. Telling \cap (recent' \cup Range(toHost')) # {} => board' = "prompt"
    BY <1>2, <1>4, <2>1
  <2> QED BY <1>2, <2>1, <2>2, <2>3 DEF PromptIsTrue
<1>8. CommandHeard' /\ InStep' /\ MisledOnlyIfStaleOrChatty'
  BY <1>1, <1>2, <1>3 DEF CommandHeard, InStep, MisledOnlyIfStaleOrChatty
<1> QED BY <1>5, <1>6, <1>7, <1>8 DEF IInv

LEMMA BootSequenceKeeps ==
  ASSUME IInv, BootSequence
  PROVE  IInv'
<1>1. /\ UNCHANGED <<script, toBoard, told, chatter, timely>>
      /\ \/ board = "boot" /\ board' = "menu" /\ toHost' = toHost \o <<"menu">>
         \/ board \in {"boot", "menu"} /\ board' = "auto" /\ toHost' = toHost \o <<"magic">>
         \/ board = "auto" /\ board' = "sd" /\ toHost' = toHost \o <<>>
         \/ board = "auto" /\ board' = "prompt" /\ toHost' = toHost \o Prompt
  BY DEF BootSequence, Goto
<1>2. \A x \in {"menu", "magic"} : /\ <<x>> \in Seq(Token) /\ PromptsLast(<<x>>, Telling)
                                  /\ Telling \cap Range(<<x>>) = {}
  BY Texts DEF Token, Telling, PromptStrings
<1>3. <<>> \in Seq(Token) /\ PromptsLast(<<>>, Telling) /\ Range(<<>>) = {}
  BY ShortRange DEF PromptsLast
<1>4. Prompt \in Seq(Token) /\ PromptsLast(Prompt, Telling)
  BY Texts
<1> QED BY <1>1, <1>2, <1>3, <1>4, OnItsOwn

LEMMA ChatKeeps ==
  ASSUME IInv, Chat
  PROVE  IInv'
<1>1. PICK t \in chatter \cup {"text"} : toHost' = Append(toHost, t)
  BY DEF Chat
<1>2. t \in Token /\ t \notin Telling
  BY DEF IInv, TypeOK, Token, Telling, PromptStrings
<1>3. toHost' = toHost \o <<t>>
  BY <1>1 DEF IInv, TypeOK
<1>4. /\ board \in {"boot", "menu", "auto", "sd"} /\ board' = board
      /\ UNCHANGED <<script, toBoard, told, chatter, timely>>
  BY DEF Chat, bios
<1>5. <<t>> \in Seq(Token) /\ PromptsLast(<<t>>, Telling) /\ Range(<<t>>) = {t}
  BY <1>2, Texts
<1> QED BY <1>2, <1>3, <1>4, <1>5, OnItsOwn

LEMMA ExplicitTimeoutKeeps ==
  ASSUME IInv, ExplicitTimeout
  PROVE  IInv'
<1>1. /\ TypeOK /\ Undecided /\ MisledOnlyIfStaleOrChatty
  BY DEF IInv
<1>2. /\ pc' = pc /\ prompted' = prompted /\ commandSent' = commandSent /\ recent' = recent
      /\ misled' = misled /\ stale' = stale /\ chatter' = chatter
      /\ timely' = timely /\ toBoard' = toBoard
      /\ board = "explicit" /\ ~ timely /\ board' = "prompt"
      /\ toHost' = toHost \o Prompt
  BY DEF ExplicitTimeout, Goto, script, told
<1>3. commandSent
  BY <1>1, <1>2 DEF Undecided
<1>4. toHost' \in Seq(Token)
  BY <1>1, <1>2, Texts, Printing
<1>5. TypeOK'
  BY <1>1, <1>2, <1>4 DEF TypeOK
<1> QED BY <1>1, <1>2, <1>3, <1>5
        DEF IInv, Undecided, PromptIsTrue, MisledOnlyIfStaleOrChatty, CommandHeard, InStep

\* The next key is taken off the line.
LEMMA Taking ==
  ASSUME TypeOK, TakeKey
  PROVE  /\ toBoard' \in Seq(Key) /\ Range(toBoard') \subseteq Range(toBoard)
         /\ Head(toBoard) \in Range(toBoard)
         /\ CommandLast(toBoard) =>
               CommandLast(toBoard') /\ (Head(toBoard) = "serialboot" => toBoard' = <<>>)
         /\ toBoard # <<>>
         /\ toBoard = <<"magicAck">> => Head(toBoard) = "magicAck" /\ toBoard' = <<>>
<1>1. toBoard \in Seq(Key) /\ toBoard # <<>> /\ toBoard' = Tail(toBoard)
  BY DEF TypeOK, TakeKey
<1>2. toBoard = <<"magicAck">> => Head(toBoard) = "magicAck" /\ toBoard' = <<>>
  BY <1>1
<1>3. /\ toBoard' \in Seq(Key) /\ Range(toBoard') \subseteq Range(toBoard)
      /\ Head(toBoard) \in Range(toBoard)
  BY <1>1, TailRange
<1>4. CommandLast(toBoard) =>
         CommandLast(toBoard') /\ (Head(toBoard) = "serialboot" => toBoard' = <<>>)
  BY <1>1, TakeFromLine
<1> QED BY <1>1, <1>2, <1>3, <1>4

\* The board reads a key and stays at, or returns to, its prompt.
LEMMA BackAtPrompt ==
  ASSUME IInv, TakeKey, UNCHANGED <<script, told, chatter, timely>>,
         board \in {"prompt", "menu", "auto", "explicit"}, board' = "prompt",
         toHost' = toHost \o Prompt \/ (board = "prompt" /\ toHost' = toHost),
         board = "explicit" => Head(toBoard) = "Q"
  PROVE  IInv'
<1>1. /\ TypeOK /\ Undecided /\ PromptIsTrue /\ CommandHeard /\ InStep
      /\ MisledOnlyIfStaleOrChatty
  BY DEF IInv
<1>2. /\ pc' = pc /\ prompted' = prompted /\ commandSent' = commandSent /\ recent' = recent
      /\ misled' = misled /\ stale' = stale /\ chatter' = chatter /\ timely' = timely
      /\ Telling' = Telling
  BY DEF script, told, Telling
<1>3. /\ toBoard' \in Seq(Key) /\ Range(toBoard') \subseteq Range(toBoard)
      /\ CommandLast(toBoard) => CommandLast(toBoard')
      /\ toBoard # <<>>
      /\ toBoard = <<"magicAck">> => Head(toBoard) = "magicAck"
  BY <1>1, Taking
<1>4. /\ toHost' \in Seq(Token) /\ Range(toHost') \subseteq Range(toHost) \cup PromptStrings
      /\ PromptsLast(toHost, Telling) => PromptsLast(toHost', Telling)
  <2>1. CASE toHost' = toHost \o Prompt
    <3>1. Prompt \in Seq(Token) /\ Range(Prompt) = PromptStrings /\ PromptsLast(Prompt, Telling)
      BY Texts
    <3>2. /\ toHost' \in Seq(Token) /\ Range(toHost') = Range(toHost) \cup PromptStrings
          /\ PromptsLast(toHost, Telling) => PromptsLast(toHost', Telling)
      BY <1>1, <2>1, <3>1, Printing
    <3> QED BY ONLY <3>2
  <2>2. CASE toHost' = toHost
    BY <1>1, <2>2 DEF TypeOK
  <2> QED BY <2>1, <2>2
<1>5. TypeOK'
  BY <1>1, <1>2, <1>3, <1>4 DEF TypeOK
<1>6. Undecided'
  BY <1>1, <1>2, <1>3 DEF Undecided
<1>7. PromptIsTrue'
  <2> SUFFICES ASSUME ~ stale, ~ commandSent
               PROVE  /\ Telling \cap recent # {} => Range(toHost') \subseteq PromptStrings
                      /\ PromptsLast(toHost', Telling)
    BY <1>2 DEF PromptIsTrue
  <2>1. /\ Telling \cap recent # {} => Range(toHost) \subseteq PromptStrings
        /\ PromptsLast(toHost, Telling)
    BY <1>1 DEF PromptIsTrue
  <2> QED BY <1>4, <2>1
<1>8. CommandHeard' /\ MisledOnlyIfStaleOrChatty'
  BY <1>1, <1>2 DEF CommandHeard, MisledOnlyIfStaleOrChatty
<1>9. InStep'
  <2> SUFFICES ASSUME ~ misled, commandSent, timely PROVE InStep'
    BY <1>2 DEF InStep
  <2>1. board # "explicit"
    BY <1>1, <1>3 DEF InStep
  <2>2. board = "prompt"
    BY <1>1, <2>1 DEF CommandHeard
  <2>3. \A t \in {"menu", "magic"} :
           t \notin recent \cup Range(toHost) => t \notin recent' \cup Range(toHost')
    BY <1>2, <1>4 DEF PromptStrings
  <2> QED BY <1>1, <1>2, <1>3, <2>2, <2>3 DEF InStep
<1> QED BY <1>5, <1>6, <1>7, <1>8, <1>9 DEF IInv

\* The typed serialboot starts the command, which prints its magic.
LEMMA CommandStarts ==
  ASSUME IInv, TakeKey, board = "prompt", Head(toBoard) = "serialboot",
         Goto("explicit", <<"magic">>)
  PROVE  IInv'
<1>1. /\ TypeOK /\ Undecided /\ InStep /\ MisledOnlyIfStaleOrChatty /\ "magic" \in Token
  BY DEF IInv, Token
<1>2. /\ pc' = pc /\ prompted' = prompted /\ commandSent' = commandSent /\ recent' = recent
      /\ misled' = misled /\ stale' = stale /\ chatter' = chatter /\ timely' = timely
      /\ board' = "explicit" /\ toHost' = toHost \o <<"magic">>
  BY DEF Goto, script, told
<1>3. /\ toBoard' \in Seq(Key)
      /\ Head(toBoard) \in Range(toBoard)
      /\ CommandLast(toBoard) => toBoard' = <<>>
  BY <1>1, Taking
<1>4. toHost' \in Seq(Token) /\ Range(toHost') = Range(toHost) \cup {"magic"}
  BY <1>1, <1>2, Texts, Printing
<1>5. commandSent
  BY <1>1, <1>3 DEF Undecided
<1>6. TypeOK'
  BY <1>1, <1>2, <1>3, <1>4 DEF TypeOK
<1>7. InStep'
  <2> SUFFICES ASSUME ~ misled, timely
               PROVE  /\ "menu" \notin recent \cup Range(toHost')
                      /\ pc # "upload" /\ toBoard' = <<>>
    BY <1>2 DEF InStep
  <2> QED BY <1>1, <1>3, <1>4, <1>5 DEF InStep
<1> QED BY <1>1, <1>2, <1>5, <1>6, <1>7
        DEF IInv, Undecided, PromptIsTrue, MisledOnlyIfStaleOrChatty, CommandHeard

\* The ACK takes a board that waits for it into the loader.
LEMMA AckTaken ==
  ASSUME IInv, TakeKey, Head(toBoard) = "magicAck", Goto("sfl", <<>>)
  PROVE  IInv'
<1>1. /\ TypeOK /\ Undecided /\ InStep /\ MisledOnlyIfStaleOrChatty /\ "magic" \in Token
  BY DEF IInv, Token
<1>2. /\ pc' = pc /\ prompted' = prompted /\ commandSent' = commandSent /\ recent' = recent
      /\ misled' = misled /\ stale' = stale /\ chatter' = chatter /\ timely' = timely
      /\ board' = "sfl" /\ toHost' = toHost
  BY <1>1 DEF Goto, script, told, TypeOK
<1>3. toBoard' \in Seq(Key) /\ Head(toBoard) \in Range(toBoard)
  BY <1>1, Taking
<1>4. commandSent
  BY <1>1, <1>3 DEF Undecided
<1>5. TypeOK'
  BY <1>1, <1>2, <1>3 DEF TypeOK
<1>6. InStep'
  BY <1>1, <1>2 DEF InStep
<1> QED BY <1>1, <1>2, <1>4, <1>5, <1>6
        DEF IInv, Undecided, PromptIsTrue, MisledOnlyIfStaleOrChatty, CommandHeard

\* A key that the board ignores: it does not run the command then.
LEMMA KeyIgnored ==
  ASSUME IInv, TakeKey, Ignore,
         board \in {"menu", "auto", "explicit", "sd"},
         board = "explicit" => Head(toBoard) # "magicAck"
  PROVE  IInv'
<1>1. /\ TypeOK /\ Undecided /\ PromptIsTrue /\ CommandHeard /\ InStep
      /\ MisledOnlyIfStaleOrChatty
  BY DEF IInv
<1>2. /\ pc' = pc /\ prompted' = prompted /\ commandSent' = commandSent /\ recent' = recent
      /\ misled' = misled /\ stale' = stale /\ chatter' = chatter /\ timely' = timely
      /\ board' = board /\ toHost' = toHost /\ Telling' = Telling
  BY DEF Ignore, script, bios, told, Telling
<1>3. /\ toBoard' \in Seq(Key) /\ Range(toBoard') \subseteq Range(toBoard)
      /\ toBoard # <<>>
      /\ toBoard = <<"magicAck">> => Head(toBoard) = "magicAck"
  BY <1>1, Taking
<1>4. ~ (~ misled /\ commandSent /\ timely)
  BY <1>1, <1>3 DEF CommandHeard, InStep
<1>5. TypeOK'
  BY <1>1, <1>2, <1>3 DEF TypeOK
<1>6. Undecided'
  BY <1>1, <1>2, <1>3 DEF Undecided
<1>7. PromptIsTrue' /\ CommandHeard' /\ InStep' /\ MisledOnlyIfStaleOrChatty'
  BY <1>1, <1>2, <1>4 DEF PromptIsTrue, CommandHeard, InStep, MisledOnlyIfStaleOrChatty
<1> QED BY <1>5, <1>6, <1>7 DEF IInv

LEMMA ReadKeyKeeps ==
  ASSUME IInv, ReadKey
  PROVE  IInv'
<1>t. TakeKey
  BY DEF ReadKey
<1>1. CASE KeyAtPrompt(Head(toBoard))
  <2>1. board = "prompt"
    BY <1>1 DEF KeyAtPrompt
  <2>2. CASE Head(toBoard) = "serialboot" /\ Goto("explicit", <<"magic">>)
    BY <1>t, <2>1, <2>2, CommandStarts
  <2>3. CASE Goto("prompt", Prompt)
    BY <1>t, <2>1, <2>3, BackAtPrompt DEF Goto
  <2>4. CASE UNCHANGED <<script, toHost, board, resets, chatter, told, timely>>
    BY <1>t, <2>1, <2>4, BackAtPrompt
  <2> QED BY <1>1, <2>2, <2>3, <2>4 DEF KeyAtPrompt
<1>2. CASE KeyWhileWaiting(Head(toBoard))
  <2>1. board \in {"menu", "auto", "explicit"}
    BY <1>2 DEF KeyWhileWaiting
  <2>2. CASE Head(toBoard) = "Q" /\ Goto("prompt", Prompt)
    BY <1>t, <2>1, <2>2, BackAtPrompt DEF Goto
  <2>3. CASE Head(toBoard) = "magicAck" /\ Goto("sfl", <<>>)
    BY <1>t, <2>3, AckTaken
  <2>4. CASE Ignore /\ (board = "explicit" => Head(toBoard) # "magicAck")
    BY <1>t, <2>1, <2>4, KeyIgnored
  <2> QED BY <1>2, <2>2, <2>3, <2>4 DEF KeyWhileWaiting
<1>3. CASE board = "sd" /\ Ignore
  BY <1>t, <1>3, KeyIgnored
<1> QED BY <1>1, <1>2, <1>3 DEF ReadKey

LEMMA ResetKeeps ==
  ASSUME IInv, Reset
  PROVE  IInv'
<1>1. /\ TypeOK /\ Undecided /\ PromptIsTrue /\ MisledOnlyIfStaleOrChatty
  BY DEF IInv
<1>2. /\ pc' = pc /\ prompted' = prompted /\ commandSent' = commandSent /\ recent' = recent
      /\ timely' = timely /\ board' = "boot" /\ toHost' = toHost /\ toBoard' = <<>>
      /\ chatter' = chatter /\ Telling' = Telling
      /\ misled' = (misled \/ commandSent)
      /\ stale' = (stale \/ commandSent \/ Telling \cap (recent \cup Range(toHost)) # {})
  BY DEF Reset, script, Telling
<1>3. <<>> \in Seq(Key) /\ Range(<<>>) = {}
  BY ShortRange
<1>4. TypeOK'
  BY <1>1, <1>2, <1>3 DEF TypeOK
<1>5. Undecided'
  BY <1>1, <1>2, <1>3 DEF Undecided
<1>6. PromptIsTrue'
  <2>1. ~ stale' => Telling \cap (recent \cup Range(toHost)) = {} /\ ~ stale
    BY <1>2
  <2> QED BY <1>1, <1>2, <2>1 DEF PromptIsTrue
<1>7. MisledOnlyIfStaleOrChatty' /\ CommandHeard' /\ InStep'
  <2>1. /\ misled' => misled \/ stale'
        /\ stale => stale'
        /\ commandSent' => misled'
    BY <1>1, <1>2 DEF TypeOK
  <2> QED BY <1>1, <1>2, <2>1 DEF MisledOnlyIfStaleOrChatty, CommandHeard, InStep
<1> QED BY <1>4, <1>5, <1>6, <1>7 DEF IInv

LEMMA OtherStepKeeps ==
  ASSUME IInv, Deadline \/ UNCHANGED vars
  PROVE  IInv'
<1> USE DEF IInv, TypeOK, Undecided, PromptIsTrue, MisledOnlyIfStaleOrChatty,
            CommandHeard, InStep, Telling
<1>1. CASE Deadline
  BY <1>1 DEF Deadline, bios, told
<1>2. CASE UNCHANGED vars
  BY <1>2 DEF vars, script, bios, told
<1> QED BY <1>1, <1>2

LEMMA Initially == Init => IInv
<1> SUFFICES ASSUME Init PROVE IInv
  OBVIOUS
<1>1. /\ toBoard = <<"CR">> /\ toHost = <<>> /\ recent = {}
      /\ Range(toBoard) = {"CR"} /\ Range(toHost) = {}
      /\ toBoard \in Seq(Key) /\ toHost \in Seq(Token)
  BY ShortRange DEF Init, Key
<1>2. board \in {"boot", "prompt", "sd"} /\ timely \in BOOLEAN /\ chatter \subseteq PromptStrings
  BY HandshakeAssumption DEF Init
<1>3. PromptsLast(toHost, Telling)
  BY <1>1 DEF PromptsLast
<1> QED BY <1>1, <1>2, <1>3
        DEF Init, IInv, TypeOK, Undecided, PromptIsTrue, MisledOnlyIfStaleOrChatty,
            CommandHeard, InStep

-----------------------------------------------------------------------------
(***************************************************************************)
(* What the script has typed and read so far, and what is under way in     *)
(* both directions, tell how far the board can be: the invariant behind    *)
(* the four properties below.                                              *)
(***************************************************************************)
THEOREM Invariance == Spec => []IInv
<1>1. IInv /\ [Next]_vars => IInv'
  BY IterateKeeps, BootSequenceKeeps, ChatKeeps, ExplicitTimeoutKeeps, ReadKeyKeeps,
     ResetKeeps, OtherStepKeeps DEF Next, Settled
<1> QED BY Initially, <1>1, PTL DEF Spec

(***************************************************************************)
(* Whatever text the board prints and however often it is reset, serialboot*)
(* is typed at a prompt and not undone, unless a reset left something      *)
(* stale or the board's other text looks like a prompt.                    *)
(***************************************************************************)
THEOREM TypedAtPrompt == Spec => []MisledOnlyIfStaleOrChatty
<1>1. IInv => MisledOnlyIfStaleOrChatty
  BY DEF IInv
<1> QED BY Invariance, <1>1, PTL

(***************************************************************************)
(* However often the board is reset, a script that was not misled starts   *)
(* its upload only when the board is not on its way to the SD card.        *)
(***************************************************************************)
THEOREM NeverIntoSdBoot == Spec => []NoFramesIntoSdBoot
<1>1. IInv => NoFramesIntoSdBoot
  BY DEF IInv, Undecided, CommandHeard, NoFramesIntoSdBoot
<1> QED BY Invariance, <1>1, PTL

(***************************************************************************)
(* When no wait runs out, a script that was not misled and starts its      *)
(* upload finds the board in the loader, or with the ACK for it on the     *)
(* line.                                                                   *)
(***************************************************************************)
THEOREM OnlyToLoader == Spec => []FramesOnlyToLoader
<1>1. IInv => FramesOnlyToLoader
  <2> SUFFICES ASSUME IInv, timely, ~ misled, pc = "upload"
               PROVE  board = "sfl" \/ (board = "explicit" /\ "magicAck" \in Range(toBoard))
    BY DEF FramesOnlyToLoader
  <2>1. commandSent
    BY DEF IInv, Undecided
  <2>2. board = "sfl" \/ (board = "explicit" /\ toBoard = <<"magicAck">>)
    BY <2>1 DEF IInv, CommandHeard, InStep
  <2> QED BY <2>2, ShortRange
<1> QED BY Invariance, <1>1, PTL

(***************************************************************************)
(* A script that was not misled never ACKs an automatic boot.              *)
(***************************************************************************)
THEOREM AutoBootNotAcked == Spec => AutoAckedOnlyIfMisled
<1> DEFINE A == board = "auto" /\ board' = "sfl" => misled
<1>1. IInv /\ [Next]_vars => [A]_vars
  <2> SUFFICES ASSUME IInv, Next, ~ misled, board = "auto", board' = "sfl" PROVE FALSE
    OBVIOUS
  <2>1. ~ commandSent
    BY DEF IInv, CommandHeard
  <2>2. ReadKey
    BY DEF Next, Iterate, Deadline, BootSequence, Chat, ExplicitTimeout, Reset, Settled,
           Goto, bios, vars
  <2>3. Head(toBoard) = "magicAck" /\ TakeKey
    BY <2>2 DEF ReadKey, KeyAtPrompt, KeyWhileWaiting, Goto, Ignore, bios
  <2>4. "magicAck" \in Range(toBoard)
    BY <2>3, Taking DEF IInv
  <2> QED BY <2>1, <2>4 DEF IInv, Undecided
<1> QED BY Invariance, <1>1, PTL DEF Spec, AutoAckedOnlyIfMisled
==============================================================================
