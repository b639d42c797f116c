-------------------------- MODULE GatewareBuildProofs -------------------------
(***************************************************************************)
(* Proofs about GatewareBuild and the patcher of DtsPatch.                 *)
(***************************************************************************)
EXTENDS GatewareBuild, FiniteSetTheorems, TLAPS

-----------------------------------------------------------------------------
(* Sequences and the tests for substrings *)

\* Length and elements of a sequence after Append.
LEMMA AppendElements ==
  ASSUME NEW S, NEW s \in Seq(S), NEW e \in S
  PROVE  /\ Append(s, e) \in Seq(S)
         /\ Len(Append(s, e)) = Len(s) + 1
         /\ Append(s, e)[Len(s) + 1] = e
         /\ \A j \in 1..Len(s) : Append(s, e)[j] = s[j]
         /\ Len(s) \in Nat /\ DOMAIN s = 1..Len(s) /\ DOMAIN Append(s, e) = 1..Len(s) + 1
  OBVIOUS

\* A sequence, of whatever.
Sequence(s) == \E S : s \in Seq(S)

\* Append to a sequence of whatever: type and length.
LEMMA AppendSequence ==
  ASSUME NEW s, NEW e, Sequence(s)
  PROVE  /\ Sequence(Append(s, e)) /\ Len(Append(s, e)) = Len(s) + 1
         /\ Len(s) \in Nat /\ DOMAIN s = 1..Len(s) /\ DOMAIN Append(s, e) = 1..Len(s) + 1
<1>1. PICK S : s \in Seq(S) /\ e \in S
  <2>1. PICK T : s \in Seq(T)
    BY DEF Sequence
  <2>2. s \in Seq(T \cup {e}) /\ e \in T \cup {e}
    BY <2>1
  <2> QED BY <2>2
<1> QED BY <1>1, AppendElements DEF Sequence

\* Its elements.
LEMMA AppendAt ==
  ASSUME NEW s, NEW e, Sequence(s)
  PROVE  /\ Append(s, e)[Len(s) + 1] = e
         /\ \A j \in 1..Len(s) : Append(s, e)[j] = s[j]
<1>1. PICK S : s \in Seq(S) /\ e \in S
  <2>1. PICK T : s \in Seq(T)
    BY DEF Sequence
  <2>2. s \in Seq(T \cup {e}) /\ e \in T \cup {e}
    BY <2>1
  <2> QED BY <2>2
<1> QED BY <1>1, AppendElements

\* Its range.
LEMMA AppendRange ==
  ASSUME NEW s, NEW e, Sequence(s)
  PROVE  ToSet(Append(s, e)) = ToSet(s) \cup {e}
<1>1. ASSUME NEW x \in ToSet(Append(s, e)) PROVE x \in ToSet(s) \cup {e}
  <2>1. PICK j \in 1..Len(s) + 1 : x = Append(s, e)[j]
    BY AppendSequence DEF ToSet
  <2>2. j = Len(s) + 1 \/ j \in 1..Len(s)
    BY AppendSequence
  <2> QED BY <2>1, <2>2, AppendSequence, AppendAt DEF ToSet
<1>2. ASSUME NEW x \in ToSet(s) PROVE x \in ToSet(Append(s, e))
  <2>1. PICK j \in 1..Len(s) : x = s[j]
    BY AppendSequence DEF ToSet
  <2>2. j \in DOMAIN Append(s, e) /\ Append(s, e)[j] = x
    BY <2>1, AppendSequence, AppendAt
  <2> QED BY <2>2 DEF ToSet
<1>3. e \in ToSet(Append(s, e))
  <2>2. Len(s) + 1 \in DOMAIN Append(s, e) /\ Append(s, e)[Len(s) + 1] = e
    BY AppendSequence, AppendAt
  <2> QED BY <2>2 DEF ToSet
<1> QED BY <1>1, <1>2, <1>3, Zenon

\* A set of naturals has a least element: the least of its finite beginnings
\* ends with it.
LEMMA LeastElement ==
  ASSUME NEW C, C \subseteq Nat, C # {}
  PROVE  \E x \in C : \A y \in C : x <= y
<1> DEFINE F == {C \cap 0..m : m \in C}
<1>1. F \subseteq FiniteSubsetsOf(Nat)
  <2>1. ASSUME NEW m \in C PROVE C \cap 0..m \in FiniteSubsetsOf(Nat)
    <3>1. IsFiniteSet(0..m)
      BY FS_Interval
    <3>2. IsFiniteSet(C \cap 0..m)
      BY <3>1, FS_Subset
    <3> QED BY <3>2 DEF FiniteSubsetsOf
  <2> QED BY <2>1
<1>2. F # {}
  OBVIOUS
<1>3. PICK U \in F : \A V \in F : ~ (<<V, U>> \in StrictSubsetOrdering(Nat))
  BY <1>1, <1>2, FS_StrictSubsetOrderingWellFounded, WFMin
<1>4. PICK x \in C : U = C \cap 0..x
  OBVIOUS
<1>5. ASSUME NEW y \in C PROVE x <= y
  <2>1. SUFFICES ASSUME y < x PROVE FALSE
    OBVIOUS
  <2>2. C \cap 0..y \in F /\ C \cap 0..y \subseteq U /\ x \in U /\ x \notin 0..y
    BY <1>4, <2>1
  <2>3. <<C \cap 0..y, U>> \in StrictSubsetOrdering(Nat)
    BY <2>2, <1>4 DEF StrictSubsetOrdering
  <2> QED BY <1>3, <2>2, <2>3
<1> QED BY <1>5

\* A prefix agrees in its length and in each element.
LEMMA PrefixElements ==
  ASSUME NEW S, NEW s \in Seq(S), NEW t \in Seq(S)
  PROVE  IsPrefix(s, t) <=> Len(s) <= Len(t) /\ \A i \in 1..Len(s) : s[i] = t[i]
<1>1. ASSUME Len(s) <= Len(t)
      PROVE  SubSeq(s, 1, Len(s)) = SubSeq(t, 1, Len(s)) <=> \A i \in 1..Len(s) : s[i] = t[i]
  <2>1. /\ SubSeq(s, 1, Len(s)) = [i \in 1..Len(s) |-> s[i]]
        /\ SubSeq(t, 1, Len(s)) = [i \in 1..Len(s) |-> t[i]]
    BY <1>1
  <2> QED BY <2>1
<1> QED BY <1>1 DEF IsPrefix

\* A suffix is no longer, and ends with the same.
LEMMA SuffixElements ==
  ASSUME NEW S, NEW s \in Seq(S), NEW t \in Seq(S), Len(s) \in Nat \ {0}
  PROVE  /\ IsSuffix(s, t) => Len(s) <= Len(t) /\ s[Len(s)] = t[Len(t)]
         /\ IsSuffix(s, s)
<1>1. /\ Reverse(s) \in Seq(S) /\ Len(Reverse(s)) = Len(s)
      /\ Reverse(s)[1] = s[Len(s)]
  BY DEF Reverse
<1>2. Reverse(t) \in Seq(S) /\ Len(Reverse(t)) = Len(t)
  BY DEF Reverse
<1>3. Len(t) \in Nat \ {0} => Reverse(t)[1] = t[Len(t)]
  BY DEF Reverse
<1>4. IsPrefix(Reverse(s), Reverse(t))
         => Len(s) <= Len(t) /\ Reverse(s)[1] = Reverse(t)[1]
  BY <1>1, <1>2, PrefixElements
<1>5. IsPrefix(Reverse(s), Reverse(s))
  BY <1>1, PrefixElements
<1> QED BY <1>1, <1>2, <1>3, <1>4, <1>5 DEF IsSuffix

\* The words of the labels, one by one.
LEMMA WordsOf ==
  /\ Label = {"leds", "switches", "buttons", "rgb_leds", "seven_seg", "seven_seg_ctrl",
              "xadc", "temp_i2c"}
  /\ Words["leds"] = <<"leds">> /\ Words["switches"] = <<"switches">>
  /\ Words["buttons"] = <<"buttons">> /\ Words["rgb_leds"] = <<"rgb", "leds">>
  /\ Words["seven_seg"] = <<"seven", "seg">> /\ Words["seven_seg_ctrl"] = <<"seven", "seg", "ctrl">>
  /\ Words["xadc"] = <<"xadc">> /\ Words["temp_i2c"] = <<"temp", "i2c">>
  BY DEF Label, Words

\* The words that names consist of.
Word == {"leds", "switches", "buttons", "rgb", "seven", "seg", "ctrl", "xadc", "temp", "i2c"}

\* Tuples of one, two and three words.
LEMMA TupleElements ==
  ASSUME NEW S, NEW a \in S, NEW b \in S, NEW c \in S
  PROVE  /\ <<a>> \in Seq(S) /\ Len(<<a>>) = 1 /\ <<a>>[1] = a
         /\ <<a, b>> \in Seq(S) /\ Len(<<a, b>>) = 2
         /\ <<a, b>>[1] = a /\ <<a, b>>[2] = b
         /\ <<a, b, c>> \in Seq(S) /\ Len(<<a, b, c>>) = 3
         /\ <<a, b, c>>[1] = a /\ <<a, b, c>>[2] = b /\ <<a, b, c>>[3] = c
<1>1. <<a>> \in Seq(S) /\ Len(<<a>>) = 1 /\ <<a>>[1] = a
  OBVIOUS
<1>2. <<a, b>> \in Seq(S) /\ Len(<<a, b>>) = 2 /\ <<a, b>>[1] = a /\ <<a, b>>[2] = b
  OBVIOUS
<1>3. /\ <<a, b, c>> \in Seq(S) /\ Len(<<a, b, c>>) = 3
      /\ <<a, b, c>>[1] = a /\ <<a, b, c>>[2] = b /\ <<a, b, c>>[3] = c
  OBVIOUS
<1> QED BY <1>1, <1>2, <1>3

\* Each label's words, how many they are, the first and the last.
LEMMA WordsEnds ==
  /\ Words["leds"] \in Seq(Word) /\ Len(Words["leds"]) = 1
  /\ Words["leds"][1] = "leds"
  /\ Words["switches"] \in Seq(Word) /\ Len(Words["switches"]) = 1
  /\ Words["switches"][1] = "switches"
  /\ Words["buttons"] \in Seq(Word) /\ Len(Words["buttons"]) = 1
  /\ Words["buttons"][1] = "buttons"
  /\ Words["rgb_leds"] \in Seq(Word) /\ Len(Words["rgb_leds"]) = 2
  /\ Words["rgb_leds"][1] = "rgb" /\ Words["rgb_leds"][2] = "leds"
  /\ Words["seven_seg"] \in Seq(Word) /\ Len(Words["seven_seg"]) = 2
  /\ Words["seven_seg"][1] = "seven" /\ Words["seven_seg"][2] = "seg"
  /\ Words["seven_seg_ctrl"] \in Seq(Word) /\ Len(Words["seven_seg_ctrl"]) = 3
  /\ Words["seven_seg_ctrl"][1] = "seven" /\ Words["seven_seg_ctrl"][2] = "seg" /\ Words["seven_seg_ctrl"][3] = "ctrl"
  /\ Words["xadc"] \in Seq(Word) /\ Len(Words["xadc"]) = 1
  /\ Words["xadc"][1] = "xadc"
  /\ Words["temp_i2c"] \in Seq(Word) /\ Len(Words["temp_i2c"]) = 2
  /\ Words["temp_i2c"][1] = "temp" /\ Words["temp_i2c"][2] = "i2c"
<1>1. /\ Words["leds"] \in Seq(Word) /\ Len(Words["leds"]) = 1
      /\ Words["leds"][1] = "leds"
  BY TupleElements, WordsOf DEF Word
<1>2. /\ Words["switches"] \in Seq(Word) /\ Len(Words["switches"]) = 1
      /\ Words["switches"][1] = "switches"
  BY TupleElements, WordsOf DEF Word
<1>3. /\ Words["buttons"] \in Seq(Word) /\ Len(Words["buttons"]) = 1
      /\ Words["buttons"][1] = "buttons"
  BY TupleElements, WordsOf DEF Word
<1>4. /\ Words["rgb_leds"] \in Seq(Word) /\ Len(Words["rgb_leds"]) = 2
      /\ Words["rgb_leds"][1] = "rgb" /\ Words["rgb_leds"][2] = "leds"
  BY TupleElements, WordsOf DEF Word
<1>5. /\ Words["seven_seg"] \in Seq(Word) /\ Len(Words["seven_seg"]) = 2
      /\ Words["seven_seg"][1] = "seven" /\ Words["seven_seg"][2] = "seg"
  BY TupleElements, WordsOf DEF Word
<1>6. /\ Words["seven_seg_ctrl"] \in Seq(Word) /\ Len(Words["seven_seg_ctrl"]) = 3
      /\ Words["seven_seg_ctrl"][1] = "seven" /\ Words["seven_seg_ctrl"][2] = "seg" /\ Words["seven_seg_ctrl"][3] = "ctrl"
  BY TupleElements, WordsOf DEF Word
<1>7. /\ Words["xadc"] \in Seq(Word) /\ Len(Words["xadc"]) = 1
      /\ Words["xadc"][1] = "xadc"
  BY TupleElements, WordsOf DEF Word
<1>8. /\ Words["temp_i2c"] \in Seq(Word) /\ Len(Words["temp_i2c"]) = 2
      /\ Words["temp_i2c"][1] = "temp" /\ Words["temp_i2c"][2] = "i2c"
  BY TupleElements, WordsOf DEF Word
<1> QED BY <1>1, <1>2, <1>3, <1>4, <1>5, <1>6, <1>7, <1>8

\* The first and the last word of each name.
FirstWord == [leds |-> "leds", switches |-> "switches", buttons |-> "buttons", rgb_leds |-> "rgb",
              seven_seg |-> "seven", seven_seg_ctrl |-> "seven", xadc |-> "xadc", temp_i2c |-> "temp"]
LastWord  == [leds |-> "leds", switches |-> "switches", buttons |-> "buttons", rgb_leds |-> "leds",
              seven_seg |-> "seg", seven_seg_ctrl |-> "ctrl", xadc |-> "xadc", temp_i2c |-> "i2c"]

\* What is common to them: each first and each last word, and whose it is.
LEMMA WordsTyped ==
  ASSUME NEW l \in Label
  PROVE  /\ Words[l] \in Seq(Word) /\ Len(Words[l]) \in Nat \ {0}
         /\ FirstWord[l] = Words[l][1] /\ LastWord[l] = Words[l][Len(Words[l])]
<1>1. CASE l = "leds"
  BY <1>1, WordsEnds DEF FirstWord, LastWord
<1>2. CASE l = "switches"
  BY <1>2, WordsEnds DEF FirstWord, LastWord
<1>3. CASE l = "buttons"
  BY <1>3, WordsEnds DEF FirstWord, LastWord
<1>4. CASE l = "rgb_leds"
  BY <1>4, WordsEnds DEF FirstWord, LastWord
<1>5. CASE l = "seven_seg"
  BY <1>5, WordsEnds DEF FirstWord, LastWord
<1>6. CASE l = "seven_seg_ctrl"
  BY <1>6, WordsEnds DEF FirstWord, LastWord
<1>7. CASE l = "xadc"
  BY <1>7, WordsEnds DEF FirstWord, LastWord
<1>8. CASE l = "temp_i2c"
  BY <1>8, WordsEnds DEF FirstWord, LastWord
<1> QED BY <1>1, <1>2, <1>3, <1>4, <1>5, <1>6, <1>7, <1>8, WordsOf

\* The names whose nodes the patcher looks for.
Sought == {"buttons", "rgb_leds", "seven_seg", "seven_seg_ctrl", "temp_i2c"}

\* A label ends with one of those names only if it is that name.
LEMMA SuffixTest ==
  ASSUME NEW name \in Sought, NEW l \in Label
  PROVE  IsSuffix(Words[name], Words[l]) <=> l = name
<1>1. name \in Label
  BY WordsOf DEF Sought
<1>2. /\ Words[name] \in Seq(Word) /\ Words[l] \in Seq(Word)
      /\ Len(Words[name]) \in Nat \ {0} /\ Len(Words[l]) \in Nat \ {0}
  BY <1>1, WordsTyped
<1>3. ASSUME IsSuffix(Words[name], Words[l]) PROVE l = name
  <2>1. /\ Len(Words[name]) <= Len(Words[l])
        /\ Words[name][Len(Words[name])] = Words[l][Len(Words[l])]
    BY <1>2, <1>3, SuffixElements
  <2>2. LastWord[name] = LastWord[l]
    BY <2>1, <1>1, WordsTyped
  <2>3. l = name \/ (name = "rgb_leds" /\ l = "leds")
    BY <2>2, WordsOf DEF Sought, LastWord
  <2>4. name = "rgb_leds" => l # "leds"
    BY <2>1, WordsEnds
  <2> QED BY <2>3, <2>4
<1>4. IsSuffix(Words[name], Words[name])
  BY <1>2, SuffixElements
<1> QED BY <1>3, <1>4

\* The names whose references the patcher looks for.
Enabled == {"switches", "buttons", "rgb_leds", "seven_seg", "seven_seg_ctrl"}

\* A label begins with one of those names only if it is that name, or the
\* second bank of the display, which begins with the name of the first.
LEMMA PrefixTest ==
  ASSUME NEW name \in Enabled, NEW l \in Label
  PROVE  IsPrefix(Words[name], Words[l])
           <=> l = name \/ (name = "seven_seg" /\ l = "seven_seg_ctrl")
<1>1. name \in Label
  BY WordsOf DEF Enabled
<1>2. /\ Words[name] \in Seq(Word) /\ Words[l] \in Seq(Word)
      /\ Len(Words[name]) \in Nat \ {0} /\ Len(Words[l]) \in Nat \ {0}
  BY <1>1, WordsTyped
<1>3. IsPrefix(Words[name], Words[l])
        <=> /\ Len(Words[name]) <= Len(Words[l])
            /\ \A i \in 1..Len(Words[name]) : Words[name][i] = Words[l][i]
  BY <1>2, PrefixElements
<1>4. ASSUME IsPrefix(Words[name], Words[l])
      PROVE  l = name \/ (name = "seven_seg" /\ l = "seven_seg_ctrl")
  <2>1. Words[name][1] = Words[l][1]
    BY <1>2, <1>3, <1>4
  <2>2. FirstWord[name] = FirstWord[l]
    BY <2>1, <1>1, WordsTyped
  <2>3. l = name \/ {l, name} = {"seven_seg", "seven_seg_ctrl"}
    BY <2>2, WordsOf DEF Enabled, FirstWord
  <2>4. name = "seven_seg_ctrl" => l # "seven_seg"
    BY <1>3, <1>4, WordsEnds
  <2> QED BY <2>3, <2>4
<1>5. ASSUME l = name \/ (name = "seven_seg" /\ l = "seven_seg_ctrl")
      PROVE  IsPrefix(Words[name], Words[l])
  <2>1. CASE l = name
    BY <2>1, <1>2, <1>3
  <2>2. CASE name = "seven_seg" /\ l = "seven_seg_ctrl"
    <3>1. /\ Len(Words[name]) = 2 /\ Len(Words[l]) = 3
          /\ Words[name][1] = Words[l][1] /\ Words[name][2] = Words[l][2]
      BY <2>2, <1>1, WordsEnds
    <3> QED BY <3>1, <1>3
  <2> QED BY <1>5, <2>1, <2>2
<1> QED BY <1>4, <1>5

-----------------------------------------------------------------------------
(* Texts and the edits *)

Kind(label) == IF label = "xadc" THEN "hwmon" ELSE IF label = "temp_i2c" THEN "i2c" ELSE "gpio"

\* A text: each node is of the kind that its label says.
IsText(text) ==
    /\ text = [soc |-> text.soc, marker |-> text.marker, refs |-> text.refs]
    /\ Sequence(text.soc) /\ Sequence(text.refs)
    /\ \A n \in ToSet(text.soc) : n.label \in Label /\ n.kind = Kind(n.label)
    /\ \A r \in ToSet(text.refs) : r.label \in Label /\ r = Ref(r.label, r.ngpio)

\* The test for a node finds that very node.
LEMMA HasNodeTest ==
  ASSUME NEW text, IsText(text), NEW name \in Sought
  PROVE  HasNode(text, Kind(name), name) <=> Has(text, name)
<1>1. ASSUME NEW n \in ToSet(text.soc)
      PROVE  n.kind = Kind(name) /\ IsSuffix(Words[name], Words[n.label]) <=> n.label = name
  <2>1. n.label \in Label /\ n.kind = Kind(n.label)
    BY <1>1 DEF IsText
  <2>2. IsSuffix(Words[name], Words[n.label]) <=> n.label = name
    BY <2>1, SuffixTest
  <2> QED BY <2>1, <2>2
<1> QED BY <1>1, Zenon DEF HasNode, Has

\* The test for a reference finds it, or takes the second bank of the display
\* for the first.
LEMMA MentionsTest ==
  ASSUME NEW text, IsText(text), NEW name \in Enabled
  PROVE  Mentions(text, name)
           <=> Enables(text, name) \/ (name = "seven_seg" /\ Enables(text, "seven_seg_ctrl"))
<1>1. ASSUME NEW r \in ToSet(text.refs)
      PROVE  IsPrefix(Words[name], Words[r.label])
               <=> r.label = name \/ (name = "seven_seg" /\ r.label = "seven_seg_ctrl")
  <2>1. r.label \in Label
    BY <1>1 DEF IsText
  <2> QED BY <2>1, PrefixTest
<1>2. Mentions(text, name)
        <=> \E r \in ToSet(text.refs) :
              r.label = name \/ (name = "seven_seg" /\ r.label = "seven_seg_ctrl")
  BY <1>1, Zenon DEF Mentions
<1> QED BY <1>2, Zenon DEF Enables

\* A node put at the end of /soc.
LEMMA InsertNode ==
  ASSUME NEW text, IsText(text), NEW label \in Label, NEW base, NEW irq
  PROVE  LET new == Insert(text, Node(label, Kind(label), base, irq))
         IN /\ IsText(new)
            /\ new.soc = Append(text.soc, Node(label, Kind(label), base, irq))
            /\ new.refs = text.refs /\ new.marker = text.marker
<1> DEFINE n == Node(label, Kind(label), base, irq)
           new == Insert(text, n)
<1>1. n.label = label /\ n.kind = Kind(label)
  BY DEF Node
<1>2. /\ new.soc = Append(text.soc, n) /\ new.refs = text.refs /\ new.marker = text.marker
      /\ new = [soc |-> new.soc, marker |-> new.marker, refs |-> new.refs]
  BY DEF Insert, IsText
<1> HIDE DEF n, new
<1>3. Sequence(new.soc) /\ ToSet(new.soc) = ToSet(text.soc) \cup {n}
  BY <1>2, AppendSequence, AppendRange DEF IsText
<1>4. IsText(new)
  BY <1>1, <1>2, <1>3 DEF IsText
<1> QED BY <1>2, <1>4 DEF n, new

\* A reference put at the end.
LEMMA AppendReference ==
  ASSUME NEW text, IsText(text), NEW label \in Label, NEW ngpio
  PROVE  LET new == [text EXCEPT !.refs = Append(@, Ref(label, ngpio))]
         IN /\ IsText(new)
            /\ new.refs = Append(text.refs, Ref(label, ngpio))
            /\ new.soc = text.soc /\ new.marker = text.marker
<1> DEFINE r == Ref(label, ngpio)
           new == [text EXCEPT !.refs = Append(@, r)]
<1>1. r.label = label /\ r = Ref(r.label, r.ngpio)
  BY DEF Ref
<1>2. /\ new.refs = Append(text.refs, r) /\ new.soc = text.soc /\ new.marker = text.marker
      /\ new = [soc |-> new.soc, marker |-> new.marker, refs |-> new.refs]
  BY DEF IsText
<1> HIDE DEF r, new
<1>3. Sequence(new.refs) /\ ToSet(new.refs) = ToSet(text.refs) \cup {r}
  BY <1>2, AppendSequence, AppendRange DEF IsText
<1>4. IsText(new)
  BY <1>1, <1>2, <1>3 DEF IsText
<1> QED BY <1>2, <1>4 DEF r, new

\* The fields of a reference.
LEMMA RefFields ==
  ASSUME NEW label, NEW old, NEW new
  PROVE  /\ Ref(label, new).label = label /\ Ref(label, new).ngpio = new
         /\ [Ref(label, old) EXCEPT !.ngpio = new] = Ref(label, new)
  BY DEF Ref

\* A count set: the first behind the block that is looked for.
LEMMA SetCount ==
  ASSUME NEW text, IsText(text), NEW i \in DOMAIN text.refs, NEW ngpio
  PROVE  LET new == [text EXCEPT !.refs[i].ngpio = ngpio]
         IN /\ IsText(new)
            /\ new.soc = text.soc /\ new.marker = text.marker
            /\ Len(new.refs) = Len(text.refs) /\ DOMAIN new.refs = DOMAIN text.refs
            /\ \A j \in DOMAIN text.refs :
                  new.refs[j] = IF j = i THEN Ref(text.refs[i].label, ngpio) ELSE text.refs[j]
<1> DEFINE new == [text EXCEPT !.refs[i].ngpio = ngpio]
<1>1. PICK S : text.refs \in Seq(S)
  BY DEF IsText, Sequence
<1>2. \A j \in DOMAIN text.refs :
         text.refs[j].label \in Label /\ text.refs[j] = Ref(text.refs[j].label, text.refs[j].ngpio)
  BY DEF IsText, ToSet
<1>3. [text.refs[i] EXCEPT !.ngpio = ngpio] = Ref(text.refs[i].label, ngpio)
  BY <1>2, RefFields
<1>4. new.refs = [text.refs EXCEPT ![i] = Ref(text.refs[i].label, ngpio)]
  BY <1>3 DEF IsText
<1>5. /\ new.soc = text.soc /\ new.marker = text.marker
      /\ new = [soc |-> new.soc, marker |-> new.marker, refs |-> new.refs]
  BY DEF IsText
<1> HIDE DEF new
<1>6. /\ new.refs \in Seq(S \cup {Ref(text.refs[i].label, ngpio)})
      /\ Len(new.refs) = Len(text.refs) /\ DOMAIN new.refs = DOMAIN text.refs
      /\ \A j \in DOMAIN text.refs :
            new.refs[j] = IF j = i THEN Ref(text.refs[i].label, ngpio) ELSE text.refs[j]
  BY <1>1, <1>4
<1>7. ASSUME NEW j \in DOMAIN new.refs
      PROVE  /\ new.refs[j].label \in Label
             /\ new.refs[j] = Ref(new.refs[j].label, new.refs[j].ngpio)
  <2>1. CASE j = i
    <3>1. new.refs[j] = Ref(text.refs[i].label, ngpio) /\ text.refs[i].label \in Label
      BY <2>1, <1>2, <1>6
    <3>2. new.refs[j].label = text.refs[i].label /\ new.refs[j].ngpio = ngpio
      BY <3>1, RefFields
    <3> QED BY <3>1, <3>2
  <2>2. CASE j # i
    <3>1. j \in DOMAIN text.refs /\ new.refs[j] = text.refs[j]
      BY <2>2, <1>6
    <3> QED BY <3>1, <1>2
  <2> QED BY <2>1, <2>2
<1>8. \A r \in ToSet(new.refs) : r.label \in Label /\ r = Ref(r.label, r.ngpio)
  BY <1>7 DEF ToSet
<1>9. IsText(new)
  BY <1>5, <1>6, <1>8 DEF IsText, Sequence
<1> QED BY <1>5, <1>6, <1>9 DEF new

\* The counts among which patch_ref_ngpio takes the first.
Counts(text, ref) ==
    {i \in DOMAIN text.refs :
       text.refs[i].ngpio # None /\ \E k \in 1..i : text.refs[k].label = ref}

\* The first of them.
IsFirst(text, ref, i) == i \in Counts(text, ref) /\ \A j \in Counts(text, ref) : i <= j

\* If there is none, nothing happens.
LEMMA NoCount ==
  ASSUME NEW text, NEW ref, NEW ngpio, Counts(text, ref) = {}
  PROVE  patch_ref_ngpio(text, ref, ngpio) = text
  BY DEF Counts, patch_ref_ngpio

\* Else the first is set.
LEMMA FirstCount ==
  ASSUME NEW text, IsText(text), NEW ref, NEW ngpio, Counts(text, ref) # {}
  PROVE  \E i : /\ IsFirst(text, ref, i)
               /\ patch_ref_ngpio(text, ref, ngpio) = [text EXCEPT !.refs[i].ngpio = ngpio]
<1>1. DOMAIN text.refs \subseteq Nat
  <2>1. DOMAIN text.refs = 1..Len(text.refs)
    BY AppendSequence DEF IsText
  <2>2. 1..Len(text.refs) \subseteq Nat
    OBVIOUS
  <2> QED BY <2>1, <2>2
<1>2. Counts(text, ref) \subseteq Nat
  BY <1>1 DEF Counts
<1>3. \E i \in Counts(text, ref) : \A j \in Counts(text, ref) : i <= j
  BY <1>2, LeastElement
<1> DEFINE i == CHOOSE i \in Counts(text, ref) : \A j \in Counts(text, ref) : i <= j
<1>4. IsFirst(text, ref, i)
  BY <1>3, Zenon DEF IsFirst
<1>5. patch_ref_ngpio(text, ref, ngpio) = [text EXCEPT !.refs[i].ngpio = ngpio]
  BY Zenon DEF Counts, patch_ref_ngpio
<1> HIDE DEF i
<1> QED BY <1>4, <1>5

\* What patch_ref_ngpio makes of a text: no label, node or missing count
\* changes, and a count changes only behind the block that is looked for,
\* with no other count in between.
LEMMA PatchRefNgpio ==
  ASSUME NEW text, IsText(text), NEW ref, NEW ngpio
  PROVE  LET new == patch_ref_ngpio(text, ref, ngpio)
         IN /\ IsText(new)
            /\ new.soc = text.soc /\ new.marker = text.marker
            /\ Len(new.refs) = Len(text.refs) /\ DOMAIN new.refs = DOMAIN text.refs
            /\ \A j \in DOMAIN text.refs :
                  \/ new.refs[j] = text.refs[j]
                  \/ /\ new.refs[j] = Ref(text.refs[j].label, ngpio)
                     /\ text.refs[j].ngpio # None
                     /\ \E k \in 1..j : /\ text.refs[k].label = ref
                                        /\ \A m \in k..j - 1 : text.refs[m].ngpio = None
<1> DEFINE new == patch_ref_ngpio(text, ref, ngpio)
<1>1. CASE new = text
  BY <1>1
<1>2. ASSUME NEW i, IsFirst(text, ref, i),
             new = [text EXCEPT !.refs[i].ngpio = ngpio]
      PROVE  /\ IsText(new)
             /\ new.soc = text.soc /\ new.marker = text.marker
             /\ Len(new.refs) = Len(text.refs) /\ DOMAIN new.refs = DOMAIN text.refs
             /\ \A j \in DOMAIN text.refs :
                   \/ new.refs[j] = text.refs[j]
                   \/ /\ new.refs[j] = Ref(text.refs[j].label, ngpio)
                      /\ text.refs[j].ngpio # None
                      /\ \E k \in 1..j : /\ text.refs[k].label = ref
                                         /\ \A m \in k..j - 1 : text.refs[m].ngpio = None
  <2> HIDE DEF new
  <2>1. i \in DOMAIN text.refs /\ text.refs[i].ngpio # None
    BY <1>2 DEF IsFirst, Counts
  <2>2. /\ IsText(new)
        /\ new.soc = text.soc /\ new.marker = text.marker
        /\ Len(new.refs) = Len(text.refs) /\ DOMAIN new.refs = DOMAIN text.refs
        /\ \A j \in DOMAIN text.refs :
              new.refs[j] = IF j = i THEN Ref(text.refs[i].label, ngpio) ELSE text.refs[j]
    BY <1>2, <2>1, SetCount
  <2>3. PICK k \in 1..i : text.refs[k].label = ref
    BY <1>2 DEF IsFirst, Counts
  <2>4. DOMAIN text.refs = 1..Len(text.refs) /\ Len(text.refs) \in Nat
    BY AppendSequence DEF IsText
  <2>5. ASSUME NEW m \in k..i - 1 PROVE text.refs[m].ngpio = None
    <3>1. m \in DOMAIN text.refs /\ k \in 1..m /\ ~ (i <= m)
      BY <2>1, <2>3, <2>4
    <3>2. m \notin Counts(text, ref)
      BY <3>1, <1>2 DEF IsFirst
    <3> QED BY <3>1, <3>2, <2>3 DEF Counts
  <2> QED BY <2>1, <2>2, <2>3, <2>5
<1>3. new = text \/ \E i : IsFirst(text, ref, i) /\ new = [text EXCEPT !.refs[i].ngpio = ngpio]
  BY NoCount, FirstCount
<1> HIDE DEF new
<1>4. /\ IsText(new)
      /\ new.soc = text.soc /\ new.marker = text.marker
      /\ Len(new.refs) = Len(text.refs) /\ DOMAIN new.refs = DOMAIN text.refs
      /\ \A j \in DOMAIN text.refs :
            \/ new.refs[j] = text.refs[j]
            \/ /\ new.refs[j] = Ref(text.refs[j].label, ngpio)
               /\ text.refs[j].ngpio # None
               /\ \E k \in 1..j : /\ text.refs[k].label = ref
                                  /\ \A m \in k..j - 1 : text.refs[m].ngpio = None
  BY <1>1, <1>2, <1>3, Zenon
<1> QED BY <1>4 DEF new

-----------------------------------------------------------------------------
(* What a call makes of a text, step by step *)

Args == [base : [Bank -> Nat \cup {None}], ngpio : [Gpio -> Nat], irq : Nat \cup {None}]

\* The banks that a call is given and takes.
Taken(args) ==
    {b \in Bank : /\ args.base[b] # None
                  /\ b \in {"rgb_leds", "seven_seg", "seven_seg_ctrl"} => args.ngpio[b] > 0}

CountKept(text, new, args, i) ==
    \/ new.refs[i].ngpio = text.refs[i].ngpio
    \/ /\ text.refs[i].label \in {"leds", "switches"}
       /\ new.refs[i].ngpio = args.ngpio[text.refs[i].label]
    \/ Overrun(text, i)

\* Counts have been set, and nothing else was done.
Recounted(text, new, args) ==
    /\ IsText(new) /\ new.soc = text.soc /\ new.marker = text.marker
    /\ Len(new.refs) = Len(text.refs) /\ DOMAIN new.refs = DOMAIN text.refs
    /\ \A i \in DOMAIN text.refs :
          /\ new.refs[i].label = text.refs[i].label
          /\ new.refs[i].ngpio = None <=> text.refs[i].ngpio = None
          /\ CountKept(text, new, args, i)

\* /soc has got nodes of some of the banks D, at their bases and at its end,
\* one for each of D that had none.
MoreNodes(text, new, args, D) ==
    /\ Len(text.soc) <= Len(new.soc)
    /\ \A i \in DOMAIN text.soc : new.soc[i] = text.soc[i]
    /\ \A i \in DOMAIN new.soc \ DOMAIN text.soc :
          /\ new.soc[i].label \in D /\ ~ Has(text, new.soc[i].label)
          /\ new.soc[i].base = args.base[new.soc[i].label]
          /\ new.soc[i].label = "buttons" => new.soc[i].irq = args.irq
          /\ \A j \in DOMAIN new.soc : new.soc[j].label = new.soc[i].label => j = i
    /\ \A b \in D : Has(new, b)

\* References to some of the banks D have come behind the others.
MoreRefs(text, new, args, D) ==
    /\ Len(text.refs) <= Len(new.refs)
    /\ \A i \in DOMAIN text.refs : new.refs[i] = text.refs[i]
    /\ \A i \in DOMAIN new.refs \ DOMAIN text.refs :
          /\ new.refs[i].label \in D \cap Gpio /\ ~ Enables(text, new.refs[i].label)
          /\ new.refs[i].ngpio = args.ngpio[new.refs[i].label]
          /\ \A j \in DOMAIN new.refs : new.refs[j].label = new.refs[i].label => j = i
    /\ \A b \in D \cap Gpio : Enables(new, b) \/ Shadowed(text, b)

Amended(text, new, args, D) ==
    /\ IsText(new) /\ new.marker = text.marker
    /\ MoreNodes(text, new, args, D) /\ MoreRefs(text, new, args, D)

\* Lengths and domains of a text's sequences.
LEMMA TextDomains ==
  ASSUME NEW text, IsText(text)
  PROVE  /\ Len(text.soc) \in Nat /\ DOMAIN text.soc = 1..Len(text.soc)
         /\ Len(text.refs) \in Nat /\ DOMAIN text.refs = 1..Len(text.refs)
  BY AppendSequence DEF IsText

\* Setting the count of the LEDs or the switches is only that.
LEMMA Recount ==
  ASSUME NEW text, IsText(text), NEW old, NEW args \in Args, Recounted(text, old, args),
         NEW ref \in {"leds", "switches"}
  PROVE  Recounted(text, patch_ref_ngpio(old, ref, args.ngpio[ref]), args)
<1> DEFINE n == args.ngpio[ref]
           new == patch_ref_ngpio(old, ref, n)
<1>1. n \in Nat /\ n # None
  <2>1. n \in Nat
    BY DEF Args, Gpio
  <2> QED BY <2>1 DEF None
<1>2. /\ IsText(new)
      /\ new.soc = old.soc /\ new.marker = old.marker
      /\ Len(new.refs) = Len(old.refs) /\ DOMAIN new.refs = DOMAIN old.refs
      /\ \A j \in DOMAIN old.refs :
            \/ new.refs[j] = old.refs[j]
            \/ /\ new.refs[j] = Ref(old.refs[j].label, n)
               /\ old.refs[j].ngpio # None
               /\ \E k \in 1..j : /\ old.refs[k].label = ref
                                  /\ \A m \in k..j - 1 : old.refs[m].ngpio = None
  BY PatchRefNgpio DEF Recounted
<1> HIDE DEF new
<1>3. /\ IsText(new)
      /\ new.soc = text.soc /\ new.marker = text.marker
      /\ Len(new.refs) = Len(text.refs) /\ DOMAIN new.refs = DOMAIN text.refs
  BY <1>2 DEF Recounted
<1>4. ASSUME NEW i \in DOMAIN text.refs
      PROVE  /\ new.refs[i].label = text.refs[i].label
             /\ new.refs[i].ngpio = None <=> text.refs[i].ngpio = None
             /\ CountKept(text, new, args, i)
  <2>0. /\ i \in DOMAIN old.refs
        /\ old.refs[i].label = text.refs[i].label
        /\ old.refs[i].ngpio = None <=> text.refs[i].ngpio = None
        /\ CountKept(text, old, args, i)
    BY DEF Recounted
  <2>1. CASE new.refs[i] = old.refs[i]
    BY <2>0, <2>1 DEF CountKept
  <2>2. ASSUME new.refs[i] = Ref(old.refs[i].label, n), old.refs[i].ngpio # None,
               NEW k \in 1..i, old.refs[k].label = ref,
               \A m \in k..i - 1 : old.refs[m].ngpio = None
        PROVE  /\ new.refs[i].label = text.refs[i].label
               /\ new.refs[i].ngpio = None <=> text.refs[i].ngpio = None
               /\ CountKept(text, new, args, i)
    <3>1. new.refs[i].label = text.refs[i].label /\ new.refs[i].ngpio = n
      BY <2>0, <2>2, RefFields
    <3>2. i \in 1..Len(text.refs) /\ Len(text.refs) \in Nat /\ DOMAIN text.refs = 1..Len(text.refs)
      BY TextDomains
    <3>3. k \in DOMAIN text.refs /\ text.refs[k].label = ref
      BY <3>2, <2>2 DEF Recounted
    <3>4. CASE k = i
      BY <3>1, <3>3, <3>4, <2>0, <2>2, <1>1 DEF CountKept
    <3>5. CASE k # i
      <4>1. k \in 1..i - 1
        BY <3>5, <3>2
      <4>2. ASSUME NEW m \in k..i - 1 PROVE text.refs[m].ngpio = None
        <5>1. m \in DOMAIN text.refs
          BY <3>2
        <5> QED BY <5>1, <2>2 DEF Recounted
      <4>3. Overrun(text, i)
        BY <4>1, <4>2, <3>3 DEF Overrun
      <4> QED BY <4>3, <3>1, <2>0, <2>2, <1>1 DEF CountKept
    <3> QED BY <3>4, <3>5
  <2> QED BY <2>0, <2>1, <2>2, <1>2
<1>5. Recounted(text, new, args)
  BY <1>3, <1>4 DEF Recounted
<1> QED BY <1>5 DEF new

\* The counts of LEDs and switches, as patch_inputs sets them.
SetCounts(text, args) ==
    LET lit == patch_ref_ngpio(text, "leds", args.ngpio["leds"])
    IN IF Mentions(lit, "switches")
       THEN patch_ref_ngpio(lit, "switches", args.ngpio["switches"]) ELSE lit

\* No label, node or missing count changes.
LEMMA CountsSet ==
  ASSUME NEW text, IsText(text), NEW args \in Args
  PROVE  Recounted(text, SetCounts(text, args), args)
<1> DEFINE lit == patch_ref_ngpio(text, "leds", args.ngpio["leds"])
           set == IF Mentions(lit, "switches")
                  THEN patch_ref_ngpio(lit, "switches", args.ngpio["switches"]) ELSE lit
<1>1. Recounted(text, text, args)
  BY DEF Recounted, CountKept
<1>2. Recounted(text, lit, args)
  BY <1>1, Recount
<1>3. Recounted(text, set, args)
  <2> HIDE DEF lit
  <2> QED BY <1>2, Recount
<1>4. SetCounts(text, args) = set
  BY DEF SetCounts
<1> HIDE DEF set
<1> QED BY <1>3, <1>4

\* A text is what it was with no bank added.
LEMMA NothingAdded ==
  ASSUME NEW text, IsText(text), NEW args
  PROVE  Amended(text, text, args, {})
  BY TextDomains DEF Amended, MoreNodes, MoreRefs

\* A bank with a node, old or new, is one that the text had or one of D.
LEMMA HasOldOrNew ==
  ASSUME NEW text, IsText(text), NEW old, IsText(old), NEW args, NEW D,
         MoreNodes(text, old, args, D), NEW name
  PROVE  /\ Has(text, name) => Has(old, name)
         /\ Has(old, name) => Has(text, name) \/ name \in D
<1>1. ASSUME Has(text, name) PROVE Has(old, name)
  <2>1. PICK i \in DOMAIN text.soc : text.soc[i].label = name
    BY <1>1 DEF Has, ToSet
  <2>2. i \in DOMAIN old.soc /\ old.soc[i] = text.soc[i]
    BY <2>1, TextDomains DEF MoreNodes
  <2> QED BY <2>1, <2>2 DEF Has, ToSet
<1>2. ASSUME Has(old, name) PROVE Has(text, name) \/ name \in D
  <2>1. PICK i \in DOMAIN old.soc : old.soc[i].label = name
    BY <1>2 DEF Has, ToSet
  <2>2. CASE i \in DOMAIN text.soc
    <3>1. text.soc[i].label = name
      BY <2>1, <2>2 DEF MoreNodes
    <3> QED BY <3>1, <2>2 DEF Has, ToSet
  <2>3. CASE i \notin DOMAIN text.soc
    BY <2>1, <2>3 DEF MoreNodes
  <2> QED BY <2>2, <2>3
<1> QED BY <1>1, <1>2

\* The same of references.
LEMMA EnablesOldOrNew ==
  ASSUME NEW text, IsText(text), NEW old, IsText(old), NEW args, NEW D,
         MoreRefs(text, old, args, D), NEW name
  PROVE  /\ Enables(text, name) => Enables(old, name)
         /\ Enables(old, name) => Enables(text, name) \/ name \in D
<1>1. ASSUME Enables(text, name) PROVE Enables(old, name)
  <2>1. PICK i \in DOMAIN text.refs : text.refs[i].label = name
    BY <1>1 DEF Enables, ToSet
  <2>2. i \in DOMAIN old.refs /\ old.refs[i].label = text.refs[i].label
    BY <2>1, TextDomains DEF MoreRefs
  <2> QED BY <2>1, <2>2 DEF Enables, ToSet
<1>2. ASSUME Enables(old, name) PROVE Enables(text, name) \/ name \in D
  <2>1. PICK i \in DOMAIN old.refs : old.refs[i].label = name
    BY <1>2 DEF Enables, ToSet
  <2>2. CASE i \in DOMAIN text.refs
    <3>1. text.refs[i].label = name
      BY <2>1, <2>2 DEF MoreRefs
    <3> QED BY <3>1, <2>2 DEF Enables, ToSet
  <2>3. CASE i \notin DOMAIN text.refs
    BY <2>1, <2>3 DEF MoreRefs
  <2> QED BY <2>2, <2>3
<1> QED BY <1>1, <1>2

\* One more bank: it has a node already, or gets one.
LEMMA OneMoreNode ==
  ASSUME NEW text, IsText(text), NEW old, IsText(old), NEW new, IsText(new),
         NEW args, NEW D, MoreNodes(text, old, args, D), NEW name, name \notin D, NEW irq,
         name = "buttons" => irq = args.irq,
         \/ Has(old, name) /\ new.soc = old.soc
         \/ /\ ~ Has(old, name)
            /\ new.soc = Append(old.soc, Node(name, Kind(name), args.base[name], irq))
  PROVE  MoreNodes(text, new, args, D \cup {name})
<1>1. CASE Has(old, name) /\ new.soc = old.soc
  BY <1>1 DEF MoreNodes, Has
<1>2. CASE /\ ~ Has(old, name)
           /\ new.soc = Append(old.soc, Node(name, Kind(name), args.base[name], irq))
  <2> DEFINE n == Node(name, Kind(name), args.base[name], irq)
  <2>1. n.label = name /\ n.base = args.base[name] /\ n.irq = irq
    BY DEF Node
  <2> HIDE DEF n
  <2>2. /\ Len(text.soc) \in Nat /\ DOMAIN text.soc = 1..Len(text.soc)
        /\ Len(old.soc) \in Nat /\ DOMAIN old.soc = 1..Len(old.soc)
    BY TextDomains
  <2>3. new.soc = Append(old.soc, n) /\ Sequence(old.soc)
    BY <1>2 DEF n, IsText
  <2>4. /\ Len(new.soc) = Len(old.soc) + 1 /\ DOMAIN new.soc = 1..Len(old.soc) + 1
        /\ new.soc[Len(old.soc) + 1] = n
        /\ \A j \in 1..Len(old.soc) : new.soc[j] = old.soc[j]
    BY <2>3, AppendSequence, AppendAt
  <2>5. ~ Has(text, name)
    BY <1>2, HasOldOrNew
  <2>6. \A j \in DOMAIN old.soc : old.soc[j].label # name
    BY <1>2 DEF Has, ToSet
  <2>7. /\ Len(text.soc) <= Len(new.soc)
        /\ \A i \in DOMAIN text.soc : new.soc[i] = text.soc[i]
    BY <2>2, <2>4 DEF MoreNodes
  <2>8. ASSUME NEW i \in DOMAIN new.soc \ DOMAIN text.soc
        PROVE  /\ new.soc[i].label \in D \cup {name} /\ ~ Has(text, new.soc[i].label)
               /\ new.soc[i].base = args.base[new.soc[i].label]
               /\ new.soc[i].label = "buttons" => new.soc[i].irq = args.irq
               /\ \A j \in DOMAIN new.soc : new.soc[j].label = new.soc[i].label => j = i
    <3>1. CASE i = Len(old.soc) + 1
      <4>1. new.soc[i] = n
        BY <3>1, <2>4
      <4>2. ASSUME NEW j \in DOMAIN new.soc, j # i PROVE new.soc[j].label # name
        <5>1. j \in DOMAIN old.soc /\ new.soc[j] = old.soc[j]
          BY <4>2, <3>1, <2>2, <2>4
        <5> QED BY <5>1, <2>6
      <4> QED BY <4>1, <4>2, <2>1, <2>5
    <3>2. CASE i # Len(old.soc) + 1
      <4>1. i \in DOMAIN old.soc \ DOMAIN text.soc /\ new.soc[i] = old.soc[i]
        BY <3>2, <2>2, <2>4
      <4>2. /\ old.soc[i].label \in D /\ ~ Has(text, old.soc[i].label)
            /\ old.soc[i].base = args.base[old.soc[i].label]
            /\ old.soc[i].label = "buttons" => old.soc[i].irq = args.irq
            /\ \A j \in DOMAIN old.soc : old.soc[j].label = old.soc[i].label => j = i
        BY <4>1 DEF MoreNodes
      <4>3. ASSUME NEW j \in DOMAIN new.soc, new.soc[j].label = new.soc[i].label PROVE j = i
        <5>1. CASE j = Len(old.soc) + 1
          BY <5>1, <4>3, <4>1, <4>2, <2>1, <2>4
        <5>2. CASE j # Len(old.soc) + 1
          <6>1. j \in DOMAIN old.soc /\ new.soc[j] = old.soc[j]
            BY <5>2, <2>2, <2>4
          <6> QED BY <6>1, <4>1, <4>2, <4>3
        <5> QED BY <5>1, <5>2
      <4> QED BY <4>1, <4>2, <4>3
    <3> QED BY <3>1, <3>2
  <2>9. ASSUME NEW b \in D \cup {name} PROVE Has(new, b)
    <3>1. ToSet(new.soc) = ToSet(old.soc) \cup {n}
      BY <2>3, AppendRange
    <3>2. b \in D => Has(old, b)
      BY DEF MoreNodes
    <3> QED BY <3>1, <3>2, <2>1 DEF Has
  <2> QED BY <2>7, <2>8, <2>9 DEF MoreNodes
<1> QED BY <1>1, <1>2

\* One more reference: it is mentioned already, or comes at the end.
LEMMA OneMoreRef ==
  ASSUME NEW text, IsText(text), NEW old, IsText(old), NEW new, IsText(new),
         NEW args, NEW D, MoreRefs(text, old, args, D),
         NEW name \in Enabled \ {"switches"}, name \notin D,
         name = "seven_seg" => "seven_seg_ctrl" \notin D,
         \/ Mentions(old, name) /\ new.refs = old.refs
         \/ /\ ~ Mentions(old, name)
            /\ new.refs = Append(old.refs, Ref(name, args.ngpio[name]))
  PROVE  MoreRefs(text, new, args, D \cup {name})
<1>0. name \in Gpio
  BY DEF Enabled, Gpio
<1>1. CASE Mentions(old, name) /\ new.refs = old.refs
  <2>1. Enables(old, name) \/ (name = "seven_seg" /\ Enables(old, "seven_seg_ctrl"))
    BY <1>1, MentionsTest
  <2>2. Enables(old, name) \/ Shadowed(text, name)
    BY <2>1, EnablesOldOrNew DEF Shadowed
  <2>3. \A b \in (D \cup {name}) \cap Gpio : Enables(new, b) \/ Shadowed(text, b)
    BY <2>2, <1>1 DEF MoreRefs, Enables
  <2>4. \A i \in DOMAIN text.refs : new.refs[i] = text.refs[i]
    BY <1>1 DEF MoreRefs
  <2>5. \A i \in DOMAIN new.refs \ DOMAIN text.refs :
           /\ new.refs[i].label \in (D \cup {name}) \cap Gpio /\ ~ Enables(text, new.refs[i].label)
           /\ new.refs[i].ngpio = args.ngpio[new.refs[i].label]
           /\ \A j \in DOMAIN new.refs : new.refs[j].label = new.refs[i].label => j = i
    BY <1>1 DEF MoreRefs
  <2> QED BY <1>1, <2>3, <2>4, <2>5 DEF MoreRefs
<1>2. CASE /\ ~ Mentions(old, name)
           /\ new.refs = Append(old.refs, Ref(name, args.ngpio[name]))
  <2> DEFINE r == Ref(name, args.ngpio[name])
  <2>1. r.label = name /\ r.ngpio = args.ngpio[name]
    BY RefFields
  <2> HIDE DEF r
  <2>2. /\ Len(text.refs) \in Nat /\ DOMAIN text.refs = 1..Len(text.refs)
        /\ Len(old.refs) \in Nat /\ DOMAIN old.refs = 1..Len(old.refs)
    BY TextDomains
  <2>3. new.refs = Append(old.refs, r) /\ Sequence(old.refs)
    BY <1>2 DEF r, IsText
  <2>4. /\ Len(new.refs) = Len(old.refs) + 1 /\ DOMAIN new.refs = 1..Len(old.refs) + 1
        /\ new.refs[Len(old.refs) + 1] = r
        /\ \A j \in 1..Len(old.refs) : new.refs[j] = old.refs[j]
    BY <2>3, AppendSequence, AppendAt
  <2>5. ~ Enables(old, name)
    BY <1>2, MentionsTest
  <2>6. \A j \in DOMAIN old.refs : old.refs[j].label # name
    BY <2>5 DEF Enables, ToSet
  <2>7. /\ Len(text.refs) <= Len(new.refs)
        /\ \A i \in DOMAIN text.refs : new.refs[i] = text.refs[i]
    <3>1. Len(text.refs) <= Len(old.refs)
      BY DEF MoreRefs
    <3>2. ASSUME NEW i \in DOMAIN text.refs PROVE new.refs[i] = text.refs[i]
      <4>1. new.refs[i] = old.refs[i]
        BY <3>1, <2>2, <2>4
      <4> QED BY <4>1 DEF MoreRefs
    <3> QED BY <3>1, <3>2, <2>2, <2>4
  <2>8. ASSUME NEW i \in DOMAIN new.refs \ DOMAIN text.refs
        PROVE  /\ new.refs[i].label \in (D \cup {name}) \cap Gpio
               /\ ~ Enables(text, new.refs[i].label)
               /\ new.refs[i].ngpio = args.ngpio[new.refs[i].label]
               /\ \A j \in DOMAIN new.refs : new.refs[j].label = new.refs[i].label => j = i
    <3>1. CASE i = Len(old.refs) + 1
      <4>1. new.refs[i] = r
        BY <3>1, <2>4
      <4>2. ASSUME NEW j \in DOMAIN new.refs, j # i PROVE new.refs[j].label # name
        <5>1. j \in DOMAIN old.refs /\ new.refs[j] = old.refs[j]
          BY <4>2, <3>1, <2>2, <2>4
        <5> QED BY <5>1, <2>6
      <4>3. ~ Enables(text, name)
        BY <2>5, EnablesOldOrNew
      <4> QED BY <4>1, <4>2, <4>3, <2>1, <1>0
    <3>2. CASE i # Len(old.refs) + 1
      <4>1. i \in DOMAIN old.refs \ DOMAIN text.refs /\ new.refs[i] = old.refs[i]
        BY <3>2, <2>2, <2>4
      <4>2. /\ old.refs[i].label \in D \cap Gpio /\ ~ Enables(text, old.refs[i].label)
            /\ old.refs[i].ngpio = args.ngpio[old.refs[i].label]
            /\ \A j \in DOMAIN old.refs : old.refs[j].label = old.refs[i].label => j = i
        BY <4>1 DEF MoreRefs
      <4>3. ASSUME NEW j \in DOMAIN new.refs, new.refs[j].label = new.refs[i].label PROVE j = i
        <5>1. CASE j = Len(old.refs) + 1
          BY <5>1, <4>3, <4>1, <4>2, <2>1, <2>4
        <5>2. CASE j # Len(old.refs) + 1
          <6>1. j \in DOMAIN old.refs /\ new.refs[j] = old.refs[j]
            BY <5>2, <2>2, <2>4
          <6> QED BY <6>1, <4>1, <4>2, <4>3
        <5> QED BY <5>1, <5>2
      <4> QED BY <4>1, <4>2, <4>3
    <3> QED BY <3>1, <3>2
  <2>9. ASSUME NEW b \in (D \cup {name}) \cap Gpio PROVE Enables(new, b) \/ Shadowed(text, b)
    <3>1. ToSet(new.refs) = ToSet(old.refs) \cup {r}
      BY <2>3, AppendRange
    <3>2. b \in D => Enables(old, b) \/ Shadowed(text, b)
      BY DEF MoreRefs
    <3> QED BY <3>1, <3>2, <2>1 DEF Enables
  <2> QED BY <2>7, <2>8, <2>9 DEF MoreRefs
<1> QED BY <1>1, <1>2

\* The banks whose options come with a count.
Banked == {"buttons", "rgb_leds", "seven_seg", "seven_seg_ctrl"}

\* A bank's node and its reference, whether or not they were there.
LEMMA InsertAndAppend ==
  ASSUME NEW text, IsText(text), NEW old, NEW args, NEW D, Amended(text, old, args, D),
         NEW name \in Banked, name \notin D, name = "seven_seg" => "seven_seg_ctrl" \notin D,
         NEW irq, name = "buttons" => irq = args.irq
  PROVE  Amended(text, append_gpio_ref(insert_gpio_node(old, name, args.base[name], irq),
                                       name, args.ngpio[name]),
                 args, D \cup {name})
<1>0. name \in Sought /\ name \in Enabled \ {"switches"} /\ name \in Label /\ Kind(name) = "gpio"
  BY WordsOf DEF Banked, Sought, Enabled, Kind
<1> DEFINE n   == Node(name, Kind(name), args.base[name], irq)
           mid == insert_gpio_node(old, name, args.base[name], irq)
           new == append_gpio_ref(mid, name, args.ngpio[name])
<1>1. IsText(old) /\ MoreNodes(text, old, args, D) /\ MoreRefs(text, old, args, D)
  BY DEF Amended
<1>2. /\ IsText(mid) /\ mid.refs = old.refs /\ mid.marker = old.marker
      /\ \/ Has(old, name) /\ mid.soc = old.soc
         \/ ~ Has(old, name) /\ mid.soc = Append(old.soc, n)
  <2>1. HasNode(old, "gpio", name) <=> Has(old, name)
    BY <1>0, <1>1, HasNodeTest
  <2>2. CASE Has(old, name)
    BY <2>1, <2>2, <1>1 DEF insert_gpio_node
  <2>3. CASE ~ Has(old, name)
    <3>1. mid = Insert(old, n)
      BY <2>1, <2>3, <1>0 DEF insert_gpio_node
    <3>2. /\ IsText(Insert(old, n)) /\ Insert(old, n).soc = Append(old.soc, n)
          /\ Insert(old, n).refs = old.refs /\ Insert(old, n).marker = old.marker
      BY <1>0, <1>1, InsertNode
    <3> HIDE DEF mid, n
    <3> QED BY <3>1, <3>2, <2>3
  <2> QED BY <2>2, <2>3
<1> HIDE DEF mid
<1>3. /\ IsText(new) /\ new.soc = mid.soc /\ new.marker = mid.marker
      /\ \/ Mentions(mid, name) /\ new.refs = mid.refs
         \/ ~ Mentions(mid, name) /\ new.refs = Append(mid.refs, Ref(name, args.ngpio[name]))
  <2>1. CASE Mentions(mid, name)
    BY <2>1, <1>2 DEF append_gpio_ref
  <2>2. CASE ~ Mentions(mid, name)
    <3>1. new = [mid EXCEPT !.refs = Append(@, Ref(name, args.ngpio[name]))]
      BY <2>2 DEF append_gpio_ref
    <3> HIDE DEF new
    <3> QED BY <3>1, <2>2, <1>0, <1>2, AppendReference
  <2> QED BY <2>1, <2>2
<1> HIDE DEF new
<1>4. Mentions(mid, name) <=> Mentions(old, name)
  BY <1>2 DEF Mentions
<1>5. MoreNodes(text, new, args, D \cup {name})
  BY <1>0, <1>1, <1>2, <1>3, OneMoreNode DEF n
<1>6. MoreRefs(text, new, args, D \cup {name})
  BY <1>0, <1>1, <1>2, <1>3, <1>4, OneMoreRef
<1>7. new.marker = text.marker
  BY <1>2, <1>3 DEF Amended
<1>8. Amended(text, new, args, D \cup {name})
  BY <1>3, <1>5, <1>6, <1>7 DEF Amended
<1> QED BY <1>8 DEF new, mid

\* patch_inputs: the counts of LEDs and switches, then the buttons.
LEMMA PatchInputs ==
  ASSUME NEW text, IsText(text), NEW args \in Args
  PROVE  Amended(SetCounts(text, args), patch_inputs(text, args), args,
                 Taken(args) \cap {"buttons"})
<1> DEFINE set == SetCounts(text, args)
<1>1. IsText(set)
  BY CountsSet DEF Recounted
<1>2. patch_inputs(text, args)
        = IF ~ Given(args, "buttons") THEN set
          ELSE append_gpio_ref(insert_gpio_node(set, "buttons", args.base["buttons"], args.irq),
                               "buttons", args.ngpio["buttons"])
  BY DEF patch_inputs, SetCounts, append_buttons_ref, insert_buttons_node
<1> HIDE DEF set
<1>3. Amended(set, set, args, {})
  BY <1>1, NothingAdded
<1>4. CASE "buttons" \in Taken(args)
  <2>1. Given(args, "buttons")
    BY <1>4 DEF Taken, Given
  <2>2. /\ "buttons" \in Banked /\ "buttons" \notin {} /\ "buttons" # "seven_seg"
        /\ \A irq : irq = args.irq => ("buttons" = "buttons" => irq = args.irq)
    BY DEF Banked
  <2>3. Amended(set, append_gpio_ref(insert_gpio_node(set, "buttons", args.base["buttons"], args.irq),
                                     "buttons", args.ngpio["buttons"]),
                args, {} \cup {"buttons"})
    BY <1>1, <1>3, <2>2, InsertAndAppend, Zenon
  <2>4. Amended(set, patch_inputs(text, args), args, {} \cup {"buttons"})
    BY <1>2, <2>1, <2>3, Zenon
  <2>5. Taken(args) \cap {"buttons"} = {} \cup {"buttons"}
    BY <1>4
  <2> QED BY <2>4, <2>5 DEF set
<1>5. CASE "buttons" \notin Taken(args)
  <2>1. ~ Given(args, "buttons")
    BY <1>5 DEF Taken, Given, Bank
  <2>2. patch_inputs(text, args) = set
    BY <1>2, <2>1
  <2>3. Taken(args) \cap {"buttons"} = {}
    BY <1>5
  <2> QED BY <1>3, <2>2, <2>3 DEF set
<1> QED BY <1>4, <1>5

\* One turn of the loop over extra_outputs.
LEMMA ExtraOutput ==
  ASSUME NEW text, IsText(text), NEW args \in Args, NEW old, NEW S,
         Amended(text, old, args, Taken(args) \cap S),
         NEW name \in {"rgb_leds", "seven_seg", "seven_seg_ctrl"}, name \notin S,
         name = "seven_seg" => "seven_seg_ctrl" \notin S
  PROVE  Amended(text, extra_output(old, args, name), args, Taken(args) \cap (S \cup {name}))
<1>0. name \in Bank /\ name \in Banked /\ args.ngpio[name] \in Nat
  BY DEF Bank, Banked, Args, Gpio
<1>1. CASE name \in Taken(args)
  <2>1. Given(args, name) /\ ~ (args.ngpio[name] <= 0)
    BY <1>1, <1>0 DEF Taken, Given
  <2>2. extra_output(old, args, name)
          = append_gpio_ref(insert_gpio_node(old, name, args.base[name], None),
                            name, args.ngpio[name])
    BY <2>1 DEF extra_output
  <2>3. Amended(text, extra_output(old, args, name), args, (Taken(args) \cap S) \cup {name})
    BY <2>2, <1>0, InsertAndAppend
  <2>4. Taken(args) \cap (S \cup {name}) = (Taken(args) \cap S) \cup {name}
    BY <1>1
  <2> QED BY <2>3, <2>4
<1>2. CASE name \notin Taken(args)
  <2>1. ~ Given(args, name) \/ args.ngpio[name] <= 0
    BY <1>2, <1>0 DEF Taken, Given
  <2>2. extra_output(old, args, name) = old
    BY <2>1 DEF extra_output
  <2>3. Taken(args) \cap (S \cup {name}) = Taken(args) \cap S
    BY <1>2
  <2> QED BY <2>2, <2>3
<1> QED BY <1>1, <1>2

\* One more bank that is not GPIO, and so has no reference.
LEMMA OneMoreSensor ==
  ASSUME NEW text, IsText(text), NEW old, NEW args, NEW D, Amended(text, old, args, D),
         NEW name \in {"xadc", "temp_i2c"}, name \notin D, NEW new,
         \/ Has(old, name) /\ new = old
         \/ ~ Has(old, name) /\ new = Insert(old, Node(name, Kind(name), args.base[name], None))
  PROVE  Amended(text, new, args, D \cup {name})
<1> DEFINE n == Node(name, Kind(name), args.base[name], None)
<1>0. name \in Label /\ name \notin Gpio /\ name # "buttons"
  BY WordsOf DEF Gpio
<1>1. IsText(old) /\ MoreNodes(text, old, args, D) /\ MoreRefs(text, old, args, D)
  BY DEF Amended
<1>2. /\ IsText(new) /\ new.refs = old.refs /\ new.marker = old.marker
      /\ \/ Has(old, name) /\ new.soc = old.soc
         \/ ~ Has(old, name) /\ new.soc = Append(old.soc, n)
  <2>1. CASE Has(old, name)
    BY <2>1, <1>1
  <2>2. CASE ~ Has(old, name)
    <3>1. new = Insert(old, n)
      BY <2>2
    <3>2. /\ IsText(Insert(old, n)) /\ Insert(old, n).soc = Append(old.soc, n)
          /\ Insert(old, n).refs = old.refs /\ Insert(old, n).marker = old.marker
      BY <1>0, <1>1, InsertNode
    <3> HIDE DEF n
    <3> QED BY <3>1, <3>2, <2>2
  <2> QED BY <2>1, <2>2
<1>3. MoreNodes(text, new, args, D \cup {name})
  BY <1>0, <1>1, <1>2, OneMoreNode
<1>4. MoreRefs(text, new, args, D \cup {name})
  <2>1. (D \cup {name}) \cap Gpio = D \cap Gpio
    BY <1>0
  <2> QED BY <1>1, <1>2, <2>1 DEF MoreRefs, Enables
<1> QED BY <1>1, <1>2, <1>3, <1>4 DEF Amended

\* The XADC's node.
LEMMA InsertXadc ==
  ASSUME NEW text, IsText(text)
  PROVE  \A base : \/ Has(text, "xadc") /\ insert_xadc_node(text, base) = text
                  \/ /\ ~ Has(text, "xadc")
                     /\ insert_xadc_node(text, base) = Insert(text, Node("xadc", Kind("xadc"), base, None))
<1>1. \A n \in ToSet(text.soc) : n.kind = "hwmon" <=> n.label = "xadc"
  BY DEF IsText, Kind
<1>2. (\E n \in ToSet(text.soc) : n.kind = "hwmon") <=> Has(text, "xadc")
  BY <1>1 DEF Has
<1>3. Kind("xadc") = "hwmon"
  BY DEF Kind
<1> QED BY <1>2, <1>3 DEF insert_xadc_node

\* The ambient sensor's bus.
LEMMA InsertI2c ==
  ASSUME NEW text, IsText(text)
  PROVE  \A base : \/ Has(text, "temp_i2c") /\ insert_i2c_node(text, "temp_i2c", base) = text
                  \/ /\ ~ Has(text, "temp_i2c")
                     /\ insert_i2c_node(text, "temp_i2c", base)
                          = Insert(text, Node("temp_i2c", Kind("temp_i2c"), base, None))
<1>1. \A n \in ToSet(text.soc) : n.kind = "i2c" <=> n.label = "temp_i2c"
  BY DEF IsText, Kind
<1>2. Kind("temp_i2c") = "i2c" /\ "temp_i2c" \in Sought
  BY DEF Kind, Sought
<1>3. HasNode(text, "i2c", "temp_i2c") <=> Has(text, "temp_i2c")
  BY <1>2, HasNodeTest
<1>4. \A base : (\E n \in ToSet(text.soc) : n.kind = "i2c" /\ n.base = base) => Has(text, "temp_i2c")
  BY <1>1 DEF Has
<1> QED BY <1>2, <1>3, <1>4 DEF insert_i2c_node

\* main, up to the write of the file.
LEMMA Edited ==
  ASSUME NEW text, IsText(text), NEW args \in Args
  PROVE  Amended(SetCounts(text, args), edited(text, args), args, Taken(args))
<1> DEFINE set == SetCounts(text, args)
           inputs  == patch_inputs(text, args)
           rgb     == extra_output(inputs, args, "rgb_leds")
           seg     == extra_output(rgb, args, "seven_seg")
           outputs == extra_output(seg, args, "seven_seg_ctrl")
           sensed  == IF Given(args, "xadc") THEN insert_xadc_node(outputs, args.base["xadc"])
                      ELSE outputs
           new     == IF Given(args, "temp_i2c")
                      THEN insert_i2c_node(sensed, "temp_i2c", args.base["temp_i2c"]) ELSE sensed
           S1 == {"buttons"}
           S2 == S1 \cup {"rgb_leds"}
           S3 == S2 \cup {"seven_seg"}
           S4 == S3 \cup {"seven_seg_ctrl"}
           S5 == S4 \cup {"xadc"}
           S6 == S5 \cup {"temp_i2c"}
<1>0. IsText(set)
  BY CountsSet DEF Recounted
<1>1. Amended(set, inputs, args, Taken(args) \cap S1)
  BY PatchInputs
<1> HIDE DEF inputs, set
<1>2. Amended(set, rgb, args, Taken(args) \cap S2)
  BY <1>0, <1>1, ExtraOutput
<1> HIDE DEF rgb
<1>3. Amended(set, seg, args, Taken(args) \cap S3)
  BY <1>0, <1>2, ExtraOutput
<1> HIDE DEF seg
<1>4. Amended(set, outputs, args, Taken(args) \cap S4)
  BY <1>0, <1>3, ExtraOutput
<1> HIDE DEF outputs
<1>5. Amended(set, sensed, args, Taken(args) \cap S5)
  <2>1. IsText(outputs)
    BY <1>4 DEF Amended
  <2>2. CASE "xadc" \in Taken(args)
    <3>1. sensed = insert_xadc_node(outputs, args.base["xadc"])
      BY <2>2 DEF Taken, Given
    <3>2. Taken(args) \cap S5 = (Taken(args) \cap S4) \cup {"xadc"} /\ "xadc" \notin Taken(args) \cap S4
      BY <2>2
    <3> HIDE DEF sensed, S4, S5
    <3>3. Amended(set, sensed, args, (Taken(args) \cap S4) \cup {"xadc"})
      BY <1>0, <1>4, <2>1, <3>1, <3>2, InsertXadc, OneMoreSensor
    <3> QED BY <3>2, <3>3
  <2>3. CASE "xadc" \notin Taken(args)
    <3>1. sensed = outputs
      BY <2>3 DEF Taken, Given, Bank
    <3>2. Taken(args) \cap S5 = Taken(args) \cap S4
      BY <2>3
    <3> QED BY <1>4, <3>1, <3>2
  <2> QED BY <2>2, <2>3
<1> HIDE DEF sensed
<1>6. Amended(set, new, args, Taken(args) \cap S6)
  <2>1. IsText(sensed)
    BY <1>5 DEF Amended
  <2>2. CASE "temp_i2c" \in Taken(args)
    <3>1. new = insert_i2c_node(sensed, "temp_i2c", args.base["temp_i2c"])
      BY <2>2 DEF Taken, Given
    <3>2. Taken(args) \cap S6 = (Taken(args) \cap S5) \cup {"temp_i2c"} /\ "temp_i2c" \notin Taken(args) \cap S5
      BY <2>2
    <3> HIDE DEF new, S5, S6
    <3>3. Amended(set, new, args, (Taken(args) \cap S5) \cup {"temp_i2c"})
      BY <1>0, <1>5, <2>1, <3>1, <3>2, InsertI2c, OneMoreSensor
    <3> QED BY <3>2, <3>3
  <2>3. CASE "temp_i2c" \notin Taken(args)
    <3>1. new = sensed
      BY <2>3 DEF Taken, Given, Bank
    <3>2. Taken(args) \cap S6 = Taken(args) \cap S5
      BY <2>3
    <3> QED BY <1>5, <3>1, <3>2
  <2> QED BY <2>2, <2>3
<1>7. Taken(args) \cap S6 = Taken(args)
  BY DEF Taken, Bank
<1>8. edited(text, args) = new
  BY Zenon DEF edited, inputs, rgb, seg, outputs, sensed
<1> HIDE DEF new, S6
<1> QED BY <1>6, <1>7, <1>8 DEF set

-----------------------------------------------------------------------------
(* Texts that dtc takes *)

NodesOnce(text) ==
    \A i, j \in DOMAIN text.soc : text.soc[i].label = text.soc[j].label => i = j

RefsOnce(text) ==
    \A i, j \in DOMAIN text.refs : text.refs[i].label = text.refs[j].label => i = j

RefsDefined(text) == \A r \in ToSet(text.refs) : Has(text, r.label)

\* What every text that the machine meets is.
Sound(text) == IsText(text) /\ NodesOnce(text) /\ RefsOnce(text) /\ RefsDefined(text)

\* The blocks of the LEDs and the switches have their counts.
CountsThere(text) ==
    \A i \in DOMAIN text.refs :
       text.refs[i].label \in {"leds", "switches"} => text.refs[i].ngpio # None

\* Nodes and references of a text whose counts were set.
LEMMA SameBanks ==
  ASSUME NEW text, IsText(text), NEW new, NEW args, Recounted(text, new, args), NEW name
  PROVE  /\ Has(new, name) <=> Has(text, name)
         /\ Enables(new, name) <=> Enables(text, name)
<1>1. Has(new, name) <=> Has(text, name)
  BY DEF Recounted, Has
<1>2. ASSUME Enables(new, name) PROVE Enables(text, name)
  <2>1. PICK i \in DOMAIN new.refs : new.refs[i].label = name
    BY <1>2 DEF Enables, ToSet
  <2>2. i \in DOMAIN text.refs /\ text.refs[i].label = name
    BY <2>1 DEF Recounted
  <2> QED BY <2>2 DEF Enables, ToSet
<1>3. ASSUME Enables(text, name) PROVE Enables(new, name)
  <2>1. PICK i \in DOMAIN text.refs : text.refs[i].label = name
    BY <1>3 DEF Enables, ToSet
  <2>2. i \in DOMAIN new.refs /\ new.refs[i].label = name
    BY <2>1 DEF Recounted
  <2> QED BY <2>2 DEF Enables, ToSet
<1> QED BY <1>1, <1>2, <1>3

\* Setting counts leaves a text sound.
LEMMA RecountedIsSound ==
  ASSUME NEW text, Sound(text), NEW new, NEW args, Recounted(text, new, args)
  PROVE  Sound(new)
<1>1. IsText(new) /\ NodesOnce(new) /\ RefsOnce(new)
  BY DEF Sound, Recounted, NodesOnce, RefsOnce
<1>2. ASSUME NEW r \in ToSet(new.refs) PROVE Has(new, r.label)
  <2>1. Enables(new, r.label)
    BY DEF Enables
  <2>2. Enables(text, r.label)
    BY <2>1, SameBanks DEF Sound
  <2>3. Has(text, r.label)
    BY <2>2 DEF Enables, Sound, RefsDefined
  <2> QED BY <2>3, SameBanks DEF Sound
<1> QED BY <1>1, <1>2 DEF Sound, RefsDefined

\* So does adding banks.
LEMMA AmendedIsSound ==
  ASSUME NEW text, Sound(text), NEW new, NEW args, NEW D, Amended(text, new, args, D)
  PROVE  Sound(new)
<1>0. IsText(text) /\ IsText(new) /\ MoreNodes(text, new, args, D) /\ MoreRefs(text, new, args, D)
  BY DEF Sound, Amended
<1>1. ASSUME NEW i \in DOMAIN new.soc, NEW j \in DOMAIN new.soc,
             new.soc[i].label = new.soc[j].label
      PROVE  i = j
  <2>1. CASE i \in DOMAIN text.soc /\ j \in DOMAIN text.soc
    <3>1. new.soc[i] = text.soc[i] /\ new.soc[j] = text.soc[j]
      BY <1>0, <2>1 DEF MoreNodes
    <3> QED BY <3>1, <1>1, <2>1 DEF Sound, NodesOnce
  <2>2. CASE i \notin DOMAIN text.soc
    BY <1>0, <1>1, <2>2 DEF MoreNodes
  <2>3. CASE j \notin DOMAIN text.soc
    BY <1>0, <1>1, <2>3 DEF MoreNodes
  <2> QED BY <2>1, <2>2, <2>3
<1>2. ASSUME NEW i \in DOMAIN new.refs, NEW j \in DOMAIN new.refs,
             new.refs[i].label = new.refs[j].label
      PROVE  i = j
  <2>1. CASE i \in DOMAIN text.refs /\ j \in DOMAIN text.refs
    <3>1. new.refs[i] = text.refs[i] /\ new.refs[j] = text.refs[j]
      BY <1>0, <2>1 DEF MoreRefs
    <3> QED BY <3>1, <1>2, <2>1 DEF Sound, RefsOnce
  <2>2. CASE i \notin DOMAIN text.refs
    BY <1>0, <1>2, <2>2 DEF MoreRefs
  <2>3. CASE j \notin DOMAIN text.refs
    BY <1>0, <1>2, <2>3 DEF MoreRefs
  <2> QED BY <2>1, <2>2, <2>3
<1>3. ASSUME NEW r \in ToSet(new.refs) PROVE Has(new, r.label)
  <2>1. Enables(new, r.label)
    BY DEF Enables
  <2>2. Enables(text, r.label) \/ r.label \in D
    BY <1>0, <2>1, EnablesOldOrNew
  <2>3. CASE Enables(text, r.label)
    <3>1. Has(text, r.label)
      BY <2>3 DEF Enables, Sound, RefsDefined
    <3> QED BY <3>1, <1>0, HasOldOrNew
  <2>4. CASE r.label \in D
    BY <1>0, <2>4 DEF MoreNodes
  <2> QED BY <2>2, <2>3, <2>4
<1> QED BY <1>0, <1>1, <1>2, <1>3 DEF Sound, NodesOnce, RefsOnce, RefsDefined

\* The patcher leaves a sound text sound, whatever its arguments.
LEMMA PatchedIsSound ==
  ASSUME NEW text, Sound(text), NEW args \in Args
  PROVE  Sound(edited(text, args)) /\ Sound(Patched(text, args))
<1>1. IsText(text)
  BY DEF Sound
<1>2. Sound(SetCounts(text, args))
  BY <1>1, CountsSet, RecountedIsSound
<1>3. Sound(edited(text, args))
  BY <1>1, <1>2, Edited, AmendedIsSound
<1> QED BY <1>3 DEF Patched

-----------------------------------------------------------------------------
(* Texts in which each block has its own count *)

\* A block's own count is the first behind it, and is set.
LEMMA SetsItsOwn ==
  ASSUME NEW text, IsText(text), RefsOnce(text), CountsThere(text),
         NEW ref \in {"leds", "switches"}, NEW ngpio, NEW j \in DOMAIN text.refs
  PROVE  patch_ref_ngpio(text, ref, ngpio).refs[j]
           = IF text.refs[j].label = ref THEN Ref(ref, ngpio) ELSE text.refs[j]
<1> DEFINE new == patch_ref_ngpio(text, ref, ngpio)
<1>1. Len(text.refs) \in Nat /\ DOMAIN text.refs = 1..Len(text.refs)
  BY TextDomains
<1>2. ASSUME NEW i, IsFirst(text, ref, i)
      PROVE  text.refs[i].label = ref
  <2>1. PICK k \in 1..i : text.refs[k].label = ref
    BY <1>2 DEF IsFirst, Counts
  <2>2. i \in DOMAIN text.refs /\ k \in DOMAIN text.refs /\ k \in 1..k /\ k <= i
    BY <1>1, <1>2, <2>1 DEF IsFirst, Counts
  <2>3. text.refs[k].ngpio # None
    BY <2>1, <2>2 DEF CountsThere
  <2>4. k \in Counts(text, ref)
    BY <2>1, <2>2, <2>3 DEF Counts
  <2>5. k = i
    BY <1>2, <2>2, <2>4, <1>1 DEF IsFirst
  <2> QED BY <2>1, <2>5
<1>3. CASE Counts(text, ref) = {} /\ new = text
  <2>1. text.refs[j].label # ref
    <3>1. SUFFICES ASSUME text.refs[j].label = ref PROVE FALSE
      OBVIOUS
    <3>2. text.refs[j].ngpio # None /\ j \in 1..j
      BY <3>1, <1>1 DEF CountsThere
    <3> QED BY <3>1, <3>2, <1>3 DEF Counts
  <2> QED BY <2>1, <1>3
<1>4. ASSUME NEW i, IsFirst(text, ref, i),
             new = [text EXCEPT !.refs[i].ngpio = ngpio]
      PROVE  new.refs[j] = IF text.refs[j].label = ref THEN Ref(ref, ngpio) ELSE text.refs[j]
  <2>1. i \in DOMAIN text.refs /\ text.refs[i].label = ref
    BY <1>2, <1>4 DEF IsFirst, Counts
  <2>2. text.refs[j].label = ref <=> j = i
    BY <2>1 DEF RefsOnce
  <2> HIDE DEF new
  <2>3. new.refs[j] = IF j = i THEN Ref(text.refs[i].label, ngpio) ELSE text.refs[j]
    BY <1>4, <2>1, SetCount
  <2> QED BY <2>1, <2>2, <2>3
<1>5. CASE Counts(text, ref) = {}
  BY <1>3, <1>5, NoCount
<1>6. CASE Counts(text, ref) # {}
  <2>1. PICK i : IsFirst(text, ref, i) /\ new = [text EXCEPT !.refs[i].ngpio = ngpio]
    BY <1>6, FirstCount
  <2> QED BY <2>1, <1>4
<1> QED BY <1>5, <1>6

\* The counts of the LEDs and the switches are those of the arguments.
LEMMA OwnCountsSet ==
  ASSUME NEW text, Sound(text), CountsThere(text), NEW args \in Args,
         NEW j \in DOMAIN text.refs
  PROVE  SetCounts(text, args).refs[j]
           = IF text.refs[j].label \in {"leds", "switches"}
             THEN Ref(text.refs[j].label, args.ngpio[text.refs[j].label]) ELSE text.refs[j]
<1> DEFINE lit == patch_ref_ngpio(text, "leds", args.ngpio["leds"])
           set == patch_ref_ngpio(lit, "switches", args.ngpio["switches"])
<1>0. IsText(text) /\ RefsOnce(text)
  BY DEF Sound
<1>1. \A i \in DOMAIN text.refs :
         lit.refs[i] = IF text.refs[i].label = "leds" THEN Ref("leds", args.ngpio["leds"])
                       ELSE text.refs[i]
  BY <1>0, SetsItsOwn
<1>2. Recounted(text, text, args)
  BY <1>0 DEF Recounted, CountKept
<1>3. Recounted(text, lit, args)
  BY <1>0, <1>2, Recount
<1>4. SetCounts(text, args) = IF Mentions(lit, "switches") THEN set ELSE lit
  BY DEF SetCounts
<1> HIDE DEF lit
<1>5. IsText(lit) /\ RefsOnce(lit) /\ CountsThere(lit) /\ DOMAIN lit.refs = DOMAIN text.refs
  BY <1>0, <1>3 DEF Recounted, RefsOnce, CountsThere
<1>6. \A i \in DOMAIN text.refs :
         set.refs[i] = IF lit.refs[i].label = "switches" THEN Ref("switches", args.ngpio["switches"])
                       ELSE lit.refs[i]
  BY <1>5, SetsItsOwn
<1> HIDE DEF set
<1>7. lit.refs[j].label = text.refs[j].label
  BY <1>3 DEF Recounted
<1>8. ASSUME ~ Mentions(lit, "switches") PROVE lit.refs[j].label # "switches"
  <2>1. ~ Enables(lit, "switches")
    BY <1>5, <1>8, MentionsTest DEF Enabled
  <2> QED BY <2>1, <1>5 DEF Enables, ToSet
<1>9. CASE Mentions(lit, "switches")
  BY <1>1, <1>4, <1>6, <1>7, <1>9
<1>10. CASE ~ Mentions(lit, "switches")
  BY <1>1, <1>4, <1>7, <1>8, <1>10
<1> QED BY <1>9, <1>10

\* Two sequences with the same elements.
LEMMA SameSequence ==
  ASSUME NEW s, NEW t, Sequence(s), Sequence(t), Len(s) = Len(t), \A i \in DOMAIN s : s[i] = t[i]
  PROVE  s = t
<1>1. PICK S : s \in Seq(S)
  BY DEF Sequence
<1>2. PICK T : t \in Seq(T)
  BY DEF Sequence
<1>3. s \in Seq(S \cup T) /\ t \in Seq(S \cup T)
  BY <1>1, <1>2
<1> QED BY <1>3

\* A call on what a call has left finds everything done.
LEMMA EditedTwice ==
  ASSUME NEW old, Sound(old), NEW args \in Args, CountsThere(edited(old, args))
  PROVE  edited(edited(old, args), args) = edited(old, args)
<1> DEFINE set == SetCounts(old, args)
           text == edited(old, args)
<1>1. IsText(old) /\ Recounted(old, set, args) /\ Amended(set, text, args, Taken(args))
  BY CountsSet, Edited DEF Sound
<1>2. Sound(text)
  BY PatchedIsSound
<1>3. \A j \in DOMAIN old.refs :
         CountsThere(old) =>
           set.refs[j] = IF old.refs[j].label \in {"leds", "switches"}
                         THEN Ref(old.refs[j].label, args.ngpio[old.refs[j].label]) ELSE old.refs[j]
  BY OwnCountsSet
<1>4. CountsThere(text)
  OBVIOUS
<1> HIDE DEF set, text
<1>5. IsText(text) /\ IsText(set) /\ MoreNodes(set, text, args, Taken(args))
      /\ MoreRefs(set, text, args, Taken(args))
  BY <1>1 DEF Amended, Recounted
<1>6. CountsThere(old)
  <2> SUFFICES ASSUME NEW i \in DOMAIN old.refs, old.refs[i].label \in {"leds", "switches"}
               PROVE  old.refs[i].ngpio # None
    BY DEF CountsThere
  <2>1. /\ i \in DOMAIN set.refs /\ set.refs[i].label = old.refs[i].label
        /\ set.refs[i].ngpio = None <=> old.refs[i].ngpio = None
    BY <1>1 DEF Recounted
  <2>2. i \in DOMAIN text.refs /\ text.refs[i] = set.refs[i]
    BY <2>1, <1>5, TextDomains DEF MoreRefs
  <2> QED BY <2>1, <2>2, <1>4 DEF CountsThere
<1>7. ASSUME NEW j \in DOMAIN text.refs, text.refs[j].label \in {"leds", "switches"}
      PROVE  text.refs[j] = Ref(text.refs[j].label, args.ngpio[text.refs[j].label])
  <2>1. j \in DOMAIN set.refs
    <3>1. text.refs[j].label \notin Taken(args)
      BY <1>7 DEF Taken, Bank
    <3> QED BY <3>1, <1>5 DEF MoreRefs
  <2>2. text.refs[j] = set.refs[j]
    BY <2>1, <1>5 DEF MoreRefs
  <2>3. j \in DOMAIN old.refs /\ set.refs[j].label = old.refs[j].label
    BY <2>1, <1>1 DEF Recounted
  <2> QED BY <2>2, <2>3, <1>3, <1>6, <1>7
<1>8. SetCounts(text, args) = text
  <2> DEFINE again == SetCounts(text, args)
  <2>1. Recounted(text, again, args)
    BY <1>5, CountsSet
  <2>2. \A j \in DOMAIN text.refs :
           again.refs[j] = IF text.refs[j].label \in {"leds", "switches"}
                           THEN Ref(text.refs[j].label, args.ngpio[text.refs[j].label]) ELSE text.refs[j]
    BY <1>2, <1>4, OwnCountsSet
  <2> HIDE DEF again
  <2>3. \A j \in DOMAIN text.refs : text.refs[j] = again.refs[j]
    BY <2>2, <1>7
  <2>4. /\ Sequence(text.refs) /\ Sequence(again.refs) /\ Len(again.refs) = Len(text.refs)
        /\ again.soc = text.soc /\ again.marker = text.marker
        /\ again = [soc |-> again.soc, marker |-> again.marker, refs |-> again.refs]
        /\ text = [soc |-> text.soc, marker |-> text.marker, refs |-> text.refs]
    BY <1>5, <2>1 DEF Recounted, IsText
  <2>5. text.refs = again.refs
    BY <2>3, <2>4, SameSequence
  <2>6. again = text
    BY <2>4, <2>5
  <2> QED BY <2>6 DEF again
<1>9. ASSUME NEW b \in Taken(args) PROVE Has(text, b)
  BY <1>5 DEF MoreNodes
<1>10. ASSUME NEW b \in Taken(args) \cap Banked PROVE Mentions(text, b)
  <2>0. b \in Gpio /\ b \in Enabled
    BY DEF Banked, Gpio, Enabled
  <2>1. Enables(text, b) \/ Shadowed(set, b)
    BY <2>0, <1>5 DEF MoreRefs
  <2>2. Shadowed(set, b) => b = "seven_seg" /\ Enables(text, "seven_seg_ctrl")
    BY <1>5, EnablesOldOrNew DEF Shadowed
  <2> QED BY <2>0, <2>1, <2>2, <1>5, MentionsTest
<1>11. ASSUME NEW b \in Taken(args) \cap Banked, NEW base, NEW irq, NEW n
       PROVE  append_gpio_ref(insert_gpio_node(text, b, base, irq), b, n) = text
  <2>1. HasNode(text, "gpio", b)
    <3>1. b \in Sought /\ Kind(b) = "gpio"
      BY DEF Banked, Sought, Kind
    <3> QED BY <3>1, <1>5, <1>9, HasNodeTest
  <2>2. insert_gpio_node(text, b, base, irq) = text
    BY <2>1 DEF insert_gpio_node
  <2> QED BY <2>2, <1>10 DEF append_gpio_ref
<1>12. patch_inputs(text, args) = text
  <2>1. Given(args, "buttons") => "buttons" \in Taken(args) \cap Banked
    BY DEF Given, Taken, Banked, Bank
  <2>2. Given(args, "buttons") =>
          append_buttons_ref(insert_buttons_node(text, args.base["buttons"], args.irq),
                             args.ngpio["buttons"]) = text
    BY <2>1, <1>11 DEF append_buttons_ref, insert_buttons_node
  <2>3. patch_inputs(text, args)
          = IF ~ Given(args, "buttons") THEN SetCounts(text, args)
            ELSE append_buttons_ref(insert_buttons_node(SetCounts(text, args), args.base["buttons"],
                                                        args.irq),
                                    args.ngpio["buttons"])
    BY DEF patch_inputs, SetCounts
  <2> QED BY <2>2, <2>3, <1>8
<1>13. ASSUME NEW b \in {"rgb_leds", "seven_seg", "seven_seg_ctrl"}
       PROVE  extra_output(text, args, b) = text
  <2>1. b \in Bank /\ b \in Banked /\ args.ngpio[b] \in Nat
    BY DEF Bank, Banked, Args, Gpio
  <2>2. CASE Given(args, b) /\ ~ (args.ngpio[b] <= 0)
    <3>1. b \in Taken(args)
      BY <2>1, <2>2 DEF Taken, Given
    <3> QED BY <3>1, <2>1, <2>2, <1>11 DEF extra_output
  <2>3. CASE ~ Given(args, b) \/ args.ngpio[b] <= 0
    BY <2>3 DEF extra_output
  <2> QED BY <2>2, <2>3
<1>14. Given(args, "xadc") => insert_xadc_node(text, args.base["xadc"]) = text
  <2>1. Given(args, "xadc") => "xadc" \in Taken(args)
    BY DEF Given, Taken, Bank
  <2> QED BY <2>1, <1>5, <1>9, InsertXadc
<1>15. Given(args, "temp_i2c") => insert_i2c_node(text, "temp_i2c", args.base["temp_i2c"]) = text
  <2>1. Given(args, "temp_i2c") => "temp_i2c" \in Taken(args)
    BY DEF Given, Taken, Bank
  <2> QED BY <2>1, <1>5, <1>9, InsertI2c
<1>16. edited(text, args) = text
  <2>1. /\ extra_output(text, args, "rgb_leds") = text
        /\ extra_output(text, args, "seven_seg") = text
        /\ extra_output(text, args, "seven_seg_ctrl") = text
    BY <1>13
  <2> QED BY <2>1, <1>12, <1>14, <1>15 DEF edited
<1> QED BY <1>16 DEF text

-----------------------------------------------------------------------------
(* What a call owes *)

LEMMA EditedOwes ==
  ASSUME NEW text, IsText(text), NEW args \in Args
  PROVE  Owed(text, args, edited(text, args))
<1> DEFINE set == SetCounts(text, args)
           new == edited(text, args)
<1>1. Recounted(text, set, args) /\ Amended(set, new, args, Taken(args))
  BY CountsSet, Edited
<1> HIDE DEF set, new
<1>2. /\ IsText(set) /\ IsText(new)
      /\ MoreNodes(set, new, args, Taken(args)) /\ MoreRefs(set, new, args, Taken(args))
      /\ set.soc = text.soc
  BY <1>1 DEF Recounted, Amended
<1>3. ASSUME NEW b \in Bank, Wanted(args, b)
      PROVE  /\ \E n \in ToSet(new.soc) :
                   n.label = b /\ (n \in ToSet(text.soc) \/ (~ Has(text, b) /\ n.base = args.base[b]))
             /\ b \in Gpio => Enables(new, b) \/ Shadowed(text, b)
  <2>1. b \in Taken(args)
    BY <1>3 DEF Wanted, Taken, Gpio
  <2>2. PICK i \in DOMAIN new.soc : new.soc[i].label = b
    BY <2>1, <1>2 DEF MoreNodes, Has, ToSet
  <2>3. new.soc[i] \in ToSet(new.soc)
    BY DEF ToSet
  <2>4. CASE i \in DOMAIN text.soc
    <3>1. new.soc[i] = text.soc[i]
      BY <2>4, <1>2 DEF MoreNodes
    <3>2. new.soc[i] \in ToSet(text.soc)
      BY <3>1, <2>4 DEF ToSet
    <3>3. b \in Gpio => Enables(new, b) \/ Shadowed(set, b)
      BY <2>1, <1>2 DEF MoreRefs
    <3>4. Shadowed(set, b) => Shadowed(text, b)
      BY <1>1, SameBanks DEF Shadowed
    <3> QED BY <2>2, <2>3, <3>2, <3>3, <3>4
  <2>5. CASE i \notin DOMAIN text.soc
    <3>1. ~ Has(set, b) /\ new.soc[i].base = args.base[b]
      BY <2>2, <2>5, <1>2 DEF MoreNodes
    <3>2. ~ Has(text, b)
      BY <3>1, <1>1, SameBanks
    <3>3. b \in Gpio => Enables(new, b) \/ Shadowed(set, b)
      BY <2>1, <1>2 DEF MoreRefs
    <3>4. Shadowed(set, b) => Shadowed(text, b)
      BY <1>1, SameBanks DEF Shadowed
    <3> QED BY <2>2, <2>3, <3>1, <3>2, <3>3, <3>4
  <2> QED BY <2>4, <2>5
<1>4. IsPrefix(text.soc, new.soc)
  <2>1. PICK S : text.soc \in Seq(S)
    BY DEF IsText, Sequence
  <2>2. PICK T : new.soc \in Seq(T)
    BY <1>2 DEF IsText, Sequence
  <2>3. text.soc \in Seq(S \cup T) /\ new.soc \in Seq(S \cup T)
    BY <2>1, <2>2
  <2>4. /\ Len(text.soc) <= Len(new.soc) /\ DOMAIN text.soc = 1..Len(text.soc)
        /\ \A i \in DOMAIN text.soc : new.soc[i] = text.soc[i]
    BY <1>2, TextDomains DEF MoreNodes
  <2> QED BY <2>3, <2>4, PrefixElements
<1>5. ASSUME NEW i \in DOMAIN text.refs
      PROVE  /\ new.refs[i].label = text.refs[i].label
             /\ \/ new.refs[i].ngpio = text.refs[i].ngpio
                \/ /\ new.refs[i].label \in {"leds", "switches"}
                   /\ new.refs[i].ngpio = args.ngpio[new.refs[i].label]
                \/ Overrun(text, i)
  <2>1. /\ i \in DOMAIN set.refs /\ set.refs[i].label = text.refs[i].label
        /\ CountKept(text, set, args, i)
    BY <1>1 DEF Recounted
  <2>2. new.refs[i] = set.refs[i]
    BY <2>1, <1>2 DEF MoreRefs
  <2> QED BY <2>1, <2>2 DEF CountKept
<1>6. Owed(text, args, new)
  BY <1>3, <1>4, <1>5 DEF Owed
<1> QED BY <1>6 DEF new

-----------------------------------------------------------------------------
(* The SoC *)

\* The names of the cores that LiteX gives their slots: the LEDs are always
\* among them, and none that has a slot of its own.
LEMMA OtherCoresNames ==
  ASSUME NEW on
  PROVE  /\ OtherCores(on) \cap (Bank \cup {"switches"}) = {}
         /\ "leds" \in OtherCores(on)
  BY DEF OtherCores, VideoCores, Bank

\* The banks of LocalSoC are where it asks for them, and nowhere else.
LEMMA SlotsOf ==
  ASSUME NEW on, NEW target
  PROVE  /\ \A b \in LocalCores(on, target) :
               b \in DOMAIN Slots(on, target) /\ Slots(on, target)[b] = LocalSlots[b]
         /\ \A b \in Bank \cup {"switches"} :
               b \in DOMAIN Slots(on, target) => b \in LocalCores(on, target)
         /\ "leds" \in DOMAIN Slots(on, target)
<1> DEFINE asked == DOMAIN CpuSlots \cup LocalCores(on, target)
           slot  == [name \in asked |-> IF name \in DOMAIN CpuSlots THEN CpuSlots[name]
                                        ELSE LocalSlots[name]]
           free  == 0..31 \ Range(slot)
           other == OtherCores(on)
           given(name) == CHOOSE n \in free : Cardinality({m \in free : m < n})
                                = Cardinality({c \in other : Place[c] < Place[name]})
<1>1. Slots(on, target) = [name \in asked \cup other |->
                             IF name \in asked THEN slot[name] ELSE given(name)]
  BY Zenon DEF Slots
<1> HIDE DEF given
<1>2. LocalCores(on, target) \cap DOMAIN CpuSlots = {}
  BY DEF LocalCores, LocalSlots, CpuSlots
<1>3. \A b \in LocalCores(on, target) : b \in asked /\ slot[b] = LocalSlots[b]
  BY <1>2
<1>4. (Bank \cup {"switches"}) \cap DOMAIN CpuSlots = {}
  BY DEF Bank, CpuSlots
<1> HIDE DEF asked, slot, free, other
<1>5. /\ DOMAIN Slots(on, target) = asked \cup other
      /\ \A b \in asked : Slots(on, target)[b] = slot[b]
  BY <1>1
<1> QED BY <1>3, <1>4, <1>5, OtherCoresNames DEF asked, other

\* Which banks that is: those whose option is on, and with the GPIO display
\* its second bank.
LEMMA BanksOf ==
  ASSUME NEW on \in SUBSET Option, NEW target \in Target
  PROVE  /\ \A b \in (Bank \cup {"switches"}) \ {"seven_seg_ctrl"} :
               b \in DOMAIN Slots(on, target) <=> b \in on
         /\ "seven_seg_ctrl" \in DOMAIN Slots(on, target)
               <=> target = "gpio" /\ "seven_seg" \in on
         /\ \A b \in Bank \cup {"switches"} :
               b \in DOMAIN Slots(on, target) => Slots(on, target)[b] \in Nat
<1>1. "seven_seg_ctrl" \notin on
  BY DEF Option
<1>2. \A b \in Bank \cup {"switches"} : b \in DOMAIN LocalSlots /\ LocalSlots[b] \in Nat
  BY DEF Bank, LocalSlots
<1>3. \A b \in (Bank \cup {"switches"}) \ {"seven_seg_ctrl"} :
         b \in LocalCores(on, target) <=> b \in on
  BY <1>2 DEF LocalCores
<1>4. "seven_seg_ctrl" \in LocalCores(on, target) <=> target = "gpio" /\ "seven_seg" \in on
  BY <1>1 DEF LocalCores
<1>5. "seven_seg_ctrl" \in Bank
  BY DEF Bank
<1> QED BY <1>2, <1>3, <1>4, <1>5, SlotsOf

\* Interrupts are numbers.
LEMMA InterruptsTyped ==
  ASSUME NEW on
  PROVE  SwitchesInterrupt(on) \in Nat /\ ButtonsInterrupt(on) \in Nat
<1>1. IsFiniteSet({"ethernet"}) /\ IsFiniteSet({"ethernet", "switches"})
  <2>1. IsFiniteSet({"ethernet"})
    BY FS_Singleton
  <2>2. IsFiniteSet({"ethernet"} \cup {"switches"})
    BY <2>1, FS_AddElement
  <2>3. {"ethernet"} \cup {"switches"} = {"ethernet", "switches"}
    OBVIOUS
  <2> QED BY <2>1, <2>2, <2>3
<1>2. IsFiniteSet(on \cap {"ethernet"}) /\ IsFiniteSet(on \cap {"ethernet", "switches"})
  BY <1>1, FS_Subset
<1>3. /\ Cardinality(on \cap {"ethernet"}) \in Nat
      /\ Cardinality(on \cap {"ethernet", "switches"}) \in Nat
  BY <1>2, FS_CardinalityType
<1> QED BY <1>3 DEF SwitchesInterrupt, ButtonsInterrupt

\* The constants that the scripts look at.
LEMMA ConstantsOf ==
  ASSUME NEW on, NEW target, NEW soc, soc.constants = Constants(on, target)
  PROVE  /\ Constant(soc, "switches_ngpio", 4) = IF "switches" \in on THEN 16 ELSE 4
         /\ Constant(soc, "seven_seg_ngpio", 8)
              = IF "seven_seg" \in on /\ target = "local" THEN 0 ELSE 8
         /\ Constant(soc, "seven_seg_ctrl_ngpio", 8)
              = IF "seven_seg" \in on /\ target = "local" THEN 0 ELSE 8
         /\ Constant(soc, "buttons_interrupt", None) \in Nat \cup {None}
<1>1. /\ "switches_ngpio" \in ConstantNames(on, target) <=> "switches" \in on
      /\ "buttons_interrupt" \in ConstantNames(on, target) <=> "buttons" \in on
      /\ "seven_seg_ngpio" \in ConstantNames(on, target) <=> "seven_seg" \in on /\ target = "local"
      /\ "seven_seg_ctrl_ngpio" \in ConstantNames(on, target) <=> "seven_seg" \in on /\ target = "local"
  BY DEF ConstantNames
<1>2. /\ ConstantValues(on)["switches_ngpio"] = 16
      /\ ConstantValues(on)["buttons_interrupt"] = ButtonsInterrupt(on)
      /\ ConstantValues(on)["seven_seg_ngpio"] = 0
      /\ ConstantValues(on)["seven_seg_ctrl_ngpio"] = 0
  BY DEF ConstantValues
<1>3. /\ DOMAIN soc.constants = ConstantNames(on, target)
      /\ \A name \in ConstantNames(on, target) : soc.constants[name] = ConstantValues(on)[name]
  BY DEF Constants, Restrict
<1>4. \A name, default : Constant(soc, name, default)
         = IF name \in ConstantNames(on, target) THEN ConstantValues(on)[name] ELSE default
  BY <1>3 DEF Constant
<1>5. ButtonsInterrupt(on) \in Nat
  BY InterruptsTyped
<1> QED BY <1>1, <1>2, <1>3, <1>4, <1>5

\* A SoC as the target makes it, of whichever options.
IsLocal(soc, on, target) ==
    on \in SUBSET Option /\ target \in Target
    /\ soc.csr = Slots(on, target) /\ soc.constants = Constants(on, target)

\* The options that the scripts call the patcher with are options it takes.
LEMMA ScriptsArgs ==
  ASSUME NEW on, NEW target, NEW soc, IsLocal(soc, on, target)
  PROVE  PatchArgs(soc) \in Args
<1> DEFINE base  == [b \in Bank |-> IF b \in DOMAIN soc.csr THEN soc.csr[b] ELSE None]
           ngpio == [leds |-> 16, switches |-> 16, buttons |-> 5, rgb_leds |-> 6,
                     seven_seg |-> Constant(soc, "seven_seg_ngpio", 8),
                     seven_seg_ctrl |-> Constant(soc, "seven_seg_ctrl_ngpio", 8)]
           irq   == Constant(soc, "buttons_interrupt", None)
<1>1. base \in [Bank -> Nat \cup {None}]
  BY BanksOf DEF IsLocal
<1>2. /\ Constant(soc, "seven_seg_ngpio", 8) \in Nat
      /\ Constant(soc, "seven_seg_ctrl_ngpio", 8) \in Nat
  BY ConstantsOf DEF IsLocal
<1>3. ngpio \in [Gpio -> Nat]
  BY <1>2 DEF Gpio
<1>4. irq \in Nat \cup {None}
  BY ConstantsOf DEF IsLocal
<1>5. PatchArgs(soc) = [base |-> base, ngpio |-> ngpio, irq |-> irq]
  BY DEF PatchArgs
<1> HIDE DEF base, ngpio, irq
<1> QED BY <1>1, <1>3, <1>4, <1>5 DEF Args

-----------------------------------------------------------------------------
(* The slots that nobody asked for *)

\* How many of a set of slots are below one.
Below(F, n) == Cardinality({m \in F : m < n})

\* A slot more is one more if it is in the set.
LEMMA BelowNext ==
  ASSUME NEW N \in Nat, NEW F, F \subseteq 0..N, NEW n \in Nat
  PROVE  /\ IsFiniteSet({m \in F : m < n}) /\ Below(F, n) \in Nat
         /\ Below(F, n + 1) = IF n \in F THEN Below(F, n) + 1 ELSE Below(F, n)
<1> DEFINE low == {m \in F : m < n}
<1>1. IsFiniteSet(0..N)
  BY FS_Interval
<1>2. IsFiniteSet(low)
  BY <1>1, FS_Subset
<1>3. Cardinality(low) \in Nat
  BY <1>2, FS_CardinalityType
<1>4. n \notin low
  OBVIOUS
<1>5. {m \in F : m < n + 1} = IF n \in F THEN low \cup {n} ELSE low
  <2>1. \A m \in F : m \in Int
    OBVIOUS
  <2>2. \A m \in F : m < n + 1 <=> m < n \/ m = n
    BY <2>1
  <2> QED BY <2>2
<1>6. Cardinality(low \cup {n}) = Cardinality(low) + 1
  BY <1>2, <1>4, FS_AddElement
<1> QED BY <1>2, <1>3, <1>5, <1>6 DEF Below

\* Of two slots of the set more are below the higher one.
LEMMA BelowOrder ==
  ASSUME NEW N \in Nat, NEW F, F \subseteq 0..N, NEW m \in F, NEW n \in F, m < n
  PROVE  Below(F, m) < Below(F, n)
<1>0. \A k \in F : k \in Nat
  OBVIOUS
<1>1. {k \in F : k < m + 1} \subseteq {k \in F : k < n}
  <2>1. \A k \in F : k < m + 1 => k < n
    BY <1>0
  <2> QED BY <2>1
<1>2. /\ IsFiniteSet({k \in F : k < n}) /\ Below(F, n) \in Nat /\ Below(F, m) \in Nat
      /\ Below(F, m + 1) = Below(F, m) + 1
  BY <1>0, BelowNext
<1>3. Below(F, m + 1) <= Below(F, n)
  BY <1>1, <1>2, FS_Subset DEF Below
<1> QED BY <1>2, <1>3

\* A set of slots has one for each rank there is.
LEMMA NthSlot ==
  ASSUME NEW N \in Nat, NEW F, F \subseteq 0..N, NEW k \in Nat, k < Cardinality(F)
  PROVE  \E n \in F : Below(F, n) = k
<1> DEFINE C == {n \in Nat : Below(F, n + 1) > k}
<1>1. N \in C
  <2>1. \A m \in F : m < N + 1
    OBVIOUS
  <2>2. {m \in F : m < N + 1} = F
    BY <2>1
  <2> QED BY <2>2 DEF Below
<1>2. PICK n \in C : \A y \in C : n <= y
  BY <1>1, LeastElement
<1>3. Below(F, n) <= k
  <2>1. CASE n = 0
    <3>1. \A m \in F : ~ (m < 0)
      OBVIOUS
    <3>2. {m \in F : m < 0} = {}
      BY <3>1
    <3> QED BY <2>1, <3>2, FS_EmptySet DEF Below
  <2>2. CASE n # 0
    <3>1. n - 1 \in Nat /\ n - 1 \notin C
      BY <1>2, <2>2
    <3>2. (n - 1) + 1 = n
      OBVIOUS
    <3>3. Below(F, n) \in Nat
      BY BelowNext
    <3> QED BY <3>1, <3>2, <3>3
  <2> QED BY <2>1, <2>2
<1>4. Below(F, n) \in Nat /\ Below(F, n + 1) = IF n \in F THEN Below(F, n) + 1 ELSE Below(F, n)
  BY BelowNext
<1>5. Below(F, n + 1) > k
  OBVIOUS
<1> QED BY <1>3, <1>4, <1>5

\* The names of the order are finitely many, each at its place.
LEMMA Places ==
  /\ IsFiniteSet(ToSet(NameOrder)) /\ Cardinality(ToSet(NameOrder)) <= 17
  /\ \A c \in ToSet(NameOrder) : Place[c] \in 1..17 /\ NameOrder[Place[c]] = c
<1>1. NameOrder \in [1..17 -> ToSet(NameOrder)] /\ DOMAIN NameOrder = 1..17
  BY DEF NameOrder, ToSet
<1>2. \A c \in ToSet(NameOrder) : \E i \in 1..17 : NameOrder[i] = c
  BY <1>1 DEF ToSet
<1>3. NameOrder \in Surjection(1..17, ToSet(NameOrder))
  BY <1>1, <1>2 DEF Surjection
<1>4. IsFiniteSet(1..17) /\ Cardinality(1..17) = 17
  <2>1. ASSUME NEW n \in Nat PROVE IsFiniteSet(1..n) /\ Cardinality(1..n) = n
    BY FS_Interval
  <2> QED BY <2>1
<1>5. IsFiniteSet(ToSet(NameOrder)) /\ Cardinality(ToSet(NameOrder)) <= 17
  BY <1>3, <1>4, FS_Surjection
<1>6. ASSUME NEW c \in ToSet(NameOrder)
      PROVE  Place[c] \in 1..17 /\ NameOrder[Place[c]] = c
  <2>1. c \in Range(NameOrder)
    BY <1>1, <1>2 DEF Range
  <2>2. Place[c] = CHOOSE s \in 1..17 : c \in Range(NameOrder) => NameOrder[s] = c
    BY <1>1 DEF Place, Inverse
  <2>3. \E s \in 1..17 : c \in Range(NameOrder) => NameOrder[s] = c
    BY <1>2
  <2> QED BY <2>1, <2>2, <2>3
<1> QED BY <1>5, <1>6

\* How many names of a set come before one.
Rank(S, name) == Cardinality({c \in S : Place[c] < Place[name]})

\* Ranks go up with the places, from none before up to fewer than there are.
LEMMA RankOrder ==
  ASSUME NEW S, S \subseteq ToSet(NameOrder), NEW c \in S, NEW d \in S
  PROVE  /\ Rank(S, c) \in Nat /\ Rank(S, c) < Cardinality(S)
         /\ Place[c] < Place[d] => Rank(S, c) < Rank(S, d)
         /\ Place[c] = Place[d] => c = d
<1> DEFINE before(x) == {y \in S : Place[y] < Place[x]}
<1>1. \A x \in S : Place[x] \in 1..17 /\ NameOrder[Place[x]] = x
  BY Places
<1>2. IsFiniteSet(S) /\ Cardinality(S) \in Nat
  BY Places, FS_Subset, FS_CardinalityType
<1>3. ASSUME NEW x \in S
      PROVE  IsFiniteSet(before(x)) /\ Cardinality(before(x)) \in Nat
             /\ Cardinality(before(x) \cup {x}) = Cardinality(before(x)) + 1
  <2>1. IsFiniteSet(before(x))
    BY <1>2, FS_Subset
  <2>2. x \notin before(x)
    BY <1>1
  <2> QED BY <2>1, <2>2, FS_AddElement, FS_CardinalityType
<1>4. Cardinality(before(c) \cup {c}) <= Cardinality(S)
  <2>1. before(c) \cup {c} \in SUBSET S
    OBVIOUS
  <2> QED BY <1>2, <2>1, FS_Subset
<1>5. ASSUME Place[c] < Place[d]
      PROVE  Cardinality(before(c) \cup {c}) <= Cardinality(before(d))
  <2>1. before(c) \cup {c} \in SUBSET before(d)
    BY <1>1, <1>5
  <2>2. IsFiniteSet(before(d))
    BY <1>3
  <2> QED BY <2>1, <2>2, FS_Subset
<1>6. Rank(S, c) = Cardinality(before(c)) /\ Rank(S, d) = Cardinality(before(d))
  BY DEF Rank
<1> HIDE DEF before
<1>7. Rank(S, c) \in Nat /\ Rank(S, c) < Cardinality(S)
  BY <1>2, <1>3, <1>4, <1>6
<1>8. Place[c] < Place[d] => Rank(S, c) < Rank(S, d)
  <2> SUFFICES ASSUME Place[c] < Place[d] PROVE Rank(S, c) < Rank(S, d)
    OBVIOUS
  <2>1. Cardinality(before(c) \cup {c}) <= Cardinality(before(d))
    BY <1>5
  <2>2. /\ Cardinality(before(c)) \in Nat /\ Cardinality(before(d)) \in Nat
        /\ Cardinality(before(c) \cup {c}) = Cardinality(before(c)) + 1
    BY <1>3
  <2> QED BY <1>6, <2>1, <2>2
<1>9. Place[c] = Place[d] => c = d
  BY <1>1
<1> QED BY <1>7, <1>8, <1>9

\* The cores of the CPU and of LocalSoC, and the slots that they leave.
Asked(on, target) == DOMAIN CpuSlots \cup LocalCores(on, target)
Free(on, target)  == 0..31 \ {Slots(on, target)[a] : a \in Asked(on, target)}

\* The slots that are asked for: different ones, and at least as many are left
\* as there can be other cores.
LEMMA AskedSlots ==
  ASSUME NEW on, NEW target, NEW S, S = Slots(on, target)
  PROVE  /\ \A a \in Asked(on, target) :
              S[a] = IF a \in DOMAIN CpuSlots THEN CpuSlots[a] ELSE LocalSlots[a]
         /\ \A a \in Asked(on, target) : S[a] \in {2, 3} \cup 10..14 \cup 19..20
         /\ \A a, b \in Asked(on, target) : S[a] = S[b] => a = b
         /\ IsFiniteSet(Free(on, target)) /\ Cardinality(Free(on, target)) >= 17
<1> DEFINE slot  == [name \in Asked(on, target) |->
                       IF name \in DOMAIN CpuSlots THEN CpuSlots[name] ELSE LocalSlots[name]]
           other == OtherCores(on)
           given(name) == CHOOSE n \in 0..31 \ Range(slot) :
                            Cardinality({m \in 0..31 \ Range(slot) : m < n})
                              = Cardinality({c \in other : Place[c] < Place[name]})
<1>1. Slots(on, target) = [name \in Asked(on, target) \cup other |->
                             IF name \in Asked(on, target) THEN slot[name] ELSE given(name)]
  BY Zenon DEF Slots, Asked
<1> HIDE DEF given
<1>2. \A a \in Asked(on, target) : S[a] = slot[a]
  BY <1>1
<1>3. \A a \in Asked(on, target) :
         S[a] = IF a \in DOMAIN CpuSlots THEN CpuSlots[a] ELSE LocalSlots[a]
  BY <1>2
<1>4. Asked(on, target) \subseteq
         {"uart", "timer0", "switches", "buttons", "rgb_leds", "seven_seg", "seven_seg_ctrl",
          "xadc", "temp_i2c"}
  BY DEF Asked, CpuSlots, LocalCores, LocalSlots
<1>5. \A a \in Asked(on, target) :
         <<a, S[a]>> \in {<<"uart", 2>>, <<"timer0", 3>>, <<"switches", 10>>, <<"buttons", 11>>,
                          <<"rgb_leds", 12>>, <<"seven_seg", 13>>, <<"seven_seg_ctrl", 14>>,
                          <<"xadc", 19>>, <<"temp_i2c", 20>>}
  BY <1>3, <1>4 DEF CpuSlots, LocalSlots
<1>6. \A a \in Asked(on, target) : S[a] \in {2, 3} \cup 10..14 \cup 19..20
  BY <1>5
<1>7. \A a, b \in Asked(on, target) : S[a] = S[b] => a = b
  BY <1>5
<1>8. IsFiniteSet(Free(on, target)) /\ Cardinality(Free(on, target)) >= 17
  <2>1. ASSUME NEW a \in Nat, NEW b \in Nat, NEW n \in Nat, b = a + n
        PROVE  IsFiniteSet(a..b) /\ Cardinality(a..b) = n + 1
    <3>1. IsFiniteSet(a..b) /\ Cardinality(a..b) = IF a > b THEN 0 ELSE b - a + 1
      BY FS_Interval
    <3>2. ~ (a > b) /\ b - a + 1 = n + 1
      BY <2>1
    <3> QED BY <3>1, <3>2
  <2>2. IsFiniteSet(4..9) /\ Cardinality(4..9) = 6
    <3>1. 4 \in Nat /\ 9 \in Nat /\ 5 \in Nat /\ 9 = 4 + 5 /\ 6 = 5 + 1
      OBVIOUS
    <3>2. IsFiniteSet(4..9) /\ Cardinality(4..9) = 5 + 1
      BY <2>1, <3>1, Zenon
    <3> QED BY <3>1, <3>2
  <2>10. IsFiniteSet(21..31) /\ Cardinality(21..31) = 11
    <3>1. 21 \in Nat /\ 31 \in Nat /\ 10 \in Nat /\ 31 = 21 + 10 /\ 11 = 10 + 1
      OBVIOUS
    <3>2. IsFiniteSet(21..31) /\ Cardinality(21..31) = 10 + 1
      BY <2>1, <3>1, Zenon
    <3> QED BY <3>1, <3>2
  <2>11. IsFiniteSet(0..31)
    BY <2>1, 31 = 0 + 31
  <2>3. (4..9) \cap (21..31) = {}
    OBVIOUS
  <2>4. Cardinality({}) = 0
    BY FS_EmptySet
  <2>5. Cardinality((4..9) \cup (21..31)) = 17
    BY <2>2, <2>10, <2>3, <2>4, FS_Union
  <2>6. (4..9) \cup (21..31) \subseteq Free(on, target)
    <3>1. \A n \in (4..9) \cup (21..31) :
             n \in 0..31 /\ n \notin {2, 3} \cup 10..14 \cup 19..20
      OBVIOUS
    <3> QED BY <1>6, <3>1 DEF Free
  <2>7. IsFiniteSet(Free(on, target))
    BY <2>11, FS_Subset DEF Free
  <2>8. Cardinality(Free(on, target)) \in Nat
    BY <2>7, FS_CardinalityType
  <2>9. Cardinality((4..9) \cup (21..31)) <= Cardinality(Free(on, target))
    BY <2>6, <2>7, FS_Subset
  <2> QED BY <2>5, <2>7, <2>8, <2>9
<1> QED BY <1>3, <1>6, <1>7, <1>8

\* The other cores have the slots that are left, in the order of their names.
LEMMA GivenSlots ==
  ASSUME NEW on, NEW target, NEW S, S = Slots(on, target)
  PROVE  /\ DOMAIN S = Asked(on, target) \cup OtherCores(on)
         /\ Asked(on, target) \cap OtherCores(on) = {}
         /\ OtherCores(on) \subseteq ToSet(NameOrder)
         /\ \A a \in Asked(on, target) : S[a] \notin Free(on, target)
         /\ \A c \in OtherCores(on) :
              /\ S[c] \in Free(on, target)
              /\ Below(Free(on, target), S[c]) = Rank(OtherCores(on), c)
<1> SUFFICES ASSUME NEW A, A = Asked(on, target), NEW O, O = OtherCores(on),
                    NEW F, F = Free(on, target)
             PROVE  /\ DOMAIN S = A \cup O /\ A \cap O = {} /\ O \subseteq ToSet(NameOrder)
                    /\ \A a \in A : S[a] \notin F
                    /\ \A c \in O : S[c] \in F /\ Below(F, S[c]) = Rank(O, c)
  OBVIOUS
<1> DEFINE slotOf(B) == [name \in B |-> IF name \in DOMAIN CpuSlots THEN CpuSlots[name]
                                        ELSE LocalSlots[name]]
           leftBy(B) == 0..31 \ Range(slotOf(B))
           givenOf(B, other, name) ==
             CHOOSE n \in leftBy(B) : Cardinality({m \in leftBy(B) : m < n})
                              = Cardinality({c \in other : Place[c] < Place[name]})
           slots(B, other) == [name \in B \cup other |->
                                 IF name \in B THEN slotOf(B)[name] ELSE givenOf(B, other, name)]
           slot == slotOf(A)
           left == leftBy(A)
           given(name) == givenOf(A, O, name)
<1>0. Slots(on, target) = slots(Asked(on, target), OtherCores(on))
  BY Zenon DEF Slots, Asked
<1>1. S = [name \in A \cup O |-> IF name \in A THEN slot[name] ELSE given(name)]
  <2>1. S = slots(A, O)
    <3> HIDE DEF slots
    <3> QED BY <1>0
  <2> QED BY <2>1, Zenon
<1> HIDE DEF given, slots, givenOf
<1>2. A \cap O = {}
  BY DEF Asked, CpuSlots, LocalCores, LocalSlots, OtherCores, VideoCores
<1>3. O \subseteq ToSet(NameOrder)
  <2>1. O \subseteq {"ctrl", "ddrphy", "ethmac", "ethphy", "identifier_mem", "leds",
                     "sdcard_block2mem", "sdcard_core", "sdcard_irq", "sdcard_mem2block",
                     "sdcard_phy", "sdram", "spisdcard", "video_framebuffer",
                     "video_framebuffer_vtg", "video_terminal", "video_terminal_vtg"}
    BY DEF OtherCores, VideoCores
  <2>2. /\ DOMAIN NameOrder = 1..17
        /\ NameOrder[1] = "ctrl" /\ NameOrder[2] = "ddrphy" /\ NameOrder[3] = "ethmac"
        /\ NameOrder[4] = "ethphy" /\ NameOrder[5] = "identifier_mem" /\ NameOrder[6] = "leds"
        /\ NameOrder[7] = "sdcard_block2mem" /\ NameOrder[8] = "sdcard_core"
        /\ NameOrder[9] = "sdcard_irq" /\ NameOrder[10] = "sdcard_mem2block"
        /\ NameOrder[11] = "sdcard_phy" /\ NameOrder[12] = "sdram" /\ NameOrder[13] = "spisdcard"
        /\ NameOrder[14] = "video_framebuffer" /\ NameOrder[15] = "video_framebuffer_vtg"
        /\ NameOrder[16] = "video_terminal" /\ NameOrder[17] = "video_terminal_vtg"
    BY DEF NameOrder
  <2>3. \A i \in 1..17 : NameOrder[i] \in ToSet(NameOrder)
    BY <2>2 DEF ToSet
  <2> QED BY <2>1, <2>2, <2>3
<1>4. F = left
  <2>1. \A a \in A : S[a] = slot[a]
    BY <1>1
  <2>2. {S[a] : a \in A} = {slot[a] : a \in A}
    BY <2>1
  <2>3. Range(slot) = {slot[a] : a \in A}
    BY DEF Range
  <2>4. left = 0..31 \ Range(slot)
    OBVIOUS
  <2>5. F = 0..31 \ {S[a] : a \in A}
    BY DEF Free
  <2> HIDE DEF slot, left
  <2> QED BY <2>2, <2>3, <2>4, <2>5
<1>5. \A a \in A : S[a] \notin F
  BY DEF Free
<1> HIDE DEF left
<1>6. ASSUME NEW c \in O PROVE S[c] \in F /\ Below(F, S[c]) = Rank(O, c)
  <2>1. S[c] = given(c)
    BY <1>1, <1>2
  <2>2. given(c) = CHOOSE n \in F : Below(F, n) = Rank(O, c)
    BY <1>4 DEF given, givenOf, left, Below, Rank
  <2>3. Rank(O, c) \in Nat /\ Rank(O, c) < Cardinality(O)
    BY <1>3, RankOrder
  <2>4. Cardinality(O) <= 17 /\ Cardinality(O) \in Nat
    <3>1. Cardinality(O) <= Cardinality(ToSet(NameOrder)) /\ IsFiniteSet(O)
      BY <1>3, Places, FS_Subset
    <3>2. Cardinality(O) \in Nat /\ Cardinality(ToSet(NameOrder)) \in Nat
      BY <3>1, Places, FS_CardinalityType
    <3> QED BY <3>1, <3>2, Places
  <2>5. Cardinality(F) >= 17 /\ Cardinality(F) \in Nat
    BY AskedSlots, FS_CardinalityType
  <2>6. Rank(O, c) < Cardinality(F)
    BY <2>3, <2>4, <2>5
  <2>7. F \subseteq 0..31 /\ 31 \in Nat /\ F \subseteq Nat
    BY DEF Free
  <2>8. \E n \in F : Below(F, n) = Rank(O, c)
    BY <2>3, <2>6, <2>7, NthSlot
  <2> QED BY <2>1, <2>2, <2>8
<1> QED BY <1>1, <1>2, <1>3, <1>5, <1>6

\* The slots of a SoC are all different, and those of the other cores are in
\* the order of the names.
LEMMA SlotsDiffer ==
  ASSUME NEW on, NEW target, NEW S, S = Slots(on, target)
  PROVE  /\ \A a, b \in DOMAIN S : S[a] = S[b] => a = b
         /\ \A c, d \in OtherCores(on) : Place[c] < Place[d] => S[c] < S[d]
<1> DEFINE A == Asked(on, target)
           O == OtherCores(on)
           F == Free(on, target)
<1>1. /\ DOMAIN S = A \cup O /\ O \subseteq ToSet(NameOrder)
      /\ \A a \in A : S[a] \notin F
      /\ \A c \in O : S[c] \in F /\ Below(F, S[c]) = Rank(O, c)
  BY GivenSlots
<1>2. \A a, b \in A : S[a] = S[b] => a = b
  BY AskedSlots
<1>3. F \subseteq 0..31 /\ 31 \in Nat /\ F \subseteq Nat
  BY DEF Free
<1> HIDE DEF A, O, F
<1>4. ASSUME NEW c \in O, NEW d \in O, Place[c] < Place[d] PROVE S[c] < S[d]
  <2>1. S[c] \in F /\ S[d] \in F
    BY <1>1
  <2>2. S[c] \in Nat /\ S[d] \in Nat
    BY <1>3, <2>1
  <2>3. Rank(O, c) < Rank(O, d) /\ Rank(O, c) \in Nat /\ Rank(O, d) \in Nat
    BY <1>1, <1>4, RankOrder
  <2>4. Below(F, S[c]) = Rank(O, c) /\ Below(F, S[d]) = Rank(O, d)
    BY <1>1
  <2>5. S[d] < S[c] => Below(F, S[d]) < Below(F, S[c])
    BY <1>3, <2>1, BelowOrder
  <2>6. S[c] # S[d]
    BY <2>3, <2>4
  <2> QED BY <2>2, <2>3, <2>4, <2>5, <2>6
<1>5. ASSUME NEW c \in O, NEW d \in O, S[c] = S[d] PROVE c = d
  <2>1. Place[c] \in 1..17 /\ Place[d] \in 1..17
    BY <1>1, Places
  <2>2. S[c] \in Nat /\ S[d] \in Nat
    BY <1>1, <1>3
  <2>3. ~ (Place[c] < Place[d]) /\ ~ (Place[d] < Place[c])
    BY <1>4, <1>5, <2>2
  <2>4. Place[c] = Place[d]
    BY <2>1, <2>3
  <2> QED BY <1>1, <2>4, RankOrder
<1>6. \A a, b \in DOMAIN S : S[a] = S[b] => a = b
  BY <1>1, <1>2, <1>5
<1> QED BY <1>4, <1>6 DEF O

\* The addresses built into the programs, of a SoC of whichever options.
LEMMA SlotsAsBuiltIn ==
  ASSUME NEW on, NEW target, NEW S, S = Slots(on, target)
  PROVE  /\ "seven_seg" \in DOMAIN S => S["seven_seg"] = 13
         /\ "xadc" \in DOMAIN S => S["xadc"] = 19
         /\ "temp_i2c" \in DOMAIN S => S["temp_i2c"] = 20
<1>1. \A b \in {"seven_seg", "xadc", "temp_i2c"} : b \in DOMAIN S => S[b] = LocalSlots[b]
  <2>1. \A b \in {"seven_seg", "xadc", "temp_i2c"} : b \in Bank
    BY DEF Bank
  <2> QED BY <2>1, SlotsOf
<1>2. LocalSlots["seven_seg"] = 13 /\ LocalSlots["xadc"] = 19 /\ LocalSlots["temp_i2c"] = 20
  BY DEF LocalSlots
<1> QED BY <1>1, <1>2

-----------------------------------------------------------------------------
(* The texts that the patcher meets *)

\* A text given by its nodes and references, one by one.
LEMMA ListedText ==
  ASSUME NEW soc, NEW refs, NEW marker, Sequence(soc), Sequence(refs),
         \A i \in DOMAIN soc : soc[i].label \in Label /\ soc[i].kind = Kind(soc[i].label),
         \A i \in DOMAIN refs : refs[i].label \in Label /\ refs[i] = Ref(refs[i].label, refs[i].ngpio),
         \A i, j \in DOMAIN soc : soc[i].label = soc[j].label => i = j,
         \A i, j \in DOMAIN refs : refs[i].label = refs[j].label => i = j,
         \A i \in DOMAIN refs : \E j \in DOMAIN soc : soc[j].label = refs[i].label
  PROVE  Sound([soc |-> soc, marker |-> marker, refs |-> refs])
<1> DEFINE text == [soc |-> soc, marker |-> marker, refs |-> refs]
<1>1. text.soc = soc /\ text.refs = refs /\ text.marker = marker
  OBVIOUS
<1>2. text = [soc |-> text.soc, marker |-> text.marker, refs |-> text.refs]
  OBVIOUS
<1> HIDE DEF text
<1>3. IsText(text)
  BY <1>1, <1>2 DEF IsText, ToSet
<1>4. NodesOnce(text) /\ RefsOnce(text)
  BY <1>1 DEF NodesOnce, RefsOnce
<1>5. RefsDefined(text)
  BY <1>1 DEF RefsDefined, Has, ToSet
<1> QED BY <1>3, <1>4, <1>5 DEF Sound, text

\* What litex_json2dts_linux writes of a SoC.
LEMMA GeneratedText ==
  ASSUME NEW on, NEW target, NEW soc, IsLocal(soc, on, target), NEW g, g = Generated(soc)
  PROVE  /\ Sound(g) /\ g.marker = TRUE /\ CountsThere(g)
         /\ \A i \in DOMAIN g.soc : g.soc[i].base = soc.csr[g.soc[i].label]
         /\ \A b : Has(g, b) <=> b = "leds" \/ (b = "switches" /\ b \in DOMAIN soc.csr)
         /\ \A b : Enables(g, b) <=> b = "leds" \/ (b = "switches" /\ b \in DOMAIN soc.csr)
<1> DEFINE known == IF "switches" \in DOMAIN soc.csr THEN <<"leds", "switches">> ELSE <<"leds">>
           irq   == [leds |-> None, switches |-> Constant(soc, "switches_interrupt", None)]
           count == [leds |-> 4, switches |-> Constant(soc, "switches_ngpio", 4)]
           nodes == [i \in DOMAIN known |-> Node(known[i], "gpio", soc.csr[known[i]], irq[known[i]])]
           refs  == [i \in DOMAIN known |-> Ref(known[i], count[known[i]])]
<1>1. g = [soc |-> nodes, marker |-> TRUE, refs |-> refs]
  BY Zenon DEF Generated
<1>2. count["leds"] \in Nat /\ count["switches"] \in Nat
  <2>1. Constant(soc, "switches_ngpio", 4) = IF "switches" \in on THEN 16 ELSE 4
    BY ConstantsOf DEF IsLocal
  <2>2. Constant(soc, "switches_ngpio", 4) \in Nat
    BY <2>1
  <2> QED BY <2>2
<1>3. /\ known \in Seq(Label) /\ DOMAIN known = 1..Len(known) /\ Len(known) \in Nat
      /\ \A i \in DOMAIN known : known[i] \in {"leds", "switches"}
      /\ \A i, j \in DOMAIN known : known[i] = known[j] => i = j
      /\ 1 \in DOMAIN known /\ known[1] = "leds"
      /\ (\E i \in DOMAIN known : known[i] = "switches") <=> "switches" \in DOMAIN soc.csr
  <2>1. "leds" \in Label /\ "switches" \in Label
    BY DEF Label, Words
  <2>2. CASE "switches" \in DOMAIN soc.csr
    <3>1. known = <<"leds", "switches">>
      BY <2>2
    <3> HIDE DEF known
    <3>2. /\ known \in Seq(Label) /\ Len(known) = 2 /\ DOMAIN known = {1, 2}
          /\ known[1] = "leds" /\ known[2] = "switches"
      BY <2>1, <3>1
    <3>3. {1, 2} = 1..2
      OBVIOUS
    <3> QED BY <2>2, <3>2, <3>3
  <2>3. CASE "switches" \notin DOMAIN soc.csr
    <3>1. known = <<"leds">>
      BY <2>3
    <3> HIDE DEF known
    <3>2. /\ known \in Seq(Label) /\ Len(known) = 1 /\ DOMAIN known = {1} /\ known[1] = "leds"
      BY <2>1, <3>1
    <3>3. {1} = 1..1
      OBVIOUS
    <3> QED BY <2>3, <3>2, <3>3
  <2> QED BY <2>2, <2>3
<1>4. Kind("leds") = "gpio" /\ Kind("switches") = "gpio"
  BY DEF Kind
<1> HIDE DEF known, count, irq
<1>5. /\ DOMAIN nodes = DOMAIN known /\ DOMAIN refs = DOMAIN known
      /\ \A i \in DOMAIN known : /\ nodes[i].label = known[i] /\ nodes[i].kind = "gpio"
                                 /\ nodes[i].base = soc.csr[known[i]]
                                 /\ refs[i].label = known[i] /\ refs[i].ngpio = count[known[i]]
                                 /\ refs[i] = Ref(known[i], count[known[i]])
  BY DEF Node, Ref
<1>6. Sequence(nodes) /\ Sequence(refs)
  <2>1. nodes \in Seq(ToSet(nodes)) /\ refs \in Seq(ToSet(refs))
    BY <1>3 DEF ToSet
  <2> QED BY <2>1 DEF Sequence
<1> HIDE DEF nodes, refs
<1>7. \A i \in DOMAIN known : known[i] \in Label
  BY <1>3
<1>8. Sound(g)
  <2>1. \A i \in DOMAIN known : /\ nodes[i].label \in Label /\ nodes[i].kind = Kind(nodes[i].label)
                                /\ refs[i].label \in Label
                                /\ refs[i] = Ref(refs[i].label, refs[i].ngpio)
    <3> SUFFICES ASSUME NEW i \in DOMAIN known
                 PROVE  /\ nodes[i].label \in Label /\ nodes[i].kind = Kind(nodes[i].label)
                        /\ refs[i].label \in Label
                        /\ refs[i] = Ref(refs[i].label, refs[i].ngpio)
      OBVIOUS
    <3>1. known[i] = "leds" \/ known[i] = "switches"
      BY <1>3
    <3> QED BY <1>4, <1>5, <1>7, <3>1
  <2>2. \A i, j \in DOMAIN known : /\ nodes[i].label = nodes[j].label => i = j
                                   /\ refs[i].label = refs[j].label => i = j
    BY <1>3, <1>5
  <2>3. \A i \in DOMAIN known : nodes[i].label = refs[i].label
    BY <1>5
  <2>4. Sound([soc |-> nodes, marker |-> TRUE, refs |-> refs])
    BY <1>5, <1>6, <2>1, <2>2, <2>3, ListedText
  <2> QED BY <1>1, <2>4
<1>9. g.soc = nodes /\ g.refs = refs /\ g.marker = TRUE
  BY <1>1
<1>10. CountsThere(g)
  <2>1. ASSUME NEW i \in DOMAIN g.refs PROVE g.refs[i].ngpio # None
    <3>1. g.refs[i].ngpio \in Nat
      BY <1>2, <1>3, <1>5, <1>9
    <3> QED BY <3>1 DEF None
  <2> QED BY <2>1 DEF CountsThere
<1>11. \A b : Has(g, b) <=> b = "leds" \/ (b = "switches" /\ b \in DOMAIN soc.csr)
  <2>1. \A b : Has(g, b) <=> \E i \in DOMAIN known : known[i] = b
    BY <1>5, <1>9 DEF Has, ToSet
  <2> QED BY <1>3, <2>1
<1>12. \A b : Enables(g, b) <=> b = "leds" \/ (b = "switches" /\ b \in DOMAIN soc.csr)
  <2>1. \A b : Enables(g, b) <=> \E i \in DOMAIN known : known[i] = b
    BY <1>5, <1>9 DEF Enables, ToSet
  <2> QED BY <1>3, <2>1
<1> QED BY <1>5, <1>8, <1>9, <1>10, <1>11, <1>12

\* The sources in linux/dts, and the empty file that a broken-off run leaves.
LEMMA OtherTexts == Sound(CheckedIn) /\ Sound(NoText)
<1>1. Sound(NoText)
  <2>1. Sequence(<<>>)
    BY DEF Sequence
  <2> QED BY <2>1, ListedText DEF NoText
<1>2. Sound(CheckedIn)
  <2> DEFINE names == <<"leds", "switches", "buttons", "rgb_leds", "seven_seg", "seven_seg_ctrl">>
             nodes == <<Node("leds", "gpio", 7, None), Node("switches", "gpio", 10, 4),
                Node("buttons", "gpio", 11, 5), Node("rgb_leds", "gpio", 12, None),
                Node("seven_seg", "gpio", 13, None), Node("seven_seg_ctrl", "gpio", 14, None)>>
             refs  == <<Ref("leds", 16), Ref("switches", 16), Ref("buttons", 5), Ref("rgb_leds", 6),
                Ref("seven_seg", 8), Ref("seven_seg_ctrl", 8)>>
  <2>1. CheckedIn = [soc |-> nodes, marker |-> TRUE, refs |-> refs]
    BY DEF CheckedIn
  <2>2. /\ DOMAIN names = {1, 2, 3, 4, 5, 6}
        /\ \A i, j \in {1, 2, 3, 4, 5, 6} : names[i] = names[j] => i = j
        /\ \A i \in {1, 2, 3, 4, 5, 6} : names[i] \in Gpio
    BY DEF Gpio
  <2>3. Gpio \subseteq Label /\ \A b \in Gpio : Kind(b) = "gpio"
    BY DEF Gpio, Label, Words, Kind
  <2>4. /\ DOMAIN nodes = {1, 2, 3, 4, 5, 6}
        /\ \A i \in {1, 2, 3, 4, 5, 6} : nodes[i].label = names[i] /\ nodes[i].kind = "gpio"
    BY DEF Node
  <2>5. /\ DOMAIN refs = {1, 2, 3, 4, 5, 6}
        /\ \A i \in {1, 2, 3, 4, 5, 6} : /\ refs[i].label = names[i]
                                         /\ refs[i] = Ref(refs[i].label, refs[i].ngpio)
    BY DEF Ref
  <2>6. Sequence(nodes) /\ Sequence(refs)
    <3>1. nodes \in Seq(ToSet(nodes)) /\ refs \in Seq(ToSet(refs))
      BY DEF ToSet
    <3> QED BY <3>1 DEF Sequence
  <2> HIDE DEF names, nodes, refs
  <2> QED BY <2>1, <2>2, <2>3, <2>4, <2>5, <2>6, ListedText
<1> QED BY <1>1, <1>2

\* The marker of a record that is a text.
LEMMA MarkerMoved ==
  ASSUME NEW text, NEW v,
         text = [soc |-> text.soc, marker |-> text.marker, refs |-> text.refs]
  PROVE  [text EXCEPT !.marker = v] = [soc |-> text.soc, marker |-> v, refs |-> text.refs]
<1>1. \A s, m, r : [[soc |-> s, marker |-> m, refs |-> r] EXCEPT !.marker = v]
                    = [soc |-> s, marker |-> v, refs |-> r]
  OBVIOUS
<1>2. PICK s, m, r : text = [soc |-> s, marker |-> m, refs |-> r]
  OBVIOUS
<1>3. text.soc = s /\ text.refs = r
  BY <1>2
<1> QED BY <1>1, <1>2, <1>3

\* An edit by hand removes a count or moves the end of /soc, and no more.
LEMMA EditsAreSound ==
  ASSUME NEW text, Sound(text)
  PROVE  /\ \A i \in DOMAIN text.refs : Sound([text EXCEPT !.refs[i].ngpio = None])
         /\ Sound([text EXCEPT !.marker = FALSE])
<1>0. IsText(text)
  BY DEF Sound
<1>1. ASSUME NEW new, IsText(new), new.soc = text.soc, DOMAIN new.refs = DOMAIN text.refs,
             \A i \in DOMAIN text.refs : new.refs[i].label = text.refs[i].label
      PROVE  Sound(new)
  <2>1. NodesOnce(new) /\ RefsOnce(new)
    BY <1>1 DEF Sound, NodesOnce, RefsOnce
  <2>2. ASSUME NEW r \in ToSet(new.refs) PROVE Has(new, r.label)
    <3>1. PICK i \in DOMAIN text.refs : r.label = text.refs[i].label
      BY <1>1 DEF ToSet
    <3>2. Has(text, r.label)
      BY <3>1 DEF Sound, RefsDefined, ToSet
    <3> QED BY <1>1, <3>2 DEF Has
  <2> QED BY <1>1, <2>1, <2>2 DEF Sound, RefsDefined
<1>2. ASSUME NEW i \in DOMAIN text.refs PROVE Sound([text EXCEPT !.refs[i].ngpio = None])
  <2> DEFINE new == [text EXCEPT !.refs[i].ngpio = None]
  <2>1. /\ IsText(new) /\ new.soc = text.soc /\ DOMAIN new.refs = DOMAIN text.refs
        /\ \A j \in DOMAIN text.refs :
              new.refs[j] = IF j = i THEN Ref(text.refs[i].label, None) ELSE text.refs[j]
    BY <1>0, SetCount
  <2> HIDE DEF new
  <2>2. \A j \in DOMAIN text.refs : new.refs[j].label = text.refs[j].label
    BY <2>1, RefFields
  <2>3. Sound(new)
    BY <1>1, <2>1, <2>2
  <2> QED BY <2>3 DEF new
<1>3. Sound([text EXCEPT !.marker = FALSE])
  <2> DEFINE new == [text EXCEPT !.marker = FALSE]
  <2>1. new = [soc |-> text.soc, marker |-> FALSE, refs |-> text.refs]
    BY <1>0, MarkerMoved DEF IsText
  <2>2. new.soc = text.soc /\ new.refs = text.refs /\ new.marker = FALSE
    BY <2>1
  <2>3. IsText(new)
    BY <1>0, <2>1, <2>2 DEF IsText
  <2> HIDE DEF new
  <2>4. Sound(new)
    BY <1>1, <2>2, <2>3
  <2> QED BY <2>4 DEF new
<1> QED BY <1>2, <1>3

-----------------------------------------------------------------------------
(* The text of a SoC *)

\* What Linux is to see, of a SoC with this target.
Seen(soc, target) ==
    (DOMAIN soc.csr \cap (Gpio \cup {"xadc", "temp_i2c"}))
      \ (IF target = "local" THEN {"seven_seg"} ELSE {})

\* The scripts' call takes what of that has no node yet.
LEMMA TakenOfSoC ==
  ASSUME NEW on, NEW target, NEW soc, IsLocal(soc, on, target)
  PROVE  /\ Taken(PatchArgs(soc)) = Seen(soc, target) \ {"leds", "switches"}
         /\ "leds" \in Seen(soc, target)
         /\ "switches" \in Seen(soc, target) <=> "switches" \in DOMAIN soc.csr
         /\ \A b \in Seen(soc, target) \cap Gpio : PatchArgs(soc).ngpio[b] = Lines[b]
         /\ \A b \in Taken(PatchArgs(soc)) : PatchArgs(soc).base[b] = soc.csr[b]
<1> DEFINE args == PatchArgs(soc)
           shown == Constant(soc, "seven_seg_ngpio", 8)
           ctrl  == Constant(soc, "seven_seg_ctrl_ngpio", 8)
<1>1. /\ shown = IF "seven_seg" \in on /\ target = "local" THEN 0 ELSE 8
      /\ ctrl  = IF "seven_seg" \in on /\ target = "local" THEN 0 ELSE 8
  BY ConstantsOf DEF IsLocal
<1> HIDE DEF shown, ctrl
<1>2. /\ args.ngpio["leds"] = 16 /\ args.ngpio["switches"] = 16 /\ args.ngpio["buttons"] = 5
      /\ args.ngpio["rgb_leds"] = 6
      /\ args.ngpio["seven_seg"] = shown /\ args.ngpio["seven_seg_ctrl"] = ctrl
  BY DEF PatchArgs, shown, ctrl
<1>3. \A b \in Bank : args.base[b] = IF b \in DOMAIN soc.csr THEN soc.csr[b] ELSE None
  BY DEF PatchArgs
<1> HIDE DEF args
<1>4. \A b \in Bank : args.base[b] # None <=> b \in DOMAIN soc.csr
  <2>1. \A b \in Bank : b \in DOMAIN soc.csr => soc.csr[b] \in Nat
    BY BanksOf DEF IsLocal
  <2>2. \A n \in Nat : n # None
    BY DEF None
  <2> QED BY <1>3, <2>1, <2>2
<1>5. /\ "seven_seg" \in DOMAIN soc.csr <=> "seven_seg" \in on
      /\ "seven_seg_ctrl" \in DOMAIN soc.csr <=> target = "gpio" /\ "seven_seg" \in on
  BY BanksOf DEF IsLocal, Bank
<1>6. target = "gpio" <=> ~ (target = "local")
  BY DEF IsLocal, Target
<1>7. /\ "rgb_leds" \in Taken(args) <=> "rgb_leds" \in DOMAIN soc.csr
      /\ "seven_seg" \in Taken(args) <=> "seven_seg" \in on /\ target = "gpio"
      /\ "seven_seg_ctrl" \in Taken(args) <=> "seven_seg" \in on /\ target = "gpio"
      /\ \A b \in {"buttons", "xadc", "temp_i2c"} : b \in Taken(args) <=> b \in DOMAIN soc.csr
  <2>1. \A b \in Bank \ {"rgb_leds", "seven_seg", "seven_seg_ctrl"} :
           b \in Taken(args) <=> b \in DOMAIN soc.csr
    BY <1>4 DEF Taken
  <2>2. \A b \in {"rgb_leds", "seven_seg", "seven_seg_ctrl"} :
           b \in Taken(args) <=> b \in DOMAIN soc.csr /\ args.ngpio[b] > 0
    BY <1>4 DEF Taken, Bank
  <2>3. args.ngpio["rgb_leds"] > 0
    BY <1>2
  <2>4. /\ args.ngpio["seven_seg"] > 0 <=> ~ ("seven_seg" \in on /\ target = "local")
        /\ args.ngpio["seven_seg_ctrl"] > 0 <=> ~ ("seven_seg" \in on /\ target = "local")
    <3>1. CASE "seven_seg" \in on /\ target = "local"
      BY <1>1, <1>2, <3>1
    <3>2. CASE ~ ("seven_seg" \in on /\ target = "local")
      BY <1>1, <1>2, <3>2
    <3> QED BY <3>1, <3>2
  <2>5. \A b \in {"buttons", "xadc", "temp_i2c"} : b \in Bank \ {"rgb_leds", "seven_seg", "seven_seg_ctrl"}
    BY DEF Bank
  <2> QED BY <1>5, <1>6, <2>1, <2>2, <2>3, <2>4, <2>5
<1>8. Taken(args) = Seen(soc, target) \ {"leds", "switches"}
  <2>1. \A b \in Bank : b \in Taken(args) <=> b \in Seen(soc, target)
    BY <1>5, <1>6, <1>7 DEF Bank, Gpio, Seen
  <2>2. Taken(args) \subseteq Bank
    BY DEF Taken
  <2>3. Seen(soc, target) \ {"leds", "switches"} \subseteq Bank
    BY DEF Seen, Gpio, Bank
  <2>4. Bank \cap {"leds", "switches"} = {}
    BY DEF Bank
  <2> QED BY <2>1, <2>2, <2>3, <2>4
<1>9. /\ "leds" \in Seen(soc, target)
      /\ "switches" \in Seen(soc, target) <=> "switches" \in DOMAIN soc.csr
  BY SlotsOf DEF Seen, Gpio, IsLocal
<1>10. \A b \in Seen(soc, target) \cap Gpio : args.ngpio[b] = Lines[b]
  <2>1. Lines["leds"] = 16 /\ Lines["switches"] = 16 /\ Lines["buttons"] = 5 /\ Lines["rgb_leds"] = 6
        /\ Lines["seven_seg"] = 8 /\ Lines["seven_seg_ctrl"] = 8
    BY DEF Lines
  <2>2. "seven_seg" \in Seen(soc, target) => shown = 8
    BY <1>1 DEF Seen
  <2>3. "seven_seg_ctrl" \in Seen(soc, target) => ctrl = 8
    BY <1>1, <1>5, <1>6 DEF Seen
  <2> QED BY <1>2, <2>1, <2>2, <2>3 DEF Gpio
<1>11. \A b \in Taken(args) : args.base[b] = soc.csr[b]
  BY <1>3, <1>4 DEF Taken
<1> QED BY <1>8, <1>9, <1>10, <1>11 DEF args

\* The buttons come with the interrupt that csr.json says.
LEMMA ButtonsOf ==
  ASSUME NEW on, NEW target, NEW soc, IsLocal(soc, on, target), "buttons" \in DOMAIN soc.csr
  PROVE  PatchArgs(soc).irq = soc.constants["buttons_interrupt"]
<1>1. "buttons" \in on
  BY BanksOf DEF IsLocal, Bank
<1>2. soc.constants = Constants(on, target)
  BY DEF IsLocal
<1>3. "buttons_interrupt" \in DOMAIN soc.constants
  BY <1>1, <1>2 DEF Constants, Restrict, ConstantNames
<1>4. PatchArgs(soc).irq = Constant(soc, "buttons_interrupt", None)
  BY DEF PatchArgs
<1> QED BY <1>3, <1>4 DEF Constant

\* A run of a script that succeeds: the patcher on the generated text.
LEMMA DescribedSoC ==
  ASSUME NEW on, NEW target, NEW soc, IsLocal(soc, on, target),
         NEW new, new = Patched(Generated(soc), PatchArgs(soc))
  PROVE  /\ {<<n.label, n.base>> : n \in ToSet(new.soc)} = {<<b, soc.csr[b]>> : b \in Seen(soc, target)}
         /\ ToSet(new.refs) = {Ref(b, Lines[b]) : b \in Seen(soc, target) \cap Gpio}
         /\ \A n \in ToSet(new.soc) :
               n.label = "buttons" => n.irq = soc.constants["buttons_interrupt"]
<1> DEFINE g == Generated(soc)
           args == PatchArgs(soc)
           set == SetCounts(g, args)
           S == Seen(soc, target)
           D == Taken(args)
<1>1. /\ Sound(g) /\ g.marker = TRUE /\ CountsThere(g)
      /\ \A i \in DOMAIN g.soc : g.soc[i].base = soc.csr[g.soc[i].label]
      /\ \A b : Has(g, b) <=> b = "leds" \/ (b = "switches" /\ b \in DOMAIN soc.csr)
      /\ \A b : Enables(g, b) <=> b = "leds" \/ (b = "switches" /\ b \in DOMAIN soc.csr)
  BY GeneratedText
<1>2. args \in Args
  BY ScriptsArgs
<1>3. /\ D = S \ {"leds", "switches"} /\ "leds" \in S
      /\ "switches" \in S <=> "switches" \in DOMAIN soc.csr
      /\ \A b \in S \cap Gpio : args.ngpio[b] = Lines[b]
      /\ \A b \in D : args.base[b] = soc.csr[b]
  BY TakenOfSoC
<1>4. new = edited(g, args)
  BY <1>1 DEF Patched, Fails
<1> HIDE DEF g, args, S
<1>5. IsText(g) /\ Recounted(g, set, args) /\ Amended(set, new, args, D)
  BY <1>1, <1>2, <1>4, CountsSet, Edited DEF Sound
<1>6. \A j \in DOMAIN g.refs :
         set.refs[j] = IF g.refs[j].label \in {"leds", "switches"}
                       THEN Ref(g.refs[j].label, args.ngpio[g.refs[j].label]) ELSE g.refs[j]
  BY <1>1, <1>2, OwnCountsSet
<1> HIDE DEF set, D
<1>7. /\ IsText(set) /\ set.soc = g.soc /\ DOMAIN set.refs = DOMAIN g.refs
      /\ \A b : Has(set, b) <=> Has(g, b)
      /\ \A b : Enables(set, b) <=> Enables(g, b)
  BY <1>5, SameBanks DEF Recounted
<1>8. IsText(new) /\ MoreNodes(set, new, args, D) /\ MoreRefs(set, new, args, D)
  BY <1>5 DEF Amended
<1>9. \A b : Has(new, b) <=> b \in S
  <2>1. \A b : Has(new, b) <=> Has(set, b) \/ b \in D
    <3>1. \A b \in D : Has(new, b)
      BY <1>8 DEF MoreNodes
    <3> QED BY <1>7, <1>8, <3>1, HasOldOrNew
  <2> QED BY <1>1, <1>3, <1>7, <2>1
<1>10. \A b : Enables(new, b) <=> b \in S \cap Gpio
  <2>1. \A b : ~ Shadowed(set, b)
    BY <1>1, <1>7 DEF Shadowed
  <2>2. ASSUME NEW b, b \in D \cap Gpio PROVE Enables(new, b)
    BY <1>8, <2>1, <2>2 DEF MoreRefs
  <2>3. ASSUME NEW b, Enables(new, b) PROVE Enables(set, b) \/ b \in D \cap Gpio
    <3>1. PICK i \in DOMAIN new.refs : new.refs[i].label = b
      BY <2>3 DEF Enables, ToSet
    <3>2. CASE i \in DOMAIN set.refs
      <4>1. set.refs[i].label = b
        BY <1>8, <3>1, <3>2 DEF MoreRefs
      <4> QED BY <3>2, <4>1 DEF Enables, ToSet
    <3>3. CASE i \notin DOMAIN set.refs
      BY <1>8, <3>1, <3>3 DEF MoreRefs
    <3> QED BY <3>2, <3>3
  <2>4. \A b : Enables(new, b) <=> Enables(set, b) \/ b \in D \cap Gpio
    BY <1>7, <1>8, <2>2, <2>3, EnablesOldOrNew
  <2>5. "leds" \in Gpio /\ "switches" \in Gpio
    BY DEF Gpio
  <2> QED BY <1>1, <1>3, <1>7, <2>4, <2>5
<1>11. ASSUME NEW n \in ToSet(new.soc)
       PROVE  /\ n.label \in S /\ n.base = soc.csr[n.label]
              /\ n.label = "buttons" => n.irq = soc.constants["buttons_interrupt"]
  <2>0. n.label \in S
    BY <1>9 DEF Has
  <2>1. PICK i \in DOMAIN new.soc : n = new.soc[i]
    BY DEF ToSet
  <2>2. CASE i \in DOMAIN set.soc
    <3>1. n = g.soc[i] /\ i \in DOMAIN g.soc
      BY <1>7, <1>8, <2>1, <2>2 DEF MoreNodes
    <3>2. Has(g, n.label)
      BY <3>1 DEF Has, ToSet
    <3>3. n.label # "buttons"
      BY <1>1, <3>2
    <3> QED BY <1>1, <2>0, <3>1, <3>3
  <2>3. CASE i \notin DOMAIN set.soc
    <3>1. /\ n.label \in D /\ n.base = args.base[n.label]
          /\ n.label = "buttons" => n.irq = args.irq
      BY <1>8, <2>1, <2>3 DEF MoreNodes
    <3>2. ASSUME n.label = "buttons" PROVE args.irq = soc.constants["buttons_interrupt"]
      <4>1. "buttons" \in DOMAIN soc.csr
        BY <2>0, <3>2 DEF S, Seen
      <4> QED BY <4>1, ButtonsOf DEF args
    <3> QED BY <1>3, <2>0, <3>1, <3>2
  <2> QED BY <2>2, <2>3
<1>12. ASSUME NEW r \in ToSet(new.refs) PROVE r.label \in S \cap Gpio /\ r = Ref(r.label, Lines[r.label])
  <2>0. r.label \in S \cap Gpio
    BY <1>10 DEF Enables
  <2>1. PICK i \in DOMAIN new.refs : r = new.refs[i]
    BY DEF ToSet
  <2>2. CASE i \in DOMAIN set.refs
    <3>1. r = set.refs[i] /\ i \in DOMAIN g.refs
      BY <1>7, <1>8, <2>1, <2>2 DEF MoreRefs
    <3>2. Enables(g, g.refs[i].label)
      BY <3>1 DEF Enables, ToSet
    <3>3. g.refs[i].label \in {"leds", "switches"}
      BY <1>1, <3>2
    <3>4. r = Ref(g.refs[i].label, args.ngpio[g.refs[i].label])
      BY <1>6, <3>1, <3>3
    <3>5. r.label = g.refs[i].label
      BY <3>4, RefFields
    <3> QED BY <1>3, <2>0, <3>4, <3>5
  <2>3. CASE i \notin DOMAIN set.refs
    <3>1. r.ngpio = args.ngpio[r.label]
      BY <1>8, <2>1, <2>3 DEF MoreRefs
    <3>2. r = Ref(r.label, r.ngpio)
      BY <1>8 DEF IsText
    <3> QED BY <1>3, <2>0, <3>1, <3>2
  <2> QED BY <2>2, <2>3
<1>13. {<<n.label, n.base>> : n \in ToSet(new.soc)} = {<<b, soc.csr[b]>> : b \in S}
  <2>1. ASSUME NEW n \in ToSet(new.soc) PROVE <<n.label, n.base>> \in {<<b, soc.csr[b]>> : b \in S}
    BY <1>11
  <2>2. ASSUME NEW b \in S PROVE \E n \in ToSet(new.soc) : <<b, soc.csr[b]>> = <<n.label, n.base>>
    <3>1. PICK n \in ToSet(new.soc) : n.label = b
      BY <1>9 DEF Has
    <3> QED BY <1>11, <3>1
  <2> QED BY <2>1, <2>2
<1>14. ToSet(new.refs) = {Ref(b, Lines[b]) : b \in S \cap Gpio}
  <2>1. ASSUME NEW b \in S \cap Gpio PROVE Ref(b, Lines[b]) \in ToSet(new.refs)
    <3>1. PICK r \in ToSet(new.refs) : r.label = b
      BY <1>10 DEF Enables
    <3> QED BY <1>12, <3>1
  <2> QED BY <1>12, <2>1
<1> QED BY <1>11, <1>13, <1>14 DEF S

-----------------------------------------------------------------------------
(***************************************************************************)
(* The inductive invariant: every text is sound, and what a script has     *)
(* done so far is still there when its next command runs.                  *)
(***************************************************************************)
Typed == /\ env \in [on : SUBSET Option, timing : Timing, target : Target]
         /\ last \subseteq Args

Elaborated == pc \in {"compile", "json2dts", "patch"} => IsLocal(csr, env.on, env.target)
Compiled   == pc \in {"json2dts", "patch"} /\ script = "build" => bit = csr
Written    == pc = "patch" => dts = Generated(csr)
Running    == pc # "idle" => status = "none"

IInv == /\ Typed /\ Sound(dts)
        /\ Elaborated /\ Compiled /\ Written /\ Running
        /\ DescribesSoC /\ PatchedOnce

\* A text that no call has patched.
LEMMA NotPatched ==
  ASSUME last' = {}
  PROVE  PatchedOnce' /\ (last \subseteq Args)'
  BY DEF PatchedOnce

\* A call of the patcher on a sound text.
LEMMA PatchStep ==
  ASSUME NEW args \in Args, Sound(dts), PatchDts(args)
  PROVE  Sound(dts)' /\ PatchedOnce' /\ (last \subseteq Args)'
<1>1. dts' = Patched(dts, args)
  BY DEF PatchDts
<1>2. Sound(Patched(dts, args))
  BY PatchedIsSound
<1>3. Sound(dts)'
  BY <1>1, <1>2
<1>4. CASE Fails(dts, args)
  <2>1. last' = {}
    BY <1>4 DEF PatchDts
  <2> QED BY <1>3, <2>1, NotPatched
<1>5. CASE ~ Fails(dts, args)
  <2>1. last' = {args}
    BY <1>5 DEF PatchDts
  <2>2. dts' = edited(dts, args)
    BY <1>1, <1>5 DEF Patched
  <2>3. ASSUME \A r \in ToSet(dts'.refs) : r.label \in {"leds", "switches"} => r.ngpio # None
        PROVE  Patched(dts', args) = dts'
    <3>1. CountsThere(edited(dts, args))
      BY <2>2, <2>3 DEF CountsThere, ToSet
    <3>2. edited(edited(dts, args), args) = edited(dts, args)
      BY <3>1, EditedTwice
    <3> QED BY <2>2, <3>2 DEF Patched
  <2>4. PatchedOnce'
    BY <2>1, <2>3 DEF PatchedOnce
  <2> QED BY <1>3, <2>1, <2>4
<1> QED BY <1>4, <1>5

LEMMA Initially == Init => IInv
<1> SUFFICES ASSUME Init PROVE IInv
  OBVIOUS
<1>1. Sound(dts)
  BY OtherTexts DEF Init
<1>2. Typed
  BY DEF Init, Typed, Option, Timing, Target
<1>3. PatchedOnce
  BY DEF Init, PatchedOnce
<1>4. pc = "idle" /\ status = "none"
  BY DEF Init
<1> QED BY <1>1, <1>2, <1>3, <1>4 DEF IInv, Elaborated, Compiled, Written, Running, DescribesSoC

LEMMA Stutters == ASSUME IInv, UNCHANGED vars PROVE IInv'
<1>1. UNCHANGED <<env, script, pc, status, csr, bit, dts, last>>
  BY DEF vars, files
<1>2. Typed' /\ Sound(dts)' /\ Elaborated' /\ Compiled' /\ Written' /\ Running'
  BY <1>1 DEF IInv, Typed, Elaborated, Compiled, Written, Running
<1>3. DescribesSoC'
  BY <1>1 DEF IInv, DescribesSoC, Visible, Scanner
<1>4. PatchedOnce'
  BY <1>1 DEF IInv, PatchedOnce
<1> QED BY <1>2, <1>3, <1>4 DEF IInv

\* With an idle script and no success there is little to show.
LEMMA AtRest ==
  ASSUME pc' = "idle", status' # "ok", Typed', Sound(dts)', PatchedOnce'
  PROVE  IInv'
  BY DEF IInv, Elaborated, Compiled, Written, Running, DescribesSoC

LEMMA Steps == IInv /\ [Next]_vars => IInv'
<1> SUFFICES ASSUME IInv, [Next]_vars PROVE IInv'
  OBVIOUS
<1>0. /\ Typed /\ Sound(dts) /\ PatchedOnce
      /\ Elaborated /\ Compiled /\ Written /\ Running
  BY DEF IInv
<1>k. ASSUME UNCHANGED dts, UNCHANGED last PROVE Sound(dts)' /\ PatchedOnce'
  BY <1>0, <1>k DEF PatchedOnce
<1>1. ASSUME NEW name \in {"build", "probe"}, NEW e \in IF Fresh THEN Envs ELSE Revisited,
             Call(name, e)
      PROVE  IInv'
  <2>1. e \in [on : SUBSET Option, timing : Timing, target : Target] /\ env' = e
    BY <1>1, GatewareAssumption DEF Call
  <2>2. Typed' /\ Sound(dts)' /\ PatchedOnce'
    <3>1. CASE name = "probe" /\ ~ Clash(e.on)
      <4>1. dts' = NoText /\ last' = {}
        BY <1>1, <3>1 DEF Call
      <4> QED BY <2>1, <4>1, OtherTexts, NotPatched DEF Typed
    <3>2. CASE ~ (name = "probe" /\ ~ Clash(e.on))
      <4>1. UNCHANGED dts /\ UNCHANGED last
        BY <1>1, <3>2 DEF Call, files
      <4> QED BY <1>0, <1>k, <2>1, <4>1 DEF Typed
    <3> QED BY <3>1, <3>2
  <2>3. \/ pc' = "idle" /\ status' = "failed"
        \/ pc' = "target" /\ status' = "none"
    BY <1>1 DEF Call, Fail
  <2> QED BY <2>2, <2>3 DEF IInv, Elaborated, Compiled, Written, Running, DescribesSoC
<1>2. CASE Elaborate
  <2>1. UNCHANGED <<env, script, dts, last>> /\ pc = "target"
    BY <1>2 DEF Elaborate
  <2>2. Typed' /\ Sound(dts)' /\ PatchedOnce'
    BY <1>0, <1>k, <2>1 DEF Typed
  <2>3. CASE GivenTiming = "unsupported"
    BY <1>2, <2>2, <2>3, AtRest DEF Elaborate, Fail
  <2>4. CASE GivenTiming # "unsupported"
    <3>1. csr' = LocalSoC(env.on, env.target, GivenTiming)
      BY <1>2, <2>4 DEF Elaborate
    <3>2. IsLocal(csr', env.on, env.target)
      BY <1>0, <3>1 DEF IsLocal, LocalSoC, Typed
    <3>3. Elaborated'
      BY <2>1, <3>2 DEF Elaborated
    <3>4. /\ status' = "none"
          /\ pc' = IF script = "build" THEN "compile" ELSE "json2dts"
      BY <1>0, <1>2, <2>1, <2>4 DEF Elaborate, Running
    <3> QED BY <2>1, <2>2, <3>3, <3>4 DEF IInv, Compiled, Written, Running, DescribesSoC
  <2> QED BY <2>3, <2>4
<1>3. CASE Compile
  <2>1. /\ UNCHANGED <<env, script, status, csr, dts, last>> /\ pc = "compile"
        /\ bit' = csr /\ pc' = "json2dts"
    BY <1>3 DEF Compile
  <2>2. Typed' /\ Sound(dts)' /\ PatchedOnce'
    BY <1>0, <1>k, <2>1 DEF Typed
  <2>3. status' = "none"
    BY <1>0, <2>1 DEF Running
  <2>4. Elaborated'
    BY <1>0, <2>1 DEF Elaborated
  <2> QED BY <2>1, <2>2, <2>3, <2>4 DEF IInv, Compiled, Written, Running, DescribesSoC
<1>4. CASE Json2dts
  <2>1. /\ UNCHANGED <<env, script, status, csr, bit>> /\ pc = "json2dts"
        /\ dts' = Generated(csr) /\ last' = {} /\ pc' = "patch"
    BY <1>4 DEF Json2dts
  <2>2. IsLocal(csr, env.on, env.target)
    BY <1>0, <2>1 DEF Elaborated
  <2>3. Sound(dts)'
    BY <2>1, <2>2, GeneratedText
  <2>4. Typed' /\ PatchedOnce'
    BY <1>0, <2>1, NotPatched DEF Typed
  <2>5. Elaborated' /\ Compiled' /\ Written'
    BY <1>0, <2>1 DEF Elaborated, Compiled, Written
  <2>6. status' = "none"
    BY <1>0, <2>1 DEF Running
  <2> QED BY <2>1, <2>3, <2>4, <2>5, <2>6 DEF IInv, Running, DescribesSoC
<1>5. CASE Patch
  <2>1. /\ UNCHANGED <<env, script, csr, bit>> /\ pc = "patch"
        /\ PatchDts(PatchArgs(csr))
    BY <1>5 DEF Patch
  <2>2. IsLocal(csr, env.on, env.target)
    BY <1>0, <2>1 DEF Elaborated
  <2>3. PatchArgs(csr) \in Args
    BY <2>2, ScriptsArgs
  <2>4. Typed' /\ Sound(dts)' /\ PatchedOnce'
    BY <1>0, <2>1, <2>3, PatchStep DEF Typed
  <2>5. CASE Fails(dts, PatchArgs(csr))
    BY <1>5, <2>4, <2>5, AtRest DEF Patch, Fail
  <2>6. CASE ~ Fails(dts, PatchArgs(csr))
    <3>1. pc' = "idle"
      BY <1>5, <2>6 DEF Patch
    <3>2. dts' = Patched(Generated(csr), PatchArgs(csr))
      BY <1>0, <2>1 DEF PatchDts, Written
    <3>3. Visible' = Seen(csr, env.target) /\ Visible = Seen(csr, env.target)
      BY <2>1 DEF Visible, Scanner, Seen
    <3>4. script = "build" => bit = csr
      BY <1>0, <2>1 DEF Compiled
    <3>5. /\ {<<n.label, n.base>> : n \in ToSet(dts'.soc)}
               = {<<b, csr.csr[b]>> : b \in Seen(csr, env.target)}
          /\ ToSet(dts'.refs) = {Ref(b, Lines[b]) : b \in Seen(csr, env.target) \cap Gpio}
          /\ \A n \in ToSet(dts'.soc) :
                n.label = "buttons" => n.irq = csr.constants["buttons_interrupt"]
      BY <2>2, <3>2, DescribedSoC
    <3>6. DescribesSoC'
      BY <2>1, <3>3, <3>4, <3>5 DEF DescribesSoC
    <3> QED BY <2>4, <3>1, <3>6 DEF IInv, Elaborated, Compiled, Written, Running
  <2> QED BY <2>5, <2>6
<1>6. CASE BreakOff
  <2>1. UNCHANGED env /\ pc' = "idle" /\ status' = "failed"
    BY <1>6 DEF BreakOff, Fail
  <2>2. Typed' /\ Sound(dts)' /\ PatchedOnce'
    <3>1. CASE pc = "json2dts"
      <4>1. dts' \in {dts, NoText} /\ last' = {}
        BY <1>6, <3>1 DEF BreakOff
      <4>2. Sound(dts)'
        BY <1>0, <4>1, OtherTexts
      <4> QED BY <1>0, <2>1, <4>1, <4>2, NotPatched DEF Typed
    <3>2. CASE pc # "json2dts"
      BY <1>0, <1>6, <1>k, <2>1, <3>2 DEF BreakOff, Typed
    <3> QED BY <3>1, <3>2
  <2> QED BY <2>1, <2>2, AtRest
<1>7. CASE PatchByHand
  <2>1. PICK args \in HandArgs : PatchDts(args)
    BY <1>7 DEF PatchByHand
  <2>2. args \in Args
    BY <2>1, HandArgsAssumption DEF Args
  <2>3. UNCHANGED <<env, pc>> /\ pc = "idle" /\ status' = "none"
    BY <1>7 DEF PatchByHand, ByHand
  <2>4. Typed' /\ Sound(dts)' /\ PatchedOnce'
    BY <1>0, <2>1, <2>2, <2>3, PatchStep DEF Typed
  <2> QED BY <2>3, <2>4, AtRest
<1>8. CASE EditByHand
  <2>1. UNCHANGED <<env, pc>> /\ pc = "idle" /\ status' = "none" /\ last' = {}
    BY <1>8 DEF EditByHand, ByHand
  <2>2. Sound(dts)'
    <3>1. CASE \E i \in DOMAIN dts.refs : dts' = [dts EXCEPT !.refs[i].ngpio = None]
      <4>1. PICK i \in DOMAIN dts.refs : dts' = [dts EXCEPT !.refs[i].ngpio = None]
        BY <3>1, Zenon
      <4>2. Sound([dts EXCEPT !.refs[i].ngpio = None])
        BY <1>0, EditsAreSound
      <4> QED BY <4>1, <4>2, Zenon
    <3>2. CASE dts' = [dts EXCEPT !.marker = FALSE]
      BY <1>0, <3>2, EditsAreSound, Zenon
    <3> QED BY <1>8, <3>1, <3>2, Zenon DEF EditByHand
  <2>3. Typed' /\ PatchedOnce'
    BY <1>0, <2>1, NotPatched DEF Typed
  <2> QED BY <2>1, <2>2, <2>3, AtRest
<1>9. CASE Rest \/ UNCHANGED vars
  BY <1>9, Stutters DEF Rest
<1> QED BY <1>1, <1>2, <1>3, <1>4, <1>5, <1>6, <1>7, <1>8, <1>9 DEF Next

THEOREM Invariance == Spec => []IInv
<1>1. Init => IInv
  BY Initially
<1>2. IInv /\ [Next]_vars => IInv'
  BY Steps
<1> QED BY <1>1, <1>2, PTL DEF Spec

(***************************************************************************)
(* dtc takes every text that the scripts, the patcher and edits by hand    *)
(* leave, for every set of environments, of arguments, and however often.  *)
(***************************************************************************)
THEOREM NothingTwiceOrUndefined == Spec => []DtsCompiles
<1>1. IInv => DtsCompiles
  <2> SUFFICES ASSUME IInv PROVE DtsCompiles
    OBVIOUS
  <2>1. NodesOnce(dts) /\ RefsDefined(dts)
    BY DEF IInv, Sound
  <2> QED BY <2>1 DEF DtsCompiles, NodesOnce, RefsDefined, Has
<1> QED BY <1>1, Invariance, PTL

(***************************************************************************)
(* A script that succeeds leaves a bitstream, a csr.json and a device tree *)
(* of one SoC, whichever calls and edits came before it.                   *)
(***************************************************************************)
THEOREM SuccessDescribesSoC == Spec => []DescribesSoC
<1>1. IInv => DescribesSoC
  BY DEF IInv
<1> QED BY <1>1, Invariance, PTL

(***************************************************************************)
(* The patcher called again with the arguments of the call before changes  *)
(* nothing, where the LEDs and the switches have their counts.             *)
(***************************************************************************)
THEOREM PatchingIsIdempotent == Spec => []PatchedOnce
<1>1. IInv => PatchedOnce
  BY DEF IInv
<1> QED BY <1>1, Invariance, PTL

(***************************************************************************)
(* A call of the patcher that succeeds gives each bank a node and a        *)
(* reference and changes no count that is not the LEDs' or the switches',  *)
(* but on the two kinds of text that lead it astray.                       *)
(***************************************************************************)
THEOREM PatcherDoesAsTold == Spec => PatchesAsTold
<1>1. ASSUME NEW args \in Args, Sound(dts), PatchDts(args), NEW given \in last'
      PROVE  Owed(dts, given, dts')
  <2>1. ~ Fails(dts, args) /\ given = args
    BY <1>1 DEF PatchDts
  <2>2. dts' = edited(dts, args)
    BY <1>1, <2>1 DEF PatchDts, Patched
  <2>3. Owed(dts, args, edited(dts, args))
    BY <1>1, EditedOwes DEF Sound
  <2> QED BY <2>1, <2>2, <2>3
<1>2. ASSUME IInv, NEW given \in last', Patch \/ PatchByHand
      PROVE  Owed(dts, given, dts')
  <2>1. Sound(dts) /\ Elaborated
    BY <1>2 DEF IInv
  <2>2. CASE Patch
    <3>1. PatchDts(PatchArgs(csr)) /\ IsLocal(csr, env.on, env.target)
      BY <2>1, <2>2 DEF Patch, Elaborated
    <3>2. PatchArgs(csr) \in Args
      BY <3>1, ScriptsArgs
    <3> QED BY <1>1, <2>1, <3>1, <3>2
  <2>3. CASE PatchByHand
    <3>1. PICK args \in HandArgs : PatchDts(args)
      BY <2>3 DEF PatchByHand
    <3>2. args \in Args
      BY <3>1, HandArgsAssumption DEF Args
    <3> QED BY <1>1, <2>1, <3>1, <3>2
  <2> QED BY <1>2, <2>2, <2>3
<1>3. IInv /\ [Next]_vars => [\A args \in last' : Patch \/ PatchByHand => Owed(dts, args, dts')]_vars
  BY <1>2
<1> QED BY <1>3, Invariance, PTL DEF Spec, PatchesAsTold

-----------------------------------------------------------------------------
(* The addresses of the programs *)

\* csr.json is that of a SoC of some options and some target, or not there.
Assembled ==
    \/ csr = NoSoC
    \/ \E on \in SUBSET Option, target \in Target : csr.csr = Slots(on, target)

\* Only a call and the target touch csr.json.
LEMMA AssembledStep == IInv /\ Assembled /\ [Next]_vars => Assembled'
<1> SUFFICES ASSUME IInv, Assembled, [Next]_vars PROVE Assembled'
  OBVIOUS
<1>1. ASSUME NEW name, NEW e, Call(name, e) PROVE csr' = NoSoC \/ csr' = csr
  BY <1>1 DEF Call, files
<1>2. CASE Elaborate
  <2>1. csr' = csr \/ csr' = LocalSoC(env.on, env.target, GivenTiming)
    BY <1>2 DEF Elaborate
  <2>2. env.on \in SUBSET Option /\ env.target \in Target
    BY DEF IInv, Typed
  <2>3. csr' = csr \/ csr'.csr = Slots(env.on, env.target)
    BY <2>1 DEF LocalSoC
  <2> QED BY <2>2, <2>3 DEF Assembled
<1>3. CASE ~ Elaborate
  <2>1. csr' = NoSoC \/ csr' = csr
    BY <1>1, <1>3
       DEF Next, Compile, Json2dts, Patch, BreakOff, PatchByHand, EditByHand, ByHand, Rest,
           vars, files
  <2> QED BY <2>1 DEF Assembled
<1> QED BY <1>2, <1>3

(***************************************************************************)
(* Whatever the options, the target and the calls before: no two cores     *)
(* share a slot, and the addresses built into sevenseg_temp_display are    *)
(* those of the SoC.                                                       *)
(***************************************************************************)
THEOREM AddressesBuiltIn == Spec => []ProgramsFindTheirCsrs
<1>1. Init => Assembled
  BY DEF Init, Assembled
<1>2. IInv /\ Assembled /\ [Next]_vars => Assembled'
  BY AssembledStep
<1>3. ASSUME Assembled PROVE ProgramsFindTheirCsrs
  <2>1. ASSUME NEW on, NEW target, csr.csr = Slots(on, target) PROVE ProgramsFindTheirCsrs
    <3> DEFINE slot     == csr.csr
               built_in == [seven_seg |-> 13, xadc |-> 19, temp_i2c |-> 20]
    <3>1. IsInjective(slot)
      BY <2>1, SlotsDiffer DEF IsInjective
    <3>2. \A name \in DOMAIN built_in \cap DOMAIN slot : slot[name] = built_in[name]
      BY <2>1, SlotsAsBuiltIn
    <3> HIDE DEF slot, built_in
    <3> QED BY <3>1, <3>2, Zenon DEF ProgramsFindTheirCsrs, slot, built_in
  <2>2. CASE csr = NoSoC
    <3>1. DOMAIN csr.csr = {}
      BY <2>2 DEF NoSoC
    <3> QED BY <3>1 DEF ProgramsFindTheirCsrs, IsInjective
  <2> QED BY <1>3, <2>1, <2>2 DEF Assembled
<1> QED BY <1>1, <1>2, <1>3, Invariance, PTL DEF Spec
===============================================================================
