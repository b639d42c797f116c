------------------------------- MODULE DtsPatch -------------------------------
(***************************************************************************)
(* patch_litex_nexys4ddr_dts: what the patcher makes of a device tree      *)
(* source.  A text is what the patcher's tests and edits can tell apart:   *)
(*   soc     the nodes with a label in /soc, in order                      *)
(*   marker  the end of /soc is found by its layout and the aliases        *)
(*   refs    the blocks "&label { ... }" behind the root node, in order;   *)
(*           ngpio is None in a block without litex,ngpio                  *)
(* The searches are for substrings.  A name is a sequence of words, so     *)
(* that "&name" is found in each reference that begins with its words, and *)
(* "name: gpio@" in each label that ends with them.                        *)
(***************************************************************************)
EXTENDS Integers, SequencesExt

None == -1

Words == [leds |-> <<"leds">>, switches |-> <<"switches">>, buttons |-> <<"buttons">>,
          rgb_leds |-> <<"rgb", "leds">>, seven_seg |-> <<"seven", "seg">>,
          seven_seg_ctrl |-> <<"seven", "seg", "ctrl">>,
          xadc |-> <<"xadc">>, temp_i2c |-> <<"temp", "i2c">>]

Label == DOMAIN Words

Node(label, kind, base, irq) == [label |-> label, kind |-> kind, base |-> base, irq |-> irq]
Ref(label, ngpio) == [label |-> label, ngpio |-> ngpio]

NoText == [soc |-> <<>>, marker |-> FALSE, refs |-> <<>>]

\* f"{name}: {kind}@" in text, f"&{name}" in text
HasNode(text, kind, name) ==
    \E n \in ToSet(text.soc) : n.kind = kind /\ IsSuffix(Words[name], Words[n.label])
Mentions(text, name) == \E r \in ToSet(text.refs) : IsPrefix(Words[name], Words[r.label])

-----------------------------------------------------------------------------
\* The pattern finds the first count behind the opening of the block, be it in
\* this block or, when this one has none, in a later one.
patch_ref_ngpio(text, ref, ngpio) ==
    LET counts == {i \in DOMAIN text.refs :
                     text.refs[i].ngpio # None /\ \E k \in 1..i : text.refs[k].label = ref}
    IN IF counts = {} THEN text
       ELSE [text EXCEPT !.refs[CHOOSE i \in counts : \A j \in counts : i <= j].ngpio = ngpio]

\* A node goes to the end of /soc.  Where that is not found, SystemExit ends
\* the program: the marker is never there again, and nothing is written.
Insert(text, node) == [text EXCEPT !.soc = Append(@, node)]

\* Mutant: a node that is there already is not looked for.
insert_gpio_node_Always(text, name, base, irq) == Insert(text, Node(name, "gpio", base, irq))

insert_gpio_node(text, name, base, irq) ==
    IF HasNode(text, "gpio", name) THEN text ELSE Insert(text, Node(name, "gpio", base, irq))

insert_buttons_node(text, base, irq) == insert_gpio_node(text, "buttons", base, irq)

\* Mutant: a reference to a part of the name is taken for one to the name.
append_gpio_ref_Anywhere(text, name, ngpio) ==
    IF \E r \in ToSet(text.refs) : ToSet(Words[name]) \cap ToSet(Words[r.label]) # {}
    THEN text ELSE [text EXCEPT !.refs = Append(@, Ref(name, ngpio))]

append_gpio_ref(text, name, ngpio) ==
    IF Mentions(text, name) THEN text ELSE [text EXCEPT !.refs = Append(@, Ref(name, ngpio))]

append_buttons_ref(text, ngpio) == append_gpio_ref(text, "buttons", ngpio)

insert_xadc_node(text, base) ==
    IF \E n \in ToSet(text.soc) : n.kind = "hwmon" THEN text
    ELSE Insert(text, Node("xadc", "hwmon", base, None))

insert_i2c_node(text, name, base) ==
    IF HasNode(text, "i2c", name) \/ \E n \in ToSet(text.soc) : n.kind = "i2c" /\ n.base = base
    THEN text ELSE Insert(text, Node(name, "i2c", base, None))

-----------------------------------------------------------------------------
(* main: args.base and args.ngpio have the options of each name, args.irq   *)
(* the buttons' interrupt.                                                  *)

Given(args, name) == args.base[name] # None

patch_inputs(text, args) ==
    LET lit == patch_ref_ngpio(text, "leds", args.ngpio["leds"])
        set == IF Mentions(lit, "switches")
               THEN patch_ref_ngpio(lit, "switches", args.ngpio["switches"]) ELSE lit
    IN IF ~ Given(args, "buttons") THEN set
       ELSE append_buttons_ref(insert_buttons_node(set, args.base["buttons"], args.irq),
                               args.ngpio["buttons"])

\* One turn of the loop over extra_outputs.
extra_output(text, args, name) ==
    IF ~ Given(args, name) \/ args.ngpio[name] <= 0 THEN text
    ELSE append_gpio_ref(insert_gpio_node(text, name, args.base[name], None),
                         name, args.ngpio[name])

edited(text, args) ==
    LET inputs  == patch_inputs(text, args)
        rgb     == extra_output(inputs, args, "rgb_leds")
        seg     == extra_output(rgb, args, "seven_seg")
        outputs == extra_output(seg, args, "seven_seg_ctrl")
        sensed  == IF Given(args, "xadc") THEN insert_xadc_node(outputs, args.base["xadc"])
                   ELSE outputs
    IN IF Given(args, "temp_i2c") THEN insert_i2c_node(sensed, "temp_i2c", args.base["temp_i2c"])
       ELSE sensed

\* An insertion is due and has no place: the program fails.
Fails(text, args) == ~ text.marker /\ edited(text, args).soc # text.soc

\* The file afterwards: it is written last, whole.
Patched(text, args) == IF Fails(text, args) THEN text ELSE edited(text, args)
===============================================================================
