----------------------------- MODULE MCSignPsbt -----------------------------
(* Two wallets, two policies registered with the first and one that is not, *)
(* and inputs and outputs that tell the truth about their scripts or lie.   *)
EXTENDS SignPsbt

In(script, map, names, ours, path, amount) ==
    [script |-> script, map |-> map, names |-> names, ours |-> ours, path |-> path, amount |-> amount]

\* The third key matters for Green 2of3 accounts only.
Out(script, map, ours, path, amount) ==
    [script |-> script, map |-> map, ours |-> ours, third |-> "x", path |-> path, amount |-> amount]

MCRegistered == <<{"a", "b"}, {"b"}>>

MCInputs ==
    {In(<<"single", 1>>, "single", {1}, {1}, "usual", 1),
     In(<<"single", 2>>, "single", {2}, {2}, "usual", 2),
     In(<<"multi", "a">>, "multi", {1}, {1}, "usual", 1),
     In(<<"multi", "a">>, "multi", {1}, {1}, "long", 1),
     In(<<"multi", "b">>, "multi", {1, 2}, {1, 2}, "usual", 2),
     In(<<"multi", "c">>, "multi", {1}, {1}, "usual", 1),
     In(<<"multi", "a">>, "single", {1}, {1}, "usual", 1),
     In(<<"green", 1>>, "green", {1}, {1}, "usual", 1),
     In(<<"green3", <<1, "y">>>>, "green3", {1}, {1}, "usual", 1),
     In(<<"other", 0>>, "single", {2}, {}, "usual", 2)}

MCOutputs ==
    {Out(<<"single", 1>>, "single", {1}, "change", 1),
     Out(<<"single", 1>>, "single", {1}, "odd change", 1),
     Out(<<"multi", "a">>, "multi", {1}, "change", 1),
     Out(<<"multi", "a">>, "multi", {1}, "receive", 1),
     Out(<<"multi", "b">>, "multi", {1, 2}, "change", 1),
     Out(<<"green", 1>>, "green", {1}, "receive", 1),
     Out(<<"green3", <<1, "x">>>>, "green3", {1}, "receive", 1),
     Out(<<"green3", <<1, "y">>>>, "green3", {1}, "receive", 1),
     Out(<<"green3", <<2, "y">>>>, "recovery", {1}, "receive", 1),
     Out(<<"other", 0>>, "single", {1}, "change", 1),
     Out(<<"other", 0>>, "multi", {1, 2}, "change", 1),
     Out(<<"other", 0>>, "single", {}, "long", 0)}

============================================================================
