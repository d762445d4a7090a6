----------------------------- MODULE MCBatchRun -----------------------------
(* Four manifest files, one of which has two paths; lists of includes that *)
(* can make a diamond, a chain that is too deep, cycles and a file that is *)
(* reached twice.                                                          *)
EXTENDS BatchRun, TLC

CONSTANTS c1, c2   \* paths of configs

MCPath == {"root", "a", "b", "c", "./a"}
MCFileOf(p) == IF p = "./a" THEN "a" ELSE p

\* What a file may say besides its includes.
Pair(name) == [name |-> name, id |-> None, self |-> FALSE, bad |-> FALSE] @@ Unset
Body(d, ps) == d @@ [pairs |-> ps]
One == Body(Unset, <<Pair("x")>>)
Two == Body([Unset EXCEPT !.gate = FALSE], <<Pair("x"), [Pair("y") EXCEPT !.config = c1]>>)
Plain == Body(Unset, <<>>)
Strict == Body([Unset EXCEPT !.strict = TRUE, !.config = c1], <<[Pair("y") EXCEPT !.gate = TRUE]>>)
Lax == Body([Unset EXCEPT !.gate = FALSE, !.config = c2], <<>>)
Tight == Body([Unset EXCEPT !.gate = TRUE, !.strict = FALSE], <<>>)
Same == Body(Unset, <<Pair("x"), [Pair("z") EXCEPT !.id = "x"]>>)
Bad == Body(Unset, <<[Pair("z") EXCEPT !.bad = TRUE]>>)
Self == Body(Unset, <<[Pair("x") EXCEPT !.self = TRUE]>>)

Texts(includes, bodies) == {[includes |-> l] @@ b : l \in includes, b \in bodies}
MCText(f) ==
  CASE f = "root" -> Texts({<<>>, <<"a">>, <<"a", "b">>, <<"b", "a">>, <<"a", "./a">>}, {One, Two, Plain, Lax, Same})
    [] f = "a" -> Texts({<<>>, <<"c">>, <<"b", "c">>, <<"./a">>}, {Plain, Strict, Tight, Self})
    [] f = "b" -> Texts({<<>>, <<"c">>, <<"root">>}, {Plain, Lax, One}) \cup {Broken}
    [] f = "c" -> Texts({<<>>, <<"a">>}, {Plain, Tight, Bad})

Bare == NoCli
MCInvocation ==
  {Bare, [Bare EXCEPT !.env = c2, !.default = c1, !.strict = TRUE],
   [Bare EXCEPT !.env = c1, !.noConfig = TRUE], [Bare EXCEPT !.default = c2, !.ancestors = {c1}],
   [Bare EXCEPT !.ancestors = {c1, c2}]}
Searching ==
  {[Bare EXCEPT !.ancestors = {c1, c2}], [Bare EXCEPT !.ancestors = {c1, c2}, !.config = c1],
   [Bare EXCEPT !.ancestors = {c1, c2}, !.default = c1]}

C(gate, rule) == [gate |-> gate, rule |-> rule, reasoned |-> TRUE, required |-> FALSE]
MCConfigText ==
  {C(None, "none"), C(FALSE, "none"), C(TRUE, "live"),
   [C(None, "live") EXCEPT !.reasoned = FALSE, !.required = TRUE]}
WithExpiry == MCConfigText \cup {C(None, "expired")}

MCSweep ==
  {[old |-> {"x", "y"}, new |-> {"x"}, skip |-> {}, same |-> {}],
   [old |-> {"x", "y"}, new |-> {"x", "y", "z"}, skip |-> {}, same |-> {}],
   [old |-> {"x", "y"}, new |-> {"y"}, skip |-> {"x"}, same |-> {"y"}],
   [old |-> {"x"}, new |-> {"x", "y"}, skip |-> {"x"}, same |-> {}],
   [old |-> {"x", "x.WASM"}, new |-> {"x", "x.WASM"}, skip |-> {}, same |-> {}],
   [old |-> {"x", "x.WASM"}, new |-> {"x"}, skip |-> {}, same |-> {}],
   [old |-> {"x", "x.WASM"}, new |-> {}, skip |-> {}, same |-> {}],
   [old |-> {"x_", "x+"}, new |-> {"x_", "x+"}, skip |-> {}, same |-> {}]}
NoSweep == {}

\* Two files of one name, compared or gone, and two names that a report's file
\* name does not tell apart.
MCStem(f) == IF f = "x.WASM" THEN "x" ELSE f
MCSanitized(n) == IF n = "x+" THEN "x_" ELSE n
Template(name, id) == [valid |-> TRUE, name |-> name, id |-> id]
MCTemplates ==
  {None, Template(TRUE, FALSE), Template(FALSE, FALSE), [Template(TRUE, TRUE) EXCEPT !.valid = FALSE]}
=============================================================================
