------------------------- MODULE MCTemplateParser --------------------------
(* Instance of TemplateParser for TLC: a page with a list and a            *)
(* subtemplate; a table of nested loops, a bound that may be no number, a  *)
(* branch that is empty, and an end that is dropped; and their output.     *)
EXTENDS TemplateParser, Template

Page == <<"page", ".tmpl">>
Conf == <<"page">>

Words(w) == <<"text", << <<"lit", w>> >> >>
Var(name) == <<"text", << <<"var", name>> >> >>

(* {% for i to #items %}{% if i.first_loop %}[{% else %},{% end %}         *)
(*    {{ items.i }}{% if i.last_loop %}]{% end %}{% end %}                 *)
(* {% subtemplate row %}<{{ name }}{% end %}                               *)
PageText == <<
    <<"for", "i", <<"size", "items">>, <<>>, <<
       <<"if", FALSE, <<"first", "i">>, <<Words("[")>>, << <<Words(",")>> >> >>,
       Var(<<"item", "items", "i">>),
       <<"if", FALSE, <<"last", "i">>, <<Words("]")>>, <<>> >> >> >>,
    <<"sub", "row", << <<"text", << <<"lit", "<">>, <<"var", <<"plain", "name">> >> >> >> >> >> >>

(* {% if name %}{% for i to name from 1 %}{% for j to 2 %}{{ i }}{{ j }}   *)
(*    {% if not j.last_loop %}-{% end %}{% end %}{% end %}                 *)
(* {% else %}{% if #items %}{% end %}{% end %}                              *)
ConfText == <<
    <<"if", FALSE, <<"plain", "name">>,
       << <<"for", "i", <<"plain", "name">>, << <<"num", "1">> >>, <<
             <<"for", "j", <<"num", "2">>, <<>>, <<
                <<"text", << <<"var", <<"plain", "i">> >>, <<"var", <<"plain", "j">> >> >> >>,
                <<"if", TRUE, <<"last", "j">>, <<Words("-")>>, <<>> >> >> >> >> >> >>,
       << << <<"if", FALSE, <<"size", "items">>, <<>>, <<>> >> >> >> >> >>

Paths == {Page, Conf}
FourLetter == {Conf}

Texts == [path \in Paths |-> IF path = Page THEN PageText ELSE ConfText]

Values == { <<"2">> }
Characters == {"[", ",", "]", "<", "-", "w", "0", "1", "2"}
Items1 == { <<"w">> }

(* Otherwise the inner loop would set the outer one's variable back.       *)
ASSUME LoopsEnd == \A path \in Path : NestedApart(Text[path])

-----------------------------------------------------------------------------
(* What a parser renders, in the words of the template.                    *)
Source(o) ==
    LET tree == trees[o.tree]
    IN  IF o.main THEN tree.pieces
        ELSE CHOOSE body \in {b[2] : b \in {c \in Bodies(tree.pieces) :
                                  c[1] = tree.nodes[o.node].content}} : TRUE

(* A cached output is what the documentation says the template means with  *)
(* the keys as they are now, whatever was rendered, replaced or set before: *)
(* neither the cache nor the variables that earlier loops left behind show. *)
(* Templates may use a loop's variables inside the loop only, and not end   *)
(* in a single character, which is dropped.                                *)
OutputIsMeaning ==
    \A p \in 1..Len(parsers) :
       LET o == parsers[p]
           text == Source(o)
       IN  (/\ mode = "running" /\ o.alive /\ o.is_rendered
            /\ WellScoped(text) /\ ~(o.main /\ Dropped(Tokens(text))))
           => o.output = Meaning(text, o, None)
=============================================================================
