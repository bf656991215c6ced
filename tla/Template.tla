------------------------------ MODULE Template -----------------------------
(***************************************************************************)
(* The language of ooapi/template_parser.cc: the tree generate_ast() makes *)
(* of a template, what parse() does to each node of it, and what a         *)
(* template means according to the class's documentation.                  *)
(*                                                                         *)
(* A template is a sequence of pieces,                                     *)
(*    <<"text", parts>>               a part is <<"lit", w>> or            *)
(*                                    <<"var", name>>, for {{ name }}      *)
(*    <<"if", not, name, then, else>> else is <<>>, or <<pieces>>          *)
(*    <<"for", i, to, from, body>>    from is <<>>, or <<name>>            *)
(*    <<"sub", name, body>>           a subtemplate                        *)
(* and a name is one of                                                    *)
(*    <<"num", d>>  <<"plain", x>>  <<"size", v>>  (#v)                    *)
(*    <<"item", v, i>>  (v.i)  <<"first", i>>  <<"last", i>>               *)
(* Strings are sequences of words; a number is one word.                   *)
(***************************************************************************)
EXTENDS Integers, Sequences, SequencesExt

CONSTANTS
    OneCharacter,   \* the words of a single character
    MaxNumber       \* bound: numbers that occur

Numerals == {ToString(n) : n \in 0..MaxNumber}
NumberOf == [d \in Numerals |-> CHOOSE n \in 0..MaxNumber : ToString(n) = d]

(* integer(s) and, for those that throw nothing, its result.               *)
IsNumber(s) == s # <<>> /\ s[1] \in Numerals
Number(s) == NumberOf[s[1]]

IsTrue(s) == s \notin {<<"0">>, <<>>, <<"false">>}
Bool(b) == IF b THEN <<"true">> ELSE <<"false">>

-----------------------------------------------------------------------------
(* From the text of a template to its tree.                                *)

Token(k, c) == [k |-> k, c |-> c]

(* The commands and texts of a template in the order they are in the file. *)
RECURSIVE Tokens(_)
Tokens(pieces) ==
    FlattenSeq([i \in 1..Len(pieces) |->
      LET p == pieces[i]
          end == <<Token("end", <<>>)>>
      IN  CASE p[1] = "text" -> <<Token("text", p[2])>>
            [] p[1] = "if"   -> <<Token("if", <<p[2], p[3]>>)>> \o Tokens(p[4])
                                \o (IF p[5] = <<>> THEN <<>>
                                    ELSE <<Token("else", <<>>)>> \o Tokens(p[5][1])) \o end
            [] p[1] = "for"  -> <<Token("for", <<p[2], p[3], p[4]>>)>> \o Tokens(p[5]) \o end
            [] p[1] = "sub"  -> <<Token("subtemplate", p[2])>> \o Tokens(p[3]) \o end])

Node(type, parent, content) ==
    [type |-> type, parent |-> parent, content |-> content, children |-> <<>>]

(* new ASTNode(...), pushed to the children of the active node.            *)
Push(s, tok) ==
    [s EXCEPT !.nodes = Append([@ EXCEPT ![s.active].children = Append(@, Len(s.nodes) + 1)],
                               Node(tok.k, s.active, tok.c))]

(* "end", of whatever kind, closes the active node, and an `else' with the *)
(* `if' it belongs to.                                                     *)
Leave(s) ==
    LET up == IF s.nodes[s.active].type = "else" THEN s.nodes[s.active].parent ELSE s.active
    IN  [s EXCEPT !.active = s.nodes[up].parent]

AstStep(s, tok) ==
    CASE tok.k = "text" -> Push(s, tok)
      [] tok.k = "end"  -> Leave(s)
      [] OTHER          -> [Push(s, tok) EXCEPT !.active = Len(s.nodes) + 1]

(* What follows the last command is kept if it has two characters or more. *)
Dropped(tokens) ==
    /\ tokens # <<>> /\ Last(tokens).k = "text"
    /\ \E w \in OneCharacter : Last(tokens).c = << <<"lit", w>> >>

GenerateAst(pieces) ==
    LET all == Tokens(pieces)
        tokens == IF Dropped(all) THEN Front(all) ELSE all
    IN  FoldLeft(AstStep, [nodes |-> <<Node("root", 0, <<>>)>>, active |-> 1], tokens).nodes

-----------------------------------------------------------------------------
(* parse(): st holds `output' (out), iter_vars, first_loop and last_loop,  *)
(* and whether the process still runs (end).                               *)

(* get_val(name), with vars.string and vars.vector the parser's tables.    *)
GetVal(vars, st, name) ==
    CASE name[1] = "num"   -> <<name[2]>>
      [] name[1] = "item"  ->
            IF /\ name[2] \in DOMAIN vars.vector /\ name[3] \in DOMAIN st.iter
               /\ st.iter[name[3]] < Len(vars.vector[name[2]])
            THEN vars.vector[name[2]][st.iter[name[3]] + 1] ELSE <<>>
      [] name[1] = "first" ->
            IF name[2] \in DOMAIN st.first THEN Bool(st.first[name[2]]) ELSE <<>>
      [] name[1] = "last"  ->
            IF name[2] \in DOMAIN st.last THEN Bool(st.last[name[2]]) ELSE <<>>
      [] name[1] = "size"  ->
            IF name[2] \in DOMAIN vars.vector
            THEN <<ToString(Len(vars.vector[name[2]]))>> ELSE <<"0">>
      [] name[1] = "plain" ->
            IF name[2] \in DOMAIN vars.string THEN vars.string[name[2]]
            ELSE IF name[2] \in DOMAIN st.iter THEN <<ToString(st.iter[name[2]])>> ELSE <<>>

(* A text, its variables replaced; the values hold no "{{" themselves.     *)
Replaced(vars, st, parts) ==
    FlattenSeq([i \in 1..Len(parts) |->
        IF parts[i][1] = "lit" THEN <<parts[i][2]>> ELSE GetVal(vars, st, parts[i][2])])

\* Mutant: last_loop is not reset when a loop starts.
StartLoopStale(st, i, start) ==
    [st EXCEPT !.iter = (i :> start) @@ @, !.first = (i :> TRUE) @@ @,
               !.last = @ @@ (i :> FALSE)]

StartLoop(st, i, start) ==
    [st EXCEPT !.iter = (i :> start) @@ @, !.first = (i :> TRUE) @@ @, !.last = (i :> FALSE) @@ @]

Round(st, i, start, end) ==
    [st EXCEPT !.first[i] = @ /\ st.iter[i] = start, !.last[i] = @ \/ st.iter[i] = end - 1]

RECURSIVE Parse(_, _, _, _), ParseChildren(_, _, _, _), Loop(_, _, _, _, _, _)

ParseChildren(ast, vars, list, st) ==
    IF list = <<>> THEN st
    ELSE ParseChildren(ast, vars, Tail(list), Parse(ast, vars, Head(list), st))

Loop(ast, vars, n, st, start, end) ==
    LET i == ast[n].content[1]
    IN  IF st.end # "running" \/ st.iter[i] >= end THEN st
        ELSE LET s == ParseChildren(ast, vars, ast[n].children, Round(st, i, start, end))
             IN  Loop(ast, vars, n, [s EXCEPT !.iter[i] = @ + 1], start, end)

(* children.back() of an `if' with nothing in it is undefined, in practice *)
(* the death of the process; a bound that is no number is its exit(1).     *)
ParseIf(ast, vars, n, st) ==
    LET kids == ast[n].children
        taken == IsTrue(GetVal(vars, st, ast[n].content[2])) # ast[n].content[1]
        hasElse == ast[Last(kids)].type = "else"
    IN  IF kids = <<>> THEN [st EXCEPT !.end = "crash"]
        ELSE IF taken
        THEN ParseChildren(ast, vars, IF hasElse THEN Front(kids) ELSE kids, st)
        ELSE IF hasElse THEN ParseChildren(ast, vars, ast[Last(kids)].children, st) ELSE st

ParseFor(ast, vars, n, st) ==
    LET c == ast[n].content
        to == GetVal(vars, st, c[2])
        start == IF c[3] = <<>> THEN 0 ELSE NumberOf[c[3][1][2]]
    IN  IF (c[3] # <<>> /\ c[3][1][1] # "num") \/ ~IsNumber(to)
        THEN [st EXCEPT !.end = "exit"]
        ELSE Loop(ast, vars, n, StartLoop(st, c[1], start), start, Number(to))

Parse(ast, vars, n, st) ==
    IF st.end # "running" THEN st
    ELSE CASE ast[n].type = "text" ->
                 [st EXCEPT !.out = @ \o Replaced(vars, st, ast[n].content)]
           [] ast[n].type = "if"   -> ParseIf(ast, vars, n, st)
           [] ast[n].type = "for"  -> ParseFor(ast, vars, n, st)
           [] ast[n].type = "else" -> ParseChildren(ast, vars, ast[n].children, st)
           [] OTHER                -> st

-----------------------------------------------------------------------------
(* The documentation of class TemplateParser (template_parser.h): what a   *)
(* template means with the tables vars, inside the loops of scope.         *)

Meant(vars, scope, name) ==
    LET Of(i, field) == IF i \in DOMAIN scope THEN scope[i][field] ELSE <<>>
    IN  CASE name[1] = "num"   -> <<name[2]>>
          [] name[1] = "first" -> Of(name[2], "first")
          [] name[1] = "last"  -> Of(name[2], "last")
          [] name[1] = "size"  ->
                IF name[2] \in DOMAIN vars.vector
                THEN <<ToString(Len(vars.vector[name[2]]))>> ELSE <<"0">>
          [] name[1] = "item"  ->
                LET at == Number(scope[name[3]].value) + 1
                IN  IF /\ name[3] \in DOMAIN scope /\ name[2] \in DOMAIN vars.vector
                       /\ at <= Len(vars.vector[name[2]])
                    THEN vars.vector[name[2]][at] ELSE <<>>
          [] name[1] = "plain" ->
                IF name[2] \in DOMAIN vars.string THEN vars.string[name[2]]
                ELSE Of(name[2], "value")

RECURSIVE Meaning(_, _, _)
Meaning(pieces, vars, scope) ==
    FlattenSeq([k \in 1..Len(pieces) |->
      LET p == pieces[k]
          Val(name) == Meant(vars, scope, name)
      IN  CASE p[1] = "text" ->
                 FlattenSeq([j \in 1..Len(p[2]) |->
                    IF p[2][j][1] = "lit" THEN <<p[2][j][2]>> ELSE Val(p[2][j][2])])
            [] p[1] = "if" ->
                 IF IsTrue(Val(p[3])) # p[2] THEN Meaning(p[4], vars, scope)
                 ELSE IF p[5] = <<>> THEN <<>> ELSE Meaning(p[5][1], vars, scope)
            [] p[1] = "for" ->
                 LET from == IF p[4] = <<>> THEN 0 ELSE Number(Val(p[4][1]))
                     count == Number(Val(p[3])) - from
                     inner(r) == (p[2] :> [value |-> <<ToString(from + r - 1)>>,
                                           first |-> Bool(r = 1), last |-> Bool(r = count)])
                                 @@ scope
                 IN  FlattenSeq([r \in 1..count |-> Meaning(p[5], vars, inner(r))])
            [] OTHER -> <<>>])

(* A text without its subtemplates is well scoped if it uses the variables *)
(* of a loop inside the loop only.                                         *)
RECURSIVE LoopVariables(_), Scoped(_, _, _)
LoopVariables(pieces) ==
    UNION {LET p == pieces[k]
           IN  CASE p[1] = "for" -> {p[2]} \cup LoopVariables(p[5])
                 [] p[1] = "if"  -> LoopVariables(p[4])
                                    \cup (IF p[5] = <<>> THEN {} ELSE LoopVariables(p[5][1]))
                 [] OTHER        -> {}
             : k \in 1..Len(pieces)}

Scoped(pieces, scope, loops) ==
    LET Name(name) ==
          CASE name[1] \in {"first", "last"} -> name[2] \in scope
            [] name[1] = "item"  -> name[3] \in scope
            [] name[1] = "plain" -> name[2] \in loops => name[2] \in scope
            [] OTHER             -> TRUE
    IN  \A k \in 1..Len(pieces) :
          LET p == pieces[k]
          IN  CASE p[1] = "text" -> \A j \in 1..Len(p[2]) : p[2][j][1] = "var" => Name(p[2][j][2])
                [] p[1] = "if"   -> /\ Name(p[3]) /\ Scoped(p[4], scope, loops)
                                    /\ p[5] # <<>> => Scoped(p[5][1], scope, loops)
                [] p[1] = "for"  -> Name(p[3]) /\ Scoped(p[5], scope \cup {p[2]}, loops)
                [] OTHER         -> TRUE

WellScoped(pieces) == Scoped(pieces, {}, LoopVariables(pieces))

(* No loop is inside another one over the same variable.                   *)
RECURSIVE NestedApart(_)
NestedApart(pieces) ==
    \A k \in 1..Len(pieces) :
       LET p == pieces[k]
       IN  CASE p[1] = "for" -> p[2] \notin LoopVariables(p[5]) /\ NestedApart(p[5])
             [] p[1] = "if"  -> /\ NestedApart(p[4])
                                /\ p[5] # <<>> => NestedApart(p[5][1])
             [] p[1] = "sub" -> NestedApart(p[3])
             [] OTHER        -> TRUE

(* The body of each subtemplate, by name.                                  *)
RECURSIVE Bodies(_)
Bodies(pieces) ==
    UNION {LET p == pieces[k]
           IN  CASE p[1] = "sub" -> {<<p[2], p[3]>>} \cup Bodies(p[3])
                 [] p[1] = "if"  -> Bodies(p[4]) \cup (IF p[5] = <<>> THEN {} ELSE Bodies(p[5][1]))
                 [] p[1] = "for" -> Bodies(p[5])
                 [] OTHER        -> {}
             : k \in 1..Len(pieces)}
=============================================================================
