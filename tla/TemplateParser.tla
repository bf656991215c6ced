--------------------------- MODULE TemplateParser --------------------------
(***************************************************************************)
(* Objects of class TemplateParser (ooapi/template_parser.cc): their       *)
(* tables of variables, the cached output, the trees they render and which *)
(* of them owns a tree, and the files they read and write.                 *)
(*                                                                         *)
(* What the class leaves to its callers, and the actions take for granted: *)
(* only sub-parsers are copied, by new_subtemplate(); a template is        *)
(* replaced in main parsers only; a parser is no value of its own key; and *)
(* nothing is rendered whose tree is gone.  What a tree is, and what is    *)
(* made of it, are parameters; their values are in Template.               *)
(***************************************************************************)
EXTENDS Integers, Sequences, SequencesExt

CONSTANTS
    AstOf(_),               \* the nodes of the tree of some pieces
    Parsed(_, _, _, _),     \* parse_children(): the nodes, the parser, which of
                            \* them, and the state the output is made from
    Path,           \* names of files, sequences of segments
    FourLetters,    \* those of four characters
    Given,          \* those that callers give to save_to_file()
    Text,           \* the templates that are there at first: [Path -> pieces]
    Key, List,      \* names of variables and of vectors
    NewValue, Item, \* strings that variables and vectors are given
    MaxParser, MaxTree, MaxList, MaxWords   \* bounds: objects, trees, items, words
                    \* of an output that becomes a value

VARIABLES
    parsers,        \* all objects, in the order of their construction
    trees,          \* all trees: [alive, nodes], and the pieces they were made of
    files,          \* [Path -> pieces]
    mode            \* "running", "exit" or "crash"

parserVars == <<parsers, trees, files, mode>>

ASSUME PathsAreNames == DOMAIN Text = Path /\ FourLetters \cup Given \subseteq Path

-----------------------------------------------------------------------------
None == [k \in {} |-> k]

(* The parser of tree t at the given node; `main' is !no_cleanup.          *)
NewParser(main, t, node, path, subs) ==
    [alive |-> TRUE, main |-> main, tree |-> t, node |-> node, path |-> path,
     string |-> None, vector |-> None, iter |-> None, first |-> None, last |-> None,
     is_rendered |-> FALSE, output |-> <<>>, subs |-> subs]

NewTree(pieces) == [alive |-> TRUE, pieces |-> pieces, nodes |-> AstOf(pieces)]

\* Mutant: the sub-parsers get the root node instead of the active one.
EnteredRoot(subs, t, nodes) ==
    [x \in DOMAIN subs \cup {nodes[n].content : n \in {m \in 1..Len(nodes) : nodes[m].type = "subtemplate"}}
        |-> [tree |-> t, node |-> 1]]

(* The entries generate_ast() makes in `subtemplates', which keeps those   *)
(* of a template that was replaced.                                        *)
Entered(subs, t, nodes) ==
    LET at == {n \in 1..Len(nodes) : nodes[n].type = "subtemplate"}
        names == {nodes[n].content : n \in at}
    IN  [x \in DOMAIN subs \cup names |->
            IF x \in names
            THEN [tree |-> t, node |-> Max({n \in at : nodes[n].content = x})]
            ELSE subs[x]]

Running(p) == mode = "running" /\ parsers[p].alive

ParserInit ==
    /\ parsers = <<>> /\ trees = <<>>
    /\ files = Text
    /\ mode = "running"

Construct(path) ==
    LET t == Len(trees) + 1
        tree == NewTree(files[path])
    IN  /\ mode = "running" /\ Len(parsers) < MaxParser /\ Len(trees) < MaxTree
        /\ trees' = Append(trees, tree)
        /\ parsers' = Append(parsers,
                         NewParser(TRUE, t, 1, path, Entered(None, t, tree.nodes)))
        /\ UNCHANGED <<files, mode>>

(* A parser after replace_template(): tables and loop variables are kept.  *)
ReplacedTemplate(o, t, path) ==
    [o EXCEPT !.path = path, !.tree = t, !.subs = Entered(@, t, trees'[t].nodes),
              !.output = <<>>, !.is_rendered = FALSE]

ReplaceTemplate(p, path) ==
    /\ Running(p) /\ parsers[p].main /\ Len(trees) < MaxTree
    /\ trees' = Append([trees EXCEPT ![parsers[p].tree].alive = FALSE], NewTree(files[path]))
    /\ parsers' = [parsers EXCEPT ![p] = ReplacedTemplate(@, Len(trees) + 1, path)]
    /\ UNCHANGED <<files, mode>>

(* A copy of the sub-parser, which nobody has touched since it was made.   *)
NewSubtemplate(p, x) ==
    /\ Running(p) /\ Len(parsers) < MaxParser
    /\ x \in DOMAIN parsers[p].subs
    /\ LET sub == parsers[p].subs[x]
       IN  parsers' = Append(parsers, NewParser(FALSE, sub.tree, sub.node, <<>>, None))
    /\ UNCHANGED <<trees, files, mode>>

(* Of a deleted object only what it was is left, and nobody looks at it.   *)
Deleted(o) == [NewParser(o.main, o.tree, o.node, <<>>, None) EXCEPT !.alive = FALSE]

\* Mutant: a parser without no_cleanup's protection deletes what it renders.
DestroyAnyTree(p) ==
    /\ Running(p)
    /\ parsers' = [parsers EXCEPT ![p] = Deleted(@)]
    /\ trees' = [trees EXCEPT ![parsers[p].tree].alive = FALSE]
    /\ UNCHANGED <<files, mode>>

(* The destructor; the sub-parsers deleted with it own nothing.            *)
DestroyParser(p) ==
    /\ Running(p)
    /\ parsers' = [parsers EXCEPT ![p] = Deleted(@)]
    /\ trees' = IF parsers[p].main
                THEN [trees EXCEPT ![parsers[p].tree].alive = FALSE] ELSE trees
    /\ UNCHANGED <<files, mode>>

-----------------------------------------------------------------------------
(* A call of render(): the parser afterwards, and whether it came back.    *)
Rendered(p) ==
    LET o == parsers[p]
        nodes == trees[o.tree].nodes
        st == Parsed(nodes, o, nodes[o.node].children,
                [out |-> <<>>, iter |-> o.iter, first |-> o.first, last |-> o.last,
                 end |-> "running"])
    IN  IF o.is_rendered THEN [parser |-> o, end |-> "running"]
        ELSE [parser |-> [o EXCEPT !.output = st.out, !.is_rendered = TRUE, !.iter = st.iter,
                                   !.first = st.first, !.last = st.last],
              end |-> st.end]

CanRender(p) == Running(p) /\ (parsers[p].is_rendered \/ trees[parsers[p].tree].alive)

Render(p) ==
    LET r == Rendered(p)
    IN  /\ CanRender(p)
        /\ parsers' = [parsers EXCEPT ![p] = r.parser]
        /\ mode' = r.end
        /\ UNCHANGED <<trees, files>>

(* set_key() and add_to_key() on a parser.                                 *)
WithKey(o, k, val) == [o EXCEPT !.string = (k :> val) @@ @, !.is_rendered = FALSE]

Items(o, k) == IF k \in DOMAIN o.vector THEN o.vector[k] ELSE <<>>
WithItem(o, k, val) ==
    [o EXCEPT !.vector = (k :> Append(Items(o, k), val)) @@ @, !.is_rendered = FALSE]

SetKey(p, k, val) ==
    /\ Running(p)
    /\ parsers' = [parsers EXCEPT ![p] = WithKey(@, k, val)]
    /\ UNCHANGED <<trees, files, mode>>

AddToKey(p, k, val) ==
    /\ Running(p) /\ Len(Items(parsers[p], k)) < MaxList
    /\ parsers' = [parsers EXCEPT ![p] = WithItem(@, k, val)]
    /\ UNCHANGED <<trees, files, mode>>

(* With a parser for a value: it is rendered at once.                      *)
SetKeyToParser(p, k, q) ==
    LET r == Rendered(q)
    IN  /\ Running(p) /\ p # q /\ CanRender(q) /\ Len(r.parser.output) <= MaxWords
        /\ parsers' = [parsers EXCEPT ![p] = WithKey(@, k, r.parser.output), ![q] = r.parser]
        /\ mode' = r.end
        /\ UNCHANGED <<trees, files>>

AddParserToKey(p, k, q) ==
    LET r == Rendered(q)
    IN  /\ Running(p) /\ p # q /\ CanRender(q) /\ Len(r.parser.output) <= MaxWords
        /\ Len(Items(parsers[p], k)) < MaxList
        /\ parsers' = [parsers EXCEPT ![p] = WithItem(@, k, r.parser.output), ![q] = r.parser]
        /\ mode' = r.end
        /\ UNCHANGED <<trees, files>>

-----------------------------------------------------------------------------
(* What a file holds once these words were written to it.                  *)
Written(words) ==
    IF words = <<>> THEN <<>>
    ELSE << <<"text", [i \in 1..Len(words) |-> <<"lit", words[i]>>]>> >>

(* The file is emptied when it is opened, before anything is rendered.     *)
SaveTo(p, path) ==
    LET r == Rendered(p)
    IN  /\ CanRender(p)
        /\ parsers' = [parsers EXCEPT ![p] = r.parser]
        /\ mode' = r.end
        /\ files' = [files EXCEPT ![path] =
                        IF r.end = "running" THEN Written(r.parser.output) ELSE <<>>]
        /\ UNCHANGED trees

SaveToFile(p, path) == SaveTo(p, path)

(* endswith(".tmpl"): the rfind() of a name without the suffix is npos,    *)
(* and so is length() - 5 of a name of four characters.                    *)
EndsWithTmpl(path) ==
    \/ path # <<>> /\ Last(path) = ".tmpl"
    \/ path \in FourLetters /\ \A i \in 1..Len(path) : path[i] # ".tmpl"

(* subs(".tmpl", ""): the first one goes.                                  *)
Target(path) ==
    LET at == {i \in 1..Len(path) : path[i] = ".tmpl"}
    IN  IF at = {} THEN path ELSE RemoveAt(path, Min(at))

(* save_to_file(); without the suffix it throws and does nothing.          *)
Save(p) ==
    /\ EndsWithTmpl(parsers[p].path)
    /\ Target(parsers[p].path) \in Path
    /\ SaveTo(p, Target(parsers[p].path))

-----------------------------------------------------------------------------
ParserNext ==
    \/ \E path \in Path : Construct(path)
    \/ \E p \in 1..Len(parsers) :
          \/ \E path \in Path : ReplaceTemplate(p, path)
          \/ \E path \in Given : SaveToFile(p, path)
          \/ \E x \in DOMAIN parsers[p].subs : NewSubtemplate(p, x)
          \/ \E k \in Key, val \in NewValue : SetKey(p, k, val)
          \/ \E k \in List, val \in Item : AddToKey(p, k, val)
          \/ \E q \in 1..Len(parsers) :
                \/ \E k \in Key : SetKeyToParser(p, k, q)
                \/ \E k \in List : AddParserToKey(p, k, q)
          \/ Render(p) \/ Save(p) \/ DestroyParser(p)

ParserSpec == ParserInit /\ [][ParserNext]_parserVars
-----------------------------------------------------------------------------
ParserTypeOK ==
    /\ \A p \in 1..Len(parsers) :
          LET o == parsers[p]
          IN  /\ o.alive \in BOOLEAN /\ o.main \in BOOLEAN /\ o.is_rendered \in BOOLEAN
              /\ o.tree \in 1..Len(trees)
              /\ trees[o.tree].nodes[o.node].type = IF o.main THEN "root" ELSE "subtemplate"
              /\ DOMAIN o.string \subseteq Key /\ DOMAIN o.vector \subseteq List
              /\ DOMAIN o.iter = DOMAIN o.first /\ DOMAIN o.iter = DOMAIN o.last
              /\ \A x \in DOMAIN o.subs : o.subs[x].tree \in 1..Len(trees)
    /\ \A t \in 1..Len(trees) : trees[t].alive \in BOOLEAN
    /\ DOMAIN files = Path
    /\ mode \in {"running", "exit", "crash"}

(* The tree of a template is deleted once: it lives exactly as long as the *)
(* one main parser that made it and has not replaced it.  Sub-parsers, of  *)
(* which any number render parts of it, neither keep nor delete it.        *)
TreesAreOwned ==
    \A t \in 1..Len(trees) :
       LET owners == {p \in 1..Len(parsers) :
                        parsers[p].alive /\ parsers[p].main /\ parsers[p].tree = t}
       IN  IF trees[t].alive THEN \E p \in owners : owners = {p} ELSE owners = {}

(* "only accept this save_to_file() request, if the filename endswith      *)
(* .tmpl or we could overwrite the template file" (template_parser.cc:431): *)
(* a save without a name leaves the parser's own template file as it is.   *)
SaveKeepsTemplate ==
    [][\A p \in 1..Len(parsers) :
         LET path == parsers[p].path
         IN  (path \in Path /\ files'[path] # files[path]) => ~Save(p)]_parserVars
=============================================================================
