-------------------------- MODULE MCConfigManager --------------------------
(* Instance of ConfigManager for TLC: two options of every combination of  *)
(* types, with short commands and ids that collide, in groups whose names  *)
(* may collide; values the config file format cannot hold; command lines   *)
(* that fail at every check of parse().                                    *)
EXTENDS ConfigManager

CONSTANTS flag, num, part, str, maps, fl, ls, n1, n2, n3, n4, n5, n6, w, v

(* "1", "2", "2.5", "1234567" and, as six digits of it print,              *)
(* "1.23457e+06", of which >> takes the "1" for an int; and "3000000000",  *)
(* which no int holds and whose worth is beyond TLC's integers, so that    *)
(* any other stands for it.                                                *)
Worths == [n \in {n1, n2, n3, n4, n5, n6} |->
    CASE n = n1 -> 10 [] n = n2 -> 20 [] n = n3 -> 25
      [] n = n4 -> 12345670 [] n = n5 -> 12345700 [] n = n6 -> 30000000]

Wholes == [n \in {n1, n2, n3, n4, n5} |->
    CASE n \in {n1, n5} -> 1 [] n \in {n2, n3} -> 2 [] n = n4 -> 1234567]

Opt(id, type, short) == [id |-> id, type |-> type, short |-> short]

(* The manager compares names of groups and no more.                       *)
GroupsAlike == Permutations(GroupName)

Declarations == {
    Opt(flag, "bool", fl), Opt(num, "integer", fl), Opt(part, "real", ""),
    Opt(str, "string", ""), Opt(str, "list", ls), Opt(maps, "map", "") }

Values == [t \in Types |->
    CASE t = "bool"   -> {TRUE}
      [] t = "integer" -> {2}
      [] t = "real"   -> {12345670}
      [] t = "string" -> {<<w, "=", v>>, <<" ", w>>, <<>>, <<w, Newline, flag>>}
      [] t = "list"   -> {<<>>, <<<<w>>, <<v>>>>}
      [] t = "map"    -> {[k \in {<<w>>, <<v>>} |-> <<w>>]}]

CmdLines == {
    <<LongCmd(flag)>>,
    <<ShortCmd(fl), <<"false">>, LongCmd(str), <<"true">>>>,
    <<ShortCmd(fl), <<" ", n5, w>>, LongCmd(num), <<n6>>>>,
    <<LongCmd(part), <<Newline, n3>>, LongCmd(part), <<w>>>>,
    <<LongCmd(str), LongCmd(flag), LongCmd(flag), <<"true">>, <<w>>>>,
    <<ShortCmd(ls), <<w, ",", ",", v>>, LongCmd(str)>>,
    <<LongCmd(maps), <<w, ":", v, ":", w, ",", w, ":">>, LongCmd(maps), <<w>>>> }

HandFiles == {
    << <<flag>>, <<>>, <<"#", w>>, <<str, "=", " ", w, " ", "=", v>>, <<num, " ", "=", n3>> >>,
    << <<num, "=", n1>>, <<" ">> >> }
=============================================================================
