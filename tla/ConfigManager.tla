---------------------------- MODULE ConfigManager --------------------------
(***************************************************************************)
(* ConfigManager, ConfigGroup and ConfigOption of ooapi/config_manager:    *)
(* the declaration of groups and options, the assignment of options from   *)
(* the program, a command line or a config file, and the config file       *)
(* written by one run of a program and read by the next.                   *)
(*                                                                         *)
(* Options and groups are heap objects that nobody deletes, referred to    *)
(* by index; whoever created one holds a reference to it.  Strings are the *)
(* sequences of atoms of XString; the text of a number is one atom.  A     *)
(* double is an integer, in units of the last decimal place any of the     *)
(* texts has: the binary rounding of a decimal text, beyond 15 digits, is  *)
(* left out.  Ids, descriptions, names of groups and the program's own     *)
(* command hold no newline.                                                *)
(***************************************************************************)
EXTENDS XString

CONSTANTS
    GroupName,      \* names given to groups
    Declaration,    \* options declared: [id, type, short], short "" for none
    Worth,          \* the texts of numbers: what >> makes of each as a double
    Whole,          \* those that >> takes for an int, and what it makes of each
    One,            \* what a double of 1 is in units of Worth
    Value,          \* per type, the values the program assigns
    CmdLine,        \* argument lists of the program
    HandWritten,    \* config files written by hand, as sequences of texts
    MaxGroup,       \* bound: group objects
    MaxOption       \* bound: option objects

Types == {"bool", "integer", "real", "string", "list", "map"}

IsValue(type, v) ==
    CASE type = "bool"   -> v \in BOOLEAN
      [] type = "integer" -> v \in Range(Whole)
      [] type = "real"   -> v \in Range(Worth)
      [] type = "string" -> IsSequence(v)
      [] type = "list"   -> AreSequences(v)
      [] type = "map"    -> /\ v = [k \in DOMAIN v |-> v[k]] /\ IsFiniteSet(DOMAIN v)
                            /\ \A k \in DOMAIN v : IsSequence(k) /\ IsSequence(v[k])

Abs(x) == IF x < 0 THEN -x ELSE x

(* str() of a double: the stream's six significant digits, so the nearest  *)
(* multiple of the least power of ten that leaves no more of them; of a    *)
(* tie, one of the two.                                                    *)
SixDigits(x) ==
    LET place[y \in Nat] == IF y < 1000000 THEN 1 ELSE 10 * place[y \div 10]
        p == place[Abs(x)]
        below == x - (x % p)
    IN  CHOOSE y \in {below, below + p} : 2 * Abs(x - y) <= p

ASSUME ConfigAssumption ==
    /\ \A x \in Range(Worth) : SixDigits(x) \in Range(Worth)
    /\ \A m \in DOMAIN Whole : \E n \in DOMAIN Whole :
          Whole[n] = Whole[m] /\ Worth[n] = Whole[m] * One
    /\ \A d \in Declaration : d.type \in Types
    /\ \A t \in Types : \A v \in Value[t] : IsValue(t, v)
    /\ \A a \in CmdLine : AreSequences(a)
    /\ \A f \in HandWritten : AreSequences(f)
    /\ MaxGroup \in Nat /\ MaxOption \in Nat

VARIABLES
    option,     \* the ConfigOption objects
    group,      \* the ConfigGroup objects
    members,    \* ConfigManager: id -> option
    groups,     \* ConfigManager: name -> group
    cmdmap,     \* ConfigManager: command -> id
    args,       \* the strings parse() has still to consume
    mode,       \* "idle", "cmdline" or "file" while parse() is called for
                \* one, "thrown" with an exception on its way, "crashed"
    file,       \* the config file
    saved,      \* history: what options were set to when it was written
    age         \* "live"; "written" when the file has been written and the
                \* program ended; "started", "restored" or "refused" in the
                \* next run, before and after it read the file

objects == <<option, group, members, groups, cmdmap>>
life    == <<file, saved, age>>
vars    == <<objects, args, mode, life>>

(* A pointer to a value, storage of a ConfigDataKeeper: null is <<>>.      *)
Null == <<>>
Ptr(v) == <<v>>

Put(f, k, v) == [x \in DOMAIN f \cup {k} |-> IF x = k THEN v ELSE f[x]]

Newline == "\n"

ShortCmd(s) == <<"-", s>>
LongCmd(id) == <<"--", id>>

Init ==
    /\ option = <<>> /\ group = <<>>
    /\ members = <<>> /\ groups = <<>> /\ cmdmap = <<>>
    /\ args = <<>> /\ mode = "idle"
    /\ file = <<>> /\ saved = <<>> /\ age = "live"

Idle == mode = "idle" /\ age = "live"

-----------------------------------------------------------------------------
(* Declaration and assignment by the program.                              *)

(* new_group(name) replaces a group of that name.                          *)
NewGroup(name) ==
    /\ Idle /\ Len(group) < MaxGroup
    /\ group' = Append(group, [name |-> name, members |-> <<>>])
    /\ groups' = Put(groups, name, Len(group) + 1)
    /\ UNCHANGED <<option, members, cmdmap, args, mode, life>>

\* Mutant: the new option is not told its group.
NewObjectOrphan(d, g) ==
    [id |-> d.id, type |-> d.type, short |-> d.short, parent |-> 0,
     was_set |-> FALSE, has_default |-> FALSE, data |-> Null, default |-> Null]

NewObject(d, g) ==
    [id |-> d.id, type |-> d.type, short |-> d.short, parent |-> g,
     was_set |-> FALSE, has_default |-> FALSE, data |-> Null, default |-> Null]

\* Mutant: the short command is looked up among those of the group.
ShortIsFreeInGroup(d, g) ==
    \A id \in DOMAIN group[g].members :
       option[group[g].members[id]].short = d.short => d.short = ""

(* "-" alone, of an option without a short command, is never there.        *)
ShortIsFree(d, g) == ShortCmd(d.short) \notin DOMAIN cmdmap

\* Mutant: the short command leads to its own text, not to the id.
WithCommandsMistyped(d) ==
    LET long == Put(cmdmap, LongCmd(d.id), d.id)
    IN  IF d.short = "" THEN long ELSE Put(long, ShortCmd(d.short), d.short)

WithCommands(d) ==
    LET long == Put(cmdmap, LongCmd(d.id), d.id)
    IN  IF d.short = "" THEN long ELSE Put(long, ShortCmd(d.short), d.id)

(* Group g's new_option<type>(id, ..., short): OptionAlreadyExists or      *)
(* ShortCommandAlreadyExists change nothing.  The group's own _cmdmap is   *)
(* only ever written, and left out.                                        *)
NewOption(g, d) ==
    LET o == Len(option) + 1
    IN  /\ Idle /\ o <= MaxOption
        /\ d.id \notin DOMAIN group[g].members
        /\ ShortIsFree(d, g)
        /\ option' = Append(option, NewObject(d, g))
        /\ group' = [group EXCEPT ![g].members = Put(@, d.id, o)]
        /\ members' = Put(members, d.id, o)
        /\ cmdmap' = WithCommands(d)
        /\ UNCHANGED <<groups, args, mode, life>>

(* The option object after set(v).                                         *)
Assigned(o, v) == [option EXCEPT ![o].data = Ptr(v), ![o].was_set = TRUE]

(* set(v) and set_default(v) through a reference to the option; a value of *)
(* another type throws IncompatibleDataTypes and changes nothing.          *)
SetOption(o, v) ==
    /\ Idle
    /\ option' = Assigned(o, v)
    /\ UNCHANGED <<group, members, groups, cmdmap, args, mode, life>>

\* Mutant: only default_data gets the value.
SetDefaultOnly(o, v) ==
    /\ Idle
    /\ option' = [option EXCEPT ![o] =
          [@ EXCEPT !.has_default = TRUE, !.default = Ptr(v), !.was_set = FALSE]]
    /\ UNCHANGED <<group, members, groups, cmdmap, args, mode, life>>

SetDefault(o, v) ==
    /\ Idle
    /\ option' = [option EXCEPT ![o] =
          [@ EXCEPT !.has_default = TRUE, !.data = Ptr(v), !.default = Ptr(v),
                    !.was_set = FALSE]]
    /\ UNCHANGED <<group, members, groups, cmdmap, args, mode, life>>

-----------------------------------------------------------------------------
(* Strings to values, and back.                                            *)

(* operator>> skips blanks, reads a number and ignores what follows it.    *)
Leading(s) ==
    LET solid == {i \in 1..Len(s) : s[i] \notin {" ", Newline}}
    IN  IF solid = {} THEN "" ELSE s[Min(solid)]

(* integer() and real(): what each makes of the texts it takes.            *)
Numbers(type) == IF type = "integer" THEN Whole ELSE Worth

IsNumber(type, s) == Leading(s) \in DOMAIN Numbers(type)

(* "k:v,...": of several ":" in a pair the first two parts count, later    *)
(* pairs win.                                                              *)
Pairs(s) ==
    LET items == Split(s, ",") IN [i \in 1..Len(items) |-> Split(items[i], ":")]

ToMap(s) ==
    LET pairs == Pairs(s)
        last(k) == Max({i \in 1..Len(pairs) : pairs[i][1] = k})
        second(p) == IF Len(p) > 1 THEN p[2] ELSE <<>>
    IN  [k \in {pairs[i][1] : i \in 1..Len(pairs)} |-> second(pairs[last(k)])]

Read(type, s) ==
    CASE type \in {"integer", "real"} -> Numbers(type)[Leading(s)]
      [] type = "string" -> s
      [] type = "list"   -> Split(s, ",")
      [] type = "map"    -> ToMap(s)

(* str() of an int, and of a double.                                       *)
IntegerText(v) == CHOOSE n \in DOMAIN Whole : Whole[n] = v /\ Worth[n] = v * One
RealText(v) == CHOOSE n \in DOMAIN Worth : Worth[n] = SixDigits(v)

\* Mutant: flags are printed the way a stream prints a bool.
ShowAsStream(type, v) ==
    CASE type = "bool"   -> <<IF v THEN "1" ELSE "0">>
      [] type = "integer" -> <<IntegerText(v)>>
      [] type = "real"   -> <<RealText(v)>>
      [] type = "string" -> v
      [] type = "list"   -> Join(v, ",")
      [] type = "map"    ->
            LET keys == SetToSeq(DOMAIN v)
            IN  Join([i \in 1..Len(keys) |-> keys[i] \o <<":">> \o v[keys[i]]], ",")

(* verbose_data(); of a map in the order of its keys.                      *)
Show(type, v) ==
    CASE type = "bool"   -> <<IF v THEN "true" ELSE "false">>
      [] type = "integer" -> <<IntegerText(v)>>
      [] type = "real"   -> <<RealText(v)>>
      [] type = "string" -> v
      [] type = "list"   -> Join(v, ",")
      [] type = "map"    ->
            LET keys == SetToSeq(DOMAIN v)
            IN  Join([i \in 1..Len(keys) |-> keys[i] \o <<":">> \o v[keys[i]]], ",")

-----------------------------------------------------------------------------
(* parse(args): one option and its value.                                  *)

ParseCmdline(a) ==
    /\ Idle
    /\ mode' = "cmdline" /\ args' = a
    /\ UNCHANGED <<objects, life>>

\* Mutant: was_set is raised before the string is converted.
ThrowHalfDone ==
    /\ mode' = "thrown"
    /\ option' = [o \in 1..Len(option) |->
          [option[o] EXCEPT !.was_set = @ \/ LongCmd(option[o].id) = args[1]]]
    /\ UNCHANGED args

Throw == mode' = "thrown" /\ UNCHANGED <<option, args>>

Take(o, v, n) ==
    /\ option' = Assigned(o, v)
    /\ args' = SubSeq(args, n + 1, Len(args))
    /\ UNCHANGED mode

(* A flag takes "true" or "false" if that is what comes next; by itself it *)
(* toggles an option with a default and sets one without.                  *)
ParseBool(o) ==
    LET explicit == Len(args) > 1 /\ args[2] \in {<<"true">>, <<"false">>}
    IN  IF explicit THEN Take(o, args[2] = <<"true">>, 2)
        ELSE Take(o, option[o].has_default => ~option[o].data[1], 1)

(* A pair without ":" in a map has two[1] read past the end of a vector:   *)
(* a crash, an exception, or what looks like an empty string.              *)
ParseValue(o) ==
    LET type == option[o].type
        wild == type = "map" /\ LET pairs == Pairs(args[2])
                                IN  \E i \in 1..Len(pairs) : Len(pairs[i]) = 1
        numeric == type \in {"integer", "real"}
    IN  IF Len(args) < 2 \/ (numeric /\ ~IsNumber(type, args[2])) THEN Throw
        ELSE \/ Take(o, Read(type, args[2]), 2)
             \/ wild /\ Throw
             \/ wild /\ mode' = "crashed" /\ UNCHANGED <<option, args>>

Parse ==
    /\ mode \in {"cmdline", "file"} /\ args # <<>>
    /\ IF args[1] \notin DOMAIN cmdmap THEN Throw
       ELSE LET o == members[cmdmap[args[1]]]
            IN  IF option[o].type = "bool" THEN ParseBool(o) ELSE ParseValue(o)
    /\ UNCHANGED <<group, members, groups, cmdmap, life>>

(* The loop around parse() ends, or the caller catches what it threw.      *)
EndParse ==
    /\ mode \in {"cmdline", "file"} /\ args = <<>>
    /\ mode' = "idle"
    /\ age' = IF age = "started" THEN "restored" ELSE age
    /\ UNCHANGED <<objects, args, file, saved>>

Catch ==
    /\ mode = "thrown"
    /\ mode' = "idle" /\ args' = <<>>
    /\ age' = IF age = "started" THEN "refused" ELSE age
    /\ UNCHANGED <<objects, file, saved>>

-----------------------------------------------------------------------------
(* Config files: sequences of texts, each of which ends with a newline.    *)

(* What a line adds to the tokens; the part right of a second "=" is lost. *)
LineTokens(raw) ==
    LET line == Strip(raw, " ")
        sides == Split(line, "=")
    IN  IF line = <<>> \/ line[1] = "#" THEN <<>>
        ELSE IF ~Occurs("=", line) THEN << <<"--">> \o line >>
        ELSE << <<"--">> \o Strip(sides[1], " "), Strip(sides[2], " ") >>

(* strip() throws on a line, or on a side of a line, of blanks.            *)
LineThrows(raw) ==
    LET line == Strip(raw, " ")
        sides == Split(line, "=")
    IN  \/ StripThrows(raw, " ")
        \/ /\ line # <<>> /\ line[1] # "#" /\ Occurs("=", line)
           /\ \E i \in {1, 2} : StripThrows(sides[i], " ")

(* The lines getline() makes of a text.                                    *)
TextTokens(text) ==
    LET lines == Split(text, Newline)
    IN  FlattenSeq([k \in 1..Len(lines) |-> LineTokens(lines[k])])

TextThrows(text) ==
    LET lines == Split(text, Newline) IN \E k \in 1..Len(lines) : LineThrows(lines[k])

ParseConfigFile(f) ==
    /\ mode = "idle"
    /\ \/ age = "live" /\ f \in HandWritten
       \/ age = "started" /\ f = file
    /\ IF \E i \in 1..Len(f) : TextThrows(f[i])
       THEN mode' = "thrown" /\ UNCHANGED args
       ELSE /\ mode' = "file"
            /\ args' = FlattenSeq([i \in 1..Len(f) |-> TextTokens(f[i])])
    /\ UNCHANGED <<objects, life>>

(* What is written for an option: a line with its value if it was set, or  *)
(* else a comment with its default; above it, unless the shorter form is   *)
(* asked for, another comment, with the default too.  The words of the     *)
(* comments are left out.                                                  *)
Line(o) == <<option[o].id, " ", "=", " ">> \o Show(option[o].type, option[o].data[1])

Remark(o) ==
    IF option[o].has_default
    THEN <<"#">> \o Show(option[o].type, option[o].default[1]) ELSE <<"#">>

Text(o, shorter) ==
    LET line == IF option[o].was_set THEN Line(o) ELSE Remark(o)
    IN  Join(IF shorter THEN <<line>> ELSE <<Remark(o), line>>, Newline)

(* The options of the groups the manager knows; the other lines of a file  *)
(* are empty or comments.                                                  *)
Listed ==
    UNION {{group[groups[n]].members[id] : id \in DOMAIN group[groups[n]].members}
             : n \in DOMAIN groups}

Settings == [o \in 1..Len(option) |-> IF option[o].was_set THEN option[o].data ELSE Null]

(* write_config_file(), with which this run of the program ends.           *)
WriteConfigFile(shorter) ==
    LET list == SetToSeq(Listed)
    IN  /\ Idle
        /\ file' = [i \in 1..Len(list) |-> Text(list[i], shorter)]
        /\ saved' = Settings
        /\ age' = "written"
        /\ UNCHANGED <<objects, args, mode>>

(* The next run declares the same groups, options and defaults.            *)
Restart ==
    /\ age = "written"
    /\ option' = [o \in 1..Len(option) |->
                     [option[o] EXCEPT !.was_set = FALSE, !.data = option[o].default]]
    /\ age' = "started"
    /\ UNCHANGED <<group, members, groups, cmdmap, args, mode, file, saved>>

-----------------------------------------------------------------------------
Next ==
    \/ \E n \in GroupName : NewGroup(n)
    \/ \E g \in 1..Len(group), d \in Declaration : NewOption(g, d)
    \/ \E o \in 1..Len(option) : \E v \in Value[option[o].type] :
          SetOption(o, v) \/ SetDefault(o, v)
    \/ \E a \in CmdLine : ParseCmdline(a)
    \/ \E f \in HandWritten \cup {file} : ParseConfigFile(f)
    \/ \E shorter \in BOOLEAN : WriteConfigFile(shorter)
    \/ Parse \/ EndParse \/ Catch \/ Restart

Spec == Init /\ [][Next]_vars
-----------------------------------------------------------------------------
Atoms(s) == {s[i] : i \in 1..Len(s)}

TypeOK ==
    /\ \A o \in 1..Len(option) :
          /\ option[o].type \in Types /\ option[o].parent \in 1..Len(group)
          /\ \A p \in {option[o].data, option[o].default} :
                p # Null => IsValue(option[o].type, p[1])
    /\ \A n \in DOMAIN groups : groups[n] \in 1..Len(group)
    /\ mode \in {"idle", "cmdline", "file", "thrown", "crashed"}
    /\ age \in {"live", "written", "started", "restored", "refused"}

(* What parse() finds it can use: every command leads to an option of the  *)
(* manager, and that option is known by the same id to the group that is   *)
(* its parent, and can be reached by its own commands.                     *)
CommandsResolve ==
    /\ \A c \in DOMAIN cmdmap : cmdmap[c] \in DOMAIN members
    /\ \A id \in DOMAIN members :
          LET o == option[members[id]]
          IN  /\ o.id = id
              /\ group[o.parent].members[id] = members[id]
              /\ \A c \in {LongCmd(id)} \cup (IF o.short = "" THEN {} ELSE {ShortCmd(o.short)}) :
                    c \in DOMAIN cmdmap /\ cmdmap[c] = id

(* A command keeps its meaning: options declared later, in whatever group, *)
(* take no command over to another id.  Here no short command is ever a    *)
(* long one, a pair of "-" and another of "--"; in the code both are the   *)
(* text, and a short command "-x" is the long command of an id "x", which  *)
(* new_option() compares with nothing (config_manager.h:261-275).          *)
CommandsAreStable ==
    [][\A c \in DOMAIN cmdmap : c \in DOMAIN cmdmap' /\ cmdmap'[c] = cmdmap[c]]_vars

(* get() and verbose_data() follow a pointer to a value whenever the flags *)
(* they look at let them: one is there for every option that was set or    *)
(* has a default.                                                          *)
FlagsMeanData ==
    \A o \in 1..Len(option) :
       /\ option[o].was_set \/ option[o].has_default => option[o].data # Null
       /\ option[o].has_default <=> option[o].default # Null

(* A call of parse() that throws leaves every option as it was and the     *)
(* argument list unconsumed; one that does not touches no option but the   *)
(* one its first argument names, and consumes that argument, without which *)
(* the loops of parse_cmdline() and parse_config_file() had no end.        *)
ParseIsAllOrNothing ==
    [][(mode \in {"cmdline", "file"} /\ args # <<>>) =>
         (IF mode' = mode
         THEN /\ Len(args') < Len(args)
              /\ \A o \in 1..Len(option) :
                    option'[o] # option[o] => members[cmdmap[args[1]]] = o
         ELSE option' = option /\ args' = args)]_vars

(* An option that the manager and its group both find, as its id.          *)
Reachable(o) ==
    LET p == option[o]
        name == group[p.parent].name
    IN  /\ p.id \in DOMAIN members /\ members[p.id] = o
        /\ name \in DOMAIN groups /\ groups[name] = p.parent

Plain(s) == Atoms(s) \cap {"=", ",", ":"} = {}

(* A value that holds nothing of what the file format uses: "=", a         *)
(* newline, blanks at the ends, the separators of lists and maps inside    *)
(* their elements, an empty list or map.                                   *)
Writable(type, v) ==
    LET s == Show(type, v)
    IN  /\ Atoms(s) \cap {"=", Newline} = {}
        /\ s # <<>> => s[1] # " " /\ s[Len(s)] # " "
        /\ type = "list" => v # <<>> /\ \A i \in 1..Len(v) : Plain(v[i])
        /\ type = "map" => v # <<>> /\ \A k \in DOMAIN v : Plain(k) /\ Plain(v[k])

(* Options the file can hold: reachable, of an id that is no separator and *)
(* does not look like a comment, with a value of that kind if set, and a   *)
(* default, if any, that does not break out of its comment.                *)
Fitting ==
    \A o \in 1..Len(option) :
       /\ Reachable(o) /\ option[o].id \notin {" ", "=", "#", Newline}
       /\ saved[o] # Null => Writable(option[o].type, saved[o][1])
       /\ option[o].has_default =>
             Newline \notin Atoms(Show(option[o].type, option[o].default[1]))

(* What is left of a value that was printed and read.                      *)
Kept(type, v) == IF type = "real" THEN SixDigits(v) ELSE v

Restored ==
    \A o \in 1..Len(option) :
       Settings[o] = IF saved[o] = Null THEN Null
                     ELSE Ptr(Kept(option[o].type, saved[o][1]))

(* The config file a program writes, in either form, gives its next run    *)
(* back what was set, and nothing else: of a double the six digits that    *)
(* str() prints, of other types the value, as long as the file can hold    *)
(* the options and their values.                                           *)
RoundTrip ==
    age \in {"restored", "refused"} /\ Fitting => age = "restored" /\ Restored

(* "catch duplicate IDs" (config_manager.h:256): an id, the long command   *)
(* of an option, is not given out again in another group of the manager.   *)
DuplicateIdsAreCaught ==
    \A m, n \in DOMAIN groups :
       m # n => DOMAIN group[groups[m]].members \cap DOMAIN group[groups[n]].members = {}
=============================================================================
