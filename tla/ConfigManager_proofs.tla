------------------------ MODULE ConfigManager_proofs ------------------------
(* Theorems about ConfigManager, for any groups, declarations, values,     *)
(* command lines and files: the objects and what is known about them stay  *)
(* in step, values have the type of their option however they came to it,  *)
(* commands keep their meaning, parse() takes an option or nothing, and a  *)
(* config file gives the next run of a program back what was set in this   *)
(* one.                                                                    *)
EXTENDS ConfigManager, Operators_proofs

Fields == {"id", "type", "short", "parent", "was_set", "has_default", "data", "default"}

(* What the objects look like, and that an option is known to its parent.  *)
Shapes ==
    /\ IsSequence(option) /\ IsSequence(group)
    /\ \A o \in 1..Len(option) :
          /\ DOMAIN option[o] = Fields
          /\ option[o].was_set \in BOOLEAN /\ option[o].has_default \in BOOLEAN
          /\ option[o].id \in DOMAIN group[option[o].parent].members
    /\ \A g \in 1..Len(group) : DOMAIN group[g] = {"name", "members"}

(* Nobody refers to an option object that is not there.                    *)
Indices ==
    /\ \A id \in DOMAIN members : members[id] \in 1..Len(option)
    /\ \A g \in 1..Len(group) : \A id \in DOMAIN group[g].members :
          group[g].members[id] \in 1..Len(option)

(* What is there of text is strings.                                       *)
Texts == AreSequences(args) /\ AreSequences(file)

(* The long command of an id never leads to another one.                   *)
LongNames == \A c \in DOMAIN cmdmap : c[1] = "--" => cmdmap[c] = c[2]

(* A program that ended is not in the middle of parse().                   *)
Ended == age = "written" => mode = "idle"

ConfigInv ==
    /\ Shapes /\ Indices /\ Texts /\ Ended
    /\ TypeOK /\ FlagsMeanData /\ CommandsResolve /\ LongNames

-----------------------------------------------------------------------------
(* Values and strings.                                                     *)

(* A value behind a pointer.                                               *)
LEMMA PtrIsNotNull == \A v : Ptr(v) # Null /\ Ptr(v)[1] = v
BY DEF Ptr, Null

(* A type of values is what its case says.                                 *)
LEMMA ValueOf ==
    ASSUME NEW v
    PROVE  /\ IsValue("bool", v) <=> v \in BOOLEAN
           /\ IsValue("integer", v) <=> v \in Range(Whole)
           /\ IsValue("real", v) <=> v \in Range(Worth)
           /\ IsValue("string", v) <=> IsSequence(v)
           /\ IsValue("list", v) <=> AreSequences(v)
           /\ IsValue("map", v) <=>
                 /\ v = [k \in DOMAIN v |-> v[k]] /\ IsFiniteSet(DOMAIN v)
                 /\ \A k \in DOMAIN v : IsSequence(k) /\ IsSequence(v[k])
<1>1. IsValue("bool", v) <=> v \in BOOLEAN
    BY DEF IsValue
<1>2. /\ IsValue("integer", v) <=> v \in Range(Whole)
      /\ IsValue("real", v) <=> v \in Range(Worth)
    BY DEF IsValue
<1>3. IsValue("string", v) <=> IsSequence(v)
    BY DEF IsValue
<1>4. IsValue("list", v) <=> AreSequences(v)
    BY DEF IsValue
<1>5. IsValue("map", v) <=>
         /\ v = [k \in DOMAIN v |-> v[k]] /\ IsFiniteSet(DOMAIN v)
         /\ \A k \in DOMAIN v : IsSequence(k) /\ IsSequence(v[k])
    BY DEF IsValue
<1> QED
    BY <1>1, <1>2, <1>3, <1>4, <1>5

(* A newline is none of the other characters of a line.                    *)
LEMMA NewlineIsOther == Newline # " " /\ Newline # "=" /\ Newline # "#"
BY Zenon DEF Newline

(* Short tuples are sequences.                                             *)
LEMMA TuplesAreSequences ==
    ASSUME NEW a, NEW b, NEW c, NEW d
    PROVE  /\ IsSequence(<<>>) /\ Len(<<>>) = 0
           /\ IsSequence(<<a>>) /\ Len(<<a>>) = 1
           /\ IsSequence(<<a, b>>) /\ Len(<<a, b>>) = 2
           /\ IsSequence(<<a, b, c, d>>) /\ Len(<<a, b, c, d>>) = 4
<1> DEFINE S == {a, b, c, d}
<1>1. <<>> \in Seq(S) /\ <<a>> \in Seq(S) /\ <<a, b>> \in Seq(S) /\ <<a, b, c, d>> \in Seq(S)
    OBVIOUS
<1>2. /\ IsSequence(<<>>) /\ IsSequence(<<a>>) /\ IsSequence(<<a, b>>)
      /\ IsSequence(<<a, b, c, d>>)
    BY <1>1, SequenceOf
<1>3. Len(<<>>) = 0 /\ Len(<<a>>) = 1 /\ Len(<<a, b>>) = 2 /\ Len(<<a, b, c, d>>) = 4
    OBVIOUS
<1> QED
    BY <1>2, <1>3

(* What a list of strings holds.                                           *)
LEMMA ListedStrings ==
    ASSUME NEW list, AreSequences(list)
    PROVE  /\ IsSequence(list) /\ Len(list) \in Nat
           /\ \A i \in Int : 1 <= i /\ i <= Len(list) => IsSequence(list[i])
<1>1. IsSequence(list) /\ \A i \in 1..Len(list) : IsSequence(list[i])
    BY DEF AreSequences
<1>2. Len(list) \in Nat
    BY <1>1, SequenceLen
<1> QED
    BY <1>1, <1>2

(* Short lists of strings.                                                 *)
LEMMA ShortLists ==
    ASSUME NEW a, IsSequence(a), NEW b, IsSequence(b)
    PROVE  AreSequences(<<>>) /\ AreSequences(<<a>>) /\ AreSequences(<<a, b>>)
<1>1. /\ IsSequence(<<>>) /\ Len(<<>>) = 0
      /\ IsSequence(<<a>>) /\ Len(<<a>>) = 1
      /\ IsSequence(<<a, b>>) /\ Len(<<a, b>>) = 2
    BY TuplesAreSequences
<1>2. AreSequences(<<>>)
    BY <1>1 DEF AreSequences
<1>3. AreSequences(<<a>>)
  <2>1. \A i \in 1..1 : <<a>>[i] = a
      OBVIOUS
  <2> QED
      BY <1>1, <2>1 DEF AreSequences
<1>4. AreSequences(<<a, b>>)
  <2>1. \A i \in 1..2 : <<a, b>>[i] = a \/ <<a, b>>[i] = b
      OBVIOUS
  <2> QED
      BY <1>1, <2>1 DEF AreSequences
<1> QED
    BY <1>2, <1>3, <1>4

(* The map a string is read as has strings for keys and values.            *)
LEMMA MapsAreStrings ==
    ASSUME NEW s, IsSequence(s)
    PROVE  IsValue("map", ToMap(s))
<1> DEFINE items == Split(s, ",")
           pairs == Pairs(s)
           n == Len(pairs)
           at(k) == {i \in 1..n : pairs[i][1] = k}
           keys == {pairs[i][1] : i \in 1..n}
           second(p) == IF Len(p) > 1 THEN p[2] ELSE <<>>
<1>1. IsSequence(items) /\ Len(items) \in Nat /\ \A i \in 1..Len(items) : IsSequence(items[i])
    BY SplitIsSequences, SequenceLen DEF AreSequences
<1>2. pairs = [i \in 1..Len(items) |-> Split(items[i], ":")]
    BY DEF Pairs
<1>3. IsSequence(pairs) /\ n = Len(items) /\ n \in Nat
  <2>1. pairs = [i \in 1..Len(items) |-> pairs[i]]
      BY <1>2
  <2> HIDE DEF pairs, items
  <2> QED
      BY <1>1, <2>1, DomainIsSequence
<1>4. ASSUME NEW i \in 1..n
      PROVE  IsSequence(pairs[i][1]) /\ IsSequence(second(pairs[i]))
  <2>1. pairs[i] = Split(items[i], ":")
      BY <1>2, <1>3
  <2> HIDE DEF pairs, items
  <2>2. AreSequences(pairs[i]) /\ Len(pairs[i]) >= 1
      BY <1>1, <1>3, <2>1, SplitIsSequences
  <2>3. /\ IsSequence(pairs[i]) /\ Len(pairs[i]) \in Nat
        /\ \A j \in 1..Len(pairs[i]) : IsSequence(pairs[i][j])
      BY <2>2, SequenceLen DEF AreSequences
  <2>4. IsSequence(pairs[i][1])
      BY <2>2, <2>3
  <2>5. Len(pairs[i]) > 1 => IsSequence(pairs[i][2])
      BY <2>3
  <2>6. IsSequence(<< >>)
      BY TuplesAreSequences
  <2> QED
      BY <2>4, <2>5, <2>6
<1>5. ToMap(s) = [k \in keys |-> second(pairs[Max(at(k))])]
    BY DEF ToMap
<1>6. IsFiniteSet(keys)
  <2> DEFINE f == [i \in 1..n |-> pairs[i][1]]
  <2>1. f \in Surjection(1..n, keys)
      BY DEF Surjection
  <2>2. IsFiniteSet(1..n)
    <3>1. n \in Nat
        BY <1>3, Zenon
    <3>2. \A m \in Nat : IsFiniteSet(1..m)
        BY FS_Interval
    <3> QED
        BY <3>1, <3>2, Zenon
  <2> HIDE DEF pairs, f, keys
  <2> QED
      BY <2>1, <2>2, FS_Surjection
<1> HIDE DEF pairs, items, second
<1>7. ASSUME NEW k \in keys
      PROVE  IsSequence(k) /\ IsSequence(second(pairs[Max(at(k))]))
  <2>1. PICK i \in 1..n : k = pairs[i][1]
      OBVIOUS
  <2>2. at(k) \subseteq 1..n /\ at(k) # {} /\ 1 \in Int /\ n \in Int
      BY <1>3, <2>1
  <2> HIDE DEF at
  <2>3. Max(at(k)) \in at(k)
      BY <2>2, MinAndMax
  <2>4. Max(at(k)) \in 1..n
      BY <2>2, <2>3
  <2> QED
      BY <1>4, <2>1, <2>4
<1>8. IsFiniteSet(DOMAIN ToMap(s))
    BY <1>5, <1>6
<1>9. \A k \in DOMAIN ToMap(s) : IsSequence(k) /\ IsSequence(ToMap(s)[k])
    BY <1>5, <1>7
<1> DEFINE f == [k \in keys |-> second(pairs[Max(at(k))])]
<1>10. f = [k \in DOMAIN f |-> f[k]]
    OBVIOUS
<1> HIDE DEF f
<1>11. ToMap(s) = f
    BY <1>5 DEF f
<1> QED
    BY <1>8, <1>9, <1>10, <1>11, ValueOf

(* What is read from a string is a value of the option's type.             *)
LEMMA ReadIsValue ==
    ASSUME NEW type \in Types, type # "bool", NEW s, IsSequence(s),
           type \in {"integer", "real"} => IsNumber(type, s)
    PROVE  IsValue(type, Read(type, s))
<1>1. CASE type \in {"integer", "real"}
  <2>1. Read(type, s) = Numbers(type)[Leading(s)] /\ Leading(s) \in DOMAIN Numbers(type)
      BY <1>1 DEF Read, IsNumber
  <2>2. Read(type, s) \in Range(Numbers(type))
      BY <2>1 DEF Range
  <2>3. Numbers("integer") = Whole /\ Numbers("real") = Worth
      BY DEF Numbers
  <2> QED
      BY <1>1, <2>2, <2>3, ValueOf
<1>2. CASE type = "string"
  <2>1. Read(type, s) = s
      BY <1>2 DEF Read
  <2> QED
      BY <1>2, <2>1, ValueOf
<1>3. CASE type = "list"
  <2>1. Read(type, s) = Split(s, ",")
      BY <1>3 DEF Read
  <2>2. AreSequences(Split(s, ","))
      BY SplitIsSequences
  <2> QED
      BY <1>3, <2>1, <2>2, ValueOf
<1>4. CASE type = "map"
  <2>1. Read(type, s) = ToMap(s)
      BY <1>4 DEF Read
  <2> QED
      BY <1>4, <2>1, MapsAreStrings
<1> QED
    BY <1>1, <1>2, <1>3, <1>4 DEF Types

(* A value is shown as a string.                                           *)
LEMMA ShowIsSequence ==
    ASSUME NEW type \in Types, NEW v, IsValue(type, v)
    PROVE  IsSequence(Show(type, v))
<1>1. CASE type = "bool"
  <2>1. Show(type, v) = <<IF v THEN "true" ELSE "false">>
      BY <1>1 DEF Show
  <2> QED
      BY <2>1, TuplesAreSequences
<1>2. CASE type \in {"integer", "real"}
  <2>1. Show(type, v) = <<IntegerText(v)>> \/ Show(type, v) = <<RealText(v)>>
      BY <1>2 DEF Show
  <2> QED
      BY <2>1, TuplesAreSequences
<1>3. CASE type = "string"
  <2>1. Show(type, v) = v
      BY <1>3 DEF Show
  <2> QED
      BY <1>3, <2>1, ValueOf
<1>4. CASE type = "list"
  <2>1. Show(type, v) = Join(v, ",")
      BY <1>4 DEF Show
  <2> QED
      BY <1>4, <2>1, ValueOf, JoinIsSequence
<1>5. CASE type = "map"
  <2> DEFINE keys == SetToSeq(DOMAIN v)
             n == Cardinality(DOMAIN v)
             pairs == [i \in 1..Len(keys) |-> keys[i] \o <<":">> \o v[keys[i]]]
  <2>1. Show(type, v) = Join(pairs, ",")
      BY <1>5 DEF Show
  <2>2. /\ IsFiniteSet(DOMAIN v)
        /\ \A k \in DOMAIN v : IsSequence(k) /\ IsSequence(v[k])
      BY <1>5, ValueOf
  <2>3. n \in Nat /\ Len(keys) = n /\ keys \in [1..n -> DOMAIN v]
      BY <2>2, FS_CardinalityType, SetToSeqIsSequence
  <2> HIDE DEF keys, n
  <2>4. IsSequence(pairs) /\ Len(pairs) = n
    <3>1. pairs = [i \in 1..n |-> pairs[i]]
        BY <2>3
    <3> HIDE DEF pairs
    <3> QED
        BY <2>3, <3>1, DomainIsSequence
  <2>5. ASSUME NEW i \in 1..n
        PROVE  IsSequence(pairs[i])
    <3>1. IsSequence(keys[i]) /\ IsSequence(<<":">>) /\ IsSequence(v[keys[i]])
        BY <2>2, <2>3, TuplesAreSequences
    <3>2. IsSequence(keys[i] \o <<":">>)
        BY <3>1, ConcatIsSequence
    <3>3. IsSequence((keys[i] \o <<":">>) \o v[keys[i]])
        BY <3>1, <3>2, ConcatIsSequence
    <3> QED
        BY <2>3, <3>3
  <2>6. AreSequences(pairs)
    <3> HIDE DEF pairs
    <3> QED
        BY <2>4, <2>5 DEF AreSequences
  <2> HIDE DEF pairs
  <2> QED
      BY <2>1, <2>6, JoinIsSequence
<1> QED
    BY <1>1, <1>2, <1>3, <1>4, <1>5 DEF Types

(* A line yields no tokens, one or two, and they are strings.              *)
LEMMA TokensAreStrings ==
    ASSUME NEW raw, IsSequence(raw)
    PROVE  AreSequences(LineTokens(raw))
<1> DEFINE line == Strip(raw, " ")
           sides == Split(line, "=")
           one == <<"--">> \o line
           two == <<"--">> \o Strip(sides[1], " ")
           three == Strip(sides[2], " ")
<1>1. CASE line = <<>> \/ line[1] = "#"
  <2>1. LineTokens(raw) = <<>>
      BY <1>1 DEF LineTokens
  <2> QED
      BY <2>1, TuplesAreSequences, ShortLists
<1>2. IsSequence(line) /\ IsSequence(<<"--">>)
    BY StripIsSequence, TuplesAreSequences
<1>3. CASE ~ (line = <<>> \/ line[1] = "#") /\ ~ Occurs("=", line)
  <2>1. LineTokens(raw) = <<one>>
      BY <1>3 DEF LineTokens
  <2>2. IsSequence(one)
      BY <1>2, ConcatIsSequence
  <2> HIDE DEF one
  <2> QED
      BY <2>1, <2>2, ShortLists
<1>4. CASE ~ (line = <<>> \/ line[1] = "#") /\ Occurs("=", line)
  <2>1. LineTokens(raw) = <<two, three>>
      BY <1>4 DEF LineTokens
  <2>2. AreSequences(sides) /\ Len(sides) >= 2
      BY <1>2, <1>4, SplitIsSequences
  <2>3. IsSequence(sides[1]) /\ IsSequence(sides[2])
    <3> HIDE DEF sides
    <3> QED
        BY <2>2, ListedStrings
  <2>4. IsSequence(Strip(sides[1], " ")) /\ IsSequence(three)
      BY <2>3, StripIsSequence
  <2>5. IsSequence(two)
      BY <1>2, <2>4, ConcatIsSequence
  <2> HIDE DEF two, three
  <2> QED
      BY <2>1, <2>4, <2>5, ShortLists
<1> QED
    BY <1>1, <1>3, <1>4

-----------------------------------------------------------------------------
(* Steps that change nothing of an option but its value and its flags.     *)

(* A ConfigOption by itself: its flags, its values and how they agree.     *)
OptionFits(p) ==
    /\ DOMAIN p = Fields
    /\ p.type \in Types
    /\ p.was_set \in BOOLEAN /\ p.has_default \in BOOLEAN
    /\ p.data # Null => IsValue(p.type, p.data[1])
    /\ p.default # Null => IsValue(p.type, p.default[1])
    /\ p.was_set \/ p.has_default => p.data # Null
    /\ p.has_default <=> p.default # Null

SameOption(p, q) ==
    p.id = q.id /\ p.type = q.type /\ p.short = q.short /\ p.parent = q.parent

(* The invariant, of the options by themselves.                            *)
LEMMA OptionsFit ==
    ASSUME ConfigInv
    PROVE  /\ Len(option) \in Nat /\ DOMAIN option = 1..Len(option)
           /\ \A o \in 1..Len(option) : OptionFits(option[o])
<1>1. Len(option) \in Nat /\ DOMAIN option = 1..Len(option)
    BY SequenceLen DEF ConfigInv, Shapes
<1>2. ASSUME NEW o \in 1..Len(option)
      PROVE  OptionFits(option[o])
  <2>1. DOMAIN option[o] = Fields
      BY DEF ConfigInv, Shapes
  <2>2. option[o].was_set \in BOOLEAN /\ option[o].has_default \in BOOLEAN
      BY DEF ConfigInv, Shapes
  <2>3. /\ option[o].type \in Types
        /\ option[o].data # Null => IsValue(option[o].type, option[o].data[1])
        /\ option[o].default # Null => IsValue(option[o].type, option[o].default[1])
      BY DEF ConfigInv, TypeOK
  <2>4. /\ option[o].was_set \/ option[o].has_default => option[o].data # Null
        /\ option[o].has_default <=> option[o].default # Null
      BY Zenon DEF ConfigInv, FlagsMeanData
  <2> QED
      BY <2>1, <2>2, <2>3, <2>4 DEF OptionFits
<1> QED
    BY <1>1, <1>2

(* Who knows whom, and by which command, does not depend on their values.  *)
LEMMA ObjectsKept ==
    ASSUME ConfigInv,
           IsSequence(option'), Len(option') = Len(option),
           \A o \in 1..Len(option) :
              OptionFits(option'[o]) /\ SameOption(option'[o], option[o]),
           UNCHANGED <<group, members, groups, cmdmap>>
    PROVE  /\ Shapes' /\ Indices' /\ FlagsMeanData' /\ CommandsResolve' /\ LongNames'
           /\ mode' \in {"idle", "cmdline", "file", "thrown", "crashed"}
                /\ age' \in {"live", "written", "started", "restored", "refused"} => TypeOK'
<1>1. Shapes'
  <2>1. ASSUME NEW o \in 1..Len(option)
        PROVE  /\ DOMAIN option'[o] = Fields
               /\ option'[o].was_set \in BOOLEAN /\ option'[o].has_default \in BOOLEAN
               /\ option'[o].id \in DOMAIN group[option'[o].parent].members
    <3>1. OptionFits(option'[o]) /\ SameOption(option'[o], option[o])
        OBVIOUS
    <3>2. option[o].id \in DOMAIN group[option[o].parent].members
        BY DEF ConfigInv, Shapes
    <3> QED
        BY <3>1, <3>2 DEF OptionFits, SameOption
  <2> QED
      BY <2>1 DEF ConfigInv, Shapes
<1>2. Indices'
    BY DEF ConfigInv, Indices
<1>3. FlagsMeanData'
  <2>1. ASSUME NEW o \in 1..Len(option)
        PROVE  /\ option'[o].was_set \/ option'[o].has_default => option'[o].data # Null
               /\ option'[o].has_default <=> option'[o].default # Null
      BY Zenon DEF OptionFits
  <2> QED
      BY <2>1 DEF FlagsMeanData
<1>4. CommandsResolve'
  <2>1. \A c \in DOMAIN cmdmap : cmdmap[c] \in DOMAIN members
      BY DEF ConfigInv, CommandsResolve
  <2>2. ASSUME NEW id \in DOMAIN members
        PROVE  LET o == option'[members[id]]
               IN  /\ o.id = id
                   /\ group[o.parent].members[id] = members[id]
                   /\ \A c \in {LongCmd(id)} \cup (IF o.short = "" THEN {} ELSE {ShortCmd(o.short)}) :
                         c \in DOMAIN cmdmap /\ cmdmap[c] = id
    <3>1. members[id] \in 1..Len(option)
        BY DEF ConfigInv, Indices
    <3>2. SameOption(option'[members[id]], option[members[id]])
        BY <3>1
    <3> DEFINE q == option[members[id]]
               p == option'[members[id]]
    <3>3. /\ q.id = id
          /\ group[q.parent].members[id] = members[id]
          /\ \A c \in {LongCmd(id)} \cup (IF q.short = "" THEN {} ELSE {ShortCmd(q.short)}) :
                c \in DOMAIN cmdmap /\ cmdmap[c] = id
        BY DEF ConfigInv, CommandsResolve
    <3>4. p.id = q.id /\ p.short = q.short /\ p.parent = q.parent
        BY <3>2 DEF SameOption
    <3> HIDE DEF p, q
    <3>5. /\ p.id = id
          /\ group[p.parent].members[id] = members[id]
          /\ \A c \in {LongCmd(id)} \cup (IF p.short = "" THEN {} ELSE {ShortCmd(p.short)}) :
                c \in DOMAIN cmdmap /\ cmdmap[c] = id
        BY <3>3, <3>4, Zenon
    <3> QED
        BY <3>5, Zenon DEF p
  <2> QED
      BY <2>1, <2>2 DEF CommandsResolve
<1>5. LongNames'
    BY DEF ConfigInv, LongNames
<1>6. ASSUME mode' \in {"idle", "cmdline", "file", "thrown", "crashed"},
             age' \in {"live", "written", "started", "restored", "refused"}
      PROVE  TypeOK'
  <2>1. ASSUME NEW o \in 1..Len(option)
        PROVE  /\ option'[o].type \in Types /\ option'[o].parent \in 1..Len(group)
               /\ option'[o].data # Null => IsValue(option'[o].type, option'[o].data[1])
               /\ option'[o].default # Null => IsValue(option'[o].type, option'[o].default[1])
    <3>1. OptionFits(option'[o]) /\ SameOption(option'[o], option[o])
        OBVIOUS
    <3>2. option[o].parent \in 1..Len(group)
        BY DEF ConfigInv, TypeOK
    <3> QED
        BY <3>1, <3>2 DEF OptionFits, SameOption
  <2>2. \A n \in DOMAIN groups : groups[n] \in 1..Len(group)
      BY DEF ConfigInv, TypeOK
  <2> QED
      BY <1>6, <2>1, <2>2 DEF TypeOK
<1> QED
    BY <1>1, <1>2, <1>3, <1>4, <1>5, <1>6

(* An option given a value of its type is as sound as before.              *)
LEMMA AssignedFits ==
    ASSUME ConfigInv, NEW o \in 1..Len(option),
           NEW p, OptionFits(p), SameOption(p, option[o]),
           option' = [option EXCEPT ![o] = p]
    PROVE  /\ IsSequence(option') /\ Len(option') = Len(option)
           /\ \A i \in 1..Len(option) :
                 OptionFits(option'[i]) /\ SameOption(option'[i], option[i])
<1>1. IsSequence(option') /\ Len(option') = Len(option)
    BY ExceptIsSequence DEF ConfigInv, Shapes
<1>2. ASSUME NEW i \in 1..Len(option)
      PROVE  OptionFits(option'[i]) /\ SameOption(option'[i], option[i])
  <2>1. OptionFits(option[i]) /\ SameOption(option[i], option[i]) /\ i \in DOMAIN option
      BY OptionsFit DEF SameOption
  <2>2. option'[i] = IF i = o THEN p ELSE option[i]
      BY <2>1
  <2> QED
      BY <2>1, <2>2
<1> QED
    BY <1>1, <1>2

(* set(): the pointer follows, and the flag.                               *)
LEMMA SetFits ==
    ASSUME ConfigInv, NEW o \in 1..Len(option), NEW v, IsValue(option[o].type, v),
           option' = Assigned(o, v)
    PROVE  /\ IsSequence(option') /\ Len(option') = Len(option)
           /\ \A i \in 1..Len(option) :
                 OptionFits(option'[i]) /\ SameOption(option'[i], option[i])
<1> DEFINE p == [option[o] EXCEPT !.data = Ptr(v), !.was_set = TRUE]
<1>1. OptionFits(option[o]) /\ DOMAIN option = 1..Len(option)
    BY OptionsFit
<1>2. option' = [option EXCEPT ![o] = p]
    BY <1>1 DEF Assigned, OptionFits, Fields
<1>3. OptionFits(p) /\ SameOption(p, option[o])
  <2>1. /\ DOMAIN p = Fields /\ p.was_set = TRUE /\ p.data = Ptr(v)
        /\ p.id = option[o].id /\ p.type = option[o].type /\ p.short = option[o].short
        /\ p.parent = option[o].parent /\ p.has_default = option[o].has_default
        /\ p.default = option[o].default
      BY <1>1 DEF OptionFits, Fields
  <2> HIDE DEF p
  <2>2. p.data # Null /\ p.data[1] = v
      BY <2>1, PtrIsNotNull
  <2> QED
      BY <1>1, <2>1, <2>2 DEF OptionFits, SameOption
<1> HIDE DEF p
<1> QED
    BY <1>2, <1>3, AssignedFits

(* set_default(): both pointers follow, and the flags.                     *)
LEMMA DefaultFits ==
    ASSUME ConfigInv, NEW o \in 1..Len(option), NEW v, IsValue(option[o].type, v),
           SetDefault(o, v)
    PROVE  /\ IsSequence(option') /\ Len(option') = Len(option)
           /\ \A i \in 1..Len(option) :
                 OptionFits(option'[i]) /\ SameOption(option'[i], option[i])
<1> DEFINE p == [option[o] EXCEPT !.has_default = TRUE, !.data = Ptr(v),
                                  !.default = Ptr(v), !.was_set = FALSE]
<1>1. OptionFits(option[o]) /\ DOMAIN option = 1..Len(option)
    BY OptionsFit
<1>2. option' = [option EXCEPT ![o] = p]
    BY <1>1 DEF SetDefault, OptionFits, Fields
<1>3. OptionFits(p) /\ SameOption(p, option[o])
  <2>1. /\ DOMAIN p = Fields /\ p.was_set = FALSE /\ p.data = Ptr(v)
        /\ p.id = option[o].id /\ p.type = option[o].type /\ p.short = option[o].short
        /\ p.parent = option[o].parent /\ p.has_default = TRUE
        /\ p.default = Ptr(v)
      BY <1>1 DEF OptionFits, Fields
  <2> HIDE DEF p
  <2>2. p.data # Null /\ p.data[1] = v /\ p.default # Null /\ p.default[1] = v
      BY <2>1, PtrIsNotNull
  <2> QED
      BY <1>1, <2>1, <2>2 DEF OptionFits, SameOption
<1> HIDE DEF p
<1> QED
    BY <1>2, <1>3, AssignedFits

(* The next run: nothing was set, and the defaults are there again.        *)
LEMMA RestartFits ==
    ASSUME ConfigInv, Restart
    PROVE  /\ IsSequence(option') /\ Len(option') = Len(option)
           /\ \A i \in 1..Len(option) :
                 OptionFits(option'[i]) /\ SameOption(option'[i], option[i])
<1> DEFINE new(o) == [option[o] EXCEPT !.was_set = FALSE, !.data = option[o].default]
<1>1. option' = [o \in 1..Len(option) |-> new(o)]
    BY DEF Restart
<1>2. Len(option) \in Nat /\ \A o \in 1..Len(option) : OptionFits(option[o])
    BY OptionsFit
<1>3. IsSequence(option') /\ Len(option') = Len(option)
  <2>1. option' = [o \in 1..Len(option) |-> option'[o]]
      BY <1>1
  <2> HIDE DEF new
  <2> QED
      BY <1>2, <2>1, DomainIsSequence
<1>4. ASSUME NEW i \in 1..Len(option)
      PROVE  OptionFits(option'[i]) /\ SameOption(option'[i], option[i])
  <2> DEFINE p == new(i)
  <2>1. option'[i] = p /\ OptionFits(option[i])
      BY <1>1, <1>2
  <2>2. /\ DOMAIN p = Fields /\ p.was_set = FALSE /\ p.data = option[i].default
        /\ p.id = option[i].id /\ p.type = option[i].type /\ p.short = option[i].short
        /\ p.parent = option[i].parent /\ p.has_default = option[i].has_default
        /\ p.default = option[i].default
      BY <2>1 DEF OptionFits, Fields
  <2> HIDE DEF p, new
  <2>3. OptionFits(p) /\ SameOption(p, option[i])
      BY <2>1, <2>2 DEF OptionFits, SameOption
  <2> QED
      BY <2>1, <2>3
<1> QED
    BY <1>3, <1>4

-----------------------------------------------------------------------------
(* CommandsResolve, command by command.                                    *)
ByCommand ==
    /\ \A c \in DOMAIN cmdmap : cmdmap[c] \in DOMAIN members
    /\ \A id \in DOMAIN members :
          /\ option[members[id]].id = id
          /\ group[option[members[id]].parent].members[id] = members[id]
          /\ LongCmd(id) \in DOMAIN cmdmap /\ cmdmap[LongCmd(id)] = id
          /\ option[members[id]].short # "" =>
                /\ ShortCmd(option[members[id]].short) \in DOMAIN cmdmap
                /\ cmdmap[ShortCmd(option[members[id]].short)] = id

(* The two say the same,                                                   *)
LEMMA ResolvedNow == CommandsResolve <=> ByCommand
BY DEF CommandsResolve, ByCommand

(* also after a step.                                                      *)
LEMMA ResolvedNext == CommandsResolve' <=> ByCommand'
BY DEF CommandsResolve, ByCommand

-----------------------------------------------------------------------------
(* The steps, one by one.                                                  *)

(* Nothing is there at first.                                              *)
LEMMA InitConfigInv == Init => ConfigInv
<1> SUFFICES ASSUME Init PROVE ConfigInv
    OBVIOUS
<1>1. /\ option = <<>> /\ group = <<>> /\ members = <<>> /\ groups = <<>> /\ cmdmap = <<>>
      /\ args = <<>> /\ mode = "idle" /\ file = <<>> /\ age = "live"
    BY DEF Init
<1>2. IsSequence(<<>>) /\ Len(<<>>) = 0 /\ 1..0 = {} /\ DOMAIN << >> = {}
  <2>1. 1..0 = {} /\ DOMAIN << >> = {}
      OBVIOUS
  <2> QED
      BY <2>1, TuplesAreSequences
<1>3. Shapes
    BY <1>1, <1>2 DEF Shapes
<1>4. Indices
    BY <1>1, <1>2 DEF Indices
<1>5. Texts
    BY <1>1, <1>2, ShortLists DEF Texts
<1>6. Ended
    BY <1>1 DEF Ended
<1>7. TypeOK
    BY <1>1, <1>2 DEF TypeOK
<1>8. FlagsMeanData
    BY <1>1, <1>2 DEF FlagsMeanData
<1>9. CommandsResolve /\ LongNames
    BY <1>1, <1>2 DEF CommandsResolve, LongNames
<1> QED
    BY <1>3, <1>4, <1>5, <1>6, <1>7, <1>8, <1>9 DEF ConfigInv

(* new_group(): a group without members is no one's parent.                *)
LEMMA NewGroupKeeps ==
    ASSUME ConfigInv, NEW name, NewGroup(name)
    PROVE  ConfigInv'
<1> DEFINE g == Len(group) + 1
           new == [name |-> name, members |-> <<>>]
<1>1. /\ group' = Append(group, new) /\ groups' = Put(groups, name, g)
      /\ UNCHANGED <<option, members, cmdmap, args, mode, file, saved, age>>
    BY DEF NewGroup, life
<1>2. IsSequence(group) /\ Len(group) \in Nat
    BY SequenceLen DEF ConfigInv, Shapes
<1>3. /\ IsSequence(group') /\ Len(group') = g /\ group'[g] = new
      /\ \A i \in 1..Len(group) : group'[i] = group[i]
  <2> HIDE DEF new
  <2> QED
      BY <1>1, <1>2, AppendIsSequence
<1>4. 1..g = 1..Len(group) \cup {g} /\ \A i \in 1..Len(group) : i # g
    BY <1>2
<1>5. DOMAIN new = {"name", "members"} /\ new.members = <<>> /\ DOMAIN << >> = {}
    OBVIOUS
<1>6. \A o \in 1..Len(option) : option[o].parent \in 1..Len(group)
    BY DEF ConfigInv, TypeOK
<1> HIDE DEF g, new
<1>7. Shapes'
  <2>1. \A i \in 1..g : DOMAIN group'[i] = {"name", "members"}
      BY <1>3, <1>4, <1>5 DEF ConfigInv, Shapes
  <2>2. \A o \in 1..Len(option) : option[o].id \in DOMAIN group'[option[o].parent].members
      BY <1>3, <1>6 DEF ConfigInv, Shapes
  <2> QED
      BY <1>1, <1>3, <2>1, <2>2 DEF ConfigInv, Shapes
<1>8. Indices'
  <2>1. \A i \in 1..g : \A id \in DOMAIN group'[i].members :
           group'[i].members[id] \in 1..Len(option)
      BY <1>3, <1>4, <1>5 DEF ConfigInv, Indices
  <2> QED
      BY <1>1, <1>3, <2>1 DEF ConfigInv, Indices
<1>9. Texts' /\ Ended' /\ FlagsMeanData' /\ LongNames'
    BY <1>1 DEF ConfigInv, Texts, Ended, FlagsMeanData, LongNames
<1>10. TypeOK'
  <2>1. \A n \in DOMAIN groups' : groups'[n] \in 1..g
      BY <1>1, <1>4 DEF Put, ConfigInv, TypeOK
  <2>2. \A o \in 1..Len(option) : option[o].parent \in 1..g
      BY <1>4, <1>6
  <2> QED
      BY <1>1, <1>3, <2>1, <2>2 DEF ConfigInv, TypeOK
<1>11. CommandsResolve'
  <2>1. ASSUME NEW id \in DOMAIN members
        PROVE  group'[option[members[id]].parent].members[id] = members[id]
    <3>1. members[id] \in 1..Len(option)
        BY DEF ConfigInv, Indices
    <3>2. group'[option[members[id]].parent] = group[option[members[id]].parent]
        BY <1>3, <1>6, <3>1
    <3>3. group[option[members[id]].parent].members[id] = members[id]
        BY ResolvedNow DEF ConfigInv, ByCommand
    <3> QED
        BY <3>2, <3>3
  <2>2. ByCommand
      BY ResolvedNow DEF ConfigInv
  <2>3. option' = option /\ members' = members /\ cmdmap' = cmdmap
      BY <1>1
  <2>4. ByCommand'
      BY <2>1, <2>2, <2>3, Zenon DEF ByCommand
  <2> QED
      BY <2>4, ResolvedNext
<1> QED
    BY <1>7, <1>8, <1>9, <1>10, <1>11 DEF ConfigInv

(* Commands say whose they are.                                            *)
LEMMA CommandsDiffer ==
    /\ \A id : LongCmd(id)[1] = "--" /\ LongCmd(id)[2] = id
    /\ \A s : ShortCmd(s)[1] = "-" /\ ShortCmd(s)[2] = s
    /\ "-" # "--"
BY DEF LongCmd, ShortCmd

(* The commands after an option was declared: its own lead to its id, the  *)
(* others where they led before.                                           *)
LEMMA DeclaredCommands ==
    ASSUME NEW d
    PROVE  /\ DOMAIN WithCommands(d) =
                DOMAIN cmdmap \cup {LongCmd(d.id)}
                              \cup (IF d.short = "" THEN {} ELSE {ShortCmd(d.short)})
           /\ WithCommands(d)[LongCmd(d.id)] = d.id
           /\ d.short # "" => WithCommands(d)[ShortCmd(d.short)] = d.id
           /\ \A c \in DOMAIN cmdmap :
                 \/ WithCommands(d)[c] = cmdmap[c]
                 \/ c = LongCmd(d.id) /\ WithCommands(d)[c] = d.id
                 \/ c = ShortCmd(d.short) /\ d.short # ""
<1> DEFINE a == LongCmd(d.id)
           b == ShortCmd(d.short)
           long == Put(cmdmap, a, d.id)
           both == Put(long, b, d.id)
<1>1. a # b
    BY CommandsDiffer
<1>2. WithCommands(d) = IF d.short = "" THEN long ELSE both
    BY DEF WithCommands
<1> HIDE DEF a, b
<1>3. /\ DOMAIN long = DOMAIN cmdmap \cup {a} /\ long[a] = d.id
      /\ \A x \in DOMAIN cmdmap : x # a => long[x] = cmdmap[x]
    BY DEF Put
<1> HIDE DEF long
<1>4. /\ DOMAIN both = DOMAIN long \cup {b} /\ both[b] = d.id
      /\ \A x \in DOMAIN long : x # b => both[x] = long[x]
    BY DEF Put
<1> HIDE DEF both
<1>5. CASE d.short = ""
  <2>1. WithCommands(d) = long
      BY <1>2, <1>5
  <2> QED
      BY <1>3, <1>5, <2>1 DEF a, b
<1>6. CASE d.short # ""
  <2>1. WithCommands(d) = both
      BY <1>2, <1>6
  <2>2. DOMAIN both = DOMAIN cmdmap \cup {a} \cup {b}
      BY <1>3, <1>4
  <2>3. both[a] = d.id /\ both[b] = d.id
      BY <1>1, <1>3, <1>4
  <2>4. \A c \in DOMAIN cmdmap :
           both[c] = cmdmap[c] \/ (c = a /\ both[c] = d.id) \/ c = b
      BY <1>1, <1>3, <1>4
  <2> QED
      BY <1>6, <2>1, <2>2, <2>3, <2>4 DEF a, b
<1> QED
    BY <1>5, <1>6

(* The objects after an option was declared.                               *)
LEMMA DeclaredObjects ==
    ASSUME ConfigInv, NEW g \in 1..Len(group), NEW d, NewOption(g, d)
    PROVE  /\ IsSequence(option') /\ Len(option') = Len(option) + 1
           /\ option'[Len(option) + 1] = NewObject(d, g)
           /\ \A i \in 1..Len(option) : option'[i] = option[i]
           /\ IsSequence(group') /\ Len(group') = Len(group)
           /\ \A i \in 1..Len(group) :
                 /\ DOMAIN group'[i] = {"name", "members"}
                 /\ DOMAIN group'[i].members =
                       DOMAIN group[i].members \cup (IF i = g THEN {d.id} ELSE {})
                 /\ i = g => group'[i].members[d.id] = Len(option) + 1
                 /\ \A id \in DOMAIN group[i].members :
                       i # g \/ id # d.id => group'[i].members[id] = group[i].members[id]
<1> DEFINE o == Len(option) + 1
           new == NewObject(d, g)
<1>1. /\ option' = Append(option, new)
      /\ group' = [group EXCEPT ![g].members = Put(@, d.id, o)]
    BY DEF NewOption
<1>2. IsSequence(option) /\ IsSequence(group) /\ DOMAIN group = 1..Len(group)
    BY SequenceLen DEF ConfigInv, Shapes
<1>3. /\ IsSequence(option') /\ Len(option') = o /\ option'[o] = new
      /\ \A i \in 1..Len(option) : option'[i] = option[i]
  <2> HIDE DEF new
  <2> QED
      BY <1>1, <1>2, AppendIsSequence
<1>4. \A i \in 1..Len(group) : DOMAIN group[i] = {"name", "members"}
    BY DEF ConfigInv, Shapes
<1> DEFINE m == Put(group[g].members, d.id, o)
           p == [group[g] EXCEPT !.members = m]
<1>5. group' = [group EXCEPT ![g] = p]
    BY <1>1, <1>2, <1>4
<1>6. DOMAIN p = {"name", "members"} /\ p.members = m
    BY <1>4
<1>7. /\ DOMAIN m = DOMAIN group[g].members \cup {d.id} /\ m[d.id] = o
      /\ \A x \in DOMAIN group[g].members : x # d.id => m[x] = group[g].members[x]
    BY DEF Put
<1> HIDE DEF p, m
<1>8. IsSequence(group') /\ Len(group') = Len(group)
    BY <1>2, <1>5, ExceptIsSequence
<1>9. ASSUME NEW i \in 1..Len(group)
      PROVE  /\ DOMAIN group'[i] = {"name", "members"}
             /\ DOMAIN group'[i].members =
                   DOMAIN group[i].members \cup (IF i = g THEN {d.id} ELSE {})
             /\ i = g => group'[i].members[d.id] = o
             /\ \A id \in DOMAIN group[i].members :
                   i # g \/ id # d.id => group'[i].members[id] = group[i].members[id]
  <2>1. CASE i = g
    <3>1. group'[i] = p
        BY <1>2, <1>5, <2>1
    <3> HIDE DEF o
    <3> QED
        BY <1>6, <1>7, <2>1, <3>1
  <2>2. CASE i # g
    <3>1. group'[i] = group[i]
        BY <1>2, <1>5, <2>2
    <3> QED
        BY <1>4, <2>2, <3>1
  <2> QED
      BY <2>1, <2>2
<1> QED
    BY <1>3, <1>8, <1>9

(* new_option(): the new object is known to its group, to the manager and  *)
(* by its commands; nobody else loses theirs.                              *)
LEMMA NewOptionKeeps ==
    ASSUME ConfigInv, NEW g \in 1..Len(group), NEW d \in Declaration, NewOption(g, d)
    PROVE  ConfigInv'
<1> DEFINE n == Len(option)
           o == n + 1
           new == NewObject(d, g)
<1>1. /\ members' = Put(members, d.id, o) /\ cmdmap' = WithCommands(d)
      /\ d.id \notin DOMAIN group[g].members
      /\ ShortCmd(d.short) \notin DOMAIN cmdmap
      /\ UNCHANGED <<groups, args, mode, file, saved, age>>
    BY DEF NewOption, ShortIsFree, life
<1>2. n \in Nat /\ 1..o = 1..n \cup {o} /\ o \in 1..o /\ \A i \in 1..n : i # o
    BY OptionsFit
<1>3. /\ IsSequence(option') /\ Len(option') = o
      /\ option'[o] = new
      /\ \A i \in 1..n : option'[i] = option[i]
      /\ IsSequence(group') /\ Len(group') = Len(group)
      /\ \A i \in 1..Len(group) :
            /\ DOMAIN group'[i] = {"name", "members"}
            /\ DOMAIN group'[i].members =
                  DOMAIN group[i].members \cup (IF i = g THEN {d.id} ELSE {})
            /\ i = g => group'[i].members[d.id] = o
            /\ \A id \in DOMAIN group[i].members :
                  i # g \/ id # d.id => group'[i].members[id] = group[i].members[id]
    BY DeclaredObjects
<1>4. /\ DOMAIN members' = DOMAIN members \cup {d.id} /\ members'[d.id] = o
      /\ \A id \in DOMAIN members : id # d.id => members'[id] = members[id]
    BY <1>1 DEF Put
<1>5. /\ new.id = d.id /\ new.type = d.type /\ new.short = d.short /\ new.parent = g
      /\ new.was_set = FALSE /\ new.has_default = FALSE
      /\ new.data = Null /\ new.default = Null /\ DOMAIN new = Fields
    BY DEF NewObject, Fields
<1>6. d.type \in Types
    BY ConfigAssumption
<1>7. \A i \in 1..n : option[i].parent \in 1..Len(group)
    BY DEF ConfigInv, TypeOK
<1> HIDE DEF new, o
<1>8. Shapes'
  <2>1. ASSUME NEW i \in 1..o
        PROVE  /\ DOMAIN option'[i] = Fields
               /\ option'[i].was_set \in BOOLEAN /\ option'[i].has_default \in BOOLEAN
               /\ option'[i].id \in DOMAIN group'[option'[i].parent].members
    <3>1. CASE i = o
        BY <1>3, <1>5, <3>1
    <3>2. CASE i \in 1..n
        BY <1>3, <1>7, <3>2 DEF ConfigInv, Shapes
    <3> QED
        BY <1>2, <3>1, <3>2
  <2> QED
      BY <1>3, <2>1 DEF Shapes
<1>9. Indices'
  <2>1. \A id \in DOMAIN members' : members'[id] \in 1..o
      BY <1>2, <1>4 DEF ConfigInv, Indices
  <2>2. ASSUME NEW i \in 1..Len(group), NEW id \in DOMAIN group'[i].members
        PROVE  group'[i].members[id] \in 1..o
    <3>1. CASE i = g /\ id = d.id
        BY <1>2, <1>3, <3>1
    <3>2. CASE ~ (i = g /\ id = d.id)
      <4>1. id \in DOMAIN group[i].members
          BY <1>3, <3>2
      <4>2. group'[i].members[id] = group[i].members[id]
          BY <1>3, <3>2, <4>1
      <4>3. group[i].members[id] \in 1..n
          BY <4>1 DEF ConfigInv, Indices
      <4> QED
          BY <1>2, <4>2, <4>3
    <3> QED
        BY <3>1, <3>2
  <2> QED
      BY <1>3, <2>1, <2>2 DEF Indices
<1>10. Texts' /\ Ended'
    BY <1>1 DEF ConfigInv, Texts, Ended
<1>11. TypeOK'
  <2>1. ASSUME NEW i \in 1..o
        PROVE  /\ option'[i].type \in Types /\ option'[i].parent \in 1..Len(group)
               /\ \A p \in {option'[i].data, option'[i].default} :
                     p # Null => IsValue(option'[i].type, p[1])
    <3>1. CASE i = o
        BY <1>3, <1>5, <1>6, <3>1
    <3>2. CASE i \in 1..n
        BY <1>3, <3>2 DEF ConfigInv, TypeOK
    <3> QED
        BY <1>2, <3>1, <3>2
  <2>2. \A i \in DOMAIN groups : groups[i] \in 1..Len(group)
      BY DEF ConfigInv, TypeOK
  <2>3. /\ mode \in {"idle", "cmdline", "file", "thrown", "crashed"}
        /\ age \in {"live", "written", "started", "restored", "refused"}
      BY DEF ConfigInv, TypeOK
  <2> QED
      BY <1>1, <1>3, <2>1, <2>2, <2>3 DEF TypeOK
<1>12. FlagsMeanData'
  <2>1. ASSUME NEW i \in 1..o
        PROVE  /\ option'[i].was_set \/ option'[i].has_default => option'[i].data # Null
               /\ option'[i].has_default <=> option'[i].default # Null
    <3>1. CASE i = o
        BY <1>3, <1>5, <3>1
    <3>2. CASE i \in 1..n
        BY <1>3, <3>2, OptionsFit DEF OptionFits
    <3> QED
        BY <1>2, <3>1, <3>2
  <2> QED
      BY <1>3, <2>1 DEF FlagsMeanData
<1>13. /\ DOMAIN cmdmap' =
            DOMAIN cmdmap \cup {LongCmd(d.id)}
                          \cup (IF d.short = "" THEN {} ELSE {ShortCmd(d.short)})
       /\ cmdmap'[LongCmd(d.id)] = d.id
       /\ d.short # "" => cmdmap'[ShortCmd(d.short)] = d.id
       /\ \A c \in DOMAIN cmdmap :
             \/ cmdmap'[c] = cmdmap[c]
             \/ c = LongCmd(d.id) /\ cmdmap'[c] = d.id
    BY <1>1, DeclaredCommands
<1>14. CommandsResolve'
  <2>1. \A c \in DOMAIN cmdmap' : cmdmap'[c] \in DOMAIN members'
    <3>1. \A c \in DOMAIN cmdmap : cmdmap[c] \in DOMAIN members
        BY DEF ConfigInv, CommandsResolve
    <3>2. ASSUME NEW c \in DOMAIN cmdmap'
          PROVE  cmdmap'[c] = d.id \/ (c \in DOMAIN cmdmap /\ cmdmap'[c] = cmdmap[c])
        BY <1>13
    <3> QED
        BY <1>4, <3>1, <3>2
  <2>2. ASSUME NEW id \in DOMAIN members'
        PROVE  /\ option'[members'[id]].id = id
               /\ group'[option'[members'[id]].parent].members[id] = members'[id]
               /\ LongCmd(id) \in DOMAIN cmdmap' /\ cmdmap'[LongCmd(id)] = id
               /\ option'[members'[id]].short # "" =>
                     /\ ShortCmd(option'[members'[id]].short) \in DOMAIN cmdmap'
                     /\ cmdmap'[ShortCmd(option'[members'[id]].short)] = id
    <3>1. CASE id = d.id
      <4>1. option'[members'[id]] = new /\ members'[id] = o
          BY <1>3, <1>4, <3>1
      <4> QED
          BY <1>3, <1>5, <1>13, <3>1, <4>1
    <3>2. CASE id # d.id
      <4> DEFINE i == members[id]
                 q == option[i]
      <4>1. id \in DOMAIN members /\ members'[id] = i
          BY <1>4, <3>2
      <4>2. i \in 1..n
          BY <4>1 DEF ConfigInv, Indices
      <4>3. option'[i] = q /\ q.parent \in 1..Len(group)
          BY <1>3, <1>7, <4>2
      <4>4. /\ q.id = id /\ group[q.parent].members[id] = i
            /\ LongCmd(id) \in DOMAIN cmdmap /\ cmdmap[LongCmd(id)] = id
            /\ q.short # "" => /\ ShortCmd(q.short) \in DOMAIN cmdmap
                               /\ cmdmap[ShortCmd(q.short)] = id
          BY <4>1, ResolvedNow DEF ConfigInv, ByCommand
      <4>5. id \in DOMAIN group[q.parent].members
          BY <4>2, <4>4 DEF ConfigInv, Shapes
      <4> HIDE DEF q, i
      <4>6. group'[q.parent].members[id] = i
          BY <1>3, <3>2, <4>3, <4>4, <4>5
      <4>7. LongCmd(id) \in DOMAIN cmdmap' /\ cmdmap'[LongCmd(id)] = id
        <5>1. LongCmd(id) # LongCmd(d.id)
            BY <3>2, CommandsDiffer
        <5> QED
            BY <1>13, <4>4, <5>1
      <4>8. ASSUME q.short # ""
            PROVE  ShortCmd(q.short) \in DOMAIN cmdmap' /\ cmdmap'[ShortCmd(q.short)] = id
        <5>1. ShortCmd(q.short) # LongCmd(d.id)
            BY CommandsDiffer
        <5> QED
            BY <1>13, <4>4, <4>8, <5>1
      <4> QED
          BY <4>1, <4>3, <4>4, <4>6, <4>7, <4>8
    <3> QED
        BY <3>1, <3>2
  <2>3. ByCommand'
      BY <2>1, <2>2 DEF ByCommand
  <2> QED
      BY <2>3, ResolvedNext
<1>15. LongNames'
  <2>1. ASSUME NEW c \in DOMAIN cmdmap', c[1] = "--"
        PROVE  cmdmap'[c] = c[2]
    <3>1. CASE c = LongCmd(d.id)
        BY <1>13, <3>1, CommandsDiffer
    <3>2. CASE c # LongCmd(d.id)
      <4>1. c # ShortCmd(d.short)
          BY <2>1, CommandsDiffer
      <4>2. c \in DOMAIN cmdmap /\ cmdmap'[c] = cmdmap[c]
          BY <1>13, <3>2, <4>1
      <4> QED
          BY <2>1, <4>2 DEF ConfigInv, LongNames
    <3> QED
        BY <3>1, <3>2
  <2> QED
      BY <2>1 DEF LongNames
<1> QED
    BY <1>8, <1>9, <1>10, <1>11, <1>12, <1>14, <1>15 DEF ConfigInv

(* The option that an argument names.                                      *)
Named == members[cmdmap[args[1]]]

Given(o) ==
    /\ \E v, n : /\ IsValue(option[o].type, v) /\ option' = Assigned(o, v)
                 /\ n \in 1..2 /\ n <= Len(args)
                 /\ args' = SubSeq(args, n + 1, Len(args))
    /\ mode' = mode

Refused ==
    mode' \in {"thrown", "crashed"} /\ option' = option /\ args' = args

(* The invariant, of the argument list and of what it names.               *)
LEMMA ArgumentsAre ==
    ASSUME ConfigInv, args # <<>>
    PROVE  /\ IsSequence(args) /\ Len(args) \in Nat /\ Len(args) >= 1
           /\ Len(args) > 1 => IsSequence(args[2])
           /\ args[1] \in DOMAIN cmdmap => Named \in 1..Len(option)
<1>1. /\ IsSequence(args) /\ Len(args) \in Nat
      /\ \A i \in Int : 1 <= i /\ i <= Len(args) => IsSequence(args[i])
    BY ListedStrings DEF ConfigInv, Texts
<1>2. Len(args) # 0
  <2>1. PICK S : args \in Seq(S)
      BY <1>1, SequenceLen
  <2> QED
      BY <2>1
<1>3. args[1] \in DOMAIN cmdmap => Named \in 1..Len(option)
    BY DEF ConfigInv, CommandsResolve, Indices, Named
<1> QED
    BY <1>1, <1>2, <1>3

(* A flag is given a truth value, by the next argument or by itself.       *)
LEMMA FlagOutcome ==
    ASSUME ConfigInv, args # <<>>, NEW o \in 1..Len(option),
           option[o].type = "bool", ParseBool(o)
    PROVE  Given(o)
<1> DEFINE explicit == Len(args) > 1 /\ args[2] \in {<<"true">>, <<"false">>}
           said == args[2] = <<"true">>
           toggled == option[o].has_default => ~ option[o].data[1]
<1>1. IF explicit THEN Take(o, said, 2) ELSE Take(o, toggled, 1)
    BY DEF ParseBool
<1>2. Len(args) \in Nat /\ Len(args) >= 1
    BY ArgumentsAre
<1>3. said \in BOOLEAN /\ toggled \in BOOLEAN
    OBVIOUS
<1> HIDE DEF said, toggled
<1>4. IsValue(option[o].type, said) /\ IsValue(option[o].type, toggled)
    BY <1>3, ValueOf
<1>5. CASE explicit
  <2>1. Take(o, said, 2)
      BY <1>1, <1>5
  <2>2. /\ option' = Assigned(o, said) /\ args' = SubSeq(args, 2 + 1, Len(args))
        /\ mode' = mode
      BY <2>1 DEF Take
  <2>3. 2 \in 1..2 /\ 2 <= Len(args)
      BY <1>2, <1>5
  <2> QED
      BY <1>4, <2>2, <2>3 DEF Given
<1>6. CASE ~ explicit
  <2>1. Take(o, toggled, 1)
      BY <1>1, <1>6
  <2>2. /\ option' = Assigned(o, toggled) /\ args' = SubSeq(args, 1 + 1, Len(args))
        /\ mode' = mode
      BY <2>1 DEF Take
  <2>3. 1 \in 1..2 /\ 1 <= Len(args)
      BY <1>2
  <2> QED
      BY <1>4, <2>2, <2>3 DEF Given
<1> QED
    BY <1>5, <1>6

(* Other options are given what their type reads in the next argument.     *)
LEMMA ValueOutcome ==
    ASSUME ConfigInv, args # <<>>, NEW o \in 1..Len(option),
           option[o].type # "bool", ParseValue(o)
    PROVE  Given(o) \/ Refused
<1> DEFINE type == option[o].type
           bad == Len(args) < 2 \/ (type \in {"integer", "real"} /\ ~ IsNumber(type, args[2]))
           v == Read(type, args[2])
<1>1. \/ bad /\ Throw
      \/ ~ bad /\ Take(o, v, 2)
      \/ Throw
      \/ mode' = "crashed" /\ UNCHANGED <<option, args>>
    BY DEF ParseValue
<1>2. ASSUME Throw \/ (mode' = "crashed" /\ UNCHANGED <<option, args>>)
      PROVE  Refused
    BY <1>2 DEF Throw, Refused
<1>3. ASSUME ~ bad, Take(o, v, 2)
      PROVE  Given(o)
  <2>1. Len(args) \in Nat /\ Len(args) >= 2 /\ IsSequence(args[2])
      BY <1>3, ArgumentsAre
  <2>2. type \in Types
      BY DEF ConfigInv, TypeOK
  <2>3. type \in {"integer", "real"} => IsNumber(type, args[2])
      BY <1>3
  <2>4. IsValue(type, v)
    <3> HIDE DEF type
    <3>1. type # "bool"
        BY DEF type
    <3> QED
        BY <2>1, <2>2, <2>3, <3>1, ReadIsValue
  <2>5. option' = Assigned(o, v) /\ args' = SubSeq(args, 2 + 1, Len(args)) /\ mode' = mode
      BY <1>3 DEF Take
  <2>6. 2 \in 1..2 /\ 2 <= Len(args)
      BY <2>1
  <2> HIDE DEF v
  <2> QED
      BY <2>4, <2>5, <2>6 DEF Given
<1> QED
    BY <1>1, <1>2, <1>3

(* A call of parse() gives the option that was named a value of its type   *)
(* and consumes one or two arguments, or leaves everything alone.          *)
LEMMA ParseOutcome ==
    ASSUME ConfigInv, Parse
    PROVE  /\ mode \in {"cmdline", "file"} /\ args # <<>>
           /\ UNCHANGED <<group, members, groups, cmdmap, file, saved, age>>
           /\ \/ Named \in 1..Len(option) /\ Given(Named)
              \/ Refused
<1>1. /\ mode \in {"cmdline", "file"} /\ args # <<>>
      /\ UNCHANGED <<group, members, groups, cmdmap, file, saved, age>>
    BY DEF Parse, life
<1>2. CASE args[1] \notin DOMAIN cmdmap
  <2>1. Throw
      BY <1>2 DEF Parse
  <2> QED
      BY <1>1, <2>1 DEF Throw, Refused
<1>3. CASE args[1] \in DOMAIN cmdmap
  <2>1. Named \in 1..Len(option)
      BY <1>1, <1>3, ArgumentsAre
  <2>2. IF option[Named].type = "bool" THEN ParseBool(Named) ELSE ParseValue(Named)
      BY <1>3 DEF Parse, Named
  <2>3. Given(Named) \/ Refused
      BY <1>1, <2>1, <2>2, FlagOutcome, ValueOutcome
  <2> QED
      BY <1>1, <2>1, <2>3
<1> QED
    BY <1>2, <1>3

Modes == {"idle", "cmdline", "file", "thrown", "crashed"}
Ages == {"live", "written", "started", "restored", "refused"}

(* Steps that leave the objects alone.                                     *)
LEMMA SameObjects ==
    ASSUME ConfigInv, UNCHANGED objects, mode' \in Modes, age' \in Ages
    PROVE  /\ Shapes' /\ Indices' /\ TypeOK'
           /\ FlagsMeanData' /\ CommandsResolve' /\ LongNames'
<1>1. option' = option /\ UNCHANGED <<group, members, groups, cmdmap>>
    BY DEF objects
<1>2. \A o \in 1..Len(option) : OptionFits(option[o]) /\ SameOption(option[o], option[o])
    BY OptionsFit DEF SameOption
<1>3. IsSequence(option)
    BY DEF ConfigInv, Shapes
<1> QED
    BY <1>1, <1>2, <1>3, ObjectsKept DEF Modes, Ages

(* Steps that give options values.                                         *)
LEMMA SameCommands ==
    ASSUME ConfigInv,
           IsSequence(option') /\ Len(option') = Len(option)
              /\ \A o \in 1..Len(option) :
                    OptionFits(option'[o]) /\ SameOption(option'[o], option[o]),
           UNCHANGED <<group, members, groups, cmdmap>>,
           mode' \in Modes, age' \in Ages, Texts', Ended'
    PROVE  ConfigInv'
BY ObjectsKept DEF ConfigInv, Modes, Ages

(* What parse() is, and where the program is, is known.                    *)
LEMMA ModeAndAge ==
    ASSUME ConfigInv
    PROVE  mode \in Modes /\ age \in Ages /\ (age = "written" => mode = "idle")
BY DEF ConfigInv, TypeOK, Ended, Modes, Ages

(* set() and set_default().                                                *)
LEMMA SetKeeps ==
    ASSUME ConfigInv, NEW o \in 1..Len(option), NEW v \in Value[option[o].type],
           SetOption(o, v) \/ SetDefault(o, v)
    PROVE  ConfigInv'
<1>1. IsValue(option[o].type, v)
    BY ConfigAssumption DEF ConfigInv, TypeOK
<1>2. UNCHANGED <<group, members, groups, cmdmap, args, mode, file, age>>
    BY DEF SetOption, SetDefault, life
<1>3. Texts' /\ Ended' /\ mode' \in Modes /\ age' \in Ages
    BY <1>2, ModeAndAge DEF ConfigInv, Texts, Ended
<1>4. CASE SetOption(o, v)
  <2>1. option' = Assigned(o, v)
      BY <1>4 DEF SetOption
  <2> QED
      BY <1>1, <1>2, <1>3, <2>1, SetFits, SameCommands
<1>5. CASE SetDefault(o, v)
    BY <1>1, <1>2, <1>3, <1>5, DefaultFits, SameCommands
<1> QED
    BY <1>4, <1>5

(* parse_cmdline() begins.                                                 *)
LEMMA ParseCmdlineKeeps ==
    ASSUME ConfigInv, NEW a \in CmdLine, ParseCmdline(a)
    PROVE  ConfigInv'
<1>1. /\ UNCHANGED objects /\ mode' = "cmdline" /\ args' = a
      /\ age = "live" /\ age' = age /\ file' = file
    BY DEF ParseCmdline, Idle, life
<1>2. mode' \in Modes /\ age' \in Ages /\ Ended'
    BY <1>1 DEF Modes, Ages, Ended
<1>3. Texts'
    BY <1>1, ConfigAssumption DEF ConfigInv, Texts
<1> QED
    BY <1>1, <1>2, <1>3, SameObjects DEF ConfigInv

(* Lists of strings one after another.                                     *)
LEMMA ListsFlattened ==
    ASSUME NEW n \in Nat, NEW lists, lists = [i \in 1..n |-> lists[i]],
           \A i \in 1..n : AreSequences(lists[i])
    PROVE  /\ AreSequences(lists) /\ Len(lists) = n
           /\ AreSequences(FlattenSeq(lists))
<1> DEFINE tokens == FlattenSeq(lists)
<1>1. IsSequence(lists) /\ Len(lists) = n
    BY DomainIsSequence
<1>2. AreSequences(lists)
    BY <1>1 DEF AreSequences
<1>3. tokens \in Seq(ElementsOf(lists)) /\ IsSequence(tokens)
    BY <1>2, FlattenIsSequence
<1>4. \A t \in ElementsOf(lists) : IsSequence(t)
  <2>1. ASSUME NEW p \in (1..Len(lists)) \X Nat, p[2] \in 1..Len(lists[p[1]])
        PROVE  IsSequence(lists[p[1]][p[2]])
    <3>1. AreSequences(lists[p[1]])
        BY <1>1
    <3> QED
        BY <2>1, <3>1, ListedStrings
  <2> QED
      BY <2>1 DEF ElementsOf
<1> HIDE DEF tokens
<1>5. \A i \in 1..Len(tokens) : tokens[i] \in ElementsOf(lists)
    BY <1>3
<1>6. AreSequences(tokens)
    BY <1>3, <1>4, <1>5 DEF AreSequences
<1> QED
    BY <1>1, <1>2, <1>6 DEF tokens

(* The tokens of the lines of a text are strings.                          *)
LEMMA TextTokensAre ==
    ASSUME NEW text, IsSequence(text)
    PROVE  AreSequences(TextTokens(text))
<1> DEFINE parts == Split(text, Newline)
           n == Len(parts)
           lists == [k \in 1..n |-> LineTokens(parts[k])]
<1>1. AreSequences(parts) /\ n \in Nat
    BY SplitIsSequences, SequenceLen DEF AreSequences
<1> HIDE DEF parts, n
<1>2. \A k \in 1..n : AreSequences(lists[k])
    BY <1>1, ListedStrings, TokensAreStrings DEF n
<1>3. lists = [k \in 1..n |-> lists[k]]
    OBVIOUS
<1>4. TextTokens(text) = FlattenSeq(lists)
    BY DEF TextTokens, parts, n
<1> HIDE DEF lists
<1>5. AreSequences(FlattenSeq(lists))
    BY <1>1, <1>2, <1>3, ListsFlattened
<1> QED
    BY <1>4, <1>5

(* The tokens of a file are strings.                                       *)
LEMMA TokensOfFile ==
    ASSUME NEW f, AreSequences(f)
    PROVE  AreSequences(FlattenSeq([i \in 1..Len(f) |-> TextTokens(f[i])]))
<1> DEFINE n == Len(f)
           lists == [i \in 1..n |-> TextTokens(f[i])]
<1>1. n \in Nat /\ \A i \in 1..n : IsSequence(f[i])
    BY ListedStrings
<1> HIDE DEF n
<1>2. \A i \in 1..n : AreSequences(lists[i])
    BY <1>1, TextTokensAre
<1>3. lists = [i \in 1..n |-> lists[i]]
    OBVIOUS
<1> HIDE DEF lists
<1>4. AreSequences(FlattenSeq(lists))
    BY <1>1, <1>2, <1>3, ListsFlattened
<1> QED
    BY <1>4 DEF lists, n

(* parse_config_file() begins.                                             *)
LEMMA ParseConfigFileKeeps ==
    ASSUME ConfigInv, NEW f, ParseConfigFile(f)
    PROVE  ConfigInv'
<1>1. /\ UNCHANGED objects /\ age \in {"live", "started"} /\ age' = age /\ file' = file
      /\ f \in HandWritten \/ f = file
      /\ \/ mode' = "thrown" /\ args' = args
         \/ /\ mode' = "file"
            /\ args' = FlattenSeq([i \in 1..Len(f) |-> TextTokens(f[i])])
    BY DEF ParseConfigFile, life
<1>2. mode' \in Modes /\ age' \in Ages /\ Ended'
    BY <1>1 DEF Modes, Ages, Ended
<1>3. AreSequences(f) /\ AreSequences(args) /\ AreSequences(file)
    BY <1>1, ConfigAssumption DEF ConfigInv, Texts
<1>4. AreSequences(args')
    BY <1>1, <1>3, TokensOfFile
<1>5. Texts'
    BY <1>1, <1>3, <1>4 DEF Texts
<1> QED
    BY <1>1, <1>2, <1>5, SameObjects DEF ConfigInv

(* parse().                                                                *)
LEMMA ParseKeeps ==
    ASSUME ConfigInv, Parse
    PROVE  ConfigInv'
<1>1. /\ mode \in {"cmdline", "file"}
      /\ UNCHANGED <<group, members, groups, cmdmap, file, saved, age>>
      /\ \/ Named \in 1..Len(option) /\ Given(Named)
         \/ Refused
    BY ParseOutcome
<1>2. mode' \in Modes /\ age' \in Ages
    BY <1>1, ModeAndAge DEF Given, Refused, Modes
<1>3. Ended'
    BY <1>1, ModeAndAge DEF Ended
<1>4. CASE Named \in 1..Len(option) /\ Given(Named)
  <2> DEFINE o == Named
  <2> HIDE DEF o
  <2>1. PICK v, n : /\ IsValue(option[o].type, v) /\ option' = Assigned(o, v)
                    /\ n \in 1..2 /\ n <= Len(args)
                    /\ args' = SubSeq(args, n + 1, Len(args))
      BY <1>4 DEF Given, o
  <2>2. o \in 1..Len(option)
      BY <1>4 DEF o
  <2>3. AreSequences(args')
    <3>1. /\ Len(args) \in Nat
          /\ \A i \in Int : 1 <= i /\ i <= Len(args) => IsSequence(args[i])
        BY ListedStrings DEF ConfigInv, Texts
    <3> DEFINE rest == SubSeq(args, n + 1, Len(args))
    <3>2. n + 1 \in Int /\ Len(args) \in Int
        BY <2>1, <3>1
    <3>3. /\ IsSequence(rest)
          /\ Len(rest) = IF n + 1 <= Len(args) THEN Len(args) - (n + 1) + 1 ELSE 0
          /\ \A i \in 1..Len(args) - (n + 1) + 1 : rest[i] = args[(n + 1) + i - 1]
        BY <3>2, SubSeqIsSequence
    <3> HIDE DEF rest
    <3>4. Len(rest) = Len(args) - n
        BY <2>1, <3>1, <3>3
    <3>5. ASSUME NEW i \in 1..Len(rest)
          PROVE  IsSequence(rest[i])
      <4>1. rest[i] = args[n + i] /\ n + i \in Int /\ 1 <= n + i /\ n + i <= Len(args)
          BY <2>1, <3>1, <3>3, <3>4
      <4> QED
          BY <3>1, <4>1
    <3>6. AreSequences(rest)
        BY <3>3, <3>5 DEF AreSequences
    <3> QED
        BY <2>1, <3>6 DEF rest
  <2>4. Texts'
      BY <1>1, <2>3 DEF ConfigInv, Texts
  <2>5. /\ IsSequence(option') /\ Len(option') = Len(option)
        /\ \A i \in 1..Len(option) :
              OptionFits(option'[i]) /\ SameOption(option'[i], option[i])
      BY <2>1, <2>2, SetFits
  <2> QED
      BY <1>1, <1>2, <1>3, <2>4, <2>5, SameCommands
<1>5. CASE Refused
  <2>1. UNCHANGED objects
      BY <1>1, <1>5 DEF Refused, objects
  <2>2. Texts'
      BY <1>1, <1>5 DEF Refused, ConfigInv, Texts
  <2> QED
      BY <1>2, <1>3, <2>1, <2>2, SameObjects DEF ConfigInv
<1> QED
    BY <1>1, <1>4, <1>5

(* The loop around parse() ends, or what it threw is caught.               *)
LEMMA EndKeeps ==
    ASSUME ConfigInv, EndParse \/ Catch
    PROVE  ConfigInv'
<1>1. /\ UNCHANGED objects /\ file' = file /\ mode' = "idle"
      /\ args' = args \/ args' = <<>>
      /\ age' \in {age, "restored", "refused"}
    BY DEF EndParse, Catch
<1>2. mode' \in Modes /\ age' \in Ages /\ Ended'
    BY <1>1, ModeAndAge DEF Modes, Ages, Ended
<1>3. AreSequences(<<>>)
    BY TuplesAreSequences, ShortLists
<1>4. Texts'
    BY <1>1, <1>3 DEF ConfigInv, Texts
<1> QED
    BY <1>1, <1>2, <1>4, SameObjects DEF ConfigInv

(* The line of an option that was set is a string.                         *)
LEMMA LineIsSequence ==
    ASSUME ConfigInv, NEW o \in 1..Len(option), option[o].was_set
    PROVE  IsSequence(Line(o))
<1> DEFINE start == <<option[o].id, " ", "=", " ">>
           shown == Show(option[o].type, option[o].data[1])
<1>1. OptionFits(option[o])
    BY OptionsFit
<1>2. option[o].data # Null
    BY <1>1 DEF OptionFits
<1>3. option[o].type \in Types /\ IsValue(option[o].type, option[o].data[1])
    BY <1>1, <1>2 DEF OptionFits
<1>4. IsSequence(shown)
    BY <1>3, ShowIsSequence
<1>5. IsSequence(start)
    BY TuplesAreSequences
<1>6. Line(o) = start \o shown
    BY DEF Line
<1> HIDE DEF start, shown
<1> QED
    BY <1>4, <1>5, <1>6, ConcatIsSequence

(* So is a comment, and what is written for an option.                     *)
LEMMA RemarkIsSequence ==
    ASSUME ConfigInv, NEW o \in 1..Len(option)
    PROVE  IsSequence(Remark(o))
<1>1. OptionFits(option[o])
    BY OptionsFit
<1>2. PICK v : v = Show(option[o].type, option[o].default[1])
    OBVIOUS
<1>3. option[o].has_default => IsSequence(v)
    BY <1>1, <1>2, ShowIsSequence DEF OptionFits
<1>4. IsSequence(<<"#">>)
    BY TuplesAreSequences
<1>5. option[o].has_default => IsSequence(<<"#">> \o v)
    BY <1>3, <1>4, ConcatIsSequence
<1> QED
    BY <1>2, <1>4, <1>5 DEF Remark

(* The text of an option.                                                  *)
LEMMA TextIsSequence ==
    ASSUME ConfigInv, NEW o \in 1..Len(option), NEW shorter \in BOOLEAN
    PROVE  IsSequence(Text(o, shorter))
<1>1. PICK r, a : r = Remark(o) /\ a = IF option[o].was_set THEN Line(o) ELSE Remark(o)
    OBVIOUS
<1>2. IsSequence(r) /\ IsSequence(a)
    BY <1>1, RemarkIsSequence, LineIsSequence
<1>3. AreSequences(<<a>>) /\ AreSequences(<<r, a>>)
    BY <1>2, ShortLists
<1>4. IsSequence(Join(<<a>>, Newline)) /\ IsSequence(Join(<<r, a>>, Newline))
    BY <1>3, JoinIsSequence
<1>5. Text(o, shorter) = IF shorter THEN Join(<<a>>, Newline) ELSE Join(<<r, a>>, Newline)
    BY <1>1 DEF Text
<1> QED
    BY <1>4, <1>5

(* The options listed are there.                                           *)
LEMMA ListedAreOptions ==
    ASSUME ConfigInv
    PROVE  Listed \subseteq 1..Len(option)
<1>1. ASSUME NEW name \in DOMAIN groups
      PROVE  {group[groups[name]].members[id] : id \in DOMAIN group[groups[name]].members}
                \subseteq 1..Len(option)
  <2>1. groups[name] \in 1..Len(group)
      BY DEF ConfigInv, TypeOK
  <2> QED
      BY <2>1 DEF ConfigInv, Indices
<1> QED
    BY <1>1 DEF Listed

(* SetToSeq lists each element once.                                       *)
LEMMA EachListedOnce ==
    ASSUME NEW S, IsFiniteSet(S)
    PROVE  /\ Cardinality(S) \in Nat
           /\ \A x \in S : \E i \in 1..Cardinality(S) : SetToSeq(S)[i] = x
           /\ \A i, j \in 1..Cardinality(S) : SetToSeq(S)[i] = SetToSeq(S)[j] => i = j
<1> DEFINE n == Cardinality(S)
           f == SetToSeq(S)
<1>1. f \in [1..n -> S] /\ IsInjective(f) /\ n \in Nat
    BY SetToSeqIsSequence, FS_CardinalityType
<1> HIDE DEF f
<1>2. \A i, j \in 1..n : f[i] = f[j] => i = j
    BY <1>1 DEF IsInjective
<1>3. f \in Injection(1..n, S)
    BY <1>1 DEF Injection
<1>4. Cardinality(1..n) = n
  <2>1. Cardinality(1..n) = IF 1 > n THEN 0 ELSE n - 1 + 1
      BY <1>1, FS_Interval
  <2> QED
      BY <1>1, <2>1
<1>5. f \in Surjection(1..n, S)
    BY <1>3, <1>4, FS_Injection
<1>6. \A x \in S : \E i \in 1..n : f[i] = x
    BY <1>5 DEF Surjection
<1> QED
    BY <1>1, <1>2, <1>6 DEF f

(* The options listed, once each.                                          *)
LEMMA ListedOptions ==
    ASSUME ConfigInv, NEW list, list = SetToSeq(Listed)
    PROVE  /\ IsSequence(list) /\ Len(list) \in Nat
           /\ \A i \in 1..Len(list) : list[i] \in Listed /\ list[i] \in 1..Len(option)
           /\ \A i, j \in 1..Len(list) : list[i] = list[j] => i = j
           /\ \A o \in Listed : \E i \in 1..Len(list) : list[i] = o
<1>1. PICK S : S = Listed
    OBVIOUS
<1>2. S \subseteq 1..Len(option)
    BY <1>1, ListedAreOptions
<1>3. IsFiniteSet(S)
  <2>1. Len(option) \in Int /\ 1 \in Int
      BY OptionsFit
  <2>2. IsFiniteSet(1..Len(option))
      BY <2>1, FS_Interval
  <2> QED
      BY <1>2, <2>2, FS_Subset
<1>4. PICK n : n = Cardinality(S)
    OBVIOUS
<1>5. /\ IsSequence(list) /\ Len(list) = n /\ n \in Nat
      /\ \A i \in 1..n : list[i] \in S
      /\ \A i, j \in 1..n : list[i] = list[j] => i = j
      /\ \A o \in S : \E i \in 1..n : list[i] = o
    BY <1>1, <1>3, <1>4, SetToSeqIsSequence, EachListedOnce
<1> QED
    BY <1>1, <1>2, <1>5

(* write_config_file().                                                    *)
LEMMA WriteConfigFileKeeps ==
    ASSUME ConfigInv, NEW shorter \in BOOLEAN, WriteConfigFile(shorter)
    PROVE  ConfigInv'
<1> DEFINE list == SetToSeq(Listed)
           n == Len(list)
<1>1. /\ UNCHANGED objects /\ args' = args /\ mode' = mode
      /\ mode = "idle" /\ age' = "written"
      /\ file' = [i \in 1..n |-> Text(list[i], shorter)]
    BY DEF WriteConfigFile, Idle
<1>2. mode' \in Modes /\ age' \in Ages /\ Ended'
    BY <1>1 DEF Modes, Ages, Ended
<1>3. n \in Nat /\ \A i \in 1..n : list[i] \in 1..Len(option)
    BY ListedOptions
<1> HIDE DEF list, n
<1>4. \A i \in 1..n : IsSequence(Text(list[i], shorter))
    BY <1>3, TextIsSequence
<1>5. IsSequence(file') /\ Len(file') = n
  <2>1. file' = [i \in 1..n |-> file'[i]]
      BY <1>1
  <2> QED
      BY <1>3, <2>1, DomainIsSequence
<1>6. AreSequences(file')
    BY <1>1, <1>4, <1>5 DEF AreSequences
<1>7. Texts'
    BY <1>1, <1>6 DEF ConfigInv, Texts
<1> QED
    BY <1>1, <1>2, <1>7, SameObjects DEF ConfigInv

(* The next run of the program.                                            *)
LEMMA RestartKeeps ==
    ASSUME ConfigInv, Restart
    PROVE  ConfigInv'
<1>1. /\ UNCHANGED <<group, members, groups, cmdmap, args, mode, file>>
      /\ age' = "started"
    BY DEF Restart
<1>2. Texts' /\ Ended' /\ mode' \in Modes /\ age' \in Ages
    BY <1>1, ModeAndAge DEF ConfigInv, Texts, Ended, Ages
<1> QED
    BY <1>1, <1>2, RestartFits, SameCommands

(* Steps of somebody else.                                                 *)
LEMMA StutterKeeps ==
    ASSUME ConfigInv, UNCHANGED vars
    PROVE  ConfigInv'
<1>1. UNCHANGED objects /\ UNCHANGED <<args, mode, file, age>>
    BY DEF vars, life
<1>2. Texts' /\ Ended' /\ mode' \in Modes /\ age' \in Ages
    BY <1>1, ModeAndAge DEF ConfigInv, Texts, Ended
<1> QED
    BY <1>1, <1>2, SameObjects DEF ConfigInv

(* No step breaks the invariant.                                           *)
LEMMA NextConfigInv == ConfigInv /\ [Next]_vars => ConfigInv'
<1> SUFFICES ASSUME ConfigInv, [Next]_vars PROVE ConfigInv'
    OBVIOUS
<1>1. ASSUME NEW name \in GroupName, NewGroup(name) PROVE ConfigInv'
    BY <1>1, NewGroupKeeps
<1>2. ASSUME NEW g \in 1..Len(group), NEW d \in Declaration, NewOption(g, d) PROVE ConfigInv'
    BY <1>2, NewOptionKeeps
<1>3. ASSUME NEW o \in 1..Len(option), NEW v \in Value[option[o].type],
             SetOption(o, v) \/ SetDefault(o, v)
      PROVE  ConfigInv'
    BY <1>3, SetKeeps
<1>4. ASSUME NEW a \in CmdLine, ParseCmdline(a) PROVE ConfigInv'
    BY <1>4, ParseCmdlineKeeps
<1>5. ASSUME NEW f \in HandWritten \cup {file}, ParseConfigFile(f) PROVE ConfigInv'
    BY <1>5, ParseConfigFileKeeps
<1>6. CASE Parse
    BY <1>6, ParseKeeps
<1>7. CASE EndParse \/ Catch
    BY <1>7, EndKeeps
<1>8. ASSUME NEW shorter \in BOOLEAN, WriteConfigFile(shorter) PROVE ConfigInv'
    BY <1>8, WriteConfigFileKeeps
<1>9. CASE Restart
    BY <1>9, RestartKeeps
<1>10. CASE UNCHANGED vars
    BY <1>10, StutterKeeps
<1> QED
    BY <1>1, <1>2, <1>3, <1>4, <1>5, <1>6, <1>7, <1>8, <1>9, <1>10 DEF Next

-----------------------------------------------------------------------------
(* The invariant holds, whatever is declared, assigned, typed or read: in  *)
(* particular, whatever a string is read as is a value of the option's     *)
(* type, and every pointer that the flags let get() and verbose_data()     *)
(* follow is there.                                                        *)
THEOREM ConfigInvariant == Spec => []ConfigInv
<1>1. Init => ConfigInv
    BY InitConfigInv
<1>2. ConfigInv /\ [Next]_vars => ConfigInv'
    BY NextConfigInv
<1> QED
    BY <1>1, <1>2, PTL DEF Spec

(* Options have values of their types, parents and groups exist.           *)
THEOREM TypeCorrect == Spec => []TypeOK
<1>1. ConfigInv => TypeOK
    BY DEF ConfigInv
<1> QED
    BY <1>1, ConfigInvariant, PTL

(* Every command parse() accepts leads to an option of the manager, that   *)
(* its parent knows by the same id and that has that command, also when    *)
(* ids are declared in two groups and groups are replaced.                 *)
THEOREM CommandsCorrect == Spec => []CommandsResolve
<1>1. ConfigInv => CommandsResolve
    BY DEF ConfigInv
<1> QED
    BY <1>1, ConfigInvariant, PTL

(* No option that is set or has a default is without a value.              *)
THEOREM FlagsCorrect == Spec => []FlagsMeanData
<1>1. ConfigInv => FlagsMeanData
    BY DEF ConfigInv
<1> QED
    BY <1>1, ConfigInvariant, PTL

(* new_option() takes a command over from no other id: the short command   *)
(* must be free, and a long one in use is that of the same id.             *)
LEMMA CommandsStay ==
    ASSUME ConfigInv, [Next]_vars
    PROVE  \A c \in DOMAIN cmdmap : c \in DOMAIN cmdmap' /\ cmdmap'[c] = cmdmap[c]
<1>1. CASE cmdmap' = cmdmap
    BY <1>1
<1>2. ASSUME NEW g \in 1..Len(group), NEW d \in Declaration, NewOption(g, d)
      PROVE  \A c \in DOMAIN cmdmap : c \in DOMAIN cmdmap' /\ cmdmap'[c] = cmdmap[c]
  <2>1. cmdmap' = WithCommands(d) /\ ShortCmd(d.short) \notin DOMAIN cmdmap
      BY <1>2 DEF NewOption, ShortIsFree
  <2>2. ASSUME NEW c \in DOMAIN cmdmap
        PROVE  c \in DOMAIN cmdmap' /\ cmdmap'[c] = cmdmap[c]
    <3>1. c \in DOMAIN cmdmap'
        BY <2>1, DeclaredCommands
    <3>2. cmdmap'[c] = cmdmap[c] \/ (c = LongCmd(d.id) /\ cmdmap'[c] = d.id)
        BY <2>1, DeclaredCommands
    <3>3. c = LongCmd(d.id) => cmdmap[c] = d.id
        BY CommandsDiffer DEF ConfigInv, LongNames
    <3> QED
        BY <3>1, <3>2, <3>3
  <2> QED
      BY <2>2
<1>3. \/ \E g \in 1..Len(group), d \in Declaration : NewOption(g, d)
      \/ cmdmap' = cmdmap
    BY DEF Next, NewGroup, SetOption, SetDefault, ParseCmdline, ParseConfigFile,
           Parse, EndParse, Catch, WriteConfigFile, Restart, vars, objects
<1> QED
    BY <1>1, <1>2, <1>3

(* A command keeps its meaning.                                            *)
THEOREM CommandsAreKept == Spec => CommandsAreStable
<1>1. ConfigInv /\ [Next]_vars =>
         [\A c \in DOMAIN cmdmap : c \in DOMAIN cmdmap' /\ cmdmap'[c] = cmdmap[c]]_vars
    BY CommandsStay
<1> QED
    BY <1>1, ConfigInvariant, PTL DEF Spec, CommandsAreStable

(* One call of parse().                                                    *)
OneCall ==
    mode \in {"cmdline", "file"} /\ args # <<>> =>
       IF mode' = mode
       THEN /\ Len(args') < Len(args)
            /\ \A o \in 1..Len(option) :
                  option'[o] # option[o] => members[cmdmap[args[1]]] = o
       ELSE option' = option /\ args' = args

(* A step with arguments left is a call of parse().                        *)
LEMMA OnlyParseThen ==
    ASSUME Next, mode \in {"cmdline", "file"}, args # <<>>
    PROVE  Parse \/ (age = "written" /\ Restart)
<1>1. mode # "idle" /\ mode # "thrown"
    OBVIOUS
<1> QED
    BY <1>1 DEF Next, Idle, NewGroup, NewOption, SetOption, SetDefault, ParseCmdline,
                ParseConfigFile, EndParse, Catch, WriteConfigFile, Restart

(* parse() takes the option named and one or two arguments, or nothing.    *)
LEMMA ParseIsOneCall ==
    ASSUME ConfigInv, [Next]_vars, ~ UNCHANGED vars
    PROVE  OneCall
<1> SUFFICES ASSUME mode \in {"cmdline", "file"}, args # <<>>
             PROVE  IF mode' = mode
                    THEN /\ Len(args') < Len(args)
                         /\ \A o \in 1..Len(option) :
                               option'[o] # option[o] => Named = o
                    ELSE option' = option /\ args' = args
    BY DEF OneCall, Named
<1>1. age # "written"
    BY ModeAndAge
<1>2. Parse
    BY <1>1, OnlyParseThen
<1>3. \/ Named \in 1..Len(option) /\ Given(Named)
      \/ Refused
    BY <1>2, ParseOutcome
<1>4. CASE Refused
    BY <1>4 DEF Refused
<1>5. CASE Named \in 1..Len(option) /\ Given(Named)
  <2> DEFINE o == Named
  <2> HIDE DEF o
  <2>1. PICK v, n : /\ IsValue(option[o].type, v) /\ option' = Assigned(o, v)
                    /\ n \in 1..2 /\ n <= Len(args)
                    /\ args' = SubSeq(args, n + 1, Len(args))
      BY <1>5 DEF Given, o
  <2>2. mode' = mode
      BY <1>5 DEF Given
  <2>3. Len(args') < Len(args)
    <3> DEFINE k == Len(args)
    <3>1. k \in Nat /\ n \in Int /\ n >= 1 /\ n <= k
        BY <2>1, ArgumentsAre
    <3> HIDE DEF k
    <3>2. Len(SubSeq(args, n + 1, k)) = IF n + 1 <= k THEN k - (n + 1) + 1 ELSE 0
      <4>1. n + 1 \in Int /\ k \in Int
          BY <3>1
      <4> QED
          BY <4>1, SubSeqIsSequence
    <3>3. Len(SubSeq(args, n + 1, k)) < k
        BY <3>1, <3>2
    <3> QED
        BY <2>1, <3>3 DEF k
  <2>4. ASSUME NEW i \in 1..Len(option), i # o
        PROVE  option'[i] = option[i]
      BY <2>1, <2>4, OptionsFit DEF Assigned
  <2> QED
      BY <2>2, <2>3, <2>4 DEF o
<1> QED
    BY <1>3, <1>4, <1>5

(* parse() takes everything or nothing.                                    *)
THEOREM ParseCorrect == Spec => ParseIsAllOrNothing
<1>1. ConfigInv /\ [Next]_vars => [OneCall]_vars
    BY ParseIsOneCall
<1>2. Spec => [][OneCall]_vars
    BY <1>1, ConfigInvariant, PTL DEF Spec
<1>3. [][OneCall]_vars => ParseIsAllOrNothing
    BY PTL DEF OneCall, ParseIsAllOrNothing
<1> QED
    BY <1>2, <1>3

-----------------------------------------------------------------------------
(* A config file that is written and read: first the strings in it.        *)

-----------------------------------------------------------------------------
(* What was written is read back.                                          *)

(* A separator that is not among the atoms of a string cuts nothing.       *)
LEMMA NoAtomOf ==
    ASSUME NEW s, NEW c, c \notin Atoms(s)
    PROVE  ~ Occurs(c, s)
BY DEF Atoms, Occurs

(* Text without separators.                                                *)
LEMMA PlainStrings ==
    ASSUME NEW s, Plain(s)
    PROVE  ~ Occurs("=", s) /\ ~ Occurs(",", s) /\ ~ Occurs(":", s)
BY DEF Plain, Atoms, Occurs

Lacks(s, c, d) == IsSequence(s) /\ ~ Occurs(c, s) /\ ~ Occurs(d, s)

(* s lacks d, and c cuts it into k and x.                                  *)
IsItem(s, c, d, k, x) ==
    /\ IsSequence(s) /\ ~ Occurs(d, s)
    /\ Len(Split(s, c)) = 2 /\ Split(s, c)[1] = k /\ Split(s, c)[2] = x

(* An item of a map: its key, c, its value.                                *)
LEMMA ItemParts ==
    ASSUME NEW c, NEW d, c # d, NEW k, Lacks(k, c, d), NEW x, Lacks(x, c, d)
    PROVE  IsItem(k \o <<c>> \o x, c, d, k, x)
<1> DEFINE s == k \o <<c>> \o x
           p == Len(k) + 1
           t == k \o <<c>>
<1>0. /\ IsSequence(k) /\ ~ Occurs(c, k) /\ ~ Occurs(d, k)
      /\ IsSequence(x) /\ ~ Occurs(c, x) /\ ~ Occurs(d, x)
    BY DEF Lacks
<1>1. Len(k) \in Nat /\ Len(x) \in Nat
    BY <1>0, SequenceLen
<1>2. IsSequence(<<c>>) /\ Len(<<c>>) = 1 /\ <<c>>[1] = c
    BY TuplesAreSequences
<1>3. /\ IsSequence(t) /\ Len(t) = Len(k) + 1
      /\ \A i \in 1..Len(k) + 1 :
            t[i] = IF i <= Len(k) THEN k[i] ELSE <<c>>[i - Len(k)]
    BY <1>0, <1>2, ConcatIsSequence
<1>4. s = t \o x
    OBVIOUS
<1> HIDE DEF t
<1>5. /\ IsSequence(t \o x) /\ Len(t \o x) = Len(t) + Len(x)
      /\ \A i \in 1..Len(t) + Len(x) :
            (t \o x)[i] = IF i <= Len(t) THEN t[i] ELSE x[i - Len(t)]
    BY <1>0, <1>3, ConcatIsSequence
<1> HIDE DEF s
<1>6. /\ IsSequence(s) /\ Len(s) = Len(k) + 1 + Len(x)
      /\ \A i \in 1..Len(k) + 1 + Len(x) :
            s[i] = IF i <= Len(k) + 1 THEN t[i] ELSE x[i - (Len(k) + 1)]
    BY <1>3, <1>4, <1>5
<1>7. \A i \in 1..Len(k) : s[i] = k[i]
  <2>1. \A i \in 1..Len(k) : i \in 1..Len(k) + 1 + Len(x) /\ i <= Len(k) + 1 /\ i \in 1..Len(k) + 1
      BY <1>1
  <2> QED
      BY <1>3, <1>6, <2>1
<1>8. s[Len(k) + 1] = c
  <2>1. Len(k) + 1 \in 1..Len(k) + 1 + Len(x) /\ Len(k) + 1 \in 1..Len(k) + 1
      BY <1>1
  <2>2. s[Len(k) + 1] = t[Len(k) + 1]
      BY <1>1, <1>6, <2>1
  <2>3. ~ (Len(k) + 1 <= Len(k)) /\ (Len(k) + 1) - Len(k) = 1
      BY <1>1
  <2> QED
      BY <1>2, <1>3, <2>1, <2>2, <2>3
<1>9. ASSUME NEW i \in 1..Len(x)
      PROVE  s[Len(k) + 1 + i] = x[i]
  <2>1. /\ Len(k) + 1 + i \in 1..Len(k) + 1 + Len(x) /\ ~ (Len(k) + 1 + i <= Len(k) + 1)
        /\ (Len(k) + 1 + i) - (Len(k) + 1) = i
      BY <1>1
  <2> QED
      BY <1>6, <2>1
<1>10. ASSUME NEW i \in 1..Len(s)
       PROVE  \/ i \in 1..Len(k) /\ s[i] = k[i]
              \/ i = Len(k) + 1
              \/ i - (Len(k) + 1) \in 1..Len(x) /\ s[i] = x[i - (Len(k) + 1)]
  <2>1. i \in 1..Len(k) \/ i = Len(k) + 1 \/ i - (Len(k) + 1) \in 1..Len(x)
      BY <1>1, <1>6
  <2>2. ASSUME i - (Len(k) + 1) \in 1..Len(x)
        PROVE  s[i] = x[i - (Len(k) + 1)]
    <3>1. Len(k) + 1 + (i - (Len(k) + 1)) = i
        BY <1>1
    <3> QED
        BY <1>9, <2>2, <3>1
  <2> QED
      BY <1>7, <2>1, <2>2
<1>11. p \in 1..Len(s)
    BY <1>1, <1>6
<1>12. \A i \in 1..Len(s) : s[i] = c <=> i = p
    BY <1>0, <1>8, <1>10 DEF Occurs
<1>13. ~ Occurs(d, s)
    BY <1>0, <1>8, <1>10 DEF Occurs
<1> HIDE DEF p
<1>14. /\ Len(Split(s, c)) = 2
       /\ Split(s, c)[1] = SubSeq(s, 1, p - 1)
       /\ Split(s, c)[2] = SubSeq(s, p + 1, Len(s))
    BY <1>6, <1>11, <1>12, SplitInTwo
<1>15. p = Len(k) + 1 /\ p - 1 = Len(k) /\ Len(k) \in Int /\ Len(x) \in Int
    BY <1>1 DEF p
<1>16. SubSeq(s, 1, p - 1) = k
  <2>1. /\ IsSequence(SubSeq(s, 1, Len(k)))
        /\ Len(SubSeq(s, 1, Len(k))) = IF 1 <= Len(k) THEN Len(k) - 1 + 1 ELSE 0
        /\ \A i \in 1..Len(k) - 1 + 1 : SubSeq(s, 1, Len(k))[i] = s[1 + i - 1]
    <3>1. 1 \in Int
        OBVIOUS
    <3> QED
        BY <1>15, <3>1, SubSeqIsSequence
  <2>2. Len(SubSeq(s, 1, Len(k))) = Len(k)
      BY <1>1, <2>1
  <2>3. \A i \in 1..Len(k) : SubSeq(s, 1, Len(k))[i] = k[i]
    <3>1. \A i \in 1..Len(k) : i \in 1..Len(k) - 1 + 1 /\ 1 + i - 1 = i
        BY <1>1
    <3> QED
        BY <1>7, <2>1, <3>1
  <2> QED
      BY <1>0, <1>15, <2>1, <2>2, <2>3, SameString
<1>17. SubSeq(s, p + 1, Len(s)) = x
  <2> DEFINE a == p + 1
             b == Len(s)
  <2>1. a \in Int /\ b \in Int /\ b - a + 1 = Len(x)
      BY <1>1, <1>6, <1>15
  <2>2. \A i \in 1..Len(x) : a + i - 1 = Len(k) + 1 + i
      BY <1>1, <1>15
  <2>3. a <= b <=> Len(x) # 0
      BY <1>1, <1>6, <1>15
  <2> HIDE DEF a, b
  <2>4. /\ IsSequence(SubSeq(s, a, b))
        /\ Len(SubSeq(s, a, b)) = IF a <= b THEN b - a + 1 ELSE 0
        /\ \A i \in 1..b - a + 1 : SubSeq(s, a, b)[i] = s[a + i - 1]
      BY <2>1, SubSeqIsSequence
  <2>5. Len(SubSeq(s, a, b)) = Len(x)
      BY <2>1, <2>3, <2>4
  <2>6. \A i \in 1..Len(x) : SubSeq(s, a, b)[i] = x[i]
      BY <1>9, <2>1, <2>2, <2>4
  <2> QED
      BY <1>0, <2>4, <2>5, <2>6, SameString DEF a, b
<1> QED
    BY <1>6, <1>13, <1>14, <1>16, <1>17 DEF s, IsItem

(* A function on nothing is the empty sequence.                            *)
LEMMA EmptyFunction ==
    ASSUME NEW v, v = [k \in DOMAIN v |-> v[k]], DOMAIN v = {}
    PROVE  v = <<>>
<1>1. <<>> = [k \in {} |-> v[k]]
    OBVIOUS
<1> QED
    BY <1>1

(* Numbers have texts.                                                     *)
LEMMA TextsOfNumbers ==
    ASSUME NEW v
    PROVE  /\ v \in Range(Whole) => /\ IntegerText(v) \in DOMAIN Whole
                                    /\ Whole[IntegerText(v)] = v
           /\ v \in Range(Worth) => /\ RealText(v) \in DOMAIN Worth
                                    /\ Worth[RealText(v)] = SixDigits(v)
<1>1. ASSUME v \in Range(Whole)
      PROVE  IntegerText(v) \in DOMAIN Whole /\ Whole[IntegerText(v)] = v
  <2>1. PICK m \in DOMAIN Whole : v = Whole[m]
      BY <1>1 DEF Range
  <2>2. \E n \in DOMAIN Whole : Whole[n] = v /\ Worth[n] = v * One
      BY <2>1, ConfigAssumption
  <2> QED
      BY <2>2 DEF IntegerText
<1>2. ASSUME v \in Range(Worth)
      PROVE  RealText(v) \in DOMAIN Worth /\ Worth[RealText(v)] = SixDigits(v)
  <2>1. SixDigits(v) \in Range(Worth)
      BY <1>2, ConfigAssumption
  <2>2. \E n \in DOMAIN Worth : Worth[n] = SixDigits(v)
      BY <2>1 DEF Range
  <2> QED
      BY <2>2 DEF RealText
<1> QED
    BY <1>1, <1>2

(* The first place of a string of one atom that is none of B.              *)
LEMMA FirstPlace ==
    ASSUME NEW n, NEW B, n \notin B, NEW s, s = <<n>>,
           NEW places, places = {i \in 1..Len(s) : s[i] \notin B}
    PROVE  places # {} /\ s[Min(places)] = n
<1>1. Len(s) = 1 /\ s[1] = n
    BY TuplesAreSequences
<1>2. places \subseteq 1..1 /\ places # {} /\ 1 \in Int
    BY <1>1
<1>3. Min(places) \in places
    BY <1>2, MinAndMax
<1>4. Min(places) = 1
    BY <1>2, <1>3
<1> QED
    BY <1>1, <1>2, <1>4

(* What begins a string of one atom.                                       *)
LEMMA LeadingAtom ==
    ASSUME NEW n
    PROVE  n # " " /\ n # Newline => Leading(<<n>>) = n
<1>1. PICK B : B = {" ", Newline}
    OBVIOUS
<1>2. PICK s, places : s = <<n>> /\ places = {i \in 1..Len(s) : s[i] \notin B}
    OBVIOUS
<1>3. n \notin B => places # {} /\ s[Min(places)] = n
    BY <1>2, FirstPlace
<1>4. Leading(s) = IF places = {} THEN "" ELSE s[Min(places)]
    BY <1>1, <1>2, Zenon DEF Leading
<1>5. n # " " /\ n # Newline => n \notin B
    BY <1>1, Zenon
<1> QED
    BY <1>2, <1>3, <1>4, <1>5, Zenon

(* A number is read as it was shown: a double with six digits of it.       *)
LEMMA NumberAgain ==
    ASSUME NEW type \in {"integer", "real"}, NEW v, IsValue(type, v), Writable(type, v)
    PROVE  IsNumber(type, Show(type, v)) /\ Read(type, Show(type, v)) = Kept(type, v)
<1>1. PICK n : n = IF type = "integer" THEN IntegerText(v) ELSE RealText(v)
    OBVIOUS
<1>2. Show(type, v) = <<n>>
    BY <1>1 DEF Show
<1>3. n \in DOMAIN Numbers(type) /\ Numbers(type)[n] = Kept(type, v)
    BY <1>1, ValueOf, TextsOfNumbers DEF Numbers, Kept
<1>4. n # " " /\ n # Newline
  <2>1. PICK s : s = <<n>>
      OBVIOUS
  <2>2. Len(s) = 1 /\ s[1] = n /\ s # <<>> /\ 1 \in 1..1
      BY <2>1, TuplesAreSequences
  <2>3. Atoms(s) \cap {"=", Newline} = {} /\ s[1] # " "
      BY <1>2, <2>1, <2>2 DEF Writable
  <2>4. n \in Atoms(s)
      BY <2>2 DEF Atoms
  <2> QED
      BY <2>2, <2>3, <2>4
<1>5. Leading(<<n>>) = n
    BY <1>4, LeadingAtom
<1>6. Read(type, <<n>>) = Numbers(type)[Leading(<<n>>)]
    BY DEF Read
<1>7. IsNumber(type, <<n>>)
    BY <1>3, <1>5 DEF IsNumber
<1> QED
    BY <1>2, <1>3, <1>5, <1>6, <1>7

(* A list is taken apart as it was joined.                                 *)
LEMMA ListAgain ==
    ASSUME NEW v, AreSequences(v), Writable("list", v)
    PROVE  Read("list", Show("list", v)) = v
<1>1. Show("list", v) = Join(v, ",") /\ Read("list", Join(v, ",")) = Split(Join(v, ","), ",")
    BY DEF Show, Read
<1>2. v # <<>> /\ \A i \in 1..Len(v) : Plain(v[i])
    BY DEF Writable
<1>3. Len(v) # 0
  <2>1. IsSequence(v)
      BY DEF AreSequences
  <2>2. Len(v) \in Nat /\ \E S : v \in Seq(S)
      BY <2>1, SequenceLen
  <2> QED
      BY <1>2, <2>2
<1>4. \A i \in 1..Len(v) : ~ Occurs(",", v[i])
    BY <1>2, PlainStrings
<1>5. Split(Join(v, ","), ",") = v
    BY <1>3, <1>4, SplitOfJoin
<1> QED
    BY <1>1, <1>5

(* The items of a map, each with its ":", are what its pairs are.          *)
LEMMA MapAgain ==
    ASSUME NEW v, IsValue("map", v), Writable("map", v)
    PROVE  /\ Read("map", Show("map", v)) = v
           /\ \A i \in 1..Len(Pairs(Show("map", v))) : Len(Pairs(Show("map", v))[i]) = 2
<1> DEFINE S == DOMAIN v
           n == Cardinality(S)
           keys == SetToSeq(S)
           list == [i \in 1..Len(keys) |-> keys[i] \o <<":">> \o v[keys[i]]]
           s == Join(list, ",")
           pairs == Pairs(s)
           second(p) == IF Len(p) > 1 THEN p[2] ELSE <<>>
           at(k) == {i \in 1..n : pairs[i][1] = k}
<1>1. Show("map", v) = s
    BY DEF Show
<1>2. /\ v = [k \in S |-> v[k]] /\ IsFiniteSet(S)
      /\ \A k \in S : IsSequence(k) /\ IsSequence(v[k])
    BY ValueOf
<1>3. v # <<>> /\ \A k \in S : Plain(k) /\ Plain(v[k])
    BY DEF Writable
<1>4. S # {}
    BY <1>2, <1>3, EmptyFunction
<1>5. /\ n \in Nat /\ Len(keys) = n /\ keys \in [1..n -> S]
      /\ \A x \in S : \E i \in 1..n : keys[i] = x
      /\ \A i, j \in 1..n : keys[i] = keys[j] => i = j
    BY <1>2, EachListedOnce, SetToSeqIsSequence
<1>6. n # 0
    BY <1>4, <1>5
<1> HIDE DEF keys, S, n
<1>7. list = [i \in 1..n |-> keys[i] \o <<":">> \o v[keys[i]]]
    BY <1>5
<1>8. ASSUME NEW i \in 1..n
      PROVE  /\ IsSequence(list[i]) /\ ~ Occurs(",", list[i])
             /\ Len(Split(list[i], ":")) = 2
             /\ Split(list[i], ":")[1] = keys[i] /\ Split(list[i], ":")[2] = v[keys[i]]
  <2> DEFINE k == keys[i]
             x == v[k]
  <2>1. k \in S /\ IsSequence(k) /\ IsSequence(x) /\ Plain(k) /\ Plain(x)
      BY <1>2, <1>3, <1>5
  <2>2. list[i] = k \o <<":">> \o x
      BY <1>7
  <2> HIDE DEF k, x, list
  <2>3. ~ Occurs(",", k) /\ ~ Occurs(":", k) /\ ~ Occurs(",", x) /\ ~ Occurs(":", x)
      BY <2>1, PlainStrings
  <2>4. ":" # ","
      OBVIOUS
  <2>5. Lacks(k, ":", ",") /\ Lacks(x, ":", ",")
      BY <2>1, <2>3 DEF Lacks
  <2>6. IsItem(k \o <<":">> \o x, ":", ",", k, x)
      BY <2>4, <2>5, ItemParts
  <2> QED
      BY <2>2, <2>6 DEF IsItem, k, x
<1>9. IsSequence(list) /\ Len(list) = n
  <2>1. list = [i \in 1..n |-> list[i]]
      BY <1>7
  <2> HIDE DEF list
  <2> QED
      BY <1>5, <2>1, DomainIsSequence
<1> HIDE DEF list
<1>10. Split(s, ",") = list
  <2>1. AreSequences(list)
      BY <1>8, <1>9 DEF AreSequences
  <2>2. \A i \in 1..Len(list) : ~ Occurs(",", list[i])
      BY <1>8, <1>9
  <2>3. Len(list) # 0
      BY <1>6, <1>9
  <2> QED
      BY <2>1, <2>2, <2>3, SplitOfJoin
<1> HIDE DEF s
<1>11. pairs = [i \in 1..n |-> Split(list[i], ":")]
    BY <1>9, <1>10 DEF Pairs
<1>12. Len(pairs) = n
  <2>1. pairs = [i \in 1..n |-> pairs[i]]
      BY <1>11
  <2> HIDE DEF pairs
  <2> QED
      BY <1>5, <2>1, DomainIsSequence
<1>13. ASSUME NEW i \in 1..n
       PROVE  Len(pairs[i]) = 2 /\ pairs[i][1] = keys[i] /\ pairs[i][2] = v[keys[i]]
  <2>1. pairs[i] = Split(list[i], ":")
      BY <1>11
  <2> QED
      BY <1>8, <2>1
<1>14. ToMap(s) = [k \in {pairs[i][1] : i \in 1..n} |-> second(pairs[Max(at(k))])]
    BY <1>12 DEF ToMap
<1> HIDE DEF pairs
<1>15. {pairs[i][1] : i \in 1..n} = S
    BY <1>5, <1>13
<1>16. ASSUME NEW k \in S
       PROVE  second(pairs[Max(at(k))]) = v[k]
  <2>1. PICK i \in 1..n : keys[i] = k
      BY <1>5
  <2>2. at(k) = {i}
      BY <1>5, <1>13, <2>1
  <2>3. Max(at(k)) = i
    <3>1. 1 \in Int /\ n \in Int /\ {i} \subseteq 1..n /\ {i} # {}
        BY <1>5
    <3>2. Max({i}) \in {i}
        BY <3>1, MinAndMax, Zenon
    <3> QED
        BY <2>2, <3>2
  <2> QED
      BY <1>13, <2>1, <2>3
<1> HIDE DEF at, second
<1>17. ToMap(s) = [k \in S |-> second(pairs[Max(at(k))])]
    BY <1>14, <1>15
<1>18. ToMap(s) = [k \in S |-> v[k]]
    BY <1>16, <1>17
<1>19. Read("map", s) = ToMap(s)
    BY DEF Read
<1>20. Read("map", s) = v
    BY <1>2, <1>18, <1>19
<1>21. \A i \in 1..Len(pairs) : Len(pairs[i]) = 2
    BY <1>12, <1>13
<1> QED
    BY <1>1, <1>20, <1>21 DEF pairs

(* What a line, of an id, "=" and s between blanks b, is taken apart into. *)
ReadsAs(raw, b, q, id, s) ==
    LET line == Strip(raw, b)
        sides == Split(line, q)
    IN  /\ ~ StripThrows(raw, b) /\ line # <<>> /\ line[1] = id /\ Occurs(q, line)
        /\ Strip(sides[1], b) = <<id>> /\ ~ StripThrows(sides[1], b)
        /\ Strip(sides[2], b) = s /\ ~ StripThrows(sides[2], b)

(* The line without blanks at its ends.                                    *)
IsLine(line, b, q, id, s) ==
    /\ IsSequence(line) /\ line[1] = id /\ line[2] = b /\ line[3] = q
    /\ Len(line) = IF Len(s) = 0 THEN 3 ELSE Len(s) + 4
    /\ Len(s) # 0 => line[4] = b /\ \A i \in 1..Len(s) : line[i + 4] = s[i]

(* A value that neither the line nor its stripping takes apart.            *)
PlainValue(s, b, q) ==
    IsSequence(s) /\ ~ Occurs(q, s) /\ (Len(s) # 0 => s[1] # b /\ s[Len(s)] # b)

(* A written line without the blanks at its ends.                          *)
LEMMA StrippedLine ==
    ASSUME NEW b, NEW q, b # q, NEW id, id # b, id # q, NEW s, PlainValue(s, b, q)
    PROVE  /\ IsLine(Strip(<<id, b, q, b>> \o s, b), b, q, id, s)
           /\ ~ StripThrows(<<id, b, q, b>> \o s, b)
<1> DEFINE h == <<id, b, q, b>>
           raw == h \o s
           m == Len(s)
<1>1. IsSequence(s) /\ (m # 0 => s[1] # b /\ s[m] # b) /\ m \in Nat
    BY SequenceLen DEF PlainValue
<1>2. IsSequence(h) /\ Len(h) = 4 /\ h[1] = id /\ h[2] = b /\ h[3] = q /\ h[4] = b
    BY TuplesAreSequences
<1> HIDE DEF h
<1>3. /\ IsSequence(raw) /\ Len(raw) = 4 + m
      /\ \A i \in 1..4 + m : raw[i] = IF i <= 4 THEN h[i] ELSE s[i - 4]
  <2>1. /\ IsSequence(h \o s) /\ Len(h \o s) = Len(h) + Len(s)
        /\ \A i \in 1..Len(h) + Len(s) :
              (h \o s)[i] = IF i <= Len(h) THEN h[i] ELSE s[i - Len(h)]
      BY <1>1, <1>2, ConcatIsSequence
  <2> QED
      BY <1>2, <2>1
<1> HIDE DEF raw, m
<1>4. raw[1] = id /\ raw[2] = b /\ raw[3] = q /\ raw[4] = b
  <2>1. /\ 1 \in 1..4 + m /\ 2 \in 1..4 + m /\ 3 \in 1..4 + m /\ 4 \in 1..4 + m
        /\ 1 <= 4 /\ 2 <= 4 /\ 3 <= 4 /\ 4 <= 4
      BY <1>1
  <2> QED
      BY <1>2, <1>3, <2>1
<1>5. ASSUME NEW i \in 1..m
      PROVE  raw[i + 4] = s[i]
  <2>1. i + 4 \in 1..4 + m /\ ~ (i + 4 <= 4) /\ (i + 4) - 4 = i
      BY <1>1
  <2> QED
      BY <1>3, <2>1
<1>6. CASE m = 0
  <2>1. Len(raw) = 4 /\ 1 \in 1..Len(raw) /\ 3 \in 1..Len(raw)
      BY <1>3, <1>6
  <2>2. \A i \in 1..Len(raw) : raw[i] # b => 1 <= i /\ i <= 3
    <3>1. \A i \in 1..4 : i = 4 \/ (1 <= i /\ i <= 3)
        OBVIOUS
    <3> QED
        BY <1>4, <2>1, <3>1
  <2>3. raw[1] # b /\ raw[3] # b
      BY <1>4
  <2>4. Strip(raw, b) = SubSeq(raw, 1, 3) /\ ~ StripThrows(raw, b)
      BY <1>3, <2>1, <2>2, <2>3, StripTo
  <2>5. /\ IsSequence(SubSeq(raw, 1, 3))
        /\ Len(SubSeq(raw, 1, 3)) = IF 1 <= 3 THEN 3 - 1 + 1 ELSE 0
        /\ \A i \in 1..3 - 1 + 1 : SubSeq(raw, 1, 3)[i] = raw[1 + i - 1]
    <3>1. 1 \in Int /\ 3 \in Int
        OBVIOUS
    <3> QED
        BY <3>1, SubSeqIsSequence
  <2>6. /\ 1 \in 1..3 - 1 + 1 /\ 2 \in 1..3 - 1 + 1 /\ 3 \in 1..3 - 1 + 1
        /\ 1 + 1 - 1 = 1 /\ 1 + 2 - 1 = 2 /\ 1 + 3 - 1 = 3
        /\ (IF 1 <= 3 THEN 3 - 1 + 1 ELSE 0) = 3
      OBVIOUS
  <2>7. /\ Len(SubSeq(raw, 1, 3)) = 3 /\ SubSeq(raw, 1, 3)[1] = id
        /\ SubSeq(raw, 1, 3)[2] = b /\ SubSeq(raw, 1, 3)[3] = q
      BY <1>4, <2>5, <2>6
  <2>8. IsLine(Strip(raw, b), b, q, id, s)
      BY <1>6, <2>4, <2>5, <2>7 DEF IsLine, m
  <2> QED
      BY <2>4, <2>8 DEF raw, h
<1>7. CASE m # 0
  <2>1. m \in 1..m /\ m + 4 = 4 + m
      BY <1>1, <1>7
  <2>2. Len(raw) # 0 /\ raw[1] # b /\ raw[Len(raw)] # b
    <3>1. raw[m + 4] = s[m]
        BY <1>5, <2>1
    <3>2. Len(raw) # 0
        BY <1>1, <1>3
    <3> QED
        BY <1>1, <1>3, <1>4, <1>7, <2>1, <3>1, <3>2
  <2>3. Strip(raw, b) = raw /\ ~ StripThrows(raw, b)
      BY <1>3, <2>2, StripNothing
  <2>4. IsLine(raw, b, q, id, s)
      BY <1>3, <1>4, <1>5, <1>7, <2>1 DEF IsLine, m
  <2> QED
      BY <2>3, <2>4 DEF raw, h
<1> QED
    BY <1>6, <1>7

(* Its sides.                                                              *)
LEMMA LeftSide ==
    ASSUME NEW b, NEW id, id # b, NEW line, IsSequence(line), Len(line) >= 3,
           line[1] = id, line[2] = b
    PROVE  Strip(SubSeq(line, 1, 2), b) = <<id>> /\ ~ StripThrows(SubSeq(line, 1, 2), b)
<1> DEFINE t == SubSeq(line, 1, 2)
<1>1. IsSequence(t) /\ Len(t) = 2 /\ t[1] = id /\ t[2] = b
  <2>1. /\ IsSequence(t) /\ Len(t) = IF 1 <= 2 THEN 2 - 1 + 1 ELSE 0
        /\ \A i \in 1..2 - 1 + 1 : t[i] = line[1 + i - 1]
    <3>1. 1 \in Int /\ 2 \in Int
        OBVIOUS
    <3> QED
        BY <3>1, SubSeqIsSequence
  <2>2. /\ 1 \in 1..2 - 1 + 1 /\ 2 \in 1..2 - 1 + 1 /\ 1 + 1 - 1 = 1 /\ 1 + 2 - 1 = 2
        /\ (IF 1 <= 2 THEN 2 - 1 + 1 ELSE 0) = 2
      OBVIOUS
  <2> HIDE DEF t
  <2> QED
      BY <2>1, <2>2
<1> HIDE DEF t
<1>2. 1 \in 1..Len(t) /\ \A i \in 1..Len(t) : t[i] # b => 1 <= i /\ i <= 1
  <2>1. \A i \in 1..2 : i = 1 \/ i = 2
      OBVIOUS
  <2> QED
      BY <1>1, <2>1
<1>3. Strip(t, b) = SubSeq(t, 1, 1) /\ ~ StripThrows(t, b)
    BY <1>1, <1>2, StripTo
<1>4. SubSeq(t, 1, 1) = <<id>>
  <2>1. /\ IsSequence(SubSeq(t, 1, 1)) /\ Len(SubSeq(t, 1, 1)) = IF 1 <= 1 THEN 1 - 1 + 1 ELSE 0
        /\ \A i \in 1..1 - 1 + 1 : SubSeq(t, 1, 1)[i] = t[1 + i - 1]
    <3>1. 1 \in Int
        OBVIOUS
    <3> QED
        BY <3>1, SubSeqIsSequence
  <2>2. /\ 1 \in 1..1 - 1 + 1 /\ 1 + 1 - 1 = 1 /\ \A i \in 1..1 : i = 1
        /\ (IF 1 <= 1 THEN 1 - 1 + 1 ELSE 0) = 1
      OBVIOUS
  <2>3. IsSequence(<<id>>) /\ Len(<<id>>) = 1 /\ <<id>>[1] = id
      BY TuplesAreSequences
  <2>4. SubSeq(t, 1, 1)[1] = id /\ Len(SubSeq(t, 1, 1)) = 1
      BY <1>1, <2>1, <2>2
  <2>5. \A i \in 1..Len(SubSeq(t, 1, 1)) : SubSeq(t, 1, 1)[i] = <<id>>[i]
      BY <2>2, <2>3, <2>4
  <2> QED
      BY <2>1, <2>3, <2>4, <2>5, SameString
<1> QED
    BY <1>3, <1>4 DEF t

(* What is right of the separator, stripped, is the value.                 *)
LEMMA RightSide ==
    ASSUME NEW b, NEW q, NEW id, NEW s, PlainValue(s, b, q), NEW line, IsLine(line, b, q, id, s)
    PROVE  /\ Strip(SubSeq(line, 4, Len(line)), b) = s
           /\ ~ StripThrows(SubSeq(line, 4, Len(line)), b)
<1> DEFINE m == Len(s)
           n == Len(line)
           t == SubSeq(line, 4, n)
<1>1. IsSequence(s) /\ (m # 0 => s[1] # b /\ s[m] # b) /\ m \in Nat
    BY SequenceLen DEF PlainValue
<1>2. /\ n = IF m = 0 THEN 3 ELSE m + 4
      /\ m # 0 => line[4] = b /\ \A i \in 1..m : line[i + 4] = s[i]
    BY DEF IsLine
<1> HIDE DEF m, n
<1>3. 4 \in Int /\ n \in Int
    BY <1>1, <1>2
<1>4. /\ IsSequence(t) /\ Len(t) = IF 4 <= n THEN n - 4 + 1 ELSE 0
      /\ \A i \in 1..n - 4 + 1 : t[i] = line[4 + i - 1]
    BY <1>3, SubSeqIsSequence
<1> HIDE DEF t
<1>5. CASE m = 0
  <2>1. Len(t) = 0 /\ Len(s) = 0
      BY <1>2, <1>4, <1>5 DEF m
  <2>2. Strip(t, b) = t /\ ~ StripThrows(t, b)
      BY <1>4, <2>1, StripNothing
  <2>3. t = s
      BY <1>1, <1>4, <2>1, SameString
  <2> QED
      BY <2>2, <2>3 DEF t, n
<1>6. CASE m # 0
  <2>1. Len(t) = m + 1
      BY <1>1, <1>2, <1>4, <1>6
  <2>2. t[1] = b
    <3>1. 1 \in 1..n - 4 + 1 /\ 4 + 1 - 1 = 4
        BY <1>1, <1>2, <1>6
    <3> QED
        BY <1>2, <1>4, <1>6, <3>1
  <2>3. ASSUME NEW i \in 1..m
        PROVE  t[i + 1] = s[i]
    <3>1. i + 1 \in 1..n - 4 + 1 /\ 4 + (i + 1) - 1 = i + 4
        BY <1>1, <1>2, <1>6
    <3>2. t[i + 1] = line[4 + (i + 1) - 1]
        BY <1>4, <3>1
    <3> QED
        BY <1>2, <1>6, <3>1, <3>2
  <2>4. /\ 1 \in 1..m /\ m \in 1..m /\ 1 + 1 = 2 /\ 2 \in 1..m + 1 /\ m + 1 \in 1..m + 1
        /\ \A i \in 1..m + 1 : i = 1 \/ (2 <= i /\ i <= m + 1)
      BY <1>1, <1>6
  <2>5. t[2] # b /\ t[m + 1] # b
      BY <1>1, <1>6, <2>3, <2>4
  <2>6. \A i \in 1..Len(t) : t[i] # b => 2 <= i /\ i <= m + 1
      BY <2>1, <2>2, <2>4
  <2>7. 2 \in 1..Len(t) /\ m + 1 \in 1..Len(t)
      BY <2>1, <2>4
  <2>8. Strip(t, b) = SubSeq(t, 2, m + 1) /\ ~ StripThrows(t, b)
      BY <1>4, <2>5, <2>6, <2>7, StripTo
  <2>9. SubSeq(t, 2, m + 1) = s
    <3> DEFINE r == SubSeq(t, 2, m + 1)
    <3>1. 2 \in Int /\ m + 1 \in Int
        BY <1>1
    <3>2. /\ IsSequence(r) /\ Len(r) = IF 2 <= m + 1 THEN (m + 1) - 2 + 1 ELSE 0
          /\ \A i \in 1..(m + 1) - 2 + 1 : r[i] = t[2 + i - 1]
        BY <3>1, SubSeqIsSequence
    <3> HIDE DEF r
    <3>3. Len(r) = m
        BY <1>1, <1>6, <3>2
    <3>4. ASSUME NEW i \in 1..m
          PROVE  r[i] = s[i]
      <4>1. i \in 1..(m + 1) - 2 + 1 /\ 2 + i - 1 = i + 1
          BY <1>1
      <4> QED
          BY <2>3, <3>2, <4>1
    <3>5. Len(s) = m
        BY DEF m
    <3> QED
        BY <1>1, <3>2, <3>3, <3>4, <3>5, SameString DEF r
  <2> QED
      BY <2>8, <2>9 DEF t, n
<1> QED
    BY <1>5, <1>6

(* The line taken apart.                                                   *)
LEMMA LineParts ==
    ASSUME NEW b, NEW q, b # q, NEW id, id # b, id # q, NEW s, PlainValue(s, b, q)
    PROVE  ReadsAs(<<id, b, q, b>> \o s, b, q, id, s)
<1> DEFINE raw == <<id, b, q, b>> \o s
           line == Strip(raw, b)
           sides == Split(line, q)
           m == Len(s)
<1>1. IsLine(line, b, q, id, s) /\ ~ StripThrows(raw, b)
    BY StrippedLine
<1>2. IsSequence(s) /\ m \in Nat /\ ~ Occurs(q, s)
    BY SequenceLen DEF PlainValue
<1> HIDE DEF line
<1>3. /\ IsSequence(line) /\ line[1] = id /\ line[2] = b /\ line[3] = q
      /\ Len(line) = IF m = 0 THEN 3 ELSE m + 4
      /\ m # 0 => line[4] = b /\ \A i \in 1..m : line[i + 4] = s[i]
    BY <1>1 DEF IsLine
<1> HIDE DEF m
<1>4. Len(line) \in Nat /\ Len(line) >= 3 /\ 3 \in 1..Len(line)
    BY <1>2, <1>3
<1>5. ASSUME NEW i \in 1..Len(line), i # 3
      PROVE  line[i] # q
  <2>1. i = 1 \/ i = 2 \/ (m # 0 /\ i = 4) \/ (m # 0 /\ i - 4 \in 1..m)
      BY <1>2, <1>3, <1>5
  <2>2. ASSUME m # 0, i - 4 \in 1..m
        PROVE  line[i] # q
    <3>1. (i - 4) + 4 = i
        OBVIOUS
    <3>2. line[i] = s[i - 4]
        BY <1>3, <2>2, <3>1
    <3> QED
        BY <1>2, <2>2, <3>2 DEF Occurs, m
  <2> QED
      BY <1>3, <2>1, <2>2
<1>6. \A i \in 1..Len(line) : line[i] = q <=> i = 3
    BY <1>3, <1>5
<1>7. /\ sides[1] = SubSeq(line, 1, 3 - 1) /\ sides[2] = SubSeq(line, 3 + 1, Len(line))
  <2>1. /\ Split(line, q)[1] = SubSeq(line, 1, 3 - 1)
        /\ Split(line, q)[2] = SubSeq(line, 3 + 1, Len(line))
    <3>1. PICK p \in 1..Len(line) : p = 3
        BY <1>4
    <3>2. \A i \in 1..Len(line) : line[i] = q <=> i = p
        BY <1>6, <3>1
    <3>3. IsSequence(line)
        BY <1>3
    <3>4. /\ Split(line, q)[1] = SubSeq(line, 1, p - 1)
          /\ Split(line, q)[2] = SubSeq(line, p + 1, Len(line))
        BY <3>2, <3>3, SplitInTwo
    <3> QED
        BY <3>1, <3>4
  <2> QED
      BY <2>1
<1>8. sides[1] = SubSeq(line, 1, 2) /\ sides[2] = SubSeq(line, 4, Len(line))
  <2>1. 3 - 1 = 2 /\ 3 + 1 = 4
      OBVIOUS
  <2> QED
      BY <1>7, <2>1
<1> HIDE DEF sides
<1>9. Strip(sides[1], b) = <<id>> /\ ~ StripThrows(sides[1], b)
  <2>1. /\ Strip(SubSeq(line, 1, 2), b) = <<id>>
        /\ ~ StripThrows(SubSeq(line, 1, 2), b)
      BY <1>3, <1>4, LeftSide
  <2> QED
      BY <1>8, <2>1
<1>10. Strip(sides[2], b) = s /\ ~ StripThrows(sides[2], b)
    BY <1>1, <1>8, RightSide
<1>11. line # <<>> /\ Occurs(q, line)
    BY <1>3, <1>4 DEF Occurs
<1> QED
    BY <1>1, <1>3, <1>9, <1>10, <1>11 DEF ReadsAs, line, sides

(* Two strings of one atom.                                                *)
LEMMA OnePlusOne ==
    ASSUME NEW a, NEW c
    PROVE  <<a>> \o <<c>> = <<a, c>>
<1>1. /\ IsSequence(<<a>>) /\ Len(<<a>>) = 1 /\ <<a>>[1] = a
      /\ IsSequence(<<c>>) /\ Len(<<c>>) = 1 /\ <<c>>[1] = c
      /\ IsSequence(<<a, c>>) /\ Len(<<a, c>>) = 2 /\ <<a, c>>[1] = a /\ <<a, c>>[2] = c
    BY TuplesAreSequences
<1> DEFINE s == <<a>>
           t == <<c>>
           u == <<a, c>>
           st == s \o t
<1> HIDE DEF s, t, u
<1>2. /\ IsSequence(s) /\ Len(s) = 1 /\ s[1] = a
      /\ IsSequence(t) /\ Len(t) = 1 /\ t[1] = c
      /\ IsSequence(u) /\ Len(u) = 2 /\ u[1] = a /\ u[2] = c
    BY <1>1 DEF s, t, u
<1>3. /\ IsSequence(st) /\ Len(st) = Len(s) + Len(t)
      /\ \A i \in 1..Len(s) + Len(t) : st[i] = IF i <= Len(s) THEN s[i] ELSE t[i - Len(s)]
    BY <1>2, ConcatIsSequence
<1> HIDE DEF st
<1>4. 1 + 1 = 2 /\ 2 - 1 = 1 /\ 1 <= 1 /\ ~ (2 <= 1) /\ 1 \in 1..2 /\ 2 \in 1..2
    OBVIOUS
<1>5. Len(st) = 2 /\ st[1] = a /\ st[2] = c
    BY <1>2, <1>3, <1>4
<1>6. \A i \in 1..2 : i = 1 \/ i = 2
    OBVIOUS
<1>7. st = u
    BY <1>2, <1>3, <1>5, <1>6, SameString
<1> QED
    BY <1>7 DEF st, s, t, u

(* A line of the file is read as the command of its option and its value.  *)
LEMMA LineAgain ==
    ASSUME NEW id, id \notin {" ", "=", "#"}, NEW s, IsSequence(s), "=" \notin Atoms(s),
           s # <<>> => s[1] # " " /\ s[Len(s)] # " "
    PROVE  /\ ~ LineThrows(<<id, " ", "=", " ">> \o s)
           /\ LineTokens(<<id, " ", "=", " ">> \o s) = <<LongCmd(id), s>>
<1> DEFINE raw == <<id, " ", "=", " ">> \o s
           line == Strip(raw, " ")
           sides == Split(line, "=")
<1>1. PlainValue(s, " ", "=")
  <2>1. Len(s) # 0 => s # <<>>
      BY TuplesAreSequences
  <2>2. ~ Occurs("=", s)
      BY NoAtomOf
  <2> QED
      BY <2>1, <2>2 DEF PlainValue
<1>2. " " # "=" /\ id # " " /\ id # "=" /\ id # "#"
    OBVIOUS
<1>3. ReadsAs(raw, " ", "=", id, s)
    BY <1>1, <1>2, LineParts
<1> HIDE DEF raw
<1>4. /\ ~ StripThrows(raw, " ") /\ line # <<>> /\ line[1] = id /\ Occurs("=", line)
      /\ Strip(sides[1], " ") = <<id>> /\ ~ StripThrows(sides[1], " ")
      /\ Strip(sides[2], " ") = s /\ ~ StripThrows(sides[2], " ")
    BY <1>3 DEF ReadsAs
<1>5. ~ LineThrows(raw)
  <2>1. \A i \in {1, 2} : ~ StripThrows(sides[i], " ")
      BY <1>4
  <2> QED
      BY <1>4, <2>1 DEF LineThrows
<1>6. LineTokens(raw) = << <<"--">> \o Strip(sides[1], " "), Strip(sides[2], " ") >>
    BY <1>2, <1>4 DEF LineTokens
<1>7. <<"--">> \o <<id>> = LongCmd(id)
    BY OnePlusOne DEF LongCmd
<1> QED
    BY <1>4, <1>5, <1>6, <1>7 DEF raw

(* Pairs one after another.                                                *)
LEMMA PairsFlattened ==
    ASSUME NEW seqs, IsSequence(seqs), NEW n, n = Len(seqs),
           \A i \in 1..n : IsSequence(seqs[i]) /\ Len(seqs[i]) = 2
    PROVE  /\ Len(FlattenSeq(seqs)) = 2 * n
           /\ \A i \in 1..n : /\ FlattenSeq(seqs)[2 * i - 1] = seqs[i][1]
                              /\ FlattenSeq(seqs)[2 * i] = seqs[i][2]
<1> DEFINE s == FlattenSeq(seqs)
<1>1. AreSequences(seqs) /\ n \in Nat
    BY SequenceLen DEF AreSequences
<1>2. PICK e : PlacesOf(e, seqs, s)
    BY <1>1, FlattenPlaces
<1> HIDE DEF s
<1>3. /\ e[0] = 0 /\ e[n] = Len(s)
      /\ \A k \in 1..n : e[k] = e[k - 1] + 2
      /\ \A k \in 1..n : \A i \in 1..2 : s[e[k - 1] + i] = seqs[k][i]
    BY <1>2 DEF PlacesOf
<1>4. \A k \in Nat : k <= n => e[k] = 2 * k
  <2> DEFINE T == {k \in Nat : k <= n => e[k] = 2 * k}
  <2>1. 0 \in T
      BY <1>3
  <2>2. ASSUME NEW k \in Nat, k \in T
        PROVE  k + 1 \in T
    <3>1. ASSUME k + 1 <= n
          PROVE  e[k + 1] = 2 * (k + 1)
      <4>1. k + 1 \in 1..n /\ (k + 1) - 1 = k /\ e[k] = 2 * k
          BY <1>1, <2>2, <3>1
      <4>2. e[k + 1] = e[k] + 2
          BY <1>3, <4>1
      <4> QED
          BY <4>1, <4>2
    <3> QED
        BY <3>1
  <2> HIDE DEF T
  <2>3. Nat \subseteq T
      BY <2>1, <2>2, Induction
  <2> QED
      BY <2>3 DEF T
<1>5. Len(s) = 2 * n
    BY <1>1, <1>3, <1>4
<1>6. ASSUME NEW i \in 1..n
      PROVE  s[2 * i - 1] = seqs[i][1] /\ s[2 * i] = seqs[i][2]
  <2>1. i - 1 \in Nat /\ i - 1 <= n
      BY <1>1
  <2>2. e[i - 1] = 2 * (i - 1)
      BY <1>4, <2>1
  <2>3. e[i - 1] + 1 = 2 * i - 1 /\ e[i - 1] + 2 = 2 * i
      BY <2>2
  <2>4. s[e[i - 1] + 1] = seqs[i][1] /\ s[e[i - 1] + 2] = seqs[i][2]
      BY <1>3
  <2> QED
      BY <2>3, <2>4
<1> QED
    BY <1>5, <1>6 DEF s

(* A flag is read as it was shown.                                         *)
LEMMA FlagAgain ==
    ASSUME NEW v \in BOOLEAN
    PROVE  Show("bool", v) \in {<<"true">>, <<"false">>} /\ v = (Show("bool", v) = <<"true">>)
<1>1. Show("bool", v) = <<IF v THEN "true" ELSE "false">>
    BY DEF Show
<1>2. <<"true">>[1] = "true" /\ <<"false">>[1] = "false" /\ "true" # "false"
    OBVIOUS
<1>3. <<"true">> # <<"false">>
    BY <1>2
<1>4. CASE v
  <2>1. Show("bool", v) = <<"true">>
      BY <1>1, <1>4
  <2> QED
      BY <1>4, <2>1
<1>5. CASE ~ v
  <2>1. Show("bool", v) = <<"false">>
      BY <1>1, <1>5
  <2> QED
      BY <1>3, <1>5, <2>1
<1> QED
    BY <1>4, <1>5

(* So is any other value that the file format can hold.                    *)
LEMMA ValueAgain ==
    ASSUME NEW type \in Types, type # "bool", NEW v, IsValue(type, v), Writable(type, v)
    PROVE  /\ Read(type, Show(type, v)) = Kept(type, v)
           /\ type \in {"integer", "real"} => IsNumber(type, Show(type, v))
           /\ type = "map" => \A i \in 1..Len(Pairs(Show(type, v))) :
                                 Len(Pairs(Show(type, v))[i]) # 1
<1>1. CASE type \in {"integer", "real"}
    BY <1>1, NumberAgain
<1>2. ASSUME type \notin {"integer", "real"}
      PROVE  Kept(type, v) = v
    BY <1>2 DEF Kept
<1>3. CASE type = "string"
  <2>1. Show("string", v) = v /\ Read("string", v) = v
      BY DEF Show, Read
  <2> QED
      BY <1>2, <1>3, <2>1
<1>4. CASE type = "list"
    BY <1>2, <1>4, ValueOf, ListAgain
<1>5. CASE type = "map"
  <2>1. /\ Read("map", Show("map", v)) = v
        /\ \A i \in 1..Len(Pairs(Show("map", v))) : Len(Pairs(Show("map", v))[i]) = 2
      BY <1>5, MapAgain
  <2>2. 2 # 1
      OBVIOUS
  <2> QED
      BY <1>2, <1>5, <2>1, <2>2
<1> QED
    BY <1>1, <1>3, <1>4, <1>5 DEF Types

(* What does not begin with c begins with the same when it is stripped.    *)
LEMMA StripFront ==
    ASSUME NEW s, IsSequence(s), Len(s) # 0, NEW c, s[1] # c
    PROVE  Strip(s, c) # <<>> /\ Strip(s, c)[1] = s[1] /\ ~ StripThrows(s, c)
<1> DEFINE other == {i \in 1..Len(s) : s[i] # c}
<1>1. Len(s) \in Nat /\ 1 \in 1..Len(s) /\ 1 \in Int /\ Len(s) \in Int
    BY SequenceLen
<1>2. other \subseteq 1..Len(s) /\ 1 \in other
    BY <1>1
<1>3. PICK b : b = Max(other)
    OBVIOUS
<1>4. b \in other /\ \A i \in other : i <= b
  <2> HIDE DEF other
  <2> QED
      BY <1>1, <1>2, <1>3, MinAndMax
<1>5. b \in 1..Len(s) /\ s[b] # c /\ b \in Int /\ b >= 1
    BY <1>1, <1>4
<1>6. \A i \in 1..Len(s) : s[i] # c => 1 <= i /\ i <= b
    BY <1>4
<1>7. Strip(s, c) = SubSeq(s, 1, b) /\ ~ StripThrows(s, c)
    BY <1>1, <1>5, <1>6, StripTo
<1>8. /\ IsSequence(SubSeq(s, 1, b)) /\ Len(SubSeq(s, 1, b)) = b - 1 + 1
      /\ SubSeq(s, 1, b)[1] = s[1]
  <2>1. /\ IsSequence(SubSeq(s, 1, b))
        /\ Len(SubSeq(s, 1, b)) = IF 1 <= b THEN b - 1 + 1 ELSE 0
        /\ \A i \in 1..b - 1 + 1 : SubSeq(s, 1, b)[i] = s[1 + i - 1]
      BY <1>1, <1>5, SubSeqIsSequence
  <2>2. 1 \in 1..b - 1 + 1 /\ 1 + 1 - 1 = 1
      BY <1>5
  <2> QED
      BY <1>5, <2>1, <2>2
<1>9. Len(SubSeq(s, 1, b)) # 0
    BY <1>5, <1>8
<1>10. SubSeq(s, 1, b) # <<>>
    BY <1>9, TuplesAreSequences
<1> QED
    BY <1>7, <1>8, <1>10

(* What is in neither of two strings is not in both together.              *)
LEMMA NoneInBoth ==
    ASSUME NEW s, IsSequence(s), NEW t, IsSequence(t), NEW c, ~ Occurs(c, s), ~ Occurs(c, t)
    PROVE  ~ Occurs(c, s \o t)
<1> DEFINE m == Len(s)
           n == Len(t)
<1>1. /\ IsSequence(s \o t) /\ Len(s \o t) = m + n
      /\ \A i \in 1..m + n : (s \o t)[i] = IF i <= m THEN s[i] ELSE t[i - m]
    BY ConcatIsSequence
<1>2. m \in Nat /\ n \in Nat
    BY SequenceLen
<1>3. \A i \in 1..m : s[i] # c
    BY DEF Occurs
<1>4. \A i \in 1..n : t[i] # c
    BY DEF Occurs
<1> HIDE DEF m, n
<1>5. ASSUME NEW i \in 1..m + n
      PROVE  (s \o t)[i] # c
  <2>1. CASE i <= m
    <3>1. i \in 1..m
        BY <1>2, <2>1
    <3> QED
        BY <1>1, <1>3, <2>1, <3>1
  <2>2. CASE ~ (i <= m)
    <3>1. i - m \in 1..n
        BY <1>2, <2>2
    <3> QED
        BY <1>1, <1>4, <2>2, <3>1
  <2> QED
      BY <2>1, <2>2
<1> QED
    BY <1>1, <1>5 DEF Occurs

(* Of one list, or of two the first of which is empty, nothing is left but *)
(* the last.                                                               *)
LEMMA FlattenLast ==
    ASSUME NEW lists, AreSequences(lists), NEW n \in {1, 2}, Len(lists) = n,
           n = 2 => Len(lists[1]) = 0
    PROVE  FlattenSeq(lists) = lists[n]
<1> DEFINE s == FlattenSeq(lists)
           t == lists[n]
<1>1. PICK e : PlacesOf(e, lists, s)
    BY FlattenPlaces
<1>2. IsSequence(s) /\ IsSequence(t)
    BY FlattenIsSequence, ListedStrings
<1>3. /\ e[0] = 0 /\ e[n] = Len(s)
      /\ \A k \in 1..n : e[k] = e[k - 1] + Len(lists[k])
      /\ \A k \in 1..n : \A i \in 1..Len(lists[k]) : s[e[k - 1] + i] = lists[k][i]
    BY <1>1 DEF PlacesOf
<1>4. Len(t) \in Nat /\ n \in 1..n /\ 1 \in 1..n /\ 1 - 1 = 0 /\ 2 - 1 = 1
    BY <1>2, SequenceLen
<1>5. e[n - 1] = 0
  <2>1. n = 2 => e[1] = e[0] + 0
      BY <1>3, <1>4
  <2> QED
      BY <1>3, <1>4, <2>1
<1>6. Len(s) = 0 + Len(t) /\ \A i \in 1..Len(t) : s[0 + i] = t[i]
    BY <1>3, <1>4, <1>5
<1> HIDE DEF s, t
<1>7. Len(s) = Len(t) /\ \A i \in 1..Len(s) : s[i] = t[i]
    BY <1>4, <1>6
<1>8. s = t
    BY <1>2, <1>7, SameString
<1> QED
    BY <1>8 DEF s, t

(* A comment that is one line.                                             *)
Commented(r) == IsSequence(r) /\ Len(r) # 0 /\ r[1] = "#" /\ ~ Occurs(Newline, r)

(* A line by itself or under a comment.                                    *)
IsTextOf(text, line, r) == text = Join(<<line>>, Newline) \/ text = Join(<<r, line>>, Newline)

(* A comment yields nothing.                                               *)
LEMMA CommentAgain ==
    ASSUME NEW r, Commented(r)
    PROVE  LineTokens(r) = <<>> /\ ~ LineThrows(r)
<1>1. \A c : r[1] # c => Strip(r, c) # <<>> /\ Strip(r, c)[1] = r[1] /\ ~ StripThrows(r, c)
    BY StripFront DEF Commented
<1>2. r[1] = "#" /\ "#" # " "
    BY DEF Commented
<1>3. Strip(r, " ")[1] = "#" /\ ~ StripThrows(r, " ")
    BY <1>1, <1>2
<1> QED
    BY <1>3 DEF LineTokens, LineThrows

(* A line is read as it was written, under a comment or not.               *)
LEMMA TextAgain ==
    ASSUME NEW line, IsSequence(line), ~ Occurs(Newline, line), ~ LineThrows(line),
           NEW r, Commented(r), NEW text, IsTextOf(text, line, r)
    PROVE  TextTokens(text) = LineTokens(line) /\ ~ TextThrows(text)
<1>1. PICK parts : (parts = <<line>> \/ parts = <<r, line>>) /\ text = Join(parts, Newline)
    BY DEF IsTextOf
<1>2. PICK n : n = Len(parts)
    OBVIOUS
<1>3. IsSequence(r) /\ ~ Occurs(Newline, r)
    BY DEF Commented
<1>4. AreSequences(parts) /\ n \in {1, 2} /\ parts[n] = line /\ (n = 2 => parts[1] = r)
  <2>1. CASE parts = <<line>>
    <3>1. AreSequences(<<line>>) /\ Len(<<line>>) = 1 /\ <<line>>[1] = line
        BY <1>3, ShortLists, TuplesAreSequences
    <3> QED
        BY <1>2, <2>1, <3>1
  <2>2. CASE parts = <<r, line>>
    <3>1. AreSequences(<<r, line>>) /\ Len(<<r, line>>) = 2
        BY <1>3, ShortLists, TuplesAreSequences
    <3>2. <<r, line>>[1] = r /\ <<r, line>>[2] = line
        OBVIOUS
    <3> QED
        BY <1>2, <2>2, <3>1, <3>2
  <2> QED
      BY <1>1, <2>1, <2>2
<1>5. Len(parts) # 0 /\ \A k \in 1..n : parts[k] = line \/ parts[k] = r
    BY <1>2, <1>4
<1>6. \A k \in 1..Len(parts) : ~ Occurs(Newline, parts[k])
    BY <1>2, <1>3, <1>5
<1>7. Split(text, Newline) = parts
    BY <1>1, <1>4, <1>5, <1>6, SplitOfJoin
<1>8. PICK lists : lists = [k \in 1..n |-> LineTokens(parts[k])]
    OBVIOUS
<1>9. TextTokens(text) = FlattenSeq(lists)
    BY <1>2, <1>7, <1>8 DEF TextTokens
<1>10. \A k \in 1..n : AreSequences(lists[k])
  <2>1. \A k \in 1..n : IsSequence(parts[k])
      BY <1>3, <1>5
  <2> QED
      BY <1>8, <2>1, TokensAreStrings
<1>11. n \in Nat /\ lists = [k \in 1..n |-> lists[k]]
    BY <1>4, <1>8
<1>12. AreSequences(lists) /\ Len(lists) = n
    BY <1>10, <1>11, ListsFlattened
<1>13. n = 2 => Len(lists[1]) = 0
  <2>1. ASSUME n = 2 PROVE lists[1] = <<>>
    <3>1. 1 \in 1..n
        BY <2>1
    <3> QED
        BY <1>4, <1>8, <2>1, <3>1, CommentAgain
  <2> QED
      BY <2>1, TuplesAreSequences
<1>14. FlattenSeq(lists) = lists[n]
    BY <1>4, <1>12, <1>13, FlattenLast
<1>15. lists[n] = LineTokens(line)
    BY <1>4, <1>8
<1>16. ~ TextThrows(text)
  <2>1. \A k \in 1..n : ~ LineThrows(parts[k])
      BY <1>5, CommentAgain
  <2> QED
      BY <1>2, <1>7, <2>1 DEF TextThrows
<1> QED
    BY <1>9, <1>14, <1>15, <1>16

-----------------------------------------------------------------------------
(* Then the steps.                                                         *)

(* A ConfigDataKeeper's pointer is null or leads to one value.             *)
Boxed(p) == p = Null \/ p = Ptr(p[1])
Boxes == \A o \in 1..Len(option) : Boxed(option[o].data) /\ Boxed(option[o].default)

(* The two ways to make a pointer.                                         *)
LEMMA PtrIsBoxed == Boxed(Null) /\ \A v : Boxed(Ptr(v))
BY PtrIsNotNull DEF Boxed

(* Changing one option to p.                                               *)
LEMMA OneChanged ==
    ASSUME ConfigInv, Boxes, NEW o \in 1..Len(option), NEW p, option' = [option EXCEPT ![o] = p],
           Boxed(p.data), Boxed(p.default)
    PROVE  Boxes'
<1>1. Len(option') = Len(option)
    BY ExceptIsSequence DEF ConfigInv, Shapes
<1>2. ASSUME NEW i \in 1..Len(option)
      PROVE  Boxed(option'[i].data) /\ Boxed(option'[i].default)
  <2>1. option'[i] = IF i = o THEN p ELSE option[i]
      BY OptionsFit
  <2> QED
      BY <2>1 DEF Boxes
<1> QED
    BY <1>1, <1>2 DEF Boxes

(* set(), whoever calls it.                                                *)
LEMMA AssignedObject ==
    ASSUME ConfigInv, NEW o \in 1..Len(option), NEW v, option' = Assigned(o, v)
    PROVE  /\ option' = [option EXCEPT ![o] = option'[o]]
           /\ option'[o].data = Ptr(v) /\ option'[o].was_set = TRUE
           /\ option'[o].default = option[o].default
           /\ option'[o].has_default = option[o].has_default
           /\ SameOption(option'[o], option[o])
           /\ \A i \in 1..Len(option) : i # o => option'[i] = option[i]
<1> DEFINE p == [option[o] EXCEPT !.data = Ptr(v), !.was_set = TRUE]
<1>1. DOMAIN option[o] = Fields /\ DOMAIN option = 1..Len(option)
    BY OptionsFit DEF OptionFits
<1>2. option' = [option EXCEPT ![o] = p]
    BY <1>1 DEF Assigned, Fields
<1>3. p.data = Ptr(v) /\ p.was_set = TRUE /\ p.default = option[o].default
      /\ p.has_default = option[o].has_default /\ SameOption(p, option[o])
    BY <1>1 DEF Fields, SameOption
<1> HIDE DEF p
<1>4. option'[o] = p /\ \A i \in 1..Len(option) : i # o => option'[i] = option[i]
    BY <1>1, <1>2
<1> QED
    BY <1>2, <1>3, <1>4

(* Assigning a value keeps pointers to one value.                          *)
LEMMA SetBoxes ==
    ASSUME ConfigInv, Boxes, NEW o \in 1..Len(option), NEW v, option' = Assigned(o, v)
    PROVE  Boxes'
<1>1. PICK p : p = option'[o]
    OBVIOUS
<1>2. option' = [option EXCEPT ![o] = p] /\ p.data = Ptr(v) /\ p.default = option[o].default
    BY <1>1, AssignedObject
<1>3. Boxed(p.data) /\ Boxed(p.default)
    BY <1>2, PtrIsBoxed DEF Boxes
<1> QED
    BY <1>2, <1>3, OneChanged

(* No option, no pointer.                                                  *)
LEMMA InitBoxes == Init => Boxes
<1>1. ASSUME option = <<>> PROVE 1..Len(option) = {}
    BY <1>1, TuplesAreSequences
<1> QED
    BY <1>1 DEF Init, Boxes

(* No step makes a pointer to anything but one value.                      *)
LEMMA NextBoxes == ConfigInv /\ Boxes /\ [Next]_vars => Boxes'
<1> SUFFICES ASSUME ConfigInv, Boxes, [Next]_vars PROVE Boxes'
    OBVIOUS
<1>1. CASE UNCHANGED option
    BY <1>1 DEF Boxes
<1>2. ASSUME NEW g \in 1..Len(group), NEW d \in Declaration, NewOption(g, d)
      PROVE  Boxes'
  <2> DEFINE n == Len(option)
  <2>1. /\ Len(option') = n + 1
        /\ option'[n + 1] = NewObject(d, g)
        /\ \A i \in 1..n : option'[i] = option[i]
      BY <1>2, DeclaredObjects
  <2>2. n \in Nat
      BY OptionsFit
  <2>3. Boxed(NewObject(d, g).data) /\ Boxed(NewObject(d, g).default)
      BY PtrIsBoxed DEF NewObject
  <2>4. ASSUME NEW i \in 1..n + 1
        PROVE  Boxed(option'[i].data) /\ Boxed(option'[i].default)
    <3>1. i = n + 1 \/ i \in 1..n
        BY <2>2
    <3> QED
        BY <2>1, <2>3, <3>1 DEF Boxes
  <2> QED
      BY <2>1, <2>4 DEF Boxes
<1>3. ASSUME NEW o \in 1..Len(option), NEW v, SetOption(o, v)
      PROVE  Boxes'
    BY <1>3, SetBoxes DEF SetOption
<1>4. ASSUME NEW o \in 1..Len(option), NEW v, SetDefault(o, v)
      PROVE  Boxes'
  <2>1. PICK p : p = [option[o] EXCEPT !.has_default = TRUE, !.data = Ptr(v),
                                       !.default = Ptr(v), !.was_set = FALSE]
      OBVIOUS
  <2>2. DOMAIN option[o] = Fields
      BY OptionsFit DEF OptionFits
  <2>3. p.data = Ptr(v) /\ p.default = Ptr(v)
      BY <2>1, <2>2 DEF Fields
  <2>4. option' = [option EXCEPT ![o] = p]
      BY <1>4, <2>1 DEF SetDefault
  <2>5. Boxed(p.data) /\ Boxed(p.default)
      BY <2>3, PtrIsBoxed
  <2> QED
      BY <2>4, <2>5, OneChanged
<1>5. CASE Parse
  <2>1. \/ Named \in 1..Len(option) /\ Given(Named)
        \/ option' = option
      BY <1>5, ParseOutcome DEF Refused
  <2>2. ASSUME NEW o \in 1..Len(option), Given(o)
        PROVE  Boxes'
      BY <2>2, SetBoxes DEF Given
  <2> QED
      BY <1>1, <2>1, <2>2
<1>6. CASE Restart
  <2>1. Len(option') = Len(option)
      BY <1>6, RestartFits
  <2>2. option' = [o \in 1..Len(option) |->
                     [option[o] EXCEPT !.was_set = FALSE, !.data = option[o].default]]
      BY <1>6 DEF Restart
  <2>3. ASSUME NEW i \in 1..Len(option)
        PROVE  Boxed(option'[i].data) /\ Boxed(option'[i].default)
    <3>1. DOMAIN option[i] = Fields
        BY OptionsFit DEF OptionFits
    <3>2. option'[i].data = option[i].default /\ option'[i].default = option[i].default
        BY <2>2, <3>1 DEF Fields
    <3> QED
        BY <3>2 DEF Boxes
  <2> QED
      BY <2>1, <2>3 DEF Boxes
<1>7. \/ UNCHANGED option \/ Parse \/ Restart
      \/ \E g \in 1..Len(group), d \in Declaration : NewOption(g, d)
      \/ \E o \in 1..Len(option) : \E v \in Value[option[o].type] :
            SetOption(o, v) \/ SetDefault(o, v)
    BY DEF Next, NewGroup, ParseCmdline, ParseConfigFile, EndParse, Catch,
           WriteConfigFile, vars, objects
<1> QED
    BY <1>1, <1>2, <1>3, <1>4, <1>5, <1>6, <1>7

(* The settings remembered are values of the options, or nothing.          *)
SavedFits ==
    \A o \in 1..Len(option) :
       saved[o] # Null => /\ saved[o] = Ptr(saved[o][1])
                          /\ IsValue(option[o].type, saved[o][1])

(* The text of a setting, and what it is when it has been read.            *)
Shown(o) == Show(option[o].type, saved[o][1])
Again(o) == Ptr(Kept(option[o].type, saved[o][1]))

(* A text with the setting of o, or with no more than comments.            *)
WrittenFor(o, text) ==
    \E r : /\ Commented(r)
           /\ saved[o] = Null => IsTextOf(text, r, r)
           /\ saved[o] # Null =>
                 IsTextOf(text, <<option[o].id, " ", "=", " ">> \o Shown(o), r)

(* list has each option once.                                              *)
Lists(list) ==
    /\ IsSequence(list)
    /\ \A i \in 1..Len(list) : list[i] \in 1..Len(option)
    /\ \A i, j \in 1..Len(list) : list[i] = list[j] => i = j
    /\ \A o \in 1..Len(option) : \E i \in 1..Len(list) : list[i] = o

(* The file has a text for each of them, in that order.                    *)
FileHolds(list) ==
    /\ IsSequence(file) /\ Len(file) = Len(list)
    /\ \A i \in 1..Len(list) : WrittenFor(list[i], file[i])

(* How many tokens the first k of them have.                               *)
Counts(list, e) ==
    /\ e[0] = 0
    /\ \A k \in 0..Len(list) : e[k] \in Nat
    /\ \A k \in 1..Len(list) : e[k] = e[k - 1] + IF saved[list[k]] = Null THEN 0 ELSE 2
    /\ \A i, k \in 0..Len(list) : i <= k => e[i] <= e[k]

(* parse() has been given the first j of them, the others are still to be  *)
(* read.                                                                   *)
ReadUpTo(list, e, j) ==
    /\ Counts(list, e)
    /\ Len(args) = e[Len(list)] - e[j]
    /\ \A i \in j + 1..Len(list) : saved[list[i]] # Null =>
          /\ args[e[i - 1] - e[j] + 1] = LongCmd(option[list[i]].id)
          /\ args[e[i - 1] - e[j] + 2] = Shown(list[i])
    /\ \A i \in 1..Len(list) : option[list[i]].was_set <=> i <= j /\ saved[list[i]] # Null
    /\ \A i \in 1..j : saved[list[i]] # Null => option[list[i]].data = Again(list[i])

(* A run in which nothing was set yet.                                     *)
NothingSet == \A o \in 1..Len(option) : ~ option[o].was_set

(* How far the next run has come.                                          *)
Progress(list) ==
    /\ age = "started" =>
          \/ mode = "idle" /\ NothingSet
          \/ mode = "file" /\ \E j \in 0..Len(list) : \E e : ReadUpTo(list, e, j)
    /\ age = "restored" => mode = "idle" /\ Restored
    /\ age # "refused"

(* What has been written is in the file, and what has been read of it is   *)
(* set.                                                                    *)
RoundInv ==
    age # "live" =>
       /\ SavedFits
       /\ Fitting => \E list : Lists(list) /\ FileHolds(list) /\ Progress(list)

(* Nor do parse() and a restart touch the default of an option.            *)
Alike(p, q) ==
    SameOption(p, q) /\ p.has_default = q.has_default /\ p.default = q.default

(* What is said of settings, lists and the file stays true as long as the  *)
(* options keep their names, types and defaults.                           *)
LEMMA FileStays ==
    ASSUME ConfigInv,
           Len(option') = Len(option),
           \A i \in 1..Len(option) : Alike(option'[i], option[i]),
           UNCHANGED <<group, members, groups, file, saved>>
    PROVE  /\ SavedFits => SavedFits'
           /\ Fitting' => Fitting
           /\ \A list : Lists(list) => Lists(list)'
           /\ \A list : Lists(list) /\ FileHolds(list) => FileHolds(list)'
<1>1. ASSUME NEW o \in 1..Len(option)
      PROVE  /\ option'[o].id = option[o].id /\ option'[o].type = option[o].type
             /\ option'[o].parent = option[o].parent
             /\ option'[o].has_default = option[o].has_default
             /\ option'[o].default = option[o].default
    BY DEF Alike, SameOption
<1>2. SavedFits => SavedFits'
    BY <1>1 DEF SavedFits
<1>3. ASSUME Fitting'
      PROVE  Fitting
  <2>1. ASSUME NEW o \in 1..Len(option)
        PROVE  /\ Reachable(o) /\ option[o].id \notin {" ", "=", "#", Newline}
               /\ saved[o] # Null => Writable(option[o].type, saved[o][1])
               /\ option[o].has_default =>
                     Newline \notin Atoms(Show(option[o].type, option[o].default[1]))
    <3>1. /\ Reachable(o)' /\ option'[o].id \notin {" ", "=", "#", Newline}
          /\ saved[o] # Null => Writable(option'[o].type, saved[o][1])
          /\ option'[o].has_default =>
                Newline \notin Atoms(Show(option'[o].type, option'[o].default[1]))
        BY <1>3 DEF Fitting
    <3>2. Reachable(o)
        BY <1>1, <3>1 DEF Reachable
    <3> QED
        BY <1>1, <3>1, <3>2
  <2> QED
      BY <2>1 DEF Fitting
<1>4. ASSUME NEW list, Lists(list)
      PROVE  Lists(list)'
    BY <1>4 DEF Lists
<1>5. ASSUME NEW list, Lists(list), FileHolds(list)
      PROVE  FileHolds(list)'
  <2>1. ASSUME NEW i \in 1..Len(list)
        PROVE  WrittenFor(list[i], file[i])'
    <3>1. list[i] \in 1..Len(option)
        BY <1>5 DEF Lists
    <3>2. PICK o, text : o = list[i] /\ text = file[i]
        OBVIOUS
    <3>3. WrittenFor(o, text)
        BY <1>5, <3>2 DEF FileHolds
    <3>4. Shown(o)' = Shown(o) /\ option'[o].id = option[o].id
        BY <1>1, <3>1, <3>2 DEF Shown
    <3>5. WrittenFor(o, text)'
        BY <3>3, <3>4 DEF WrittenFor
    <3> QED
        BY <3>2, <3>5
  <2>2. IsSequence(file') /\ Len(file') = Len(list)
      BY <1>5 DEF FileHolds
  <2> QED
      BY <2>1, <2>2 DEF FileHolds
<1> QED
    BY <1>2, <1>3, <1>4, <1>5

(* Steps that change no more than the values of options keep the invariant *)
(* when they keep up the progress.                                         *)
LEMMA ProgressKeepsRound ==
    ASSUME ConfigInv, RoundInv, age # "live",
           Len(option') = Len(option),
           \A i \in 1..Len(option) : Alike(option'[i], option[i]),
           UNCHANGED <<group, members, groups, file, saved>>,
           \A list : SavedFits /\ Fitting /\ Lists(list) /\ FileHolds(list) /\ Progress(list)
                        => Progress(list)'
    PROVE  RoundInv'
<1>1. SavedFits /\ SavedFits'
    BY FileStays DEF RoundInv
<1>2. ASSUME Fitting'
      PROVE  \E list : Lists(list)' /\ FileHolds(list)' /\ Progress(list)'
  <2>1. Fitting
      BY <1>2, FileStays
  <2>2. PICK list : Lists(list) /\ FileHolds(list) /\ Progress(list)
      BY <2>1 DEF RoundInv
  <2>3. Lists(list)' /\ FileHolds(list)'
      BY <2>2, FileStays
  <2>4. Progress(list)'
      BY <1>1, <2>1, <2>2
  <2> QED
      BY <2>3, <2>4
<1> QED
    BY <1>1, <1>2 DEF RoundInv

(* An option that can be reached is listed, and found by its long command. *)
LEMMA ReachableIsFound ==
    ASSUME ConfigInv, NEW o \in 1..Len(option), Reachable(o)
    PROVE  /\ o \in Listed
           /\ LongCmd(option[o].id) \in DOMAIN cmdmap
           /\ members[cmdmap[LongCmd(option[o].id)]] = o
<1>1. PICK p, id, name : p = option[o] /\ id = p.id /\ name = group[p.parent].name
    OBVIOUS
<1>2. /\ id \in DOMAIN members /\ members[id] = o
      /\ name \in DOMAIN groups /\ groups[name] = p.parent
    BY <1>1 DEF Reachable
<1>3. ByCommand
    BY ResolvedNow DEF ConfigInv
<1>4. /\ group[option[members[id]].parent].members[id] = members[id]
      /\ LongCmd(id) \in DOMAIN cmdmap /\ cmdmap[LongCmd(id)] = id
    BY <1>2, <1>3 DEF ByCommand
<1>5. group[groups[name]].members[id] = o
    BY <1>1, <1>2, <1>4
<1>6. id \in DOMAIN group[groups[name]].members
    BY <1>1, <1>2 DEF ConfigInv, Shapes
<1>7. o \in Listed
    BY <1>2, <1>5, <1>6 DEF Listed
<1> QED
    BY <1>1, <1>2, <1>4, <1>7

(* Settings, option by option.                                             *)
LEMMA SettingsAre ==
    ASSUME ConfigInv, Boxes
    PROVE  /\ Settings = [o \in 1..Len(option) |-> Settings[o]]
           /\ \A o \in 1..Len(option) :
                 /\ Settings[o] # Null <=> option[o].was_set
                 /\ option[o].was_set =>
                       /\ Settings[o] = option[o].data /\ Settings[o] = Ptr(Settings[o][1])
                       /\ IsValue(option[o].type, Settings[o][1])
<1>1. Settings = [o \in 1..Len(option) |-> Settings[o]]
    BY DEF Settings
<1>2. ASSUME NEW o \in 1..Len(option)
      PROVE  Settings[o] = IF option[o].was_set THEN option[o].data ELSE Null
    BY DEF Settings
<1>3. ASSUME NEW o \in 1..Len(option)
      PROVE  /\ option[o].was_set => option[o].data # Null
             /\ option[o].data # Null => /\ IsValue(option[o].type, option[o].data[1])
                                         /\ option[o].data = Ptr(option[o].data[1])
  <2>1. OptionFits(option[o])
      BY OptionsFit
  <2>2. Boxed(option[o].data)
      BY DEF Boxes
  <2> QED
      BY <2>1, <2>2 DEF OptionFits, Boxed
<1> QED
    BY <1>1, <1>2, <1>3

(* A comment with a default that fits is one line.                         *)
LEMMA RemarkAgain ==
    ASSUME ConfigInv, NEW o \in 1..Len(option),
           option[o].has_default =>
              Newline \notin Atoms(Show(option[o].type, option[o].default[1]))
    PROVE  Commented(Remark(o))
<1>1. PICK s : s = Show(option[o].type, option[o].default[1])
    OBVIOUS
<1>2. PICK h : h = <<"#">>
    OBVIOUS
<1>3. IsSequence(h) /\ Len(h) = 1 /\ h[1] = "#"
    BY <1>2, TuplesAreSequences
<1>4. ~ Occurs(Newline, h)
  <2>1. \A i \in 1..1 : h[i] = "#"
      BY <1>3
  <2>2. \A i \in 1..1 : h[i] # Newline
      BY <2>1, NewlineIsOther
  <2> QED
      BY <1>3, <2>2 DEF Occurs
<1>5. CASE option[o].has_default
  <2>1. IsSequence(s) /\ ~ Occurs(Newline, s)
      BY <1>1, <1>5, OptionsFit, ShowIsSequence, NoAtomOf DEF OptionFits
  <2>2. IsSequence(h \o s) /\ ~ Occurs(Newline, h \o s)
      BY <1>3, <1>4, <2>1, ConcatIsSequence, NoneInBoth
  <2>3. Len(h \o s) # 0 /\ (h \o s)[1] = h[1]
    <3>1. /\ Len(h \o s) = 1 + Len(s)
          /\ \A i \in 1..1 + Len(s) : (h \o s)[i] = IF i <= 1 THEN h[i] ELSE s[i - 1]
      <4>1. /\ Len(h \o s) = Len(h) + Len(s)
            /\ \A i \in 1..Len(h) + Len(s) :
                  (h \o s)[i] = IF i <= Len(h) THEN h[i] ELSE s[i - Len(h)]
          BY <1>3, <2>1, ConcatIsSequence
      <4> QED
          BY <1>3, <4>1
    <3>2. Len(s) \in Nat
        BY <2>1, SequenceLen
    <3>3. 1 \in 1..1 + Len(s) /\ 1 <= 1 /\ 1 + Len(s) # 0
        BY <3>2
    <3> QED
        BY <3>1, <3>3
  <2>4. Remark(o) = h \o s
      BY <1>1, <1>2, <1>5 DEF Remark
  <2> QED
      BY <1>3, <2>2, <2>3, <2>4 DEF Commented
<1>6. CASE ~ option[o].has_default
  <2>1. Remark(o) = h /\ Len(h) # 0
      BY <1>2, <1>3, <1>6 DEF Remark
  <2> QED
      BY <1>3, <1>4, <2>1 DEF Commented
<1> QED
    BY <1>5, <1>6

(* write_config_file() writes each setting once.                           *)
LEMMA WriteRound ==
    ASSUME ConfigInv, Boxes, NEW shorter \in BOOLEAN, WriteConfigFile(shorter)
    PROVE  RoundInv'
<1> DEFINE all == SetToSeq(Listed)
<1>1. /\ UNCHANGED <<option, group, members, groups>> /\ saved' = Settings /\ age' = "written"
      /\ file' = [i \in 1..Len(all) |-> Text(all[i], shorter)]
    BY DEF WriteConfigFile, objects
<1>2. PICK s : s = Settings
    OBVIOUS
<1>3. \A o \in 1..Len(option) :
         /\ s[o] # Null <=> option[o].was_set
         /\ option[o].was_set => /\ s[o] = option[o].data /\ s[o] = Ptr(s[o][1])
                                 /\ IsValue(option[o].type, s[o][1])
    BY <1>2, SettingsAre
<1>4. SavedFits'
    BY <1>1, <1>2, <1>3 DEF SavedFits
<1>5. ASSUME Fitting'
      PROVE  \E list : Lists(list)' /\ FileHolds(list)' /\ Progress(list)'
  <2>1. ASSUME NEW o \in 1..Len(option)
        PROVE  /\ Reachable(o) /\ option[o].id # Newline
               /\ saved'[o] # Null => Writable(option[o].type, saved'[o][1])
               /\ option[o].has_default =>
                     Newline \notin Atoms(Show(option[o].type, option[o].default[1]))
    <3>1. /\ Reachable(o)' /\ option'[o].id \notin {" ", "=", "#", Newline}
          /\ saved'[o] # Null => Writable(option'[o].type, saved'[o][1])
          /\ option'[o].has_default =>
                Newline \notin Atoms(Show(option'[o].type, option'[o].default[1]))
        BY <1>1, <1>5 DEF Fitting
    <3>2. Reachable(o)
        BY <1>1, <3>1 DEF Reachable
    <3> QED
        BY <1>1, <3>1, <3>2
  <2>2. Listed = 1..Len(option)
      BY <2>1, ReachableIsFound, ListedAreOptions
  <2>3. PICK list, n : list = all /\ n = Len(list)
      OBVIOUS
  <2>4. /\ IsSequence(list) /\ n \in Nat
        /\ \A i \in 1..n : list[i] \in 1..Len(option)
        /\ \A i, j \in 1..n : list[i] = list[j] => i = j
        /\ \A o \in 1..Len(option) : \E i \in 1..n : list[i] = o
      BY <2>2, <2>3, ListedOptions
  <2>5. Lists(list)'
      BY <1>1, <2>3, <2>4 DEF Lists
  <2>6. file' = [i \in 1..n |-> Text(list[i], shorter)]
      BY <1>1, <2>3
  <2>7. ASSUME NEW o \in 1..Len(option)
        PROVE  WrittenFor(o, Text(o, shorter))'
    <3>1. Commented(Remark(o))
        BY <2>1, RemarkAgain
    <3>2. PICK r, line : r = Remark(o) /\ line = IF option[o].was_set THEN Line(o) ELSE r
        OBVIOUS
    <3>3. IsTextOf(Text(o, shorter), line, r)
        BY <3>2 DEF Text, IsTextOf
    <3>4. saved'[o] = Null => line = r
        BY <1>1, <1>2, <1>3, <3>2
    <3>5. saved'[o] # Null => line = <<option[o].id, " ", "=", " ">> \o Show(option[o].type, saved'[o][1])
        BY <1>1, <1>2, <1>3, <3>2 DEF Line
    <3>6. PICK text : text = Text(o, shorter)
        OBVIOUS
    <3>7. text = Text(o, shorter)'
        BY <1>1, <3>6 DEF Text, Line, Remark
    <3>8. WrittenFor(o, text)'
        BY <1>1, <3>1, <3>2, <3>3, <3>4, <3>5, <3>6 DEF WrittenFor, Shown
    <3> QED
        BY <3>7, <3>8
  <2>8. FileHolds(list)'
    <3>1. file' = [i \in 1..n |-> file'[i]]
        BY <2>6
    <3>2. IsSequence(file') /\ Len(file') = n
        BY <2>4, <3>1, DomainIsSequence
    <3>3. ASSUME NEW i \in 1..n
          PROVE  WrittenFor(list[i], file[i])'
      <4>1. PICK o, text : o \in 1..Len(option) /\ o = list[i] /\ text = Text(o, shorter)
          BY <2>4
      <4>2. file'[i] = text
          BY <2>6, <4>1
      <4>3. text = Text(o, shorter)'
          BY <1>1, <4>1 DEF Text, Line, Remark
      <4>4. WrittenFor(o, text)'
          BY <2>7, <4>1, <4>3
      <4> QED
          BY <4>1, <4>2, <4>4
    <3> QED
        BY <2>3, <3>2, <3>3 DEF FileHolds
  <2>9. Progress(list)'
      BY <1>1 DEF Progress
  <2> QED
      BY <2>5, <2>8, <2>9
<1> QED
    BY <1>4, <1>5 DEF RoundInv

(* The next run starts with nothing set.                                   *)
LEMMA RestartRound ==
    ASSUME ConfigInv, RoundInv, Restart
    PROVE  RoundInv'
<1>1. /\ age = "written" /\ age' = "started" /\ mode' = mode /\ mode = "idle"
      /\ UNCHANGED <<group, members, groups, file, saved>>
    BY DEF Restart, ConfigInv, Ended
<1>2. /\ Len(option') = Len(option)
      /\ \A i \in 1..Len(option) : Alike(option'[i], option[i])
  <2>1. /\ Len(option') = Len(option)
        /\ \A i \in 1..Len(option) : SameOption(option'[i], option[i])
      BY RestartFits
  <2>2. option' = [o \in 1..Len(option) |->
                     [option[o] EXCEPT !.was_set = FALSE, !.data = option[o].default]]
      BY DEF Restart
  <2>3. ASSUME NEW o \in 1..Len(option)
        PROVE  /\ option'[o].has_default = option[o].has_default
               /\ option'[o].default = option[o].default
    <3>1. DOMAIN option[o] = Fields
        BY OptionsFit DEF OptionFits
    <3> QED
        BY <2>2, <3>1 DEF Fields
  <2> QED
      BY <2>1, <2>3 DEF Alike
<1>3. NothingSet'
  <2>1. option' = [o \in 1..Len(option) |->
                     [option[o] EXCEPT !.was_set = FALSE, !.data = option[o].default]]
      BY DEF Restart
  <2>2. ASSUME NEW o \in 1..Len(option)
        PROVE  ~ option'[o].was_set
    <3>1. DOMAIN option[o] = Fields
        BY OptionsFit DEF OptionFits
    <3>2. option'[o].was_set = FALSE
        BY <2>1, <3>1 DEF Fields
    <3> QED
        BY <3>2
  <2> QED
      BY <1>2, <2>2 DEF NothingSet
<1>4. \A list : Progress(list)'
    BY <1>1, <1>3 DEF Progress
<1> QED
    BY <1>1, <1>2, <1>4, ProgressKeepsRound

(* What is none of four atoms is not in the string of them.                *)
LEMMA NoneOfFour ==
    ASSUME NEW a, NEW b, NEW c, NEW d, NEW x, x # a, x # b, x # c, x # d
    PROVE  ~ Occurs(x, <<a, b, c, d>>)
<1>1. PICK h : h = <<a, b, c, d>>
    OBVIOUS
<1>2. Len(h) = 4 /\ h[1] = a /\ h[2] = b /\ h[3] = c /\ h[4] = d
    BY <1>1, TuplesAreSequences
<1>3. \A i \in 1..4 : i = 1 \/ i = 2 \/ i = 3 \/ i = 4
    OBVIOUS
<1> QED
    BY <1>1, <1>2, <1>3 DEF Occurs

(* What is shown of a setting, and its line.                               *)
LEMMA ShownSetting ==
    ASSUME ConfigInv, SavedFits, Fitting, NEW o \in 1..Len(option), saved[o] # Null,
           NEW line, line = <<option[o].id, " ", "=", " ">> \o Shown(o)
    PROVE  /\ option[o].type \in Types /\ IsValue(option[o].type, saved[o][1])
           /\ Writable(option[o].type, saved[o][1])
           /\ IsSequence(line) /\ ~ Occurs(Newline, line) /\ ~ LineThrows(line)
           /\ LineTokens(line) = <<LongCmd(option[o].id), Shown(o)>>
<1>1. /\ option[o].type \in Types /\ IsValue(option[o].type, saved[o][1])
      /\ Writable(option[o].type, saved[o][1])
    BY OptionsFit DEF OptionFits, SavedFits, Fitting
<1>2. PICK s : s = Show(option[o].type, saved[o][1])
    OBVIOUS
<1>3. IsSequence(s)
    BY <1>1, <1>2, ShowIsSequence
<1>4. "=" \notin Atoms(s) /\ (s # <<>> => s[1] # " " /\ s[Len(s)] # " ")
    BY <1>1, <1>2 DEF Writable
<1>5. option[o].id \notin {" ", "=", "#"} /\ option[o].id # Newline
    BY DEF Fitting
<1>6. ~ LineThrows(line) /\ LineTokens(line) = <<LongCmd(option[o].id), s>>
    BY <1>2, <1>3, <1>4, <1>5, LineAgain DEF Shown
<1>7. PICK h : h = <<option[o].id, " ", "=", " ">>
    OBVIOUS
<1>8. IsSequence(h) /\ Len(h) = 4
    BY <1>7, TuplesAreSequences
<1>9. ~ Occurs(Newline, h)
    BY <1>5, <1>7, NewlineIsOther, NoneOfFour
<1>10. ~ Occurs(Newline, s)
  <2>1. Newline \notin Atoms(s)
      BY <1>1, <1>2 DEF Writable
  <2> QED
      BY <2>1, NoAtomOf
<1>11. IsSequence(h \o s) /\ ~ Occurs(Newline, h \o s)
    BY <1>3, <1>8, <1>9, <1>10, ConcatIsSequence, NoneInBoth
<1>12. line = h \o s
    BY <1>2, <1>7 DEF Shown
<1> QED
    BY <1>1, <1>2, <1>6, <1>11, <1>12 DEF Shown

(* A text is read as the setting of its option, if it has one.             *)
LEMMA OptionAgain ==
    ASSUME ConfigInv, SavedFits, Fitting, NEW o \in 1..Len(option),
           NEW text, WrittenFor(o, text)
    PROVE  /\ ~ TextThrows(text)
           /\ saved[o] = Null => TextTokens(text) = <<>>
           /\ saved[o] # Null => TextTokens(text) = <<LongCmd(option[o].id), Shown(o)>>
<1>1. PICK line : line = <<option[o].id, " ", "=", " ">> \o Shown(o)
    OBVIOUS
<1>2. PICK r : /\ Commented(r)
               /\ saved[o] = Null => IsTextOf(text, r, r)
               /\ saved[o] # Null => IsTextOf(text, line, r)
    BY <1>1 DEF WrittenFor
<1>3. ASSUME saved[o] = Null
      PROVE  ~ TextThrows(text) /\ TextTokens(text) = <<>>
  <2>1. IsSequence(r) /\ ~ Occurs(Newline, r)
      BY <1>2 DEF Commented
  <2> QED
      BY <1>2, <1>3, <2>1, CommentAgain, TextAgain
<1>4. ASSUME saved[o] # Null
      PROVE  /\ ~ TextThrows(text)
             /\ TextTokens(text) = <<LongCmd(option[o].id), Shown(o)>>
  <2>1. /\ IsSequence(line) /\ ~ Occurs(Newline, line) /\ ~ LineThrows(line)
        /\ LineTokens(line) = <<LongCmd(option[o].id), Shown(o)>>
      BY <1>1, <1>4, ShownSetting
  <2> QED
      BY <1>2, <1>4, <2>1, TextAgain
<1> QED
    BY <1>3, <1>4

(* What FlattenSeq puts where, when each part has no token or two.         *)
LEMMA CountsGrow ==
    ASSUME NEW list, NEW n \in Nat, n = Len(list), NEW e, e[0] = 0,
           \A k \in 0..n : e[k] \in Nat,
           \A k \in 1..n : e[k] = e[k - 1] + IF saved[list[k]] = Null THEN 0 ELSE 2
    PROVE  Counts(list, e)
<1> DEFINE T == {k \in Nat : k <= n => \A i \in 0..k : e[i] <= e[k]}
<1>1. 0 \in T
  <2>1. \A i \in 0..0 : i = 0
      OBVIOUS
  <2> QED
      BY <2>1
<1>2. ASSUME NEW k \in Nat, k \in T
      PROVE  k + 1 \in T
  <2>1. ASSUME k + 1 <= n, NEW i \in 0..k + 1
        PROVE  e[i] <= e[k + 1]
    <3>1. k + 1 \in 1..n /\ (k + 1) - 1 = k /\ k \in 0..n /\ k + 1 \in 0..n /\ i \in 0..n
        BY <2>1
    <3>2. e[k + 1] \in Nat /\ e[k] \in Nat /\ e[i] \in Nat
        BY <3>1
    <3>3. e[k] <= e[k + 1]
        BY <3>1, <3>2
    <3>4. i = k + 1 \/ i \in 0..k
        BY <1>2
    <3>5. i \in 0..k => e[i] <= e[k]
        BY <1>2, <2>1
    <3> QED
        BY <3>2, <3>3, <3>4, <3>5
  <2> QED
      BY <2>1
<1> HIDE DEF T
<1>3. Nat \subseteq T
    BY <1>1, <1>2, Induction
<1>4. ASSUME NEW i \in 0..n, NEW k \in 0..n, i <= k
      PROVE  e[i] <= e[k]
    BY <1>3, <1>4 DEF T
<1> QED
    BY <1>4 DEF Counts

(* Reading the file, the next run finds every setting.                     *)
LEMMA FileRound ==
    ASSUME ConfigInv, RoundInv, age # "live", NEW f, ParseConfigFile(f)
    PROVE  RoundInv'
<1>1. /\ age = "started" /\ f = file /\ mode = "idle" /\ age' = age
      /\ UNCHANGED <<option, group, members, groups, file, saved>>
      /\ IF \E i \in 1..Len(f) : TextThrows(f[i])
         THEN mode' = "thrown" /\ UNCHANGED args
         ELSE /\ mode' = "file"
              /\ args' = FlattenSeq([i \in 1..Len(f) |-> TextTokens(f[i])])
    BY DEF ParseConfigFile, objects, life
<1>2. ASSUME NEW list, SavedFits, Fitting, Lists(list), FileHolds(list), Progress(list)
      PROVE  Progress(list)'
  <2>1. NothingSet
      BY <1>1, <1>2 DEF Progress
  <2>2. PICK n : n = Len(list)
      OBVIOUS
  <2>3. n \in Nat /\ Len(file) = n
      BY <1>2, <2>2, SequenceLen DEF Lists, FileHolds
  <2>4. ASSUME NEW i \in 1..n
        PROVE  /\ ~ TextThrows(file[i])
               /\ saved[list[i]] = Null => TextTokens(file[i]) = <<>>
               /\ saved[list[i]] # Null =>
                     TextTokens(file[i]) = <<LongCmd(option[list[i]].id), Shown(list[i])>>
    <3>1. PICK o, text : o = list[i] /\ text = file[i]
        OBVIOUS
    <3>2. o \in 1..Len(option) /\ WrittenFor(o, text)
        BY <1>2, <2>2, <3>1 DEF Lists, FileHolds
    <3> QED
        BY <1>2, <3>1, <3>2, OptionAgain
  <2>5. PICK seqs : seqs = [i \in 1..n |-> TextTokens(file[i])]
      OBVIOUS
  <2>6. mode' = "file" /\ args' = FlattenSeq(seqs)
      BY <1>1, <2>3, <2>4, <2>5
  <2>7. ASSUME NEW i \in 1..n
        PROVE  /\ AreSequences(seqs[i])
               /\ saved[list[i]] = Null => Len(seqs[i]) = 0
               /\ saved[list[i]] # Null =>
                     /\ Len(seqs[i]) = 2
                     /\ seqs[i][1] = LongCmd(option[list[i]].id) /\ seqs[i][2] = Shown(list[i])
    <3>1. IsSequence(file[i])
        BY <2>3 DEF ConfigInv, Texts, AreSequences
    <3>2. seqs[i] = TextTokens(file[i]) /\ AreSequences(seqs[i])
        BY <2>5, <3>1, TextTokensAre
    <3>3. PICK a, b : a = LongCmd(option[list[i]].id) /\ b = Shown(list[i])
        OBVIOUS
    <3>4. Len(<<>>) = 0 /\ Len(<<a, b>>) = 2 /\ <<a, b>>[1] = a /\ <<a, b>>[2] = b
        BY TuplesAreSequences
    <3> QED
        BY <2>4, <3>2, <3>3, <3>4
  <2>8. AreSequences(seqs) /\ Len(seqs) = n
    <3>1. seqs = [i \in 1..n |-> seqs[i]]
        BY <2>5
    <3> QED
        BY <2>3, <2>7, <3>1, ListsFlattened
  <2>9. PICK e : PlacesOf(e, seqs, args')
      BY <2>6, <2>8, FlattenPlaces
  <2>10. /\ e[0] = 0 /\ e[n] = Len(args')
         /\ \A k \in 0..n : e[k] \in Nat
         /\ \A k \in 1..n : e[k] = e[k - 1] + Len(seqs[k])
         /\ \A k \in 1..n : \A i \in 1..Len(seqs[k]) : args'[e[k - 1] + i] = seqs[k][i]
      BY <2>8, <2>9 DEF PlacesOf
  <2>11. \A k \in 1..n : e[k] = e[k - 1] + IF saved[list[k]] = Null THEN 0 ELSE 2
      BY <2>7, <2>10
  <2>12. Counts(list, e)
      BY <2>2, <2>3, <2>10, <2>11, CountsGrow
  <2>13. ReadUpTo(list, e, 0)'
    <3>1. Counts(list, e)'
        BY <1>1, <2>12 DEF Counts
    <3>2. Len(args') = e[Len(list)] - e[0]
        BY <2>2, <2>3, <2>10
    <3>3. ASSUME NEW i \in 0 + 1..Len(list), saved'[list[i]] # Null
          PROVE  /\ args'[e[i - 1] - e[0] + 1] = LongCmd(option'[list[i]].id)
                 /\ args'[e[i - 1] - e[0] + 2] = Shown(list[i])'
      <4>1. i \in 1..n /\ i - 1 \in 0..n /\ saved[list[i]] # Null
          BY <1>1, <2>2, <2>3, <3>3
      <4>2. 1 \in 1..Len(seqs[i]) /\ 2 \in 1..Len(seqs[i])
          BY <2>7, <4>1
      <4>3. /\ args'[e[i - 1] + 1] = LongCmd(option[list[i]].id)
            /\ args'[e[i - 1] + 2] = Shown(list[i])
          BY <2>7, <2>10, <4>1, <4>2
      <4>4. e[i - 1] - e[0] = e[i - 1]
          BY <2>10, <4>1
      <4>5. Shown(list[i])' = Shown(list[i])
          BY <1>1 DEF Shown
      <4> QED
          BY <1>1, <4>3, <4>4, <4>5
    <3>4. \A i \in 1..Len(list) : option'[list[i]].was_set <=> i <= 0 /\ saved'[list[i]] # Null
      <4>1. \A i \in 1..Len(list) : list[i] \in 1..Len(option)
          BY <1>2 DEF Lists
      <4>2. \A i \in 1..Len(list) : ~ (i <= 0)
          BY <2>2, <2>3
      <4> QED
          BY <1>1, <2>1, <4>1, <4>2 DEF NothingSet
    <3>5. 1..0 = {}
        OBVIOUS
    <3> QED
        BY <3>1, <3>2, <3>3, <3>4, <3>5 DEF ReadUpTo
  <2>14. 0 \in 0..Len(list)
      BY <2>2, <2>3
  <2>15. \E j \in 0..Len(list) : \E d : ReadUpTo(list, d, j)'
      BY <2>13, <2>14
  <2> QED
      BY <1>1, <2>6, <2>15 DEF Progress
<1> QED
    BY <1>1, <1>2, ProgressKeepsRound DEF Alike, SameOption

(* parse() gets the next setting right.                                    *)
LEMMA ParseTakesIt ==
    ASSUME ConfigInv, SavedFits, Fitting, Parse, NEW o \in 1..Len(option), saved[o] # Null,
           Len(args) > 1, args[1] = LongCmd(option[o].id), args[2] = Shown(o)
    PROVE  Take(o, Kept(option[o].type, saved[o][1]), 2)
<1>1. LongCmd(option[o].id) \in DOMAIN cmdmap /\ members[cmdmap[LongCmd(option[o].id)]] = o
    BY ReachableIsFound DEF Fitting
<1>2. IF option[o].type = "bool" THEN ParseBool(o) ELSE ParseValue(o)
    BY <1>1 DEF Parse
<1>3. PICK type, v : type = option[o].type /\ v = saved[o][1]
    OBVIOUS
<1>4. type \in Types /\ IsValue(type, v) /\ Writable(type, v)
  <2>1. PICK line : line = <<option[o].id, " ", "=", " ">> \o Shown(o)
      OBVIOUS
  <2> QED
      BY <1>3, <2>1, ShownSetting
<1>5. args[2] = Show(type, v)
    BY <1>3 DEF Shown
<1>6. CASE type = "bool"
  <2>1. v \in BOOLEAN
      BY <1>4, <1>6, ValueOf
  <2>2. args[2] \in {<<"true">>, <<"false">>} /\ v = (args[2] = <<"true">>)
      BY <1>5, <1>6, <2>1, FlagAgain
  <2>3. Take(o, args[2] = <<"true">>, 2)
      BY <1>2, <1>3, <1>6, <2>2 DEF ParseBool
  <2>4. Kept(type, v) = v
      BY <1>6 DEF Kept
  <2> QED
      BY <1>3, <2>2, <2>3, <2>4
<1>7. CASE type # "bool"
  <2>1. /\ Read(type, args[2]) = Kept(type, v)
        /\ type \in {"integer", "real"} => IsNumber(type, args[2])
        /\ type = "map" => \A i \in 1..Len(Pairs(args[2])) : Len(Pairs(args[2])[i]) # 1
      BY <1>4, <1>5, <1>7, ValueAgain
  <2>2. ~ (Len(args) < 2)
    <3>1. Len(args) \in Nat
        BY SequenceLen DEF ConfigInv, Texts, AreSequences
    <3> QED
        BY <3>1
  <2>3. ParseValue(o)
      BY <1>2, <1>3, <1>7
  <2>4. Take(o, Read(type, args[2]), 2)
      BY <1>3, <2>1, <2>2, <2>3 DEF ParseValue
  <2> QED
      BY <1>3, <2>1, <2>4
<1> QED
    BY <1>6, <1>7

(* The options without a setting have no tokens: as long as there are any, *)
(* there is a next one with a setting.                                     *)
LEMMA NextSetting ==
    ASSUME NEW list, Len(list) \in Nat, NEW e, NEW j \in 0..Len(list),
           Counts(list, e), e[j] # e[Len(list)]
    PROVE  \E k \in j + 1..Len(list) :
              /\ e[k - 1] = e[j] /\ saved[list[k]] # Null
              /\ \A i \in j + 1..k - 1 : saved[list[i]] = Null
<1> DEFINE T == {k \in Nat : k \in j + 1..Len(list) /\ e[k] # e[j]}
<1>1. PICK n : n = Len(list)
    OBVIOUS
<1>2. n \in Nat /\ j \in 0..n /\ e[j] # e[n] /\ \A k \in 0..n : e[k] \in Nat
    BY <1>1 DEF Counts
<1>3. \A k \in 1..n : e[k] = e[k - 1] + IF saved[list[k]] = Null THEN 0 ELSE 2
    BY <1>1 DEF Counts
<1>4. n \in T
    BY <1>1, <1>2
<1>5. PICK k \in T : \A i \in T : k <= i
  <2>1. T \subseteq Nat /\ T # {}
      BY <1>4
  <2> HIDE DEF T
  <2> QED
      BY <2>1, LeastElement
<1>6. k \in j + 1..n /\ e[k] # e[j]
    BY <1>1, <1>5
<1>7. ASSUME NEW i \in j..k - 1
      PROVE  e[i] = e[j]
  <2>1. i = j \/ i \in j + 1..n
      BY <1>2, <1>6
  <2>2. ~ (k <= i) /\ i \in Nat
      BY <1>2, <1>6
  <2> QED
      BY <1>1, <1>5, <2>1, <2>2
<1>8. k - 1 \in j..k - 1 /\ k \in 1..n
    BY <1>2, <1>6
<1>9. e[k - 1] = e[j]
    BY <1>7, <1>8
<1>10. saved[list[k]] # Null
  <2>1. e[k] = e[k - 1] + IF saved[list[k]] = Null THEN 0 ELSE 2
      BY <1>3, <1>8
  <2>2. e[j] \in Nat
      BY <1>2
  <2> QED
      BY <1>6, <1>9, <2>1, <2>2
<1>11. ASSUME NEW i \in j + 1..k - 1
       PROVE  saved[list[i]] = Null
  <2>1. i \in j..k - 1 /\ i - 1 \in j..k - 1 /\ i \in 1..n
      BY <1>2, <1>6
  <2>2. e[i] = e[j] /\ e[i - 1] = e[j] /\ e[j] \in Nat
      BY <1>2, <1>7, <2>1
  <2>3. e[i] = e[i - 1] + IF saved[list[i]] = Null THEN 0 ELSE 2
      BY <1>3, <2>1
  <2> QED
      BY <2>2, <2>3
<1> QED
    BY <1>1, <1>6, <1>9, <1>10, <1>11

(* One more of them read.                                                  *)
LEMMA ReadsOneMore ==
    ASSUME ConfigInv, SavedFits, Fitting, Parse, NEW list, Lists(list), NEW e,
           NEW j \in 0..Len(list), ReadUpTo(list, e, j)
    PROVE  mode' = mode /\ \E k \in 0..Len(list) : ReadUpTo(list, e, k)'
<1>1. PICK n : n = Len(list)
    OBVIOUS
<1>2. /\ n \in Nat /\ j \in 0..n
      /\ \A i \in 1..n : list[i] \in 1..Len(option)
      /\ \A i, k \in 1..n : list[i] = list[k] => i = k
    BY <1>1, SequenceLen DEF Lists
<1>3. /\ Len(args) = e[n] - e[j]
      /\ \A i \in j + 1..n : saved[list[i]] # Null =>
            /\ args[e[i - 1] - e[j] + 1] = LongCmd(option[list[i]].id)
            /\ args[e[i - 1] - e[j] + 2] = Shown(list[i])
      /\ \A i \in 1..n : option[list[i]].was_set <=> i <= j /\ saved[list[i]] # Null
      /\ \A i \in 1..j : saved[list[i]] # Null => option[list[i]].data = Again(list[i])
    BY <1>1 DEF ReadUpTo
<1>4. /\ Counts(list, e)
      /\ \A i \in 0..n : e[i] \in Nat
      /\ \A i \in 1..n : e[i] = e[i - 1] + IF saved[list[i]] = Null THEN 0 ELSE 2
      /\ \A i, k \in 0..n : i <= k => e[i] <= e[k]
    BY <1>1 DEF ReadUpTo, Counts
<1>5. Len(args) # 0
    BY ArgumentsAre DEF Parse
<1>6. e[j] # e[n]
  <2>1. e[n] \in Nat /\ e[j] \in Nat
      BY <1>2, <1>4
  <2> QED
      BY <1>3, <1>5, <2>1
<1>7. PICK k \in j + 1..n :
         /\ e[k - 1] = e[j] /\ saved[list[k]] # Null
         /\ \A i \in j + 1..k - 1 : saved[list[i]] = Null
  <2>1. Len(list) \in Nat
      BY <1>1, <1>2
  <2>2. e[j] # e[Len(list)]
      BY <1>1, <1>6
  <2>3. Counts(list, e)
      BY <1>4
  <2>4. \E k \in j + 1..Len(list) :
           /\ e[k - 1] = e[j] /\ saved[list[k]] # Null
           /\ \A i \in j + 1..k - 1 : saved[list[i]] = Null
      BY <2>1, <2>2, <2>3, NextSetting
  <2> QED
      BY <1>1, <2>4
<1>8. k \in 1..n /\ k \in 0..n /\ j <= k - 1
    BY <1>2
<1>9. e[k] = e[j] + 2 /\ e[k] \in Nat /\ e[j] \in Nat /\ e[n] \in Nat /\ e[k] <= e[n]
  <2>1. n \in 0..n /\ k <= n
      BY <1>2, <1>8
  <2> QED
      BY <1>2, <1>4, <1>7, <1>8, <2>1
<1>10. PICK o : o = list[k]
    OBVIOUS
<1>11. o \in 1..Len(option) /\ saved[o] # Null
    BY <1>2, <1>7, <1>8, <1>10
<1>12. args[1] = LongCmd(option[o].id) /\ args[2] = Shown(o)
  <2>1. e[k - 1] - e[j] + 1 = 1 /\ e[k - 1] - e[j] + 2 = 2
      BY <1>7, <1>9
  <2> QED
      BY <1>3, <1>7, <1>10, <2>1
<1>13. Len(args) > 1
    BY <1>3, <1>9
<1>14. PICK v : v = Kept(option[o].type, saved[o][1])
    OBVIOUS
<1>15. Take(o, v, 2)
    BY <1>11, <1>12, <1>13, <1>14, ParseTakesIt
<1>16. /\ option' = Assigned(o, v) /\ mode' = mode
       /\ args' = SubSeq(args, 3, Len(args)) /\ saved' = saved
  <2>1. 2 + 1 = 3
      OBVIOUS
  <2> QED
      BY <1>15, <2>1 DEF Take, Parse, life
<1>17. /\ option'[o].data = Again(o) /\ option'[o].was_set = TRUE
       /\ SameOption(option'[o], option[o])
       /\ \A i \in 1..Len(option) : i # o => option'[i] = option[i]
    BY <1>11, <1>14, <1>16, AssignedObject DEF Again
<1>18. ASSUME NEW i \in 1..Len(option)
       PROVE  option'[i].id = option[i].id /\ option'[i].type = option[i].type
    BY <1>17 DEF SameOption
<1>19. /\ Len(args') = e[n] - e[k]
       /\ \A i \in 1..Len(args) - 2 : args'[i] = args[i + 2]
  <2>1. PICK l : l = Len(args)
      OBVIOUS
  <2>2. l \in Nat /\ l > 1 /\ l = e[n] - e[j] /\ 3 \in Int /\ l \in Int
      BY <1>3, <1>9, <1>13, <2>1
  <2>3. /\ Len(SubSeq(args, 3, l)) = IF 3 <= l THEN l - 3 + 1 ELSE 0
        /\ \A i \in 1..l - 3 + 1 : SubSeq(args, 3, l)[i] = args[3 + i - 1]
      BY <2>2, SubSeqIsSequence
  <2>4. args' = SubSeq(args, 3, l)
      BY <1>16, <2>1
  <2>5. Len(args') = e[n] - e[k]
      BY <1>9, <2>2, <2>3, <2>4
  <2>6. ASSUME NEW i \in 1..l - 2
        PROVE  args'[i] = args[i + 2]
    <3>1. i \in 1..l - 3 + 1 /\ 3 + i - 1 = i + 2
        BY <2>2
    <3> QED
        BY <2>3, <2>4, <3>1
  <2> QED
      BY <2>1, <2>5, <2>6
<1>20. ASSUME NEW i \in k + 1..n, saved'[list[i]] # Null
       PROVE  /\ args'[e[i - 1] - e[k] + 1] = LongCmd(option'[list[i]].id)
              /\ args'[e[i - 1] - e[k] + 2] = Shown(list[i])'
  <2>1. i \in j + 1..n /\ i \in 1..n /\ i - 1 \in 0..n /\ k <= i - 1 /\ i \in 0..n /\ i <= n
        /\ n \in 0..n
      BY <1>2, <1>8
  <2>2. saved[list[i]] # Null
      BY <1>16, <1>20
  <2>3. PICK a, b, c : a = e[i - 1] /\ b = e[i] /\ c = Len(args)
      OBVIOUS
  <2>4. /\ a \in Nat /\ b \in Nat /\ b = a + 2 /\ b <= e[n] /\ e[k] <= a /\ c = e[n] - e[j]
      BY <1>3, <1>4, <1>8, <2>1, <2>2, <2>3
  <2>5. /\ a - e[k] + 1 \in 1..c - 2 /\ a - e[k] + 2 \in 1..c - 2
        /\ a - e[k] + 1 + 2 = a - e[j] + 1 /\ a - e[k] + 2 + 2 = a - e[j] + 2
    <3>1. PICK x, y, z : x = e[k] /\ y = e[j] /\ z = e[n]
        OBVIOUS
    <3>2. /\ x \in Nat /\ y \in Nat /\ z \in Nat /\ x = y + 2
          /\ a \in Nat /\ x <= a /\ a + 2 <= z /\ c = z - y
        BY <1>9, <2>4, <3>1
    <3>3. /\ a - x + 1 \in 1..c - 2 /\ a - x + 2 \in 1..c - 2
          /\ a - x + 1 + 2 = a - y + 1 /\ a - x + 2 + 2 = a - y + 2
        BY <3>2
    <3> QED
        BY <3>1, <3>3
  <2>6. /\ args[a - e[j] + 1] = LongCmd(option[list[i]].id)
        /\ args[a - e[j] + 2] = Shown(list[i])
      BY <1>3, <2>1, <2>2, <2>3
  <2>7. /\ args'[a - e[k] + 1] = LongCmd(option[list[i]].id)
        /\ args'[a - e[k] + 2] = Shown(list[i])
      BY <1>19, <2>3, <2>5, <2>6
  <2>8. list[i] \in 1..Len(option)
      BY <1>2, <2>1
  <2>9. Shown(list[i])' = Shown(list[i]) /\ option'[list[i]].id = option[list[i]].id
      BY <1>16, <1>18, <2>8 DEF Shown
  <2> QED
      BY <2>3, <2>7, <2>9
<1>21. ASSUME NEW i \in 1..n
       PROVE  /\ option'[list[i]].was_set <=> i <= k /\ saved'[list[i]] # Null
              /\ i <= k /\ saved'[list[i]] # Null => option'[list[i]].data = Again(list[i])'
  <2>1. CASE i = k
    <3>1. Again(o)' = Again(o)
        BY <1>11, <1>16, <1>18 DEF Again
    <3> QED
        BY <1>8, <1>10, <1>11, <1>16, <1>17, <2>1, <3>1
  <2>2. CASE i # k
    <3>1. list[i] # o /\ list[i] \in 1..Len(option)
        BY <1>2, <1>8, <1>10, <2>2
    <3>2. option'[list[i]] = option[list[i]]
        BY <1>17, <3>1
    <3>3. i <= k /\ saved[list[i]] # Null => i \in 1..j
      <4>1. i <= k => i \in 1..j \/ i \in j + 1..k - 1
          BY <1>2, <1>8, <2>2
      <4> QED
          BY <1>7, <4>1
    <3>4. i <= j => i <= k
        BY <1>2, <1>8
    <3>5. Again(list[i])' = Again(list[i])
        BY <1>16, <1>18, <3>1 DEF Again
    <3>6. option[list[i]].was_set <=> i <= k /\ saved[list[i]] # Null
      <4>1. i \in 1..j => i <= j
          BY <1>2
      <4> QED
          BY <1>3, <3>3, <3>4, <4>1
    <3> QED
        BY <1>3, <1>16, <3>2, <3>3, <3>5, <3>6
  <2> QED
      BY <2>1, <2>2
<1>22. Counts(list, e)'
    BY <1>4, <1>16 DEF Counts
<1>23. \A i \in 1..k : i \in 1..n /\ i <= k
    BY <1>2, <1>8
<1>24. ReadUpTo(list, e, k)'
    BY <1>1, <1>19, <1>20, <1>21, <1>22, <1>23 DEF ReadUpTo
<1> QED
    BY <1>1, <1>8, <1>16, <1>24

(* parse() between the two ends of the file.                               *)
LEMMA ParseRound ==
    ASSUME ConfigInv, RoundInv, age # "live", Parse
    PROVE  RoundInv'
<1>1. /\ mode \in {"cmdline", "file"} /\ args # <<>> /\ age' = age
      /\ UNCHANGED <<group, members, groups, file, saved>>
    BY ParseOutcome
<1>2. /\ Len(option') = Len(option)
      /\ \A i \in 1..Len(option) : Alike(option'[i], option[i])
  <2>1. CASE option' = option
      BY <2>1 DEF Alike, SameOption
  <2>2. ASSUME NEW o \in 1..Len(option), Given(o)
        PROVE  /\ Len(option') = Len(option)
               /\ \A i \in 1..Len(option) : Alike(option'[i], option[i])
    <3>1. PICK v : IsValue(option[o].type, v) /\ option' = Assigned(o, v)
        BY <2>2 DEF Given
    <3>2. Len(option') = Len(option)
        BY <3>1, SetFits
    <3>3. Alike(option'[o], option[o]) /\ \A i \in 1..Len(option) : i # o => option'[i] = option[i]
        BY <3>1, AssignedObject DEF Alike
    <3> QED
        BY <3>2, <3>3 DEF Alike, SameOption
  <2> QED
      BY <2>1, <2>2, ParseOutcome DEF Refused
<1>3. age # "written"
    BY <1>1, ModeAndAge
<1>4. ASSUME NEW list, SavedFits, Fitting, Lists(list), FileHolds(list), Progress(list)
      PROVE  Progress(list)'
  <2>1. age = "started" /\ mode = "file"
      BY <1>1, <1>3, <1>4, ModeAndAge DEF Progress, Ages
  <2>2. PICK j, e : j \in 0..Len(list) /\ ReadUpTo(list, e, j)
      BY <1>4, <2>1 DEF Progress
  <2>3. mode' = mode /\ \E k \in 0..Len(list) : ReadUpTo(list, e, k)'
      BY <1>4, <2>2, ReadsOneMore
  <2>4. \E k \in 0..Len(list) : \E d : ReadUpTo(list, d, k)'
      BY <2>3
  <2> QED
      BY <1>1, <2>1, <2>3, <2>4 DEF Progress
<1> QED
    BY <1>1, <1>2, <1>4, ProgressKeepsRound

(* When nothing is left to be read, everything that was set is set again.  *)
LEMMA AllRead ==
    ASSUME ConfigInv, SavedFits, NEW list, Lists(list), args = <<>>, NEW e,
           NEW j \in 0..Len(list), ReadUpTo(list, e, j)
    PROVE  Restored
<1>1. Len(list) \in Nat /\ Counts(list, e)
    BY SequenceLen DEF Lists, ReadUpTo
<1>2. e[j] = e[Len(list)]
  <2>1. Len(args) = 0
      BY TuplesAreSequences
  <2>2. Len(args) = e[Len(list)] - e[j]
      BY DEF ReadUpTo
  <2>3. e[j] \in Nat /\ e[Len(list)] \in Nat
      BY <1>1 DEF Counts
  <2> QED
      BY <2>1, <2>2, <2>3
<1>3. ASSUME NEW i \in j + 1..Len(list)
      PROVE  saved[list[i]] = Null
  <2>1. PICK n : n = Len(list)
      OBVIOUS
  <2>2. /\ i \in 1..n /\ i \in 0..n /\ i - 1 \in 0..n /\ j <= i - 1 /\ i <= n
        /\ n \in 0..n /\ j \in 0..n
      BY <1>1, <2>1
  <2>3. PICK a, b, c, d : a = e[i - 1] /\ b = e[i] /\ c = e[j] /\ d = e[n]
      OBVIOUS
  <2>4. /\ a \in Nat /\ b \in Nat /\ c \in Nat /\ d \in Nat /\ c <= a /\ b <= d /\ c = d
        /\ b = a + IF saved[list[i]] = Null THEN 0 ELSE 2
      BY <1>1, <1>2, <2>1, <2>2, <2>3 DEF Counts
  <2> QED
      BY <2>4
<1>4. ASSUME NEW o \in 1..Len(option)
      PROVE  (IF option[o].was_set THEN option[o].data ELSE Null)
                = IF saved[o] = Null THEN Null ELSE Again(o)
  <2>1. PICK i \in 1..Len(list) : list[i] = o
      BY DEF Lists
  <2>2. option[o].was_set <=> i <= j /\ saved[o] # Null
      BY <2>1 DEF ReadUpTo
  <2>3. i \in 1..j => (saved[o] # Null => option[o].data = Again(o))
      BY <2>1 DEF ReadUpTo
  <2>4. (i \in 1..j /\ i <= j) \/ (i \in j + 1..Len(list) /\ ~ (i <= j))
      BY <1>1, <2>1
  <2>5. CASE i \in 1..j /\ i <= j
      BY <2>2, <2>3, <2>5
  <2>6. CASE i \in j + 1..Len(list) /\ ~ (i <= j)
      BY <1>3, <2>1, <2>2, <2>6
  <2> QED
      BY <2>4, <2>5, <2>6
<1> QED
    BY <1>4 DEF Settings, Restored, Again

(* The end of the file.                                                    *)
LEMMA EndRound ==
    ASSUME ConfigInv, RoundInv, age # "live", EndParse
    PROVE  RoundInv'
<1>1. /\ mode \in {"cmdline", "file"} /\ args = <<>> /\ mode' = "idle"
      /\ age' = (IF age = "started" THEN "restored" ELSE age)
      /\ UNCHANGED <<option, group, members, groups, file, saved>>
    BY DEF EndParse, objects
<1>2. age # "written"
    BY <1>1, ModeAndAge
<1>3. ASSUME NEW list, SavedFits, Fitting, Lists(list), FileHolds(list), Progress(list)
      PROVE  Progress(list)'
  <2>1. age = "started" /\ mode = "file"
      BY <1>1, <1>2, <1>3, ModeAndAge DEF Progress, Ages
  <2>2. PICK j, e : j \in 0..Len(list) /\ ReadUpTo(list, e, j)
      BY <1>3, <2>1 DEF Progress
  <2>3. Restored
      BY <1>1, <1>3, <2>2, AllRead
  <2>4. Restored'
      BY <1>1, <2>3 DEF Settings, Restored
  <2> QED
      BY <1>1, <2>1, <2>4 DEF Progress
<1> QED
    BY <1>1, <1>3, ProgressKeepsRound DEF Alike, SameOption

(* Nothing of the file throws.                                             *)
LEMMA CatchRound ==
    ASSUME ConfigInv, RoundInv, age # "live", Catch
    PROVE  RoundInv'
<1>1. /\ mode = "thrown"
      /\ UNCHANGED <<option, group, members, groups, file, saved>>
    BY DEF Catch, objects
<1>2. age # "written"
    BY <1>1, ModeAndAge
<1>3. ASSUME NEW list, Progress(list)
      PROVE  FALSE
    BY <1>1, <1>2, <1>3, ModeAndAge DEF Progress, Ages
<1> QED
    BY <1>1, <1>3, ProgressKeepsRound DEF Alike, SameOption

(* Before the file is written, the steps are those of a program that lives *)
(* on, or the one that writes it; after that, most of them have ended.     *)
LEMMA StepsByAge ==
    ASSUME ConfigInv, [Next]_vars
    PROVE  \/ \E shorter \in BOOLEAN : WriteConfigFile(shorter)
           \/ Restart
           \/ age = "live" /\ age' = "live"
           \/ /\ age # "live"
              /\ \/ UNCHANGED vars \/ Parse \/ EndParse \/ Catch
                 \/ \E f : ParseConfigFile(f)
<1>1. CASE age = "live"
    BY <1>1 DEF Next, NewGroup, NewOption, SetOption, SetDefault, ParseCmdline,
                ParseConfigFile, Parse, EndParse, Catch, vars, life
<1>2. CASE age # "live"
  <2>1. ~ Idle
      BY <1>2 DEF Idle
  <2> QED
      BY <1>2, <2>1 DEF Next, NewGroup, NewOption, SetOption, SetDefault, ParseCmdline
<1> QED
    BY <1>1, <1>2

(* No step breaks the invariant behind RoundTrip.                          *)
LEMMA NextRound == ConfigInv /\ Boxes /\ RoundInv /\ [Next]_vars => RoundInv'
<1> SUFFICES ASSUME ConfigInv, Boxes, RoundInv, [Next]_vars PROVE RoundInv'
    OBVIOUS
<1>1. ASSUME NEW shorter \in BOOLEAN, WriteConfigFile(shorter) PROVE RoundInv'
    BY <1>1, WriteRound
<1>2. CASE Restart
    BY <1>2, RestartRound
<1>3. CASE age' = "live"
    BY <1>3 DEF RoundInv
<1>4. CASE age # "live" /\ Parse
    BY <1>4, ParseRound
<1>5. CASE age # "live" /\ EndParse
    BY <1>5, EndRound
<1>6. CASE age # "live" /\ Catch
    BY <1>6, CatchRound
<1>7. ASSUME age # "live", NEW f, ParseConfigFile(f) PROVE RoundInv'
    BY <1>7, FileRound
<1>8. CASE age # "live" /\ UNCHANGED vars
  <2>1. UNCHANGED <<option, group, members, groups, args, mode, file, saved, age>>
      BY <1>8 DEF vars, objects, life
  <2>2. ASSUME NEW list, Progress(list)
        PROVE  Progress(list)'
      BY <2>1, <2>2 DEF Progress, NothingSet, ReadUpTo, Counts, Shown, Again, Settings, Restored
  <2> QED
      BY <1>8, <2>1, <2>2, ProgressKeepsRound DEF Alike, SameOption
<1> QED
    BY <1>1, <1>2, <1>3, <1>4, <1>5, <1>6, <1>7, <1>8, StepsByAge

(* The config file, in the shorter form or the other, gives the next run   *)
(* back what was set, whatever is in the comments: of a double its six     *)
(* digits, of any other type the value, and no option that was not set.    *)
THEOREM FileRoundTrip == Spec => []RoundTrip
<1>1. Init => Boxes /\ RoundInv
    BY InitBoxes DEF Init, RoundInv
<1>2. ConfigInv /\ Boxes /\ RoundInv /\ [Next]_vars => Boxes' /\ RoundInv'
    BY NextBoxes, NextRound
<1>3. RoundInv => RoundTrip
  <2>1. ASSUME RoundInv, age \in {"restored", "refused"}, Fitting
        PROVE  age = "restored" /\ Restored
    <3>1. PICK list : Progress(list)
        BY <2>1 DEF RoundInv
    <3> QED
        BY <2>1, <3>1 DEF Progress
  <2> QED
      BY <2>1 DEF RoundTrip
<1> QED
    BY <1>1, <1>2, <1>3, ConfigInvariant, PTL DEF Spec
=============================================================================
