------------------------------- MODULE IniText -------------------------------
(***************************************************************************)
(* auto_imi_db_bin/src/iniparser.c on characters: what iniparser_line and  *)
(* iniparser_load make of a text, what iniparser_dump_ini writes, and what *)
(* is left of a dictionary that is written and read again.  A dictionary   *)
(* is the sequence of its entries; section entries have no value and no    *)
(* colon in their name.  Allocation does not fail here.                    *)
(***************************************************************************)
EXTENDS Integers, Sequences, FiniteSets, SequencesExt, FiniteSetsExt

CONSTANTS
    Chars,      \* the characters that the values are made of
    Lines,      \* the lines that the texts are made of, each without its newline
    MaxChars,   \* bound: characters of a value
    MaxLines,   \* bound: lines of a text
    Padding,    \* the width that dumpsection_ini pads a key to (30 in the code)
    LineSize,   \* ASCIILINESZ
    NULL

VARIABLES value, text

vars == <<value, text>>

Init == value = <<>> /\ text = <<>>

Next ==
    \/ /\ Len(value) < MaxChars /\ text = <<>>
       /\ \E c \in Chars : value' = Append(value, c)
       /\ UNCHANGED text
    \/ /\ Len(text) < MaxLines /\ value = <<>>
       /\ \E line \in Lines : text' = Append(text, line)
       /\ UNCHANGED value

-------------------------------------------------------------------------------
(* Strings.                                                                *)

Blank == {" ", "nl"}
tolower(c) == CASE c = "K" -> "k" [] c = "A" -> "a" [] OTHER -> c
strlwc(s) == [i \in DOMAIN s |-> tolower(s[i])]

strstrip(s) ==
    LET kept == {i \in DOMAIN s : s[i] \notin Blank}
    IN IF kept = {} THEN <<>> ELSE SubSeq(s, Min(kept), Max(kept))

StripEnd(s) ==
    LET kept == {i \in DOMAIN s : s[i] \notin Blank}
    IN IF kept = {} THEN <<>> ELSE SubSeq(s, 1, Max(kept))

\* "%[^...]": the characters of s before the first one of the set.
UpTo(s, stop) ==
    LET hits == {i \in DOMAIN s : s[i] \in stop}
    IN IF hits = {} THEN s ELSE SubSeq(s, 1, Min(hits) - 1)

From(s, i) == SubSeq(s, i, Len(s))

-------------------------------------------------------------------------------
(* The dictionary, as iniparser uses it.                                   *)

Entry(name, val) == [name |-> name, val |-> val]
Find(d, name) == {i \in DOMAIN d : d[i].name = name}

dictionary_set(d, name, val) ==
    IF Find(d, name) = {} THEN Append(d, Entry(name, val))
    ELSE [i \in DOMAIN d |-> IF d[i].name = name THEN Entry(name, val) ELSE d[i]]

iniparser_set(d, name, val) == dictionary_set(d, strlwc(name), val)
iniparser_unset(d, name) == SelectSeq(d, LAMBDA e : e.name # strlwc(name))
iniparser_find_entry(d, name) == Find(d, strlwc(name)) # {}
iniparser_getstring(d, name, def) ==
    IF iniparser_find_entry(d, name) THEN d[CHOOSE i \in Find(d, strlwc(name)) : TRUE].val
    ELSE def

IsSection(e) == ":" \notin ToSet(e.name)
Sections(d) == SelectSeq(d, IsSection)
iniparser_getnsec(d) == Len(Sections(d))
iniparser_getsecname(d, n) == Sections(d)[n].name

\* Fault: the colon is not compared.
KeyOfPrefix(e, s) == IsPrefix(s, e.name) /\ e.name # s

\* strncmp with "section:".
KeyOf(e, s) == IsPrefix(Append(s, ":"), e.name)
iniparser_getseckeys(d, s) == SelectSeq(d, LAMBDA e : KeyOf(e, strlwc(s)))

-------------------------------------------------------------------------------
(* Reading.                                                                *)

\* A line that sscanf finds a key and a quoted value in, with or without the
\* closing quote.
Quoted(rest, quote) == Len(rest) > 1 /\ rest[1] = quote /\ rest[2] # quote

\* What follows "=": quotes taken off, comments cut, the rest stripped.
LineValue(rest) ==
    CASE Quoted(rest, "dq") -> UpTo(From(rest, 2), {"dq"})
      [] Quoted(rest, "sq") -> UpTo(From(rest, 2), {"sq"})
      [] OTHER -> LET v == strstrip(UpTo(rest, {";", "#"}))
                  IN IF v \in {<<"dq", "dq">>, <<"sq", "sq">>} THEN <<>> ELSE v

SkipBlanks(s) ==
    LET kept == {i \in DOMAIN s : s[i] \notin Blank}
    IN IF kept = {} THEN <<>> ELSE From(s, Min(kept))

\* The name between the brackets.  With none sscanf leaves the old name in place
\* and strlwc cuts it to one character less than the line has: "[]" keeps one.
SectionName(line, section) ==
    LET name == UpTo(Tail(line), {"]"})
    IN IF name = <<>> THEN SubSeq(section, 1, Min({Len(section), Len(line) - 1}))
       ELSE strlwc(strstrip(name))

Line(status, section, key, val) ==
    [status |-> status, section |-> section, key |-> key, val |-> val]

iniparser_line(input, section) ==
    LET line == strstrip(input)
        key == UpTo(line, {"="})
    IN CASE line = <<>> -> Line("EMPTY", section, <<>>, <<>>)
         [] line # <<>> /\ line[1] \in {";", "#"} -> Line("COMMENT", section, <<>>, <<>>)
         [] line # <<>> /\ line[1] = "[" /\ line[Len(line)] = "]" ->
                Line("SECTION", SectionName(line, section), <<>>, <<>>)
         [] OTHER ->
                IF key \in {<<>>, line} THEN Line("ERROR", section, <<>>, <<>>)
                ELSE Line("VALUE", section, strlwc(strstrip(key)),
                          LineValue(SkipBlanks(From(line, Len(key) + 2))))

\* The buffer is full before the newline came.
TooLong(line) == Len(line) >= LineSize - (IF Last(line) = "nl" THEN 0 ELSE 1)

\* One fgets: a line that the buffer cannot hold ends the load, a backslash at
\* the end keeps the line for the next one, a line of one character is skipped.
ReadLine(st, piece) ==
    LET line == st.pending \o piece
        stripped == StripEnd(line)
        r == iniparser_line(stripped, st.section)
        done == [st EXCEPT !.pending = <<>>, !.section = r.section]
    IN CASE st.failed \/ Len(line) <= 1 -> st
         [] ~st.failed /\ Len(line) > 1 /\ TooLong(line) -> [st EXCEPT !.failed = TRUE]
         [] OTHER ->
              IF stripped # <<>> /\ Last(stripped) = "bs"
              THEN [st EXCEPT !.pending = Front(stripped)]
              ELSE CASE r.status = "SECTION" ->
                          [done EXCEPT !.dict = dictionary_set(st.dict, r.section, NULL)]
                     [] r.status = "VALUE" ->
                          [done EXCEPT !.dict =
                              dictionary_set(st.dict, r.section \o <<":">> \o r.key, r.val)]
                     [] r.status = "ERROR" -> [done EXCEPT !.errs = TRUE]
                     [] OTHER -> done

\* The text cut behind every newline; what follows the last one is a line too.
Pieces(s) ==
    LET ends == {i \in DOMAIN s : s[i] = "nl" \/ i = Len(s)}
        End(n) == CHOOSE i \in ends : Cardinality({j \in ends : j <= i}) = n
    IN [n \in 1 .. Cardinality(ends) |->
           SubSeq(s, IF n = 1 THEN 1 ELSE End(n - 1) + 1, End(n))]

iniparser_load(s) ==
    LET end == FoldLeft(ReadLine,
                        [dict |-> <<>>, section |-> <<>>, pending |-> <<>>,
                         errs |-> FALSE, failed |-> FALSE], Pieces(s))
    IN IF end.errs \/ end.failed THEN NULL ELSE end.dict

-------------------------------------------------------------------------------
(* Writing.                                                                *)

Padded(key) == key \o [i \in 1 .. Max({0, Padding - Len(key)}) |-> " "]

\* "%-30s = %s\n"
KeyLine(e, s) ==
    Padded(From(e.name, Len(s) + 2)) \o <<" ", "=", " ">>
        \o (IF e.val = NULL THEN <<>> ELSE e.val) \o <<"nl">>

iniparser_dumpsection_ini(d, s) ==
    <<"nl", "[">> \o s \o <<"]", "nl">>
    \o FlattenSeq([i \in DOMAIN d |-> IF KeyOf(d[i], s) THEN KeyLine(d[i], s) ELSE <<>>])
    \o <<"nl">>

\* Without a section the names are written as they are, colon included.
iniparser_dump_ini(d) ==
    IF iniparser_getnsec(d) < 1
    THEN FlattenSeq([i \in DOMAIN d |->
                        d[i].name \o <<" ", "=", " ">> \o d[i].val \o <<"nl">>])
    ELSE FlattenSeq([n \in 1 .. iniparser_getnsec(d) |->
                        iniparser_dumpsection_ini(d, iniparser_getsecname(d, n))]) \o <<"nl">>

-------------------------------------------------------------------------------
(* Types: the values and texts made so far.                                *)
TypeOK ==
    /\ value \in Seq(Chars) /\ Len(value) <= MaxChars
    /\ text \in Seq(Lines) /\ Len(text) <= MaxLines

\* A dictionary with a section and two keys, of which the first has the value.
Settings == iniparser_set(iniparser_set(iniparser_set(<<>>, <<"a">>, NULL),
                                        <<"A", ":", "K">>, value), <<"a", ":", "j">>, <<"x">>)

\* The values that survive: no blank at an end, no comment sign or newline,
\* no quotes that look like quoting, no backslash at the end, not too long.
Plain(v) ==
    /\ strstrip(v) = v
    /\ ToSet(v) \cap {";", "#", "nl"} = {}
    /\ ~Quoted(v, "dq") /\ ~Quoted(v, "sq")
    /\ v \notin {<<"dq", "dq">>, <<"sq", "sq">>}
    /\ v = <<>> \/ Last(v) # "bs"
    /\ Max({1, Padding}) + 3 + Len(v) + 1 < LineSize

(* iniparser_dump_ini quotes nothing: a dictionary that is written and     *)
(* loaded again is the same exactly if the value is plain, and then the    *)
(* key behind it is unharmed too.                                          *)
SurvivesIffPlain ==
    (iniparser_load(iniparser_dump_ini(Settings)) = Settings) <=> Plain(value)

\* The text of the lines, and what its lines say.
Text == FlattenSeq([i \in DOMAIN text |-> Append(text[i], "nl")])
Header(i) == text[i][1] = "["
SectionAt(i) ==
    LET named == {k \in 1 .. i : Header(k) /\ Len(text[k]) > 2}
        name == SubSeq(strlwc(text[Max(named)]), 2, Len(text[Max(named)]) - 1)
    IN CASE named = {} -> <<>>
         [] named # {} /\ \E k \in Max(named) + 1 .. i : Header(k) -> <<name[1]>>
         [] OTHER -> name
NameAt(i) == SectionAt(i) \o <<":">> \o strlwc(strstrip(UpTo(text[i], {"="})))
ValueAt(i) == From(text[i], Len(text[i]))
Asked(name) == {i \in DOMAIN text : ~Header(i) /\ NameAt(i) = name}

\* Another way to write a name.
Upper(name) == [k \in DOMAIN name |-> IF name[k] = "k" THEN "K" ELSE name[k]]

(* Every key of a text is found under its section, whatever the case of    *)
(* the name asked for, and has the value of the last line that sets it,    *)
(* until it is unset; the keys listed for a section are the ones set under *)
(* it.                                                                     *)
LoadMatchesLines ==
    LET d == iniparser_load(Text)
    IN /\ \A i \in DOMAIN text : ~Header(i) =>
             /\ iniparser_getstring(d, Upper(NameAt(i)), NULL) = ValueAt(Max(Asked(NameAt(i))))
             /\ ToSet(iniparser_unset(d, Upper(NameAt(i))))
                    = {e \in ToSet(d) : e.name # NameAt(i)}
       /\ \A i \in DOMAIN text : Header(i) =>
             {e.name : e \in ToSet(iniparser_getseckeys(d, SectionAt(i)))}
                 = {NameAt(k) : k \in {k \in DOMAIN text : ~Header(k)
                                                         /\ SectionAt(k) = SectionAt(i)}}

\* The entries of a dictionary, whatever their order.
Entries(d) == IF d = NULL THEN NULL ELSE ToSet(d)

(* A save keeps every entry exactly if every key stands under a section    *)
(* header, the empty one included: those before the first header are       *)
(* dropped, or get another colon in front when there is no section at all. *)
SaveKeepsEntries ==
    LET d == iniparser_load(Text)
    IN (Entries(iniparser_load(iniparser_dump_ini(d))) = Entries(d))
         <=> \A i \in DOMAIN text :
                \E k \in DOMAIN text : Header(k) /\ SectionAt(k) = SectionAt(i)
=============================================================================
