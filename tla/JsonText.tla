------------------------------ MODULE JsonText ------------------------------
(***************************************************************************)
(* The parser and the printer of 20170801/cjson.c.  A text is a sequence   *)
(* of tokens, typed one at a time; the parser reads it with the            *)
(* terminating NUL behind it and builds a tree on a heap where any one     *)
(* allocation may fail; the printer writes a tree into a buffer that grows *)
(* through ensure, or into one of a given size.  Offsets of the parser     *)
(* count tokens, those of the printer characters.                          *)
(***************************************************************************)
EXTENDS JsonHeap

CONSTANTS MaxTokens,      \* length of a text
          MaxBlanks,      \* white space in it
          IntMax,         \* INT_MAX
          NestingLimit,   \* CJSON_NESTING_LIMIT
          Infinite,       \* the value of a number beyond the range of a double
          Alphabet        \* the tokens that are typed

VARIABLE text

(* A token: punctuation and literals by themselves, a string with its name *)
(* (0: an escape that cannot be decoded), a number with its value; "quote" *)
(* is a string that does not end, "minus" a sign without digits.           *)
Token(t, v) == [tok |-> t, val |-> v]
Sym(t) == Token(t, 0)
Punctuation == {"[", "]", "{", "}", ",", ":"}
Literals == {"null", "true", "false"}
LiteralType(t) == CASE t = "null" -> "NULL" [] t = "true" -> "True" [] t = "false" -> "False"

-----------------------------------------------------------------------------
(***************************************************************************)
(* The parser.  b is the parse_buffer with the heap: offset, depth, and    *)
(* whether the last function returned true; when it did not, the functions *)
(* that would come next leave b as it is, the code's jump to fail.         *)
(***************************************************************************)
Buffer(m) == [m |-> m, off |-> 0, depth |-> 0, ok |-> TRUE]
At(s, b) == s[b.off + 1]
Step(b) == [b EXCEPT !.off = @ + 1]
FailAt(b) == [b EXCEPT !.ok = FALSE]

(* The NUL is white space too; at the very end one step back.              *)
buffer_skip_whitespace(s, b) ==
    LET next == {k \in b.off..(Len(s) - 1) : s[k + 1].tok \notin {"ws", "NUL"}} IN
    IF ~b.ok THEN b ELSE [b EXCEPT !.off = IF next = {} THEN Len(s) - 1 ELSE Min(next)]

parse_number(s, b, item) ==
    IF At(s, b).tok = "minus" THEN FailAt(b)
    ELSE Step([b EXCEPT !.m.items[item].type = "Number", !.m.items[item].num = At(s, b).val])

(* Without an opening or a closing quote the offset is already past the    *)
(* first character.                                                        *)
parse_string(s, b, item) ==
    LET t == At(s, b)
        d == cJSON_strdup(b.m, -t.val)
    IN  IF t.tok # "str" THEN FailAt(Step(b))
        ELSE IF t.val = 0 THEN FailAt(b)
        ELSE IF d.p = Null THEN [FailAt(b) EXCEPT !.m = d.m]
        ELSE Step([b EXCEPT !.m = [d.m EXCEPT !.items[item].type = "String",
                                              !.items[item].value = d.p]])

RECURSIVE parse_value(_, _, _)
RECURSIVE ParseElements(_, _, _, _, _)

\* Fault: the items parsed so far are not deleted.
AbandonKeeping(b, head) == FailAt(b)

Abandon(b, head) == [FailAt(b) EXCEPT !.m = cJSON_Delete(b.m, head)]

(* The name of an object's member, up to the value behind the colon.       *)
AsName(b, item) ==
    IF ~b.ok THEN b
    ELSE [b EXCEPT !.m.items[item].string = b.m.items[item].value, !.m.items[item].value = Null]

PastColon(s, b) ==
    IF ~b.ok THEN b ELSE IF At(s, b).tok # ":" THEN FailAt(b) ELSE Step(b)

ParseName(s, b, item) ==
    buffer_skip_whitespace(s,
        PastColon(s, AsName(buffer_skip_whitespace(s, parse_string(s, b, item)), item)))

Close(kind) == IF kind = "Object" THEN "}" ELSE "]"

(* Behind an element: the next one, the end of the list, or an error.      *)
AfterElement(s, b, kind, head, last) ==
    IF ~b.ok THEN <<Abandon(b, head), Null>>
    ELSE IF At(s, b).tok = "," THEN ParseElements(s, b, kind, head, last)
    ELSE IF At(s, b).tok = Close(kind) THEN <<b, head>>
    ELSE <<Abandon(b, head), Null>>

(* An element, in the new item r.p, behind last.                           *)
ParseElement(s, b, kind, last, r) ==
    LET b1 == buffer_skip_whitespace(s, Step([b EXCEPT !.m =
                IF last = Null THEN r.m ELSE suffix_object(r.m, last, r.p)]))
        b2 == IF kind = "Object" THEN ParseName(s, b1, r.p) ELSE b1
    IN  buffer_skip_whitespace(s, parse_value(s, b2, r.p))

(* The do-while loop over the elements, from the token before one; the     *)
(* result's head is the list built.                                        *)
ParseElements(s, b, kind, head, last) ==
    LET r == cJSON_New_Item(b.m) IN
    IF r.p = Null THEN <<Abandon([b EXCEPT !.m = r.m], head), Null>>
    ELSE AfterElement(s, ParseElement(s, b, kind, last, r), kind,
                      IF head = Null THEN r.p ELSE head, r.p)

TooDeep(depth) == depth >= NestingLimit

(* parse_array and parse_object; e is the buffer and the list of elements. *)
Contain(item, kind, e) ==
    IF ~e[1].ok THEN e[1]
    ELSE Step([e[1] EXCEPT !.depth = @ - 1, !.m.items[item].type = kind,
                           !.m.items[item].child = e[2]])

ParseContainer(s, b, item, kind) ==
    LET b1 == buffer_skip_whitespace(s, Step([b EXCEPT !.depth = @ + 1])) IN
    IF TooDeep(b.depth) THEN FailAt(b)
    ELSE Contain(item, kind,
            IF At(s, b1).tok = Close(kind) THEN <<b1, Null>>
            ELSE ParseElements(s, [b1 EXCEPT !.off = @ - 1], kind, Null, Null))

parse_value(s, b, item) ==
    LET t == At(s, b).tok IN
    CASE ~b.ok -> b
      [] b.ok /\ t \in Literals -> Step([b EXCEPT !.m.items[item].type = LiteralType(t)])
      [] b.ok /\ t \in {"str", "quote"} -> parse_string(s, b, item)
      [] b.ok /\ t \in {"num", "minus"} -> parse_number(s, b, item)
      [] b.ok /\ t \in {"[", "{"} ->
            ParseContainer(s, b, item, IF t = "[" THEN "Array" ELSE "Object")
      [] OTHER -> FailAt(b)

(* The tree or NULL, where the text was left or found wrong.               *)
ParseResult(s, b, root, require_null_terminated) ==
    IF b.ok /\ (require_null_terminated => At(s, b).tok = "NUL")
    THEN [m |-> b.m, p |-> root, end |-> b.off]
    ELSE [m |-> cJSON_Delete(b.m, root), p |-> Null,
          end |-> IF b.off < Len(s) THEN b.off ELSE Len(s) - 1]

ParseRoot(s, b, root, require_null_terminated) ==
    LET v == parse_value(s, buffer_skip_whitespace(s, b), root) IN
    IF require_null_terminated THEN buffer_skip_whitespace(s, v) ELSE v

cJSON_ParseWithOpts(m, t, require_null_terminated) ==
    LET s == Append(t, Sym("NUL"))
        r == cJSON_New_Item(m)
    IN  IF r.p = Null THEN [m |-> r.m, p |-> Null, end |-> 0]
        ELSE ParseResult(s, ParseRoot(s, Buffer(r.m), r.p, require_null_terminated),
                         r.p, require_null_terminated)

-----------------------------------------------------------------------------
(***************************************************************************)
(* The printer.  p is the printbuffer: its size and offset, the tokens     *)
(* written, the number of buffers allocated, the allocations left before   *)
(* one fails (0: none fails), whether the buffer pointer is NULL, and      *)
(* whether something was written outside it.                               *)
(***************************************************************************)
InitHooks(own) == [reallocate |-> ~own]

PrintBuffer(length, noalloc, format, hooks, left, buffers) ==
    [length |-> length, off |-> 0, depth |-> 0, noalloc |-> noalloc, format |-> format,
     hooks |-> hooks, left |-> left, buffers |-> buffers, null |-> FALSE,
     out |-> <<>>, ok |-> TRUE, bad |-> FALSE]

Width(t) ==
    CASE t.tok \in {"null", "true"} -> 4
      [] t.tok = "false" -> 5
      [] t.tok = "str" -> IF t.val = 3 THEN 4 ELSE 3   \* the line feed is escaped
      [] t.tok = "num" -> 2
      [] t.tok = "raw" -> 1
      [] OTHER -> 1

WidthOf(toks) == FoldSeq(LAMBDA t, w : Width(t) + w, 0, toks)

Lose(p) == [p EXCEPT !.ok = FALSE]

\* Fault: no room for the NUL that print_number leaves out of its request.
RequestBare(p, needed) == needed + p.off

Request(p, needed) == needed + p.off + 1

DropBuffer(p) == [p EXCEPT !.ok = FALSE, !.length = 0, !.null = TRUE, !.buffers = @ - 1]

ensure(p, needed) ==
    LET need == Request(p, needed)
        size == IF need > IntMax \div 2 THEN IntMax ELSE need * 2
        q    == [p EXCEPT !.left = IF @ = 0 THEN 0 ELSE @ - 1]
    IN  IF p.null THEN Lose(p)
        ELSE IF p.length > 0 /\ p.off >= p.length THEN Lose(p)
        ELSE IF needed > IntMax THEN Lose(p)
        ELSE IF need <= p.length THEN p
        ELSE IF p.noalloc THEN Lose(p)
        ELSE IF need > IntMax THEN Lose(p)
        ELSE IF p.left = 1 THEN DropBuffer(q)
        ELSE [q EXCEPT !.length = size]

Write(p, toks, nul) ==
    LET end == p.off + WidthOf(toks) + (IF nul THEN 1 ELSE 0) IN
    IF ~p.ok THEN p
    ELSE [p EXCEPT !.out = @ \o toks, !.off = @ + WidthOf(toks), !.bad = @ \/ end > p.length]

(* Reserve, write the tokens (and a NUL), move on.  After a failure the    *)
(* code returns: nothing more is reserved or written.                      *)
Put(p, needed, toks, nul) == IF ~p.ok THEN p ELSE Write(ensure(p, needed), toks, nul)

Tabs(n) == [i \in 1..n |-> Sym("ws")]
Layout(p, toks) == IF p.format THEN toks ELSE <<>>

print_string_ptr(m, s, p) ==
    IF s = Null THEN Put(p, 3, <<Sym("empty")>>, TRUE)
    ELSE LET t == Token("str", Text(m, s)) IN Put(p, Width(t) + 1, <<t>>, TRUE)

NumberBuffer == 26

(* A finite double is printed with the digits it needs to be recovered;    *)
(* infinity, which has no digits, as null.                                 *)
Digits(v) == IF v = Infinite THEN Sym("null") ELSE Token("num", v)

print_number(v, p) ==
    LET t == Digits(v) IN
    IF Width(t) > NumberBuffer - 1 THEN Lose(p) ELSE Put(p, Width(t), <<t>>, TRUE)

(* A raw item without text frees the buffer that its caller will free too. *)
PrintRaw(m, s, p) ==
    LET t == Token("raw", Text(m, s)) IN
    IF s # Null THEN Put(p, Width(t) + 1, <<t>>, TRUE)
    ELSE IF p.noalloc THEN Lose(p) ELSE [Lose(p) EXCEPT !.buffers = @ - 1]

RECURSIVE print_value(_, _, _)

\* Fault: a comma behind the last member too.
CommaAlways(next) == <<Sym(",")>>

CommaBefore(next) == IF next = Null THEN <<>> ELSE <<Sym(",")>>

(* In front of a member: the indentation, its name and the colon.          *)
PrintName(m, i, p) ==
    LET colon == <<Sym(":")>> \o Layout(p, <<Sym("ws")>>)
        q == IF p.format THEN Put(p, p.depth, Tabs(p.depth), FALSE) ELSE p
    IN  Put(print_string_ptr(m, m.items[i].string, q), Len(colon), colon, FALSE)

(* Behind an element of an array, behind a member of an object.            *)
PrintTail(next, kind, p) ==
    LET tail == CommaBefore(next) \o Layout(p, <<Sym("ws")>>) IN
    IF kind = "Array" /\ next = Null THEN p ELSE Put(p, Len(tail) + 1, tail, TRUE)

(* The elements from i on, with what stands between and behind them.       *)
RECURSIVE PrintFrom(_, _, _, _)
PrintFrom(m, i, kind, p) ==
    LET next == m.items[i].next
        q    == IF kind = "Object" THEN PrintName(m, i, p) ELSE p
    IN  IF i = Null \/ ~p.ok THEN p
        ELSE PrintFrom(m, next, kind, PrintTail(next, kind, print_value(m, i, q)))

Deeper(p)    == [p EXCEPT !.depth = @ + 1]
Shallower(p) == [p EXCEPT !.depth = @ - 1]

print_array(m, item, p) ==
    LET q == Deeper(Put(p, 1, <<Sym("[")>>, FALSE))
        r == PrintFrom(m, m.items[item].child, "Array", q)
    IN  Shallower(Put(r, 2, <<Sym("]")>>, TRUE))

print_object(m, item, p) ==
    LET open  == <<Sym("{")>> \o Layout(p, <<Sym("ws")>>)
        close == Layout(p, Tabs(p.depth)) \o <<Sym("}")>>
        q == Deeper(Put(p, Len(open) + 1, open, FALSE))
        r == PrintFrom(m, m.items[item].child, "Object", q)
    IN  Shallower(Put(r, IF p.format THEN p.depth + 2 ELSE 2, close, TRUE))

print_value(m, item, p) ==
    LET n == m.items[item] IN
    IF ~p.ok THEN p
    ELSE IF item = Null THEN Lose(p)
    ELSE CASE n.type = "NULL"   -> Put(p, 5, <<Sym("null")>>, TRUE)
           [] n.type = "False"  -> Put(p, 6, <<Sym("false")>>, TRUE)
           [] n.type = "True"   -> Put(p, 5, <<Sym("true")>>, TRUE)
           [] n.type = "Number" -> print_number(n.num, p)
           [] n.type = "Raw"    -> PrintRaw(m, n.value, p)
           [] n.type = "String" -> print_string_ptr(m, n.value, p)
           [] n.type = "Array"  -> print_array(m, item, p)
           [] n.type = "Object" -> print_object(m, item, p)
           [] OTHER -> Lose(p)

(* print: on failure the buffer, if there still is one, is freed; on       *)
(* success it is shrunk by realloc or copied.  A realloc that fails leaves *)
(* the old buffer behind, since buffer->buffer is NULL by then.            *)
Freed(p) == IF p.null THEN p ELSE [p EXCEPT !.buffers = @ - 1]

Shrunk(p) ==
    IF ~p.ok THEN Freed(p)
    ELSE IF p.left # 1 THEN p
    ELSE IF p.hooks.reallocate THEN Lose(p) ELSE Freed(Lose(p))

print(m, item, format, own, left) ==
    LET p == PrintBuffer(0, FALSE, format, InitHooks(own), IF left = 0 THEN 0 ELSE left - 1, 1)
    IN  IF left = 1 THEN [Lose(p) EXCEPT !.buffers = 0] ELSE Shrunk(print_value(m, item, p))

cJSON_PrintPreallocated(m, item, len, format) ==
    print_value(m, item, PrintBuffer(len, TRUE, format, InitHooks(FALSE), 0, 0))

FreedIfLost(p) == IF p.ok THEN p ELSE Freed(p)

cJSON_PrintBuffered(m, item, prebuffer, format, left) ==
    LET p == PrintBuffer(prebuffer, FALSE, format, InitHooks(FALSE), IF left = 0 THEN 0 ELSE left - 1, 1)
    IN  IF left = 1 THEN [Lose(p) EXCEPT !.buffers = 0] ELSE FreedIfLost(print_value(m, item, p))

-----------------------------------------------------------------------------
(***************************************************************************)
(* Texts grow until the parser has found an error before their end or a    *)
(* whole value: from there on it reads no further.  Two numbers side by    *)
(* side would be one.                                                      *)
(***************************************************************************)
Parsed(left, require) == cJSON_ParseWithOpts(NewMem(left), text, require)

Init == text = <<>>

Type(t) ==
    /\ Len(text) < MaxTokens
    /\ Parsed(0, TRUE).end = Len(text)
    /\ t.tok = "ws" => Cardinality({k \in DOMAIN text : text[k].tok = "ws"}) < MaxBlanks
    /\ text # <<>> => ~ {t.tok, Last(text).tok} \subseteq {"num", "minus"}
    /\ text' = Append(text, t)

Next == \E t \in Alphabet : Type(t)

Spec == Init /\ [][Next]_text

-----------------------------------------------------------------------------
(* A text is a sequence of tokens of the alphabet.                         *)
TypeOK == text \in Seq(Alphabet) /\ Len(text) <= MaxTokens

(* JSON, by its grammar: a sequence of tokens without white space is a     *)
(* value nested at most d deep.                                            *)
GoodString(t) == t.tok = "str" /\ t.val # 0

RECURSIVE IsValue(_, _)
RECURSIVE IsList(_, _, _)
IsMember(s, d, named) ==
    IF named THEN /\ Len(s) > 2 /\ GoodString(s[1]) /\ s[2].tok = ":"
                  /\ IsValue(SubSeq(s, 3, Len(s)), d)
    ELSE IsValue(s, d)
IsList(s, d, named) ==
    \/ IsMember(s, d, named)
    \/ \E k \in 2..(Len(s) - 1) :
         /\ s[k].tok = "," /\ IsMember(SubSeq(s, 1, k - 1), d, named)
         /\ IsList(SubSeq(s, k + 1, Len(s)), d, named)
IsValue(s, d) ==
    \/ Len(s) = 1 /\ (s[1].tok \in Literals \cup {"num"} \/ GoodString(s[1]))
    \/ /\ Len(s) > 1 /\ d > 0
       /\ <<s[1].tok, Last(s).tok>> \in {<<"[", "]">>, <<"{", "}">>}
       /\ Len(s) = 2 \/ IsList(SubSeq(s, 2, Len(s) - 1), d - 1, s[1].tok = "{")

(* The recursive descent parser, with its stepping back and forth over     *)
(* white space and the NUL, accepts the texts that begin with a JSON value *)
(* within the nesting limit, and those that are one when the NUL is        *)
(* required: no more and no less.                                          *)
ParserMatchesGrammar ==
    LET s == SelectSeq(text, LAMBDA t : t.tok # "ws") IN
    /\ Parsed(0, TRUE).p # Null <=> IsValue(s, NestingLimit)
    /\ Parsed(0, FALSE).p # Null <=>
         \E k \in 1..Len(s) : IsValue(SubSeq(s, 1, k), NestingLimit)

(* The items below i, i included.                                          *)
RECURSIVE TreeOf(_, _)
TreeOf(m, i) == {i} \cup UNION {TreeOf(m, c) : c \in Range(ChildrenOf(m, i))}

Pointers(m) == {<<i, f>> \in Live(m) \X {"value", "string"} : m.items[i][f] # Null}

(* Whatever is wrong with the text and whichever allocation fails, a parse *)
(* that returns NULL has freed every item and string it made, and one that *)
(* succeeds returns a tree that owns them all, each string once.           *)
ParseAllOrNothing ==
    \A left \in 0..(Len(text) + 1), require \in BOOLEAN :
        \A r \in {Parsed(left, require)} :
        /\ ~r.m.bad /\ r.end \in 0..Len(text)
        /\ IF r.p = Null THEN Live(r.m) = {} /\ LiveStrs(r.m) = {}
           ELSE /\ Live(r.m) = TreeOf(r.m, r.p)
                /\ LiveStrs(r.m) = {r.m.items[q[1]][q[2]] : q \in Pointers(r.m)}
                /\ Cardinality(LiveStrs(r.m)) = Cardinality(Pointers(r.m))

(* Two members of one name in an object below i are equal themselves.      *)
SameNameSameValue(m, i, cs) ==
    \A o \in TreeOf(m, i) : \A a, b \in Range(ChildrenOf(m, o)) :
        LET n == m.items[a].string
            k == m.items[b].string
        IN  n # Null /\ (IF cs THEN Text(m, n) = Text(m, k) ELSE case_insensitive_strcmp(m, n, k))
              => cJSON_Compare(m, a, b, cs)

(* cJSON_Compare finds a copy equal to its original exactly when members   *)
(* of one name are equal: of two, both are compared with the first.        *)
DuplicateEqual ==
    \A r \in {Parsed(0, TRUE)} : r.p # Null =>
        \A d \in {cJSON_Duplicate(r.m, r.p, TRUE)}, cs \in BOOLEAN : d.p # Null =>
            cJSON_Compare(d.m, r.p, d.p, cs) <=> SameNameSameValue(r.m, r.p, cs)

(* The order of its arguments does not matter to cJSON_Compare.            *)
CompareSymmetric ==
    \A r \in {Parsed(0, TRUE)} : \A i, j \in Live(r.m), cs \in BOOLEAN :
        cJSON_Compare(r.m, i, j, cs) <=> cJSON_Compare(r.m, j, i, cs)

(* The memory with every infinite number turned into a null.               *)
InfiniteAsNull(m) ==
    [m EXCEPT !.items = [i \in 1..MaxItems |->
        IF m.items[i].type = "Number" /\ m.items[i].num = Infinite
        THEN [m.items[i] EXCEPT !.type = "NULL"] ELSE m.items[i]]]

(* What is printed, formatted or not, is read back as an equal tree, but   *)
(* that infinite numbers come back as null.                                *)
RoundTrip ==
    \A r \in {Parsed(0, TRUE)}, format \in BOOLEAN : r.p # Null =>
        \A w \in {print(r.m, r.p, format, FALSE, 0)} : w.ok =>
            \A q \in {cJSON_ParseWithOpts(r.m, w.out, TRUE)} : ~q.m.failed =>
                /\ q.p # Null
                /\ SameNameSameValue(InfiniteAsNull(r.m), r.p, TRUE) =>
                      cJSON_Compare(InfiniteAsNull(q.m), r.p, q.p, TRUE)

(* The memory with every string made by cJSON_CreateRaw.                   *)
StringsAsRaw(m) ==
    [m EXCEPT !.items = [i \in 1..MaxItems |->
        IF m.items[i].type = "String" THEN [m.items[i] EXCEPT !.type = "Raw"] ELSE m.items[i]]]

(* No print writes outside its buffer: what ensure was asked for and the   *)
(* one byte it adds cover every write, in a buffer that grows, in one that *)
(* cannot, with realloc or without, and whichever allocation fails, for    *)
(* parsed trees and the same trees with raw text for strings.              *)
PrintFits ==
    \A r \in {Parsed(0, TRUE)}, format \in BOOLEAN : r.p # Null =>
        \A m \in {r.m, StringsAsRaw(r.m)} :
          /\ \A own \in BOOLEAN, left \in 0..4 : ~print(m, r.p, format, own, left).bad
          /\ \A len \in 0..(3 * Len(text) + 6) :
               /\ ~cJSON_PrintPreallocated(m, r.p, len, format).bad
               /\ ~cJSON_PrintBuffered(m, r.p, len, format, 0).bad

(* "to be safe allocate 5 bytes more than you actually need": one byte     *)
(* more than the text and its NUL is enough, and less than both never is.  *)
PreallocatedSuffices ==
    \A r \in {Parsed(0, TRUE)}, format \in BOOLEAN : r.p # Null =>
        \A w \in {print(r.m, r.p, format, FALSE, 0)} : w.ok =>
            \A len \in 0..(WidthOf(w.out) + 6) :
                \A q \in {cJSON_PrintPreallocated(r.m, r.p, len, format)} :
                    /\ len >= WidthOf(w.out) + 2 => q.ok /\ q.out = w.out
                    /\ q.ok => len > WidthOf(w.out)

(* A print that fails leaves no buffer behind and one that succeeds leaves *)
(* the one it returns, except that print loses the whole text when the     *)
(* last realloc fails.                                                     *)
PrintFreesBuffers ==
    \A r \in {Parsed(0, TRUE)}, format, own \in BOOLEAN, left \in 0..4 : r.p # Null =>
        /\ \A w \in {print(r.m, r.p, format, own, left)} :
             IF w.ok THEN w.buffers = 1
             ELSE w.buffers = 0 \/ (~own /\ w.out = print(r.m, r.p, format, own, 0).out)
        /\ \A b \in {cJSON_PrintBuffered(r.m, r.p, 3, format, left)} :
             b.buffers = IF b.ok THEN 1 ELSE 0
=============================================================================
