----------------------------- MODULE JsonString -----------------------------
(***************************************************************************)
(* How 20170801/cjson.c reads and writes string literals.  A literal is a  *)
(* sequence of lexemes between its quotes: a plain character, a backslash  *)
(* with one letter, a \uXXXX code unit, a \u without four hex digits and a *)
(* backslash with a letter that means nothing.  A string is a sequence of  *)
(* bytes.  Literals are typed one lexeme at a time.                        *)
(***************************************************************************)
EXTENDS Integers, Sequences, SequencesExt, FiniteSetsExt

CONSTANTS Lexemes, MaxLexemes

VARIABLE lit

Plain(c)  == [kind |-> "plain", code |-> c]
Escape(c) == [kind |-> "escape", code |-> c]
Unit(u)   == [kind |-> "unit", code |-> u]
BadHex    == [kind |-> "badhex", code |-> 0]
BadEscape == [kind |-> "badescape", code |-> 0]

Init == lit = <<>>
TypeLexeme(x) == Len(lit) < MaxLexemes /\ lit' = Append(lit, x)
Next == \E x \in Lexemes : TypeLexeme(x)
Spec == Init /\ [][Next]_lit

-----------------------------------------------------------------------------
Quote == 34
Backslash == 92
ShortEscapes == {Quote, Backslash, 8, 9, 10, 12, 13}

Chars(x) == CASE x.kind = "plain" -> 1 [] x.kind \in {"escape", "badescape"} -> 2 [] OTHER -> 6
SumOver(s, W(_)) == FoldSeq(LAMBDA x, n : W(x) + n, 0, s)

(* What parse_string allocates: the characters from the opening quote on,  *)
(* less one for each backslash, and the NUL.                               *)

AllocationLength(s) == 2 + SumOver(s, LAMBDA x : IF x.kind = "plain" THEN 1 ELSE Chars(x) - 1)

(* Invalid digits read as 0.                                               *)
parse_hex4(x) == IF x.kind = "badhex" THEN 0 ELSE x.code

HighSurrogate(u) == u \in 55296..56319     \* 0xD800..0xDBFF
LowSurrogate(u)  == u \in 56320..57343     \* 0xDC00..0xDFFF

\* Fault: the 0x10000 that a surrogate pair starts from is forgotten.
PairBare(hi, lo) == (hi % 1024) * 1024 + (lo % 1024)

Pair(hi, lo) == 65536 + (hi % 1024) * 1024 + (lo % 1024)

(* The bytes of a code point: six bits in every byte but the first.        *)
Encode(cp) ==
    LET n == CASE cp < 128 -> 1 [] cp < 2048 -> 2 [] cp < 65536 -> 3 [] OTHER -> 4
        mark == CASE n = 1 -> 0 [] n = 2 -> 192 [] n = 3 -> 224 [] n = 4 -> 240
        Low(k) == 128 + ((cp \div 64^k) % 64)
    IN  [i \in 1..n |-> IF i > 1 THEN Low(n - i)
                        ELSE mark + (cp \div 64^(n - 1))]

(* The loop of parse_string over the literal: its bytes, or not ok.        *)
RECURSIVE Unescape(_)
Unescape(s) ==
    LET x == Head(s)
        u == parse_hex4(x)
        Then(bytes, k) ==
            LET rest == Unescape(SubSeq(s, k + 1, Len(s))) IN
            [rest EXCEPT !.bytes = bytes \o @]
        Bad == [ok |-> FALSE, bytes |-> <<>>]
        paired == Len(s) > 1 /\ s[2].kind \in {"unit", "badhex"} /\ LowSurrogate(parse_hex4(s[2]))
    IN  IF s = <<>> THEN [ok |-> TRUE, bytes |-> <<>>]
        ELSE CASE x.kind \in {"plain", "escape"} -> Then(<<x.code>>, 1)
               [] x.kind = "badescape" -> Bad
               [] OTHER -> IF LowSurrogate(u) THEN Bad
                           ELSE IF ~HighSurrogate(u) THEN Then(Encode(u), 1)
                           ELSE IF paired THEN Then(Encode(Pair(u, parse_hex4(s[2]))), 2)
                           ELSE Bad

(* A string ends at its first zero byte.                                   *)
CString(bytes) ==
    LET zeros == {i \in DOMAIN bytes : bytes[i] = 0} IN
    IF zeros = {} THEN bytes ELSE SubSeq(bytes, 1, Min(zeros) - 1)

(* print_string_ptr counts first and writes then.                          *)

EscapeCharacters(b) == IF b \in ShortEscapes THEN 1 ELSE IF b < 32 THEN 5 ELSE 0

OutputLength(bytes) == Len(bytes) + SumOver(bytes, EscapeCharacters)

print_string_ptr(bytes) ==
    [i \in DOMAIN bytes |->
        LET b == bytes[i] IN
        IF b > 31 /\ b \notin {Quote, Backslash} THEN Plain(b)
        ELSE IF b \in ShortEscapes THEN Escape(b) ELSE Unit(b)]

-----------------------------------------------------------------------------
(* A literal is a sequence of lexemes.                                     *)
TypeOK == lit \in Seq(Lexemes) /\ Len(lit) <= MaxLexemes

(* The decoded string and its NUL fit into what the first pass over the    *)
(* literal allocates for them.                                             *)
UnescapeFits == Unescape(lit).ok => Len(Unescape(lit).bytes) + 1 <= AllocationLength(lit)

(* UTF-8 read by its own definition.                                       *)
RECURSIVE Decode(_)
Decode(b) ==
    LET n == CASE b[1] < 128 -> 1 [] b[1] \in 192..223 -> 2 [] b[1] \in 224..239 -> 3 [] OTHER -> 4
        first == CASE n = 1 -> b[1] [] n = 2 -> b[1] - 192 [] n = 3 -> b[1] - 224 [] OTHER -> b[1] - 240
        cp == FoldLeft(LAMBDA v, x : v * 64 + (x - 128), first, SubSeq(b, 2, n))
    IN  IF b = <<>> THEN <<>> ELSE <<cp>> \o Decode(SubSeq(b, n + 1, Len(b)))

(* The characters a literal stands for: a unit that is no surrogate, or    *)
(* two that are a pair.                                                    *)
RECURSIVE CodePoints(_)
CodePoints(s) ==
    IF s = <<>> THEN <<>>
    ELSE IF HighSurrogate(s[1].code)
    THEN <<(s[1].code - 55296) * 1024 + (s[2].code - 56320) + 65536>> \o CodePoints(SubSeq(s, 3, Len(s)))
    ELSE <<s[1].code>> \o CodePoints(Tail(s))

(* At every boundary of the encoding the bytes are the UTF-8 of the        *)
(* characters the literal stands for.                                      *)
Utf8Exact ==
    LET u == Unescape(lit) IN u.ok => Decode(u.bytes) = CodePoints(lit)

(* A string that is printed and parsed again is the same string, up to the *)
(* zero byte an escape may have put in it, and the literal is as long as   *)
(* print_string_ptr counted before it placed the closing quote.            *)
StringRoundTrip ==
    LET u == Unescape(lit)
        c == CString(u.bytes)
        w == print_string_ptr(c)
    IN  u.ok => /\ Unescape(w) = [ok |-> TRUE, bytes |-> c]
                /\ SumOver(w, Chars) = OutputLength(c)
=============================================================================
