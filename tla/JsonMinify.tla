----------------------------- MODULE JsonMinify -----------------------------
(***************************************************************************)
(* cJSON_Minify of 20170801/cjson.c, over a text of characters that is     *)
(* typed one at a time: blank, line feed, slash, star, quote, backslash    *)
(* and any other.                                                          *)
(***************************************************************************)
EXTENDS Integers, Sequences, SequencesExt, FiniteSetsExt

CONSTANT MaxChars

VARIABLE json

Char == {"sp", "nl", "/", "*", "q", "bs", "x"}

Init == json = <<>>
TypeChar(c) == Len(json) < MaxChars /\ json' = Append(json, c)
Next == \E c \in Char : TypeChar(c)
Spec == Init /\ [][Next]_json

-----------------------------------------------------------------------------
At(s, i) == IF i <= Len(s) THEN s[i] ELSE "NUL"

(* The first place from i on where P holds or the text ends.               *)
Find(s, i, P(_)) == Min({j \in i..(Len(s) + 1) : j = Len(s) + 1 \/ P(j)})

(* Where the copy of a string literal stops: behind its closing quote.     *)
RECURSIVE StringEnd(_, _)
StringEnd(s, i) ==
    CASE At(s, i) \in {"NUL", "q"} -> i + 1
      [] At(s, i) = "bs" -> IF At(s, i + 1) = "NUL" THEN i + 2 ELSE StringEnd(s, i + 2)
      [] OTHER -> StringEnd(s, i + 1)

\* Fault: an escaped quote ends the literal.
StringEndEarly(s, i) == Find(s, i, LAMBDA j : s[j] = "q") + 1

LiteralEnd(s, i) == StringEnd(s, i)

(* The text from i on without blanks and comments; over: the NUL has been  *)
(* passed.                                                                 *)
RECURSIVE MinifyFrom(_, _)
MinifyFrom(s, i) ==
    LET c == At(s, i)
        d == At(s, i + 1)
        Copy(k) == LET rest == MinifyFrom(s, k) IN
                   [rest EXCEPT !.out = SubSeq(s, i, Min({k - 1, Len(s)})) \o @]
    IN  IF i > Len(s) THEN [out |-> <<>>, over |-> i > Len(s) + 1]
        ELSE IF c \in {"sp", "nl"} THEN MinifyFrom(s, i + 1)
        ELSE IF c = "/" /\ d = "/" THEN MinifyFrom(s, Find(s, i, LAMBDA j : s[j] = "nl"))
        ELSE IF c = "/" /\ d = "*"
        THEN MinifyFrom(s, 2 + Find(s, i, LAMBDA j : s[j] = "*" /\ At(s, j + 1) = "/"))
        ELSE IF c = "q" THEN Copy(LiteralEnd(s, i + 1))
        ELSE Copy(i + 1)

cJSON_Minify(s) == MinifyFrom(s, 1)

-----------------------------------------------------------------------------
(* A text is a sequence of characters.                                     *)
TypeOK == json \in Seq(Char) /\ Len(json) <= MaxChars

(* A reader that looks at one character at a time: its mode, and what it   *)
(* keeps.  In mode "slash" it holds back a slash.                          *)
Read(st, c) ==
    LET Keep(mode, cs) == [mode |-> mode, out |-> st.out \o cs] IN
    CASE st.mode = "code" ->
           (CASE c \in {"sp", "nl"} -> Keep("code", <<>>)
              [] c = "/" -> Keep("slash", <<>>)
              [] c = "q" -> Keep("string", <<c>>)
              [] OTHER -> Keep("code", <<c>>))
      [] st.mode = "slash" ->
           (CASE c = "/" -> Keep("line", <<>>)
              [] c = "*" -> Keep("block", <<>>)
              [] c \in {"sp", "nl"} -> Keep("code", <<"/">>)
              [] c = "q" -> Keep("string", <<"/", c>>)
              [] OTHER -> Keep("code", <<"/", c>>))
      [] st.mode = "line" -> Keep(IF c = "nl" THEN "code" ELSE "line", <<>>)
      [] st.mode = "block" -> Keep(IF c = "*" THEN "star" ELSE "block", <<>>)
      [] st.mode = "star" ->
           Keep(CASE c = "/" -> "code" [] c = "*" -> "star" [] OTHER -> "block", <<>>)
      [] st.mode = "string" ->
           Keep(CASE c = "q" -> "code" [] c = "bs" -> "escape" [] OTHER -> "string", <<c>>)
      [] st.mode = "escape" -> Keep("string", <<c>>)

Reader(s) == FoldLeft(Read, [mode |-> "code", out |-> <<>>], s)

(* Minify keeps what such a reader keeps - all of every string literal,    *)
(* nothing of blanks and comments - and passes the terminating NUL exactly *)
(* when a string or a block comment is left open.  The one text it reads   *)
(* differently is /*/, which it takes for a whole comment.                 *)
MinifyExact ==
    LET r == Reader(json)
        w == cJSON_Minify(json)
        open == r.mode \in {"block", "star", "string", "escape"}
        odd == \E i \in 1..(Len(json) - 2) : SubSeq(json, i, i + 2) = <<"/", "*", "/">>
    IN  ~odd => /\ w.over <=> open
                /\ ~open => w.out = r.out \o (IF r.mode = "slash" THEN <<"/">> ELSE <<>>)
=============================================================================
