----------------------------- MODULE MCLibraries -----------------------------
(***************************************************************************)
(* The parts of 20170801/cjson.c beside those of MCTools, each explored on *)
(* its own: the tree functions, the parser and printer over two alphabets, *)
(* string literals and cJSON_Minify.  A behaviour is one of one part.      *)
(***************************************************************************)
EXTENDS MCTools

CONSTANTS MaxCalls, RichTokens, PoorTokens, MaxLexemes, MaxChars

VARIABLES part, mem, held, missed, ret, calls, text, lit, json

tree == <<mem, held, missed, ret, calls>>
jsonVars == <<tree, text, lit, json>>

Tok(t, v) == [tok |-> t, val |-> v]
Brackets == {Tok(t, 0) : t \in {"[", "]", "{", "}", ",", ":"}}
RichAlphabet ==
    Brackets \cup {Tok(t, 0) : t \in {"true", "ws", "quote", "minus"}}
             \cup {Tok("str", 3), Tok("str", 0), Tok("num", 5), Tok("num", 9)}
PoorAlphabet == Brackets \cup {Tok("str", 1), Tok("str", 2)}

Lex(k, c) == [kind |-> k, code |-> c]
LexemeSet ==
    {Lex("plain", 120), Lex("plain", 47), Lex("escape", 10), Lex("escape", 34),
     Lex("escape", 92), Lex("badhex", 0), Lex("badescape", 0)}
    \cup {Lex("unit", u) : u \in {1, 127, 128, 2047, 2048, 55295, 55296, 56319, 56320,
                                   57343, 57344, 65535}}

Tree == INSTANCE JsonTree WITH MaxItems <- 4, MaxStrs <- 3, Names <- {1, 2},
                               Kinds <- {"String", "Object"}
Rich == INSTANCE JsonText WITH MaxItems <- 10, MaxStrs <- 10, NestingLimit <- 2, IntMax <- 30,
                               Infinite <- 9, MaxBlanks <- 1, Alphabet <- RichAlphabet, MaxTokens <- RichTokens
Poor == INSTANCE JsonText WITH MaxItems <- 10, MaxStrs <- 10, NestingLimit <- 2, IntMax <- 30,
                               Infinite <- 9, MaxBlanks <- 0, Alphabet <- PoorAlphabet, MaxTokens <- PoorTokens
Lits == INSTANCE JsonString WITH Lexemes <- LexemeSet
Mini == INSTANCE JsonMinify

LibrariesInit ==
    /\ part \in {"tools", "tree", "rich", "poor", "string", "minify"}
    /\ Tree!Init /\ Rich!Init /\ Lits!Init /\ Mini!Init
    /\ ToolsInit
    /\ part # "tools" => tool = "timers"

LibrariesNext ==
    /\ UNCHANGED part
    /\ \/ part = "tools" /\ ToolsNext /\ UNCHANGED jsonVars
       \/ part = "tree" /\ Tree!Next /\ UNCHANGED <<text, lit, json, toolVars>>
       \/ part = "rich" /\ Rich!Next /\ UNCHANGED <<tree, lit, json, toolVars>>
       \/ part = "poor" /\ Poor!Next /\ UNCHANGED <<tree, lit, json, toolVars>>
       \/ part = "string" /\ Lits!Next /\ UNCHANGED <<tree, text, json, toolVars>>
       \/ part = "minify" /\ Mini!Next /\ UNCHANGED <<tree, text, lit, toolVars>>

LibrariesSpec == LibrariesInit /\ [][LibrariesNext]_<<part, jsonVars, toolVars>>

-----------------------------------------------------------------------------
(* The properties of the parts are stated in their modules.                *)

JsonTypeOK ==
    /\ part = "tree" => Tree!TypeOK
    /\ part = "rich" => Rich!TypeOK
    /\ part = "poor" => Poor!TypeOK
    /\ part = "string" => Lits!TypeOK
    /\ part = "minify" => Mini!TypeOK

(* JsonTree: whatever the client builds, edits, copies and deletes, the    *)
(* sibling lists stay doubly linked lists of live items, no call makes a   *)
(* bad access or free without a failed allocation, and every item and      *)
(* string has one owner; a constructor or copy that returns NULL has given *)
(* back all it had allocated.                                              *)
MemorySound ==
    /\ [](part = "tree" => Tree!ListsSound /\ Tree!SafeMemory /\ Tree!Accounted)
    /\ [][part = "tree" /\ ret' = "null" => mem'.items = mem.items /\ mem'.strs = mem.strs]_tree

(* JsonText: the parser accepts the JSON of the grammar and nothing else,  *)
(* and a parse that fails, for its text or for want of memory, has freed   *)
(* everything it made.  (The types of all parts are checked here too.)     *)
ParserExact ==
    /\ JsonTypeOK
    /\ part = "rich" => Rich!ParserMatchesGrammar /\ Rich!ParseAllOrNothing
    /\ part = "poor" => Poor!ParserMatchesGrammar /\ Poor!ParseAllOrNothing

(* JsonText: cJSON_Compare is symmetric, and finds the copy that           *)
(* cJSON_Duplicate makes equal exactly when members of one name are equal. *)
CopiesCompareEqual ==
    /\ part = "rich" => Rich!DuplicateEqual
    /\ part = "poor" => Poor!DuplicateEqual /\ Poor!CompareSymmetric

(* JsonText: a printed tree, formatted or not, is read back as its equal,  *)
(* but that infinite numbers come back as null.                            *)
RoundTrip == (part = "rich" => Rich!RoundTrip) /\ (part = "poor" => Poor!RoundTrip)

(* JsonText: no print writes outside its buffer, one byte more than the    *)
(* text and its NUL is enough for a preallocated one, and buffers are      *)
(* freed or returned.                                                      *)
PrintSafe ==
    /\ part = "rich" => Rich!PrintFits /\ Rich!PreallocatedSuffices /\ Rich!PrintFreesBuffers
    /\ part = "poor" => Poor!PreallocatedSuffices

(* JsonString: a literal decodes, within its allocation, to the UTF-8 of   *)
(* the characters it stands for, and a printed string is read back.        *)
LiteralsExact == part = "string" => Lits!UnescapeFits /\ Lits!Utf8Exact /\ Lits!StringRoundTrip

(* JsonMinify: blanks and comments go, everything else stays.              *)
MinifyExact == part = "minify" => Mini!MinifyExact
=============================================================================
