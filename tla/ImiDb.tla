-------------------------------- MODULE ImiDb ---------------------------------
(***************************************************************************)
(* The settings database of auto_imi_db_bin: dictionaries in memory, of    *)
(* which some have an ini file behind them.  imi_db_mi_set_value runs in   *)
(* the application's thread, the timer saves from threads of its own       *)
(* (SIGEV_THREAD), and no lock protects the dictionaries or the flags; the *)
(* lock on the file is released before fclose writes the text.  The        *)
(* process may stop at any point and start again from the files.           *)
(*                                                                         *)
(* A file is a sequence of cells: a key, a padding blank, "=", a character *)
(* of a value, the section header or the end of a line.                    *)
(*                                                                         *)
(* A start that stops between fopen "w" and fclose leaves an empty file.   *)
(* It loads as a dictionary without a section, which is dumped as lines    *)
(* section:key = value, and those load as names that nobody asks for.      *)
(***************************************************************************)
EXTENDS Integers, Sequences, SequencesExt, FiniteSetsExt

CONSTANTS
    Files,      \* the databases with a path, in the order of db_name
    Mem,        \* the databases without one
    Keys,       \* the keys of a database, in the order of db_keys
    Values,     \* values are sequences of characters
    Default,    \* the value of every key in db_keys
    Padding,    \* blanks that "%-30s " puts between a key and "="
    Timers,     \* threads the timer starts
    NULL

\* A value that iniparser can save: no end of a line, comment, quote or
\* backslash in it and no blank at its ends.
Plain(v) ==
    /\ ToSet(v) \cap {"nl", ";", "#", "dq", "sq", "bs"} = {}
    /\ v # <<>> => v[1] # "sp" /\ v[Len(v)] # "sp"

\* The cells of a file; "::" is a name section:key, written without a section header.
Marks == {"nl", "[]", "=", "sp", "::"}
Cells == Marks \cup ToSet(Keys) \cup UNION {ToSet(v) : v \in Values}

ASSUME ValuesAssumption ==
    /\ Default \in Values /\ Padding \in Nat \ {0}
    /\ \A v \in Values : v \in Seq(ToSet(v)) /\ Plain(v)
ASSUME KeysAssumption ==
    /\ Keys \in Seq(ToSet(Keys)) /\ Keys # <<>> /\ IsInjective(Keys)
    /\ ToSet(Keys) \cap Marks = {}
    /\ \A v \in Values : ToSet(Keys) \cap ToSet(v) = {}
ASSUME ThreadsAssumption == "main" \notin Timers
ASSUME DbAssumption ==
    Files \in Seq(ToSet(Files)) /\ IsInjective(Files) /\ ToSet(Files) \cap Mem = {}
ASSUME NullAssumption ==
    /\ NULL \notin Seq(Cells) /\ NULL \notin [ToSet(Keys) -> Values]
    /\ NULL # [k \in {} |-> NULL]

VARIABLES
    up,         \* the process runs and imi_db_mi_init has returned
    dict,       \* db_name[i].db, NULL until it is loaded
    sync_flag,  \* db_name[i].sync_flag
    file,       \* the text of each file, NULL when there is none
    lock,       \* the thread that holds flock on a file
    pc, at,     \* where a thread is, and the index of its loop over db_name (1 outside)
    buf,        \* the text a thread has formatted and not yet written
    call,       \* the arguments of imi_db_mi_set_value
    saved,      \* history: the dictionary that was last saved to a file
    raced,      \* history: the last set of this database overlapped a save
    overhang,   \* history: behind the last save old text shows, not only ends of lines
    emptied     \* history: a start stopped with the file open for the defaults, and no
                \* dictionary with a section has been saved since

memory == <<dict, sync_flag, call>>
saving == <<lock, at, buf>>
damage == <<overhang, emptied>>
vars == <<up, memory, file, pc, saving, saved, raced, damage>>

Paths == ToSet(Files)
Dbs == Paths \cup Mem
Threads == {"main"} \cup Timers
Dictionaries == [ToSet(Keys) -> Values]
DefaultDict == [k \in ToSet(Keys) |-> Default]

\* The dictionary of a file without a section.  What is set in it later can be read as
\* long as the process runs, but no start finds it again, so it is not kept here.
NoKeys == [k \in {} |-> NULL]

-------------------------------------------------------------------------------
(* iniparser: text and back                                                *)

Blanks(m) == [i \in 1 .. m |-> "sp"]

\* One line per key, in the order of the dictionary; the stream's format decides
\* the blanks before "=" and behind the value.
Lines(d, before, after) ==
    FlattenSeq([i \in 1 .. Len(Keys) |->
        <<Keys[i]>> \o Blanks(before) \o <<"=", "sp">> \o d[Keys[i]]
            \o Blanks(after) \o <<"nl">>])

\* iniparser_dump_ini: the header, the keys and two empty lines.
iniparser_dump_ini(d) ==
    <<"nl", "[]", "nl">> \o Lines(d, Padding, 0) \o <<"nl", "nl">>

\* What a dictionary without a section is dumped as: nothing, or lines of any length.
bare_dumps == {<<>>, <<"::", "nl">>, <<"::", "=", "=", "nl">>}

\* The file imi_db_mi_create_default_db writes: a tab before "=", a blank at the end.
default_file == <<"nl", "nl", "[]", "nl">> \o Lines(DefaultDict, 1, 1)

LineStarts(text) == {i \in 1 .. Len(text) : i = 1 \/ text[i - 1] = "nl"}

\* iniparser_line strips the line and takes an empty line, the header or key=value;
\* anything else, such as the end of a value, is a syntax error.
GoodLine(text, i) ==
    text[Min({j \in i .. Len(text) : text[j] # "sp"})]
        \in {"nl", "[]", "::"} \cup ToSet(Keys)

\* A text without the blanks at its ends.
strstrip[s \in Seq(Cells)] ==
    LET ink == {i \in DOMAIN s : s[i] # "sp"}
    IN IF ink = {} THEN <<>> ELSE SubSeq(s, Min(ink), Max(ink))

ValueAt(text, i) ==
    LET eq == Min({j \in i .. Len(text) : text[j] = "="})
        end == Min({j \in eq .. Len(text) : text[j] = "nl"})
    IN strstrip[SubSeq(text, eq + 1, end - 1)]

LinesOf(text, k) == {i \in LineStarts(text) : text[i] = k}

\* One syntax error and the whole file is refused; the last line of a key counts.
iniparser_load(text) ==
    IF text = NULL \/ \E i \in LineStarts(text) : ~GoodLine(text, i) THEN NULL
    ELSE [k \in {k \in ToSet(Keys) : LinesOf(text, k) # {}} |->
            ValueAt(text, Max(LinesOf(text, k)))]

\* fopen "rt+" does not truncate: what is behind the new text stays.
Behind(old, new) == SubSeq(old, Len(new) + 1, Len(old))
Overwritten(old, new) == new \o Behind(old, new)

-------------------------------------------------------------------------------
(* Start and stop                                                          *)

\* db_name before imi_db_mi_init; a database without a path is filled from db_keys.
NotLoaded == [d \in Dbs |-> IF d \in Paths THEN NULL ELSE DefaultDict]

\* The first start: no file exists.
Init ==
    /\ up = FALSE
    /\ dict = NotLoaded
    /\ sync_flag = [d \in Dbs |-> FALSE]
    /\ file = [d \in Paths |-> NULL]
    /\ lock = [d \in Paths |-> NULL]
    /\ pc = [t \in Threads |-> "idle"]
    /\ at = [t \in Threads |-> 1]
    /\ buf = [t \in Threads |-> <<>>]
    /\ call = NULL
    /\ saved = [d \in Paths |-> DefaultDict]
    /\ raced = [d \in Paths |-> FALSE]
    /\ overhang = [d \in Paths |-> FALSE]
    /\ emptied = [d \in Paths |-> FALSE]

InitStep == UNCHANGED <<sync_flag, call, lock, buf, saved, raced, damage>>

\* imi_db_mi_init begins its loop over the databases.
InitStart ==
    /\ ~up /\ pc["main"] = "idle"
    /\ pc' = [pc EXCEPT !["main"] = "load"]
    /\ UNCHANGED <<up, dict, file, at>> /\ InitStep

\* Fault: the file is created whatever it holds.
AlwaysMissing(d) == NULL

\* The first iniparser_load of imi_db_mi_create_default_db.
Found(d) == iniparser_load(file[d])

\* imi_db_mi_create_default_db loads the file of the next database, ...
InitLoad ==
    /\ pc["main"] = "load" /\ at["main"] <= Len(Files)
    /\ LET d == Files[at["main"]] IN
         /\ Found(d) # NULL
         /\ dict' = [dict EXCEPT ![d] = Found(d)]
    /\ at' = [at EXCEPT !["main"] = @ + 1]
    /\ UNCHANGED <<up, file, pc>> /\ InitStep

\* ... or, when it cannot, opens it with "w", which empties it, ...
InitCreate ==
    /\ pc["main"] = "load" /\ at["main"] <= Len(Files)
    /\ LET d == Files[at["main"]] IN
         /\ Found(d) = NULL
         /\ file' = [file EXCEPT ![d] = <<>>]
    /\ pc' = [pc EXCEPT !["main"] = "fill"]
    /\ UNCHANGED <<up, dict, at>> /\ InitStep

\* ... writes the defaults, which fclose puts into the file, and loads it again.
InitFill ==
    /\ pc["main"] = "fill"
    /\ LET d == Files[at["main"]] IN
         /\ file' = [file EXCEPT ![d] = default_file]
         /\ dict' = [dict EXCEPT ![d] = iniparser_load(default_file)]
    /\ pc' = [pc EXCEPT !["main"] = "load"]
    /\ at' = [at EXCEPT !["main"] = @ + 1]
    /\ UNCHANGED up /\ InitStep

\* The loop ends and the timer is created.
InitDone ==
    /\ pc["main"] = "load" /\ at["main"] > Len(Files)
    /\ up' = TRUE
    /\ pc' = [pc EXCEPT !["main"] = "idle"]
    /\ at' = [at EXCEPT !["main"] = 1]
    /\ UNCHANGED <<dict, file>> /\ InitStep

imi_db_mi_init == InitStart \/ InitLoad \/ InitCreate \/ InitFill \/ InitDone

Filling(d) == pc["main"] = "fill" /\ Files[at["main"]] = d

\* The process ends, wherever its threads are; what is not in a file is gone.
Crash ==
    /\ up \/ pc["main"] # "idle"
    /\ up' = FALSE
    /\ dict' = NotLoaded
    /\ sync_flag' = [d \in Dbs |-> FALSE]
    /\ lock' = [d \in Paths |-> NULL]
    /\ pc' = [t \in Threads |-> "idle"]
    /\ at' = [t \in Threads |-> 1]
    /\ buf' = [t \in Threads |-> <<>>]
    /\ call' = NULL
    /\ raced' = [d \in Paths |-> FALSE]
    /\ emptied' = [d \in Paths |-> emptied[d] \/ Filling(d)]
    /\ UNCHANGED <<file, saved, overhang>>

-------------------------------------------------------------------------------
(* imi_db_mi_set_value: the flag first, then the dictionary                *)

InSave(t, d) == pc[t] \in {"locking", "dumped", "unlocked", "written"} /\ Files[at[t]] = d

\* Fault: a set leaves the flag alone.
FlagForgotten(d) == sync_flag

Flagged(d) == [sync_flag EXCEPT ![d] = TRUE]

SetFlag(d, k, v, save) ==
    /\ up /\ pc["main"] = "idle"
    /\ sync_flag' = Flagged(d)
    /\ call' = [db |-> d, key |-> k, value |-> v, save |-> save]
    /\ pc' = [pc EXCEPT !["main"] = "set"]
    /\ raced' = IF d \in Paths THEN [raced EXCEPT ![d] = FALSE] ELSE raced
    /\ UNCHANGED <<up, dict, file, saving, saved, damage>>

\* iniparser_set.
Changed(db, k, v) == IF db = NoKeys THEN NoKeys ELSE [db EXCEPT ![k] = v]

SetValue ==
    /\ pc["main"] = "set"
    /\ dict' = [dict EXCEPT ![call.db] = Changed(@, call.key, call.value)]
    /\ pc' = [pc EXCEPT !["main"] = IF call.save THEN "scan" ELSE "idle"]
    /\ call' = NULL
    /\ raced' = IF \E t \in Timers : InSave(t, call.db) /\ pc[t] # "locking"
                THEN [raced EXCEPT ![call.db] = TRUE] ELSE raced
    /\ UNCHANGED <<up, sync_flag, file, saving, saved, damage>>

-------------------------------------------------------------------------------
(* imi_db_mi_save_db_file, in the application's thread or in the timer's   *)

SaveStep == UNCHANGED <<up, dict, call>>

imi_db_timeout_sync_db(t) ==
    /\ up /\ t \in Timers /\ pc[t] = "idle"
    /\ pc' = [pc EXCEPT ![t] = "scan"]
    /\ UNCHANGED <<sync_flag, file, saving, saved, raced, damage>> /\ SaveStep

Returns(t) ==
    /\ pc' = [pc EXCEPT ![t] = "idle"]
    /\ at' = [at EXCEPT ![t] = 1]
    /\ UNCHANGED <<sync_flag, file, lock, buf, saved, raced, damage>> /\ SaveStep

SaveEnd(t) ==
    /\ pc[t] = "scan" /\ at[t] > Len(Files)
    /\ Returns(t)

SaveSkip(t) ==
    /\ pc[t] = "scan" /\ at[t] <= Len(Files)
    /\ ~sync_flag[Files[at[t]]]
    /\ at' = [at EXCEPT ![t] = @ + 1]
    /\ UNCHANGED <<sync_flag, file, pc, lock, buf, saved, raced, damage>> /\ SaveStep

SaveOpen(t) ==
    /\ pc[t] = "scan" /\ at[t] <= Len(Files)
    /\ sync_flag[Files[at[t]]]
    /\ pc' = [pc EXCEPT ![t] = "locking"]
    /\ UNCHANGED <<sync_flag, file, saving, saved, raced, damage>> /\ SaveStep

\* fopen fails: the remaining databases are not saved either.
SaveFails(t) ==
    /\ pc[t] = "scan" /\ at[t] <= Len(Files)
    /\ sync_flag[Files[at[t]]]
    /\ Returns(t)

Dumps(db) == IF db = NoKeys THEN bare_dumps ELSE {iniparser_dump_ini(db)}

\* file_lock and iniparser_dump_ini, into the buffer of the stream.
SaveDump(t) ==
    /\ pc[t] = "locking" /\ lock[Files[at[t]]] = NULL
    /\ lock' = [lock EXCEPT ![Files[at[t]]] = t]
    /\ \E text \in Dumps(dict[Files[at[t]]]) : buf' = [buf EXCEPT ![t] = text]
    /\ pc' = [pc EXCEPT ![t] = "dumped"]
    /\ UNCHANGED <<sync_flag, file, at, saved, raced, damage>> /\ SaveStep

SaveUnlock(t) ==
    /\ pc[t] = "dumped"
    /\ lock' = [lock EXCEPT ![Files[at[t]]] = NULL]
    /\ pc' = [pc EXCEPT ![t] = "unlocked"]
    /\ UNCHANGED <<sync_flag, file, at, buf, saved, raced, damage>> /\ SaveStep

\* fclose writes the buffer.
SaveWrite(t) ==
    /\ pc[t] = "unlocked"
    /\ LET d == Files[at[t]] IN
         /\ file' = [file EXCEPT ![d] = Overwritten(@, buf[t])]
         /\ saved' = [saved EXCEPT ![d] = iniparser_load(buf[t])]
         /\ overhang' = [overhang EXCEPT ![d] = ~ ToSet(Behind(file[d], buf[t])) \subseteq {"nl"}]
         /\ emptied' = [emptied EXCEPT ![d] = dict[d] = NoKeys]
    /\ buf' = [buf EXCEPT ![t] = <<>>]
    /\ pc' = [pc EXCEPT ![t] = "written"]
    /\ UNCHANGED <<sync_flag, lock, at, raced>> /\ SaveStep

\* Fault: the flag stays up after the save.
FlagStays(d) == sync_flag

Cleared(d) == [sync_flag EXCEPT ![d] = FALSE]

SaveClear(t) ==
    /\ pc[t] = "written"
    /\ sync_flag' = Cleared(Files[at[t]])
    /\ at' = [at EXCEPT ![t] = @ + 1]
    /\ pc' = [pc EXCEPT ![t] = "scan"]
    /\ raced' = IF pc["main"] = "set" /\ call.db = Files[at[t]]
                THEN [raced EXCEPT ![call.db] = TRUE] ELSE raced
    /\ UNCHANGED <<file, lock, buf, saved, damage>> /\ SaveStep

imi_db_mi_save_db_file(t) ==
    \/ SaveEnd(t) \/ SaveSkip(t) \/ SaveOpen(t) \/ SaveFails(t) \/ SaveDump(t)
    \/ SaveUnlock(t) \/ SaveWrite(t) \/ SaveClear(t)

Next ==
    \/ imi_db_mi_init \/ Crash
    \/ \E d \in Dbs, k \in ToSet(Keys), v \in Values, save \in BOOLEAN :
          SetFlag(d, k, v, save)
    \/ SetValue
    \/ \E t \in Threads : imi_db_timeout_sync_db(t) \/ imi_db_mi_save_db_file(t)

Spec == Init /\ [][Next]_vars

\* Threads that can run do, and the timer, which is periodic, keeps firing.
FairSpec ==
    /\ Spec
    /\ WF_vars(SetValue)
    /\ \A t \in Threads : WF_vars(imi_db_mi_save_db_file(t))
    /\ \A t \in Timers : WF_vars(imi_db_timeout_sync_db(t))

-------------------------------------------------------------------------------

\* Every variable has its type; a running process has a dictionary for every database.
TypeOK ==
    /\ up \in BOOLEAN
    /\ dict \in [Dbs -> Dictionaries \cup {NoKeys, NULL}]
    /\ \A d \in Dbs : dict[d] = NULL => d \in Paths /\ ~up
    /\ sync_flag \in [Dbs -> BOOLEAN]
    /\ lock \in [Paths -> Threads \cup {NULL}]
    /\ pc \in [Threads -> {"idle", "load", "fill", "set", "scan", "locking", "dumped",
                           "unlocked", "written"}]
    /\ at \in [Threads -> 1 .. Len(Files) + 1]
    /\ saved \in [Paths -> Dictionaries \cup {NoKeys, NULL}]
    /\ raced \in [Paths -> BOOLEAN]
    /\ overhang \in [Paths -> BOOLEAN]
    /\ emptied \in [Paths -> BOOLEAN]

\* After a restart, wherever the process was stopped, a database holds what was last
\* saved to its file (or the defaults when nothing ever was): a stop in the middle of a
\* save loses that save and nothing else.  There are two exceptions, and no third: the
\* last save left old text showing behind the new one, or a start was stopped while
\* the file was open for the defaults.
RestartRestoresSaved ==
    [][~up /\ up' => \A d \in Paths : dict'[d] = saved[d] \/ overhang[d] \/ emptied[d]]_vars

\* What was saved comes back, whatever the file held before (but for a start that was
\* stopped while it created the file).
SavedComesBack == [][~up /\ up' => \A d \in Paths : dict'[d] = saved[d] \/ emptied[d]]_vars

\* When the flag of a database is down and nobody is at work on it, its file loads as
\* its values, unless the last imi_db_mi_set_value overlapped a save or the file is one
\* of the two kinds that RestartRestoresSaved excepts.
LostOnlyByOverlap ==
    TypeOK /\ \A d \in Paths :
        /\ up /\ ~sync_flag[d] /\ ~raced[d] /\ ~overhang[d] /\ ~emptied[d]
        /\ \A t \in Threads : ~InSave(t, d)
        /\ pc["main"] = "set" => call.db # d
        => iniparser_load(file[d]) = dict[d]

\* A database that was changed is saved in the end, as long as the process runs and
\* fopen does not go on failing.
ChangedIsSaved ==
    <>[][\A t \in Threads : ~SaveFails(t)]_vars =>
        \A d \in Paths : (up /\ sync_flag[d]) ~> (~sync_flag[d] \/ ~up)
===============================================================================
