------------------------------- MODULE MCTools -------------------------------
(***************************************************************************)
(* The parts that run in one thread, each explored on its own: the event   *)
(* timers, the ini file as text, the device list and the NTP client.  A    *)
(* behaviour is one of one part.                                           *)
(***************************************************************************)
EXTENDS EventTimer

CONSTANTS
    ListSet, DeviceSet, ListNodes, ListCalls, FREE,                             \* DevList
    MaxValue, MaxText,                                                          \* IniText
    Second, Era, Jan1970, TIMEOUT, Starts, Clocks, MaxTicks                     \* NtpClient

\* The fields of a packet and the clock count seconds, the clock from 1970.
ASSUME NtpAssumption ==
    /\ Second \in Nat \ {0} /\ Era \in Nat \ {0} /\ Era % 2 = 0 /\ Jan1970 \in 0 .. Era - 1
    /\ TIMEOUT \in Nat /\ Starts \subseteq Nat /\ Clocks \subseteq Nat /\ MaxTicks \in Nat

\* Nodes, NULL, list_t's and freed memory can be told apart.
ASSUME ListAssumption ==
    /\ IsFiniteSet(ListNodes) /\ NULL \notin ListNodes \cup ListSet
    /\ FREE \notin [data : DeviceSet, next : ListNodes \cup {NULL}]
    /\ ListCalls \in Nat

VARIABLES tool,
          inValue, inText,
          dlHead, dlNode, dlRecords, dlPlace, dlTable, dlCalls, dlLost, dlGiven, dlRound, dlBad,
          ntNow, ntTicks, ntClock, ntPc, ntBuf, ntNet, ntSent, ntOffset, ntTv, ntOutcome

\* Every character that the ini parser treats in a way of its own, and a letter.
CharSet == {"k", "K", " ", "=", "dq", "sq", ";", "#", "bs", "[", "]", "nl", ":"}

\* Headers with a name of one and of two letters and with none; keys in both cases.
LineSet == {<<"[", "a", "]">>, <<"[", "]">>, <<"[", "A", "a", "]">>,
            <<"k", "=", "x">>, <<"K", " ", "=", "y">>, <<" ", "j", "=", "z">>}

Ini == INSTANCE IniText WITH
    Chars <- CharSet, Lines <- LineSet, MaxChars <- MaxValue, MaxLines <- MaxText,
    Padding <- 2, LineSize <- 10, value <- inValue, text <- inText

Dev == INSTANCE DevList WITH
    Lists <- ListSet, Devices <- DeviceSet, Nodes <- ListNodes, MaxCalls <- ListCalls,
    head <- dlHead, node <- dlNode, records <- dlRecords, place <- dlPlace, table <- dlTable,
    calls <- dlCalls, lost <- dlLost, given <- dlGiven, round <- dlRound, bad <- dlBad
Ntp == INSTANCE NtpClient WITH
    now <- ntNow, ticks <- ntTicks, clock <- ntClock, pc <- ntPc, buf <- ntBuf, net <- ntNet,
    sent <- ntSent, offset <- ntOffset, tv <- ntTv, outcome <- ntOutcome

tm == <<next, id, alive, timer, released>>
ini == <<inValue, inText>>
dl == <<dlHead, dlNode, dlRecords, dlPlace, dlTable, dlCalls, dlLost, dlGiven, dlRound, dlBad>>
nt == <<ntNow, ntTicks, ntClock, ntPc, ntBuf, ntNet, ntSent, ntOffset, ntTv, ntOutcome>>
toolVars == <<tool, tm, ini, dl, nt>>

ToolsInit ==
    /\ tool \in {"timers", "ini", "list", "ntp"}
    /\ Init /\ Ini!Init /\ Dev!Init /\ Ntp!Init
    /\ tool # "ntp" => ntNow = (CHOOSE t \in Starts : TRUE) /\ ntClock = (CHOOSE t \in Clocks : TRUE)

ToolsNext ==
    /\ UNCHANGED tool
    /\ \/ tool = "timers" /\ Next /\ UNCHANGED <<ini, dl, nt>>
       \/ tool = "ini" /\ Ini!Next /\ UNCHANGED <<tm, dl, nt>>
       \/ tool = "list" /\ Dev!Next /\ UNCHANGED <<tm, ini, nt>>
       \/ tool = "ntp" /\ Ntp!Next /\ UNCHANGED <<tm, ini, dl>>

ToolsSpec == ToolsInit /\ [][ToolsNext]_toolVars

T == INSTANCE TLC
\* The nodes of the device list are interchangeable.
Symmetry == T!Permutations(ListNodes)

-------------------------------------------------------------------------------
(* The properties of the parts are stated in their modules.                *)

(* IniText: a value survives iniparser_dump_ini and iniparser_load exactly *)
(* if it is plain, a save keeps every entry exactly if every key has a     *)
(* header, and a loaded file says what its lines say.                      *)
SavedIsLoaded ==
    tool = "ini" =>
        Ini!TypeOK /\ Ini!SurvivesIffPlain /\ Ini!SaveKeepsEntries /\ Ini!LoadMatchesLines

(* DevList: a list holds what its calls should have left in it, memory is  *)
(* lost by list_pop of the head and list_set only, and memory outside a    *)
(* list is reached from a stale static place only.                         *)
ListIsTable == tool = "list" => Dev!TypeOK /\ Dev!ListIsTable /\ Dev!LeaksExact /\ Dev!FaultsNamed

(* DevList: an undisturbed round of list_iter shows every node.            *)
RoundComplete ==
    [][dlRound.list # NULL /\ dlRound' = Dev!NoRound /\ ~dlRound.astray /\ ~dlRound.moved
         => dlRound.due \subseteq dlRound.came]_dl

(* NtpClient: an answer sets the clock right, as long as its error fits    *)
(* into an int, and a missing one never sets it forward.                   *)
ClockSetRight == tool = "ntp" => Ntp!TypeOK /\ Ntp!OffsetIsRight /\ Ntp!UnansweredKeepsClock
=============================================================================
