# Verification of Small_Project_for_Life_Working

The repository is a collection of small programs, each in a directory of its
own; nothing links them together. What they share is a habit: state that
several threads, callbacks, timers or messages work on. This project models
those programs in TLA+, checks them with TLC on small instances and proves the
central results with TLAPS for instances of every size. `PROJECT.json` holds the
map from every definition to the lines it models, the runs, the hazards and the
findings.

## Inventory

| Component | State | Operations | What makes it hard | What makes it correct |
|---|---|---|---|---|
| Thread pool, `20180731threadpoll-test` | circular task queue, counters of live, busy and unwanted workers, four condition variables under one lock | `threadpoll_create`, `threadpoll_add_task`, `threadpoll_destroy`, `worker_thread`, `manager_thread` | wakeups, an exit counter that goes stale, a slot read after unlock, failing `pthread_create`, teardown | the queue is a FIFO, the counters are exact, no wakeup is lost, nobody uses a freed pool |
| Ring buffer, `20180720ringbuffer` | two indices with a mirror bit each, the pool of bytes | `ring_buffer_put`, `_put_force`, `_get`, `_putchar`, `_putchar_force`, `_getchar` | wrapping, full against empty, forced writes | a bounded FIFO of bytes |
| Message queue, `20180320queue` | linked list, count, limit, one lock, one condition variable | `QUEUE_INIT`, `QUEUE_PUSH`, `QUEUE_POP` | a node that is used again after it was freed, uninitialised links, one signal per push | a FIFO that drops its oldest string when full; no consumer sleeps beside a string |
| Dictionary, `auto_imi_db_bin/src/dictionary.c` | three parallel arrays and a count | `dictionary_set`, `_get`, `_unset`, growth | holes, wrapping search, colliding hashes, growth at the limit | a map from keys to values |
| Event timers, `auto_imi_db_bin/src/miio_timer.c` | linked list of nodes, each with a POSIX timer | `create_event_timer`, `refresh_event_timer`, `delete_designation_timer`, `delete_all_timer`, `check_timer_status` | a list that is changed while it is walked, times rounded to seconds | the list holds exactly the timers that exist |
| Settings database, `auto_imi_db_bin/src/imi_db_mi.c`, with `iniparser.c` | dictionaries, a sync flag each, ini files | `imi_db_mi_init`, `imi_db_mi_set_value`, the 60 s timer callback, `imi_db_mi_save_db_file` | two threads without a lock, a file lock released before the write, stops and restarts | a restart restores what was saved, changes are saved in the end |
| cJSON, `20170801` | trees of items in doubly linked lists, strings, print buffers | create, add, detach, insert, replace, delete, duplicate, compare, parse, print, minify | shared ownership through references, failing allocations, offsets into buffers, text that ends anywhere | every byte freed once, nothing outside a buffer, what is printed is read back |
| Ini parser, `auto_imi_db_bin/src/iniparser.c` | a dictionary of entries | `iniparser_load`, `_set`, `_unset`, `_getstring`, `_dump_ini` | stripping, comments, quotes, long and continued lines | what is saved is loaded again |
| Ring buffer demo, `20180720ringbuffer/main.c` | a ring buffer | a writing and a reading thread | no lock | the reader sees the blocks of the writer whole and in order |
| System V queue demo, `20171107/mqueue_system.c` | a queue of typed messages, four threads | `msgsnd`, `msgrcv` by type, removal | a thread that sends to the queue it reads, a queue that outlives the program | every request is answered, nothing gets lost, the program ends |
| POSIX queue demo, `20171107/mqueue_ipc.c` | a queue with priorities, three threads | `mq_send`, `mq_receive`, close and unlink | end of the program with messages on the way | sends return, what nobody sees is accounted for |
| Mutex demo, `20170822` | one counter | two incrementing threads | the lock is commented out | every increment is counted, which needs the lock |
| Semaphore demo, `20180727sem-sig-test` | a semaphore, signal dispositions | one thread posts, one waits, handlers | interrupted waits | a line for every post and every interruption, every post is taken |
| Device list, `20180208` | linked lists of records, static iterators | 14 calls of `list.h` | places kept in static variables, nodes that move between lists | each list is the table its calls describe |
| TCP chat, `20170815` | a listening socket, one connection at a time | send and receive in turns | unsigned results, a peer that is gone, a signal that kills | one side speaks at a time, nobody waits for a dead peer |
| NTP client, `20181212ntp` | one packet, the clock | one request, a timeout, setting the clock | stamps of 32 bits, late, lost and refused answers | the clock is set to the server's time, or left alone |
| Sketches, scripts, SQLite demos, vendored libraries | | | output to hardware, calls of other programs | not candidates, see below |

The database is the only program made of several of these parts: it keeps its
values in dictionaries, formats and parses them with the ini parser, and is
called back by an event timer.

## Modules

| Module | Models | Composes |
|---|---|---|
| `ThreadPool` | `threadpoll.c` | |
| `MCThreadPool` | symmetry for its runs | `ThreadPool` |
| `ThreadPoolProofs` | theorems | `ThreadPool` |
| `ByteFifo` | abstract: a bounded FIFO with cutting and forcing writes | |
| `RingBufferConstants`, `RingBuffer` | `ringbuffer.c`, `ringbuffer.h` | implements `ByteFifo` |
| `RingBufferProofs` | theorems | `RingBuffer` |
| `Pointers` | the constant NULL of the containers | |
| `MsgQueue` | `queue.c` | implements `ByteFifo` |
| `KeyMap` | abstract: a map from keys to values | |
| `DictionaryConstants`, `Dictionary` | `dictionary.c` | implements `KeyMap` |
| `DictionaryProofs` | theorems | `Dictionary` |
| `MCContainers` | a colliding hash function, the choice of a container | `MsgQueue`, `RingBuffer`, `Dictionary` |
| `ContainersProofs` | theorems about `MsgQueue`; those about the other two as properties of the run | `MCContainers`, `RingBufferProofs`, `DictionaryProofs` |
| `EventTimer` | `miio_timer.c` | |
| `ImiDb` | `imi_db_mi.c`, the parts of `iniparser.c` it uses | |
| `MCImiDb` | values, keys and files of its runs | `ImiDb` |
| `ImiDbProofs` | theorems | `ImiDb` |
| `JsonHeap` | the memory of `cjson.c`: items, lists, copies, comparison | |
| `JsonTree` | a client that builds and edits trees | `JsonHeap` |
| `JsonText` | parser and printer of `cjson.c` | `JsonHeap` |
| `JsonString` | string literals and escapes of `cjson.c` | |
| `JsonMinify` | `cJSON_Minify` | |
| `SysvQueue`, `PosixQueue` | `mqueue_system.c`, `mqueue_ipc.c` | |
| `RingDemo` | `20180720ringbuffer/main.c` with the calls it makes, load by load | |
| `MutexDemo`, `SemDemo`, `Chat` | `20170822`, `20180727sem-sig-test`, `20170815` | |
| `MCPrograms` | assumptions and fairness | the six above |
| `ProgramsProofs` | theorems | `MCPrograms` |
| `IniText` | `iniparser.c` on characters | |
| `DevList` | `list.c` | |
| `NtpClient` | `ntp.c` | |
| `MCTools` | assumptions, characters and lines | `EventTimer` and the three above |
| `ToolsProofs` | theorems | `MCTools` |
| `MCLibraries` | alphabets and bounds of the cJSON modules | `MCTools`, `JsonTree`, `JsonText`, `JsonString`, `JsonMinify` |
| `ProofLemmas` | lemmas about sequences, least numbers and recursive functions that the proofs share | |

The `MC` modules of several parts run them one at a time: the first variable
chooses the part, and the variables of the others stay as they are. The programs do not
interact, so that nothing would be gained by interleaving them.

Operators named `...Late`, `...Stuck`, `...Nobody` and the like, marked "Fault",
are plausible bugs of the definition below them; `PROJECT.json` says which
property each one violates. No specification uses them. The type invariant of a module
is a conjunct of its first invariant (`TypeInv`, `MirrorsAgree`, `ChainSound`, `LostOnlyByOverlap`,
`ParserExact` and so on); `DictInv`, which is proved, contains the one of `Dictionary`.
A property that is false of the code in certain cases names them: a history variable or a state of a
program counter records that the case has happened, and the property holds in all others.

### ThreadPool

The variables are the fields of `threadpoll_t` plus a program counter for every
worker (`wpc`), the manager (`mpc`), the owner who creates and destroys the pool
(`opc`) and every producer (`ppc`). A step is the code between two points where
the lock is taken or released, a condition variable is waited on, or a thread is
created or joined. `pthread_cond_signal` wakes any one waiter. A worker's
`"got"` is the window between the unlock and the read of the task through the
pointer into the queue: what it runs is what the slot holds *then*. History
variables (`accepted`, `ntaken`, `given`) record what was accepted and taken;
no guard reads them. `CreateFails` and `SpuriousWakeups` switch on failing
`pthread_create` calls and wakeups without a signal. Of time the model keeps only
that the manager's timed wait may end at any moment.

Workers and producers wait in loops and survive a wakeup without a signal. The
manager waits once for the last worker, under an `if` (`threadpoll.c:249-252`): when that
wait ends early it is `"exitedEarly"`, and `threadpoll_destroy` frees the pool
under workers that still run. A `threadpoll_create` that fails before it starts
the manager (`mpc = "none"`) is the other way to do so. `NoWorkerOnFreedPool` says that
there is no third; the run and the theorem include both.

### RingBuffer and ByteFifo

Each call is one step; callers exclude each other. Indices and mirror bits are
those of the struct, the data stored is kept cell by cell. `ByteFifo` says what
a caller expects; the refinement mapping reads the contents from the indices.
`ring_buffer_put_force` takes every block, as the code does. One that is longer than the free
space of a buffer that is not full runs past the reader, whose index follows the writer
only in a buffer that was full; the history variable `overtaken` records it, `MirrorsAgree` and
`ImplementsByteFifo` speak of everything before it, and `ring_force` shows what it does to the data.

### MsgQueue

Nodes have addresses, and `malloc` may return any address that is free, a freed
one included. The `next` field of a new node holds NULL or a wild pointer. The
body of a push is one step, because it holds the lock; the signal is sent after
the unlock and is a step of its own. A call that would use freed memory sets
`fault` and ends the behaviour: what follows is undefined, and the properties
speak about everything before it. A string is an item: that `queue.c:36-37`, `44-45` and `83-84`
copy `strlen` bytes and not the NUL behind them is a matter of its contents, and left out.

### Dictionary and KeyMap

Arrays are functions from slots. The search for an empty slot, a loop in the
code, is described by where it stops. `Hash` is a constant operator of which only
the type is assumed, so collisions are included in every theorem. `AddFailed` is
a failed `dictionary_grow`; it may happen at every growth, and must happen
beyond `MaxSize`, the bound of the model. An `xstrdup` may fail as well: a key that cannot be copied leaves
its slot empty, but is counted (`dictionary.c:296-299`); `uncopied` counts those, so that `CountExact` says by how much
`n` is too large. `InsertTerminates` holds all the same. A value that cannot be copied is stored as NULL.

### EventTimer

Nodes, their links and a kernel timer per node; half a second passes with every
`Tick`, because the code truncates to seconds. `delete_all_timer` is modelled as
it behaves: it reads `pos->next` of the node it freed, a field the code has just
set to NULL and that lies behind the words `free` overwrites in a node of this size. C leaves that
read undefined; NULL is what this build gives.

### ImiDb

The application's thread and the timer's threads run `imi_db_mi_save_db_file`
step by step: test of the flag, `fopen`, lock and dump, unlock, `fclose` (which
writes), clearing of the flag. `imi_db_mi_set_value` sets the flag and the value
in two steps. Files are sequences of cells, so that the length of a text and what
is left of an older one behind it exist in the model; the parser refuses a text
with a line that is neither empty nor a header nor a key with its value, and strips
the blanks around a value. Keys and values are what the constants say, as long
as iniparser can save them (`KeysAssumption`, `ValuesAssumption`): `Plain` values have no end of a line,
comment sign, quote or backslash and no blank at their ends, as in `db_keys`; what happens to others
is the business of `IniText`.

`imi_db_mi_init` goes file by file: load the file; if that fails, open it with "w", which
empties it (`imi_db_mi.c:250`), and write the defaults when it is closed. A stop
may happen in every state, and the next start reads the files. A stop between the
two leaves an empty file. It loads as a dictionary without a section, which the
program dumps as lines `section:key = value`, and those load as names nobody asks for
(`bare_dumps`); what is set in such a dictionary is readable while the process runs and is not found again, so the
model does not keep it. `emptied` records that case, until a dictionary with a section is saved.

History variables, which no guard reads: `saved` is the dictionary that was last saved,
`raced` says that the last set overlapped a save, `overhang` that old text (not only ends of
lines) shows behind the last save, `emptied` as above. `LostOnlyByOverlap` and `RestartRestoresSaved` except
exactly these.

### JsonHeap, JsonTree, JsonText, JsonString, JsonMinify

`JsonHeap` is a heap of items (type, links, name, value, the two flags of the
type word) and strings, by address, where an allocation may fail and a wrong
access or free sets `bad`. Its operators are the static functions of the
library: `suffix_object`, `create_reference`, `cJSON_Delete`, `cJSON_Duplicate`,
`cJSON_Compare` and so on, each from a memory to a memory.

`JsonTree` is a client that keeps the rules of `cjson.h` and calls the public functions
in any order: constructors, adding (by copy of the name, with a constant name, as a
reference), detaching, inserting, replacing, duplicating, deleting. One
allocation of a behaviour fails, at any place of any call. `JsonText` types a text
token by token and applies the parser and the printer to every one of them: the parser
with the one failing allocation at every place, the printer into a buffer that
grows, with and without `realloc`, and into a preallocated one of every size.
The grammar of JSON, written down separately, is the reference of the parser.
`JsonString` types literals lexeme by lexeme, with the code units at the
boundaries of UTF-8 and of the surrogates; `JsonMinify` types characters, and its
reference reads one character at a time.

What TLC says of corners the properties allow for: `SafeMemory` speaks of
behaviours without a failed allocation, because the `void` add and replace calls cannot report
that they had no memory; `cJSON_Duplicate` of an object with two different members of one
name does not compare equal to it; `print` loses its text when the last `realloc` fails; an infinite number (the text `1e999`) is printed as `null` (`cjson.c:439-443`) and
comes back as one, so `RoundTrip` compares with the tree in which infinite numbers are null; minify
takes `/*/` for a whole comment and reads behind the NUL when a comment or a
string is left open.

### SysvQueue and PosixQueue

The kernel's queue is external, with its capacity, its blocking and its order (by type, by
priority). `SysvQueue` has main and three threads; `thr_fun1` answers type 1
with type 2 on the same queue. The threads pass `sizeof(struct myMsg)` as the size of the text, which leaves
out `msgType`, so that a received text may run past the end of `msg` into the `qid` beside it (lines 89, 135,
192; the comment at 71-75 blames `msgrcv`, and the restoring assignment is commented out): `AfterReceive`
goes on, or with a qid that names no queue (`"astray"`). `sysv_qid` reports it. With messages of types nobody reads, or
nobody reads any more, the queue can
be full for good (`Jammed`: no thread that receives has a message to take). A request is answered unless one
of these two happens. A
type that is not positive makes `msgsnd` fail, and main then waits for
`thr_fun3`, which only ends when a message of type 3 comes. Both programs open a queue that an earlier run
left behind, with its messages, although a comment of `mqueue_system.c` (line 264) says that an
existing one is an error. In `PosixQueue` a refused send is not reported
(`ret==` in line 101 compares), and messages that are in the queue or in a
thread's buffer when main returns are never printed: at most `mq_maxmsg + 2`.

### RingDemo

The calls of the two threads are split into the loads and stores of the optimised
build the makefile asks for: an index is loaded once, the mirror bit separately,
the mirror bit is stored before the index, and a copy is not atomic. A block is one
cell, as all indices are multiples of 32. Blocks arrive whole and in order, and
are dropped only when the buffer is full, unless a thread is stopped between its two
stores for so long that the other returns, sleeps and calls again; the
module records that (`pause`) and the two parts of `BlocksInOrder` make the exception explicit. With it a block can
arrive twice.

### MutexDemo, SemDemo

`gnum++` is a load and a store, and the lock around it is commented out. The repository's README says that the
demo uses a mutex to protect shared variables; `mutex_lost` shows the increments that get lost, `FinalCount`
how many may be: nine increments leave any value from 2 to 9. In
`SemDemo` a wait that SIGINT interrupts prints a line like any other; the lines
are the posts taken plus the interruptions, of which there are none if SIGINT was ignored before the
program started, because the handler is then not installed.

### Chat

A server and clients that speak in turns, the server first. `len` is a `socklen_t`,
which is unsigned: -1 counts as success, so that "send failed" and "receive failed"
are reached with 0 only. A write to a connection the peer has reset raises SIGPIPE and
kills the writer. Any process, the server too, may be killed at any time; a server that is killed with a
message unread resets its connections, and the client's `recv` then returns -1 and counts as
success. `TurnsAndDeaths` says when SIGPIPE can come: to the server only after a
client was killed, to a client only before the server had accepted it or after the server was killed while
it served that client.

### IniText

Texts are lines and values of the characters that the parser treats in a way of its own.
`sscanf`'s `%[` conversions and `fgets` are external and modelled by what they
do. A value survives saving and loading exactly if it is plain (`Plain`): no
comment character, no quotes around it, no blanks at its ends, no line end in it. A save keeps
every entry exactly if every key has a section that is an entry of its own; keys before the first
header are dropped or come back with another colon. A header `[]` leaves the name of the
section before it, cut to one character.

### DevList

Nodes in memory, lists as links, a count of the allocated records; `malloc` returns any
node that is free, a freed one included. `table` is the
sequence each list should hold. `list_iter` and `list_cycle` keep their place in
static variables, one for all lists: `FaultsNamed` says that only such a stale place
leads to memory outside a list, `RoundComplete` that an undisturbed round shows every node.
`list_pop` of the head and `list_set` leak a record (`LeaksExact`), and
`list_from_array` of nothing makes a list of one. A list whose nodes went to
another one through `list_extend` is not used until `list_init`.

### NtpClient

The clock, the request with its stamp, the server's stamps, the answer on its way. The field of a packet wraps
at an `Era` and the clock counts from `Jan1970`. The whole seconds of the
offset are added to the clock; its fraction is lost in a conversion to integer
microseconds. The conversion `(int)` of the offset (`ntp.c:271`) is undefined if the offset is no `int`: then any
`int` is added. `OffsetIsRight` therefore speaks of clocks that are wrong by less than an `int` can
say (68 years) and of times that the field of a packet can hold.
`nbytes` is unsigned, so that a refused request goes on with the buffer of the
request: the clock is then set back by half of the time waited, which `UnansweredKeepsClock` says exactly.

## Runs

| Run | Result | Shows |
|---|---|---|
| `pool_safety` | pass | 3 workers, 2 producers, 4 tasks, queue of 2, spurious wakeups: FIFO, exact counters, `min_thread_num` respected, no forgotten producer, no worker on a freed pool unless the manager's only wait ended without a signal |
| `pool_fixed` | pass | `min = max`, with spurious wakeups and a creation that fails half way: no lost wakeup, every accepted task is taken, destroy and blocked producers return |
| `pool_slot` | violation | a producer overwrites the slot a worker is about to read |
| `pool_lost` | violation | a stale exit counter swallows the wakeup of a task, which then stays in the queue |
| `containers` | pass | the string queue with 2 producers, 2 consumers and a limit of 3: sound list, `ByteFifo`, no stranded consumer; the ring buffer through several laps: mirror bits, `ByteFifo` until a forced block runs past the reader; the dictionary with 4 keys, 2 of them colliding, from 2 to 4 slots, with failing growth and copies: count, terminating search, unique keys, `KeyMap` |
| `ring_force` | violation | a forced block runs past the reader of a buffer that was not full, and the data left do not end with the block |
| `db_save` | pass | 2 files, failing opens, stops anywhere: a restart restores what was saved but for the two named cases; a value is forgotten only if its set overlapped a save; changes are saved in the end |
| `db_tail` | violation | a text shorter than the old one by more than three cells leaves a line that makes the next start discard the file |
| `programs` | pass | the six concurrent programs: `MessagesAccounted` (both message demos), `BlocksInOrder` (unlocked ring buffer), `FinalCount` (unlocked counter), `LinesAccounted` (interrupted waits), `TurnsAndDeaths` (chat with killed processes), and `NobodyWaitsForever` of all of them |
| `mutex_lost` | violation | increments of the two threads overlap and are lost |
| `sysv_qid` | violation | a received text overwrites the qid, and later messages of type 1 stay unanswered |
| `libraries` | pass | event timers (`TimersListed`: list intact, one node per id, no timer outside the list), ini files (`SavedIsLoaded`), device list (`ListIsTable`, `RoundComplete`), NTP client (`ClockSetRight`); cJSON: lists and ownership under every call order with one failing allocation (`MemorySound`), parser against grammar (`ParserExact`), copies and comparison (`CopiesCompareEqual`), parse, print and parse again (`RoundTrip`), print buffers (`PrintSafe`), `LiteralsExact`, `MinifyExact` |

The runs `containers`, `programs` and `libraries` check several parts; their properties are conjunctions of properties that
the parts' modules state one by one.

The violations are disagreements between the code and a comment, a log line or
the repository's README; `findings` in `PROJECT.json` quotes each of them.

The modules state five more properties that are false of the code. Each is
refuted in a few states when it is added to a cfg:

* `NoProducerOnFreedPool` (`ThreadPool`, 2 workers, queue of 1, 2 producers):
  `threadpoll_destroy` wakes the producers that wait for a free slot, joins the
  manager only, and frees the pool and its lock while a woken producer still has
  to take that lock.
* `NoExitPendingAtTake` (`ThreadPool`): a worker that comes back from a task takes the
  next one while `wait_exit_thread_num` is positive, which `threadpoll.c:122` says
  cannot be ("wait_exit_thread_num must be 0 before any work thread get task").
  With `CreateFails`, `LiveExact` is false too: the manager counts a worker whose
  `pthread_create` failed.
* `AllReleased` (`EventTimer`, 2 timers): the loop of `delete_all_timer` reads `pos->next`
  after its body has set it to NULL; one timer is deleted, "Release all timer
  success !" is logged, and the others go on firing.
* `InvalidMeansStopped` (`EventTimer`): `check_timer_status` compares `tv_sec` only; a
  single-shot timer in its last second is reported invalid and is about to fire.
* `NoFreedNodeUsed` (`MsgQueue`): the repository's README says "this queue is thread
  safe", but `QUEUE_POP` frees `q->node` and the node of `backrear` like any other; a push into
  a queue that was emptied writes to one of them (`queue.c:36` and `43`).

### Bounds

* Thread pool: growth needs more tasks than live workers and a worker to add, shrinking
  a worker more than `min_thread_num`; 3 workers with a minimum of 1 give both,
  and a second round of each. A queue of 2 wraps and gets full with 2 producers,
  and a producer can be blocked while another is inside the call. The number of
  tasks bounds the length of a run: 4 tasks fill the queue twice. The liveness
  runs use smaller instances, without symmetry. The theorems cover spurious
  wakeups and failing creations in pools that grow and shrink.
* Ring buffer: a pool of 5 bytes, aligned down to 4, and blocks up to 5: blocks that fit, that end at the
  edge, that wrap, that fill and that are longer than the pool.
* Message queue: 3 strings and 4 addresses, so that a freed address is used again while
  the list has other nodes.
* Dictionary: 2 slots that grow to 4 and then cannot grow, 4 keys, and keys that are counted without being stored: full at both sizes.
* Timers: 3 nodes make a list with an inner node; periods of 1 and 2 s are the shortest
  that differ after rounding.
* Database: one key per file and two values, the longer one by four characters, one more than the ends of
  lines at the end of a text, so that old text shows behind a shorter one. The application's saves and the timer's are
  two savers of the same file. `Mem`, the databases without a file, is empty in `db_save` and has one member in `db_tail`,
  which has one file and a value of six characters ("failed" is a default of the program).
  `Padding` is 2 instead of up to 30: it only makes lines longer.
* cJSON: 4 items, 3 strings, 2 names and 6 calls make a tree of two levels beside a
  reference to part of it, and every call on them. Texts have up to 6 tokens of 13 kinds
  (white space, broken literals and numbers included) or 9 of 8 kinds without white space: two members of
  one name in objects of one, and nesting one deeper than the limit, which is 2 here (1000 in the code).
  Literals of 3 lexemes, among them every boundary of UTF-8 in every pair; minified texts of 6 characters.
* Programs: queues of 2 messages, 3 (System V) and 4 (POSIX) typed messages, so that a queue is full
  with senders waiting; 5 blocks through a pool of 2, two laps and a half; the loop bounds of the
  code in `MutexDemo`; 6 posts and 2 signals; 2 clients, one of which waits in the backlog, and one killed process, client or server.
* Ini texts: values of 4 of 13 characters, texts of 4 of 6 lines with `LineSize` 10, so that a
  line can be too long.
* Tools: 2 lists, 2 devices, 3 nodes and 6 calls; for NTP seconds of 2 ticks, an era of 16 s,
  `Jan1970` at 11, so that the field rolls over at 5 s, a timeout of 3 s and 7 ticks, with clocks
  ahead of and behind the server's, at both ends of the era, and so far off that the offset is no `int` (an `int` has as many
  values as an era has seconds). Only the nodes of the device list are symmetric.

### Fairness

The code relies on the scheduler of the operating system and on nothing else.
`ThreadPool` and `ImiDb` assume weak fairness of each thread that can take a step
(the lock is granted in the end, tasks return), and that the manager's timed wait
and the periodic timer keep ending. Nobody is obliged to call
`threadpoll_add_task`, `threadpoll_destroy` or `imi_db_mi_set_value`, a process need
not be started or stopped, `ChangedIsSaved` supposes that `fopen` fails finitely often, and signals
go to any waiter: `AcceptedTasksAreTaken` in `pool_lost` fails under exactly this
fairness. `MCPrograms` assumes weak fairness of every thread of the message
demos, of the thread that waits for the semaphore and of receives in the chat. What
the user types, signals and killed processes are not fair.

## Proofs

TLAPS checks the theorems for every value of the constants that satisfies the
named assumptions of the module.

`ThreadPoolProofs`, from `WorkersAssumption` (a finite set), `QueueAssumption` (a
positive size) and the like:

* `TypeInvariant`: `TypeOK` is not inductive; a counter could leave its range. `TypeInv`
  adds that `busy_thread_num` is exact, that `live_thread_num` never undercounts and
  that a producer inside the call has a task. The lemmas count the workers in a
  state (cardinalities of sets of workers) before and after each step.
* `QueueIsFifo`: with `TypeInv`; `FifoTake` and `FifoAccept` do the arithmetic modulo the
  queue size.
* `MinimumKept`: a worker exits under a minimum check of its own, so staleness of the exit
  counter does no harm here.
* `LiveCountExact`, if no `pthread_create` fails.
* `FreedAfterWorkers`, with spurious wakeups and failing creations: along `ShutdownOrder`, which also says
  what the manager's program counter tells about how its wait ended.
* `FixedPoolServes`: if min = max no worker exits, and a queued task has an awake worker.
* `ProducersServed`: as many woken producers as free slots whenever one is blocked.

`DictionaryProofs`, for every set of keys, every hash function and every size:

* `DictInvariant`: `DictInv` is inductive: types, the count (`uncopied` included), unique keys and hashes that
  fit their keys. The last two are needed together: a search goes by hash, and
  would miss a key whose hash is wrong and store it twice.
* `CountIsExact`, `InsertEnds` (a count below the size that is at least the number of used slots leaves one empty),
  `NoKeyTwice`.
* `ImplementsMap`: every step of the dictionary is a step of `KeyMap` or a stutter;
  `StoreMaps`, `ReplaceMaps` and `UnsetMaps` show that a call changes the value of its
  own key and no other.

`ContainersProofs`, from finite sets of threads and more addresses than the limit:

* `ChainIsSound`: `QueueInv` says that some function lists the nodes from `front` to
  `backrear`, as many as `count`, all different, allocated and filled, and that an empty queue has
  no node or the untouched first one. `ChainSound` names that function by recursion;
  `WalkUnique` shows that the recursion and the function of the invariant agree.
  Each of the four pushes and pops gives the new function from the old one.
* `ImplementsQueue`: the refinement of `ByteFifo`, from `QueueInv`: a push appends to the
  contents (and drops the first string when full), a pop takes the first.
* `ConsumersServed`: `NoStrandedConsumer` is inductive with the types; the work is in counting
  the signals and woken consumers before and after each step.
* `CountStaysExact`, `InsertAlwaysEnds`, `KeysStayUnique`, `DictIsKeyMap`, `MirrorsStayRight` and
  `RingIsByteFifo` carry the theorems of the two modules around this one over to `MCContainers`, where the run
  `containers` checks the same properties: a run of the containers is one of each container (`RunOfRing`, `RunOfDict`).

`RingBufferProofs`, for every pool of at least 4 bytes and every block length, up to a forced block
that runs past the reader:

* `MirrorsCountLaps`: `RingInv` adds to `MirrorsAgree` that the cells between reader and
  writer were written. Single bytes are shown to be blocks of length one
  (`PutcharIsPut`, `GetcharIsGet`), so that each case is done once.
* `RingImplementsFifo`: the contents are the cells from the reader on; `WriteAppends`,
  `ForceKeepsLast` and `ReadTakesFirst` say what a copy in one or two pieces does to them.

`ImiDbProofs`, for every number of files, keys and timer threads, every padding and every set of values that
can be saved, of whatever length:

* `DumpLoads`: what `iniparser_dump_ini` writes, and any ends of lines behind it, loads
  as the dictionary it was made from. `FlatPlaced` says where the pieces are in what
  `FlattenSeq` joins by recursion, `Laid` what a file looks like, place by place, and `LinesLaid` that the
  header, the lines and the end make one; `LaidStarts` finds the lines again, `LineValue` and `StripValue`
  the value in a line, `LaidLoads` puts them together.
* `FlagDownMeansSaved` and `RestartReads`, from `DbInv`. `LostOnlyByOverlap` alone is not inductive. `FileInv` says
  that a file that is neither `emptied` nor has an `overhang` loads as what was last saved, `SaverInv` that a thread behind
  the lock has a whole dump in its buffer, and `FreshInv`, for a database whose last set was
  not overlapped: whoever is past the dump has the values of now, whoever has written them
  has saved them, and a set between its flag and its value has the flag up. `StartInv` says how far
  `imi_db_mi_init` has come and what it has read. `OverwrittenLoads` is
  the one place where lengths matter: without an `overhang` only ends of lines are left behind a new text.

`ProgramsProofs`, about `MCPrograms`, whose constants carry named assumptions (numbers are
numbers, capacities are positive, `MutexBound1` and `MutexBound2` are at least 2, the clients
are finitely many). Every program has an invariant of its own, and a step of another one leaves it
alone:

* `LinesAreAccounted`: `SemInv` bounds the semaphore by the posts and the broken waits by the signals.
* `CountsAreBounded`: a final count of 1 would need a thread that stores 1 as its last
  value; `LoadedInv` says which values a thread may hold in each round, `CountInv` what the
  counter then is.
* `MessagesAreAccounted`: `PosixInv` says that a message is in one place only and that what main
  is about to send is new. `SysvInv` keeps, for all messages of one type, the order through the queue, the
  answer in `thr_fun1` and what was printed, and accounts for every message that is none of them, also when a thread
  has lost its qid.
* `TurnsAndDeathsHold`: `ChatInv` describes the client that is served (`IsServed`: who may
  speak follows from what is in the two directions), the ones in the backlog and all others, and after the
  death of the server the one it served.
* `BlocksArriveInOrder`: `RingDemoInv` counts a side between its two stores as past the end of the pool,
  which its mirror bit already says (`ReadAt`, `WriteAt`). Then the two counters differ by what
  mirror bits and indices say (`Counted`), a side that copies has a block or room for one (`Claims`), the cells in
  between hold the blocks (`InPool`), and equal indices with different mirror bits were so when the
  put began (`FullSeen`). The exception, a thread that was outrun, ends the claim for good.

`ToolsProofs`, about `MCTools`:

* `TimersAreListed`, for every set of ids and finite set of nodes: again the invariant `TimerInv` says that a
  function lists the nodes from the static head on, and `WalkFollows` that the recursion of the model computes
  it. `DropKeeps` takes one node out; `delete_all_timer` and `delete_designation_timer` both use it.
* `ClockIsSetRight`, from `NtpAssumption` (positive units, `JAN_1970` within the field, a clock
  since 1970): `NtpInv` says what packet is in the buffer and in which order the times of the exchange came;
  `StampKeepsTime` is the arithmetic of the wrapping field, `TruncateLeaves` that of the
  conversion to `int`.
* `ListsAreTables`, from `ListAssumption` (finitely many nodes; nodes, NULL and freed memory can be
  told apart), for every number of lists, devices and calls: `DevInv` says that every list in use has a row, a
  function that gives its nodes in order, that the rows hold what the tables say, share no node and together
  have every allocated one (`Kept`), and that a record is that of a node or was given up
  (`Counted`). It also says where the static places are (`AtPlace`): in the
  list of the round, with everything that is due and did not come behind them. `KeptIsWalk` shows that the recursion
  of the walk computes the rows. Each call gives the new row of one list from the old ones: `Rerowed` is what the
  calls share, `Removal` both pops, `Reordered` swap and reverse.
* `RoundsAreComplete`, from the same invariant: a round ends with its place at NULL, and nothing is
  behind NULL.

`ProofLemmas` has what these share: the least natural number with a property, equality along a
recursion, and the elements of sequences that are joined, cut, extended or shortened. What a recursive
*function* computes is proved with the first of them: a least place where two
functions differ is impossible.

Only model-checked, and why:

* Liveness (`AcceptedTasksAreTaken`, `DestroyReturns`, `BlockedProducersReturn`,
  `ChangedIsSaved`, `NobodyWaitsForever`): fairness and `ENABLED` are out of the prover's reach.
* Everything about `JsonHeap`, `JsonTree`, `JsonText`, `JsonString` and `JsonMinify`: these
  modules follow the recursion of the code with `RECURSIVE` operators, which the prover does not accept.
* `SavedIsLoaded` of `IniText`: what its folds over lines and characters compute for texts of every length
  needs an induction with an operator as its parameter.

## Plan

Modelled so far, in this order: thread pool, ring buffer, dictionary, event timers, database,
message queue, cJSON, the concurrent demo programs, ini files, device list and NTP client. Next:

1. `ImiDb`: saving and setting with the dump of a dictionary of several keys in steps.
2. The buffers of `iniparser.c` at their limits, character by character.

## Not modelled

* `set_max_thread_num` (static, without a caller); allocation failures that return
  before any thread exists.
* The ROM database of `imi_db_mi.c` is read-only and comes from a flash partition;
  `imi_db_mi_get_value` changes nothing; `imi_db_mi_deinit` has no caller.
* Of the ini parser the typed getters, `iniparser_dump` and failing allocations. In `ImiDb` a key
  is one cell, so that a tail that begins inside a key, or inside a value with a `=`, is refused like any other; the code
  takes it for a name it does not know. Both are an `overhang`.
* Of the start of the database a failing `fopen` with "w" and failing allocations.
* Of cJSON the digits of numbers, which the C library reads and prints, and with them a failing `sprintf`
  (`cjson.c:457-461`) and NaN, which no text denotes; and `cJSON_SetNumberHelper`.
* The contents of messages in the chat and in the message demos; a message of the chat arrives in one piece.
* The SQLite demos, the Python and shell scripts, the Arduino sketches: input and
  output with a few lines of control.
* Adafruit_NeoPixel, TimerOne, FHT and LEDMatrix: third-party code.
