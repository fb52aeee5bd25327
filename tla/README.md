# libcsjp in TLA+

A verification project for [libcsjp](../src/README.md), a C++ library of
containers, strings, files, sockets, an edge-triggered event loop, HTTP and
WebSocket parsers, signals, daemons and logging.

The library is single-threaded in most places. Its concurrency is in the spin
lock, in the logger that threads and signal handlers share, in `fork`, in the
kernel and the peer on the other side of a socket, and in other writers of a
file. Its difficult sequential code is the balanced tree under all containers
(twice, with pointers across, in the sorter containers), the buffers that grow
under arrays and strings, and what is built on those: replacing, searching, and
the Json parser and printer.

## 1. Inventory

| component | state | operations | talks to | hard part | what makes it correct |
|---|---|---|---|---|---|
| **Mutex** `core/csjp_mutex` | one `unsigned` | `lock`, `unlock`, scoped `Lock` | threads | failed attempts are counted in the word for a while | exclusion, the word never wraps, a lone contender gets in |
| **Logger** `devel/csjp_logger` | lock word, log directory, cached file name, "have a directory" | `msgLogger`, `setLogDir`, `logFileName` | every component; handlers | reentrant from handlers, copied by `fork` | one order in both outputs, own log file, no deadlock |
| **Signal** `system/csjp_signal` | disposition, flags | constructor, destructor, handlers | logger | handlers run anywhere | a TERM ends the program |
| **Daemon** `system/csjp_daemon` | pid file, log directory | `daemonize`, destructor | logger, file, signal | death at every step, restart, pids of different lengths | the announced pid file begins with the pid, and holds nothing else if no pid is longer |
| **File** `core/csjp_file` | descriptor, mode, `fileSize` | open, read, write, append, overWrite, resize, rename, unlink, moves | kernel, other writers | partial writes and their reversal, moved-from objects | size and content agree, a descriptor has one owner |
| **Socket** `system/csjp_socket` | descriptor, two buffers, two totals, `closeOnSent` | `readToBuffer`, `receive`, `writeFromBuffer`, `send`, `close` | kernel, callbacks | partial reads and writes, callbacks that close or send | streams intact, totals right |
| **EPoll, EPollControl** `system/csjp_epoll*` | epoll file, event buffer, list of control events | `add`, `remove`, `wait`, `waitAndControl` | sockets, kernel | an edge is reported once | nothing waits for an edge that will not come; closes are reported, and only closes |
| **Client, Server, Listener, DupSocket, nc** | a socket each | connect, accept, dup; the main loop | EPoll | retries, end of the program | connections are removed when they end |
| **BinTree** `container/csjp_bintree.h` | nodes with parent, left, right, size | insert, remove, clear, rotations, look-ups, walks | containers | rotations inside a recursive removal, equal keys | links and sizes agree, balance, order, termination |
| **Container family** `container/csjp_*container.h` | a root | add, remove, removeAt, clear, index, has, iterators | BinTree | position and key views of one tree | a stable sorted list |
| **ValueBinTree/-Container, ReferenceContainer** | the same with values, or without ownership | the same | | the same | the same |
| **SorterContainer** | two trees over the same data | add, remove, sort, copy | BinTree | pointers between the trees | the trees hold the same objects, in two orders |
| **Array, PodArray, RefArray, CArray** | block, length, capacity | add, join, remove, erase, pop, move to front, resize | | growth, ownership, empty arrays | no object lost or freed twice, the rest keeps its order |
| **String, Str, AStr** | block, length, capacity | append, insert, chop, cut, trim, find, split, replace, encode, format | | growth, bounds, the end | the string is the sequence of its characters, and ends with a zero |
| **Text, Unichar** | an encoded text | convert, compare, fold | ICU, iconv | | not modelled |
| **Json** | a tree of values, each with hidden parts of other types | parse, toString, `[]`, assign, copy | strings, containers | recursion, escapes, keys that come twice | what is printed is read back, what is read is what was meant |
| **HTTP** `system/csjp_http` | the parts parsed so far | `parse`, `clear`, `toString` | socket buffer | called again with more bytes | a message is taken whole or not at all |
| **WebSocket** `system/csjp_websocket` | header fields, payload, limit | `parse`, `toString` | socket buffer | lengths of 7, 16, 64 bits, masks, cuts | composing then parsing is the identity |
| **Exception, Object, Stopper, macros, portability** | | | | | not modelled |

Where the components meet:

* threads and handlers meet in the logger (shared lock word);
* the daemon calls the logger, a file and a signal, and is interrupted by the latter;
* the event loop calls a socket, the socket calls back business logic, which
  calls the socket again; the kernel and the peer move in between;
* containers call the tree with their root pointer by reference; a sorter
  container keeps two trees that point at each other's nodes;
* a Json keeps its members in a container and escapes its values with
  `String::replace()`, whose gaps become its own;
* the pid file of the daemon is a File.

The hazards, each at its line with the properties that watch it, are in
`PROJECT.json`.

## 2. Modules

| module | models | notes |
|---|---|---|
| `CriticalSection` | what a lock promises | abstract |
| `Mutex` | `csjp::Mutex` | one action per atomic operation |
| `MutexProofs` | theorems about `Mutex` | |
| `Daemon` | `Daemon`, `Signal`, `msgLogger`, the program of `system/test/signal.cpp` | instantiates `Mutex` for the lock of the logger |
| `EPoll` | `Socket`, `EPoll`, `EPollControl`, the callbacks and main loop of `nc`, kernel and peer | one connection, byte by byte |
| `Listening` | `EPollControl` with a `Listener` and several `Server`s, the main loops of `nc` and of the test servers | bytes are there or not |
| `BinTree` | pointers, sizes, rotations, look-ups as operators on a record `t` | no variables |
| `SortedList` | what a container promises | abstract |
| `Container` | `Container` with `OwnerContainer::add` over `BinTree` | a loop round or recursion level is a step |
| `HTTP`, `WebSocket` | `toString` and `parse` of requests, responses and frames as operators | no variables |
| `MessageChannel` | what receiving messages promises | abstract |
| `Receive` | `Socket::receive(parser)` over `HTTP` or `WebSocket`, read buffer, peer | |
| `BinTreeProofs`, `ContainerProofs` | theorems about the tree operators and about `Container` | the refinement of `SortedList` is proved |
| `EPollProofs`, `ListeningProofs` | theorems about the event loop, with one connection and with many | |
| `DaemonProofs` | theorems about the daemon and its logger | instantiates `MutexProofs` |
| `Outcome` | how a call ends: it returns, throws, or has left its memory | for the operators below |
| `Array`, `RefArray`, `PodArray`, `CArray` | the operations of one array as operators on a record | no variables |
| `Arrays` | a program with two arrays of one class and the objects they own | |
| `OwnersProofs` | theorems about `Arrays` with the operators of the four arrays, and about `File` | |
| `StringsProofs` | theorems about `Strings` and the methods of `String` | |
| `AStr`, `Str`, `String` | searches and conversions; views; the growing string, as operators | no variables |
| `Strings` | a program with one string | |
| `Json` | parser, printer, members as operators over `AStr` and `String` | no variables |
| `Documents` | a program with one Json | |
| `Sorter` | `SorterContainer` over two trees of `BinTree` | a call is a step |
| `File` | `csjp::File`, the file on the disk, another writer, descriptor 0 | an operation gives the set of its outcomes |
| `Classes` | composes `Arrays`, `Strings`, `Documents`, `File` | a program uses one of them |
| `ContainerProgram`, `MCComments` | one program over `Container` and `Classes` | only decides which call comes next |
| `MCMutex`, `MCDaemon`, `MCEPoll`, `MCListening`, `MCContainer`, `MCReceive`, `MCClasses`, `MCSorter` | instances for TLC | |

### Mutex

`mutex` is the word. `pc[t]` is where an activation of `Mutex::Lock` stands:
`FetchAndAdd` is the `__sync_fetch_and_add` of `lock()` with the test of the
value before it, `FetchAndSub` the decrement after a failed attempt, `Unlock`
the decrement of `unlock()`. The word has `Modulus` values and wraps.

### Daemon

`pc[f]` says where frame `f` is in `msgLogger`; every thread has a frame for its
own code and one for a handler that has interrupted it, and does not move below
an active handler. `place` is where the main thread stands in `daemonize` and
the program around it. `fork` keeps the lock word and drops the threads. SIGTERM
is sent at any time, is delivered to any thread that has it unblocked, and kills
when there is no handler. `Die` and `Restart` leave only the pid file behind.
The content of the pid file is a sequence of digits that each carry the process
that wrote them, so a mixture shows. Each start of the daemon has a pid of one of
the lengths `PidLengths`; the file is written over and never truncated.

### EPoll

`file`, `readBuffer`, `writeBuffer`, `totalReceived`, `totalSent`,
`closeOnSent` are the members of `Socket`. `pc`, `batch`, `old`, `report` are
the locals of `waitAndControl` and `controlDataIn`. The kernel holds `rx`, `tx`,
`fin`, `reset`, and `ready`, the edge that `Wait` takes. Bytes carry their
number in the stream.

The two loops of `Socket` are modelled system call by system call, and the peer
may move between any two. `ReadBytes` is one `::read` with the callback for what it
brought; `WriteBytes` is one `::write`, `written` the local that adds them up, and
`WriteEnds` the rest of `writeFromBuffer`: count, chop, raise a reset, close.
So bytes may go out and the next `::write` of the same call meet a reset.

The callback `DataReceived` chooses among what the classes of the repository do:
keep, take, take and answer, close. An answer may raise `SocketClosedByPeer` out of
the read loop. `send()`, `receive()` and `closeOnSent` are public, so the program
may use them between two calls of `waitAndControl` (`pc = "wait"`), and also in the
callbacks of other sockets while this one's events wait in the batch
(`pc = "control"`); `writer` and `reader` say who called, and so where the call
returns to. `drained` says that such a `receive()` has read in this batch. `dropped`
counts the bytes that went down with a connection that was reset or closed.

### Listening

What several sockets do to each other in one epoll file. `phase` follows a
connection from the peer's `connect` over the listener's queue to the epoll file
and out of it; `unread`, `fin` and `reset` are what its socket would report.
`ready` is the kernel's ready list, in which an item is once; `Wait` takes as many
items as `events` holds and puts each of them with what it polls into `batch`, of
which `SkipClosed` passes over the sockets closed since. `reports` is the list of
control events. `reading` is the loop of `readToBuffer` for the event at hand: it
ends only with a `::read` that finds nothing (`ReadEnds`) or a callback that closes
(`ReadCloses`), so a peer that goes on sending keeps it, and all the other sockets
wait. `program` is one of the two main loops of the repository: `nc`
adds the one connection it takes from within the callback, removes the listener,
and ends with the first control event; the servers of the tests add what they
have accepted after `waitAndControl` and remove every socket that is reported.
`pc = "failed"` is the exception of a container asked to remove what it does not
hold.

### BinTree and Container

`t` holds `root` and, for every node, `parent`, `left`, `right`, `size`. Each
operator returns the tree the C++ function leaves. `pc` of `Container` names
the loop that runs: `descend` of `insert`, `balance`, `find` and `walk` of the
search for a replacement, `replace` and `count` of `remove`. `removing` is the
stack of recursive `remove` calls. `data[n] = NULL` says that node `n` is not
allocated.

The call on a NULL pointer at the end of `remove` of a leaf
(`csjp_bintree.h:473`) is undefined in C++. `configure.in` builds with `-Og`,
for which the loop condition `iter != NULL` is evaluated first and the call does
nothing: this is what `Counted` models. An optimiser that trusts `this` to be
non-NULL may produce a crash instead.

### HTTP, WebSocket and Receive

`Composed` is `toString`, `Parsed` one call of `parse` on the object as the last
call left it; it returns the object, the number of processed bytes and whether
the call throws. The characters of a HTTP message that matter are CR and LF; a
start line, a header line and a byte of the body are one piece each, so a cut
inside a line is the same as a cut before it, which it is for `parse`: it looks
for line ends. Keys of headers are in lower case already (`toString` compares with
`content-length` before it lowers the key, `csjp_http.cpp:65`), the lines that
continue a header have no colon, and start lines are valid.

A byte of a WebSocket frame has `Radix` values instead of 256 and a length up to
`ShortMax` instead of 125 fits into the second byte; the other widths follow. The
bytes of an extended length are read without looking whether they have arrived:
what lies behind the data is the terminator of the string and then `Junk`. The
halves of a 64-bit length go out low half first; `parse` reads them the same way,
so the library understands itself, though RFC 6455 wants the high half first.

`Receive` lets the peer send, the kernel deliver any number of bytes (`Read`) and
`dataReceived()` call `receive()` until it returns false. The business logic clears
the object after each message; a frame may also be used again as it is. (The test
servers call `receive` once for each `dataReceived` and stop after one message.)
When `parse` throws, `EPollControl` reports it, and the programs let the
connection go: `raised` ends the reading.

### Arrays

A record `[items, cap, block]` is one array: what is counted, the capacity, and
whether memory has ever been allocated, which the checks of `pop()` and
`moveToFrontAt()` look at instead of the length. `Arrays` has two of them, of one
class, so that objects move between arrays; `alive` are the objects that exist,
`held` those the program owns itself. `slips` remembers which of the class's holes
the program has stepped into (`setCapacity()` below the length, `pop()` of a
`RefArray`, `resize(0)` of a `CArray`), `ruined` that memory beyond the array was
touched; after that nothing more happens. The growth of the code is kept, with
its thresholds as constants small enough for the cases to be taken: `Few` and
`Many` for Array, `Limit` and `Step` for the other two, which grow by a step below
the limit and fivefold above it.

### Strings

`[block, cap, items, end]`, where `end` is what stands behind the last character:
an operator that forgets the terminating zero is caught by `StringEnded`. Every edit is written with
`ShiftForward`, `ShiftBackward`, `Written` and `Grown`, as in the code, so bounds
and growth are the code's. `AStr` holds the searches with the position at which
they go on after a partial match (`Advance`), base64, and the comparison. `Str`
restricts a view; `Strings` makes the calls on one string, with a state that says
whether it is still `sound`, only `trusted` (`setLength()` writes no zero), or gone.
`AppendSelf` reads the block that growing has freed: when it grows, the string is
ruined.

### Json

A value is a record `[type, string, properties, array]`: a Json has all four at
once and the type says which one is shown, so what an earlier type left behind may
come back. `Parse` follows the rules of the parser function by function;
`Lost` stands for an exception. `Printed` is `toString`, with the `Replace` of
`String` for the escapes. Characters are their codes.

### Sorter

`root` and `custom` are the two trees, over the same node names; `customOf` and
`primaryOf` are the pointers `PrimaryBox` and `CustomBox` keep across. `sort()` builds a new custom
tree and repoints the primary nodes, which it finds by key. `mode` is the order
`compare()` gives at the time; `sorted` says that the custom tree was built with it,
`tied` that equal keys were sorted. After that some custom pointers may dangle
(`NoneDangles` is false), and a second `sort()` or a copy reads through them:
`SortOrCopyDangling` ends the program. The trees are built by the operators of
`BinTree`.

### File

`f` is the object with the file it names and the owner of descriptor 0. Every
operation returns the set of its outcomes, since every system call may fail, `close`,
`lseek` and `stat` too, `write` also after some bytes; a failed write is undone by
`resize`, which may fail as well. A `::close` that fails has released the
descriptor nevertheless (close(2) on Linux), and `File::close()` throws and keeps
its number (`gone`): every later call through it fails with EBADF, as long as nothing
else in the process is given the same number, which the model does not do.
`appending` says whether the count in `fileSize` can be right. A `File` that was
moved from keeps descriptor 0 (`leftover`); its destructor closes it. `eofbit`,
which nothing but its getter reads, is left out.

## 3. Runs

| run | bounds | shows |
|---|---|---|
| `mutex` | 4 contenders, word of 3 bits | all interleavings of 4 contenders; the word counts to 7 so that one lost decrement is not hidden by the wrap |
| `daemon` | 1 thread of the parent, 1 of the child, 2 starts, pids of 1 or 2 digits, 2 TERMs, word of 8 | every interleaving of logging threads, handlers, fork, death and restart; a pid written over a shorter, an equal and a longer one |
| `daemon_term` (violation) | the single-threaded program of the test, started again after a crash with a pid of as many digits or fewer | findings 1 and 2 |
| `epoll` | 3 bytes in, 2 out, reads of up to 2, room for 1 | an edge needs more than one read and a write meets a full kernel; with 3 bytes some are in the buffer, some in the kernel, some yet to come; with 2 a write puts one out and the next meets the full kernel or a reset |
| `epoll_close` (violation) | 1 byte each way | finding 3 |
| `listening` | 2 connections, a buffer for 1 or 2 sockets | the listener and both connections want one buffer; connections that come together; a reset at every point of a batch |
| `container` | 5 nodes, keys 1 and 2 | single and double rotations in both directions, recursive removal, equal keys on both sides of a node |
| `comments` (violation) | 15 nodes, two arrays of each of three classes, a string; one program of 21 calls of a container and a dozen of the others | findings 4 to 14 |
| `receive` | 2 messages of 4 HTTP messages and 11 frames, bytes of 4 values, limit of 30 bytes | every cut of two messages, also in one piece; lengths on both sides of every width and of the limit; a body that looks like the end of the headers; headers of several lines |
| `receive_cut` (violation) | the same, zeros behind the data | finding 15 |
| `classes` | two arrays of up to 3 of 3 objects or 2 values; a string of up to 4 of 2 characters, patterns of up to 3; a Json of up to 2 parts, 200 documents; a file of 3 bytes, 2 in a call, 2 moves | growth by each rule, cuts at both ends, ownership through both arrays; texts that begin like themselves, matches that touch; every token, escape, refusal and a key that comes twice; a write that fails between its two bytes, overwrites, and leaves a gap |
| `sorter` | 4 objects, 3 keys, 2 orders | adding and removing on both sides of a sort, sorting with equal keys, copies |

Two messages are enough for a parser that has no memory once it is cleared: the
second one shows what the first left behind.

Three contenders are the fewest for which one fails on the count of another that
failed itself; four adds an owner. Five nodes are the fewest that make `BalanceAt`
rotate twice in a call and a removal recurse into a node that has a child. They do
not reach the rotations of `BalanceLower`; the program of `comments` does, and
`BalanceAtSound` of `BinTreeProofs` covers them. That program (`ContainerProgram`)
only chooses which call of `Container` comes next, since fifteen nodes are too many
for every order of calls.

`comments` collects what the comments of the classes state and the code does not
keep. `Said` of `MCComments` is a record of eleven such statements, each written from
its comment, with the line beside it; `refuted` remembers which of them have been
false in a state so far. The program makes the array and string calls of a script and
then those of `ContainerProgram`; each of its steps is an action of `Arrays`,
`Strings` or `Container`. `SomeCommentHolds` says that one of the eleven is never
false, and the counterexample is a behaviour in which every one was.

In the same way `PidFileCanBeUsed` of `daemon_term` is the disjunction of two
statements, that the announced file is the pid and nothing else, and that a TERM
removes it; one behaviour breaks both.

The invariants of `classes` quantify over every argument in every reachable
object, so a call need not be taken to be checked (`replace()` is taken only on two
ranges, and checked on all); the runs reach objects with
every history that leaves capacity, block and hidden parts in different ways. A
search restarts, and a replacement meets a match that touches, with two
characters and patterns of three; base64 needs three bytes, the fourth begins
the next group. Integers have the width of `NumberBound`, below which the least
number is the only one without a negative. The documents are built in `MCClasses`
together with what they mean, so the parser is compared with an independent
definition; a Json is then changed by members, elements, types and copies. Two
moved-from files are the fewest that steal a descriptor.

In `listening` a queue of the default length takes in one connection at a time, so
one `accept` for an edge is enough; the second connection shows that it is, and is
the fewest with which a buffer is too short. Two sockets and the listener give every
order of a batch in which one event's callback ends another's socket.

Pids of one and of two digits are enough for a file that is never truncated: what
counts is whether the one before was longer.

`CHECK_DEADLOCK FALSE` is set where the system may stop: a daemon that exited, a
connection that ended, an object whose memory is gone or that has reached its bound.
The lock and the container never stop.

### Fairness

* `Mutex`: weak fairness of each contender that is past `idle`: the scheduler runs
  every runnable thread (`sched_yield` in the loop asks for it) and a scoped
  `Lock` ends. Nobody is obliged to lock. This does not make the lock free of
  starvation, and the property does not claim it.
* `Daemon`: weak fairness of the main thread, of every frame inside the logger and
  of the delivery of a pending signal. Sending signals, dying and logging of other
  threads are not fair. `TermStopsDaemon` assumes that other threads stop logging,
  since the lock promises nothing under contention.
* `EPoll`: weak fairness of the event loop, of a peer that reads what it was sent and
  of a kernel that owes a reset. Strong fairness of the steps of `waitAndControl`: the
  program calls it in a loop, and in between, or in other callbacks, may call
  `receive` and `send`, which take `pc` away for a while. Weak fairness would
  allow a program that only ever calls `receive`, which none of the programs does.
  That a read loop ends follows from the bound on the bytes of the peer.
* `Listening`: weak fairness of the main loop: the program calls `waitAndControl`
  again and again until it ends, callbacks return and `::read` does not block. The
  peers need not do anything. That the read loops end is not assumed: a peer that
  keeps sending may hold one for ever, so `EveryoneIsServed` has `ReadLoopsEnd`
  for its hypothesis and promises nothing otherwise.
* `Container`: weak fairness of the steps of a call that has begun.
* `Receive`: bytes that are there are read (what `EPoll` checks), and
  `dataReceived()` returns. Nobody is obliged to send.

### Findings

1. **A TERM inside the logger hangs the daemon** (`csjp_signal.cpp:24`). The
   handler logs; if its own thread is inside `msgLogger` with the lock word
   raised, the handler spins for ever.
2. **A shorter pid leaves digits of a longer one in the pid file**
   (`csjp_file.cpp:460`, called at `csjp_daemon.cpp:82`). After a daemon died without
   unlinking its file, the next one writes its pid over it, truncates nothing, and
   logs that it is ready: "Administrator can use the pid file from now on"
   (`csjp_daemon.cpp:86`).
3. **A close behind data is not reported** (`csjp_epoll_control.cpp:40`). Bytes
   and FIN in one edge: the total moved, so the close is not noticed, and the edge
   is spent.
4. **Removal of a leaf does not rebalance** (`csjp_bintree.h:473`). The call is on
   NULL. Of four keys one is removed and the root is left with two nodes on one side.
5. **Insertion does not keep the balance** (`csjp_bintree.h:337`). The inner rotation
   of a double rotation may leave the lower node with all of a big subtree and a
   single node; it is looked at once and rotated once, which a subtree heavy on its
   inner side is not mended by, and the loop, which is already above it, does not come
   back to it. With the keys 15, 14, 13, 11, 10, 9, 8, 5, 4, 3, 2, 1, 7,
   6, 12 node 14 ends with 4 nodes to its left and 1 to its right; the same calls of
   the class itself give the same tree. Fewer insertions keep the balance. What
   does hold, for any tree, is that the root is balanced when `add()` returns
   (`AddBalancesTheRoot`).
6. **`validity()` refuses equal keys** (`csjp_bintree.h:643`). `insert()` promises
   them a stable order (`csjp_bintree.h:386`), and keeps it (`ImplementsSortedList`),
   but `validity()` throws when a child has the key of its parent.
7. **`setLength()` leaves a string without its end** (`csjp_string.cpp:53`), where
   the class comment says `data[len] == 0` (`csjp_string.h:40`).
8. **`RefArray::pop()` deletes** (`csjp_ref_array.h:263`): it wraps a reference into
   an owner, in a class that does not care for "deleting on destruction or removal"
   (`csjp_ref_array.h:17`).
9. **`CArray::resize(0)` keeps a block it has freed** (`csjp_carray.h:83`), in a class
   that takes care "of allocating, reallocating and freeing memory" (`csjp_carray.h:26`).
10. **`pop()` of an array without a block counts below zero** (`csjp_array.h:345`),
    where the invariant of the class comment is `len == 0` (`csjp_array.h:108`).
11. **`'['` is a digit of base64** (`csjp_astr.cpp:443`): the table has a second 25,
    where the comment above it has 768 (`csjp_astr.cpp:433`), so it decodes like `'Z'`.
12. **Escapes by number are refused** (`csjp_json.cpp:285`), which are in the grammar
    (`csjp_json.h:395`).
13. **A number needs no digit** (`csjp_json.cpp:345`): the parser takes a lone `e`,
    for which the grammar has no rule (`csjp_json.h:396`).
14. **What stands behind a document is ignored** (`csjp_json.cpp:550`); the grammar
    ends with the bracket (`csjp_json.h:355`).
15. **A masked frame cut inside its header throws** (`csjp_websocket.cpp:186`). The
    key is read before its bytes are known to be there. With other bytes behind the
    data a long frame without key may throw as well, as too long
    (`csjp_websocket.cpp:203`). `AllArrive` shows that a cut header is the only case.

### What the code does that a caller may not expect

No doc or test contradicts these; the invariants state them exactly, as the
condition under which the expected holds, or as what happens instead. Where an
exception of an invariant is one of the findings above, its comment names the
finding's case.

* EPoll: `closeOnSent` set after `send()` has already written everything closes
  nothing (`csjp_socket.cpp:155`); no write or edge follows. The comment at
  `csjp_socket.h:110` ("close connection when writeBuffer empty") can be read either
  way.
* EPoll (`NoSpuriousClosedByPeer`): when the callback of one socket calls `receive()`
  of another whose event waits in the same batch, and so reads the bytes the event
  was about, `controlDataIn` finds nothing new and reports `ClosedByPeer` of a peer
  that is there (`csjp_epoll_control.cpp:40`). No program of the repository does.
* EPoll (`EveryoneIsServed`): `readToBuffer` reads until there is nothing left
  (`csjp_socket.cpp:88`), so a peer that sends as fast as it is read starves all
  other sockets.
* Listening (`ReportedOnce`, `RemovesWhatItHolds`, `EveryoneIsServed`): a connection
  that is reset while its batch is controlled may be named twice in the list of
  control events (`csjp_epoll_control.cpp:89`); a program that removes every socket
  it is told about throws at the second, and at the listener whose `accept` failed.
  With a queue longer than the default the listener would leave a connection
  waiting, as it accepts one for an edge (`csjp_server.cpp:27`).
* Arrays (`OneOwner`, `PodArraysKeepOrder`): `setCapacity()` below the
  length forgets the objects (`csjp_array.h:124`); `PodArray::prepend()` always throws,
  `moveToFrontAt()` of the length makes the array longer; `sort()` is empty in all
  four. Joining an array with itself never ends, and the model does not do it.
* Strings (`StringIsASequence`): `chopBack(0)` without a block writes through NULL,
  appending a string to itself reads the freed block if it grows, `trimBack()` leaves
  a text of only trimmable characters.
* Searches (`SearchesFind`): `findFirst()` and `findLast()` miss a text whose first
  (last) character occurs in it again, as "aab" in "aaab" (`csjp_astr.cpp:101`);
  `findFirstOf()` finds nothing in a range shorter than the set.
* `replace()` (`ReplaceReplaces`): a longer text for matches that touch, and a
  shorter one with a match in front of the range, throw half way or leave a text
  that is neither (`csjp_string.cpp:642`, 672).
* Conversions (`ConversionsReadBack`): the least `long long` is written wrong
  (`csjp_string.cpp:422`); of two or more surplus arguments `catf()` drops the first.
* Json (`JsonKeepsItsWord`): keys are not escaped; numbers, booleans and null print
  as strings; control characters made from escapes are printed as they are and then
  refused; quotes and backslashes side by side behind the first cannot be escaped;
  white space in front of a document is refused; keys
  that come twice are merged; a copy has neither type nor keys, assignment ignores
  containers; setting an existing key of an object that became a string does not
  make it an object again.
* Sorter (`ViewsAgree`, `ShowsItsOrder`): `sort()` of equal keys leaves pointers into
  the deleted tree (`csjp_sorter_container.h:348`), which the next `sort()` or copy
  reads (260, 334); the copy is sorted by the
  `compare()` of the base class; `has()` of an empty container calls through NULL.
* File (`WrittenAsPromised`, `DescriptorsKept`): overwriting
  counts as growth (FIXME at `csjp_file.cpp:479`), so a failed write after it cuts or
  extends wrongly; `write()` of a closed object starts at the front and keeps the
  tail; a first read that fails writes in front of the buffer (360); a `File` moved
  from closes descriptor 0 (`csjp_file.h:64`), and assignment drops an open one; a
  `close()` that fails leaves an object that says it is open, whose every call fails
  (`csjp_file.cpp:321`), also when it is the close with which a failed write is undone.

## 4. Proofs

Every theorem holds for all values of the constants that satisfy the
assumptions named in the modules.

### Mutex (`MutexProofs`)

Assumptions: `ThreadsAssumption` (a finite set of contenders) and
`WordAssumption` (fewer contenders than the word has values; `unsigned` has
2^32). The inductive invariant is

    IInv == TypeOK /\ WordCountsContenders /\ MutualExclusion

Exclusion alone is not inductive: from a state in which the word is zero while
somebody owns the lock, the next `FetchAndAdd` would enter. `WordCountsContenders`
(the word is the number of owners and of failed attempts not yet taken back)
excludes that state, and `TypeOK` bounds the count below `Modulus`, so that the
increment does not wrap to zero. `Implementation` maps the steps to those of
`CriticalSection`: the increment that reads zero is `Enter`, the failed ones and
their decrements are stutters.

### The tree (`BinTreeProofs`)

Assumption: `NodesAssumption` (NULL is not a node). `SoundBut(t, e, d)` says that
the tree is in order except that node `e` counts one too many and node `d`
hangs nowhere yet: children name their parent and have one, only the root and
the nodes outside have none, nodes outside have no children, a size is one more
than the sizes of the children. `Sound(t)` is the same without exceptions.

One lemma for each operator says that it takes such a tree to such a tree, and
which nodes hang in it afterwards: `RotateRightSound`, `RotateLeftSound`,
`BalanceAtSound`, `DescendSound`, `AttachSound`, `ReplaceSound`,
`ReplaceLeafSound`, `CountSound`. The left rotation is the mirror image of the
right one, so it is proved by mirroring the tree. Sizes are needed for the links:
that a child is smaller than its parent (`ChildIsSmaller`) is what shows that a
child, a parent and a grandchild are different nodes. The lemmas do not assume
that a rotation is called for by the balance, so they cover `BalanceLower` too.

The second half is about the order. `Spread(t, d, s, lo, pos, hi)` says that the
tree holds the nodes of the sequence `s` in order: each node stands at `pos`, its
subtree is the range from `lo` to `hi`, its left child the part before `pos` and its
right child the part behind. `Orders(t, d, s)` says that there are such ranges.
The ranges stand in for the recursion that the provers cannot do: every operator
changes `lo`, `pos` and `hi` at a few nodes only (`RotateRightOrders`,
`BalanceAtOrders`, `AttachOrders`, `ReplaceLeafOrders`, `ReplaceOrders`), and what a
loop up or down the tree finds is read off the range of the node it stands at. That
the loops end and that the recursive functions which model them exist is shown by
`LoopComputes`, from a rank that gets smaller every round, and that they compute what
the ranges say by `Descent`; both rest on the library's well-foundedness of the
natural numbers, used with sets instead of operators. So `NextIs`, `PrevIs`,
`IndexIs`, `QueryAtIs`, `IteratedIs` and `QueryIs` give, for any tree of any size,
what `next()`, `prev()`, `index()`, `query(i)`, the iterators and `query(key)` return
(`LookupsFind`). `query(key)` only needs the keys to be sorted along `s`, so equal
keys that rotations have put on both sides are covered.

### Container (`ContainerProofs`)

Assumptions: `NodesAssumption`, `KeysAssumption` and `RequestAssumption` (NULL is
not one of the calls). The first inductive invariant, `IInv`, adds to `TypeOK`

* `InOrder`: `SoundBut` with the node being inserted and the node at which the
  count of `insert` or `remove` stands as the exceptions;
* `HangsWhenExists`: every node but the one in hand hangs in the tree exactly
  when it is allocated, so a removed node is loose when it replaces another;
* `StandsBelowParent`: the loop of `insert` stands on the side of the noted parent
  where the key belongs, so the place `Attach` writes is empty;
* `StackHangs` and `Downwards`: the nodes whose removal has begun hang in the tree
  and are different, because the search for a replacement only goes to smaller
  nodes; without it a recursive removal could meet its caller's node;
* `Phases`: which variables are in use in which phase of a call;
* `Climbed`: while `insert` balances it stands at a node of the tree, and it is
  past the last one only when the root is balanced: a rotation gives the node it
  is called for a parent, so `BalanceAt` leaves on top only what it found balanced
  (`BalanceAtSound`).

`LinksAlwaysAgree` and `SizesAlwaysAgree` are the two invariants of the run
`container` that concern the structure, now for any number of nodes, keys and
calls. `AddAlwaysBalancesTheRoot` is its action property about the balance; that no
more than the root can be promised is finding 5. `NoneLeaks` adds that between calls the nodes in the tree are exactly
those that are allocated.

The second one, `ListInv`, says what the tree holds at every step of a call
compared with what it held before the call (`NodesBefore`):

* `IdleInOrder`: between calls it holds the nodes the iterators show, sorted by key;
* `BeforeInOrder`: the nodes of before the call were sorted and keep their keys;
* `Narrowing`: the loop of `insert` has narrowed the gaps the new node may go to down
  to those inside the range of the node it stands at, all of them behind the keys not
  greater and before the greater ones (`Belongs`); when it falls off the tree one
  gap is left (`OnePutIn`);
* `StillWhole` and `OneTakenOut`: `remove` has taken out nothing yet, or exactly the
  node at hand; a replacement that is taken out below and put where its caller was
  trades one gap for the next;
* `Neighbours` and `Walking`: the nodes whose removal has begun are neighbours in the
  order, all going down from the node the client asked for or all going up. This is
  what makes `Replace` keep the order: the replacement comes from next door, and
  needs the search (`left->last()`, `right->first()`) to stay at one end of the range;
* `Requested`: which call the phase belongs to.

Without `Neighbours` the invariant is not inductive: a replacement from elsewhere
leaves every pointer and size right and the list in disorder. From `ListInv` follow
`LookupsAlwaysAgree` and the refinement `ContainerIsASortedList`, that every step of
a container is a call or a return of `SortedList` or leaves its list alone. Each call
the client may make is one that `SortedList` allows (`AddPromised`, `RemoveAtPromised`,
`RemoveKeyPromised`, `ClearPromised`); `add` returns with the entry behind those with
equal keys (`AddedIs`: there is one such place), the removals with the entry gone that
was asked for. `IInv` was model-checked with the constants of the run before it was
proved, the parts of `ListInv` with four and five nodes.

### Daemon (`DaemonProofs`)

Assumptions: those of `Daemon` (finitely many threads, fewer frames than the word
has values). The inductive invariant is

    IInv == TypeOK /\ Lock!IInv /\ UnprintedIsHeld
            /\ DirIsOwn /\ LogsIntoItsOwnDir /\ PidFileBegins

where `Lock` instantiates `MutexProofs` with frames for contenders: the steps of
`msgLogger` are steps of `Mutex`, so what was proved about the word holds here, and
the lemmas about the lock are cited, not repeated. A fork keeps the word and every
frame: those of the threads that are gone stand where they stood and go on being
counted, as the copied word counts them. A restart is the initial state of the lock. `SameOrderInFileAndStream` is not inductive without
`UnprintedIsHeld`: that a message still to be printed belongs to a frame inside the
lock is what makes the next owner wait for the print. `LogsIntoItsOwnDir` needs
`DirIsOwn`, for the cached name is composed anew from the directory.

A text written over a longer one leaves its tail, so the announced pid file is right
only under a condition, and `PidFileServesTheLongest` says which: it always begins
with the pid of the daemon that runs, and is that pid if no pid has more digits.
`PidFileIsForTheLongest` proves it for any set of lengths and any number of deaths.
The first half is `PidFileBegins`; the second needs that the text never outgrows the
longest pid (`PidFileFits`), since each write keeps the longer of the two texts. What
happens to a shorter pid is finding 2.

### Event loop (`EPollProofs`)

Assumption: that of `EPoll` (numbers of bytes, sizes of reads and room in the
kernel are natural, the last two positive). The inductive invariant is

    IInv == Receiving /\ Sending /\ Control

`Receiving` and `Sending` are the two halves of `StreamsIntact` with their types
and what ties them to the totals. The sender's half holds in the middle of the loop of
`::write`: a prefix of the write buffer, `written` long, is the kernel's already, and
what is `Pending` goes on where the kernel's queue ends. So a reset or a full kernel
after any number of writes finds the counts right. It needs that the queue never
exceeds its room, or a partial write would take a negative number, and that
the queue stays empty once bytes went down with the connection.
`Control` follows a close from the kernel to the report: `DataIn` comes first in a
batch and only for what is there to be read, so a `read` that moves nothing has met
the end of the stream, unless somebody else has taken the bytes. The invariant shows
who can: only a `receive()` in the callback of another socket, in the same batch
(`drained`); a `receive()` between two calls of `waitAndControl` finds no batch left
(`LoopDiscipline`). `CloseOnSentWaitsForTheLastByte` is an action property from the
same invariant, the safety half of `CloseOnSentWaits`.

### Many connections (`ListeningProofs`)

Assumption: `ListeningAssumption` (finitely many connections, none of them the
listener, a buffer of at least one). What has been reported does not say what will
be, so the inductive invariant ties the reports to the events to come
(`ReportedAndPending`: a socket that was reported has at most its write to come),
those to the ready list (`BatchWasServed`, `ReadyIsServed`: each once, and only of
sockets in the epoll file, or closed since), and that to the queue of the listener
(`EdgeMeansQueued`). `ReportedIsHeld` and `FailedAtReport` say of the handled
reports that a socket named again was reset. From it follow `ReportedOnce`,
`RemovesWhatItHolds`, and that `accept4` never finds the queue empty. The read loop
holds the head of the batch, so in its steps nothing but the kernel's bytes moves.

### File (`OwnersProofs`)

Assumption: `FileAssumption`. The specification proved about is
`FileSpec == FileInit /\ [][FileNext]_fileVars`, the part of `Classes` that is a
File. `WrittenAsPromised` quantifies over every argument of every writing call in
every reachable state; each call gets a lemma about its set of outcomes, built on
what `write(2)` and `ftruncate(2)` do to the bytes. Its claim about a failed
`append()` rests on `SizeIsCounted`: `fileSize`, to which the file is cut, is its
size as long as this object alone has written, and only at the end. Every outcome in
which `close`, `lseek` or the undoing `resize` fails is among those it covers: bytes of
a failed `append()` may then remain, but only in front of an object that is closed
or cannot be used any more. `DescriptorsKept`
rests on `ZeroIsGivenAway`, which counts the moved-from Files it takes to free
descriptor 0 and to close it under somebody else.

### Arrays (`OwnersProofs`)

Assumption: `ArraysAssumption`. `ArraysSpec == ArraysInit /\ [][ArraysNext]_arrayVars`
is the part of `Classes` that has two arrays, proved for any `Objects`, `Values`,
thresholds, lengths and capacities. Two layers of lemmas come first: what the
operators of the four modules do to the slots as sequences without repetition, and
to the set of their objects (`Adding`, `Joining`, `Removing`, `Popping`, `Erasing`,
`MovingToFront`, `Indexing`, ...). Ownership is then a matter of sets. The
inductive invariant `ArraysIInv` says that the slots of the two arrays, and what the
program holds, are disjoint and exist (`Owners`), and in addition what `OneOwner`
does not: that the program holds only what exists (`HeldExist`), or an object could
be added twice, and that an array without a block is empty (`AllFit`), or `pop()`
could go wrong unnoticed. `AllFit` is also what the class comments write down
(`WhatIsCountedFits`). `Owned` gives up `Owners` only for a CArray resized to zero; an
Array that was shrunk keeps it but for the objects it forgot. `LeavesOwners`
is what a call of one array has to show, `Giving` shows it for all calls that take
something out. `PodArraysKeepOrder` holds of every array that fits its block, so
its theorem needs only the operator lemmas; that `index()` finds the first position
rests on `LeastNumber`, the least-number principle, from the library's theorem on
well-founded orders.

### Strings (`StringsProofs`)

Assumption: `StringsAssumption` (bounds are natural, the alphabet is characters).
`StringsSpec == StringsInit /\ [][StringsNext]_stringVars` is the part of `Classes`
that has a string, proved for any lengths, capacities, growth and text. The
inductive invariant `TextOK` adds to `StringEnded` what a string is made of, and that
there is a string to speak of only after `Create`.

One lemma for each method says what it gives (`ChopFrontIs`, `EraseIs`, `InsertIs`,
`WriteIs`, ...). Most methods are `Spliced(s, p, t, q)`: the characters up to `p`, the
text `t`, the characters from `q` on. `ShiftForwardIs` and `ShiftBackwardIs` say what
moving a range inside the block does to the characters, garbage in the gap included,
and `GapFilled` that the gap is the place the text is then written to. Trims are
compared through the set of the characters that are kept (`Kept`): `TrimIs` says that
cutting the back first, as `String` does, leaves what `Str` leaves, which cuts the
front first, although `trimBack()` of a string that has only characters to trim does
nothing.

`StringsAreSequences` follows from these lemmas in every state of the invariant.
`StringsEnd` needs `replace()` as well, of which `TextOK` asks only that whatever it
leaves has its end: each round writes inside the characters there are
(`WrittenKeeps`, `GrowingRoundStays`, `ShrinkingRoundStays`), and where it goes on is
found by a search, of which the lemmas need the bounds (`FindFirstIs`, `FindLastIs`,
`MatchEndsIs`). Searches and rounds are recursive functions; `RecursionComputes` shows
that a function which recurs towards the end of its domain exists and stays in its
range, from the well-foundedness of the natural numbers.

The proof found an exception the model had missed. In the loop for a longer text
`size_t pos -= 1` (`csjp_string.cpp:663`) wraps when a match starts at the front of
the string and another one is still to come; `findLast()` is then asked to search up
to a position outside and throws (`csjp_astr.cpp:185`). The model had searched in
front of the string instead and found nothing. The cases are among those for which
`ReplaceReplaces` promises nothing, so no run had told the two apart.

Every inductive invariant was checked by TLC with the constants of the run before
it was proved.

### What stays with TLC

* Liveness (`LoneContenderEnters`, `CallsReturn`, `EveryoneIsServed`, ...) and
  `ENABLED`, which the prover cannot do under fairness.
* The sorter (`ViewsAgree`, `ShowsItsOrder`): its calls are one step each, so their
  loops are recursive functions of two arguments and folds, which `tlapm` cannot
  expand; the lemmas of `BinTreeProofs` about each round apply to it as well.
  `Json` is written with recursive operators.
* `Receive`: `WebSocket` masks with a bitwise operator the provers do not know.
* What the searches find and what `replace()` and the conversions give
  (`SearchesFind`, `ReplaceReplaces`, `ConversionsReadBack`): these compare recursive
  functions over a text with what they should compute for every text, which is
  induction over data; split and base64 are folds. That the searches stay inside and
  `replace()` leaves a string in order is proved.

## 5. Not modelled, and what is left

* `ValueBinTree` is `BinTree` line by line with the value in the node;
  `ValueContainer` has no operation that adds to it and nothing instantiates it.
  `ReferenceContainer` is `Container` over nodes that do not own their objects.
* `Text` and `Unichar` are conversions of ICU and iconv.
* `Exception`, `Object`, `Stopper`, the macros and the portability code keep no
  state of their own.
* The constructors of `DupSocket`, `Client` and `Listener` are sequences of system
  calls; the loop of `DupSocket` looks at `errno` after a `dup()` that succeeded
  (`csjp_dup_socket.cpp:31`), which no run shows. Nothing prevents two daemons at a
  time: the lock on the pid file is commented out (`csjp_daemon.cpp:84`).
* The layout of log lines, exception texts, line numbers of parse errors, name
  resolution, option parsing, floating point.
* The functions of `File` that only ask (`exists`, `isDir`), and directories.

What could be added: proofs of the pointers of `Sorter`.
