# A TLA+ development of rp-lib-utils

`rp-lib-utils` is the C utility library of redpesk: helpers for JSON, HTTP,
paths, logs and sockets, and a "sandbox" directory that holds the concurrent and
stateful parts (locks, event loop, identifier maps, websockets). This directory
models the parts that keep state and the algorithms they rest on, model-checks
them with TLC on small instances and proves theorems about them with TLAPS. Paths
below are relative to `src/` of the repository.

Contents: 1. inventory, 2. plan, 3. modules and their correspondence with the
code, 4. runs, bounds and fairness, 5. proofs, 6. what the code does that its
comments do not say, 7. what is not modelled.

## 1. Inventory

### Components that keep state

| component | state | operations | hard behaviour | what makes it correct |
|---|---|---|---|---|
| `sandbox/lockany.c`: read/write locks on any address | a list of lockers (item, two flags, two 15-bit counters, a condition) under one mutex | lock/try_lock for reading and writing, unlock | several threads; the wait releases the mutex in the middle of a call; lockers are recycled; malloc fails with the mutex held | exclusion, no lost wakeup, no locker recycled under a sleeper, every waiter served |
| `sandbox/ev-mgr.c`: event loop | lists of descriptors, timers and preparers with reference counts and deferred deletion flags; epoll and timerfd; the state of the loop | add, addref, unref of each kind of object; set_events; prepare, wait, dispatch; wakeup; recover; addref/unref of the manager | handlers that use the manager they are called from; other threads while it waits; hang-ups; timers due together | nothing freed is touched, the kernel watches what was asked for, timers are armed, what is dropped is freed |
| `sandbox/u16id.c`: maps from 16-bit ids to pointers and booleans | one reallocated block: capacity and count in cell 0, ids upwards, pointers or bits after them | create, destroy, add, set, put, get, drop, dropall / get, set, clearall | arrays that move over each other inside a block; allocation failures; the 65536th id | it is a map, it is a set, whatever was moved |
| `sandbox/websock.c`: websocket framing over a descriptor | state, bytes of header, remaining length, mask | send functions; dispatch, read, drop | any split of the stream into reads; reads that fail; the payload read by the client between two dispatches | the reader stays aligned with the peer; each frame reported once, whole, in order |
| `sandbox/ws.c`: the same over given buffers | as above, and four counted buffers | send functions; dispatch, release | buffers kept by the client across frames; a fifth buffer | each buffer freed once, after its last user |
| `misc/rp-path-search.c`: lists of directories | chains of nodes with reference counts, tails shared | make, add before/after, extend, addref, unref, list, find, search | sharing; malloc failing half way; order of before/after | a list never changes under its holder; counts exact |
| `sandbox/locale-root.c`: localised lookup | roots and searches with two counts, a cache of the last searches, a default search | create, addref, unref, search, set_default, open, resolve | cycles root/search broken by the second count | a root lives as long as its searches; freed in the end; places tried in order |
| `sandbox/globset.c`, `globmatch.c` | hash table of exact names, list of patterns, a gauge | add, del, match, destroy | growth while chained, growth that lacks memory | it is a map; the best match is returned |
| `sys/rp-verbose.c` | log mask, stack of contexts, colours | set/add/sub/inc/dec, push/pop, log | depth beyond the stack | errors are never masked; messages fit and show the outermost contexts |
| `misc/rp-file.c` | a descriptor and a buffer during a call | put, get of a whole file | short and interrupted calls, another process doing the other half | a file put is whole or an error is returned |
| `sandbox/curl-client.c` | requests handed to libcurl | perform, with and without a pool, callbacks of libcurl | ends in any order, errors after parts of the body | the callback is called once, with the whole body |
| `sys/rp-socket.c` | a descriptor during a call | open of a URI | cleanup after each failing system call | the socket is what was asked for; no descriptor leaked |
| `json/rp-jsonc.c` over json-c | counted objects shared by clients | clone, merge, insert, subobject, add | the same value met twice, or inserted in itself | counts exact; clones apart; operands unchanged |
| `json/rp-jsonc-expand.c` | an expansion in progress | expansion of strings and of `$ref` files | files that refer to each other, errors half way | the result is the one of the reference definition, each file under its own base |
| `json/json.hpp` (vendored, used by no other file) | lexer, parser stack, readers and writers | JSON texts; CBOR, MessagePack, UBJSON, BSON | inputs cut anywhere, widths of numbers, filtering callbacks | what is written is read back; what is accepted is stable |

### Algorithms without state

`misc/rp-expand-vars.c`, `http/rp-escape.c`, `json/rp-jsonstr.c` and the paths of
`rp-jsonc-path.c` compute a size in a first pass and fill it in a second one: the
two must agree. `misc/rp-base64.c`, `misc/rp-str2int.c`, `misc/rp-uuid.c` decode
text with limits. `rp_jsonc_pack` and `rp_jsonc_unpack` interpret a description.
`rp-jconf.c`, `rp-enum-map.c`, `yaml/rp-yaml.c` read values.
`rp-pearson.c`, `rp-whichprog.c`, `subpath.c`, `process-name.c` are helpers.

### Interactions

The components are independent libraries: they meet in the program that uses
them. Two calls matter: `rp_path_search_add_dirs` expands variables first
(`rp-expand-vars.c`), and the curl glue registers descriptors and timers in an
event loop (`ev-mgr.c` among others). Inside the event loop, descriptors, timers
and preparers share the manager, its cleanup flags and its phases: these are
composed in `EvMgr`. All callbacks run inside a call of the component
that makes them and may call it back; only `lockany` and `ev_mgr_wakeup` are
meant for several threads.

## 2. Plan

Done, in this order: `LockAny` against `RWLock`; the event manager; the maps of
ids against `IdMap` and `IdSet`; the websocket over a connection; the lists of
paths against `DirLists`; the websocket over buffers; the locales; the algorithms
on texts; `GlobSet` against `HandlerMap`, the log, the files; JSON values,
heaps, descriptions and expansion; sockets; YAML; the requests of curl;
`json.hpp`. Proved: `LockAny`, the event manager, the maps of ids, the websocket
over a connection, the buffers of the other, the lists of paths, the locales, the
log, files, sockets and requests of curl (section 5).

Left, most useful first:

1. Theorems: the refinement of `HandlerMap`.
2. The recursive search of files in `rp-path-search.c` (depth, filters, names).
3. The `for_all` and `optarray` families of `rp-jsonc.c`.
4. JSON pointers and patches of `json.hpp`, and the digits of Grisu2.
5. `sandbox/spawn-utils.c`: preparation of a child process.

## 3. Modules

| module | models | notes |
|---|---|---|
| `RWLock` | abstract read/write locks, one per item | a grant is possible when nobody conflicts |
| `LockAny` | `lockany.c` | one action per stretch under the mutex |
| `LockAnyClients` | threads that lock, then unlock what they hold | bounded calls, fairness |
| `EvObjects` | descriptor objects of `ev-mgr.c` with the view epoll has of them; timers, their list, the timerfd | values and operators, no behaviour of its own |
| `EvMgr` | preparers, the loop, the manager, the client; composes the above | one action per public function and per return of a handler |
| `U16Id` | the memory block of `u16id.c`, cell by cell, and its two maps | refines `IdMap` and `IdSet` |
| `Lists` | the removal of elements from a list (`timers_cleanup`) | with its laws, and two inductions that other proofs use |
| `WebsockFrame` | frames: bytes of the header, send functions, decoding, unmasking | pure operators |
| `Websock` | `websock_dispatch`, `websock_read`, `websock_drop`, the default pong | one step per read of the connection and per callback |
| `Ws` | `ws.c`: parser over given buffers, counts of buffers, sending half | a call of `ws_dispatch` or `ws_release` is a step |
| `PathSearch` | the lists of `rp-path-search.c` | refines `DirLists`; one action per public function, with any number of successful mallocs |
| `LocaleRoot` | `locale-root.c` | one action per public function |
| `GlobMatch`, `GlobSet` | `globmatch.c`, `globset.c` | refines `HandlerMap` |
| `Verbose`, `FileIO`, `HttpPool`, `Socket` | `rp-verbose.c`, `rp-file.c`, `curl-client.c`, `rp-socket.c` | a system call that may fail is a step |
| `Encodings`, `Jsonstr`, `ExpandVars`, `Utilities` | `rp-escape.c`, `rp-base64.c` and `rp-str2int.c`; `rp-jsonstr.c`; `rp-expand-vars.c`; the small helpers | functions on texts, each with its reference definition |
| `Json`, `JsonPack`, `JsonTree` | values and json-c objects in memory; descriptions and integers; comparisons, paths, `rp-jconf.c`, `rp-enum-map.c` | trees, and a heap with reference counts |
| `JsonHeap`, `JsonExpand`, `Yaml` | a client of json-c objects; `rp-jsonc-expand.c`; `rp-yaml.c` | on the heap of `Json` |
| `HppValue`, `HppParser`, `HppCodec` | `json.hpp`: numbers and writers; lexer, parser, consumers and binary readers; the behaviour that builds values and inputs | |
| `LockAnyProofs`, `MachinesProofs`, `EvMgrProofs`, `WebsockProofs`, `ContainersProofs`, `PathProofs`, `LocaleProofs` | theorems | section 5 |
| `MC*` | the instances for TLC | `MCContainers`, `MCTexts` and `MCMachines` run several components, one in each behaviour; the instances of `LockAny` and `Websock` are at their end |

### LockAny

`lockers` is the C list (in the order of creation: a position never changes, which
is why a request can name its locker by its position). `pc[t]` says whether a
thread is out of the call, asleep on a condition, or woken and waiting for the
mutex; `req[t]` is its request; `held` is what the clients believe. Every stretch
of code between taking the mutex and releasing it (or sleeping) is one action:
`lockany_lock_read`, `lockany_try_lock_read`, `lockany_lock_write`,
`lockany_try_lock_write`, `lockany_unlock`, `Resume` (after the wait) and
`SpuriousWakeup`. `locker_get` (search, recycling, allocation), `locker_release`
and `locker_signal` are operators used by them. The failing `malloc` is
`OutOfMemory`: the mutex stays locked, so `leaked` stops every later call. The
counters wrap at `CntMod` (2^15 in C). The client protocol is the one the
interface needs: `lockany_unlock` is not told who calls, so a thread unlocks what
it holds and does not lock twice. `lockany_try_lock_write` succeeds beside other holders
(section 6), so it is a lock only for clients that are alone on the item when they call it:
`TryAlone` says that they are.

### EvObjects, EvMgr

`F`, `T` and `P` hold the objects: for each its `refcount` (16 bits in C, `RefMod`
here), whether it is in the list, deleted, set in epoll, what is asked and what
the kernel watches. `state` is where the loop is: idle, ready, waiting, holding an
event, or in the middle of calling handlers. Handlers and the threads that may
call during the wait are the actions of the client: in each *situation* (out of
the loop, in a preparer, waiting, event pending, in a descriptor handler, in a
timer handler, ...) the constant `Allowed` gives the operations that it may do,
as often as it wants and in any order. A freed object stays marked `freed`;
using it sets `fault`, so `NoFault` is "no use after free and no call through a
null manager". The epoll interest list is modelled as the kernel keeps it: a
registration that survives `ev_fd_unref` can still return its event. Time is a
counter up to `MaxNow`; the timerfd blows when the clock reaches its time.
`timer_dispatch` is modelled link by link (`HEAD`, `prvtim`), since handlers change
the list under it.

### U16Id

Memory is a sequence of cells; an id takes one, a pointer `PtrCells`. Capacity,
count, the position of the pointers and their moves are computed as in the code
(`get_capacity`, `size`, `flatofup`). `IdMod` is the 2^16 of the C type, `N` the
granularity of growth. `IdMap` is a function from the present ids to pointers,
`IdSet` a set of ids with a previous value returned by `set`.

### WebsockFrame, Websock, Ws

A frame on the wire is its header, byte by byte (first byte: fin, rsv, opcode;
second: mask bit, length field; extended length in base 256; key), and a payload
that is counted, whose byte number k is `<<"pay", k>>`: the model can tell when a
payload byte is taken for a header byte or for a code. The eight bytes of a
64-bit length are all written and all read. `sent` is what the peer
wrote, `cur` and `off` how far it was read, so a read of any size up to what was
asked (`Leaves` says how much a short read leaves) may happen at each call of
`readv`, or fail; a write takes everything or fails. `header`, `szhead`, `length`, `mask`, `state` are the fields of
`struct websock` (`lenhead` is `Len(header)`). `cut` records that a ping or a pong
whose payload was not entirely read was left by `state = INIT`: from there on the
next bytes are payload taken for a header, and the model stops following the
stream. What the client must be told is stated on the frames, not on bytes:
`Accepted` says which are reported and `Notice` as what, the code of a close being
no part of its `Payload`. The three interfaces of the run cover default and client ping/pong, no
extension, extension that declines and extension that accepts.

In `Ws` bytes are numbers, since the program is given them in buffers. `d` is the
structure during a call of `ws_dispatch`, which takes one buffer and loops over it;
`ws.bufs` and `ws.uses` are the buffers and their counts, `held` the pieces that
the client has not released, `freed` the buffers freed, `lost` the references that
the code drops (section 6). `_dispatch_` is a function of the number of turns of its
loop: each turn reads a byte at least or is the last, so there are at most as many as
bytes, and `BigEndian` reads a length byte by byte in the same way. `Xor` is the `^` of
two bytes.

### PathSearch, DirLists

`paths[s]` is the pointer a client holds, `node` and `live` the heap. `Chain` is a
list followed through `parent`; `unref` frees the leading nodes nobody else
designates and decrements the next one; `add` and `make` work on a heap, a head
and a number of mallocs that will still succeed, so a failure can happen at each
node. The text of directories, once its variables are expanded, is the sequence
of its items, `Empty` standing for two separators in a row. `Listed` is the order
in which `rp_path_search_list` calls back. `rp_path_search_add_env` is
`rp_path_search_add_dirs` or, when the variable is not set, `addref`.

### LocaleRoot, GlobSet

`roots` and `searches` are the living structures with their counts as in the
code: references of clients, and for a root the internal ones of its searches.
`rootRefs` and `searchRefs` are the client's own account. `locale_root_open` and
`locale_root_resolve` are the order in which places are tried: `IterFrom` runs the
iterator to its end and keeps the place of each stop, a place without a file being one
that does not answer. The list of locales that
`make_search_list` makes of a text is in `Utilities`.

`globs` is the list of patterns with jokers, `exacts` the chains of the table of
`gmask + 1` places, `count` the number of its handlers. `Grown` moves the
handlers chain by chain as the code does. The hash is a constant.

### Verbose, FileIO, HttpPool, Socket

`Verbose`: a mask is the set of its bits; `contexts` has the `CONTEXT_DEPTH`
places of the array, `contextsDepth` counts beyond them; a message is its level,
the contexts it shows, its colour and the slots of `iov` it takes. `FileIO`: names lead to inodes, as in the
kernel; `putter` and `getter` are the two calls, step by step, each system call
being short, interrupted or failing. `HttpPool`: `rqts` are the requests with the
body they accumulate, `messages` the ends of transfers that libcurl queued, of
which `multiCheckInfoCB` takes the first one only, as the code does. `Socket`: `call` is what
was asked, `pc` the system call to come, `fd` what was done to the descriptor,
`leaks` the descriptors lost.

### JSON

A value is a tree of uniform records (`Json`). Functions that only read are
operators on trees (`JsonPack`, `JsonTree`); those that share or change objects
work on a heap of nodes with counts (second part of `Json`), which `JsonHeap` drives in
any order and `JsonExpand` and `Yaml` use. Functions that call back or have a variable
number of arguments are modelled by the sequence of their callbacks or arguments.
In `JsonExpand` the expansion of a string and the files are constants. `Yaml`
starts from the events of libyaml.

In the four `Hpp` modules numbers of 64 bits are their eight bytes, so nothing is
lost at the widths; readers produce the events of a SAX consumer with the number of
characters read, and the DOM consumers build values of them. The digits that
`strtod` and Grisu2 find are constants. `HppCodec` builds values member by member,
and inputs piece by piece, and reads and writes each of them.

## 4. Runs

| run | instance | shows |
|---|---|---|
| `lockany` | 3 threads, 2 items, all entry points, `CntMod` 4 | `Exclusion`, `WaiterKeepsLocker`, `NoLostWakeup`, `CountsExact`, `ImplementsRWLock` |
| `lockany_live` | 3 threads with 2 calls, 1 item | `WaiterIsServed` |
| `ev_objects` | 1 descriptor with 2 events, 1 preparer, 2 references, 1 wakeup | `FdAndPrepareRefs` (and the types), `NoFault`, `EpollAgrees`, `DeletedIsFreed` |
| `ev_timer` | 2 timers of three kinds, clock to 5 | `TimersAreArmed`, `TimersAreListed`, `CountdownEnds` |
| `websock` | 2 frames out of 16, 3 interfaces | `Aligned`, `FramesAreReported`, `FramesAreServed` |
| `containers` | maps of ids, lists of paths, json-c objects, locales | `MapsAreImplemented`, `CountsAreExact`, `ImplementsDirLists`, `RefsAreOwned`, `OperationsAreExact`, `LocaleLifetimes`, `TriedInOrder` |
| `texts` | all short texts of each alphabet, all small values, shapes, files | `EncodingsInvert`, `ScalarsAreRead`, `VarsAreExpanded`, `NamesAreFound`, `JsonIsDescribed`, `PackLosesNothing`, `DocumentsAreExpanded` |
| `machines` | globset, log, files, buffers of a websocket, requests, sockets, values and inputs of `json.hpp` | `IsHandlerMap`, `LoggedAsAsked`, `FilesAreWhole`, `BuffersAreKept`, `FramesAreExchanged`, `CalledOnceWhole`, `SocketAsAsked`, `ValuesSurvive`, `InputsAreStable` |
| `ev_timer_refcount`, `expand_vars`, `numbers`, `curl_forgotten` | section 6 | a comment or a contract of the code that the code does not meet |

Several properties are conjunctions of named parts:

* `EpollAgrees`: `DeletedNotWatched`, `IsSetInEpoll`, `WatchesWhatIsAsked`.
* `Aligned`: the types, `AtFrames`, `MaskStaysInStep`; `FramesAreReported`:
  `ReportedInOrder`, `PongsAnswerPings`.
* `MapsAreImplemented`: the two refinements and the shape of the block (`BlockOK`,
  `FieldsOK`); `CountsAreExact`: `PointersAreLive`, `CountsOfNodes`;
  `OperationsAreExact`: `CloneIsApart`, `MergeIsExact`, `InsertIsExact`,
  `SubobjectIsThere`; `LocaleLifetimes`: `HeldIsAlive`, `LocaleCounts`,
  `NothingLeft`, `LruDistinct`.
* `IsHandlerMap`: the refinement, `TableIsLarge`, `MatchIsBest`; `LoggedAsAsked`:
  `MessagesFit`, `LevelsGoByOne`; `FilesAreWhole`: `PutIsWhole`, `GetIsReal`;
  `BuffersAreKept`: `HeldIsThere`, `AllIsFreed`; `FramesAreExchanged`:
  `FramesReported`, `SentFramesAreRead`; `SocketAsAsked`: `SocketIsReady`,
  `KindIsAsked`.
* `ValuesSurvive`: `WrittenIsRead`, `BsonSizesAreTrue`, `TextIsRead`,
  `CommentsAreBlanks`, `RefusedIsSkipped`; `InputsAreStable`: `AcceptedIsStable`,
  `ParsedIsStable`, `DecodersAgree`, `RepairedIsRead`, `BufferIsEnough`.
* the others of `texts` gather, for each family of algorithms, the comparison with its
  reference definition, the agreement of the two passes and the round trips. A first
  pass may count more than the second one writes when the text is malformed, never
  less.

`PackLosesNothing` is about every description of up to five letters of its `Alphabet`, right or wrong,
each creation of an object failing in turn: what the function created or was given
is counted, and so is what its last loop releases, entry by entry of its stack.

**Bounds.** `lockany`: with three threads a locker can have at once a holder and
both a reader and a writer waiting, which is what the broadcast and the flags are
about; two items make lockers be recycled for another item while somebody
still sleeps. `CntMod` 4 is the smallest that three threads do not wrap. `ev_objects`:
a second descriptor adds nothing that the first and the preparer do not do to
each other, since objects only meet in the cleanup flags and in the pending
event; two references allow one to be dropped while the other is held.
`ev_timer`: two timers of different kinds are enough to be due together, to be
armed one before the other and to be deleted one while the other is called;
`MaxNow` lets each of them blow at least twice. `websock`: what is kept from
one frame to the next is `state`, `mask` and `length`, so two frames in a row show
all the combinations; the sizes 125, 126, 65536 and above the maximum are there.

`containers`: five ids of 3 bits (`IdMod` 8) with growth by 2, so that the block
grows twice and shrinks back, which passes through all the moves; four nodes hold
two directories in front of a shared tail of two, for two clients (`Slots`) and
three names; heaps of six objects before an operation (`MaxNodes`), arrays of four
items, three operations in a row, so that a merge or an insertion works on what a
clone shares; a cache of two (`LRU_COUNT`, three in C) and three searches, so that
it overflows, two references to each. `texts`: each alphabet has an ordinary
character and all the special ones of its algorithms (`Alphabet`), and texts have
up to `MaxLen` of them, which is 4 to 7 for those that are searched or decoded
character by character; JSON values have two levels of containers of at most two
members; the widths of integers are 8 and 4 bits (`UINT64_MAX` 255, `UINT32_MAX` 15), the
limits of the expansion 10 characters and 3 turns, the depth of descriptions 3,
that of files 3: each limit is passed by some text. `machines`: the depth of the
contexts is 2 and 4 are pushed; the first table has two places and grows to eight,
and a table of sixteen would be above `UINT_MAX` (15 here), so that five exact patterns
meet the refusal of `grow` (`EOVERFLOW`) as well as a growth that lacks memory;
contents of 2, 3 and 4 bytes; two buffers of a websocket (four in C) with a third
one that comes when they are kept; two requests with up to three blocks; two
addresses of a host; a buffer of 20 bytes for `serializer` (512 in C), so that
texts flush it; inputs of three chunks chosen so that each one is a whole head, a
length that lies, or a cut; values at the limits of every width of the binary
formats and strings and binaries at theirs. `MaxWritten` bounds the values whose
texts and cuts are all tried, `MaxEmpty` the loops that a length asks for without
reading anything; a length above `HUGE` is `HUGE`, more than any input has.

**Deadlock.** It is checked in `lockany_live`. The other runs may stop: `lockany`, because a failed malloc leaves the mutex locked; the
`ev_*` runs, because the manager may be freed and the clock and the objects are
bounded; `websock`, because a call that has to write blocks once `MaxReplies`
frames are written or as many errors reported beyond those of the frames (the repeated
errors of a refused frame would make both unbounded); `containers`, `texts`, `machines` and their violations, because the
operations, the lengths of texts and the inputs are bounded and a machine ends.

**Fairness.** `WaiterIsServed`: a holder unlocks (weak fairness of
`ClientUnlock`: a client that keeps a lock for ever is a fault of the client) and a
woken thread gets the mutex (weak fairness of `ClientResume`: the mutex is free
between actions). Nothing is assumed of the spurious wakeups. `DeletedIsFreed`:
the loop is run again and its handlers return; nothing is assumed of the clients,
who may go on using the manager for ever. `FramesAreServed`: the client goes on
dispatching and, strong fairness, reading the payload it was told of (it may
alternate with dispatches); a read of the header does not fail for ever while
bytes are there (strong fairness of `HeaderArrives`), as a non-blocking
descriptor polled for input does.

Each property of a passing run has a variant of a mapped definition, kept in the
module and commented "Variant", under which the run refutes it: they are the
plausible bugs the property guards against.

## 5. Proofs

### LockAnyProofs

For every finite set of threads, every set of items and every `CntMod` above the
number of threads (`CntAssumption`; the code has 2^15), with or without failing
mallocs, and provided `lockany_try_lock_write` is only called by a thread that is alone on
the item (`TriesAlone`, see section 6):
`ExclusionHolds`, `LockersAreKept`, `NoWakeupIsLost`,
`CountersAreExact` and `Refinement` (every step of `LockAny` is a step of `RWLock`
or a stutter).

None of these is inductive alone: that a waiter's flags agree with its locker
depends on who else holds the item, and that in turn on no locker having been
recycled. `IInv` is the conjunction of the type invariant, `ReqInv` (a thread has a
request exactly when it is in a call, on an item it does not hold, in a blocking
mode), `Backed` (a granted lock has a locker, unless the mutex leaked),
`WaiterKeepsLocker`, `NoLostWakeup`, `Exclusion`, and `LockerInv` for each locker:
its two counters are the cardinalities of the sets of threads that hold or want
the item, and its flags say which locks are granted. The counters need
cardinalities of sets that gain or lose one thread, hence
lemmas over `FiniteSetTheorems`; the search of the list needs that `First`
returns a member. `Invariance` shows the two conditions, with one step per action
of `Next`, and the theorems follow from it by `PTL`.

### EvMgrProofs

For every set of descriptors, timers, preparers and events, every modulus of the
counts and every client (`Allowed` is any function from situations to sets of operations):

* `EpollCorrect`: `EpollAgrees`, provided no `epoll_ctl` fails (`CtlMayFail =
  FALSE`: a failing one is never tried again, `ev-mgr.c:443`, and the property is
  then false). `EpollInv` says that what epoll watches of each object agrees with
  the flags of that object (`FdsGood`), that an active object not yet set is
  announced by the mark `changed` (`Told`), that as long as there is a manager the
  live objects are its own (`Owned`), and that the object whose event is in hand was
  added, and is set unless it was disabled meanwhile (`Dispatched`).
* `ReferencesCorrect` and `CountdownCorrect`, without any hypothesis: `RefsInv`
  says that the descriptors held by the client live and, unless a freed one was
  used, are all counted (`FdsHeld`), that the preparers held are counted, and wait
  for a cleanup once nobody holds them (`PrepsHeld`), and that a timer has a period
  of one at least and a next time before the end of time, the one whose handler
  runs having been due (`TimersHeld`).
* `NoFaultCorrect` and `TimersListedCorrect`, for the clients that TLC checks as
  well: `Calm` says that the manager is not dropped inside a handler, a wait or
  with a pending event, and that no timer is added in the handler of a timer.
  Without the first, the loop uses a freed manager; without the second, the added
  timer may be unlinked (section 6). `CalmInv` is `RefsInv` with the state of the
  loop (`LoopCalm`), the integrity of the list of timers (`TimersCalm`: each listed
  timer is alive, `prvtim` designates the link to the one that is called) and the
  object in hand (`InHand`).

Each step of `Next` is taken once per invariant, an action of an object being
reduced by a lemma to what it does to that object (`Told` and the others depend
on the cleanup flags only). `CalmInv` was checked by TLC on the instances of
`ev_objects` and `ev_timer` before it was proved.

### MachinesProofs

* `VerboseCorrect`: `LoggedAsAsked` for every set of contexts and every depth of the
  stack, as long as fewer than 65536 are pushed (`PushedAssumption`; the counter
  wraps there). `VerboseInv` says that `contextsDepth` is the number of contexts
  pushed and not popped, and that the array holds the first ones.
* `FileCorrect`: `FilesAreWhole` for all contents, sizes of reads and writes, and
  interleavings. `PutInv` says what the file holds at each step of a put that
  nobody else disturbs, `GetInv` that each byte read was put at its place.
* `SocketCorrect`: `SocketAsAsked` for every set of URIs, schemes and addresses.
  `SocketInv` says at each step what has been done to the descriptor: an address
  that is given up closes it, and what is ready is what was asked.
* `PoolCorrect`: `CalledOnceWhole` for every finite set of requests.
  `PoolInv` relates each request to the messages that libcurl has queued for it:
  at most one, only once its transfer ended, and none for those already answered.
* `BuffersCorrect`: `BuffersAreKept` for any number of slots, any bytes in any number of
  buffers, any `maxlength`, and a client that keeps or releases each piece as it likes.
  `WsInv` says that the count of a slot in use is the number of pieces held of its
  buffer and of references lost, that a buffer is in one slot, and that a buffer in none
  has no user and is freed (`Counted`); that each piece held is in such a slot
  (`Located`); and where the reader is in a header (`Parsing`). During a call the reader
  has a reference more (`Buffers(d, g, i, 1)`), and two while it calls the client.
  `DataKeeps`, `LengthKeeps` and `StartKeeps` are the states of `_dispatch_`; `TurnKeeps`
  also shows that a turn leaves less to read, so `DispatchKeeps` has the loop end, by
  induction on the bytes left: `turns` exists for every buffer.

### WebsockProofs

For every set of frames whose opcode has 4 bits, whose `rsv` has 3 and whose length
has 64 (`FramesAssumption`), sent in any number and order; for every interface
(`ItfsAssumption`), every maximum length, every choice of what short reads leave and
every client that mixes dispatches and reads:

* `AlignedHolds`: `Aligned`, the reader is at the start of a frame whenever it
  thinks so, expects what the peer has left of a payload, and unmasks in step.
* `ReportedCorrect`: `FramesAreReported`, accepted frames are reported once, in
  order, with their length, `fin` and code, and each pong answers one ping.
* `ReaderCorrect`: the invariant of both, `ReaderInv`.

`Aligned` speaks of the places between frames and of the payload, which says
nothing of what happens when a header arrives in pieces; `ReaderInv` relates the
fields to the stream at every step. `TypesInv` holds the position in the stream.
`FrameInv` says, when a header is begun, that its bytes are the first ones of the
frame being read (`Current`) and that the bytes the state announces are those that
remain of it: two of them in `START` (`StartOfFrame`), the full header in `LENGTH`
(`LengthOfFrame`), the rest of the payload in `DATA`, with the key already turned by
what was read (`DataOfFrame`). `ReportInv` says that what was reported is what must
be said of the frames up to the current one, and `PongInv` names, for each pong,
the ping that it answers, in order.

The steps rest on lemmas about the format, which hold of all lengths up to 2^64:
what the sending functions write in one, two or eight bytes is what the dispatcher
reads (`LengthIsCoded`, `TwoBytesComeBack`, `EightBytesComeBack`, `SizeIsRead`,
`PayloadIsRead`, `MaskIsRead`, `CodeIsRead`); the key after `n` bytes unmasks the next
one with byte `n` modulo 4, for buffers at any address (`UnmaskInStep`). Each action has a lemma `...Holds`. `ReaderInv` was checked
by TLC on the instance of `websock`, with two maximum lengths, before it was proved.

`Lists` has the laws of `Without`: it keeps the other elements in their order
(`WithoutKeeps`), and follows an addition at the end (`WithoutAppend`) and a prefix
(`WithoutBegins`). `Without` is a recursive function, so they are proved by
induction: the theorems of the library take an operator and cannot be used, but
induction on a *set* of numbers (`UpTo`) follows from the well-foundedness of `<`,
and so does the existence of a function defined from its predecessor
(`Recursion`).

### ContainersProofs

`MapsCorrect`: `MapsAreImplemented`, which is `PtrMapCorrect` (the maps to pointers
refine `IdMap` and their block is well formed) and `BoolMapCorrect` (the maps to
booleans refine `IdSet`). It holds for every grain of growth (2, 4, 8 or 16), every
size of a pointer that divides it, every number of ids that the grain divides
(`GrainAssumption`) and every width of a field of booleans that divides that number
(`BitsAssumption`), whether `realloc` fails or not. The only hypothesis on the client
is `SomeIdIsFree`: one of the ids is never used. With all of them in a map the upper
index wraps to 0 (`u16id.c:163`, section 6).

The invariant is `Block(K, V, m)`, for the ids `K` and the pointers `V`: cell 0 has an
upper index, the length is that of the layout of this index, the cells of ids hold
different members of `K`, and at the address of each pointer there is a whole member of
`V`. `BlockOK` speaks of what is read through `id_at` and `ptr_at`; `Block` adds what
the cells are and the range of the index, without which nothing can be said of a
block whose pointers are being moved. The proof has three parts:

* the layouts (`CapacityIs`, `AddressesAre`): the capacity is the same up to the next
  multiple of the grain, the pointers of a layout do not overlap and stand after
  its ids;
* the moves inside the block (`PtrsAreMoved`): an order is safe when a pointer never
  lands on one that is still to be moved (`Ordered`), which is the case downwards
  when the block grows and upwards when it shrinks (`MovesAreOrdered`);
* the count: the ids present and the one to add are different members of `K`, which
  is not everything, so they are at most `IdMod - 1` (`RoomIsLeft`) and the index
  that `add` computes does not wrap.

Each function has a lemma that says what it leaves in the block (`AddIs`, `SetIs`,
`DropIs`, `DropAllIs`, `CreateIs`, `SearchIs`), and one that says so of the set of
pairs that the block holds (`AddContent`, `SetContent`, `DropContent`), from which
the steps of the abstract map follow (`MapStep`). For booleans an id is split in a
field and a bit (`BitsAre`); storing a field adds, sets or drops one according to what
it was and becomes (`StoreIs`), which changes the set by one id (`SetOfStep`).

### PathProofs

* `CountsCorrect`: `CountsAreExact`;
* `ListsCorrect`: `PathSpec => ImplementsDirLists`.

Both hold for every finite set of clients and of addresses and every text of
directories, whatever number of mallocs succeeds in each call. The only hypothesis is
`CountsFit`: the clients, the nodes and the reference taken in the course of a call are
fewer than `RefMod`. `rp_path_search_addref` does not look at the count, an unsigned
short: with 65537 references to a node the count is back to 1, one release frees the
node, and both properties fail.

The invariant is `PathInv`: clients point to live nodes and the memory is `Counted` for
the pointers that they hold. `Counted(heap, E)` says more than the counts: the parents
have ranks that decrease (`Acyclic`), so lists end; a free address is not pointed to; and
`E[n]` is the number of pointers to `n` from outside of the heap. `E` is a parameter
because it changes in the course of a call: `add_dir_expanded` holds one reference more
than the clients, on the head of the list being made (`Plus(E, head)`), and a call that
fails must come back to `E`. Without ranks nothing can be said of `unref`, which follows
the parents: `AlongExists` and `AlongInduction` give, for decreasing ranks, the existence of what is
computed along the parents (`ChainIs`, `ListedInIs`) and the induction on it.

* `AddrefIs`, `UnrefIs`, `NodeIsAdded`: what each primitive makes of a counted memory. For
  `unref`, the freed nodes of the chain have one reference (`FreedByIs`), so the only
  pointer to each is the one of the chain (`HeldIs`) and no list that is still held goes
  through it.
* `AddDirIs`, `MakeIs`, `ExpandedIs`: by induction on the items, `make` adds a part of
  the text to the list; after a failure the release of the head frees what was made.
* `AddrefCall`, `UnrefCall`, `AddCall`, `ExtendCall`: a call changes the list of one
  client. That it is all it changes is `SameLists`: two memories which
  agree on the live nodes, counts apart, list the same (`CommonLists`).
* `MadeIsAdded`: what was added is made of items of the text without its empty ones, in
  their order (`PartIsTaken`, from `WithoutKeeps`), which is what `DirLists` asks;
  `StepIsDirLists` is the step of the refinement.

### LocaleProofs

* `LocalesCorrect`: `LocaleLifetimes`, that is `HeldIsAlive`, `LocaleCounts`,
  `NothingLeft` and `LruDistinct`;
* `IteratorsCorrect`: `TriedInOrder`.

Both hold for every set of roots, of searches and of lists of locales, and every size of
the cache from 1 (`LocaleAssumption`).

The invariant is `LocaleInv`. Its first part is `Counted`: no structure was freed and then
used; the count of a search is what it is needed for, which is never nothing; the root of
a search is alive; the internal count of a root is the number of searches of that root, and
one more while the client holds the root. What searches are needed for (`References`) is
read in the memory: the client's references, one if a root that the client holds has the
search in its list, one if a root has it as default. The second part, `Linked`, makes this
exact: lists and defaults lead to living searches *of the same root*. Without it a search
in two lists would be counted once, or the release of a list could free a root other than
its own. It also says that the list of a root is filled from the front, with each list of
locales once.

A call is not one change of the memory but several, and in between the counts do not
agree with the memory: a search that leaves the list still has the reference of the list.
`Counted(m, need, ext)` therefore takes the needs and the held roots as parameters, and
`Owing` the roots that have still, for the moment, the internal reference of a search that
was freed or of the client that left.

* `InternalUnrefCounts`, `SearchUnrefCounts`, `SearchAddrefCounts`, `CreateCounts`: each
  primitive keeps the memory counted, for needs that differ by one. `Kept` says what
  it leaves alone.
* `UnrefAllCounts`: by induction on the list, all the entries of a root that is being
  released. The root itself survives until its last search does (`locale-root.c:207`).
* `RootLastGood`, `SearchUnrefGood`, `SetDefaultGood`, `FoundGood`, `NewGood`: a whole call,
  with the needs read again in the memory that it leaves; `LocaleStep` has one step per
  action.
* `InvNothing`: if the client holds nothing, the needs of a search that is left are a
  default, and of its own root (`OwnRoot`): only such roots remain.

For the iterators, `IterAt` is in closed form the iterator at its k-th place: in the given
list, in the default one, or in no locale. `NextIs` shows that `iter_next` goes from one
to the next, and `AllIs` by induction that `IterFrom` goes through all of them.

### What is only model-checked

* Liveness (`WaiterIsServed`, `DeletedIsFreed`, `FramesAreServed`): fairness and
  `ENABLED` are beyond the prover.
* `TimersAreArmed`: it holds of the clients of the run, whose timers start later than
  the present, and is false in general (`ev-mgr.c:541`, section 6).
* What recursive definitions compute: the properties of `texts`, `RefsAreOwned`,
  `OperationsAreExact`, `FramesAreExchanged`, `ValuesSurvive` and
  `InputsAreStable`. The heaps of json-c, the parsers and the codecs are walked by
  recursive operators, and what these compute for every input needs an induction over
  data.
* `IsHandlerMap`: no recursive definition stands in the way, its proof is in the plan.

## 6. Where the code and its comments part

Four runs state what a comment or a contract of the code says, and TLC refutes
them.

* `ev_timer_refcount`: the comment of the field says "reference count", but
  `ev_mgr_add_timer` never initialises it; dropping one of two references may
  free the timer.
* `expand_vars`: the first pass of `rp-expand-vars.c` and the second one disagree
  on a text with several braced references, and the buffer is one byte short.
* `numbers`: `rp_str2u64` promises 0 for what is not a 64 bits value
  (`rp-str2int.h:44`), but its test (`rp-str2int.c:89`) compares the prefix only: the
  numbers above `UINT64_MAX` with the same tens wrap, and 2^64 is read as 0 and accepted.
* `curl_forgotten`: `multiCheckInfoCB` reads one message of libcurl; when two
  transfers end in one action the second is never reported.

The others have been met while modelling. Those of modelled components are
modelled as the code is.

**Locks, events, maps, paths**

* `lockany_try_lock_write` refuses only when the item is locked for reading *and*
  for writing, so it succeeds beside other holders. Called so (`TryAlone` false),
  `Exclusion` fails, and so does the service of a waiter.
* `timer_dispatch` unlinks a finished one-shot timer through the link read
  before its handler ran; a timer added by the handler is unlinked with it
  (`ev-mgr.c:648`).
* `timer_arm` compares with the time armed last, even though the timerfd has
  expired; a timer due at that very time is not armed (`ev-mgr.c:541`).
* A failing `epoll_ctl` is never tried again (`ev-mgr.c:443`).
* With all the 65536 ids in a map, the upper index of `u16id2ptr` wraps
  (`u16id.c:163`).
* `rp_path_search` prepending a directory looks at the head node only: one that
  was just appended is not moved in front (`DirLists` allows it). In the search of
  files (not modelled), `directory_after` is called only with a filter, and
  what is known of an entry is stale after the recursion.
* The default search of a root holds it: unless it is unset, the root is never
  freed. `iter_list_init` and `iter_search_init` overwrite `EINVAL` and read fields
  that were not set. `is_in_search_list` stops at the first item of the same
  length, so items may be listed twice.

**Websockets**

* In `websock.c`, the two bytes of a close code are counted as header *before*
  the mask, so a masked close frame gives its code masked and unmasks the rest with
  a key two bytes off; a close frame with a code and no reason is reported as
  having no code (`FramesAreReported` says exactly what is reported, and
  `MaskStaysInStep` leaves close frames out).
* The default pong sends as many bytes as the ping has, even when fewer were read, or
  none at the end of the connection: the others are those of an uninitialised buffer
  (`websock.c:307`). It ignores a read that fails while it drops the rest (`cut`).
* A `readv` that gives 0 at the end of the connection makes `websock_drop` loop for
  ever (`websock.c:563`).
* A `writev` that takes a part of a frame is taken for a success (`websock.c:153`,
  `ws.c:170`): the rest is never sent. The dispatcher does not look at what its own
  writes return.
* In `ws.c`, `buffer` does not advance after a payload (a second frame in a buffer
  is misread), `length` is not decremented when a payload is split over buffers,
  and references are lost for a default pong, an unhandled pong, a close of length
  1, empty payloads and a close at the end of a buffer.

**Texts**

* `rp_jsonstr_test` accepts more than JSON: `+` before a number, zeros in front of it, a
  point that no digit follows, control characters in strings, a comma before the end of an
  array or object. `AcceptsJson` says that this is all: what is accepted is what `Derived`
  with these liberties (`loose`) derives, and no text of JSON is refused.
* `unescaped_length` steps by three on any `%` and reads one or two bytes beyond the
  terminator of a text that ends within an escape (`rp-escape.c:217`); `UnescapeStaysInside`
  says that it reads no further, and only then.
* Jokers with `PATHNAME` do not do what `globmatch.h` says.
  `rp_whichprog` reads past the terminator when `PATH` is empty or ends with a
  colon. The header's example of `escape_length` miscounts.

**JSON and YAML**

* `rp_jsonc_cmp` of two objects with the same keys in different orders makes each
  one the greater (`rp-jsonc.c:1238`, `rp-jsonc.h:585`); `rp_jsonc_sort` and
  `rp_jsonc_keys` compare the addresses of slots, so nothing is sorted
  (`rp-jsonc.h:559`, `rp-jsonc.h:570`).
* A description that is too deep reads `stack[32]` in `rp_jsonc_vpack`; characters after a packed value
  lose the object (the one case in which `PackLosesNothing` says that something is lost); a first part above 256 characters makes the concatenation of strings copy past its
  buffer; the letters `u` and `U` are never accepted; negative doubles are never
  read as integers, though `rp-jsonc.h:649` says that doubles are converted if possible
  (`IntegersAreExact` states the other conversions, and what the numbers that wrap become is
  in `ConvertsExactly`).
* Strings of a file named by `$ref` are expanded once more for each level; the
  content of a file that is not an object is lost when another one follows.
* An empty plain scalar of YAML is the integer 0; an alias inside its own anchor
  makes a cycle that leaks; `*root` is not set when parsing fails early; the
  first of two equal anchors on scalars is kept; anchors on keys are not recorded.
* `json.hpp`: the size of a BSON document is ignored, and so are the terminators of
  its strings; a binary without subtype comes back with subtype 0 from BSON; CBOR
  negative integers below -2^63 wrap; a CBOR length of 2^64-1 and a UBJSON size of
  -1 are taken for indefinite ones; a negative length of a UBJSON string gives an
  empty string; a typed UBJSON array of empty elements with a huge count loops
  without reading; `indent_string` is doubled once only, with spaces whatever the
  indentation character; what a callback refuses inside an object stays in it as
  a discarded value (the documentation of `parser_callback_t` says that it is
  skipped); `-0` is the integer 0; what follows a NUL is not read.

**System**

* A log message of exactly 4000 characters is emitted with a NUL and no ellipsis;
  `rp_verbose_sub` keeps only the level it is told to remove; contexts are written
  without the separator between them; the count of contexts wraps at 65536.
* `rp_file_put_at` reads `errno` after `unlinkat`, and a concurrent get can see a
  mix of the old and the new content. In `rp-socket.c` the openings of `unix` and
  `char` return -1 in place of `-errno`.
* `curl-client.c` gives its callback the content type after `curl_easy_cleanup`,
  loses the body received before an error, never frees headers nor lists, and
  does not free a synchronous request.
* `utils-glue.c` (not modelled) includes a header that does not exist; among others
  `utilScanDir` closes a descriptor twice, `utilsExpandString` writes at the index
  of its maximum, `utilStr2Token` leaves a freed pointer, and the child of
  `utilsExecCmd` returns to the caller when `execv` fails.

## 7. What is not modelled, and why

`PROJECT.json` lists every part. In the modelled ones: `ev_fd_set_handler`, the
holder word of the manager and the build with a pipe instead of an eventfd;
`websock_set_max_length`, creation and destruction, and what follows a `cut`;
the search of files in directories and the limit of 32767 characters of a
directory; calls of `lockany_try_lock_write` beside other threads (in the model, with `TryAlone`
false, and in no run);
the end of the connection under `websock_drop`, writes that take a part of their bytes, and
the errors of writes in `ws.c`, which its callers only hand over; the reading of absolute
starts of timers, reduced to what is left of them once the present is subtracted;
failures of `epoll_ctl` and `timerfd_settime`, which are in the model (`CtlMayFail`,
`ArmMayFail`) and in the theorems that do not exclude them, and not in the runs; the builds of the log for
syslog, systemd and Zephyr; the parsing of host and service; the `for_all` and `optarray` families of
`rp-jsonc.c`, which call back for each item; the expansion of YAML files, which
is the one of `JsonExpand` with another reader; JSON pointers and patches,
input adapters and the texts of exceptions of `json.hpp`.

Not at all: `sandbox/spawn-utils.c` and `misc/rp-read-fd-name.c` (system calls),
the `x-*` portability layer and `rp-systemd.c` (names of primitives), `http/rp-curl.c` and
the glue of `curl-client.c` to an event loop (settings of libcurl),
`sandbox/utils-glue.c` (it cannot be compiled: it includes a header that the
repository does not have), `sha1.c` (vendored).
