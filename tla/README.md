# Formal models of toolpex

TLA+ modules, TLC configurations and TLAPS proofs about
[toolpex](../src/README.md), a header-heavy C++ library of concurrency,
container, memory and system helpers. `PROJECT.json` holds the machine-readable
index: components, runs, mutants, which definition models which source lines,
findings, hazards and theorems. Source paths below are relative to `src/`.

    tlc -workers 2 -config SkipList.cfg MCSkipList.tla     # one run
    tlapm ApproxLimitCounterProofs.tla                     # one proof module

## 1. Inventory

| component | source | state | operations | what is hard | what makes it correct |
|---|---|---|---|---|---|
| spin lock | `include/toolpex/spin_lock.h` | one atomic flag | `lock`, `try_lock`, `unlock`, `is_locked` | every interleaving of test-and-set, relaxed load and clear | mutual exclusion; never left set; somebody gets in |
| approximate limit counter | `counter.h` | global counter, reserve and maximum; a map of private counts; number of online units; a spin lock | `add_count`, `sub_count`, `read_count`, `count_unregister_execution_unit`, `reset`, handler | an unlocked fast path beside a locked slow path; unsigned arithmetic; a map touched without the lock | the limit holds, no reserve is lost, every call counts once |
| specific counter handler | `specific_counter_handler.h` | counter pointer, unit | construction, moves, destruction, forwarded calls | moves and assignments in odd orders, while other units are in calls of the same counter, or reset it | a unit's entry and its share of the limit last as long as its handler and never longer, unless the counter is reset |
| skip list | `skip_list.h` | nodes, forward pointers per level, `m_level`, `m_size` | insert, `operator[]`, erase, clear, nine kinds of search, iteration, moves, assignment | chains that share nodes; allocation failing in the middle; cached level and size; deleters that name the list that made a value | an ordered map, whatever the heights drawn; values freed once |
| LRU cache | `lru_cache.h` | a list and a map of its nodes | `get`, `put`, `contains`, `clear` | two containers to be kept in step, exceptions between them | a map ordered by recency; never beyond capacity |
| buffer, lens | `buffer.h`, `src/buffer.cc` | blocks, current block, reading position | `append`, `writable_span`/`commit_write`, `next_readable_span`/`commit_read`, `commit_remove_after_read`, reset, moves, `dup` | cursors of two clients over blocks that come and go | bytes arrive once, in order, none is missed |
| handles | `unique_posix_fd.h`, `unique_resource.h` | a descriptor, or a resource and a deleter | make, move, assign, close, release, destroy | moves from and into handles in every state; numbers the kernel reuses | closed or deleted exactly once |
| callback promise | `callback_promise.h` | frames: an exception, a value | `set_value`, `set_exception`, `get_exception`, `value`, moves, destruction | an exception that moves along a chain of objects and whose last holder throws from a destructor | never lost, never met twice |
| object storage | `object_storage.h` | memory and a flag | `set_value`, `get_value`, `clear`, moves | no destructor of its own | every object destroyed once; the flag tells the truth |
| uuid | `uuid.h`, `src/uuid.cc` | an identifier and its cached text | generate, parse, copy, move, `to_string` | the cache is filled by a const function | the text is of the identifier |
| IP addresses | `ipaddress.h`, `src/ipaddress.cc` | bytes or segments | parse, print, socket addresses, embedding, `++`/`--`, order | byte order, wrong texts, runs of zeros, carries | round trips, reference definitions; `++` and `--` go to the next and the previous number, in a total order |
| strings | `string_ext.h` | none | `trim`, comparisons, lazy concatenation | unsigned indexes that wrap | trims only delimiters; a total order |
| integer encoding | `encode.h` | a buffer | encode, decode, append, both byte orders | signs, widths, machines of either order | read back as written; big-endian order |
| system times | `convert_to_systime.h` | none | to and from timespec and timeval | times before the epoch | rounds down, keeps order |
| reference count | `ref_count.h` | an atomic count; guards | add, subtract, load; guard, move, assign, release | threads between the two halves of an assignment | the count is the number of shares |
| owners of memory | `allocator_guard.h`, `page.h`, `buffer_block` of `buffer.h` | a block, its allocator, capacity and fill | allocate, move, assign, release, give up | moves and releases in odd orders | every block goes back once, to its allocator, with its size |
| error helpers | `posix_err_thrower.h`, `errret_thrower.h`, `exceptions.h`, `socket_util.*` | none | translate answers of system calls | three conventions of what an error is | no failure goes unnoticed |
| numbers and masks | `math_ext.h`, `bit_mask.h` | a mask | logarithm, parity, powers; add, remove, contains | integer promotions, division by `max_level - 1` | the levels suggested are usable; masks are sets of flags |
| values and tables | `mime_type.*`, `tuple_hash.h`, `in_there.h`, `functional.h`, `tic_toc.h`, `this_thread_id.h`, `lifetimetoy.h`, traits, macros | none | expressions | nothing a model checker reaches | - |

The parts interact in three places. The counter takes the spin lock for its
slow path and is called through handlers, whose destructor unregisters their
unit. The lens reads the buffer's blocks through its cursor. `socket_util`
wraps a system call in the error thrower and a `unique_posix_fd`. Everything
else is used on its own by the library's clients, who are therefore the
environment of most models.

The hazards, each at its line and with the properties that would catch it, are
in `PROJECT.json`.

## 2. Modules

| code | module | implements | proofs | run from |
|---|---|---|---|---|
| spin lock | `SpinLock` | `Mutex` | `SpinLockProofs` | `MCSpinLock` |
| counter | `ApproxLimitCounter` | `LimitCounter` | `ApproxLimitCounterProofs` | `MCApproxLimitCounter` |
| skip list | `SkipList` (calls and outcomes in `MapCalls`) | `OrderedMap` | `SkipListProofs` | `MCSkipList` |
| LRU cache | `LruCache` | `RecencyMap` | `LruCacheProofs` | `MCLruCache` |
| buffer and lens | `Buffer` | `ByteStream` | `BufferProofs` | `MCBuffer` |
| handles | `UniquePosixFd`, `UniqueResource` | | `ObjectProofs` | `MCObjects` |
| counter handler | `SpecificHandler`, over `ApproxLimitCounter` | | `ApproxLimitCounterProofs`, `ObjectProofs` | `MCObjects` |
| storage, promise, uuid | `ObjectStorage`, `CallbackPromise`, `Uuid` | | `ObjectProofs` | `MCObjects` |
| integer encoding | `Encode`, over `Powers` | | `ObjectProofs` | `MCObjects` |
| skip lists that are moved | `SkipListMoves` | | `ObjectProofs` | `MCObjects` |
| reference count | `RefCount` | | `ObjectProofs` | `MCObjects` |
| page, buffer block, allocator pointer | `OwnedMemory` | | `ObjectProofs` | `MCObjects` |
| addresses, strings, times | `IpAddress`, `StringExt`, `SysTime`, over `Question` | | `ValueProofs` | `MCValues` |
| error helpers | `Errors`, over `Question` | | `ValueProofs` | `MCValues` |
| numbers, masks | `MathExt`, over `Powers`; `BitMask`; over `Question` | | `ValueProofs` | `MCValues` |

An `MC` module gives its component small sets; each `.cfg` is one run. Two of
them are suites. `MCObjects` instances the small classes, which do not
interact: its variable `class` says whose client is at work, so the states are
those of the classes side by side and not their product. `MCValues` does the
same for the functions of values: a behaviour puts one `Question` after the
other. A property of a suite only gives a name to the property of the module it
belongs to, where its comment and its conjuncts are.

A definition called `Mutant...` stands before the definition it deforms and is
used by no specification; it records a plausible bug that a property is known
to catch.

### How the models read the code

*SpinLock.* `test_and_set` and `clear` are single steps on one atomic object.
The inner loop's relaxed load may answer an old value: an old "set" is one more
turn, an old "clear" is `SpinStale`. `try_lock()` returns what the flag *was*,
so `AcquiredValue` says how a caller reads it; `lock()` reads `FALSE` as
success.

*ApproxLimitCounter.* A unit passes through `lookup` (the unlocked map access
of `local_variable()`), `load`, `fast`, and either returns or goes through
`lock`, `body`, `unlock`. A locked body is one step, because nothing it touches
is written without the lock except the caller's own entry; `read_count`, which
reads other units' entries while these write them, is walked entry by entry
(`StartScan`, `ScanEntry`, `EndScan`). Arithmetic wraps modulo `W`; a call with
argument `W-1` is `-1` as it arrives in the unsigned parameter. The lock is
used as `Mutex` offers it, which `SpinLock` is shown to implement.
`SerialMembership` is the discipline under which the map is safe at all: a call
that inserts or erases entries runs while no other unit is in a call. Without
it the unlocked lookup races with other threads (finding `counter_race`).

*SkipList.* One client, one call at a time, but a search moves one node per
step so that its invariant (`SearchOnTrack`) can be stated. The height of a new
node is drawn from all those `random_level` can return. Each allocation may
fail: in `update` and in the value the exception leaves the list as it was; in
the `noexcept` constructor of a node, and anywhere under `operator[]`, it
terminates the program.

*LruCache.* Nodes have addresses, so that `splice` and the map's iterators are
what they are in the code; a freed node may be the next one handed out. Storing
a value, making a list node and making a map entry may each throw; `failed`
counts the last kind, which leaves a list entry that no key reaches. The list's
entries that the map leads to, in the list's order, are the one sequence of
`RecencyMap`: a map in the order of last use, which drops its last entry for a
new key. It has to allow for what failed insertions leave: until the next
`clear()` a put into a full cache may then drop any entry, or none.

*Buffer.* A byte is its number in the order of writing. `Discipline` names four
habits of a client (commit to every span and never to nothing; do not write
behind a reader that keeps; move only whole buffers; assign only to rewound
ones), and `Operations` what the client uses. The lens reads elements of
`EleSize` bytes. The consumer may remove the block the producer has an open span
into: `commit_write()` then finds no room, takes nothing and returns false
(`Accepts`), and the bytes are not among those written. Without the habit of
committing to every span, an `append` or another request gives the span up.

*The small classes.* Objects are identities that are made, moved, assigned (to
themselves too) and destroyed in every order; what they own (descriptors with
reuse, resources with a count of deletions, map entries, objects in memory,
exceptions) is separate state, so that leaks and double releases are visible.
Some keep their promise only to a client with certain habits, which
`Discipline` names: `UniqueResource` is not moved from without a resource
("valid") nor assigned to with one ("vacant"); `SpecificHandler` is assigned to
only after it was moved from ("vacant"); a skip list is not destroyed while
another holds a value it made ("outlives"); `allocate_guarded` is asked for one
object ("single"); `ObjectStorage` is cleared only with a
value ("clears") and assigned to or destroyed only without one ("empties"); a
`Uuid` is used by one thread at a time ("alone"). `CallbackPromise` has none: its
variable `careless` remembers whether a callback let a frame with an exception
go, and `NeverEnds` is about behaviours where none did. A promise is of a value,
of a reference or of nothing, and making the value may throw.

*SpecificHandler* is a composition: it extends `ApproxLimitCounter`, the counter
its handlers share; a handler's calls and the unregistration in its
destructor begin a call of the counter, and the counter's steps run beside the
other units' handlers. `ResetCounter` is not a handler's call: any unit may
reset the counter while handlers live, as `test/counter.cc` does, and they go on
counting. `active` remembers who has counted since that handler was made and
since the last reset.

*SkipListMoves* leaves the chains to `SkipList`: a list is its sentinels or
their absence, its counts and levels, and the values in it, each of which
remembers the list whose `demake_value` its deleter calls.

*RefCount* splits a guard's assignment at the point where its own share is back
and the other's not yet taken. *OwnedMemory* models three classes by one state;
`kind` says which one a behaviour is of, and where they differ the definitions
ask it: what size is asked for, what size is remembered, what a release resets.

*IpAddress, StringExt, SysTime, Errors, MathExt, BitMask.* Functions of values,
on a little-endian machine for the addresses. A call is asked about by its
convention and outcome, an integer by its bits and its type, with C++'s
promotion and conversion applied before each operation. `+=` and `-=` take an
argument and ignore it, as in the code; only version 4 addresses are counted,
those of version 6 are compared. A text for an address is what the code reads in it
(the number `atoi` finds, the verdict of `inet_pton`), not its characters; a text
with a colon is one for version 6, and one with dots has more than one field.
`Encode` builds a string of integers, on machines of both byte orders. `Powers`
has `b ^ n` as a recursive function, because the provers know nothing of `^`.

## 3. Runs

| run | bounds | distinct states | shows |
|---|---|---|---|
| `spin_lock` | 4 threads | 188 | exclusion, the flag, progress, refinement of `Mutex` |
| `spin_lock_try` (violation) | 4 threads | | a caller that follows the comment of `try_lock()` breaks exclusion |
| `counter` | 2 units, `W` = 6, limits 3 and 4, arguments 1 and -1, `m_num_online` up to 3 | 236,878 | limit, reserve, reads, stale fast path, exact refusals of a lone unit, refinement of `LimitCounter`; somebody gets the lock, an update that fits returns without it |
| `counter_race` (violation) | 2 units, no `SerialMembership` | | the unlocked map is changed by two units at once |
| `counter_reset` (violation) | 2 units | | `m_num_online` survives `reset()` |
| `skip_list` | 3 keys, 2 values, 3 addresses, `max_level` 4 | 403,151 | chains, nesting, level and size, searches, refinement of `OrderedMap`, every call ends |
| `buffer` | 14 bytes, 5 blocks of 4 or 8, requests 0 to 6, 2-byte elements | 55,688 | cursors stay valid, nothing is missed, `dup` keeps the content, refinement of `ByteStream`, everything arrives |
| `buffer_write_after_read` (violation) | 4 bytes, 3 blocks, without the habit "turns" | | what is written behind a reader that keeps is never offered |
| `lru_cache` | 4 keys, capacity 3, 2 values, 5 nodes, one failed map insertion, any other failures | 763 | list and map in step, how far it outgrows its capacity, refinement of `RecencyMap` |
| `objects` | 3 handles, descriptors to 6, 4 resources; 3 handlers of 2 units over a counter with `W` = 4 and limit 3; 3 storages, 4 objects; 2 exceptions, 1 value; 2 uuids, threads, identifiers; 5 bytes, both machines; 3 lists of 2 or 3 levels, 2 values; 2 counts, 3 guards; 3 owners, 3 blocks, 2 allocators | 1,009,407 | everything owned is released exactly once and to where it came from; entries last as handlers, but for resets; no exception lost or met twice; texts, integers, counts and levels right |
| `values` | addresses around every boundary, all texts of up to 5 fields over 4 kinds; all strings of up to 3 of 4 characters; 4 proportions of rates, 40 ticks either way; 3 errors, 3 results, 3 conventions; numbers to 70; masks and flags of 2 to 4 bits around an int of 3 | 12,849 | round trips, successors and predecessors with their carries, orders, trimming, rounding, errors thrown, levels, masks |
| `ip_text` (violation) | as `values` | | wrong texts make addresses |

Violation runs check one property each, taken from a comment, assertion or test
of the repository that the code contradicts; `findings` quotes it.

**Why the bounds are enough.** Spin lock: four threads are one in the critical
section, one fooled by a stale load, one spinning, one arriving; the theorems
cover every number. Counter: a fast path is only ever in the way of one other
unit at a time, because the lock lets one through; limits 3 and 4 give shares
that are odd, of one and of zero, and `W` = 6 lets a wrong subtraction wrap.
The liveness property rules out symmetry and with it a third unit, but the
theorems cover every finite set of units and remove the other bounds too,
`MaxOnline` included (it only ends the state space, as nothing lowers
`m_num_online`). Skip list: with three keys a node is spliced in and out between
two others at every combination of heights; one more level than the keys can
fill shows levels that are used and emptied. LRU: one key more than fits, so
that every key has been evicted and put back; one failed map insertion is
enough for an entry that is never reached again to be evicted in its turn.
Buffer: enough bytes for a block to be half filled, filled, outgrown and
removed, with one more behind it. Objects: three are what one needs to move
something away, replace it, and move it back. Two units and three handlers
show a handler that moves while the other unit is in a call, and a limit of 3
gives shares that run out. Values: both sides of every boundary of the functions
concerned; integer types narrower than int, as wide and wider are all there are
to the promotions.

**Fairness** is weak, on the steps of calls that were made. Spin lock: each
thread inside `lock()` or in its critical section keeps executing; since the
lock has no queue, no single thread is promised a turn, only that somebody gets
in. Counter: each unit inside a call keeps executing. Skip list: a call that was
made keeps executing. Buffer: the consumer reads while there is something to
read, and the producer commits to the spans it asked for; these are the loops
of `test/buffer.cc`, and `AllArrives` exempts a client that resets, constructs
or assigns over and over. No fairness is put on callers beginning new calls.

**Deadlock** is checked except in `skip_list`, where a failed allocation under
`noexcept` ends the program, and `objects`, where resources end up all made and
gone and a callback may end the program.

## 4. Proofs

Each theorem is of a specification that the runs check, for every value of the
constants that the module's `ASSUME` admits: any finite set of units, handles,
keys or blocks, any width, limit, base or size. The bounds that only end the
state space (`MaxOnline`, `MaxObjects`, `MaxBytes`...) remain parameters.

No theorem here is proved by an induction principle: those of the library take
an operator as a parameter, which no backend instantiates. What several proofs
use in its place is in `CommonLemmas`:

- `HasLeast`, `HasGreatest` and `AllUpTo`: a set of numbers that has 0 and with
  each number the next has all up to the bound, from a least counterexample;
- `FoldsExist`, `RecursionExists`: there is a function with the steps of a fold,
  or with the equations of a recursive definition whose values depend on earlier
  ones only (`Causal`), so that what the model defines by CHOOSE satisfies them;
- powers (`PowersExist`, `PowerSteps`, `PowersUnique`), the digits of a number in
  any base, and that comparing digits from the highest down compares the numbers
  (`DigitsSum`, `SumDigits`, `LessByDigit`).

**`SpinLockProofs`**: with `IInv` = types, mutual exclusion and "flag set iff
somebody is inside" (exclusion alone is not inductive: a clear flag with a
thread inside would admit a second), `SpinLockExcludes`, `SpinLockFlag`,
`SpinLockImplementsMutex`. Assumption: `AcquiredValue = FALSE`, the reading
`lock()` has.

**`ApproxLimitCounterProofs`**, under `SerialMembership`: `CounterTypeCorrect`,
`CounterRespectsLimit`, `CounterAccountsReserve`, `CounterReadBounded`,
`CounterFastPathCurrent`, `CounterRefusesExactly`,
`CounterImplementsLimitCounter`. A sum over the units is the number of points
under a function, so that it needs no recursion; the lemmas `TotalSplit`,
`TotalUpdate`, `TotalMonotone`, `TotalZero`, `TotalAlone` say how it changes.
The inductive invariant `IInv` joins the invariants the run checks with

- `EntriesInv`: no share without an entry, and no division by zero,
- `ControlInv`: place, call and answer agree,
- `LockDiscipline` and `OneHolder`: what the lock gives,
- `AloneInv`: a unit in a call that changes the map is alone (without it an
  entry could vanish between load and store).

That nothing wraps is a consequence (`GlobalizeFacts`, `ShareFacts`,
`SlowCountFits`, `FastCountFits`), and the limit follows from
`counter <= counter_max` in every entry plus the accounting of the reserve. The
step simulation (`StepRefines`) maps a fast or slow grant to the abstract grant
and globalizing and balancing to nothing. Exact refusals are an action property
of the same invariant: only the slow path refuses (`RefusedBySlowPath`), and
what a unit alone globalizes is all there is.

The same module proves the composition with the handlers, assigned to only
after a move, and with `reset()` beside them: `HandlersCallCounter` (what they do is a behaviour of the
counter's specification, so all of the above holds under its real clients) and
`EntryAlwaysIffHandler`, which `ObjectProofs` carries over to the suite that runs
check. `HandlerInv` adds that each unit has one handler, that
only a handler's unit is inside a call or one that resets, and where the entry of a unit is while
its handler's destructor is on its way through the slow path.

**`SkipListProofs`**: `SkipListWellFormed`, `SkipListCountsRight`,
`SkipListSearchOnTrack`, `SkipListImplementsOrderedMap`. `ChainsSorted` and
`LevelsNested` are not inductive: a splice is right only if the search left the
right predecessor on every level. `IInv` therefore has what a search has come to
(`SearchInv`: on every level above, `update[i]` and its successor bracket the
key), that the brackets are still there while the new node is made (`MakeInv`),
that a node is linked on exactly its levels and a removed one on none
(`LinksInv`), and which levels are in use, counted from `old_level` while a node
is made and may yet fail (`LevelsInv`). In the refinement every step but a
call's last is a stutter, and the answers of the nine kinds of search are read
off the bracket on level 0.

**`LruCacheProofs`**: `LruContainersAgree`, `LruImplementsRecencyMap`. `IInv` is
what `ContainersAgree` says, with the item of every node, and with the count of
entries that no key reaches, which failed insertions leave. The lemmas are
about lists that lose, move and gain a node (`splice` is both at once) and about
the entries of one that the map leads to. An eviction is refined by the drop of
the last entry only while nothing has failed, as `RecencyMap` says.

**`BufferProofs`**, for clients with the habits of `Disciplined` (section 2):
`BufferCursorsValid`, `BufferDrainedWhenEmpty`, `BufferImplementsByteStream`.
`IInv` (`Consistent`) says that the blocks before the reading position are used
up, that those behind the current block do not exist, that what is in the blocks
from the reading position on is what was written and not yet received, in
order, and what the producer's open span may be: the room left in the current
block, or one into a block that was removed, and then everything was received. Removing, rewinding, moving and
appending are operators on the whole buffer, and each has a lemma of its own.

`BufferDupSameContent` needs none of these habits: every client leaves the last
block the current one (`Copyable`), and that is all `dup()` relies on. What it
makes comes from two folds, one that gathers the blocks into chunks and one that
appends chunk after chunk. `FoldsExist` of `CommonLemmas` shows that there is
a function with the steps of a fold, so that its result can be followed step by
step (`TotalSteps`, `FlattenSteps`, `ChunksSteps`, `DupSteps`). The chunks cover the blocks, none of them empty (`ChunksCover`), and every
append adds to the view just what it was given (`AppendedGrows`).

**`ObjectProofs`** is about the suite `MCObjects`, whose
`Next` is the disjunction of the classes' own, each under its assumptions and,
for the handlers, the counter's (`ClassAssumptions`). One step lemma per
operation, one invariant per class:

| theorem | class | what had to be added to the property |
|---|---|---|
| `SharesAlwaysCounted` | reference count | an assignment's source exists until it is done, its target has nothing by then |
| `HandlesAlwaysOwnOnce` | descriptor, resource | no two handles own the same; the deleter has run on exactly what nobody owns |
| `StoredObjectsDestroyedOnce` | storage | blocks and objects apart; an object that is not destroyed is in a storage that says so |
| `MemoryGoesBackOnce` | page, block, allocator pointer | memory has one owner, was given up, or went back; an owner knows allocator and size of the loan |
| `ExceptionsAlwaysDelivered`, `CarefulCallbacksNeverEnd` | promise | which frames may hold an exception at each step of a call; both thrown and failing only after carelessness |
| `TextsAlwaysRight` | uuid | what a thread finds at each line of `to_string()`; a text between calls is empty or whole |
| `ValuesAlwaysFreedOnce` | skip lists that are moved | the list that made a value exists as long as the value; what is in a list is finite |
| `EntriesLastAsHandlers` | counter handler | `IInv` of the counter and `HandlerInv`; a reset empties `active` in the step that empties the map |
| `IntegersAlwaysSurvive` | integer encoding | what was written lies in the string where it was put, and no two integers overlap (`EncodingInv`) |

That a written integer is read back is a fact about digits, not about states: the
bytes of a value are its digits (two's complement first for a negative one), a
sum of digits times powers is the value again (`MemoryOfValue`, `ValueOfMemory`),
turning the bytes twice changes nothing, and big-endian texts of one type compare
as the values do (`LaidLess`, `LessLaid`).

**`ValueProofs`** is about the suite `MCValues`, for every address, every length
of text, every rate, time, answer and width. The invariant is `Asked`: a question
is one of those the modules ask. The rest is about functions. Where one would
say "by induction on the position", the proofs take the least position at which
something goes wrong, from `HasLeast` of `CommonLemmas`, and show that it is
not the least.

| theorem | what it says | what it rests on |
|---|---|---|
| `AddressesAlwaysRoundTrip` | an address survives text, socket address, peer's name and embedding | where the printed text has what (below); a port or segment turned twice; the bytes of eight segments put together (`SockaddrBytes`) |
| `NumbersAlwaysRight` | version 4 addresses go to the next and the previous number, whatever `+=` and `-=` are given, compare as those numbers, and have none between an address and the next; version 6 addresses are strictly totally ordered | what the carries and borrows of four bytes come to (`NextBytes`, `NextNumber`); the order of the bytes is that of the numbers (`LessAsNumbers`); comparing position by position is a strict total order whatever order the positions are in (`BeforeTotal`, `BeforeTransitive`) |
| `StringsAlwaysRight` | `trim()` drops only delimiters; the comparisons are one total order | where the loops stop, with indexes that wrap; which texts the first difference puts in which order |
| `TimesAlwaysRight` | conversions round down to a unit and keep order | division that truncates against division that rounds down |
| `ErrorsAlwaysReported` | no failing call passes a thrower | an errno is never 0 and never negative |
| `BitsAlwaysRight` | logarithm, bit trick, suggested levels; masks are sets of flags, and for which types `remove()` takes more | `i & (i - 1)` by halves (`AndIs`, `ByHalves`), a logarithm that grows with its number (`LogMonotonic`), the remainders of all numbers up to a bound (`AllRemainders`); what promotion and conversion do to a set of bits (`MasksAlwaysRight`) |

The printed text of a version 6 address is a fold that leaves out the first
zeros. If they are those from `p` to before `q` (`FirstZeros`), then after
segment `i` the text is the segments before `p` with colons between them and,
once `q` is reached, two colons and the segments from `q` on (`Upto`, kept by
`UptoNext`, one case for each way `to_string()` takes). Hence it denotes the
address if the zeros end before the address does (`PrintedTexts`). It also tells
`p`, `q` and every other segment (`PrintedPlaces`), the former because no segment
is a colon (`ZerosNotEarlier`), so that two addresses never share a text, not
even where the zeros reach the end and nothing shows for them (`PrintedApart`).

The proofs found assumptions that the models had left unsaid and now make:
what stands for "no loan" in `OwnedMemory` is not itself a loan; a handler's
counter is the one whose steps are interleaved with it, which is why
`SpecificHandler` extends it; a coin shows tails often enough for every level
that a number asked about suggests (`MathAssumption`, of the bound `MaxTails`);
and a text for version 4 has dots exactly if it has more than one field, and no
colon (`AddressAssumption`).

Every invariant, action property and refinement that a passing run checks is
stated by a theorem. **Only model-checked** are the liveness properties
`LockProgress`, `CallsProgress`, `CallsReturn` and `AllArrives`: they rest on
`ENABLED`, which the prover does not reason about.

## 5. Where the code asks for care, and what is not modelled

Besides the findings, the code does less than the names promise in these
places. The models describe them, and the habits of `Discipline` keep the
passing runs away from them; each is a hazard with its line where it matters.

- `buffer`: asking for an empty span, or appending nothing, takes a block the
  reader never gets past; a move-construction takes the blocks and not the
  reading position; an assignment keeps the target's old one; `dup()` of blocks
  that hold nothing fails the assertion in `writable_span()`, or, where
  assertions are off, allocates an empty block. `commit_remove_after_read()`
  releases the block even of a span that the producer still holds:
  `SpanStaysValid` allows for it, and writing through the span that is left,
  undefined behaviour, is not modelled.
- `lru_cache`: a failed map insertion leaves a list entry that counts towards
  no key, and the list outgrows the capacity by one (`ContainersAgree` says
  by no more than that).
- `skip_list`: a value that moved on to another list is freed through the list
  that made it, which must still exist. `skip_list_suggested_max_level` of less
  than four elements is 0 or 1, and `random_level` then divides by `2^64 - 1` or
  by zero (`BitsRight` is about four and more).
- `unique_resource`: a move from a handle that owns nothing makes the target
  delete it again; an assignment over an owner forgets what it owned.
- `specific_counter_handler`: an assignment over a handler that serves a unit
  leaves that unit's entry behind. `reset()` of the counter takes the entries of
  units whose handlers live on; `EntryIffHandler` says what holds all the same.
- `ref_count`: that a retired thing is never shared again takes a client that
  makes shares only of what is shared. The counts of `test/ref_count.cc`, which
  start at zero and are counted up, are not of that kind.
- `object_storage`: assigning to a storage or destroying it does not destroy
  what is in it; `clear()` destroys whether there is something or not.
- `page::release()` leaves capacity and size as they were, so that the page
  still offers room. `allocator_ptr` gives back one object whatever was
  allocated, and its assignments are left out: one cannot be instantiated, the
  other returns nothing.
- `uuid`: two threads that read one object's text for the first time may see it
  half made.
- `trim`: the end is not trimmed when nothing is to be trimmed in front;
  `StringsRight` says what is.
- `ip_address::to_string()`: a version 6 address whose first zeros reach its
  end is written without "::"; `AddressesRoundTrip` says what is. `to_v6addr()`
  puts the four bytes in memory order into segments that are then turned, so
  that they are not where RFC 6052 has them; they can be got back.
  `ipv4_address(uint32_t)` and `to_uint32()` have opposite byte orders.
  `getpeername()` passes an uninitialised length: the address is whole only if
  that happens to be long enough, and of lengths in between nothing is said.
  `+=` and `-=` ignore their argument and add or take away one: `CountsByOne`
  says so. The numbers are those of the bytes as they lie in memory, so that on
  this machine `++` changes the first byte of the text.
- `errret_thrower` takes a kernel's `-EPERM` for "see errno". `posix_err_thrower`
  throws for everything but zero, and so `socket_nonblock()` for every socket
  but descriptor 0, which it loses; given an error code it constructs itself
  without end.
- `bit_mask::remove()` inverts the flag in the flag's own type: `BitsRight` says
  for which types that clears bits which the flag has not.

Not modelled:

- `unordered_map::operator[]` on an existing key counts as a read.
- Copies of `lru_cache` (their iterators point into the original) and its
  implicit moves; `lazy_string_concater`, a concatenation over a type list.
- `dup`, the shared constants, stream output and hashing of addresses; the
  wording of error messages; failing allocations of `buffer`.
- The last row of the inventory: a table of constants (`mime_type`), single
  expressions, compile-time predicates, or helpers used by nothing in the
  library.

## 6. Plan

Done: every component that keeps state or has control is modelled, and so are
the functions of values; every safety property and every refinement that a run
checks is proved for all values of the constants.

Open, should the code or the tools change: liveness, once a prover knows
`ENABLED`; copies and implicit moves of `lru_cache`, once the class says what
they should do (as it is, a copy's iterators point into the original);
`lazy_string_concater` and the order of `uuid`, when something in the library
comes to depend on them.
