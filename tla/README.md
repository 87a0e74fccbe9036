# FactDB: specifications, model checks and proofs

FactDB is a query engine that keeps the results of joins *factorized*: a tree of
relations in which values that are independent of each other are stored once instead of
multiplied out. This directory holds TLA+ modules about the engine, configurations that
check them with TLC, and proofs that TLAPS checks.

    tlc -config MCInfra.cfg MCInfra                check a run
    tlapm ThreadingProofs.tla                      check the proofs of a module

`PROJECT.json` is the index: components, runs, the source lines every definition stands
for, the hazards of the code with the properties that cover them, findings, theorems, and
for every property a plausible bug (a *mutant*) that it detects.

## 1. The system

A query goes through these parts; all of it runs in one thread up to execution, which is
parallel.

    script -> parser -> algebra -> optimizer -> prepare/derive f-trees -> interpret, or
    generate C++, compile or find it, and load it -> run over loaded tables in parallel

| component | state it keeps | operations | what is hard | what makes it correct |
|---|---|---|---|---|
| `infra/threading/ThreadPool` | barriers, task descriptor, cursor, shutdown flag | `parallelFor`, worker loop, destructor | all interleavings; reuse of the descriptor by the next call; borrowed loop body | each index once per call; returns, after the last chunk, and not before |
| `infra/threading/ThreadLocal`, `LocalState` | slots with versions, per-object chain, per-thread slot vector | construct, access, iterate, erase orphans, destroy, end of thread | object and thread end in either order, at the same time; reuse of slots and of addresses | an instance is private, live while followed, deleted by exactly one side, never lost |
| `infra/alloc/AllocatorPooled` | list of chunks, begin/end of each, current chunk, lock | `allocate`, iterate, destroy | threads overshoot the end together; growth races | slots unique; the walk meets the slots handed out, all of them |
| `infra/alloc/BumpAllocator` | current byte, end byte, blocks with footers, lock | `allocate`, move, release | two words that change one after the other under readers | no two regions overlap while no call mixes two blocks; every block is released once |
| `infra/ChainingHashTable`, `MultiVectorView` | vectors of entries, slot heads, next pointers, size | insert, finalize in parallel, lookup, lookupNext | chains are cut and rejoined by racing ranges; ranges may start anywhere | every entry on the chain of its slot once; matches all found |
| `infra/list` (deques, concurrent and inline vector) | deques per thread; segments after oneTBB; an inline list on top | append, grow, resize, iterate, destroy | growth of the segment table by racing calls, change of the layout, shifted chunk pointers | an append takes effect at once and in one piece; nothing moves; memory freed as allocated |
| `infra/list` (chunked, linked, merged) | chunks with free slots and a shared lock; nodes in front of nodes; merged lists that own nothing | append, compact, merge, walk, destroy | the lock is given up before it is taken exclusively; a list is cut between exchange and link; owners change after a merge | appends are atomic; a merged list shows what it was merged from |
| `infra/UnionFind` | parent, rank | find, union, enumerate a set | compression between rank decisions | a ranked forest, one tree per set |
| `infra/BitSet` | one word, or several | set operations, iteration, orders | word boundaries, numbers at the ends of nibbles and bytes | they are the operations on sets |
| `infra` values, expressions, settings | none shared | format, parse, compare | widths and formats | not modelled |
| `newftree` | nodes, trees, iterators | linearize, merge, compose, fix iterators | nodes referenced by several trees; order of iterator creation and merge | path constraint; stored once; iterators inside their tree |
| `newftree/generator` | the lists of a tree, hash tables, sizes | insert below a handle, iterate, cut into chunks | skipping empty subtrees, handles kept between rows, cached sizes | the stored tree unfolds to the join |
| `algebra` | the operators with the columns required of them | prepare (down), consume (up) | required columns survive a first prepare | every pipeline delivers what it uses |
| `algebra/visitors`: interpreters | a table per join, registers | produce, consume | parallel build, probe over collisions | the join of the two sides |
| `algebra/visitors`, `translator`: code generators | pipelines of a query | produce, consume with three stages | order of the stages, several chunks at once | the result of the flat join |
| `opt/algs` | plans, map from relations to plans, sizes | base tables, join, choose | in-place overwrites, pruning without a price, early exits | the best plan of what the algorithm compares |
| `opt/estimators`, `PredecessorDetector` | nothing of their own | estimate cost and classes | a plan has no total order, but one per class | costs belong to the plan |
| `opt/QueryGraph`, `Plan` | edges, column classes, operator cache | edges, makeJoin | cache shared by estimators | no condition of the query lost or misplaced |
| `opt` passes | the operator tree | push down, create joins, reorder, flatten, sides | every pass relies on the shape the one before leaves | the tree has the conditions of the query at every pass |
| `opt/oracle`, `umbra` connectors | stored counts, a file with backups, connections, pipes to a child | estimate a signature, store, retry, ask a process | failing server, crash between two lines, output without an end mark | an answer is the count of this query on this data, once learnt it is kept |
| `parser` | scopes | parse, resolve, build the operator tree | none concurrent | only the tree it builds is modelled |
| `queryc` | files of generated code, libraries, known queries | open, generate, look up, compile, load | processes end between two files; numbers restart; times stand still | a query runs its own code |
| `Database`, `statement`, `schemac` | relations, files noted by COPY, tables loaded | COPY, CREATE TABLE, query, `genTblFiles` | a query given up keeps its tables; two kinds of files for one relation | a query reads the rows of a file version since its COPY |
| `SQLExecution`, `tools` | lines read, settings, frames of included files, plans | commands, text, includes | text runs later than it is read | queries run as written, with plans of their own |

How they interact: the interpreters insert into the thread-local vectors of a hash table
from inside a parallel loop, and the table's `finalize` runs its ranges in another.
Depending on the build and the settings the loop is `ThreadPool::parallelFor`, with
`OwningThreadLocal` vectors, or that of oneTBB; the specification of the ranges covers
both. The nodes of a factorized tree lie in lists of `infra/list`: the root list is one
deque per thread, taken from a thread local, and the lists below a node belong to the thread
that inserts there. The optimizer allocates its plans from a pooled allocator, asks the query graph for
the classes of columns that a union-find keeps, and prices a plan through an estimator,
which prepares operators and derives f-trees with the very visitor that execution uses. The
operators stay in a cache, so that one operator is prepared more than once in its life. The
estimators ask the oracle, which has what it does not know counted by a server or a child
process. What outlives a process lies in files: estimates, plans by name, generated code
with its libraries, and the rows of the relations.

## 2. The modules

| module | code | extends / composes |
|---|---|---|
| `ParallelFor` | the promise of `parallelFor` | |
| `ThreadPool` | `infra/threading/ThreadPool.hpp` | implements `ParallelFor` |
| `PooledAllocator` | `infra/alloc/AllocatorPooled.hpp` | |
| `BumpAllocator` | `infra/alloc/BumpAllocator` | |
| `ThreadLocal` | `infra/threading/ThreadLocal`, `LocalState` | |
| `HashIndex` | the promise of a hash table that is built in parallel | |
| `ChainingHashTable` | `infra/ChainingHashTable.hpp`, `MultiVectorView.hpp` | implements `HashIndex` |
| `HashJoin` | `MaterializedExecution`, `PushModelExecution`, inner and right semi join | composes `ChainingHashTable` with the probe |
| `UnionFind`, `BitSet` | `infra/UnionFind`, `infra/BitSet` | |
| `FTree` | `newftree/FTree`, `FNode`, `FIterator` | |
| `FactorizedTreeDeriver` | `prepare` of the algebra, `FactorizedTreeDeriver` | uses `FTree` |
| `FactorizedExecution` | `CodegenFactorized`, `algebra/translator`, `newftree/generator`: what the generated code does | extends `FactorizedTreeDeriver` |
| `AppendList` | the promise of a list that threads append to | |
| `ConcurrentVector` | `infra/list/tbb/ConcurrentVector.hpp`, `SegmentTable.hpp` | |
| `InlineList` | `infra/list/tbb/InlineWrapper.hpp` | extends `ConcurrentVector` |
| `FastDeque` | `infra/list/FastDeque.hpp`, `TLFastDeque.hpp`, `TLSIteratorThreadLocal` | |
| `Lists` | one of the three lists at a time | composes `InlineList` and `FastDeque`, implements `AppendList` |
| `OwningLists` | `infra/list/ChunkedList`, `LinkedList`, owning | |
| `MergedLists` | their non-owning lists, `ListBase.hpp` | extends `OwningLists`, implements `AppendList` |
| `QueryGraph` | operators of the parser, passes, `QueryGraph`, `Plan::makeOperatorTree` | operators only, no state |
| `JoinOrdering` | `opt/algs` DPSize, DPSizeLinear, DPFactLeftDeep, both estimators, `PredecessorDetector` | its trees are those of `FTree` by relation |
| `Optimizer` | `QueryOptimizer::optimize`, `AnyPlan`, `FixedPlan`, `executeSemiJoinPlan` | composes `JoinOrdering` and `QueryGraph` |
| `CardinalityOracle` | `opt/oracle/CardinalityOracleDB`, `UmbraServerConnector` | |
| `EstimateFile` | `opt/oracle/CardinalityOracleCSV` | |
| `UmbraConnector` | `algebra/visitors/umbra/UmbraConnector` | |
| `QueryCache` | `queryc/CxxCache`, `CxxCompiler`, `QueryParseContext` | |
| `Session` | `Database`, `statement`, what `schemac` generates for loading, `genTblFiles` | |
| `ScriptExecution` | `SQLExecution`, the table of cached plans | |
| `DataInduction` | none: induction and recursion over naturals, said with sets and functions | lemmas for the proofs |
| `UnionFindProofs`, `JoinOrderingProofs` | none | theorems about the module of that name |
| `ThreadingProofs` | none | theorems about `ThreadPool` and `ThreadLocal` |
| `AllocatorProofs` | none | theorems about `PooledAllocator` and `BumpAllocator` |
| `HashJoinProofs` | none | theorems about `ChainingHashTable` and `HashJoin` |
| `StatementProofs` | none | theorems about `QueryCache`, `Session` and `ScriptExecution` |
| `OracleProofs` | none | theorems about `CardinalityOracle`, `EstimateFile` and `UmbraConnector` |

Each `MC*` module gives the constants of what it runs small values; its comment says why
those. `MCInfra` (pool, join, union, bit sets of one word and of two), `MCMemory` (pool, bump,
local), `MCPlanning` (optimizer, count, file, pipe), `MCLists` (tree, appends, merged) and
`MCStatements` (cache, session, tool, script) hold several parts that do not share state. A
variable `part` chooses one of them in the initial state and it runs alone: the states of the
parts add up instead of multiplying, and nothing is hidden, because no part reads the variables
of another. The constant `Parts` of the first three says which parts a configuration has.

### State and actions against the code

**ThreadPool.** `pc` is where a thread is in `workerLoop`/`processWork` or the owner in
`parallelFor`/the destructor; `startBarrier` and `endBarrier` are the sets of threads
blocked in the two `std::barrier`s; `workCursor`, `currentTask` and `shutdown` are the
members of that name. One step is one access to shared state: `Claim` is the
`fetch_add`, `TestEnd` the comparison behind it, `RunChunk` the body. `runs` counts how
often the body was called for an index. `ParallelForCall` publishes the descriptor and
`ResetCursor` the cursor, two stores before the barrier. A call with an empty range
returns at once, as the code does.

**PooledAllocator.** Chunks are numbered in the order of allocation. `FetchAdd`,
`PutBack`, `Grow` (under the lock, with the second look at the current chunk) and the
stores that publish a chunk are separate steps. The iterator and the destructor walk
along `begin`; as in the code they are used when no thread is inside `allocate`.

**ThreadLocal.** An instance is an address in `heap`, which can be reused once it is
deleted. `Push` is the compare-and-exchange of the registration, `EraseHead` that of
`eraseOrphansImpl`, `MarkInstance`/`DestroyMark` the two `test_and_set`s that decide who
deletes. The steps of a thread that ends and of a destructor of the object interleave
freely. What the header documents is assumed: nobody accesses an object while it is
destroyed, and one thread at a time erases orphans or iterates.

**ChainingHashTable.** An entry is its place `<<vector, index>>`. `Finalize` picks
*any* partition of the entries into ranges, because `parallel_for` may; a range links a
run of equal hashes (`Collapse`), exchanges the slot (`Exchange`) and links the rest of
the chain (`Link`). `MultiVectorView` is `SkipEmpty`, `IteratorAt`, `Increment`.

**HashJoin.** The key of a tuple is the list of its column values, its hash the bitwise
or of theirs. A probe is one entry per step.

**UnionFind.** One round of a loop per step, so that every half-compressed forest is a
state. `class` is the abstract partition, changed by the arguments of `unionSets` only.

**FTree, FactorizedTreeDeriver.** Trees are values on a heap of nodes. A call of
`prepare` before and after its children is one action; the C++ call stack is `todo`.
Sets passed by reference are named by operator and kind, so that a selection that adds to
the set of the join above does so here too. Before the plan itself, an operator of it may
be prepared on its own, as the estimator does; the operators keep what they required then.

**FactorizedExecution.** The memory of a query is a sequence of lists of elements; a
*place*, a list and an index into it, stands for a handle or for one variable of a generated
C++ iterator, and a pipeline walks a tree by a sequence of places. `StartPipeline` is what
`produce` emits before the loop, `StartChunk` cuts the rows (of a table, or of the root list
by its bounds, `beginAt`), and `ProcessRow` is one row of a chunk with everything the
consumers do to it up to the end of the pipeline: lookups, insertions below a handle,
`appendEmptyTree`, hash table entries. The stages `BeforeLoop`, `InLoop` and `AfterLoop` are
kept. Chunks of several threads interleave row by row. What
threads do to one list at the same time is the subject of `Lists`; here an append is atomic.
`fault` in `store` records that a null handle or an iterator at its end was read.
`Databases` says on which databases a plan is run after it is prepared, if on any.

**ConcurrentVector, InlineList.** `pc` is where a thread is in its call, a step one access
to shared memory. A call takes indexes by `fetch_add` on `size`; `firstBlock`, `table` and
`segment` are the members of the segment table, which the calls race to extend; waiting for a
segment that another call allocates is a step that is not enabled. `locked` of the inline
list is the atomic counter of that name: the call that takes the first index behind the array
waits for its elements, moves them to a vector of its own and hands over the table.

**FastDeque.** A deque is a value: the array of chunk pointers, the chunks, and a flag that
a write went outside of an array or that memory was freed which was not allocated. The
pointers are shifted, so that an address is `<<chunk, index>>` by the absolute index.

**Lists.** `kind` says which list it is. Deques belong to threads, so an operation on one is
one action; the iterator over the deques of all threads follows `chain`.

**JoinOrdering.** `plans` is the heap of plans with pointers as indices, `planMap` and
`sizes` the containers of the algorithms. `NextSize` and `JoinPair` are the loops of
`generateOptimalPlan`, `ChooseBetterPlan` one call of it in DPFact. A relation stands
for its node of the f-tree. The oracle counts the tuples of the join that the relations
really have, projected to the required ones. `OrderingSpec` is the dynamic programs by
themselves, one query after another, of any relations, classes and rows; every step of
`Optimizer` that changes these variables is one of its actions, with a query from a parsed one.

**QueryGraph, Optimizer.** `pass` is the pass of `QueryOptimizer::optimize` that comes next,
`tree` the operator tree between them, `graph` the query graph of the reordering. The
reordering takes a cached plan (`UseCachedPlan`), runs a dynamic program of `JoinOrdering`,
whose steps are steps of this module (`OrderJoins`), or `AnyPlan`, which joins two of its
`parts` at a time (`ApplyJoin`, `CrossParts`). A predicate
is a set of terms; an equality of columns is the only kind the optimizer tells from the rest.
Where `optimizeJoiningRelations` prefers a column of a class by its estimate, any is taken:
that covers the estimators, the operator cache that is filled by whichever estimator asks
first, and the edges of a factorized plan. Which side a join builds on is any, too, because
it depends on estimates.

**BumpAllocator.** Addresses are numbers of units; a request of a size and an alignment is
rounded as the code rounds it. `Bump` is one round of the compare-and-exchange loop;
a new block is put in place by two stores, `currentByte` before `endByte`, while others go
on. `Places` is all that is known of the system's memory: a block overlaps no other, and may lie
above or below. A region remembers the current byte and the end that its call had compared.

**OwningLists, MergedLists.** An append is read lock, free slot, place, value;
without a slot the lock is given up, taken exclusively, and the section under it, which looks
again, is one step. A linked list exchanges its head and links behind it in a second step. A
merged list holds places: the chunks with the end that they had, or the first nodes.

**BitSet.** A word is a number below `2^WordBits`; `leftSet` and `rightSet` are the sets that
`left` and `right` ought to be.

**CardinalityOracle, EstimateFile, UmbraConnector.** The server, its failures and the end of
the process are actions of the environment. `stored` and `file` outlive the process. A request
is the sequence mode, connection, count, store, close of `CardinalityOracleDB`; the file is
written one line per step, by any number of oracles. An answer of the child is a header line
and the lines of a result. `WritesWhole` says whether the child writes it at once; a read takes
what is there, as far as the buffer goes. `found` and `overlap` of the file are history: what
the process found in it, and whether two oracles lived at the same time.

**QueryCache.** A step is one access to the files. `time` may stand still between two writes.
`Die` ends a process in any state; the next `Load` rebuilds the cache from what it finds.

**Session, ScriptExecution.** `current` is the query with
the relations it still has to load or unload; a query may be given up in the optimizer, in
which case the statement catches it. A script is a sequence of lines of the kinds that the
reader tells apart; `frames` are the main file and the one it includes. The places of the text,
in the order in which it is read, are what `AsWritten` compares the queries with. `plans` is the
table CachedPlans: a row per name and algorithm (`Key`), with the data set that it was stored for,
which a lookup compares (`FindsPlan`), and which a plan of another data set replaces
(`GeneratePlan`). `optimizer.cache` may be off: then rows are written and not read.

## 3. The runs

| run | instance | distinct states | what it shows |
|---|---|---|---|
| `infra` | pool: 2 workers and the owner, 2 calls, ranges below 3, grains 1..2; join: one column, up to 3 left tuples in 2 vectors, 1 right; all calls on a union-find of up to 5 elements; bit sets of one and of two words | 390,735 | refinement of `ParallelFor`, no work outside a call, calls and destructor return; the build refines `HashIndex`, the pairs are those of the join, probes end; ranked forest, right answers; the operations of bit sets are those of sets, of one word also the test for a common element |
| `infra_columns` | two join columns, 2 left tuples | | violated, finding 1 |
| `infra_words` | bit sets of two words | | violated, finding 4: the test for a common element |
| `memory` | pool: 3 threads, 5 allocations, chunks of 1, 2, 4; bump: 2 threads, 2 objects, 3 calls, blocks anywhere; local: 2 threads, 2 objects, 3 constructions, 3 addresses, 3 starts | 2,608,270 | pool: slots unique, the walk meets exactly the slots handed out; bump: regions apart and inside blocks while no call of their object mixed two blocks, blocks owned, released once; local: private, chain exact, no dangling pointer and no leak |
| `memory_blocks` | the bump allocator alone | | violated, finding 5: regions inside blocks without a condition |
| `planning` | optimizer: 7 queries of up to 4 relations, all tables of 1 or 2 rows over 2 values, 4 algorithms and cached plans; count: 2 queries, 2 data sets, failed counts repeated or not; file: 2 oracles, 3 estimates, 2 backups; pipe: 4 commands, results of one line and of two | 992,417 | conditions kept by every pass, count queries exact, costs belong to plans, the answer is the best, the kept plans do not beat each other; an answer is the count of the query asked, or none; what was learnt can be recovered after a crash, what was found is kept; answers go with their commands until a read may cut one; requests end |
| `planning_columns` | two columns compared with one | | violated, finding 2 |
| `planning_pipe` | results of two lines, a buffer of four characters | | violated, finding 6: the output is the answer |
| `execution` | all plans of up to 3 relations, those of 4 without selections, one with two branches; most of them run on two databases by 2 threads, those of up to 3 also on three with rows of default values | 697,198 | derivation: columns stored once, join keys on a path, references materialized, iterators contained, pipelines deliver; execution: the result of the flat join, or a fault where a chunk begins with default values or a branch is empty; bounds cut exactly, sizes not stale |
| `execution_fork` | two lists below one node | | violated, finding 3: no fault |
| `lists` | tree: 3 threads on a vector, an inline list or deques; appends: 3 threads on a chunked or linked list; merged: 2 lists, 2 merges | 621,811 | refinement of `AppendList`, walks exact, memory freed as allocated, merged lists show what was merged, appends return |
| `statements` | cache: 2 texts, 5 queries, 4 times; session: 3 relations, 2 files; tool: 2 runs of `genTblFiles`; script: all files of three lines, 3 processes, 2 data sets, the plan cache on or off | 4,955,188 | a query runs its own code, reads rows of one version since its COPY, runs as written and with a plan of its own and of its data set |

The exactness of the chains is checked in `infra`, where the build that the probe meets is
the one it speaks of; the properties of the tree derivation in `execution`, whose plans derive
their trees first; those of the dynamic programs in `planning`.

### The bounds, and why they are enough

- *ThreadPool*: `MaxIndex`, `MaxGrain`, `MaxCalls`. Three threads and three indices give
  fewer chunks than threads, as many, more, and a partial last one; the second call meets
  threads that still leave the first. The theorems lift the bounds.
- *PooledAllocator*: `MaxAllocations`. Five allocations end in the third chunk; all three
  threads can overshoot one. `WeakMayFail = FALSE` is the x86-64 build, where
  `compare_exchange_weak` is one instruction; with `TRUE` the walk is not exact, which the
  hazard list records.
- *BumpAllocator*: `MaxCalls`. A request that fills a block, one that does not fit, and a
  second block, above or below, while another thread is between its two reads. The bases let a
  block lie on either side of each other, so that calls that mix two blocks occur, harmless ones
  and those of finding 5.
- *ThreadLocal*: `MaxObjects`, `MaxStarts`. One construction more than variables and one
  start more than threads make a slot, a thread and an address be reused: three starts let a
  push succeed although the head that it read was erased, deleted and registered anew at the
  same address in between (ABA). The third start comes while one object was constructed only;
  with more objects there are two. The theorems lift both bounds.
- *ChainingHashTable, HashJoin*: `MaxEntries`, `NumRight`. With three entries an exchange
  on a slot meets a chain that hangs in the air, and the first hit of a lookup may be of
  another key. `HashBits` is 3, and the slot of a hash is its upper bits, as in the code.
- *UnionFind*: `MaxElements`. Five elements give rank two and paths that are compressed.
- *BitSet*: words of 16 bits instead of 64 have four nibbles and two bytes; the elements are
  those at the ends of nibbles, bytes and words.
- *FactorizedTreeDeriver*: with four relations, top and bottom inserts nest on either side
  in all combinations the deriver tells apart; selections, semi joins and repeated
  preparation up to three. With selections in the plans over four relations the derivation
  was checked once, too (893 thousand states).
- *FactorizedExecution*: `ChunkSize` 2, `BoundsWidth` 2 (50 in the code) and two `Threads`
  make root lists of several bounds, more chunks than threads and a partial last chunk from
  three rows on. Executed are all plans up to three relations, those of four that are inner
  with one condition per join, and semi joins whose left side is a scan or a semi join. In
  the two databases rows have several partners, one or none, and equal rows occur; in the three
  others the row of default values is the first, a later one, or the first of the second chunk.
  Both faults of section 5 occur: the null handle there, the iterator at its end in the plan with
  two branches.
  With one thread, all 1312 inner plans over four relations were run once (560 thousand
  states).
- *Lists*: `MaxSize` 5 elements of an inline list with two in its header reach the switch,
  the block that is handed over and a segment allocated on its own; three threads, that two
  wait for the third. `Deltas` {4} makes one call take a last segment ahead. `MaxLength` 6
  elements in the deques fill three chunks and let an array grow twice. Checked once with
  symmetry of threads and `Deltas` {1, 3} (686 thousand states).
- *OwningLists, MergedLists*: `MinChunk` is 1 instead of 100, so that the second append needs
  a chunk. Merges include one of a list with itself and one of a list that grows afterwards.
- *Optimizer*: four relations are the least with bushy trees (DPSize), and with two plans of
  one problem for each of two classes that later joins tell apart (DPFact). The queries are a
  path, a double edge, a cycle, a star, three relations compared pairwise with filters, and a
  filter over two tables. Their graphs are connected; a column is compared with at most one
  column of another table, the other case is finding 2.
- *CardinalityOracle, EstimateFile, UmbraConnector*: two data sets tell a text from a query.
  `Backups` is 2 instead of 10, so that the ring closes; two oracles, which overlap, follow each
  other or come alone; a file with no, one or two estimates, or none at all. `Buffer` is 4 instead
  of 255. The results of `MCResults` are counts of one digit and of two, the longer one in two
  reads, no number at all, two lines whose first ends inside a read, and two whose first ends
  where the buffer does. With `MaxCommands` 4 each kind follows each other, and a cut answer is
  followed by the commands that read the rest. `WritesWhole` is true: a child
  that writes in parts lets a read cut an answer at the end of any line, the header's included,
  and nearly every behaviour would be past what `AnswersMatch` speaks of; the theorem covers it.
- *QueryCache*: `MaxQueries`, `MaxTime`. A file is written again after the end of a process,
  before or after its library and in the same tick. The theorems lift the bounds.
- *Session, ScriptExecution*: `MaxVersion`, `MaxCopies`, `MaxQueries`, `MaxStarts`, and all
  scripts of three lines with a file to include, and three processes (`MaxProcesses`): a plan of
  one data set is stored, replaced by one of the other, and asked for again.

### Fairness

Weak fairness of a step is asserted only of threads and loops that run on their own: the
workers and the caller inside a call (`ThreadPool`), the ranges of a build and the steps of a
probe (`HashJoin`), a thread inside a call of a list (`Lists`, `OwningLists`)
and the loop of a request (`CardinalityOracle`). Nothing makes the owner call
`parallelFor` or destroy the pool, insert, append, or start a thread. Lock-free loops make
progress in the runs because each failed exchange is another thread's success; the loops of
the concurrent vector that wait for a segment wait for a call that is in progress and
therefore fair. With the setting that repeats failed counts a request ends only if the server
comes back again and again and some attempt succeeds: strong fairness of `Open` and `Count`,
under `[]<>up`. The other modules have no fairness and no liveness property.

### Deadlock

TLC checks for deadlock in `infra` and `planning`. In the optimizer a state without a step
is a query that the dynamic program found no plan for, or the assertion of `AnyPlan` that some
join is possible in every round. Parts that may be over there (the pool is destroyed, the join
done, the connector gone, the process terminated) stay as they are (`MCOver`). The other
runs stop on purpose, when the allocator or the list is destroyed, or the query, session or script
is over, and say so in their configuration; `AllReturn` takes the place of the check in `lists`.

## 4. The proofs

All theorems are for every value of the constants that satisfies the named assumptions
(sizes are naturals, the first chunk has a slot, the owner is not a worker, a table never has
more entries than there are hashes).

- **`ThreadingProofs`**, of the pool: `TypeCorrect`; `InductiveInvariant`; `PoolImplementsParallelFor`
  (`PoolSpec => Refines`); `WorkOnlyDuringCall` (`PoolSpec => []NoWorkOutsideCall`).
  The barriers cut every behaviour into phases, and the invariant is their disjunction:
  *gather* (everyone comes from the end barrier to the start barrier), *work*, and *exit*.
  In the work phase the chunks that threads hold do not overlap and lie below the cursor
  (`ChunksApart`), and an index has run exactly if it is below the cursor and in no chunk
  held (`Progress`); a thread in the end barrier knows that the cursor has passed the end.
  So when all are in it, all indices ran once: the step of the abstract specification.
  Of the thread-locals: `InstancesHavePlaces` (`LocalSpec => []IInv`), `AccessIsPrivate`
  (`=> []Private`), `ChainKeepsInstances` (`=> []ChainExact`), `DeletedOnce`
  (`=> []InstancesOwned`), for any threads, objects and addresses. The three properties look at
  an instance from one side each and are not inductive. The invariant gives every live
  instance its places: the access that registers it, a slot of its thread that the thread has
  still to clear (`Holds`), the chain of its object or the instance its destructor has in hand
  (`Owned`). An instance that nobody marked is in both of the last two, a marked one in exactly
  one (`HeldOk`, `OwnedOk`, `LiveOk`): that is what makes the second `test_and_set` the last
  use. `HeldAge` orders the versions of a slot, of the instances left in it, of the object that
  has it and of its entry among the free ones, so that an equal version means the very object.
  The chain is the least set that is closed under `next` (`Reach`) and each instance on it has one
  predecessor (`Acyclic`); that a push adds one instance, and an erase of the head or behind
  another takes one away, then needs no induction along the chain.
- **`AllocatorProofs`**, of the pool: `TypeCorrect`; `SlotsAreUnique` (`Spec => SlotsUnique`);
  `BeginIsExact` (`Spec => []BeginExact`, under `WeakMayFail = FALSE`). `ControlInv` says
  who holds the lock and how far a chunk is published; `SlotInv` that the slots handed
  out are those below `begin` and `end`; `OvershootInv` that behind every `begin` past
  `end` there is a thread that is going to put exactly this value back: the last one to
  overshoot. When no thread is inside, nothing is past the end. `WalkIsExact`
  (`Spec => []WalkExact`, under `WeakMayFail = FALSE`) adds `NonEmptyInv`, that no chunk of
  the list is empty, and `WalkInv`, what the iterator has visited by its position: a walk
  visits only slots that were handed out, and at its end each of them once.
  Of the bump allocator: `MemoryIsOwned` (`BumpSpec => []MemoryExact`), wherever the system
  places memory. A chain is the least set with a footer and the previous footer of each
  member; `ChainsInv` says that each footer links to another or to nothing and never back to
  itself, and lies on the chain of exactly one allocator. The lemmas `Push` and `Pop` say
  what a new block and a released one do to a chain. Nobody allocates while a move or a
  destructor runs, which has the chain of the object it empties (`ReleaseInv`).
  `RegionsAreOwned` (`BumpSpec => []RegionsOwned`), wherever the system places memory. A call
  that succeeds has the current byte that it read, by the compare-and-exchange, so that regions
  of one block are cut off from above and never overlap; that a region also ends above the lower
  end of its block follows only if the end was read of the same block. Nothing in the code makes
  sure of that, and where it fails the property claims nothing for this object any more (finding 5).
  `ObjectInv` says of which block the two words are while the thread that holds the lock
  (`SlowPathInv`) stores one after the other, of the current byte only as long as the object is
  trusted (`Trusted`); `RegionInv` that each region then lies in a block of its object above the
  current byte. That an object is trusted after a step only if it was before (`TrustIsKept`) needs
  that the end of a region is that of a block which is still there.
- **`UnionFindProofs`**: `TypeCorrect`, `ForestStaysRanked` (`[]RankedForest`),
  `AnswersAreRight` (`AnswersRight`). `RankedForest` alone is not inductive: what the
  locals of a call in progress know must be part of it, that `find` stays inside the set
  of its entry (`FindInv`), what the caller learned from the call before (`CallerInv`),
  and which members `getEqualElements` has collected (`EqualInv`).
- **`HashJoinProofs`**, of the table: `BuildInvariant` (`Spec => []IInv`), `ChainsAreExact`
  (`Spec => []ChainsExact`), `TableImplementsIndex` (`Spec => RefinesHashIndex`). While ranges race,
  a chain may hang in the air: its slot was exchanged, and the link behind the run is not
  stored yet. `ChainsExact` says nothing of such a moment and is not inductive. The
  invariant follows `PendingNext`, the links as they will be once every range has stored the
  one it holds: along these, the chain of each slot has exactly the entries that no range has
  still to insert, each once (`ChainsInv`); the ranges hold
  disjoint entries, and the run that a range has collapsed is linked in itself (`TasksInv`).
  When no range is left, the pending links are the stored ones.
  Of the join: `JoinIsExact` (`JoinSpec => []JoinExact`, under `HashesApart`): a
  probe has found exactly the partners that lie before it on the chain, and ends with the
  pairs of the join, none of them twice. `HashesApart` says that no key that is looked up
  shares its hash with another key of the left side. The run `infra_columns` violates the
  property exactly by leaving this hypothesis, see finding 1.
- **`StatementProofs`**, of the cache: `CacheStaysInStep`, `QueriesRunTheirCode`
  (`=> []RunsOwnCode`), `CacheIsExact` (`=> []CacheExact`), all under `[]OneAtATime`: at any
  time at most one process is up, since two at once would write to the same file names.
  What a library was compiled from cannot be seen from it; the code goes by times. The
  invariant therefore relates times to contents, whatever ended in between: a library that
  is younger than its source was compiled from that text (`YoungerIsExact`), and no process
  writes to a file that its cache answers with (`KnownIsExact`), because a new number is above
  all of them, even after a restart.
  Of a session: `TablesStayInStep`, `TablesHaveOneVersion` (`SessionSpec => []OneVersion`) and
  `QueriesReadCopied` (`=> []ReadsCopied`, under `~UseAtOnce`: a process does not use a relation
  that it created itself, see section 5), for any relations, files, rows and statements.
  What the tool wrote and what it still holds are together the first rows of one version
  (`ToolWrote`), so that a ".tbl" is never more than those, wherever the tool ends. A table
  that is loaded has rows of the file that is noted for it *now* (`TableInv`): that is what the
  unloading in a COPY is for. While a query runs, each relation that it needs is loaded or
  still to load (`PhaseInv`), and who loaded it does not matter.
  Of scripts: `QueriesRunAsWritten` (`ScriptSpec => []AsWritten`) and `PlansAreOfQueries`
  (`=> []PlanOfQuery`), for any files and processes, if included files include nothing
  (`ScriptsAssumption`). Text runs later than it is read, so that what ran says too little:
  the invariant (`ScriptInv`) relates both to the place in the text that the reader has reached
  (`Cursor`). The queries before it are those that ran, followed by those that wait
  (`WaitingInv`). The settings are what the text says up to it, except for a name that a command
  is about to set (`SettingsInv`): all that waits has the old one. And once `\q` is taken,
  nothing that counts is behind the place (`StopInv`). A plan is one of the query that
  had its name when it was stored (`PlansInv`), for the data set and the algorithm of its row,
  whichever process replaced it; that is the query that is run if names are unique.
- **`JoinOrderingProofs`**: `OrderingInvariant` (`OrderingSpec => []Invariant`),
  `CostsStayCurrent` (`=> []CostsCurrent`), `OptimizerFindsBestPlan` (`=> []BestPlanChosen`), for
  any number of relations, with any classes and rows. All but `ParetoSets` speak of the end of a
  size or of the search, and say nothing of the steps before. A plan joins plans of strictly fewer relations
  (`HeapInv`), and the pairs that are left make problems of the current size (`TodoInv`):
  what DPSize overwrites is a plan that no other points to, and the costs above it stay
  right. For the flat algorithms (`FlatInv`) every smaller problem has a plan exactly if it has
  a join tree, and none is cheaper (`Optimal`); a pair of the current size is still to come, or
  its problem costs no more than its join (`Bounded`). When none is to come, the recursion of
  `TreeCosts` makes the size optimal. DPFact does not examine a list to its end, so that
  nothing of the kind holds of its smaller problems; what holds is that two listed plans are
  always compatible (`ParetoInv`), and that each candidate of the whole query is still to come
  or no better than *all* the plans that are listed (`FrontInv`), the first among them.
- **`OracleProofs`**: `CountsAreExact` (`Spec => []AnswersExact`, under `SizesFit`: no size is
  above the largest `int`, which is what `atoi` reads), for any queries, data sets, failures and
  restarts. What matters (`CountInv`) is that a row belongs to the schema it names, and that a
  count on its way is one of the signature in the schema that is set.
  `EstimatesAreRecoverable` (`FileSpec => []Recoverable`), for any number of oracles and any
  length of the ring: until the copy is made the file is the old one, and until the store is done the newest
  backup is (`BackupInv`); a process that ends in between leaves both as they are until
  the next store begins.
  `EstimatesAreKept` (`FileSpec => EstimatesKept`), for any number of oracles. Whatever else they
  know, all oracles of a process know what it found in the file, so that each of them writes it
  again (`FoundInv`). That is all that holds of two that overlap: one may write over what the
  other has stored, see section 5. As long as none did, there is at most one, which knows all that
  is in the file, and the file has all that it knows unless it has something to store (`AloneInv`).
  `AnswersAreWhole` (`PipeSpec => []AnswersMatch`), for any results, buffer and commands, and a
  child that writes at once or in parts. `Risky` is an answer with a line, other than its last,
  that a read may end with: where a full buffer ends, or anywhere if the child writes in parts.
  The invariant (`PipeInv`) says, until the first such answer, how what is in the pipe and
  what was read make the answer to the last command (`InStep`): of it nothing, a number of full
  buffers, or all. After one nothing is claimed, and `planning_pipe` shows why.
- **`DataInduction`**: the provers cannot instantiate an induction theorem over an operator
  `P(_)`. They can take the *set* of the numbers that satisfy P: `SmallestExists` and
  `LargestExists` give the least and the greatest element, `NumbersUpTo` an induction over a
  set, `RecursionExists` that a function defined by recursion satisfies its equation. The
  counts of entries per vector, the chains, the powers of two and the costs of join trees are
  proved about in this way.

Only model-checked: all liveness (`OwnerReturns`, `JoinEnds`, `AllReturn`, `RequestEnds`) and
what speaks of `ENABLED`, which is outside what the prover does; `FTree`,
`FactorizedTreeDeriver`, `FactorizedExecution`, `QueryGraph`, `Optimizer` and `BitSet`, whose
definitions are recursive over plans, trees and words, which the prover cannot follow; and, so
far, the lists. That the reordering of `Optimizer` behaves as
`OrderingSpec` says is read off its actions (`StartDynamicProgram`, `OrderJoins`,
`UseOptimalPlan`) and not proved, because the module reaches recursive operators; the run
`planning` checks both properties there.

## 5. Findings

1. **A join on several columns loses pairs** (`infra_columns`,
   `MaterializedExecution.cpp:96`; `PushModelExecution.cpp` alike). The hash of a key is
   the or of its column hashes, so `(x, y)` and `(y, x)` collide; `lookup` returns the
   first entry with the hash, and `lookupNext` goes on with the key *of that entry*. If
   that is not the key searched for, the partner behind it is never reached. Joins over
   one column are right as long as the hash tells the values apart (`infra`, and the
   theorem `JoinIsExact`).
2. **A condition of a query is lost** (`planning_columns`, `QueryGraph.cpp:259`). Per class
   of equal columns a join gets one condition. For `a.x = b.z AND a.y = b.z` only one of the
   two is left.
3. **An iterator is read at its end** (`execution_fork`, `FromReferenceIter.hpp:26`). The
   increment that skips a first position without elements moves only the last of the lists
   the iterator varies; another one that is empty stays.
4. **Sets that intersect are taken for disjoint** (`infra_words`, `BitSet.cpp:107`).
   `BitSetVar::doesIntersectWith` wants a common element in *every* word. The query graph asks it
   of classes of columns (`QueryGraph.cpp:208`): with 64 of them the second word is empty and no
   two sets of relations have a join edge.
5. **A region of memory outside of its block** (`memory_blocks`, `BumpAllocator.cpp:126`). The new
   current byte is stored before the new end. A thread that reads between the two sees the
   current byte of the new block and the end of the old one, and compares one with the other. If
   the new block lies above the old one, a region that is too large for the new block passes.
   Blocks that are placed downwards hide it.
6. **An answer is cut** (`planning_pipe`, `UmbraConnector.cpp:132`). A read that ends with the end
   of a line ends the output. A result of several lines, as the query of a `Print` has, may end a
   line where the buffer ends; the rest is then the answer to the next command.

Seen while modelling, without a run of their own:

- *Execution.* The generated code takes the handle that it remembers if the row equals the one
  before, and a new storage remembers default values with a null handle: a row of zeros that comes
  first in its chunk is inserted below a null handle (`AppendEmptyTree.hpp:63`). The run
  `execution` reaches this, and the iterator of finding 3; `ExecutionExact` names the two faults
  and when they occur (`FaultsExplained`: `DefaultFirst`, `EmptyBranch`), and no other is left. A
  `Print` of columns of only some relations loses multiplicities in the factorized engine, unlike
  in the flat one. A semi join whose left side is an inner join would count wrongly there; no
  query builds one.
- *Optimizer.* DPFact gives up plans that are not worse, because the relations to expand are
  united over all classes before they are compared (`DPFact.cpp:41-62`), and drops plans that
  it did not look at when a new plan replaces one of equal estimates (`DPFact.cpp:127`). Both
  are in `ChooseBetterPlan` as the code has them. They cost plan quality only: the front of the
  list, which is executed, is still the cheapest of those tried (`BestPlanChosen`).
  `PredicatePushDown` does not end for a selection that stays above an inner join, and a
  selection above a selection uses a child that was moved away; `OptimizeBuildSide` keeps
  only the right side of a cross product. The trees of the parser have neither.
  `AnyPlan` on a query graph that is not connected reaches its assertion `halfDoableJoin`.
  The setting "DPFactLeftDeep" is the name of two algorithms.
- *Lists.* `InlineWrapper::reserve` beyond the array leaves `isInlined()` true until more is
  appended; `NonOwningInlineConcurrentVector::merge` calls `reserve` on what it asserts to be
  empty, and the `+=` of the non-owning iterator is off by one; `FastDeque::resize` within the
  last chunk leaves the size as it was, `resize(1)` of an inlined deque leaves an iterator
  that its assertion refuses, and the move constructor writes through an empty buffer when
  nothing is inlined. Iterators to inline elements end with the layout, as a TODO says
  (`InlineWrapper.hpp:220`). The inline list and the concurrent vector are used by tests only.
  The comment of the merged lists says that they take ownership (`ListBase.hpp:101`), the linked
  one takes none (`LinkedListNonOwningImpl.tpp:16`); `reserve` and then `compactLastChunk` on an
  empty chunked list breaks its walks.
- *Sets.* The set of all of 64 relations shifts by the width of the word (`BitSet.cpp:18`).
- *Oracle.* A count that failed is stored as 2^64 - 1 where failures are not repeated
  (`CardinalityOracleDB.cpp:101`); `UmbraServerConnector.cpp:80` reads a count as an `int`. The
  ring of backups restarts at 0 with each process (`CardinalityOracleCSV.cpp:113`), so that the
  backup with what a crash cut off is overwritten by a later process: `Recoverable` holds until the
  next store begins. Two oracles of one process that overlap each write what they alone know
  (`:92`), so that what one has learnt and stored may be lost by the store of the other; only what the
  process found in the file is safe (`FoundKept`). Copying a file that is not there throws (`:116`).
- *Statements.* A ".tbl" file is preferred however old it is (`SchemaCompiler.cpp:209`);
  `CREATE TABLE` does not extend the tables of the running process
  (`CreateTableStatement.cpp:71`), so that its use needs a rebuilt program; a `ScopeSetter` that
  is a copy or is discarded has no effect (`ImportEstimateCSV2DB.cpp:7`); queries without a name
  share one entry of the plan cache, and one query on two data sets has one entry, so that a plan is
  made anew whenever they alternate (`CardinalityOracleDB.cpp:116`).

## 6. What is not modelled, and the plan

Most of the 51,824 lines are not a program to specify: the scanner and parser that flex and
bison generated, checked-in C++ of queries and table definitions, adapted containers of other
libraries, writers of C++ text and of plans, options and timers. What keeps state, runs in
parallel, outlives a process or rewrites a plan is modelled as the table of section 2 says.
Not modelled, and why:

- text (what the code generators emit is modelled by what it does; printers, `FileWriter`, SQL
  by nothing), the grammar, name resolution and types of the parser;
- timers, traces, options, JSON and the command line;
- `FastAlloc`, which is not used, and `Mmap`;
- the containers of other libraries that can take the place of the lists at compile time;
- read-only reports: the gain, composition and difference visitors, estimates of a finished
  tree.

Simplified inside the modelled parts:

- exceptions from a loop body; moving a pool, a deque and a hash table; the sum of prices that wraps
  after a failed count;
- in the prices of the optimizer counts never fail and never overflow; a selection keeps the
  rows of one example predicate;
- reserved sizes and statistics of generated trees; an append to a root list is atomic in
  `FactorizedExecution`; the branch of the top insert for a tree without iterated columns, which
  no plan takes; DPFact for bushy trees;
- a merged list is looked at while its owners live and none of them was empty; a list is reserved
  at most once; what the exclusive lock guards is one step;
- the child of `UmbraConnector` greets within the second that the code waits for it; the file of
  estimates is that of a build without SQLite;
- one process at a time uses the folder of the queries; a relation loads in one step; a
  query is over relations that a COPY named; a COPY of a missing file ends the process; a
  restart is a program that was built again.

Left, in this order:

1. Proofs: the refinement of `AppendList` by the chunked and linked lists.
2. DPFact for bushy trees, whose trees depend on the join above them.
3. The operator cache of the query graph with the estimator that fills it, instead of any
   choice of columns.
4. Moving a `PooledAllocator`, a `FastDeque` and a hash table.
