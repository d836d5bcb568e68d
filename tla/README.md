# FlashDB on ESP32: specification, model checking and proofs

FlashDB keeps a key-value database (KVDB) and a time series database (TSDB) on
raw NOR flash. Its difficulty is not in one call but in what is on the flash
when the power goes between two writes of it, in the caches the code keeps
beside the flash, and in garbage collection and rollover, which erase sectors
with data in them. These modules describe the flash and every write the code
makes to it, say what the databases promise, and check the one against the
other.

Paths below are relative to `src/components/FlashDB/` unless they say otherwise.

## 1. Inventory

| part | code | state it keeps | operations | model |
|---|---|---|---|---|
| KVDB | `src/fdb_kvdb.c` | sector headers and records on flash; oldest address, name cache, sector cache, `gc_request`, `in_recovery_check`, `cur_kv`, `cur_sector` in RAM | init with recovery, set, del, get, set_default, control, iterate, check, print, deinit; inside: allocation, garbage collection | `KVFlash`, `KVDB`, `KVIterate` |
| TSDB | `src/fdb_tsdb.c` | sector headers with two end nodes, index entries and data on flash; oldest address, `cur_sec`, `last_time`, `rollover` in RAM | init, append, the three iterators, query_count, set_status, clean, control, deinit | `TSDB`, `TSQuery` |
| status tables, CRC, dispatch | `src/fdb_utils.c` | none | `_fdb_set_status`, `_fdb_get_status`, `_fdb_write_status`, `_fdb_continue_ff_addr`, CRC, read, write, erase | `StatusTable`; `Access` in `System` |
| frame | `src/fdb.c` | `init_ok`, geometry | `_fdb_init_ex`, `_fdb_init_finish`, `_fdb_deinit` | `System` |
| FAL | `port/fal/src/fal*.c` | device and partition tables, two `init_ok` | init, find, bounded read, write, erase | `FAL` |
| ESP32 port | `port/fal_flash_esp32_port.c` | partition handle, semaphore | init, read, write, erase | `FAL`, `System` |
| application | `src/main/main.c`, `src/samples/` | one lock for both databases | start, sequence of calls | `System` |
| file mode, RT-Thread FAL | `src/fdb_file.c`, `port/fal/src/fal_rtt.c` | | | not compiled in this port |

How they interact. The application calls a database; the database takes its
lock (a callback of the application, `src/main/main.c` gives one counting
semaphore to both), reads and writes flash through `fdb_utils.c`, FAL and the
port, each of which is a synchronous call, and gives the lock back. Iterators
call back into the application with the lock held. Nothing runs in the
background: garbage collection runs inside set, recovery inside init.

What is hard:

* **Power loss.** Every status, header, body and erase is a separate flash
  write. Recovery has to make sense of any prefix, and recovery itself can be cut short.
* **Space.** Sectors wear through allocation thresholds, unfinished records
  waste space, and collection needs an empty sector to work at all.
* **Caches.** Oldest address, name cache (hits skip the flash), sector cache
  (free address and dirty mark), `cur_sec` of the TSDB: each is a copy.
* **Order.** The TSDB's queries rely on sectors in ring order and entries in time order.
* **Termination.** Recovery retries; assertions are endless loops.
* **Concurrency.** Calls without the lock (`fdb_kv_iterate`, `_fdb_kv_load`,
  `fdb_tsl_set_status`) and values read before it is taken; callbacks and exits
  with the lock still held; the port's own lock below.
* **Arithmetic.** FAL adds address and size in 32 bits before it compares them.

What makes each part correct: a set, deletion, append or clean happens or does
not, whatever interrupts it; reading gives what was last acknowledged; nothing
live is erased; every call returns; the copies in RAM equal the flash between
calls; the iterators report exactly what is stored. `PROJECT.json` lists the
hazards with their lines and the properties that watch them.

## 2. Modules

| module | what it is |
|---|---|
| `KVFlash` | the KV partition: sectors, records, status codes, what the code reads from them |
| `KVDB` | the KV database as a state machine, one action per flash write, plus `Crash` |
| `KVStore` | what the KV database promises: a map, one request at a time |
| `KVProps` | types, invariants, action properties, the refinement `Atomic`, liveness |
| `MCKV` | constants for TLC (record sizes, defaults) |
| `KVDB_proofs` | lemmas about the layout of the flash, and theorems about `KVDB` |
| `KVCache_proofs` | theorems about the sector cache and the collection, on top of `KVDB_proofs` |
| `KVMap_proofs` | theorems about `KVDB` while the power stays, on top of `KVCache_proofs`: one record for a name, what reading finds, what a collection may erase, the refinement of `KVStore` |
| `KVIterate` | `fdb_kv_iterate`, access by access, between the steps of `KVDB` |
| `KVIterate_proofs` | theorems about the iteration, on top of `KVMap_proofs`: what it reports, and that what it writes does no harm |
| `MCKVIter` | constants for TLC |
| `StatusTable` | a status as a table of bits on the flash (`src/fdb_utils.c`), and the theorems that it behaves as `WriteStatus` of `KVFlash` says |
| `TSDB` | the time series database as a state machine, one action per flash write, plus `Crash` |
| `TSLog` | what it promises: a growing set of timestamps whose earliest part may go |
| `TSProps` | types, invariants, action properties, refinement, liveness |
| `TSDB_proofs` | theorems about `TSDB` that hold after any number of power losses; and while the power stays: the order of the logs, the current sector, the refinement of `TSLog` |
| `TSQuery` | the iterators and the search by time as functions of the state, and what they should report |
| `TSQuery_proofs` | theorems about what they report, on top of `TSDB_proofs` |
| `MCTS` | constants for TLC |
| `FAL` | start of FAL and port, partition table, the way of an access to the device |
| `System` | tasks, databases, their locks and `init_ok`, composed with `FAL` and the port's lock |
| `MCSystem` | constants for TLC |
| `System_proofs` | lemmas and theorems about `System` |

How they fit together: `System` shows that the sections under the lock of a
database, and `_fdb_kv_load`, exclude each other, which lets `KVDB` and `TSDB`
describe one call after the other. The calls that take no lock are not excluded
and write as well; `KVIterate` and the marks of `ts_query` add them.
`StatusTable` justifies that a status is a number which grows. `FAL` shows that
the two databases do not touch each other's flash.

An operator `X_Something` in front of `X` is a *mutated form*: `X` with a
plausible mistake in it. Each property is shown to fail when its `X` is
replaced by such a form, so none of them holds for want of trying.

### State and actions of `KVDB`

`magic`, `store`, `dirty`, `recs` are the flash. A record has an offset, a
length, a status and, once its body is complete (the CRC matches), name and
value. `kvCache`, `secCache`, `oldest`, `gcReq`, `inRec`, `lastDel` are the
fields of `struct fdb_kvdb`. `pc` names the write that comes next; `op`, `cur`,
`old`, `gc`, `scan` are the frames of the C functions in progress.

| code | actions |
|---|---|
| `fdb_kvdb_init`, `_fdb_kv_load` | `FindOldest`, `CheckHdr`, `HdrDone`, `ResumeGc`, `RecoverKv`, `LoadRetry`, `LoadEnd` |
| `fdb_kv_set_default` | `FmtErase`, `FmtHdr`, `NextDefault`, `DefaultsDone` |
| `set_kv`, `new_kv` | `Set`, `NewKv`, `NewKvGc`, `NewKvFull`, `FindOld`, `PostGc` |
| `del_kv` | `PreDelete`, `Delete`, `MarkDirty` |
| `create_kv_blob`, `write_kv_hdr`, `move_kv` | `SectorStatus`, `PreWrite`, `WriteMagic`, `WriteHdr`, `WriteBody`, `Commit`, `MvAlloc`, `MvFull` |
| `do_gc`, `gc_collect_by_free_size` | `GcBegin`, `GcVisit`, `GcMove`, `GcErase`, `GcFormat`, `GcNext`, `GcDone` |
| power | `Crash`: everything but the flash is zero again |

A record that power cut short leaves a gap: `Fill` says where the code believes
free space begins, which is behind the gap (`GapLen` for a lone status byte,
`HdrLen` for a header whose length never got written).

The name cache's LRU replacement is a nondeterministic eviction; the CRC16 and
prefix comparison of cached names cannot collide in the model.

### State and actions of `TSDB`

Sizes are in index entries: a header is none of `Cap`, a log with `n` units of
data takes `n + 1`. `ends` are the two end nodes, `cur` is `db->cur_sec`. `pc`
again names the next write.

| code | actions |
|---|---|
| `fdb_tsdb_init` | `Boot`, `BootFailed` (a bad header: format all, or give up), `BootHang`, `Hang` (the assertion) |
| `tsl_format_all`, `fdb_tsl_clean` | `Clean`, `FmtErase`, `FmtHdr`, `FmtDone` |
| `tsl_append` | `AppendTsl`, `Refuse` |
| `update_sec_status` | `EndStatus`, `EndWrite`, `EndSkip`, `MarkFull`, `EraseNext`, `FormatNext`, `UsingStatus`, `WriteStart` |
| `write_tsl` | `PreWrite`, `Commit`; `StrayWrite` when there is no current sector |
| control, `fdb_tsl_set_status`, deinit | `SetRollover`, `SetStatus`, `Deinit` |

Writes that nothing distinguishes before the status that follows them (an end
node's time and index; an entry's time, length and data) are one step with that
status. `NoSec` stands for every address that is no sector's: `FDB_DATA_UNUSED`
and what wraps around from it. `Garbage` is what a field that was never set may
hold. When data and index of a sector overlap (`LogsFit` false) the model no
longer says what is read from it.

### State and actions of `KVIterate`

`itr` is `struct fdb_kv_iterator` together with the sector structure on the
stack and the place in the C code (`phase`). `hurt`, `want`, `seen` and `twice`
say what the properties are about: sectors whose blank first slot was marked
KV_ERR_HDR, and the records that nothing touched since the iteration began.
`raced` is a history variable: another task has written a sector header between
the iterator's read of it and the entry in the cache that it makes of what it read.

| code | actions |
|---|---|
| `fdb_kv_iterator_init` | `IterStart` |
| `read_sector_info(.., false)` | `IterSector` (the header, or the cache), `IterFill` (the entry in the cache, which replaces one of that sector or takes a free place; or none, when line 486 finds one) |
| `get_next_kv_addr`, `find_next_kv_addr`, `read_kv` | `IterRecord`, `IterMark` (KV_ERR_HDR is written) |
| end of the loop | `NextSec`, `IterStop` |
| any other task | `DbStep`: a step of `KVDB`; `PreWriteHurt` when it writes a status over a mark |

The search for the magic word and the read of the record behind it are one
step, an iteration starts between two calls of the other task, and there is no
crash and no deinit in it. Other tasks run between any two of its actions,
`IterSector` and `IterFill` included. An entry is copied into the sector cache
as a whole: two tasks in the middle of that copy are not modelled.

### State and actions of `FAL` and `System`

`flashed`, `port`, `devInit`, `falInit` are: the chip has a partition `flashdb`;
the port found it; the `init_ok` of `fal_flash.c`; that of `fal_partition.c`.
`initOk`, `lockOf`, `sem`, `portSem` are the databases' `init_ok` and lock
callbacks and the semaphores. `st[t]` is where task `t` is: `pc`, the `kind` of
its call (`use`, `force`, `bare`, `init`, see the module), how many accesses are
to come in this section (`ops`), and what the access in progress touches (`acc`).

| code | actions |
|---|---|
| `app_main`, `fal_init` | `Main`, `FalInit` |
| any call of the API | `Call`, `Check`, `BareEnd` |
| `_fdb_init_ex`, `_fdb_init_finish`, `_fdb_deinit` | `InitEx`, `Finish`, `Deinit` |
| `_fdb_kv_load` without the lock | `Loading`, `LoadEnd`; `LockAgain` for the `fdb_kv_set_default` in it |
| `db_lock`, `db_unlock` | `LockDb`, `UnlockDb`; `Leaves` for the exit that skips the second |
| `_fdb_flash_*`, `fal_partition_*` | `Access` |
| the port | `PortLock`, `PortUnlock` |

What is done to the data is not in `System`: an access is a kind, an address
and a size. The names of databases, partitions and devices are given, so that
the look-ups by name find what they look for.

### `StatusTable`

A table is the set of its cleared bits; programming clears bits and only an
erase sets them. `MCKV` asks TLC for the same agreement with `WriteStatus`
that is proved, in every run of the KV database.

## 3. What the runs check

Bounds: two keys, up to three values, two or three sectors of five to eight
units, so that a sector holds two or three records (one in `kv_iter`), every append sequence fills
the ring, and collection and rollover happen several times over. Erasing one
sector is atomic; reading, writing and erasing do not fail.

| run | what it shows | bounds that matter |
|---|---|---|
| `kv_calls` | without power loss the calls implement `KVStore`, caches equal the flash, an empty sector stays free, no sector becomes FULL, calls return | three sectors, records of two sizes and one that never fits, name cache of one, sector cache of two |
| `kv_crash` | one power loss at any write, recovery included: a call happened or did not, nothing live is erased, recovery finishes | two sectors, records of one size: one loss wastes at most the space of one record, which the thresholds still cover |
| `kv_move` | the collection never moves a record into the sector it is about to erase | sectors of eight units |
| `ts_calls` | without power loss append, clean and restart implement `TSLog`; order, end nodes and `cur_sec` are right; refusals have a reason; a start formats only what holds no log | three sectors, eight timestamps: more than once round the ring |
| `ts_crash` | one power loss at any write before the ring is full: no acknowledged log is lost or accepted twice, the next start finds its place | four timestamps: one sector change, no rollover (with rollover see `ts_format`) |
| `ts_power` | two losses of power anywhere, rollover and clean included: never two sectors in use | two sectors |
| `ts_query` | iterators and search report exactly the logs of each range, while another task marks logs at any moment; an iterator that waited for the lock while others rolled over still reports every log | all ranges, every sector as the starting point, sectors of seven units with logs of two sizes |
| `kv_iter` | an iteration reports every record that nobody touched meanwhile, once, between all steps of sets, deletions, defaults and collections of another task, until a header is written between the iterator's read of it and its entry in the cache | three sectors, two keys, room in a sector for one record and the gap a mark leaves, caches of two |
| `sys_tasks` | the sections under the lock and `_fdb_kv_load` exclude each other, and `_fdb_kv_load` the calls without a lock; one task at a time is in the flash driver; accesses stay in their partition; every call returns | a KV and a TS database of two blocks, three tasks with four calls, one lock or two, addresses up to the last unit, 32 bits are 4 |

`kv_iter` has `CONSTRAINT NotRaced`: TLC goes no further from a state with
`raced`. That is sound for its property, `~raced => StableOnce`, because
`raced` never goes back, so that all states behind such a state satisfy it.
With `Cap = 8`, two records in a sector, the check passes as well, in 4.3 million
states and some minutes; `StableReported` below has no bound on the records in a
sector. What happens behind `raced` is shown by `kv_iter_stale` below:
`StableOnce` itself does not hold of the code.

The sizes of the last run are small because nothing depends on them: an access
either crosses the end of its partition, of a block or of the address space or
it does not. Two tasks suffice for every overtaking of a lock; the third keeps
one waiting while the other two take turns. Section 4 has the properties
without bounds.

Three runs are places where the code does not do what its comments say. Each
checks one property and finds a counterexample; `PROJECT.json` quotes the
comment.

| run | counterexample |
|---|---|
| `kv_gc_loss` | two power losses waste enough space that `move_kv` fails; `do_gc` ignores that and erases the sector with the record |
| `ts_format` | power loss between the erasure of the oldest sector and its magic word: the next start formats everything |
| `kv_iter_loss` | `fdb_kv_iterate` meets the first record of a sector while another task writes its header, takes it for broken and marks it KV_ERR_HDR: the set returns FDB_NO_ERR and the flash holds no record with status KV_WRITE. A get still returns the value while the entry that `create_kv_blob` made in the name cache lasts (a hit does not look at the status); once it is evicted, or after a restart, none does |

### Further configurations

These are not among the runs of `PROJECT.json`. Each finds, with
`tlc -config <name>.cfg MCKV` (`MCKVIter` for `kv_iter_`, `MCTS` for `ts_`,
`MCSystem` for `sys_`), one more behaviour the comments of the
code do not expect; they mark the edge of what the passing runs establish.

| configuration | counterexample |
|---|---|
| `kv_unrecovered` | two power losses: recovery stops at the first unfinished record (`src/fdb_kvdb.c:1639`); one marked PRE_DELETE behind it is not recovered and cannot be read |
| `kv_boot_loop` | two power losses: init collects and retries for ever when the collection frees nothing (`src/fdb_kvdb.c:1682`) |
| `kv_oldest` | the oldest sector is searched (`src/fdb_kvdb.c:1799`) through a sector cache that is initialised only afterwards |
| `kv_defaults` | a first start that is cut short never writes the defaults (`src/fdb_kvdb.c:1669`) |
| `kv_full` | a set is refused although a dirty sector was not collected (`src/fdb_kvdb.c:1142`) |
| `kv_revived` | a collection moves a PRE_DELETE record whose replacement exists (`src/fdb_kvdb.c:1020`) |
| `ts_hang` | two power losses while end nodes are written: init runs into `FDB_ASSERT(0)`, an endless loop (`src/fdb_tsdb.c:229`) |
| `ts_same_time` | two power losses: the older of two end nodes is preferred (`src/fdb_tsdb.c:221`) and a timestamp is accepted twice |
| `ts_garbage` | `last_time` comes from a structure that was never filled (`src/fdb_tsdb.c:986`) |
| `ts_no_sector` | a full database with rollover off has no current sector after a restart (`src/fdb_tsdb.c:965`) |
| `ts_too_long` | the assertion on `max_len` admits logs that do not fit (`src/fdb_tsdb.c:947`) |
| `ts_torn` | an unfinished log ends the query by time (`src/fdb_tsdb.c:685`) |
| `ts_reverse` | the reverse iterator stops at an empty current sector (`src/fdb_tsdb.c:571`) |
| `ts_hidden` | a stale end node hides the logs behind it (`src/fdb_tsdb.c:221`) |
| `ts_rollover_off` | rollover switched off in the middle of the ring: appends go on erasing the oldest logs (`src/fdb_tsdb.c:349`) |
| `ts_stale_range` | the search by time waits for the lock while the oldest sector is taken: it starts in the newest one and misses the logs before (`src/fdb_tsdb.c:630`) |
| `kv_iter_stale` | `fdb_kv_iterate` reads a sector header as EMPTY, a set makes the sector USING, and the iterator then enters the EMPTY one in the sector cache (`src/fdb_kvdb.c:493`): a later iteration that nobody disturbs passes over the sector and misses the record in it |
| `sys_lock_leak` | with NOT_FORMAT a bad header makes `fdb_tsdb_init` leave with the lock taken: with the one lock of `main.c` every other call waits for ever (`src/fdb_tsdb.c:956`) |
| `sys_callback` | a callback of an iterator that appends waits for its own task (`src/fdb_tsdb.c:517`) |
| `sys_reinit` | without the rules of `MayCall` a second `fdb_kvdb_init` loads the database next to a set (`src/fdb_kvdb.c:1820`) |
| `sys_no_flash` | without the partition on the chip both databases report that they are initialised (`port/fal/src/fal_flash.c:45`) |
| `sys_wrap` | address and size that add up to more than 32 bits pass the bound check (`port/fal/src/fal_partition.c:453`) |
| `ts_exact_fit` | in a sector that is filled exactly the backward search reads data as an index entry (`src/fdb_tsdb.c:598`) |

### Fairness

`FairSpec` asks weak fairness of `Step`, the writes inside a call. A call runs
on the task that made it and waits for nothing once it has the lock, so as long
as there is power it goes on. No call, no power loss and no start-up is assumed
to happen. `Hang` is outside `Step`: it does not end.

In `System` each task is scheduled (weak fairness of `Step(t)`, FreeRTOS's time
slices). That a task gets a semaphore others keep asking for is not assumed:
`CallsReturn` holds because the tasks make finitely many calls. `sys_tasks`
does not check deadlock, since the tasks stop when they made their calls;
a task that waits for ever violates `CallsReturn`.

## 4. What is proved

`KVDB_proofs` proves for any number of sectors, names, values, sizes,
thresholds, cache sizes and crashes, under the `ASSUME`s of `KVFlash` and `KVDB`:

* **`TypeCorrect`**: `Spec => []TypeOK`. `TypeOK` is not inductive: that a
  record being replaced has a name is needed where the cache forgets it. The
  inductive invariant is `TypeInv == TypeOK /\ Named`. The addresses are what
  matters: a record found, allocated or moved is inside the partition.
* **`NoSectorFull`**: `Spec => []NeverFull`. The branch of `update_sec_status`
  that marks a sector FULL, and the collection that hangs on `gc_request` after
  it, are dead code. The inductive invariant is `FullInv == NeverFull /\
  NoFullCached /\ RoomBehind`: no sector, and no copy in the sector cache, is
  FULL, and behind the record that is about to be written there is more than
  the threshold left, because `alloc_kv_cb` asked for it.

`KVCache_proofs` goes on from there, under the same assumptions and for any
number of power losses. One inductive invariant, `SafeInv`, carries three theorems,
because none of them is inductive without the others:

* **`CacheTellsFlash`**: `Spec => []CacheCoherent`. Within a call the cache may
  lag behind: `CacheInv` says where. The entry of the sector being written
  has the free address from before the write, the victim of a collection is
  cached as DIRTY_TRUE while its header says GC, and an erased sector whose
  header is not back yet (`JustErased`) may still be cached with its old one.
* **`VictimLeft`**: `Spec => []MoveLeavesVictim`. `VictimInv` says that the
  victim keeps its mark on the flash while its records are moved. The allocation
  reads the mark from the cache, which may say DIRTY_TRUE, and takes neither.
* **`EmptyLeft`**: `Spec => []OneEmpty`. `SpareInv` says for each step of a call
  what takes the place of the empty sector: while an allocation is under way,
  an empty one other than the one it takes; while the collection runs, the
  victim, which carries the GC mark that the next start resumes from;
  at the start, the sectors whose header is missing and which it will format.

They need that a collection runs only on request (`RequestInv`), where a move
may be under way (`FrameInv`), and that a record is at least as long as its
header (`LengthInv`), from which the free address behind it follows.

`KVDB_proofs` begins with the lemmas about the layout: every CHOOSE of the
models that picks a sector or a record has something to choose. Each step lemma
has one case per action.

`KVMap_proofs` proves that without power loss the KV database is the map that
`KVStore` promises, for any number of sectors, names, values, sizes and any
caches. The hypothesis of its theorems is `Steady`: `MaxCrash = 0`, and the
table of defaults names no key twice. Both halves are necessary. After power
losses these properties are false (`kv_revived`, `kv_unrecovered`,
`kv_gc_loss`); `kv_crash` checks what holds of them after one. And
`fdb_kv_set_default` writes each default with `create_kv_blob` and looks nothing
up, so that a key listed twice gets two written records; TLC then finds
`ReadsAgree` violated. A deinit and a new start are steps of `Spec` under
`Steady`. The inductive invariant is `TypeInv /\ FullInv /\ SafeInv /\ MapInv`.
TLC checked `MapInv` on small instances before the proof. Its parts:

* `CallInv`: which call is under way at which step, and that recovery finds
  nothing to do; `SectorInv`: records are in sectors with a header that says
  USING, and a sector is marked GC only while it is collected;
* `OldInv`, `RecordInv`: the status of the record that is replaced, deleted or
  moved (`OldStatus`), of the one that is being written, and WRITE or DELETED
  for all others. A record marked PRE_DELETE is thus always the one in hand, and
  no call leaves one behind;
* `CurInv`, `PackInv`: the name and size of the record in hand, and that the
  complete records of a sector lie one behind the other and leave the threshold;
* `RoomInv`: what the walk over the victim has passed is garbage, and a sector
  takes every record that is not copied yet, because its free space begins no
  later than that record does in the victim (`TakesAll`). It is why `move_kv`,
  whose failure `do_gc` ignores, does not fail. It begins with the spare
  sector of `SafeInv` and goes on because of `PackInv`;
* `UniqueInv`: a name has one record with status WRITE at most, none from the
  mark on the old record to the commit of the new one, and from there on the one
  with the new value (`HeldInv`);
* `DefaultInv`: which defaults are written while `fdb_kv_set_default` runs, and
  that none of those to come is there yet;
* `NameInv`: an entry of the name cache leads to the written record of that
  name, to the one in hand, or to none with that name.

From it follow **`OneRecord`** (`NoDuplicate`), **`NoneLeftMarked`**
(`AllRecovered`), **`ReadingFinds`** (`ReadsAgree`: with and without the name
cache, for every name) and **`GarbageOnly`** (`OnlyGarbageErased`).
**`CallsAtomic`** is `Spec => Atomic`. The map of the refinement is `Stored`,
the value of the record of a name that is written or marked PRE_DELETE without
a successor. `PromiseStep` shows for each action that it is a step of `KVStore`
or a stutter: `Commit` of a set gives the name its value, `Delete` takes it away,
an erasure of `fdb_kv_set_default` takes away what was in the sector, and all else leaves
`Stored` alone: the mark on the old record because there is no successor
yet, the copy of a collection because it has the name and value of the record it
replaces, the erasure of the victim because by `GarbageOnly` nothing in it
is stored. That success is returned only when the map has changed is `HeldInv`.

`KVIterate_proofs` proves for any number of sectors, names, values, sizes and
caches, and with every set, delete, default, collection and erasure of
`KVDB` between any two reads of the iterator:

* **`StableReported`**: `IterSpec => []StableUnlessRaced`, that is
  `~raced => StableOnce`. The window of `raced`, from the read of a sector header
  (line 430) to its entry in the cache (493), is the only one in which another
  task does harm, and only when it writes that header: in it everything
  else may happen, and between all other reads everything. Without `~raced` it is
  false (`kv_iter_stale`).
* **`IterHarmless`**: `IterSpec => [](~raced => CacheCoherent /\ OneEmpty)`. The
  iterator fills the sector cache and marks records without the lock; cache and
  spare sector stay as the rest of the database needs them, until the first
  header that is written in that window: the entry made of it is the one
  that is wrong. What the marks do to a set under way is a finding (`kv_iter_loss`).

What is inductive is `UnlessRaced == raced \/ IterInv`: a step either keeps
`IterInv` or sets `raced`. `FillInv`, a part of it, says that between 430 and 493
the header the iterator holds is the one on the flash, and that an entry another
task made of the sector meanwhile agrees with it (`SeenAs`, which `EntryStep`
shows every other step of the database keeps). Either alternative of `IterFill`
is then right (`FillKeeps`).
`IterInv == Base /\ DbInv /\ WalkInv`. `Base` is what
`KVDB_proofs` and `KVCache_proofs` showed; the actions of the iterator that
write (`FillKeeps`, `MarkKeeps`, `HurtKeeps`) preserve it too. `MapInv` is not
part of it and cannot be: a mark may turn a record that is being written into
KV_ERR_HDR, and `NoDuplicate` or `Atomic` do not survive that. So what the walk
needs of the records is proved anew in a form that no status matters to, in
`DbInv`: all records but the one that is being written are complete (`WholeInv`), they
lie one behind the other (`ApartInv`), where there are any the header says
USING (`HeaderInv`), and the next one goes to the free address, which is the one
in the cache or not in the cache (`PlaceInv`). `DbForm` sorts the actions of the
database by what they do to the records: five write the new one, and all the
others leave every record where it is or empty its sector (`Tame`).

`WalkInv` says where the iteration is: what is still to be reported is ahead
of it, what was reported is behind, in the ring of sectors from `oldest` on and
in the sector up to the address kept between calls (`Passed`). `NextRead` shows
that the search from that address comes to the next complete record and passes
over none, `NoneNext` that when it finds none, or when the cache says that the
free space begins there, none is left (`FreeBehind`).

`TSDB_proofs` proves for any partition of two sectors or more, any logs, any
options and any number of losses of power:

* **`OneSector`**: `Spec => []OneUsing`. Two sectors in use would make the next
  start format the database. The inductive invariant `OneInv` says what each
  stage of a call knows: between calls `cur_sec` says of its sector what the
  header says, and when that is EMPTY no sector is in use (`Resting`); a log
  goes to the sector in use, and that sector is the one which is closed
  (`Appending`); from there until the next one is USING there is none, and that
  one has been formatted (`Taking`); `tsl_format_all` leaves EMPTY sectors
  behind it (`Formatting`); after power-up, and when an append finds no current sector,
  `cur_sec.status` is UNUSED (`NoCurrent`). The sector after another is a
  different one because there are at least two.
* **`TypesRight`**: `Spec => []TypeOK`. `Types` adds to `TypeOK` what kind of
  call each `pc` belongs to; with `OneInv` it says that every write but the
  stray one has a sector to go to.
* **`LogsNeverMeet`**: `Spec => []LogsFit`, provided every log has room in an
  empty sector (`RoomForEach`). The assertion on `max_len` in `fdb_tsdb_init` does
  not guarantee that: `ts_too_long` is the counterexample; an application has to
  choose `max_len` so. An entry that power cut short has no
  length, and `read_tsl` counts it as the longest log there can be; `SpaceInv`
  says that this is never less than what the data took, and that
  `cur_sec.remain` is at most what a reading of the sector would give.

`TSDB_proofs` also proves the other properties of `ts_calls` but for
`CallsReturn`, and `HasCurrent`, for all values of the constants, while the power
stays. The hypothesis is `Steady`: `MaxCrash = 0`, and who switches the rollover off does
not restart the database. Both halves are necessary. The first because a
power loss breaks these properties (`ts_format`, `ts_garbage`, `ts_same_time`,
`ts_hang`); `ts_crash` checks what holds of them after one loss before the ring
is full. The second because of `ts_no_sector`. A deinit and a new start
are steps of `Spec` under `Steady`, so the theorems are about the copies in RAM
and what a start reads back, too. The inductive invariant is
`SteadyInv == Types /\ OneInv /\ LogInv`, with

* `RingInv`: the current sector is the first one that was never full (`Young`),
  or the ring has come round and the oldest sector is behind it (`Round`);
* `HeldInv`: which sectors hold logs; `EndsInv`: a sector that is FULL, or about
  to be, has its first end node, and it names the last log;
* `OrderInv`: timestamps grow within a sector and from the oldest sector on,
  also while the oldest is being taken, when its logs are still there behind
  the newest; `last_time` is the greatest of them, and the log of the append in
  progress is later still;
* `CurInv`: what `cur_sec` and `last_time` say of the newest log.

From it follow **`LogsOrdered`** (`Ordered`), **`EndNodes`** (`EndNodesRight`),
**`CurrentThere`** (`HasCurrent`), **`AcceptedLater`** (`LaterOnly`),
**`NothingFormatted`** (`FormatsBlankOnly`), **`RefusedRightly`**
(`RefusedForReason`, with `RefuseInv` for the step before the refusal) and
**`CurrentTold`** (`CurAgrees`; the room left to the unit also needs
`RoomForEach` and `RoomInv`). **`CallsAtomic`** is `Spec => Atomic`: every
step of `TSDB` is a step of `TSLog` or changes nothing `TSLog` sees. A commit
adds the timestamp; the erasure of the oldest sector drops the earliest logs,
and not all of them, because of `OrderInv` and because the sector before is FULL
and therefore not empty (`HeldInv`); everything else leaves the set alone.

`TSQuery_proofs` proves under the same hypothesis what the iterators report, for
any number of sectors and logs, in every state between two calls:

* **`AllReported`**: `Spec => []IterExact`; **`StaleReported`**: `Spec =>
  []StaleBaseComplete`.
* **`RangeReported`**: `fdb_tsl_iter_by_time` from a timestamp to a later one
  reports exactly the logs between them, in order.
* **`RangeExact`**: `Spec => [](NoneFilled => ByTimeExact)`, both directions, where
  `NoneFilled` stands for `\A s \in Sector : HasTsl(s) => Room(s) > 0`. The
  condition is necessary: `ts_exact_fit` is the counterexample without it.

A report is a sequence that *lists* a set of timestamps in a given order
(`Lists`); two such sequences, one before the other in that order, join to one
that lists the union (`ListsJoin`), and `FlattenSeq` joins any number of them
(`FlattenLists`). What goes into it is `SteadyInv`: a sector lists its logs
(`VisitLists`), the ring leads through the sectors in the order of their logs
(`ForwardIs`, `BackwardIs`, `SectorsOrdered`), and a reading that starts at an
earlier oldest sector meets the ring again one step back (`StaleIter`).

The search by time needs more than `SteadyInv`: it decides by the start time in
a sector header and by that of `cur_sec` where the range begins. `HeadInv` says
that they are the time of the first log; it is inductive together with
`SteadyInv` (`HeadNext`), also between the write of the start time and that of the
first entry, and over restarts. `Left` is the invariant of the binary search:
the logs before `lo` are earlier than `from`, those behind `hi` are later, and
every round leaves fewer slots, so that as many rounds as there are slots
suffice (`LeftAll`). `SearchForward` and `SearchBackward` say where it ends.
The backward search may end at the free space behind the last log, which reads
as time 0; this is where a sector without free space goes wrong. `Reported` is
the invariant of the loop over the sectors: what the sectors so far hold of
the range is listed, and once the iteration has ended the others hold nothing of it.

`System_proofs` proves, for any number of tasks, databases, partitions and
locks and any assignment of locks to databases:

* **`PortExclusive`**: `Spec => []OneAtPort`, from `PortInv`: a task in ESP-IDF
  holds the port's semaphore.
* **`SectionsApart`**: `Spec => []SectionsExclude`, provided the application
  keeps its rules (`Orderly`). The lock alone is not enough, as `_fdb_kv_load`
  runs without it: `RuleInv` adds that whoever is inside a database, other than
  its one init, found it initialised, which it is not while it is loaded.
  `LockInv` says whose semaphore is taken. It does not say that one task at a time
  writes: the calls without a lock (`fdb_kv_iterate`, `fdb_tsl_set_status`)
  run and write next to a section under it.
* **`Partitioned`**: `Spec => []InPartition`, provided no address and size add
  up to more than 32 bits. The rounding of an erase stays inside because
  `fal_cfg.h` gives partitions of whole blocks.

`StatusTable` proves, for any table of up to eight statuses,
**`StatusRaised`** (a status write leaves the higher of the old and the new
status, that is `WriteStatus`) and **`StatusTorn`** (power lost while its bits
are programmed leaves a status between the two; writes that raise it by one are
therefore atomic). Up to eight, because with FDB_WRITE_GRAN 1 the mask of status
8, `0xff >> (8 % 8)`, clears nothing; the databases have four to six.

Three places of the models were changed for the proofs. `Commit` of `KVDB` said
where the call goes on in a CASE whose guards overlapped (the order of the C
code decides); it is an IF now. `Used` of `TSDB` sums the entries of a sector with a
recursive function, `Total`. The loops of `TSQuery` were RECURSIVE operators;
the binary search and the loop over the sectors are recursive functions
now, and the walk through a sector is a set of slots and the first one that is
out of the range. `TSDB` names as
`StatusAssumption` what its type always meant: the marks an application sets
with `fdb_tsl_set_status` are values of `fdb_tsl_status_t`.

Induction over data, which these proofs need for `FlattenSeq` and the two loops,
is done by hand: the least number of elements or rounds for which the claim fails
is not 0 and has no predecessor (`LeastNat`, as in `JoinsTo`, `HalvesTo`,
`ReportsTo`).

Left to TLC: liveness; and what one power loss leaves of the properties of
`KVMap_proofs` (`kv_crash`) and of those of `TSDB_proofs` that assume `Steady`
(`ts_crash`), which depends on how much space the loss wastes.

## 5. Not modelled

* bytes: the CRC polynomial, the search for a magic word inside a value, and
  `_fdb_continue_ff_addr`, which starts where the lengths of the records end
  and so finds erased flash at once unless something else wrote there;
* read, write and erase errors of the device, a torn erase;
* `fdb_kvdb_check` and the prints (reads under the lock), `fdb_tsl_query_count`
  (a callback of the search by time), the value read from an iterator's record
  after its call;
* a log handle kept across a rollover (`fdb_tsl_set_status`), callbacks that
  stop an iteration;
* two first calls of `fal_init` at once: `app_main` makes the first alone;
* file mode, RT-Thread FAL, the partition table on flash and
  `FDB_KV_AUTO_UPDATE`, which this port does not compile.

## 6. Plan

What is left, the most important first:

1. Proofs: what one power loss leaves of `MapInv`, with the wasted space as part
   of `RoomInv`.
2. `TSReaders`: a log handle that outlives a rollover (`fdb_tsl_set_status`).
3. `fdb_kvdb_check` as a function of the flash, next to what `_fdb_kv_load` accepts.
4. Failing flash operations: which calls report them.
