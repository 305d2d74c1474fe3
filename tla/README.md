# Formal models of WWU-CS

The repository collects the course work of a computer science degree. Four of its programs are
systems in the sense of this project - state that many operations share, and orders of those
operations that nobody wrote a test for:

- **Chickadee** (`src/CPTR352-LabProject/chickadee`), a multiprocessor teaching kernel in C++;
- **Minibase** (`src/CPTR420-DatabaseSystems`), the storage layer of a relational database in C++;
- **reveal.js** (`src/reveal-presentations/*/reveal.js-3.6.0`), the program in the browser that shows
  the presentations: a deck of slides with timers, media, overlays and plugins that talk to other
  windows and to servers. Two presentations hold the same copy of it (`CPTR210-Final` and
  `Senior-Project`; only `index.html` differs), the map names the second one;
- **Sprouts** (`src/Sprouts/sprouts.js`), a drawing game for two in the browser.

The rest are a chess board, one-file exercises, homework containers and documents. This directory models
the four in TLA+, checks the models with TLC, and proves part of what is checked with TLAPS. Paths
below are relative to the directory of the program they belong to.

## 1. Inventory

### Chickadee

| Component | State | Operations | Meets |
|---|---|---|---|
| Page allocator, `k-alloc.cc` | `pages[]`, `freeLists[]`, `page_lock` | `init_kalloc`, `kalloc`, `kfree` | every other part asks it for memory |
| Keyboard, `k-devices.cc`, `SYSCALL_READ` in `kernel.cc` | a ring of characters, `pos_`, `len_`, `eol_`, `state_`, `lock_` | interrupt handler, `consume`, read | interrupts of CPU 0 against readers on every CPU |
| Buffer cache, `k-chkfs.cc` | `bufentry e_[]`, one lock for the table, one per entry | `get_disk_block`, `put_block` | any number of tasks; the disk; `kalloc` |
| Processes and scheduler, `kernel.cc`, `k-cpu.cc`, `k-exception.S` | `ptable`, run queues, `current_`, saved registers, process states | boot, fork, timer, yield, pause, fault, `schedule`, `enqueue`, `resume` | CPUs share the table and each other's queues |
| Address spaces, `k-vmiter.*` | page tables | map, find, copy in fork | allocator, fork |
| Memory ranges, `k-memrange.hh` | a bounded sorted array | `set`, lookup | the allocator's start |
| Inodes and reading, `k-chkfs.cc` | inodes in cached blocks, `mlock`, `mref` | `get_inode`, `lock_read`, `lock_write`, lookup, read | buffer cache |
| Disk, `k-devices.cc` | command slots, `lock_`, `wq_` | `read_or_write`, `handle_interrupt` | buffer cache, interrupts |
| Journal replay, `journalreplayer.cc` | metablocks of a journal | `analyze`, replay | offline check of a disk image |
| Console, viewer, boot, hardware set-up, build tools, user programs | | | |

What is hard: CPUs interleave at every access outside a lock; interrupts are masked in the kernel
except in two windows (one instruction in `proc::yield`, the delay loop of `SYSCALL_PAUSE`); some
locks are taken while others are held; `assert` stops the machine; memory runs out.

### Minibase

| Component | State | Operations | Meets |
|---|---|---|---|
| Buffer manager, `src/buf.C` | frame table, pin counts, clock, frames | pin, unpin, new, free, flush | keeps the space map in its own pool |
| Space map and page I/O, `src/db.C` | bits of page 1, the file | allocate, deallocate, read, write | called by the buffer manager and calls it back |
| Heap files and scans, `src/heapfile.C`, `src/scan.C`, `src/hfpage.C` | linked pages, the directory, a scan's place | open, insert, delete, read, delete file, scan | pin and unpin; a scan keeps a pin between calls |
| Sort and sort-merge join, `src/sort.C`, `src/sortMerge.C` | runs, positions of two scans | passes, merge | heap files, scans |
| Sorted pages, errors, drivers, headers of a B+ tree | | | |

What is hard: one thread, but long sequences of calls against pointers that callers keep; calls that
fail half way; the map that says which pages exist is a page that can be evicted.

### reveal.js

| Component | State | Operations | Meets |
|---|---|---|---|
| Slides and navigation, `js/reveal.js` | `indexh/indexv`, the classes in the page, the fragments that are visible, `data-previous-indexv`, overview, pause, the auto-slide timer, the hash, what the controls, the progress bar, the number and the notes show | `slide`, `navigate*`, `navigateFragment`, `toggle*`, `configure`, `sync`, `setState`, handlers of keys, touch, wheel, mouse, hash and timers | every other component, by events or by calling `slide` |
| Media and backgrounds, `js/reveal.js` | `src` and play state of videos and frames, backgrounds | `loadSlide`, `unloadSlide`, `start/stopEmbeddedContent`, `updateBackground` | `slide`; load events that the browser sends in its own time |
| Start-up, `js/reveal.js`, `plugin/markdown` | scripts on their way, `scriptsToPreload`, `loaded`, the sections made of the text, the pages of a PDF | `initialize`, `load`, `start`, `setupPDF`, `slidify` | head.js, the window's load event |
| Overlays and player, `js/reveal.js`; `plugin/search`; `plugin/zoom-js` | the overlay there is, animation frames, matches and the place in them, zoom level | show, close, animate, search, zoom, pan | Escape, the overview, `slide` |
| Multiplex, notes window, notes server, `plugin/*` | the state each follower shows, whether it is connected | post, broadcast, connect, receive | messages between windows and over sockets |
| Layout, transitions, highlight, math, build, tests | | | |

What is hard: nothing runs in parallel, but every handler may come between any two others; timers and
load events come when what they were set for is gone; the page's classes are the state, and each handler
updates a part of it; followers hear of the master late or not at all.

### Sprouts

| Component | State | Operations | Meets |
|---|---|---|---|
| The game, `sprouts.js` | circles, paths, the path being drawn, `workcircles`, `oldcircles`, whose turn it is | `onMouseDown`, `onMouseDrag`, `onMouseUp`, `onKeyDown`, `pathsChecker`, `circlesChecker`, `gameoverChecker` | paper.js, which computes the crossings |

What is hard: a rejected stroke leaves part of its state behind; keys are pressed in the middle of a stroke.

### The rest

`Chess-Game` (rules of a move), `CPTR430`, `CPTR454`, `CPTR354` (single-run exercises, a lexer, a
generated parser), `CPTR456` (scripts of one socket), `CPTR242` (containers), `CPTR210` (reports).
`PROJECT.json` lists every component with the reason it is or is not modelled, and under `hazards` the
places where a test would hardly find what goes wrong.

### What makes each component correct

- Allocator: free lists end and hold each free block once; no page lost or handed out twice; `nullptr`
  only when no aligned run is free.
- Keyboard: the counters describe the ring; finished lines are read in order and can not be edited;
  a waiting reader is served.
- Buffer cache: a block is in one buffer; whoever holds it can rely on it; references are counted;
  every call returns.
- Scheduler: no process is lost or runs twice; a saved state exists exactly while a process is not
  running; a faulted process never runs; forks are atomic to others; everyone runs.
- Buffer manager: pins are counted, pinned pages stay, a victim is found, pages keep their values.
- Heap files: the links, the directory and the space map agree with the records inserted and deleted; a
  scan misses nothing; no page stays pinned.
- Deck: one slide is present; fragments appear in order; what is shown and enabled is true of the slide the
  deck is on; back undoes forward; the auto-slide goes on when nothing holds it; the hash names the slide.
- Media: what belongs to the slide plays once it is there, what does not is gone.
- Start-up: `start` runs once, after the scripts it needs; the text becomes its slides, each in its place.
- Widgets: a timer acts on what it was set for; a search goes through its matches.
- Followers: when nothing is on its way they show what the master shows.
- Sprouts: the board is legal after any strokes, and the game ends exactly when nobody can move.

## 2. Modules

| Module | Kind | Models |
|---|---|---|
| `KAlloc` | detailed | the buddy allocator with its intrusive free lists |
| `PageAlloc` | abstract | aligned runs of pages are taken and given back |
| `Keyboard` | detailed | ring buffer, handler, readers |
| `LineBuffer` | abstract | a queue of finished lines and a line being typed |
| `BufCache` | detailed | `get_disk_block` and `put_block`, two levels of locks |
| `Sched` | detailed | CPUs, run queues, process table |
| `BufMgr` | detailed | `BufMgr`, `Replacer`, `Clock`, the space map and the file of `DB` |
| `PageStore` | abstract | pages with values and pins, without frames or a disk |
| `HeapFile` | detailed, on `BufMgr` | heap files, the directory, scans |
| `Sections` | base | the columns, stacks and slides of a presentation |
| `Deck` | operators, on `Sections` | the state of one deck, and each function of reveal.js from a deck to a deck |
| `Reveal` | detailed, on `Deck` | one visitor: every handler of reveal.js as an action |
| `Mirror` | detailed, on `Deck` | several decks: master, clients, notes windows, servers, messages |
| `Media` | detailed, on `Sections` | videos, frames and backgrounds with their load events |
| `Loader` | detailed | scripts, markdown, start, PDF |
| `Page` | detailed, on `Loader` | overlays, player, search, zoom of a page that has started |
| `Sprouts` | detailed | the game |
| `KeyboardProofs`, `SchedProofs`, `MemoryProofs`, `MinibaseProofs`, `RevealProofs`, `MediaProofs`, `PageProofs`, `SproutsProofs` | proofs | of the module they are named for; `MemoryProofs` of `KAlloc` and `BufCache`, `MinibaseProofs` of `BufMgr` and `HeapFile`, `RevealProofs` also of `Deck` and `Mirror`, `PageProofs` also of `Loader` |
| `MC*` | TLC instances | values for the constants |

How they compose: `HeapFile` calls the operators of `BufMgr` as the C++ calls its methods, so each heap
file operation runs through real pins, allocations and write-backs. `Reveal` and `Mirror` are two
systems over the same `Deck`: in one a visitor works a deck, in the other the decks of several
windows follow one another. `Page` goes on where `Loader` has started the page. Between the other
modules only what they need of each other crosses: the allocator is in `BufCache` and `Sched` a step
that may fail (`NoMemory`, `KallocFails`), the disk in `BufCache` the step `DiskRead`, the way a slide is
reached in `Media` any slide at all, and the deck in `Page` the number of the slide.

### How state and actions correspond to the code

**KAlloc.** `mem.isFree/order/next` are `pageData_t`, `mem.head` is `freeLists`. `page_lock` is held from
the first to the last access of `kalloc` and `kfree`, so each is one action (`kalloc(sz)`, `kfree(p)`);
their loops are recursive functions: `ListEntry` walks a free list, `Round` is a turn of the `while` loop of
`coalesce` and `Level` one call of it, `SplitTop` one level of `split`'s recursion, and `1 << k` is `Pow2[k]`. `held` is what callers hold, no
state of the code.

**Keyboard.** `IrqEnter`/`IrqLock`/`IrqChar`/`IrqReturn` are `handle_interrupt`, one key per `IrqChar`;
`Read`/`ReadLock`/`ReadCheck`/`ReadCopy`/`ReadReturn` are `SYSCALL_READ` with `block_until`. The bodies of
`waiter::prepare`, `block`, `clear` and `wake` are empty in this kernel, so waiting is releasing and
retaking the lock (`ReadCheck` back to `"lock"`), with interrupts masked throughout.

**BufCache.** One task is one `get_disk_block` with its `put_block`. `pc` names the place:
`get` - search under `lock_` (`Find`, `NoRoom`); `ref`, `ref1` - `++ref_` (`LoadRef`, `AddRef`);
`switch` - take the entry's lock, release `lock_`; `load` - the flags (`Return`, `StartRead`, `AwaitRead`,
`NoMemory`); `reading`, `read` - the disk and `FinishRead`; `wait` - another task reads (`Relock`);
`held` - the caller's use; `drop`, `put`, `put1` - `put_block` (`Put`, `DropRef`); `unref`, `unref1` - `--ref_`
after `kalloc` failed, as it may at any time. Increments are a load and a store because this one is made without
`lock_`. `Serial` says of a state that this `--ref_` is not in the middle of another task's `++ref_` for the entry;
`Spec` is the code, `SerialSpec` its behaviours in which `Serial` is kept.

**Sched.** `at[c]` is where CPU `c` is: `user`; `pause` and `window`, the two places where the kernel
takes interrupts; `memshow`/`show`, the viewer in CPU 0's timer; `schedule`/`loop`/`pop`, the parts of
`cpustate::schedule`; `fork`/`alloc`/`copy`/`enqueue`/`push`/`made`, the parts of `proc::fork`
(`process_setup` ends with the last three, which is where CPU 0 starts); `panic`. A run queue is copied
to `q` when its lock is taken and written back when it is released, so a missing lock loses updates. `read` is
a system call that waits (`SYSCALL_READ`; a wait for the disk is alike): it spins with interrupts masked until
`EndRead`, which need never come.
`regs` and `yields` are the two saved states that `proc::resume` chooses from.

**BufMgr.** `bm` is the manager: `pageNo`, `pin_cnt`, `state_bit`, `head`, `pool` and `disk`. Each method is
an operator from `bm` to the next one and a status, and a method that calls another applies its
operator: `newPage` calls `allocate_page`, which pins the space map with `pinPage`, and so on. `bad` is the
page whose I/O fails in this call. `pins` and `held` are what callers hold.

**HeapFile.** Operators again: `insertRecord`, `deleteRecord`, `deleteFile`, `firstDataPage`, `nextDataPage`
with the walks along `next` that pin and unpin each page. An action is one call of the public
interface. `recs` and `due` remember what callers inserted and what a scan owes. `HeapSpec` has callers that
delete any record; in `CarefulSpec` they do not delete the only record of the file's first page or of the page a scan
stands on (`NeedsItsPage`).

**Deck and Reveal.** A deck is a record: the indices, the class of each section (`past`, `present`,
`future`, or both of the last two where the code leaves them), the visible and the current
fragments, `data-previous-indexv`, overview, pause, the auto-slide's delay, timer and
`autoSlidePaused`, the hash, the hash events on their way, and what the controls, the progress bar, the
slide number and the notes showed when they were last updated. The functions of the code are operators of
the same name: `Slide` is `slide()` with `UpdateSlides`, `ApplyStates`, `WriteURL`, `UpdateControls`,
`UpdateProgress`, `CueAutoSlide` in its order; `NavigateFragment`, `NavigateLeft` and so on call it as the code does.
`Dispatch` keeps the events a handler sends with the state at that moment, which is what followers hear. The
actions of `Reveal` are handlers from their first line to their last: `KeyMove` to `KeyEscape` are the
branches of `onDocumentKeyDown`, `Touch` is a gesture from touch start to touch end, `AutoTimer` and `HomeReset`
the two timers, `HashChange` the event that a write or a typed address left behind, `Api*` what scripts
and messages call.

**Mirror.** `master` and `client` are decks. `Post` puts the states a handler's events carry on the way to
the server (`toServer`), `Broadcast` relays what has the right secret to those connected (`toClient`), `Apply`
runs `setState` on the client's deck. The notes window is `notes` (closed, and the stages of its start)
with the interval that asks until it is answered (`ConnectInterval`, `OnConnected`) and its queue `toNotes`;
`remote` is the window that subscribes through the notes server, `Relayed` what that server passes on.

**Media.** `medium[e]` is one video or frame on a slide, or a background video: has its source, what the
browser has of it, has the start function as listener, was told to play last. `SlideTo` is `slide()` in its
order (load and unload by distance, stop the previous slide, start the current one, the backgrounds);
`Loaded(e)` is the event that comes when the browser likes.

**Loader and Page.** `Settle` is head.js telling that a script has run or failed, with the callbacks that
wait for its name, `Label` being what `load()` takes from a script's src and `File` what head.js does;
`RunsLate` is a script that runs after head.js gave it up; `Start` is `start()`; `Slidify` is the loop of `slidify` over a row of separators. In
`Page` each widget has its actions and its timers: `OverlayTimer` is the 1 ms timer of an overlay, `Frame` and
`OldFrame` the animation frames of the player and of those it replaced, `EngagePan` the 800 ms of the zoom.

**Sprouts.** The board is the circles, each with the number of line ends that meet it (`joins`) and its
colour; `pen` is the path that is being drawn, with the outlines it has crossed. `OnMouseDown`, `OnMouseDrag`,
`OnMouseUp` and `OnKeyDown` are the handlers, with the checkers they call. Where paper.js computes a crossing
or a hit, every answer it can give is a choice of the action. `workcircles` only decides where inside a circle
a path goes, and no action reads it; `Centred`, a part of `BoardLegal`, says which circle each of them belongs to.

## 3. What the runs check

| Run | Instance | States | Checked |
|---|---|---|---|
| `memory` | allocator: 8 pages, blocks of 1, 2 and 4 pages, page 0 reserved; cache: 2 tasks, 3 blocks, 2 entries, 2 buffers, `kalloc` fails at any time, `Serial` is kept | 108 k | `FreeListsSound`, `BlocksPartition`, implements `PageAlloc`; `RefCount`, `OneCopy`, `HeldBlock`, `GetReturns` |
| `sched` | 2 CPUs, 3 PIDs, pause, window, fault, fork and read, failing memory | 29 k | `NoProcessLost`, `Resumable`, `ShownComplete`, `FreshChild`, `EveryoneRuns` |
| `keyboard` | 2 CPUs, ring of 2, keys a, ^H, ^D, ^Q, \r and a modifier, reads of 0 and 2 | 81 k | `LineEnd`, implements `LineBuffer`, `ReaderServed` |
| `bufmgr` | 2 frames, 4 pages, runs of 1 and 2, 2 pins, failing reads of the space map | 112 k | `PinsCounted`, `PinnedStays`, `VictimIfUnpinned`, implements `PageStore` |
| `heapfile` | 5 frames, 3 data pages of 2 records, up to 5 records; careful callers | 353 k | `FileSound`, `ScanComplete` |
| `reveal` | 3 columns, two of them stacks of two, one with `data-start-indexv`, 3 fragments, 3 configurations | 22 k | `OnePresent`, `FragmentsInOrder`, `ProgressTrue`, `EnabledArrowsWork`, `PrevUndone`, `AutoSlideRuns`, `HashAgrees` |
| `page` | 2 synchronous and 2 asynchronous scripts, each in time, late or failing, texts of up to 4 separators; two widgets at a time; media: 4 slides with a video, a lazy video in a fragment, a frame and a lazy frame, and a background video | 147 k | `StartAfterScripts`, `SectionsCover`, `PagesComplete`, `TimersMatch`, `GetsReady`, `EnterVisitsNext`; `CurrentPlays`, `LazyFramesGone` |
| `mirror` | a master, a client, a stranger, two kinds of notes window, 3 slides | 209 k | `ClientsAgree`, `NotesAgree` |
| `sprouts` | games from 2 circles, to their end | 218 k | `BoardLegal`, `EndsWhenStuck` |
| `media_race` | the media of `page` | | `OnlyCurrentPlays` is violated |
| `bufcache_race` | the cache of `memory`, without `Serial` | | `RefCount` is violated |
| `heapfile_first` | as `heapfile`, any callers | | `NoPinsLeft` is violated |

`memory` and `page` check two modules each that share no variable: in a behaviour one of the two moves (`part`), and the
other stays where it started, so neither hides what the other does.

What a reader may not expect of the properties: `FreeListsSound`, `RefCount`, `PinsCounted`,
`LazyFramesGone`, `StartAfterScripts` and `TimersMatch` include the type invariant of their module;
`EnabledArrowsWork` says that an arrow shown as enabled moves the deck, but for two cases in which the code
shows the wrong one (right to left, and the loop's previous arrow, below) and for the only column of a deck that
loops, whose arrows lead to itself; `PrevUndone` says that next after previous is back on the slide, outside
the overview and where the author has not chosen (`data-start-indexv`) at which slide a stack is entered;
`ClientsAgree` and `NotesAgree` say what holds when no message is on its way. `TimersMatch` says that an overlay is
made visible by some timer, not by its own: the timer of a closed overlay acts on whichever is there, and
throws without one. The properties of the cache hold as long as `Serial` does; `GetReturns` promises that calls
return if the disk answers, and `EveryoneRuns` that processes run if no system call waits for ever: neither
premise is something the code sees to. `EndsWhenStuck` is about marks made while nothing is being drawn, and
`ImplementsPageAlloc` about the length that `kalloc`'s rounding gives (both below). `FileSound` and `ScanComplete` are about careful callers.

Each property of a passing run has a mutant in `PROJECT.json`: a plausible bug in one mapped definition
(`Mut...`, before the definition) under which that run fails. `MCReveal` also evaluates `SortedStays`: the
fragments' sorting, which runs again with every `sync`, changes nothing the second time.

### Findings

Each is a run that ends in a counterexample against a sentence of the repository.

- `media_race`: a slide is left before its video has loaded. `stopEmbeddedContent` pauses the video and keeps the
  listener; when the data comes the deck is on another slide of the same stack, `closestParent( event.target,
  '.present' )` finds the section of the stack (`reveal.js:3474`), and the video of a slide that is not shown plays.
  `README.md:828` of reveal.js says that media "are automatically paused when you navigate away from a slide".
- `bufcache_race`: `k-chkfs.hh:35` says that `lock_` protects every entry's `ref_`. When `kalloc` fails, `--ref_` is
  made under the entry's lock alone (`k-chkfs.cc:56`) while another CPU does `++ref_` under `lock_`; one of the two is lost.
- `heapfile_first`: the destructor of a heap file expects that no pages are pinned (`heapfile.C:134`). Deleting the only
  record of the first page pins INVALID_PAGE (390) and leaves it pinned, and the directory leads to a page that was
  freed.

### Observations

Noticed while modelling, settled by a look at the lines, and without a run of their own:

- Waiting (`k-wait.hh:56`): `waiter::block` is empty, so a wait spins with interrupts masked. A `SYSCALL_READ` on CPU 0
  waits for a line that CPU 0's keyboard interrupt would bring (`kernel.cc:291`, `k-init.cc:60`): it never
  arrives, and CPU 0's other processes never run again. The disk's interrupt goes to the last CPU (`k-init.cc:65`), with
  the same effect on a read of a block there; in this kernel `sata_disk` is never set (63), and `SYSCALL_READ` is
  the one wait a program meets. Hence the premises of `ReaderServed`, `GetReturns` and `EveryoneRuns`.
- Buffer cache: `get_inode` passes no cleaner, so `mlock` and `mref` have what the disk held (`k-chkfs.cc:205`).
- Scheduler: the child of a fork gets the parent's `%rax` (`kernel.cc:209`); the idle task is put back on the
  run queue and takes turns (`k-cpu.cc:106` against its comment).
- Allocator: `k-alloc.cc:162` promises "at least `sz` contiguous bytes"; the order is rounded down (167), so a size above
  a power of two gets a block that is too small. `test_kalloc` asks for `PAGESIZE + 4` (239) and is given one
  page, which it does not fill. `kfree(nullptr)` fails an assertion (203); no caller does it.
- Buffer manager: flushing a pinned page empties its frame (`buf.C:110`); after a failed write the frame has the
  new number and the old data (158).
- Heap files: `insertRecord` keeps a pin when the database is full (`heapfile.C:271`), which callers of the model do
  not reach; a scan whose next record was deleted stays on it (`scan.C:144`), as it does in the model.
- reveal.js: the wheel does not pause the auto-slide although `README.md:414` says that interaction does; a
  state class that a stack and its slide share is taken off when the slide is left (559); a loop enables the
  previous arrow on the first slide, where `navigatePrev` finds nothing to go back to; two synchronous scripts in
  files of one name (multiplex and the notes server both have a `client.js`) wake each other's callback (418), and the page
  starts with one of them missing, against 407, "Called once synchronous scripts finish loading"; a script whose src has a query
  never wakes its callback, since `load()` keeps the query (418) and head.js does not, so that a page with such a
  synchronous script never starts; the notes preview sends back the state it was
  given, which can undo a later move of the master (`notes.html:366`), and through the notes server always does
  so for the overview (`notes-server/notes.html:336`).
- Sprouts: `gameoverChecker` (`sprouts.js:289`) counts the crossings of the line that is being drawn, so that marking a
  circle in mid-stroke can end a game that goes on (168). The invisible circles are "centered in the visible
  circles" (76), but a rejected move leaves its own behind (354), and from the next accepted move on circles are
  paired with the wrong ones; `BoardLegal` says it up to then.

### Bounds, and why they are enough

- **memory**: with blocks of up to 8 pages, four orders are split and merged, a buddy can be free at the
  wrong order, and fragmentation makes a request fail with enough pages free; one of the sizes is no power of two. Both tasks of
  the cache ask for any block, again and again: they share an entry, one takes the other's
  over, an entry is stranded by missing memory, and there are more blocks than entries.
- **keyboard**: a ring of 2 wraps at every length and holds a finished line next to an unfinished one;
  `DevMax = 1` key waits in the controller, since the handler reads them one at a time. Reads of 2 are
  shorter and longer than lines; 0 is the special case of the code. The theorems hold for every size.
- **sched**: CPU 1 starts with two processes and CPU 0 with one; two of them fork, so that two forks meet with two
  PIDs left and with one. `Calls` gives each PID the calls it makes: between them they cover every call, and
  pause, window, fault and read meet fork on the other CPU. `NPROC = 4` has PIDs 1 to 3.
- **bufmgr**: 2 frames for 3 used pages and the map force an eviction in nearly every call; runs of 2
  pages make allocation search; `MaxPins = 2` makes the difference between one and more pins. Callers pin
  only page 2 besides the pins `newPage` gives (`CallerPages`); the database has one page of space map.
- **heapfile**: 3 data pages have a first, a middle and a last; 2 slots make a page that is full, partly
  filled and empty; 5 records fill two pages and start the third. With a frame for each page, nothing
  is evicted: eviction is `bufmgr`'s question, and the theorems about heap files hold with three
  frames, for a file of any length. `MaxRecs` keeps the database from filling up.
- **reveal**: a stack of two that is entered at its second slide (`data-start-indexv`), a stack of two, and a
  plain column after them give every direction a move that is possible and one that is not; two fragments of
  one group on a slide that has one below it, and one of its own on the last slide, give steps of two and of one.
  The three configurations pair loop, right to left, history and the kinds of auto-slide. `MaxEvents = 1` hash
  event waits: a second one finds the same hash. `MaxIndex` stands for Number.MAX_VALUE: larger than any
  index, with its own remainder. `Api configure` changes the auto-slide only.
- **page**: 4 separators make every neighbourhood of two separators; one script of each kind fails, is
  unwanted or comes late. The visitor's actions do not depend on the text, so they start from one text when
  all is well (`AllWell`), and at most two widgets are in use (`InUse`): Escape is the only key that two of
  them hear. `MaxFrames = 2` timers wait. The labels of the scripts differ (`LabelsMatch`,
  and see the observations). One slide has each kind of medium; the stack has the two kinds that race. With `ViewDistance = 2`
  the outer columns see each other only in the overview or a loop. Queued events are one per medium, as
  in the browser.
- **mirror**: at most two things are on their way to a follower (`FewPending`), which is enough for a later
  state to meet an earlier one; followers share nothing but the master, so one kind of them is there at a time
  (`OneAudience`); a stranger's post makes a difference only while a client listens (`StrangersHeard`). One window
  is asked to open at a time (`MaxOpeners`).
- **sprouts**: from two circles every game ends within five lines. `MaxCuts` and `MaxLeftovers` bound how many
  crossings and rejected circles are counted: the code only asks whether there is one. The pen stays at the place
  of the press while the mouse is dragged.

Assumptions on callers, each named in its module: callers of `kalloc` ask for a page or more (`Sizes`; in `memory` one
page, a byte more than two, and four); callers of the buffer manager unpin what they pinned and flush with nothing pinned
(`system_defs.C:99` and the destructor); callers of a heap file close it and delete it with no scan
open. The careful callers of `CarefulSpec` do not delete the only record of the first page or of the page the scan
stands on; that is no guard of `DeleteRecord`, and `heapfile_first` has callers that do.

### Fairness

- **Keyboard**: the CPUs' steps inside a critical section are weakly fair: a CPU in the kernel keeps
  executing. Taking the spinlock, which is released again and again, is strongly fair, and so is the
  delivery of the interrupt: it stays pending in the controller while the CPU masks it. That a program
  leaves user mode, or that anyone presses a key, is not assumed.
- **BufCache**: weak fairness of each task's steps, strong fairness of those that take a lock. The disk's answer
  is not assumed - whether its interrupt reaches the CPU depends on who waits - but the premise of `GetReturns`; a
  task that holds a block need not ever put it back, and nobody need ask for one.
- **Sched**: weak fairness of each CPU's kernel steps, strong fairness of the timer (it is delivered
  whenever interrupts are enabled), of the step with which a fork takes a lock or gives up, and of leaving the
  windows where interrupts come in, for each process. That a read's input comes is not assumed. The test-and-set lock of `k-lock.hh` does not
  promise that a waiter wins; the comments at `Fairness` say where that matters. Programs need not call
  anything.
- **Loader**: a page calls `initialize`; queued events are handled; head.js gives a script up after seven
  seconds, so every script settles. That is what `GetsReady` needs, and no script need succeed.

The other modules have safety only: nothing makes a visitor, a player or a caller act.

Deadlock is checked except in runs where the system may stop: the keyboard's power-off key
(`keyboard`), a panic (`sched`), a page nobody touches once it is printed (`page`), and the end of
the game (`sprouts`).

## 4. What is proved

With TLAPS, for every value of the constants the assumptions admit:

| Theorem | Statement |
|---|---|
| `KeyboardTypes`, `KeyboardMutex`, `KeyboardLineEnd` | `Spec => []TypeOK`, `[]LockHeld`, `[]LineEnd` |
| `KeyboardIsLineBuffer` | `Spec => ImplementsLineBuffer`, the refinement of `LineBuffer` |
| `SchedTypes`, `ViewerSeesComplete` | `Spec => []TypeOK`, `[]ShownComplete` |
| `ChildIsFresh` | `Spec => FreshChild` |
| `NoneLost`, `OneSavedState` | `Spec => []NoProcessLost`, `[]Resumable` |
| `KallocListsSound`, `BlocksAlwaysPartition` | `KallocSpec => []FreeListsSound`, `[]BlocksPartition` |
| `KallocIsPageAlloc` | `KallocSpec => ImplementsPageAlloc`, the refinement of `PageAlloc` |
| `RefCountUnlessRace`, `OneCopyUnlessRace`, `HeldBlockUnlessRace` | `Spec => []RefCount \/ <>~Serial`, and so `OneCopy`, `HeldBlock` |
| `ManagerSound` | `Spec => []IInv`, the inductive invariant of the buffer manager, with `ReadFaultsOnly`, as the four below |
| `PinsAreCounted`, `PointersStay`, `ClockFinds` | `Spec => []PinsCounted`, `[]PinnedStays`, `[]VictimIfUnpinned` |
| `ManagerIsStore` | `Spec => ImplementsPageStore`, the refinement of `PageStore` |
| `HeapSound` | `CarefulSpec => []HeapInv`, the inductive invariant of heap files, with `EnoughFrames` and `PagesSuffice`, as the two below |
| `FilesStaySound`, `ScansReturnAll` | `CarefulSpec => []FileSound`, `[]ScanComplete` |
| `AlwaysSound` | `Spec => []IInv`, the inductive invariant of the deck |
| `OneIsPresent`, `FragmentsOrdered`, `ProgressIsTrue` | `Spec => []OnePresent`, `[]FragmentsInOrder`, `[]ProgressTrue` |
| `ArrowsWork`, `StepsUndone` | `Spec => []EnabledArrowsWork`, `[]PrevUndone` |
| `TimerTrue`, `UrlTrue` | `Spec => []AutoSlideRuns`, `[]HashAgrees` |
| `AlwaysFollowed` | `MirrorSpec => []Followed`, the inductive invariant of those who follow |
| `ClientsFollow`, `NotesFollow` | `MirrorSpec => []ClientsAgree`, `[]NotesAgree` |
| `LazyFramesGoneAlways`, `CurrentPlaysAlways` | `MediaSpec => []LazyFramesGone`, `[]CurrentPlays` |
| `TimersMatchAlways` | `PageSpec => []TimersMatch` |
| `EnterVisitsNextAlways` | `PageSpec => EnterVisitsNext` |
| `ScriptsBeforeStart` | `PageSpec => []StartAfterScripts`, with `LabelsMatch` |
| `SectionsAlwaysCover` | `PageSpec => []SectionsCover` |
| `PagesAlwaysComplete` | `PageSpec => []PagesComplete`, with `LabelsMatch` and `MarkedFirst` |
| `BoardAlwaysLegal`, `AlwaysEndsWhenStuck` | `Spec => []BoardLegal`, `EndsWhenStuck` |

**Keyboard** (any number of CPUs, a ring of any size, any keys and read sizes). From
`KeyboardAssumption` alone. The conjunction of the three invariants is inductive. `LineEnd` needs
`LockHeld`, because a reader that consumes and a handler that stores or erases would otherwise
interleave inside one another, and `TypeOK`, because positions are taken modulo `N`; the lemmas before
the invariant say what storing, erasing and consuming do to the characters of a ring. Those lemmas are also what
the refinement needs: the finished and the unfinished line of `LineBuffer` are stretches of the ring, and
`LineNext` maps a stored, erased or consumed character to the step of `LineBuffer` that does the same to a
sequence, a read that returns to the step that takes the characters, and every other step to a stutter.

**Scheduler** (any number of CPUs and of slots in the process table, with or without memory). From
`SchedAssumption` alone. `ShownComplete` and `FreshChild` are not inductive: that a process in the table
is initialized depends on which CPU is in the middle of a fork. `IInv` adds:

- `Located`: a CPU inside a fork has chosen a PID, and one that executes a process has one;
- `Locked`: whoever works on the table - or panicked while doing so - holds `ptable_lock`;
- `Staged`: a PID outside the table is blank; one in the table is blank only while the fork that chose
  it is between entering and initializing it, or stopped there;
- `Alive`: a process that executes is not blank, so a page fault never makes one out of nothing.

The viewer in `show` and the fork of a blank process in the table both hold the lock, so they are the
same CPU, which cannot be in both places: that is `ViewerSeesComplete`. `Staged` at `copy` is
`ChildIsFresh`.

`NoneLost` and `OneSavedState` ask where a process is: on a run queue, on a CPU, or in the hands of a step.
`Placed` says it for every place, and is inductive together with `IInv`: a run queue is changed under its lock
(`RunqLocked`); every CPU has its idle task (`Homed`); a process is in one place and there once (`Once`), and in
the table (`Known`); what is not in the table is in no place (`Absent`), and what is, is in one (`Present`);
a process that waits has one saved state and one that executes has none (`Saved`), and what executes is
runnable (`Runs`). `Once` needs `Locked`: two forks would otherwise put one child on two queues. That `None` is neither a
process nor a CPU is the one assumption that the code's null pointer needs.

**Page allocator** (any number of orders, any available memory, any sizes). From `KAllocAssumption` alone. The links of
the free lists are related to lists of pages first: `ListIs(m, o, e, n)` says that the list of order `o` has the `n` pages
`e[0]`, ..., `e[n-1]`, each once, and that these are the free pages of that order. `PushList`, `Pops` and `Removes` say what
pushing and unlinking do to such a list, also in its middle, and that the lists of other orders, which are threaded through the same
array, do not change. Then the blocks: `Tiles(L, ord, A)` says that the blocks the pages `L` lead, each aligned to its
width, are disjoint and make up `A`; a block may be replaced by its two halves, and two buddies by their union
(`Cut`, `Join`). `Sound(m, H, A)` is both, for the free blocks together with the blocks `H` that are held. It is what every step
inside the code keeps - `Push`, `removeFromFreeList`, `Merge`, `SplitTop` - and so what the loops keep (`Recursion`,
`UpTo`: a least turn at which it would fail). The refinement needs one thing more: after every call no two free buddies have
one order (`Merged`), because `coalesce` goes through the orders from below and merges all there are. `KallocInv`, `Sound` for
the blocks that callers hold and `Merged`, is inductive. From `Merged` follows `NoRunLeft`: were an aligned run of unused
pages made up of free blocks smaller than it, then the buddy of the smallest of them would be in the run too, with no smaller
block in it, and so be free with the same order. One free block therefore holds the run, and `kalloc`, which looks at the
lists of its order and all above, finds it. A block handed out is a run of `PageAlloc` (`RunsOf`,
`HandedOut`), and `kfree` looks up in `held` what to give back. That a
page's `order` is true of the block it leads is part of it: a stale order on an inner page does no harm, because only pages
that lead a block are free or held.

**Buffer cache** (any number of tasks, blocks, entries and buffers). From `BufCacheAssumption` alone. Each theorem has
the form `Spec => []P \/ <>~Serial`: a behaviour of the code keeps `P`, or at some time a task is in the middle of the
unlocked `--ref_` while another is in the middle of `++ref_` for the same entry. `bufcache_race` shows that the second case is
there; the theorems show that it is the only way to go wrong. Every step keeps the invariant as long as `Serial`
does (`NextPreserves`); its parts hold only together:

- `Locks` and `Serving`: who changes the cache holds `lock_`, or an entry's lock for that one `--ref_`, so what a
  task has loaded of `ref_` is current when it stores it; and a task that has found its entry finds its block there,
  because the last reference is the only one that empties it (`OneReference`), and while a reference is undone
  the entry has no buffer, so that `put_block` does not find it;
- `Flags` and `Reading`: a block is read by one task, into a buffer that no entry that is loaded has;
- `Distinct` and `Kept`: buffers and blocks are in one entry, so `put_block`, which looks for the buffer,
  finds the entry that `get_disk_block` used;
- `Holding`: what a task holds stays loaded; `Counted`: `ref_` is the number of tasks that have a reference.

`CountUp` and `CountDown` say what a step does to the number of holders, from the library's facts about
cardinality; there is one lemma per action.

**Buffer manager** (any number of frames and pages, any callers). From `BufMgrAssumption` and `ReadFaultsOnly`:
reads may fail, of any pages at any time; writes do not, because after a failed write a frame has the new page's
number and the old page's data (`buf.C:158`). The model's operations are whole methods, that pin and unpin pages
of their own, so the predicates speak of a count `cnt` of pins that need not be the callers': `MgrOK` says that
the frames' pins are `cnt`, that the clock's bits agree with them, that a page is in one frame and that a page
somebody has pinned is in one. For each method there is a predicate of what it
does (`PinPageDoes`, `SetBitsDoes`, `AllocateDoes`, `NewPageDoes`, `FreePageDoes`), which holds from any
state that is `MgrOK`. `IInv` adds what holds between operations: no caller has the space map pinned, pages
in the pool are in use, and what callers hold points at the frame of their page. The refinement needs all of it: a
page's value is in its frame or on the disk, and only `WritePage` and `newPage` change it.

- The sweep of the clock is a recursive function over its turns. An equation for it is proved by taking the least
  turn that would have none (`Least`, from the library's well-founded order on the naturals); after two
  rounds a frame that nobody pins has lost its reference bit and is taken (`HandTurns`, `SweptIs`, `VictimIs`).
- `newPage` allocates, which leaves the space map unpinned in a frame, so that the `pinPage` after it always finds a
  frame, and the branch that gives the pages back is never reached: that is how the refinement's `NewPage` can
  promise a page whenever allocation succeeds.

**Heap files and scans** (any number of pages and slots, files of any length). About `CarefulSpec`, from `BufMgrAssumption`,
`HeapFileAssumption`, `EnoughFrames` - three frames: the page a scan has pinned, and the two that `insertRecord` pins when it
links a new page - and `PagesSuffice`: the records that are inserted fit into the pages there are, because a page
that cannot be allocated leaves the last one pinned (`heapfile.C:274`). No I/O fails, so what a method does is what it does
to the values of the pages (`Values`), the pins, and the frames of pages that are pinned: `Becomes` says all three, and
a step of the manager may evict any page that has no pin.

- `FileIs(v, n, ps)`: the values `v` are those of a file with the `n` pages `ps`, no page twice, each linked to the next; the
  directory has the first; the space map has these pages and no other; only the first may be empty. What an
  operation does to the file is an operation on the list: `Extended` adds a page at the end, `Reslotted` changes the records of
  one, `Shortened` cuts one out. `NotFull` counts pages and records: when no page has room, one is not in use.
- Every operation begins with a walk along the list (`WalkIs`), which pins one page at a time; its pin is over when it
  moves on.
- `ScanIs`: the scan is on a page of the list, in the frame it points to, and each record it has yet to return is
  on a later page, or on this one at its slot or behind it. `ScanFollows` keeps that when the list changes under the
  scan: pages keep their order, and a page that is cut out has neither the scan nor a record that is due. That is where
  the care of `CarefulSpec`'s callers is needed.
- `HeapInv` puts these together. `FileSound` needs besides that `num_pages` turns along the links reach every page
  (`FilePagesAre`).

**Deck of reveal.js** (any columns and stacks, start indices and fragments, any configurations). From
`SectionsAssumption`, `DeckAssumption`, `RevealAssumption` and `MaxEventsAssumption`. `Steady` is what
every handler leaves: only the current slide is marked as present, the fragments before it are shown and those
after it are not, progress, arrows, number and notes are those of the slide (`Shows`), and with history the
address is its hash unless an event is on its way (`UrlOK`). `slide()` establishes all of it from
a weaker state (`Ready`); the other functions keep it, and each action of `Reveal` is a composition of them. Two
properties are about what a move would do next, from any state that is `Steady`:

- `ArrowsWork`: an arrow is enabled by `availableRoutes`, and each navigation function goes where it says
  (`SideMoves`, one lemma per direction and one for the fallbacks of `navigatePrev` and `navigateNext`).
- `StepsUndone`: previous hides a group of fragments, goes a row up, or a column back to the row the stack
  remembers; in each case next takes the branch that undoes it (`FragmentUndone`, `RowUndone`, `ColumnUndone`).
  The proof shows why a start index and the overview are excluded: there next enters a stack elsewhere.

**Followers** (any presentation, any configurations of the master and of the clients, any number of clients, any
strangers with ids of their own, any states from the speaker). From the assumptions of the deck and
`MirrorAssumption`. Two facts about the functions of a deck come first:

- `Tells`: after every function that a handler calls, the last event that was sent carries the state the deck has now,
  and without an event the state is what it was. An event is sent in the middle of a handler, so this says that no
  handler changes slide, fragment, pause or overview after the last event it sends (`SlideTold`, `FragmentTold`, `OverviewTells`,
  `PauseTells`, and one lemma for each navigation function).
- `SetStateGives`: a deck of the same presentation that is given the state of another deck has that state afterwards,
  whatever it showed before, although the slide, the fragments, the pause and the overview are set one after the other.

`ClientsAgree` is only about moments when nothing is on its way. `Followed` says what is on the way at any moment: the
last of the master's own posts to the server has the master's state; when none is there, a client that did not miss the
last post has it last in its own queue, or has applied it and not strayed since. Strangers' posts lie between them and
are not looked at, so the queues are spoken of by their last own post (`LastIs`, `NoneOf`) and not by their end. A client
hears nothing with the master's id that is not the master's (`HeardIsOurs`), because the server compares the secret.
`NotesAgree` is alike, with the window's queue.

**Media** (any row of columns and stacks, any media on them, any view distances, with and without a
loop). From `SectionsAssumption` and `MediaAssumption`. Neither property is inductive. `CurrentPlays` speaks of media
that have loaded; `Plays` adds that one that has not yet loaded has its listener (`Started`). Opening the
overview loads slides, and a lazy medium without a source would start to load anew: `Sourced` says that
what is current has its source, which `CurrentNear` gives - a slide is always within the view distance of
itself, also when distances are taken modulo the width in a loop. `Lazy` is `LazyFramesGone` itself. One
lemma for each function (`Loads`, `Starts`, `Stops`, `Updates`) says what it does to the three
parts, and one for each action puts them in the action's order: in `SlideStep` the page of a
lazy frame is gone when the previous slide is stopped, before the current one is started.

**Page** (any slides, words, matches and number of waiting timers). From `PageAssumption`. `TimersMatch` is
inductive; `EnterVisitsNext` needs that the place in the list of matches is never behind its end (`Placed`),
which every new search restores because it starts at the first match. One lemma per widget. The theorems are
about `PageSpec`, in which all widgets may be used at once; `MCPage` explores a part of it.

**Start-up** (any list of scripts, any of them asynchronous, unwanted or failing, any texts). From
`LoaderAssumption`, and from what a page's list of dependencies is asked for:

- `LabelsMatch`: a script wakes its own callback and no other: no two have one file name, and no src has a query. Two of
  one name would wake each other's callback and the page would start with one script missing; with a
  query a script wakes nobody's. `LoadInv` is its inductive form: until the start, the count is the number of scripts that are requested and
  not yet settled, so the callbacks of the synchronous scripts bring it to zero; after it the count is not positive
  and every call lowers it, so it never reaches zero again.
- `MarkedFirst`: marked and markdown are synchronous and in this order, as the README asks. `requested` is in the
  order of the list (`InOrder`), so markdown settles after marked and before the start (`MarkdownWaits`), and `Printed`
  follows: whichever of `start()` and the load event is last finds the sections. Scripts that run late change
  nothing then, as those that matter came in time.

`SectionsCover` needs neither: `Made` says what the sections of the first pieces are, `Begins` and `Joins` that a
turn of slidify's loop keeps it. The loops of `load`, of `slidify` and of `FlattenSeq` are
recursive functions; `Recursion` proves that a step repeated from a base gives a function, and `UpTo`, from the least
number at which something would go wrong, what holds of all its values.

**Sprouts** (any number of circles). From `SproutsAssumption`. `BoardLegal` (with `Centred`, which pairs the circles
with their invisible ones) is not inductive: until the game is over the
turn is the number of lines (`Played`), a dead circle is not brown and so is not marked again (`Marked`), and a pen that is up
has no path (`PenUp`). What decides the end is a sum over circles and paths. `Total` counts pairs of a place and a number, so
that sums are cardinalities: `TotalAdds` is a bijection between two sets of pairs, `TotalChanges` and `TotalAppends` take one place
away. A line takes two ends and its circle brings one (`OneEndLess`), hence after `3n - 1` lines at most one is left; and
`StuckIs` adds room, crossings and dead circles up place by place to show that the two equations of `gameoverChecker` say
that fewer than two ends are left.

TLC checked each inductive invariant on the instance of the run before it was proved. The proof of each
invariance has one step per action.

**Only model-checked.** Liveness (`ReaderServed`, `GetReturns`, `EveryoneRuns`, `GetsReady`): fairness and
ENABLED are out of the prover's reach. Induction as a rule cannot be used, because the library's
induction theorems take an operator as a parameter; where a recursive function had to be reasoned about (the
sweep of the clock, `slidify`) the proof takes a least counterexample instead.

## 5. Not modelled

Within the modelled components:

- Chickadee: what programs compute and fork's return value; address spaces; the loader; `bufcache`'s
  cleaner (no caller passes one).
- Minibase: several pages of space map; a crash between two page writes (there is no recovery to
  check); the bytes inside an `HFPage` - a record is its page and slot, all of one size; `updateRecord`'s
  contents; `Scan::position` and `peekNext`; temporary files; directories of several pages; failing
  writes.
- reveal.js: a callback of a dependency's own, which may throw before the count is lowered; sizes, transforms, transitions and parallax; shuffle; custom key bindings; full screen; sections
  that scripts add or move; images, YouTube and Vimeo; attributes and
  notes in markdown, and markdown in files of its own; which words the search marks; where a zoomed page is; the
  echo of the notes' previews, strangers on the notes server, and posts to it before a window is there.
- Sprouts: the geometry; which strokes cross is any outcome. `EndsWhenStuck` is about marks between strokes;
  what a mark in mid-stroke does is an observation.

Components not modelled, with reasons, are in `PROJECT.json`. The larger ones are Chickadee's address
spaces, inodes, disk driver and journal replay, and Minibase's sort and join; they are
independent of what is modelled but for the steps named in section 2.

## 6. Plan

Done, in this order: allocator, keyboard, buffer cache, scheduler, buffer manager, heap files; the proofs of
the keyboard and of the process table's lock; the deck of reveal.js, its media, start-up, widgets and followers;
Sprouts; the proofs of the media, of the widgets and of the buffer cache; the proofs of the whole scheduler, of the
keyboard's refinement, of the buffer manager and its refinement, of the deck, of those who follow it, of the start-up, of Sprouts, of the heap files, and of the page allocator and its refinement.

Proofs worth adding: the buffer manager with writes that fail, whose invariant has to say which frames have the
number of one page and the data of another.

Models worth adding: the merge of two sorted files as a function of two sequences, against the bag join,
with duplicates on both sides (`sortMerge.C:88-133`); which metablocks of a journal are replayed, with
transaction numbers modulo 2^16 (`journalreplayer.cc:177` and `221` compare them differently);
`memrangeset::set` against a function from addresses to types; readers and writers of an inode through
`mlock`; one command slot of the disk with its waiters and its interrupt.
