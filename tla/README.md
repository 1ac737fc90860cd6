# A verification development of pylcs and its C library

The repository is a small Python extension (`src/main.cpp`,
`src/longestCommonSubsequence.hpp`) and the C library it takes its `diff`
from, libmba 0.8.10 (`libmba-0.8.10/src`, 25 C files). This directory holds TLA+
modules of the two, TLC configurations for small instances, and proofs for
TLAPS. Line numbers in comments are those of the file a module names in its
header.

```
tlc  -config svcond_safety.cfg MCSvcond.tla     # one run; PROJECT.json lists them
tlapm SvcondProofs.tla                          # the proofs of one module
```

## 1. Inventory

| Component | State | Operations | Used by / uses |
|---|---|---|---|
| svcond (`svcond.c`) | three semaphores, two counters in shared memory | create, wait, signal, broadcast, destroy | client processes; uses svsem, svsem pool |
| svsem (`svsem.c`) | kernel semaphore sets, found by the inode of a file | open, create, wait, trywait, post, post_multiple, getvalue, setvalue, close, remove, destroy | svcond, clients; uses copen |
| svsem pool (`svsem.c`) | one set of many semaphores behind a pool | create, destroy, `_svs_new/_del/_rst` callbacks | svcond_create; uses pool, varray |
| pylcs (`main.cpp`) | none between calls | `lcs`, `lcs2`, `lcs_matrix`, `lcs_string`, `levenshtein_distance` (also `edit_distance`), the `_of_list` forms, `diff` | Python callers |
| lcs3 (`longestCommonSubsequence.hpp`) | one bit vector | Hirschberg's recursion | pylcs |
| diff (`diff.c`) | a varray with two interleaved tables, the edit script | diff, `_ses`, `_find_middle_snake` | pylcs' `diff` binding; uses varray |
| pool, bitset (`pool.c`, `bitset.c`) | a stack of elements, which are unused | get, release, iterate, clean | svsem pool |
| stack (`stack.c`) | a growing and shrinking array | push, pop, clear, clean, iterate | pool, eval, domnode |
| linkedlist (`linkedlist.c`) | nodes and two cached positions | add, insert, insert_sorted, get, remove, remove_last, remove_data, iterate | cfg, domnode, clients |
| hashmap (`hashmap.c`) | open addressing table with deleted marks, prime sizes | put, get, remove, resize, iterate | clients; uses allocator |
| suba, allocator (`suba.c`, `allocator.c`) | a circular free list in a block of memory | alloc, free, realloc | all containers, shared memory |
| varray (`varray.c`) | 16 bins of doubling size | get, release, iterate | diff, svsem pool, eval, pylcs wrapper |
| csv, path, eval (`csv.c`, `path.c`, `eval.c`) | a parser's position and state; eval's two stacks | one parse each | clients; eval uses stack, varray |
| cfg (`cfg.c`) | a list of lines | load from a file, a string, the environment, a query string; store, get, iterate | clients; uses linkedlist |
| msgno (`msgno.c`) | a table of lists of messages | add_codes, msg | every module's error messages |
| domnode (`domnode.c`) | a tree | load, store, attributes | clients; uses stack, linkedlist, Expat |
| shellout (`shellout.c`) | a pseudo-terminal and a child process | open, expect, loop, close | clients |
| text, mbs, daemon, time, hexdump | none worth a state machine | string copying, wrappers | |

All but the last row are modelled. How they interact: svcond is built of svsem
operations on semaphores it gets from an svsem pool, the pool is built of pool,
bitset and varray, and both may live in memory that suba manages and several
processes share. cfg and domnode keep their elements in linked lists, eval and
domnode their operands and open elements in stacks. diff keeps its two tables in a varray. The Python extension
calls diff through two wrappers and its other functions directly.

What is hard in each, and what makes it correct:

* **svcond**: many processes interleave between any two semaphore operations;
  a counter is read before the gate is closed and changed after; a semop may be
  interrupted (EINTR) or its process killed (SEM_UNDO). Correct means: mutual
  exclusion of the inner mutex and of the gate, no lost update of a counter, no
  lost, invented or stolen wakeup, every call returns, and the caller's lock is
  given up and taken back exactly once.
* **svsem**: creating and initializing a semaphore are two steps that other
  openers, removers and kills come between. Correct means: who opens gets an
  initialized semaphore, nobody's post is overwritten, the call returns.
* **pylcs, lcs3**: three dynamic programs and a recursion against the textbook
  definitions, with characters of several bytes and empty arguments.
* **diff**: stale entries of an uncleared table, parity and sign conditions,
  the overlap test, base cases of the recursion, a limit on the distance.
* **svsem pool, pool, bitset**: an element is handed out once at a time and put
  back in the state a new user expects; destruction in the right order.
* **stack, linkedlist, hashmap, varray**: each is an abstract sequence, map or
  array whatever the growth policy, the cached positions or the deleted marks.
* **suba**: cells neither overlap nor get lost, free neighbours are merged.
* **parsers** (csv, path, eval, cfg, domnode): the state and the bounds at
  every character, and what is accepted is what was written.
* **shellout**: the alarm against the read it interrupts and against calls it was
  not meant for; a match buffer that wraps and that is also read into.

`PROJECT.json` lists all of these under `components` and the hazards, line by
line, under `hazards`.

## 2. The modules

| Module | Models | Notes |
|---|---|---|
| `CondVar` | what a condition variable promises | abstract: owner of the lock, who waits, wakeups granted and not taken |
| `Svcond` | svcond_wait, svcond_signal, svcond_broadcast | one action per semop and per load or store of `waiters_blocked` |
| `MCSvcond`, `SvcondProofs` | its instances (interrupt sites, symmetry) and theorems | |
| `SvsemOpen` | svsem_open with copen and semid_get, and wait, post, close, remove | one action per system call |
| `MCSvsemOpen`, `SvsemProofs` | its instances and theorems | |
| `Hirschberg` | longestCommonSubsequence.hpp | pure operators |
| `SeqRef` | the textbook definitions | subsequences and distances by quantifiers, no recursion shared with the code |
| `Pylcs`, `MCPylcs` | the functions main.cpp exports | uses Hirschberg, extends SeqRef, which it is checked against |
| `PylcsProofs` | theorems about Pylcs: the tables, and `lcs_string` | |
| `Diff`, `MCDiff`, `DiffProofs` | diff.c, its instance and theorems | one action per diagonal and per turn of `_ses` |
| `Stack` | stack.c | against a sequence |
| `LinkedList` | linkedlist.c | nodes, links and the two cached positions, against a sequence |
| `HashMap` | hashmap.c | the table slot by slot, against a map |
| `Varray` | varray.c | bins, against an array |
| `Suba` | suba.c | cells and the circular free list, byte offsets |
| `SvsemPool` | pool.c on bitset.c, the pool callbacks of svsem.c, svcond_create and svcond_destroy | composes four files |
| `Msgno` | msgno.c | the codes of the callers' lists, against their places |
| `Containers` | the seven above together | `which` names the one a behaviour exercises |
| `MCContainers`, `ContainersProofs` | its instance and theorems | |
| `PathCanon`, `Csv` | path.c, csv.c | one action per character |
| `Eval` | eval.c | one action per turn of the precedence parser |
| `Cfg` | cfg.c | lines as sequences of kinds of characters |
| `Domnode` | domnode.c | documents as sequences of Expat's events |
| `Parsers` | the five above together | `which` names the one a behaviour exercises |
| `MCParsers`, `ParsersProofs` | its instance and theorems | |
| `Shellout`, `MCShellout`, `ShelloutProofs` | shellout.c, its instance and theorems | caller, program, user and alarm |
| `Lemmas` | no code: remainders, least elements, induction, SeqRef's definitions | shared by the proofs |

### Svcond

`lock`, `blocked_lock`, `unblock_lock`, `block_queue` are semaphore values,
`waiters_blocked` and `waiters_to_unblock` the fields of `struct svcond`; `pc`,
`reg`, `signals`, `broadcast`, `back` the locals of each process. A process
calls svcond_wait with the lock held (`CallWait`), and svcond_signal or
svcond_broadcast with or without it (`CallSignal`), as the documentation
allows. Actions are named for the line: `WaitGate` is the `svsem_wait` of line
99, `WaitInc` and `WaitIncStore` the two halves of line 103, and so on. An
update made while `blocked_lock` is held is still two actions, because
line 108 changes the same counter without holding it. `...Eintr` actions are
the error paths: only a semop that would sleep is interrupted. `Crash` kills a
process at any point; the kernel then undoes its operations on `unblock_lock`,
the only semaphore created with SEM_UNDO. `kept` records the processes that
returned through line 168 with `unblock_lock` held.

### SvsemOpen

`file` is the file of the path, `current` the set its key leads to, `sets` all
sets ever created: a semaphore's value, whether `sem_otime` is set, and three
history fields the properties need. A process chooses the oflag, goes through
copen (`Copen`, `CopenExcl`), `ftok`, the semgets (`Attach`, `Get`, `GetNone`,
`Create`, `CreateExists`), the poll for `sem_otime` (`PollReady`, `PollAgain`),
the creator's `SetVal` and `InitOp`, or `OpenFails`. One variable per local:
`mode`, `semid`, `max`. The inner loop reuses `max` and never goes back to the
outer one, so one variable serves both.

### Hirschberg, Pylcs

A string is a sequence of bytes of which only the identity matters and whether
it continues a UTF-8 character. A behaviour is one exported call; `Compare`
appends the result of one element of the list, as the `_of_list` functions do.
`lcs_string` works on bytes in the code and does so in the model. The loops and
the recursion of the code are recursive functions over finite domains, which can
be proved about: a table is one function over the `Cells` of two strings, each
cell from its three neighbours, `utf8_split` one over the bytes done, a row of
`lcs_lens` one over the elements of y, and `calculate_lcs` one over the ranges
`<<xlo, xhi, ylo, yhi>>` it can be called with (`Ranges`).

### Diff

`work` holds the pending calls of the recursion `_ses`, so that no RECURSIVE
operator is needed; `buf` is the varray with both tables packed in one index
range by `Packed`, never cleared; `fresh` is a history variable, the indexes
written since the current search began. `Forward` and `Backward` are one turn
of the two inner loops.

### The containers

Each module has the variables of the C structure, one action per function (and
one for each way it fails), and next to them the abstract value a client
believes in: `items`, `content`, `map`, `arr`. An action computes the answer of
the code and, independently, the answer the abstract value gives; `right`,
`answers`, `fine`, `kept`, `poolAnswers` record whether they always agreed. The
invariant of each says that the structure represents the value and that the
answers agreed, and names where the code is known to differ:

* **Stack.** `array`, `sp`; `Push` doubles, `Pop` halves below a quarter,
  `NoMemory` refuses either. stack_clean of an empty stack reallocates to size 0,
  which frees the array and looks like a failure: `lost` from then on (line
  225), and only stack_deinit or stack_new get out of it.
* **LinkedList.** Nodes are addresses, reused after they are freed, so that a
  cached position that survives its node shows. `Lookup` is the scan of the cache
  with its odd test: line 359 keeps an index where a distance is meant, which
  makes it slow but not wrong. linkedlist_remove_data of the first element returns
  before the cached indexes are adjusted (line 489): `headTaken` marks it, and
  answers are promised only before it.
* **HashMap.** `Probe` is the double hashing, `Found` a search of it, `Resize`
  the rebuild in the order of the old table. hashmap_put takes the first slot that
  is not used (line 346), a deleted one before the key's own included: the key is then
  in the table twice (`doubled`), which the map forbids but for which no entry is
  lost to a search.
* **Varray.** `Limit`, the first index beyond each bin, doubles from bin to bin as
  `r` does in varray_get. `bins` are allocated, and cleared, on first use; `Release` frees
  those wholly above an index. `Read`, `Write` and an iteration may come in any
  order. varray_next reads the bin behind the last one when the last one is full
  and iterated to its end (`past`, line 180): the iteration is left there.
* **Suba.** A cell is an offset; `Took` is the walk of suba_alloc (`Fits`), the
  `Split` of a cell or the use of the `Whole`, `Gave` the ways suba_free links a cell or
  merges it with its neighbours (`GaveLast`, `GaveBelow`, `GaveAlone`), `Realloc` and
  `AllocReclaim` are built of both. 53 bytes hold four small cells, or one
  large, with odd sizes left over by the alignment.
* **SvsemPool.** pool_get finds the first clear bit of `used` and makes (`New`)
  or resets (`Rst`) the element; svcond_create takes three and, when one
  cannot be had or its value not be set, gives those it got back
  (`CondCreateFails`). SEM_UNDO, which svcond_create sets on its unblock_lock,
  stays with the element: a later user gets it (`wasUnblock`; svcond.c:84).
* **Msgno** numbers the entries in the caller's memory. msgno_msg refuses the
  codes of the last list the table takes (line 114 compares with the wrong
  bound), and a list refused half way leaves its count (line 97) in the slot
  the next list gets: `broken`.

### The parsers

* **PathCanon** goes from character to character as the switch in path.c does;
  `Joined` says what the canonical path is: the names left when each component
  has been taken in turn (`Walk`), behind the root and joined by separators.
  `srcsep` and `dstsep` are one `Sep`, as in every call the repository has;
  with two that differ, a name that contains `dstsep` would be taken for two by
  line 106, which is not modelled.
* **Csv** has the nine cases of the state machine, `CSV_TRIM` and `CSV_QUOTES`,
  a source that ends without a newline, and buffers and rows that are too small.
  The reference reads the text as a whole: `Cut` is where fields end, by counting
  quotes, and `LegalField` and `Decoded` say what a field means. A last field without a
  newline that ends in a space within or behind quotes is cut or refused (line
  180 looks only at the state), which the property leaves open for that field
  alone. A call that succeeds has otherwise read a whole row, or as many fields as
  `row[]` has places. One that fails with `E2BIG` was given a buffer no larger
  than the text it read (`bn0 <= count`): the elements may fit all the same, since
  trimmed spaces and taken quotes use up bytes of the buffer and line 184 refuses a
  row whose terminator takes the last byte ("x" and a newline with `bn` 2).
* **Eval** keeps `opstk` and `valstk` from call to call as struct eval does, and
  shifts or reduces by `First`, the matrix of lines 231-243. `Meaning` splits an
  expression at its operator of least precedence, the rightmost of them.
  A malformed expression may read an operand that is not there (`crash`), which
  no legal one does with no operator left on the stack. `Again` uses an object again, after an error too
  (`Renew` makes a new one, and is all that is left after a crash): an error leaves both
  stacks as they are (lines 263 and 271), a success pops one value and leaves what
  is below it (line 278). So `EvalCorrect` has two parts: with no operator left, whatever
  values are, an expression is evaluated to its meaning and both stacks are as they
  were (`ops0`, `vals0`); and parentheses are balanced in what was accepted,
  those an earlier call left open counted in. That any number of expressions can be
  evaluated is `EvalReusable`, which fails. The tokens too are never given
  back (`toki` of struct eval only grows): not modelled.
* **Cfg** is a list of lines. `ReadLine` is readline a character at a time: `end`
  is not moved by `=` and moved one too far by an escape that stands for
  nothing, in which case the line is cut behind a character the buffer was never
  given (`left`). cfg_load_str, cfg_load and cfg_load_env clear the whole list
  on one bad line, cfg_load_cgi_query_string keeps what it added. What is stored is not
  always what is read back: empty values, backslashes, a space behind `=` or at the end,
  a comment from the environment that holds a newline (`Plain` lists them;
  docs/ref/cfg.html:47 speaks of spaces and comments being preserved).
* **Domnode** folds Expat's events over the stack of open elements. A string
  that is empty or has 255 characters or more makes domnode_new fail; the
  handlers then test `errno`, which the failure did not set, so the node is lost
  without an error, and the matching end pops its parent. `Fit` excludes such
  strings from the promise, so that what goes wrong with them is recorded and not
  caught. Text that is only space makes no node (lines 362-369), and `Inked` drops it
  from the document that `DomTree` compares with, although
  `docs/xml/domnode.xml:28` says that the space between elements is included in the list of
  children. A comment before the root becomes the root (line 492). The
  writer escapes nothing (`Marked`).

### Shellout

`pc` is where the caller is: before the read or select, in it, scanning the
buffer, waiting for the program in sho_close. `Alarm` may go off at every point:
in the read it makes the call return; before it, it is lost (`lost`); in
sho_close it interrupts waitpid, and the exit status is whatever the stack held
(`junk`). sho_loop returns with its alarm set on end of file and on errors
(`Alarmed`), also where a byte it has read cannot be written to the user (lines
309-312, the second disjunct of `ReadByte`), so this happens: `AlarmsOwned` says that it happens
after such a return only, by what the call returned (`Unmatched`). That sho_close
then returns while the program runs is not a property: it happens. `ReadStdin` reads what the user typed to the start of
the buffer that holds the terminal's bytes (line 284): `low` counts how many
of those still to be matched are gone.

## 3. The runs

| Run | Question | Instance | Result |
|---|---|---|---|
| `svcond_safety` | mutex, gate, counters under any interleaving | 3 processes, each waits, signals and broadcasts; interrupts at the two semops where the code recovers | holds |
| `svcond_live` | calls return, broadcasts wake all, Svcond implements CondVar | 2 waiters, 1 signaller, no interrupts, fair | holds |
| `svcond_faults` | SEM_UNDO restores the mutex; the caller's lock survives EINTR | 2 processes, interrupts at every semop (up to 2), 1 kill | holds |
| `svcond_eintr_wait` | does an interrupted waiter leave the variable usable? | 2 processes, 1 interrupt | violated |
| `svsem` | openers with O_CREAT get initialized semaphores, posts survive, the call returns | 2 processes, 3 sets, 3 tries, 1 kill, every oflag | holds |
| `svsem_attach` | is that so without O_CREAT? | 2 processes | violated |
| `pylcs` | every exported function against its definition | all strings up to 4 bytes over 2 + 1 byte values, lists up to 2 | holds |
| `diff` | script, distance, middle snake, searches that stand on their own, termination | all pairs up to 5 elements over 2 symbols, limits 1 to 4 and none | holds |
| `containers` | does each container behave as what it stands for? | see below | holds |
| `parsers` | does each parser mean what its input says? | see below | holds |
| `eval_again` | does an evaluator work after an error? | as `parsers` | violated |
| `shellout` | are matches right, alarms owned, calls with a timeout ended? | buffer of 3, 4 bytes written over 3 byte values, up to 2 bytes typed once | holds |

**Why the bounds are enough.** svcond: three processes are two waiters and a
signaller at once, or a waiter and two signallers; the gate, a batch of two and
a newcomer all meet. `SemMax` 4 exceeds every value a semaphore reaches, so no
post is refused; `MaxDrift` only stops the counter of the faulty runs from
drifting for ever. svsem: after a kill the other process plays every later
role, and a set can be removed and made anew twice. Values are posted up to 2.
`MaxTries` 3 stands for the 10 of the code: the outer loop is taken more than
once, the inner one runs out. pylcs: four bytes give two two-byte characters,
every split of the recursion and ties. diff: five elements give distances up to
10 and snakes on both sides of the middle, for odd and even delta.

containers: Stack, an array of 2 growing to 8; LinkedList, 4 addresses and
elements, 2 data values; HashMap, 6 keys with 3 collisions in tables of 3 and
5; Varray, bins of 1, 1, 2; Suba, requests of 1, 5 and 9 in 53 bytes; SvsemPool, 5
elements for 2 condition variables and a client, so that the sixth is refused; Msgno, 5 lists,
one of them illegal and one with a gap, in a table of 3.
Sizes are the smallest that let an array grow twice and shrink, a search pass
a deleted slot, and cells be merged on both sides and around the circle.
parsers: PathCanon, every path of up to 7 characters in 3 and in 9; Csv, every text of up to
5 characters of 5 kinds, in buffers of 3 and 10 and rows of 1 and 4; Eval, every
expression of up to 5 tokens by an object with clean stacks and of up to 3 (`ReuseLen`)
by one with at most 2 tokens (`MaxLeft`) left on them, by calls without number; Cfg, every text of up to 4 characters of 6 kinds,
loaded on its own and followed by others; Domnode, every document of up to 5
events and a stack of 3. shellout: patterns of 1 and 2 bytes, one the end
of the other, in a buffer the program overruns.

**What the violations say.** They are listed as findings with the line and the
document they contradict.

1. A waiter interrupted in `semop` on `block_queue` removes itself from
   `waiters_blocked` although a signaller may already have moved it to
   `waiters_to_unblock` (svcond.c:108). The batch is then never emptied, the
   gate never opens, and the next waiter sleeps in line 99 with the caller's
   lock held.
2. svsem_open without O_CREAT does not look at `sem_otime`: it returns a
   semaphore its creator may still be initializing, and a post made then is
   overwritten.
3. eval_expression leaves its stacks as they are when it fails (eval.c:263 and 271).
   After `(` has failed, `2` fails too with the same object, and an operator that was
   left makes a legal expression crash. `docs/xml/eval.xml:83` allows any number of expressions.

**Deviations without a run of their own**, which the models have and the
properties name as exceptions or leave open:

* A signaller interrupted at the gate returns with `unblock_lock` held
  (svcond.c:166-169): `kept` in Svcond. `SignalReturns` is violated when the
  interrupts of `svcond_live` are allowed there.
* The arguments of the `memset` of svcond.c:66 are swapped, so the counters of
  a condition variable keep what its memory held. The constant `Garbage` gives the
  possible contents; the runs use `{0}`, memory that was zero.
* `lcs_string` compares bytes: of two UTF-8 strings it may return one that is
  not UTF-8. `diff` returns the length of the other sequence when one is empty,
  `dmax` or not (diff.c:212), hence `ret >= Limit` in `DistanceCorrect`.
* `levenshtein_distance` is 0 when one string is empty (main.cpp:337), where
  the edit distance that `README.md:8` speaks of is the length of the other:
  `LevenshteinNonEmpty` leaves these out.
* domnode_load makes no node of blank text (domnode.c:367);
  `docs/xml/domnode.xml:28` says that it does. `DomTree` with `Meaning(doc)` in place
  of `Meaning(Inked(doc))` is violated.
* An alarm that sho_loop left set interrupts the waitpid of sho_close
  (shellout.c:243), which returns a status nobody wrote while the program runs;
  `docs/xml/shellout.xml:17` says that it does not return until the process
  exits. `status # "none" => ~alive` is violated in the run `shellout`.
* shellout.c:79 promises that a timeout ends the call. An alarm that goes off
  between line 108 and the read of line 111 is lost, and the call waits for good:
  `ReturnsUnlessLost` is as much as holds.
* Those of the containers and parsers listed in section 2.

**Fairness.** Svcond, `FairSpec`: for each process, strong fairness of its
library steps, because a semaphore operation that is possible again and again
is served: the kernel keeps the sleepers of a semaphore in a queue. Also strong
fairness of giving the caller's lock up, by unlocking it or by calling
svcond_wait: a client that keeps it for ever starves everyone, and the library
cannot help it. Nothing obliges a client to signal or to take the lock.
SvsemOpen: weak fairness of a call under way, none of whose system calls
sleeps for good. Diff: a sequential program that goes on. Shellout, `ShoSpec`:
weak fairness of the caller's own steps, which are not enabled while it waits in
the kernel with nothing to read, and of an alarm that is set, which the kernel
delivers. The program and the user owe nothing.

## 4. What is proved

`SvcondProofs`, for any finite set of processes and any bounds. The inductive
invariant grows in layers, each used by the next.

1. `Types` (`TypeOK`), with any interrupts and kills.
2. `Unblock` (`UnblockExclusive`) and `CallerLock` (`LockExclusive`), with any
   interrupts and kills: each is inductive given the types. `kept` is what makes
   `UnblockExclusive` survive line 168.
3. `GateCorrect` and `NoStaleCounter` (`GateExclusive`, `LoadsFresh`), from
   `GateInv`: the two need each other. A signaller may store only what nobody
   changed since it loaded, which needs the gate; the gate stays closed after a
   signal only if the batch it moved is not empty, which needs a fresh counter.
4. `NoLostWakeup` (`CountersAgree`), from `CountInv`: two equations between
   counters and cardinalities of sets of processes; each step moves one element
   of one set.
5. `Refinement`: the initial states and each step of Svcond map to those of
   CondVar, or to a stutter. Broadcast and signal map to the step that moves
   the batch, not to the posts that follow it.

Layers 3 to 5 assume zeroed memory, no kills, no interrupts at the two semops
where the code does not recover, and semaphores wide enough to count every
process (`Benign` in the module; each theorem that needs it assumes it). Finding 1 and the
interrupted signaller show that they do not hold otherwise.

`SvsemProofs`, for any processes, oflags, numbers of sets, posts and kills:
`OpenTypes`, and `Initialization`, that `OpenInv` is inductive. `OpenInv` adds
to the two promises what they rest on: each set has at most one creator, which
is the one to make it ready; `sem_otime` is set only on a set that is ready (or
was used too early by a process that opened it without O_CREAT, which is
excepted throughout); and until then no posts and waits count. From it follow
`CreatOpensInitialized` and `PostsSurvive`.

`ShelloutProofs`, for any patterns, empty and oversized ones included, any buffer,
program and user: `ShoAssumption` only gives the constants their types. `AlarmsAreOwned`
rests on `AlarmInv`: a call begins with a status of `none`, and each way out of one
either clears the alarm or is a return of sho_loop below 1 (`AlarmUnmatched`). `FirstMatch` rests on
`SearchInv`: what the caller has read is the program's output in order; a
pattern that ended at an earlier byte would have been found there, but for
those `Missed`, which the wrapped buffer or the typed bytes excuse; and an
answer given is the first pattern of the list that ends at the byte read.

`ContainersProofs`, for any constants with the assumptions of Containers. Those
of the stack, the list, the varray and the pool say that counts are naturals, that
the first sizes are not 0, that no address is NULL, that a list's elements are
numbers (insert_sorted compares them) and that condition variables are finitely
many. `MapAssumption` says of the table sizes what the 20 of hashmap.c:42 are:
primes, ascending, each at most four times the one before it (the ratios are
between 1.8 and 2.2); and that a table shrinks only below a load of a quarter, since
hashmap_init derives the low mark as a quarter of a load of at most 100.
`SubaAssumption` says of the sizes what suba_init makes of them: a header (POFF,
suba.c:36) and mincell (line 92) are aligned, the latter to no less than a cell with
its link, which is more than a header, and line 79 refuses memory in which no cell fits.
`MsgnoAssumption` says that a list's own numbers and its length leave every number
below 2^16, which msgno.c does not check and its lists, of a few messages each,
satisfy.

* `StackIsFaithful`, from `StackInv`: below `sp` the array is the client's stack,
  and what `Realloc` copies is at least that.
* `PoolIsSound`, from `PoolInv`: every semaphore in use is a client's or one of
  the three of one condition variable, never two of these; the counts follow by
  the cardinality lemmas. svcond_create giving back what it got when it fails
  half way is the hard step.
* `VarrayIsFaithful`, from `VarrayInv`: bins lie one behind the other (`BinsAre`), so
  that `BinOf` and `Offset` together are injective; every element found is one
  written there or cleared; an iteration undisturbed stands at the first index it
  has not passed.
* `ListIsFaithful`, from `ListInv`: there is a path, a sequence of distinct nodes that
  are the nodes allocated, whose links are `ptr` and whose elements are `content`;
  a cached position is of a node on it. Every operation splices the path, cuts it
  or swaps one node (`Grows`, `Shrinks`, `Swaps`), and the cache lemmas say that
  shifting and dropping follow it. `headTaken` only frees a cached position from
  being the node's own: that it is still of a node on the path survives, and
  with it every walk from it (`StepsAre`). The order in which
  linkedlist_get tries the entries does not matter (`ScanIs`): it needs one
  that is not behind k.
* `MapIsFaithful`, from `MapInv`: on the probe circle of a stored key no slot
  before its own is empty, so that the search of `Slot` arrives (`SlotIs`), and
  `entries` is the number of slots in use, which the load keeps below the size.
  A table size is prime, so every step of a probe circle passes all slots
  (`Circling`), and a put finds room. The rebuild of `Resize` is an induction over the
  slots of the old table: none is lost or found twice (`Rehashed`), which needs that what
  is moved fits, hence the factor 4 when a table shrinks. A key that was put twice
  (`doubled`, hashmap.c:346) ends the agreement with the client's map, and nothing
  else.
* `MsgnoIsUnique`, from `MsgInv`: the lists fill the table from its start, each is
  in it once, and the codes of list i ascend between (i + 1) * 2^16 and
  (i + 2) * 2^16; a list whose numbering stopped half way keeps codes that are above
  2^16, so it is refused for good and never in the table.
* `SubaIsSound`, from `SubaInv`. `CellsOk` is the tiling: from each cell one comes to the
  next or to the end of the memory, and no two overlap. `RingOk` says of a link,
  without counting, that it goes to the next free cell above, or from the highest to
  the lowest (`Onward`); so a link changed at one place is a lemma of its own
  (`LinkMore`, `LinkLess`, `LinkOther`), as are dividing and joining cells (`Divides`,
  `Joins`). `NthRank` is why the walks end: the i-th cell on them has i - 1 free ones
  below it. That the last cell is always free (line 163) is part of the invariant:
  no cell in use lies behind tail, so lines 201 to 210 never run (`GapIs`). The other
  four ways of suba_free are `BelowKeeps`, `BothKeeps`, `AboveKeeps` and `AloneKeeps`.
  suba_realloc that leaves a cell where it is needs that its size is even
  (`UsedEven`), or the request rounded up might not fit and line 261 would wrap.

`PylcsProofs`, on the lemmas of `Lemmas`, for strings and lists of any length over
any bytes: `LcsIsCorrect`, `MatrixIsCorrect`, `Lcs2IsCorrect`,
`LevenshteinIsCorrect`, `LcsStringIsCorrect`. The invariant `ListInv` says only
that every answer given is the exported function of one element of the list; the
work is in the lemmas about that function. SeqRef speaks of all subsequences, the
code of one cell after the other, so `SubsequencesAppend` takes the last element
off a subsequence, and `LcsLengthSame` and `LcsLengthDiffer` (and their likes for
the edit distance) are the recurrences of the code, as facts about the
definition by enumeration. `LcsTableIs` then identifies the table. For
`lcs_string`, `LensIs` is the same for rows; `SplitOfIs` says that some cut of y
shares as much with the halves as the whole does, and that the code picks such
a one; `MarkedIs` is the induction over ranges; `KeptIs` that set_lcs spells the
marked positions.

These proofs do use induction over data: not through the library's theorems,
which take an operator, but over the set of the naturals for which a fact holds
(`Induction` and `MinIsLeast` in `Lemmas`, `SeqInduction` over the lengths of
sequences). A recursive function is the CHOOSE of a solution of its equation; the
proofs show that there is one by building it turn by turn (`DoubledExists`,
`MarkedExists`) or that the definition by enumeration is one, and that there is no
other.

`ParsersProofs`, for any path and room (`PathAssumption`): `PathIsCanonical`, from
`PathInv`. The names and the component begun after k characters, `Walk`, are compared
with what is written at that point, `Shape`, one lemma for each way a state
is left. Where the state is `separator`, the component may be a "." or ".." that has
been taken back already while its separator is still to be read. ".." takes
characters off until it finds a separator or the start, `Parent`; that this is the last name
(`ParentIs`) is because a name is not empty and has no separator in it, and what
is before it is empty or ends in one (`Opened`), the root as well as a relative start.

The same module, for any text, buffer and row (`CsvAssumption`): `CsvIsCorrect`, from
`CsvInv`. The bytes of the buffer are accounted for by `base`, where the element
under way begins: `base`, its characters and what is left make up `bn0`, and no more
bytes are used than characters read. Of the characters read, those up to the last that ends a field are in row
(`Taken`: every such field is legal and its place in row is what it decodes
to); what is behind it is described by the state (`Collected`): only spaces, an
element without quotes, one inside them, or one behind the quote that may be its
last, of which it is not known yet whether it is the first of two. The code decides that
a comma is inside quotes by its state, the reference by counting them from the start of
the text; that the two agree is a conjunct of its own in `RowReading`. A refusal has to
hold for what the parser never reads: `BareBreaks` and `ClosedBreaks` show that no rest
of the field makes it legal, and `FieldGoesOn` that the field which the reference finds there
does begin with what was read.

The same module, for texts, environments and query strings of any length
(`CfgAssumption`): `CfgIsSound`, from `CfgInv`: every line of the list is a comment or
an entry (`Line`), and the stored list is what the file holds. `CfgKept` has one
step per operation. That a lookup ends inside its line (`LookupEnds`) needs the `=`
that every entry has, so the part that takes most care is that each way into the
list, line by line from a text or a stream and pair by pair from a query string,
lets in nothing else (`EntryIs`). For a list that is stored and loaded, `ReadTo`
follows readline through a stored line to the newline behind it, `LineBack` says
that it then holds that line, and `AddsBack` that one line after the other is added
again. The attempt to prove this without looking at newlines failed for a reason: a
comment taken from the environment may hold one, and is read back as two lines.

`DiffProofs`, for any sequences and limits (`DiffAssumption`):

* `SearchIsSafe`, from `DiffInv`, which describes the two tables as rows of furthest points, the backward one
  turned round so that one set of lemmas serves both (`StepIs`, `RowIs`). It cannot
  say that points lie in the box, since the code follows diagonals beyond it.
  What holds, and is inductive, is that a point beyond an edge was stepped to from
  beside it, and that the diagonal on the other side of that step is as far
  (`Row`); and that a diagonal that was compared with the other search, and not
  met, is inside (`Near`). `MeetIs` concludes that the point at which two searches do
  meet is inside, which makes the halves of `SnakeSplit` boxes again. The same rows
  say which entries have been written (`ReadsFresh`), because the diagonals of one
  depth have the parity of the depth and `Packed` is injective.
* `SnakeIsOptimal`, `DistanceIsCorrect` and `SearchNeverFails`, from `Found` and
  `Answered`: Myers' argument. `Dist(s, t, x, y)` is the number of edits from the
  corner to a point of the edit graph, defined by SeqRef's longest common
  subsequences of two prefixes and continued beyond the edges, where no elements
  match, since the code follows diagonals there too. A point of a table is the
  last of its diagonal that d edits reach (`Reached`), and one turn of a loop
  keeps that (`ReachStep`). The backward table is the same fact about the
  sequences turned round, because reversing keeps the common subsequences.
  `Found` says besides that no two points of this depth overlap yet (`Apart`),
  and with `SearchesMeet`, two optimal searches overlap as soon as their edits
  add up to the distance, the distance is at least what has been searched. So the
  first overlap is optimal, and it comes before the depth `Mid` runs out.
  `Answered` carries the outermost answer to the end: everything after it may
  run, and overwrite the table, but `Returned` keeps it.
* `ScriptIsShortest`, from `Scripted` and `SnakeEnds`. A script is a path through the
  edit graph (`Written`): a `Point` says how much of a and of b is behind and what that
  cost. The pending calls are the rest of the path (`Chain`), each to cost
  its distance, and it ends at the `Corner` with the distance of the whole. `_edit`
  keeps this whether it drops, extends or appends (`EditWrites`), and a snake
  replaces one call by three (`SplitScripts`). The hard part is the base case of line
  247, which looks at the two ranges of a call with one edit and puts the edit at an
  end. That is right only if the call's edit is at an end, `Simple`, which is no
  property of `_ses` on its own: it holds because the shared prefix was taken off first
  (`RestSimple`) and because both snakes run as far as they can, so that what is
  left on either side begins or ends with an edit (`LastEdit`, `FirstEdit`).

**Only model-checked:**

* Liveness, which rests on fairness: `WaitReleasesLock`, `BroadcastWakesAll`,
  `SignalReturns`, `OpenReturns`, `Terminates`, the fair part of
  `ImplementsCondVar`, `ReturnsUnlessLost`.
* `Eval`, whose reference splits an expression at an operator and not from the
  left, so that a proof needs an induction over all parts of one.
* `Domnode`: what its inputs mean is defined by folds of the community
  modules, whose recursion takes an operator.

## 5. What is not modelled, and why

* svsem_create and svsem_destroy differ from svsem_open in the name of the file
  they use (mkstemp), svsem_trywait, svsem_getvalue and svsem_setvalue are single
  system calls; SvsemPool has the last three as `Use`. The file a pool takes
  its key from, unlinked before its set is removed, needs two pools to matter.
* Memory that is used after it is freed (svsem_pool_destroy, svsem.c:230) and
  leaks: the models have values, not memory. Where a dangling pointer decides
  what is returned (`Stack`, `LinkedList`) it is in the model.
* Permission errors and other failures of system calls that no interleaving
  brings about.
* hashmap iterations with changes in between, the hash functions, the typed
  getters of cfg, the searches of domnode: functions of a state the module
  has, which they do not change.
* allocator (a dispatcher), text, mbs, wcwidth (loops over characters), hexdump,
  time, daemon (formatting and system calls).
* The Python bindings of main.cpp: they copy data between Python and C.

## 6. Plan

Every module of the plan is written, and every safety invariant of a run but two of
the parsers' is proved. Left are:

1. That `Eval` finds the value by precedence, and Domnode, over recursive functions in
   place of the folds.
2. `ProdCons`: the producer and consumer of `tcase/tests/SvcondProdCons.c` over
   CondVar, which test their condition with `if` and not `while`.
