# A TLA+ model of evsip

evsip is a small SIP test server written in C on top of the sofia-sip library.
It answers REGISTER requests, keeps the registered end points in a list, and
has a command line on its terminal. This directory holds TLA+ modules that
model the program in `src/src/`, the TLC configurations that check them, and
TLAPS proofs about the registrar, the process life cycle, the command list, the
prompt, the memory objects, the configuration and the whole server.

## 1. Inventory

| part | source | state | operations | what is hard |
|---|---|---|---|---|
| registrar | `evsip_register.c`, `evsip_endp.c` | the vector `gpEndpList`, end points with strings, flags and a memory home | one handler for REGISTER; create, set, isAttached, add, find, extract, destroy | lifetime of the memory: who owns the vector, an end point destroyed twice; allocation failures half way; fields of the request used unchecked |
| event dispatch | `evsip_evsofia.c`, `evsip_invite.c` | none | a switch on the nua event | the end of the server hangs on one event |
| process life cycle | `evsip_main.c`, `evsip_core.c`, `evsip_sig.c`, `evsip_glob.c` | root event loop, nua stack, signal context, memory pool | init/start/stop/deinit of every part in one order, `LEAVE_ERROR` for all failures | signals at any moment on two threads; partial failures; a stop that comes before the loop |
| command line | `evsip_cli.c` | terminal mode, input wait, the line being edited | init, start, stop, deinit, one handler per key | terminal restored or not; the length of the line at its limits |
| command list | `evsip_cli_cmdlst.c` | a vector of commands, an index in each | init, register, find, execute, destroy, destroy_all | the stored index goes stale; ownership of commands |
| memory objects | `evsip_mem.c` | reference count and destructor in front of each block | alloc, ref, deref, nrefs | destructors that use the object; count at its limits |
| configuration | `evsip_config.c` | option values, the open file | init, parse, deinit, dump | lines at the limit of the buffer, comments |
| log | `evsip_log.c` | none | print | none: pure output |
| auth, db, modules | `evsip_auth.c`, `evsip_db.c`, `evsip_mod.c` | | | stubs outside `evsip_SOURCES`, not compiled |

Interaction. Everything of evsip's own runs on the main thread, inside
`su_root_run`: nua hands its events to `evsip_evsofia_main` there, the input
handler of the command line is called there, and the commands it executes call
`evsip_endp_dumpList`, `evsip_config_cmd_dump` or `evsip_stop` directly. The
nua stack runs on a thread of its own and reaches the main thread through the
message queue of the root. Signals interrupt either thread. All allocations
go to one pool, `evSipGlobCtx->memPage`, with homes nested in it.

Handlers are therefore atomic with respect to one another, and one action of
a model is one whole handler. The concurrency is in the life cycle (signals,
nua thread, main), and the difficulty of the registrar is in long sequences of
requests and in partial failures.

Correctness, per part:

- registrar: one end point per host; flag and vector agree; what is listed is
  allocated; a destroyed end point is never used again; an answer tells the
  truth about the binding.
- life cycle: the loop runs only on a complete set-up; it is left only on
  purpose; a requested stop happens, with the exit command or without; a failed start takes back what it did.
- command list: what is found can be executed; destroying a command removes
  that command.
- memory: an object lives as long as somebody holds a reference, and no longer.
- command line: the line never exceeds its buffer.
- configuration: each well-formed line sets the option it names.

`PROJECT.json` lists the hazards at the line where each one bites and the
properties that watch it.

## 2. Modules

| module | models | built on |
|---|---|---|
| `LocationService` | what a registrar promises: a partial map from host to user and truthful answers | |
| `EvsipRegistry` | the registrar and its memory | INSTANCEs `LocationService` |
| `MCEvsipRegistry` | requests and bounds for TLC | `EvsipRegistry` |
| `ListLemmas` | what the sequence operators return, positions, recursion on a position | TLAPS |
| `EvsipRegistryProofs` | invariants of the registrar, the registrar is a `LocationService` | `EvsipRegistry`, `ListLemmas` |
| `EvsipLifecycle` | main thread, nua thread, signals | |
| `MCEvsipLifecycle` | claims of comments that do not hold | `EvsipLifecycle` |
| `EvsipLifecycleProofs` | invariants of start-up, loop and way out | `EvsipLifecycle`, TLAPS |
| `EvsipMem` | reference counting with destructors in progress | |
| `EvsipMemProofs` | theorems of the counting | `EvsipMem`, TLAPS |
| `EvsipCmdList` | the vector of commands and the index each command remembers | |
| `MCEvsipCmdList` | names for TLC | `EvsipCmdList` |
| `EvsipCmdListProofs` | what the index of a command is worth | `EvsipCmdList`, `ListLemmas` |
| `CommandLine` | what the prompt promises: a line, a table of names, what Enter runs | |
| `EvsipCli` | registration at start-up and the input handler | EXTENDS `EvsipCmdList`, INSTANCEs `CommandLine` |
| `MCEvsipCli` | commands and characters for TLC | `EvsipCli` |
| `EvsipCliProofs` | the line and the start-up, the prompt is a `CommandLine` | `EvsipCli`, `EvsipCmdListProofs` |
| `EvsipConfig` | the configuration file, from fgets to the option fields | |
| `MCEvsipConfig` | the files for TLC, claims of comments that do not hold | `EvsipConfig` |
| `EvsipConfigProofs` | a file means what its author wrote, short lines are safe | `EvsipConfig`, `ListLemmas` |
| `SipServer` | what the process promises: starting, serving, stopped or failed | INSTANCEs `LocationService` |
| `Evsip` | life cycle, registrar and commands composed | INSTANCEs `EvsipLifecycle`, `EvsipRegistry`, `SipServer` |
| `MCEvsip` | hosts and requests for TLC | `Evsip` |
| `EvsipProofs` | what "exit" waits for, what readers find, every step is one of `SipServer` | `Evsip`, INSTANCEs `EvsipRegistryProofs` |

Conventions. An action is named after the function, or after the path through
a handler, that it models. `NULL` is both the null pointer and an absent
header. When the code does something C or sofia-sip gives no meaning to, the
action sets `fault` and the model stops: nothing is claimed after undefined
behaviour. That is why the configurations say `CHECK_DEADLOCK FALSE` (the
process of `EvsipLifecycle` may also simply end). Definitions called `Bug_...`
are seeded bugs: no specification uses them, they exist to be put in the place
of the definition that follows them, to see that a property notices.

What is known of sofia-sip is modelled from how the code uses it:
`su_home_clone` carves a struct out of the pool, which keeps it until the pool
goes; the home nested in a struct (zeroed by `memset`, not the first member)
owns only what is allocated in it; `su_home_unref` of it frees those blocks, a
second one does nothing; `su_strdup(NULL)` is NULL; `su_vector_remove` calls the
destructor of the item and then moves the rest; `su_root_run` sets its running
flag on entry, `su_root_break` clears it; `su_task_execute` calls directly on
the thread of the task and otherwise queues a message and waits.

### EvsipRegistry

`info`, `home` and `added` are the fields of `struct evsip_endp_ctx`
(`EVSIP_ENDP_FLAG_REGISTRED` and `state` are never written; `magic` is right
from creation on and memPage keeps the struct, so the magic checks always
pass). `gpEndpList` is the sequence of items and `listHome` the end point in
whose home the vector was allocated (`evsip_endp_add`, line 133), NULL before.
`reply` keeps the responses to the last request. Two history variables record
what a lack of memory did: `lost` has the end points `evsip_endp_add` could not
put in the list, `starved` says that some string could not be copied.

Each path through `evsip_register_handler` is an action; `Register(r)` is
their disjunction. `Store` composes `setHostIpv4`, `setContact`, `isAttached`
and `add`, each allocation of which may fail if `AllocFault` says so.
`exptime` is a `uint64_t` filled from a `long`: `ExpTime` takes it modulo
`Word`, and `Printed` reads it back as signed, as `%ld` does. INVITE prints
the list, changes nothing and sends nothing; printing (`DumpList`) is a read of
memory that may be gone. The authorization header is read and ignored.

The refinement maps the list to the map of its hosts to their contacts, the
last response to the answer, and a fault to the death of the service; so it
does the first lack of memory for a string, the vector or an append (`Serving`),
because from then on an answer may promise what is not stored. Until then every
step of the handler is a step of `LocationService`: an answer other than
200 changes no binding, a 200 changes the binding of the host it echoes and
only that one, and its Expires is 0 exactly when the host is unbound. What
remains true afterwards is in `AnsweredIsStored` and `NoOrphan`.

### EvsipLifecycle

`pc` is the call main is about to make, so every failure exit of `main` is
one disjunct that goes to `LEAVE_ERROR`. The actors are `Main` (start-up, event
loop, clean-up), the nua thread (`NuaProgress`, `NuaDown`), the user
(`ExitCommand`) and `SignalArrives`. A signal meets one of five situations:
no handler yet, a handler without its context, the main thread, the nua thread
(which stays in the handler until the loop has executed its message), or a
root that is already destroyed. `memPage` and `cmdl` record that
`evsip_config_init` allocates the command vector before `evsip_mem_init`
initialises the pool it came from. `queue` holds the messages for the task of
the root, in their order; this module takes only the two that stop the loop out
of it (`Break`, `Shutdown`) and leaves the others to `Evsip`.

### Evsip

Evsip has the variables of both modules and two counters of requests,
`received` and `served`. `Process` is a step of `EvsipLifecycle`. `Receive` is
the nua thread posting a REGISTER or an INVITE, from the moment `nua_create`
returned and until the process ends, behind whatever is in the queue already;
`late` marks the requests that came after "exit" was entered. `Serve` is
`evsip_evsofia_main` on the main thread for such an event: it takes it out of
the queue and does one step of `EvsipRegistry`. `DumpCommand` is the user. The
other events nua sends only log and are left out; a command is one step because
`EvsipCli` implements `CommandLine`, and of the four commands `help` and `conf`
only print.

The modules share `fault`: a wild pointer in the handler ends the process with
everything in it, and a post or a signal to the root a failed start destroyed
ends the registrar. `SipServer` above it has four phases. It may die while it
starts, while it takes back a failed start, and at a request; that it does not
die in between, or once it has stopped, is what the refinement says of commands,
of signals, and of the root and the stack that a failed start leaves behind.

### EvsipMem

`mem`, `nbRefs` and `dh` are the block and its header. `evsip_mem_deref` is
split where it calls the destructor: `DerefDestroys` pushes the object on
`destroying`, `DestructorReturns` pops it and does the rest of the function, and
every other action may run in between, as code of the destructor. `held` counts
the references the callers own; they release only what they own and reference
what they own or what is being destroyed in front of them. evsip itself does
not call the library yet, so these rules come from the comments of its
functions and not from call sites. The history variable `wrapped` holds the
objects whose count did not fit its field at some time, `reentered` those whose
destructor dropped the last reference of its own object; both happen in the
model, and the properties say what they except.

### EvsipCmdList, EvsipCli

`items` is the vector `evsip_cmdl`, `index` the field of each command. `sure`
is not in the code: it holds the commands nothing was removed from the vector
since they were registered or found, and only those are destroyed. All callers
in the program destroy a command directly after `evsip_cli_cmd_register` failed
for it, which is narrower. The magic of a command is right
from creation on. A command whose home was released has its strings released
and its struct kept by memPage, so a find that reads it sets `fault`, as does
one on a vector that is gone or with a copy of it that could not be allocated.

`EvsipCli` registers the four commands in the order of the program (`conf` in
`evsip_config_init`, `help` in `evsip_cli_start`, `dump` in `evsip_endp_init`,
`exit` in `evsip_start`); only `help` is not destroyed when its registration
fails (`destroys`). That the command list was allocated before its pool was
initialised is left to `EvsipLifecycle`. `cur_cmd` is the array with its
terminators, `Text` what `strncmp` sees of it. The refinement maps array and
length to the line, the items to the table of names, and a fault to the death
of the prompt: a key then does to the real line what it does to the abstract
one, or kills it. The index, the copies and what is left in the array make no
difference.

### EvsipConfig

`file` is what the author wrote and meant, `unread` the characters `fgets` has
not returned. The string helpers are operators on sequences; positions count
from 1 and the position behind the end holds the terminator. `ReadLine` is one
turn of the loop. The 64 bytes `memcpy` takes from the line are represented by
the string in them; that they come from outside the buffer is a fault, that
they hold no terminator is a fault when they are printed.

What a line means is stated without the helpers of the code, by the positions of
its parts: the name stands before the separator and nothing else does but blanks
(`NamedBefore`), the value behind it, between blanks and perhaps a comment
(`TextBehind`). `WellWritten` are the lines that fit in the buffer and say in
this way what their author meant, or that hold no option's name before a
separator. The properties are about files of such lines; the code reads the
others in a way of its own: a line that is too long in pieces, a comment behind
an empty value as the value, a value with an equals sign behind a colon as part
of the name.

## 3. Runs

| run | question | bounds | result |
|---|---|---|---|
| `registry` | do flag, list, ownership and memory stay consistent; is a destroyed end point left alone; what is a positive answer worth; does the handler implement the location service? | 3 hosts and no host, a user and no user, 3 end points, 8 combinations of Expires header and parameter (absent, zero, positive, negative), any allocation may fail | holds |
| `registry_no_answer` | is every REGISTER answered? | 2 end points | violated: a REGISTER without Contact |
| `registry_global_list` | does the list outlive an end point? | ordinary requests only | violated: removing the first one |
| `lifecycle` | is the loop set up, is it left properly, does every signal stop it, does a failed start clean up, is a stop honoured? | every call may fail, 3 signals, 2 pending reports of nua | holds |
| `lifecycle_terminal` | is the terminal restored? | one signal | violated on the successful way out |
| `system` | are requests handled whenever they come, does exit wait for them and not for ever, what can break the server, does the process implement the server? | 4 requests (register two hosts, remove the second, INVITE), 3 end points, 1 signal, the prompt may fail to start | holds |
| `mem` | do counts, lifetimes and return values agree, whatever destructors do? | 3 objects, 3 references of each, 3 nested destructors, a count of three values | holds |
| `cmd_list` | is the index right when it is used, and what can a stale one do? | 4 commands, 3 names, one a prefix of another, all failures | holds |
| `cli` | does the prompt do what it promises, with any failing registration? | the 4 commands, 3 characters, a line of 3 | holds |
| `cli_length` | is the line bounded? | the same | violated: backspace on an empty line |
| `config` | does every line do what it says? | 2 lines out of 125, a buffer of 16 and fields of 8 | holds |
| `config_colon` | does every name[=:]value pair set its option? | one more line | violated: `=` in the value behind `:` |

Bounds. Two hosts are enough for an end point to be first or not first in the
list, three for one to be removed from the middle; three end points let a
removed host come back with a new object, and with a failed append let one be
lost, one listed and one new. `Word` stands for 2^64:
only its relation to the durations in use matters. Three signals exceed what
the two threads can be busy with at once. End points and hosts
are symmetric and the run `registry` uses that; it checks invariants and
properties of single steps, no liveness, and no property names an end point or
a host.

In `system` four requests are enough to register two hosts, remove the one that
does not own the list and register it again, and to have requests before and
behind a stop; with 4 requests of 2 hosts no more than 3 end points are made. One
failing call is enough, `lifecycle` has them all: the one that fails while nua is
up. Allocations do not fail there. The properties with liveness exclude symmetry.

Three objects allow a destructor that releases a second object, whose destructor
uses a third; a count of three values wraps at the third reference, the last one
a caller may take. Four commands allow one before and one behind the removed one and
one that fails; a name that is a prefix of another one only occurs in the runs of
the list, the four names of the program have none. A line of three characters
has an empty, a partial and a full one, and takes the longest name and one more
character. In `config` the buffer keeps its ratio of two to a field, and the
lines include one that fills the buffer exactly, values of 7 and 9 characters
for a field of 8, and a value that starts in the second half of the buffer; two
lines are what one option needs to override another or to be left alone by it.
Four of the lines are not well written (`Misread`); TLC checks that they are the
only ones that `WellWritten` excludes.

`ListedUsable` and `OnlyDestroyedLeave` depend on what callers destroy: one that
destroys a command outside of `sure` goes by a stale index and may remove
another. `StaleIndexNotBefore` bounds that damage.

Disagreements between the code and its comments that have no run of their own:
the configured limits of Expires (`evsip_config.h:49`) are read and never
consulted; `evsip_cli_deinit`, which is to free all memory (`evsip_cli.h:57`),
frees no command; after a failed start a signal still reaches the destroyed root
(`SignalOnDeadRoot`); a comment behind an empty value becomes the value
(`evsip_config.c:112`); a line longer than the buffer is read as two
(`evsip_config.c:200`). The models behave as the code does in each of them;
the properties of `config` except the files with lines of the last two kinds.

Fairness. `WF_vars(Main)`: the kernel schedules the main thread. `WF_vars(NuaDown)`:
nua ends a shutdown by itself or by its own timeout. In `Evsip` the main thread
also takes out requests (`MainThread`). Neither the user nor signals nor the
arrival of requests are fair. The nua thread is not assumed to make progress while a signal
handler keeps it.

## 4. Proofs

`EvsipRegistryProofs` proves `Spec => []IInv` for every value of the constants,
that is for any number of hosts, users and end points, any set of requests and
any set of failing allocations, from the assumptions the module
declares: NULL is none of the other values, the requests are well typed, the
word is large enough for the default duration.

`IInv` is inductive as the conjunction of type correctness, `FlagMatchesList`,
`HostsUnique`, `ListedReadable` and, on a running server, `OwnerOK` (the vector
is in the home of the oldest listed end point or of a lost one; without a vector
nothing is listed) and `Kept` (an end point in use is listed or lost, never
both, and one whose home is empty has no strings). None of them but the type is
inductive alone. Removing an end point keeps "what is listed is allocated" only
because it occurs once in the list (`FlagMatchesList`), and a refresh finds its
end point attached only because flag and list agree. The argument goes by lemmas
about the three ways an end point changes: `StoreNew`, `StoreFound`,
`RemoveListed`. `EndpOK` is the invariant on a running server; a fault only has
to keep the parts that do not speak of memory. `Kept` is why a found end point
is released when it is removed: it has a host, so its home is not empty.

From `IInv` follow the seven invariants of the registrar that do not speak of
answers. `AnsweredIsStored` is inductive together with `IInv`: only `StoreNew`
and `StoreFound` lead to a positive answer with a duration, and the end point they
write is listed or lost. `ReleasedForGood` is proved for every step: a released
end point is not listed (so not refreshed), not "none" (so not created), and a
removal lists nothing new.

`EvsipMemProofs` proves the counting for any number of objects, any word and any
nesting. `CountInv` is the induction: type correctness and, for the objects
whose count never wrapped, the exact count `nbRefs[o] = held[o]` while live;
held objects are live, unheld ones are freed or on the stack of destructors;
NULL was returned of freed objects only. It needs no assumption on destructors.
`MemorySafe` needs more: an object is on the stack at most once and is live while
it is there (`StackOK`). That is inductive only for the behaviours in which no
count wrapped and no destructor dropped the last reference of its own object
(`Orderly`), so `SafeInv` is `Orderly => StackOK`: both history variables only
grow, so a step to an orderly state starts in one.

`EvsipRegistryProofs` also proves `Spec => ImplementsLocationService` under the
same assumptions. The service's binding is the map the listed end points make
up (`Bindings`); a map that agrees with the end points on hosts and contacts is
that map (`BindingsAre`), which needs that no two of them have the same host.
`HostsUnique` says so only of end points with a host, hence the further
invariant `NullAlone`: while the registrar serves, one without a host is alone
in the list, since every lookup that reaches it ends the process. `NewBinds`,
`RefreshBinds` and `RemoveUnbinds` give the new map for the three ways to
answer 200, `QuietServes` is every other answer, `Dies` the steps with a fault
or a first lack of memory, and `DeadForGood` the ones after it.

`EvsipLifecycleProofs` proves the invariants of the life cycle for any set of
calls that may fail, any number of signals and any number of reports of nua;
that the two bounds are natural numbers is all it assumes. `Started` says, call
by call, what main has behind it when it makes the next one; `LoopIsReady` is
among its last lines, but not inductive without the ones before it. `TakenBack` says
the same of the way out, which every failed call joins at the same place
whatever has been done before: the terminal is known by `cliState`, file and
root by themselves. `Message` makes `HandlerHasMessage` exact: the nua thread is
in the handler if and only if there is one `Break` in the queue, and then there
is only one. The lemmas on `Waiting` say what a message that comes in or goes
out does to that set. `SignalHeeded` needs both: the handlers are there whenever
their context is (the last line of `Started`), and the message of the nua thread is
in the queue after the step. It is what remains true where `evsip_start`
ignores that "exit" could not be registered, and it says when the window of
`SignalBeforeContext` is closed.

`EvsipCmdListProofs` proves the command list for any number of commands and
names and whichever allocations fail, assuming only that NULL is neither.
`ItemsOK` is that a command is listed once and alive, with an index that is not
before its position: a removal moves positions down and no index up. `SureOK`
is that the index of a command in `sure` is exact, or behind the end if the
command is not listed; every removal empties `sure`. The first
makes the list usable, the second makes destroying a command remove that one.
`LiveNamed` carries the name from registration to the find that reads it.

`EvsipCliProofs` uses these lemmas for the actions of the list inside the
prompt. `CliInv` adds `BufferClean` and `HandleOK`, that the command main holds
while it starts is not listed: so destroying it after a failed registration
takes nothing out of the list (`OffersKept`). A fault ends everything, so all of
it is claimed without one only. `PromptIsCommandLine` then goes key by key:
`Line` and `Table` are what the array and the list stand for, `TextIsText` that
the string up to the first terminator in the array is what `CommandLine` looks
up of the line, which is where `BufferClean` is needed, and `HitIsHit` that both
find the same name. It assumes what the module declares: the names are not empty
and consist of the characters, NUL is none, and the word exceeds the length of the
array.

`EvsipProofs` proves `HandledBeforeExit` for any number of requests and
whichever calls fail, assuming only that the bounds on requests and signals are
natural numbers. Its invariant has two parts. `Counted`: as long as nothing went
wrong, the requests received and not served are those in the queue
(`PostedCounts` and `TakenCounts` say what a message that comes in or goes out
does to their number). `Polite`: as long as no signal came, only reports of the
nua stack stop the loop, and it reports only after "exit"; so what is behind a
report came after "exit", and so did all that is left once the loop was stopped.
`ProcessSteps` sorts the steps of the life cycle by what they do to the queue,
and the rest of the proof does not look at them again.

For `OnlyRegisterBreaks` and the steps of `SipServer` the module instantiates
`EvsipRegistryProofs`: what is proved of the registrar alone holds in the
server, because a handler is one of its steps (`RegisterIsStep`, `HandlerSteps`)
and no other step touches it (`OtherSteps`). `Evsip` therefore assumes of its
constants what the registrar does (`RegistryAssumption`). `ListedReadable` in the
registrar's invariant is what a dump or an INVITE needs to find the list whole.
`ProcessIsSipServer` needs two invariants more. `Prepared` says what main has
prepared from `nua_create` to the end of a successful run: the root, the
handlers and what they use, so that no signal and no late request kills the
process there. `Untouched` says that without the loop nothing is registered or
answered, so that a death at start-up changes nothing a client was told. It is
proved for `AllocFault = {}`, as the run checks it: after a lack of memory the
bindings are no longer the list's.

`EvsipConfigProofs` proves the three invariants of the configuration for any
options, any characters and lines, files of any number of lines and any sizes of
buffer and field with `1 < ValueMax < LineMax`. It assumes what the module
declares: NUL is no character of a file, separators and semicolon are no blanks
and not part of a name, no name is empty or belongs to both types, the digits
have values from 0 to 9, the defaults have their types and fit, and an end of
line occurs only at the end of a line.

The helpers of the code strip and search, the meaning of a line is in positions,
so each helper has two lemmas: which position it stops at if something holds
there and not before (`RStripIs`, `LStripIs`, `FindCharIs`), and that there is
such a position (`RStripMeans` and so on). A line is then followed through
them. `Trimmed` says what is left of it without the blanks around it. In a line
that sets an option the name begins there (`NamePlace`), nothing in it or
behind it is taken for a separator or a comment (`NothingBefore`), so the
separator is the one the author wrote (`SeparatorFound`: behind a colon an
equals sign in a comment is not reached, and there is none in the value). The
parts between the blanks are then name and value (`NameFound`, `ValueFound`). A
line that sets nothing has no option's name before a separator, so none is
found (`PairHasName`, `UnsetLine`).

`AsWritten` is not inductive: it says nothing of `unread`. `IInv` adds `Behind`,
that what is unread is what the file holds behind the lines counted so far,
perhaps without the end of the last one, so that `fgets` returns the next line,
whole (`LineRead`); `GivenSoFar`, that the options have the values which those
lines give; and `InPlace`, which ties `lineno` and `fd` to the progress of main.
At the end of the file `AllRead` is needed: one line may never be counted, an
empty last one without an end, which sets nothing. For `ShortLinesSafe` a short
line leaves room for a value behind it (`RoomBehind`) and the values it gives
end within their fields (`ValuesFit`).

`OnDisk` and `Atoi` are recursive functions. That they exist and what type they
have is proved by `RecursiveFunction` and `CountingUp`, an induction stated of a
set of positions. What number `Atoi` returns is not proved of it: `WellWritten`
takes it as the meaning of the text of an integer option. Its numbers are those
that fit in an `int`; `atoi` gives no meaning to others, and the models leave
them out although TLA+ integers have no width.

Only model-checked: liveness under fairness, which is out of the prover's reach:
`QueuedStopHonoured` of the life cycle, `RequestsHandled` and `ExitNotStarved` of
the server, and `ImplementsSipServer`, whose steps are proved but whose fairness,
that a start comes to an end, is not.

## 5. Plan

Done: `EvsipRegistry` with `LocationService`, `EvsipLifecycle`, `EvsipMem`,
`EvsipCmdList`, `EvsipCli` with `CommandLine`, `EvsipConfig`, `Evsip` with
`SipServer`; the invariants of the registrar, of the life cycle, of the command
list, of the prompt, of the memory objects, of the configuration and of the whole
server proved, and that the registrar is a `LocationService`, the prompt a `CommandLine` and every
step of the process one of `SipServer`.

Left: no safety or action property waits for a proof. What remains is to shorten
the configuration proofs, the longest of the project, by moving what they say of
sequences into `ListLemmas`.

Not modelled: log output and its format, the contents of dumps, terminal modes
beyond saved and restored, integers `atoi` cannot represent, SIP transport and
parsing (sofia-sip), the stubs that are not compiled.
