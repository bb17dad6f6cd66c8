# TLA+ models of huterm

huterm is a terminal emulator and multiplexer written in Rust.  This directory
holds models of the parts of it where threads, queues, flags and files meet, the TLC
configurations that check them, and TLAPS proofs of what must hold for any
number of viewers, any capacities and any amount of input, output and failures.  Source
paths below are relative to `src/crates/`.

## 1. The system

| Component | Source | State it keeps | Operations | What is hard |
|---|---|---|---|---|
| Viewer registry and handles | `huterm-core/src/viewer.rs` | slots with an order, per-slot flags and a count of queued requests, a change flag, closed | register, drop, revoke, send a request, reconcile, settle | flags, registry and queue change in different threads and in several steps each |
| Viewer arbitration | `huterm-core/src/viewer/arbitration.rs` | who controls the size, who is focused, whose mouse gesture is under way, effects still to be applied | adopt, finalize, activate, focus, press, release, reset, modes | gestures and focus of many viewers become the input of one application |
| Runtime owner loop | `huterm-core/src/terminal.rs` (`run_terminal`) | controls, requests, output, spilled writes, exit and end of output, the running command | one turn: observe the exit, reconcile, controls, flush, one message, sleep | bounded work per turn, priorities, and sleeping without losing a wake |
| Runtime writer, reader, child watcher | `terminal.rs` (`spawn_writer`, `forward_output`), `pty.rs`, `child_wait.rs` | the write under way, the batch being read, the result of the wait | write, read, wait, report, stop | full queues, hangups, failures and exits in every order; teardown |
| Wake | `huterm-core/src/wake.rs` | one pending flag | notify, consume, wait | one wake stands for many messages, and follows the message it is for |
| Host effects | `huterm-core/src/host_effects.rs` | recipients, permissions, generations, budgets, queues | admit, register, revoke, close, invalidate, take | four kinds of lock, reservations freed exactly once |
| Close consent | `huterm-core/src/mux/lifecycle.rs`, `jobs.rs`, `jobs/lifecycle.rs` | tickets with the evidence a user consented to | check, prepare, resolve, commit, attach, detach | the structure or the jobs change between consent and commit |
| Mux hierarchy | `huterm-core/src/mux.rs`, `mux/{hierarchy,moves,arrange,restore}.rs` | sessions, workspaces, tabs, panes, attachments, registered viewers, revisions | create, close, move, reorder, swap, zoom, undo, attach, view | a long sequence of edits keeps one tree, its events describe it, and viewers keep their right to a terminal |
| Capture and restore | `huterm-core/src/mux/capture.rs`, `mux/restore/` | a captured structure | capture, restore, roll back | a restore that fails half way |
| Client projection | `huterm-protocol/src/hierarchy.rs`, `huterm-gpui/src/desktop/windows/projection.rs` | a client's copy of the structure, a subscription, parked completions | reduce an event, drain, resubscribe, park, freeze | must equal the runtime's structure through lags, and leave nobody waiting |
| Pane layout | `huterm-protocol/src/{pane_layout,layout_template}.rs` | a tree of splits | split, close, swap, resize, divide space | space divided exactly, minima, rounding |
| Saved state | `huterm-state/src/{store,atomic,lock}.rs` | two files, a set-aside copy, a restore marker | open, load, save, set aside, remove | crashes between the files of one save |
| Desktop persistence | `huterm-gpui/src/desktop/windows/{persistence,checkpoints,restore}.rs` | the state of saving, the job queue, the slot of the writer, captures under way | launch, restore, checkpoint, turn on and off, Quit | captures, writes, removals and Quit overtake each other; the process dies between any two |
| Desktop, quake, input queue, deferred work | `huterm-gpui/src/` | windows, timers, refused input | projection, exit closes, transfers, retries | event order of one UI thread |
| Configuration, schemas, commands | `huterm-config`, `huterm-state/src/{schema,desktop,…}`, `huterm-protocol/src/{command,…}` | text and data | parse, edit, encode | text; covered by unit tests |
| Engine, process information, rendering, IPC simulation | `huterm-ghostty`, `huterm-procinfo`, `huterm-ui`, `huterm-ipc-sim` | external | FFI, system calls, drawing | external or not yet part of the program |

How they interact.  Each terminal has one owner thread.  Views hold viewer
handles and put requests into its bounded input queue; other clients put
controls into a second queue; the reader puts batches of output into a third.
Every send is followed by a notification of the owner's `Wake`.  The owner alone
touches the engine, and writes to the PTY through the writer's bounded queue,
spilling what does not fit.  The mux owns the runtimes and the tree above them,
publishes events that clients reduce, and asks the runtimes for job evidence
before a close.  Terminals queue effects (clipboard, notifications) for one client each, which
a view carries out.  The desktop reduces the mux's events into its own copy, and saves the tree
and its windows through one writer and the store.

`PROJECT.json` lists every component with its status and every hazard with the
line where it bites and the properties that would catch it.

## 2. Modules

| Module | Models | State and actions |
|---|---|---|
| `Arbitration` | `viewer/arbitration.rs` | the arbiter as a record and its methods as operators on it: `SetFocus`, `PressAdmitted`, `FinalizeMouse`, `MergeFocus`, … |
| `Viewers` | `viewer.rs`, and of `terminal.rs` the reconcile, the handling of requests and the sleep | `slots`, `order`, `dropped`, `revoked`, `queued`, `changed`, `unmarked` (a flag stored whose registry mark is still to come), `sending` (a request counted but not sent), `queue`, the owner's `pc`, the arbiter `arb` and the application `app`; one action per call or step of one |
| `MCViewers` | – | symmetry for the configurations of `Viewers` |
| `ViewersProofs` | – | lemmas on the arbiter's operators; two inductive invariants and the theorems |
| `InputPipe` | what the path to a PTY promises (`queue_write`, `flush_pending_write`, `spawn_writer`) | `accepted`, `delivered`; `Accept`, `Deliver` |
| `Runtime` | the owner loop without viewers, the writer, the reader, the child watcher, the wake, clients | a program counter per thread (`pc`, `wpc`, `rpc`, `xpc`, `closer`), the queues (`input`, `controls`, `outputs`, `writes`), `pending` spilled writes, the flags `closing`, `inputClosed`, `requested`, `wake`; one action per step between two operations another thread can see |
| `RuntimeProofs` | – | the inductive invariant and theorems; `Runtime` implements `InputPipe` |
| `HostEffects` | `host_effects.rs` | recipients (`home`, `handle`, `active`, `allowed`, `generation`), sinks (`closed`), budgets (`used`, `shared`), `effects` with where each is, `signal`; a program counter per owner thread (`opc`), per revoking worker (`rev`) and for the view (`draining`); one action per lock taken |
| `MCHostEffects`, `HostEffectsProofs` | – | the scenarios of the run; the inductive invariant and theorems |
| `Hierarchy` | `protocol/hierarchy.rs` and the tree edits of `mux.rs` | the tree as functions from parents to sequences, what holds of every tree (`Sound`), the events, and the reducer: `Accepts`, `Applied` |
| `Mux` | `mux.rs`, `mux/*`, `layout_history.rs` | the tree `h`, `terminals`, `viewers`, `revision`, `seq`, one subscription `queue`, one window's undo `history`; one action per structural operation |
| `CloseConsent` | `mux/lifecycle.rs`, `jobs.rs`, `jobs/lifecycle.rs` | `Mux` and the close `ticket`, the process `table`, the jobs consented to and found again; `Prepare`, `CheckJobs`, `Ask`, `Recheck`, `CommitClose`, … |
| `MuxProofs`, `CloseProofs` | – | lemmas on lists, partitions and the edits of a tree; the inductive invariants of `Mux` and of `CloseConsent`, and theorems |
| `Projection` | `windows/projection.rs`, `windows.rs` | `Mux` and the desktop's `view`, `completions`, parked `waits`, the resubscribing `worker`; `Woken`, `Completed`, `Resubscribe`, `Install`, `Terminate`, `Teardown` |
| `ProjectionProofs` | – | what each operation says of its edit, what the reducer makes of it, the inductive invariant and the theorem |
| `PaneLayout` | `protocol/pane_layout.rs` and the operations of `mux.rs`, `mux/{moves,arrange}.rs` that transform a layout | `tabs`, the split tree of each, as its root and its splits by identity; one operator per transform, one action per operation |
| `PaneFocus` | `normalized_rects` and `neighbor` of `protocol/pane_layout.rs` | no state of its own: the rectangle of each pane of a layout, and the panes a direction leads to |
| `PaneLayoutProofs` | – | lemmas on weights, lists, trees and rectangles; the inductive invariant and theorems, of `PaneFocus` too |
| `MCMux`, `MCClose`, `MCProjection`, `MCPaneLayout` | – | starting structures and budgets of operations; the weights of `PaneLayout`, and its states but for identities |
| `Archive` | what saved state promises a launch | `found`, `promised`; `Replace`, `Promise`, `Complete`, `Withdraw`, `PowerLoss` |
| `Store` | `huterm-state/src/{store,atomic,lock}.rs` | `disk` and what a power loss may leave of it (`past`), the store's memory, the rest of the operation under way (`script`); each operation is a script of steps |
| `Persistence` | `windows/{persistence,checkpoints,restore}.rs` | `Store` and the launch, the owner's state and job queue, the writer's slot, captures, the restore, Quit |
| `PersistenceProofs` | – | the inductive invariant and theorems; `Persistence` implements `Archive` |

`Runtime` and `Viewers` share the owner's loop: `Viewers` details who may send
which request and what it does, `Runtime` what happens around it.  A request is
one write in `Runtime`; in `Viewers` the writer is a flag that says it is full.
`CloseConsent` and `Projection` each compose `Mux`, which they extend, with what runs beside it;
`Persistence` composes the store with the program that uses it.

### Viewers: correspondence and abstraction

- `Register`, `Drop`, `Revoke`, and the start, success and refusal of a send are the
  handle's calls; each stores a flag and marks the registry in two steps, as the
  code does.  A drop cannot overlap another call on the same handle (Rust's
  ownership forbids it); a revocation can.
- The owner takes the change flag, lists the slots, retires departed entries and
  adopts new ones in steps of their own, since handles change flags in between.
  Each flag only goes one way, so reading them one after another and reading
  them at once differ only in what a later reconcile sees.
- Requests: presses and releases of buttons, focus, geometry, presentation,
  typing and resets.  Motion, wheel and the place of a release are left out; the
  modes of focus reports and mouse encodings are on.  Scrolling, clearing the history
  and compression, where they end a gesture, are the reset.
- The failures of the engine, the host and the writer, and a disconnected
  queue, are `Stop`, between turns.  Messages that are accepted between the store of
  `closing` and the drop of the receiver are lost with it.  Timed waits are plain
  waits; a refusal for the byte budget is `Refused` like any other.
- Revision stamps range over `0..arb.revision`.

### Runtime: correspondence and abstraction

- A send queues in one step and notifies in another (`wake.rs`); likewise
  `RuntimeClient::close` stores the flag and then sends.  `unnotified` counts the sends
  whose notification is still to come.
- The owner's loop is cut wherever another thread can interfere: the exit, each
  control, the check of `closing` between controls, each batch parsed, each
  write, each try to flush, the request for capacity, and each poll of the two message queues.
- A write takes `Parts` calls to the PTY; `room` says whether the PTY takes the next.
- `Happenings` chooses what may happen besides input and output: an exit, a
  hangup, a client's close, and the faults of a read, a write and the wait.
- The chunk number `MaxOutput` carries the mark that ends the running command.
- Merged into one step: `status.failure` with the store of `closing`; the releases of
  teardown; the four parts of `close_input`.  Each goes one way and is read by one thread.
- Left out: memory weaker than sequential consistency (the fences around
  `WriterCapacity`), timed waits and interrupted system calls, the Windows
  paths, failures to start, errors and panics of the engine, the bounded kill
  and reap of the child, and the exit of `next_message` when both queues lost
  their senders.  Snapshot, selection and job requests are the control `query`.

### HostEffects: correspondence and abstraction

- A thread takes a lock, does what the lock protects, and gives it back; each such piece is
  one action, so every interleaving of lock steps is a behaviour. A lock is not a variable: who holds
  it follows from the program counters (`StateFree`, `TerminalFree`, `ProcessFree`, `QueueFree`), and
  a step that needs it waits for it.
- `generation` counts to `LastGeneration` (`u64::MAX`); the recipient that reaches it is deactivated, as in
  the code. The ordinal of the most recent use decides which of several eligible recipients is
  chosen: the model lets it be any. `invalidate_attachment` revokes any set of recipients.
- Recipients that are not local or not writable are those that never register. The overflow of the
  registration number is left out. A turn of the UI takes one effect, as `try_next` does.
- `try_next` gives up when the queue is locked (`host_effects.rs:303-320`), and an admission that holds it and is
  then denied never signals: a valid effect can wait for the next wake. The set `missed` names
  these recipients, and `NoneStranded` and `EffectsSettle` except them, and only them.

### Hierarchy, Mux, CloseConsent, Projection: correspondence and abstraction

- An operation of the mux holds one lock throughout, so it is one action: the edit of the tree, the
  viewers revoked, the event, the revision. A refused operation changes nothing and is no step.
- A layout is the sequence of its panes and its zoom. The split tree and its weights are in `PaneLayout`; names, input
  synchronisation and resizing are left out: no operation here depends on them. A pane and its terminal share
  one identity, since they are created and die together. A spawn may fail (`SpawnFails`). The refusal of a
  move because its split is in use is left out.
- One desktop window's undo and redo entries are recorded and applied; what another
  window changes is not recorded but may make an entry stale.
- Edits that the code makes one after another under the lock are written as what they amount to: the tabs of a
  close are taken out together (`WithoutTabs`), and a restore takes out the tabs that go and lays out those
  that stay in one edit (`Cleared`), then inserts the others in the order of their recorded positions (`Reinserted`).
  The events still say each edit on its own (`ClearingSteps`), so `FollowsStream` compares the two. Two insertions of one
  restore with equal positions do not occur: an entry brings back at most one tab in either direction.
- A start is a whole structure whose identities are 1 to n, as the allocator would have left it.
- The revision is advanced once per operation, where the code may advance it once per
  edit: only equality is read.
- `CloseConsent` has one ticket at a time. Job lists are read per terminal from a process table that may be
  unreadable; a ticket may be abandoned at any time, which also stands for its age limit of two
  seconds. A PID reused after its shell's exit is `Stranger`. An `exec` by a surviving member of a
  group is left out. While a commit is possible, one structural operation is left to it.
- `Projection` drains the subscription in one step, as a turn of the UI thread does. A lagged
  subscription is replaced through a worker; the old one is not read meanwhile. `Sampled` is a
  completion's stale look at `terminating`. Reconciling the windows is the variable `shown`. Between
  `Terminate` and `Teardown` only closes commit. The stream of another runtime (`Closed`) is left out.

### PaneLayout: correspondence and abstraction

- A tab of `Hierarchy` is its panes in order; here it is its split tree, and the sessions, viewers and events are
  left out. The two models share no state: which panes are in which tab follows from either.
- `PaneNode` is a tree by ownership. Here a layout is its root and a function from the splits to their axes and
  children, and a node is an identity; a transform that descends to a pane in the code starts at the split that holds it
  (`HolderOf`, `Place`). What the code does on its way back up, `normalize_child` in each split above the
  one that lost a pane, is `Up`, as often as there are splits. So no transform is recursive, and all can be proved about.
- That the nodes make a tree, which the code has from ownership, is a fact here: `Frame`, part of the proof's invariant.
- The runtime counts identities up and never gives one twice. Here those of closed panes and of splits that are gone may
  come again (`NextSplit` is the least free), which tells nothing apart: no property and no guard reads an identity
  of the past. `resize_split` and `arrange_panes` of a structure that has changed (`ChildrenChanged`) are refused and are no step.
- A tab closed whole is its panes closed one by one, and a layout undone is one of those reached before. Templates and
  the client's own fit also propose arrangements, which `PaneLayout::new` validates; only balancing is modelled.
- The transforms are translated as they are: `check_split` before the insertion, `normalize_child` after each edit at
  each level, the weights in integers with their rounding. `SplitAssumption` is what the constants of
  the code satisfy (a million, 256) and what their comment argues from: the largest child of a full split can
  absorb the rounding of a flatten.
- `Neighbors` is the set of best candidates; the focus history and the traversal order, which decide between them, are
  left open, so `NavigationReaches` holds for every history. Rectangles have the code's integer edges.

### Archive, Store, Persistence: correspondence and abstraction

- An operation of the store is the list of what it does to the directory, in order. `Step`
  takes the next one, `Fault` makes it fail and ends the operation, and a crash or a power loss may
  come between any two. Replacing a file writes and syncs a temporary first, so a name holds
  its old or its new content; until the directory is synced, a power loss may leave any content
  the name had since the last sync, for each name on its own (`past`).
- Temporaries, the copies that set-asides leave, the directory lock and failures to open the
  store are left out; a structure whose socket name differs counts as corrupt.
- A save's number (`save`) is read by the properties only. What the code compares is scope and
  generation, and a launch that does not load a structure makes a new scope. Exhausted
  generations and empty captures are left out.
- `Launch` reads the files and the marker at once, any of them possibly unreadable, and
  `LaunchCalls` is the Failures table of `restore.rs`. `Init` has what an older, a newer or a damaged
  run may have left (`LeftBehind`).
- The owner's flags, the job queue, the slot (a mutex around the store and what was last
  written) and the captures are as in `persistence.rs` and `checkpoints.rs`; a capture takes its
  number and the layout first and the structure later, so captures overtake each other.
- What runs where decides what is one step. `TakeCheckpoint`, `Settle` and its successors, `SetEnabled` and
  `Suspend` run on the UI thread, in no other's way; `CaptureRuntime`, `Checkpoint` and `SendCheckpoint` on a
  background worker, one for each capture; `MarkAttempt` on the restore's worker; `Writer` on its own thread; `Quit` and
  `QuitWrite` where a close commits or the program shuts down.
- `Persistence::checkpoint` reads the state, lets it go and then sends. That is two steps, `Checkpoint` and
  `SendCheckpoint`: a Quit, or the setting turned off, comes in between, and the checkpoint is queued behind the
  barrier or the removal. `Persistence::settle` is a look at the state, one or two jobs and a transition, and a Quit may come
  between any of them. `set_enabled` holds the state's lock until its removal is queued, and is one step. `finish` sets
  the state and then sends its barrier; that is one step too, as whatever is queued between the two
  stands before the barrier, where it would stand had it been queued first, and the writer may run any of
  it after the state is `final`. A flush that finds no writer is a barrier in an empty queue.
- Nobody waits for the writer at the end: `Exit` may find it at work on what is queued behind the barrier.
- A change and the mark that a checkpoint is due are one step; the quiet second before a checkpoint
  has no length. The deferral of a checkpoint while a tab is being transferred is left out. A
  launch without a restore opens a fresh window, which is a change.
- A restore is its outcome: it settles, it fails, it is cancelled by Quit. What it builds is
  the structure saved.

## 3. What is checked

`CHECK_DEADLOCK FALSE` everywhere: a terminal that ended, or that nobody talks
to any more, a program that has quit for the last time, and a structure with no operations left, take no step.

| Run | Bounds | States | Shows |
|---|---|---|---|
| `viewers` | 2 viewers, 1 button, 2 sizes, queue of 1, 3 requests, 1 call each; no resets | 4.5 M | a gesture has a live owner and ends only by it; no button sticks; a counted request finds its slot; the application knows the viewers' focus; no slot leaks; the size is the controller's |
| `viewers_live` | 1 viewer, with output, a backlog, hangups and stops, resets | 0.4 M | departed viewers leave; requests run |
| `runtime_input` | 2 requests and a query for a writer's queue of 1, hangups | 0.5 M | what is offered arrives; only a real failure is reported |
| `runtime_output` | 1 chunk with up to 3 replies, queues of 1, exit, hangup and every fault | 3.4 M | the end follows the output; input arrives in order; no wake is lost; late failures keep the history |
| `runtime_end` | 2 chunks for a queue of 1, exit, hangup, close | 0.2 M | commands settle; teardown ends |
| `runtime_close` | 1 request, 1 close | – | a violation: see section 5 |
| `host_effects` | one recipient with every kind and size, and two on two terminals that contend for the process's bytes; 2 admissions, 1 withdrawal or close | 0.7 M | budgets are exact; what was withdrawn is not run; a close settles; effects settle |
| `persistence` | 2 structures, 2 launches, up to 2 changes, toggles, crashes and power losses together, 1 fault | 1.1 M | the files implement the archive; newer files stay; Quit's write stays; what the setting deleted stays away; no crash loop; checkpoints land |
| `persistence_unchanged` | 1 launch, 2 changes, 1 fault | – | a violation: see section 5 |
| `mux_close` | 2 sessions; 3 operations, or a close around 2 operations, a process, or 3 processes and an exit | 1.2 M | one home for every pane; viewers stay within their session; what is closed is what was consented to |
| `pane_layout` | 4 panes (5 with the split tried), 2 tabs, 3 children to a split, weights out of 10, the smallest weights a user can set | 8 k | what a check allows fits and can be closed again, and gives back what was there; the focus reaches every visible pane |
| `projection` | 2 operations of any kind, 4 that rearrange, 3 with undo; a subscription of 1 event | 0.4 M | the copy follows the stream; nobody is left waiting |

Why the bounds are enough to meet the hazards.  Queues of one are full with the
first message, so every path of a full queue is taken; a control batch of one
ends a turn short as soon as two controls wait.  Two viewers are the fewest that can
dispute a gesture or the control, and one more request than the queue holds
is refused; the gesture properties, the focus and `RequestsKeepSlot` are proved for queues of any length and with resets.  Three replies for a writer that holds one write and queues one
spill; two chunks are the fewest for which the reader blocks on a full queue while the owner joins it. Writes
of several parts are in no run, but `InputOrdered` is proved for every number of parts.  Two
effects fill a budget and a third is refused; two terminals are the fewest
that share the process's budget. Two launches are one that restores what the other left behind, and `LeftBehind` starts
the first with files of an earlier run (of one structure, `Earlier`: which one tells nothing apart); a fault and a crash in one behaviour are the fewest that undo
a save in two ways. Larger instances of `persistence` were run once: 4 launches with 3 crashes
(`NoCrashLoop`), and 3 launches with 2 crashes, 2 faults and 3 events. In
`pane_layout` three children are the fewest with which a nested split can be kept for want of room and flatten later, ten the least even total
`SplitAssumption` allows, and weights of one make splits too small to divide. No rectangle rounds to nothing
at this size; that a skipped pane keeps nobody from the others is in the theorem alone. A view makes states equal whose trees are,
as the identities of panes, splits and tabs decide nothing. Two
sessions with two attachments are the fewest between which a move revokes a viewer. The
proofs remove the bounds for the safety properties they cover.

The properties:

- `Viewers`: `GestureOwnerLive`, `NoStuckButton`, `FocusFaithful`, `RequestsKeepSlot`,
  `NoLeakedSlot`, `ControllerDecides`; `GestureEndsByOwner` (what a step may never do);
  `DepartedLeave`, `RequestsRun` (liveness).
- `Runtime`: `NoLostWake`, `FailureHasCause`, `OutputComplete`; `HistoryKept` (what a step may
  never do); `InputInOrder` (the refinement of `InputPipe`); `CommandSettles`,
  `TeardownEnds`, `InputArrives` (liveness).
- `HostEffects`: `BudgetExact`, `NothingStaleQueued`, `NeverAfterWithdrawal`, `CloseSettles`, `NoneStranded`;
  `EffectsSettle` (liveness; it also fails when two locks are taken in opposite orders).
- `Persistence`: `StoreKeepsArchive` (the refinement of `Archive`), `NewerStays` (what a step may never do),
  `LastWordStays` (two parts: `QuitKeeps` and `OffLeavesNothing`), `NoCrashLoop`, `CheckpointsLand` (liveness).
- `Mux`, `CloseConsent`: `OneHome`, `ViewersInSession`; `ConsentedScope`, `ConsentedJobs` (what a commit may never do).
- `PaneLayout`: `TransformsFit`. `PaneFocus`: `NavigationReaches`.
- `Projection`: `FollowsStream`; `CatchesUp` (liveness).

Fairness.  The threads of a terminal run until they block: weak fairness of
`Owner`, `Writer`, `Reader` and `Observe`, and of a call that has begun (`Call`,
`Notify`, `CloseSent`).  Nothing is assumed of users, of the child or of the
application; a property that needs the application to read says so in its
premise (`[]<>room`, `[]<>(~spilled)`, `<>[](~spilled)`).  In `HostEffects` an admission, a
revocation and a registration that began run on, and a view serves its wakes; nobody need begin
one. In `Persistence` the threads and timers of a running program go on (`Working`): the operation under way, the
launch, the restore worker, captures, the writer and a Quit that was asked for;
changes, the setting, faults, crashes and exits need not happen. In `Projection` the UI thread and the
executor take what stays ready; it is weak fairness of the four steps, written out so that TLC need
not evaluate their enabledness.

Each property has a mutant of the code in `PROJECT.json` (an operator next to the one
it replaces, with a comment that names the bug) under which TLC finds it violated.

## 4. What is proved

All proofs hold for any constants that meet the named assumptions of the
modules: the sets and limits of `Viewers`; in `Runtime` that `Parts` and the three capacities
are positive, that the bounds are numbers and that `None` is neither a number nor
a control; in `HostEffects` that sizes, limits and bounds are numbers and that scenarios are sets of what they
name; in `Persistence` that `None` is no structure and no holder of the slot, that earlier runs saved structures, and
that the bounds are numbers; in `Mux` that the start is a whole structure with identities 1 to n, and in `CloseConsent` and `Projection` that the
bounds are numbers; in `PaneLayout` `SplitAssumption`: a split may have two children or more, the total is even and no less
than the square of that limit, users give any numbers for weights, and split identities are numbers and no panes.  Nothing is bounded by the sizes of the configurations.

**Viewers.**  `ViewersProofs!IInv` is inductive: types; the arbiter's ownership and its
effects (`ArbInv`, `ButtonInv`); a request is counted from before it is sent until it
is settled (`CountInv`); where a request in progress can come from (`CallInv`); a viewer
with something left to run keeps its slot, and slots and entries agree outside
a reconcile (`SlotInv`); the request being handled finds its entry (`EntryInv`).  The
count is what makes `RequestsKeepSlot` hold: without `CountInv` a reconcile
between the count and the send could remove the slot.  From it: `TypeCorrect`,
`GestureOwned`, `ButtonsReleased`, `FocusReported`, `RequestsFindSlot` and `GestureExclusive`.
The module begins with the lemmas on the arbiter's operators.

What a reconcile leaves needs a second invariant, `ScreenInv`, proved on top of the first:

- `LeakInv`: a slot without an entry, or of a viewer with nothing left to run, is still to be visited: the change is
  marked, or a handle is between its flag and the mark, or the running reconcile has the slot ahead of it.
  The settling of a request is the subtle case: it takes the last count away, and must remove the slot itself, since
  nothing else will mark a change.
- `OrderInv`: registrations are numbered apart, so that the choice of a controller has no ties.
- `ShownInv`: only a handler leaves a size or a presentation to be applied.
- `ControlInv`: unless a reconcile is due, the size the arbiter settled on is that of the live viewer no other is ahead of.

`SlotsFreed` (`NoLeakedSlot`) and `ControllerObeyed` (`ControllerDecides`) follow.

**Runtime.**  `RuntimeProofs!IInv` is inductive, in parts that each carry one result:

- `LoopInv`: the owner's bookkeeping at each place of its loop.
- `CloseInv`: nothing is spilled once input has closed, except while a hangup
  met by the writer is still to be handled.  A spill that outlived the close would make the
  owner find the writer gone and report a failure.
- `PipeInv`: the number of the write under way, the writer's queue and the spilled
  writes continue each other without a gap.  `InputOrdered` follows: each
  step of `Runtime` is an `Accept`, a `Deliver` or a stutter of `InputPipe`.
- `OutputInv`: the last chunk between the reader and the parser is the last one
  read, and the owner has budget for all of them when it acts on the end.
  `OutputFirst` (`OutputComplete`) follows; the argument needs that the budget is the
  capacity of the output queue and that the reader sends nothing after its end.
- `CauseInv`: whatever makes the runtime fail was preceded by a fault or a close.  `FailuresCaused`
  and, with `CloseInv`, `HistoryPreserved` follow.
- `WakeInv`: for everything the owner could sleep through, the wake is set, or
  somebody is between a send and its notification, or the owner has not yet
  looked.  The case of a full writer is why `RequestWake` is followed by a second
  try: between the request and the sleep either the writer's queue is not empty,
  or the writer is about to see the request.  `WakesKept` (`NoLostWake`) follows.

**Host effects.**  `HostEffectsProofs!IInv` is inductive. Its parts: an effect's terminal is its
recipient's home (`HomeInv`, `EffectInv`); an admission in progress has the effect it will commit as the last one, not yet
queued (`AdmissionInv`, `CommitInv`), and room was reserved for it (`RoomInv`), so that the second look at
the limits cannot fail; each lock has at most one holder (`LockInv`), which the budgets' exactness rests on; a
revocation in progress knows whom and what it clears (`RevocationInv`), and between the advance of a
generation and the clearing of the queue lies the only window in which something stale is queued (`WindowInv`,
`SweepInv`); a recipient that is gone or out of generations stays so (`DeadInv`, `SpentInv`). From it:
`BudgetsAreExact`, `NothingStaleStays`, `WithdrawalIsFinal`, `CloseIsFinal`, `NothingIsStranded`.

**Saved sessions.**  For the files, every move of the program is one of four (`StoreMoves`): calm (a new harmless
script, or nothing), the beginning of a save, a step of the script, a power loss. `StoreInv` is inductive under each:

- `FileInv` speaks of everything a power loss may leave, not only of what the directory shows: no
  structure in it is older than the last save promised, a layout with the identity of a structure is of the same
  save, a layout is never ahead of a structure of its scope, nor of the identity the next save follows.
- `ScriptInv` says how far a save has come (`Saving`): until the structure is stored for good no layout
  has the save's identity (`Fresh`); the layout is written only when no power loss can take its structure.

`FilesKeepArchive` follows: replacing the structure is `Replace`, the sync that ends its half is `Promise`, the
layout is `Complete`, removals and set-asides are `Withdraw` and `LoseLayout`, a power loss is `PowerLoss`. `NewerFilesStay`
needs `NewerInv`: a launch has noted every file of a newer version (`Noted`), no step of any script touches one
(`SafeSteps`), and a power loss can bring back nothing else under its name (`Untouched`). `PersistenceTypes` is the
type invariant, with what holds between two launches (`Resting`).

A restore that was cut short is another story, of the program and not of the files (`NoRestoreLoops`):

- `PhaseInv` and `JobsInv`: where the program is when a restore runs. Nothing is queued for the writer
  before the restore settles, and only a restore writes the marker.
- `CrashInv`: a structure whose restore was cut short, and that a power loss could still leave in place, has the
  marker beside it for good (`TriedInv`). A restore begins only when the marker is there for good
  (`MarkInv`), of a structure no restore was cut short of (`SavedInv`); the structures of later saves are new, and
  the marker goes only when none can come back that it stands for (`WorkInv`); in a launch that is after
  the structure was set aside or found gone (`ClearInv`).

`LastWordKept` (`LastWordStays`) says that no job that comes late undoes what ended saving. For what Quit wrote (`QuitKeeps`) it needs
`KeepInv`:

- `QuitInv`: a Quit has one barrier, which its write waits for, so a job queued before has run by then. What
  stands behind the barrier, or is queued still later, is `Late`: no barrier, and only checkpoints when Quit took over from
  a program that was saving, since a restore sends its jobs before saving starts, and the setting its own together with the
  end of saving. The writer finds the state `final` and refuses a late checkpoint (`KeptKept`), before or
  after the final write.
- `GuardInv`: a program that saves may replace the structure: the launch has set a foreign one aside before.
- `LastInv`: while nothing has failed, what the writer last wrote, or is writing, is on the disk for good, or the
  steps that remain will bring it there (`Progress`). This is what makes the answer `Unchanged` safe.
- `KeptInv`: what Quit wrote is on the disk in every version a power loss may leave (`Firm`).

For what the setting deleted (`OffLeavesNothing`) it needs `OffInv`: while saving is off and no removal is queued, each file is gone or
the script still unlinks it (`Erasing`). A launch with the setting off ends with the removal (`CallsRemove`), which
takes the structure too, since the launch has set a foreign one aside before (`GuardInv`); a restore that settles with the
setting off has queued it when its state moves (`Offing`); a checkpoint behind it is refused because the state is not `running`.

**Structure and closes.**  `MuxProofs` begins with the lemmas the edits of a tree share: lists without repetition,
partitions of a set into lists, and for each edit (put, move, take out) that the tree stays whole (`Whole`, which is `Sound`
in the form the proofs use) and which panes stay in their session (`Stays`). `MuxInv` is inductive:

- the structure is whole, and its panes are the terminals that run;
- `Numbered`: identities in use are among those handed out, so that a new one is in no list;
- `Watches`: a viewer's terminal is in the session its attachment views;
- `Entries`: on each side of an undo or redo entry the recorded layouts are valid and their panes apart, and an entry
  brings back at most one tab in either direction. The code checks that an entry still fits when it is
  restored (`Restorable`), and relies on the rest.

`HomesKept` (`OneHome`) and `WatchersKept` (`ViewersInSession`) follow, for any number of operations on any structure.
The restore is the hardest step: the panes of the touched tabs are the same set before and after, the tabs
that stay keep their sessions, and the one tab that comes back lands in a workspace of its recorded session.

`CommitsConsented` (`ConsentedScope`) adds `TicketInv`: while the revision is the ticket's, the request means what it
meant (`Meant`). Every operation either advances the revision or leaves alone everything a request is read from
(`Accounted`, `SameScope`): rearrangements within a tab and undo steps that move no pane may leave the revision where it is.
`JobsConsented` (`ConsentedJobs`) adds `JobInv`: one process identity stands for one instance of a group among all that run,
were listed or were shown, so that two listings which agree on a group number agree on the group.

**Projection.**  `StreamFollows` (`FollowsStream`) has two halves. The first is about the mux alone: an operation publishes at
most one event (`Reports`), the event fits the structure it was emitted for, and applied to it gives the structure the operation
left (`Says`). There is one lemma `<Operation>Says` for each operation. A rearrangement (moves across tabs, undo steps)
carries several changes: they run one after another to the result (`Runs`, `RunSaid`), whichever edits the model merges, and
the reducer's own check, that no pane came or went, holds because both structures are whole and a tab that no change names is as
before (`Spares`).

The second half follows the events to the desktop. `Streaming` is inductive:

- a live subscription `Leads` from the desktop's copy to the mux's structure: its events are accepted one after another
  and end there (`Path`), or the reset of Quit is among them, which freezes the copy;
- a subscription that lagged holds nothing (`Lags`), so that nothing before the gap is reduced after it;
- a worker that is not idle means a desktop that waits for its result or is frozen; the snapshot it took, with what
  the new subscription has gathered since, `Leads` to the structure as well. This needs that the snapshot
  and the subscription are taken under one lock, as the code does.

What one drain computes is exactly that path, a reset, or a lag (`DrainArrives`, `DrainResets`, `DrainLags`). The folds over changes and over
events are recursive functions and no `RECURSIVE` operators, so that a proof can say what they compute.

**Pane layout.**  `PaneLayoutProofs!LayoutsSound` is inductive: no two tabs share a node, and each tab's layout is `Sound`:

- `Tree`: the nodes make a tree (`Frame`): none is held twice, the root is not held, every other split is, and every set of splits has
  one that none of them holds (`Grounded`). The last is what a check of the nodes one by one cannot see: a ring
  of splits that hold each other passes `Valid`, and a climb in it would never come to the root;
- every split is `Full`: from two children to the limit, weights of at least one, and the total as their sum;
- no split could be one with the split that holds it.

`LayoutsStaySound` says that every state is so, `TransformsAlwaysFit` (`TransformsFit`) what a user has of it. The argument, from the bottom:

- *Weights.* A flatten scales the weights of a split to one slot; rounding each up to one adds at most one for each child.
  The largest child of the merged split has at least the total divided by the number of children, and that is no less than the limit (`SplitAssumption`): it can give
  back what rounding added and keep one (`ScaledSum`, `RebalancedIs`, `FlattenFits`).
- *Trees.* One lemma for each edit says that the frame stays and which nodes there are afterwards: a split dissolved into its holder, a pane dropped, a root
  uncovered, a tree grafted, a pane covered by a new split, two panes swapped.
- *Removal.* A close takes a child from one split, so that splits kept for want of room may fit now. The sweep over its
  children leaves at most one pair in the layout that could merge, the split itself with its holder (`SweepSettles`): a flatten never
  makes room for another one (`FlattenMerges`). One step up settles that pair, and the rest of the climb changes nothing
  (`RemovedSettles`). A split left with one child gives way to it on the first step up (`CollapseSettles`), or at the root.
- *Insertion.* The inserted tree's root is the only node that could merge with its new holder (`GraftSettles`),
  and `check_split` is what keeps the weights and the limit (`BesideIs`).
- *The way back.* Closing what was inserted gives its half back to the child before it, or, if it came first, to the one after; a
  new split collapses into the pane it covered (`SplitBack`).

**Pane focus.**  `NavigationAlwaysReaches` (`NavigationReaches`) follows from `LayoutsStaySound` for every extent of the root
that is a natural number (`ExtentAssumption`), so also for those too small to give every pane a point:

- *Rectangles.* The prefix sums of a full split's weights rise from nothing to the total, so its edges rise from the start of its
  span to the end (`EdgesAre`), and the parts between them cover the span and do not overlap, however they are rounded (`PartsAre`).
  That every node has a rectangle is shown by handing rectangles down from the root until no split is left out (`Descends`, `RectsAre`).
- *Points.* A point of a split is in one of its children (`KidShows`). Of some splits there is one that holds none of them (`Lowest`), so each point of
  the whole is in a pane (`SomePane`); and in one only (`OnePane`), because there are as many splits that show it as nodes below
  the root on the way to a pane. A node that shows one point of a pane shows all of it (`PaneWithin`).
- *A move out.* Colour the points of some of the visible panes. A lowest split with points of both colours has children of one
  colour each, so its colours change along its axis only, between two numbers that follow on each other (`MixedSplit`,
  `MixedLine`, `Borders`). A coloured pane that ends there has a neighbour at no distance with a shared edge; so the best ones all
  have that (`Nearest`), and each of them shows a point beyond the line, inside the split: it is not coloured (`SomeMoveLeaves`).
  The history chooses among the best, so the claim needs all of them and not one.

Model-checked only: every liveness property: `DepartedLeave`, `RequestsRun`,
`InputArrives`, `CommandSettles`, `TeardownEnds`, `EffectsSettle`, `CheckpointsLand`, `CatchesUp` (temporal reasoning under
fairness is out of the prover's reach).

## 5. Disagreements with the documentation

`runtime_close` violates `CloseIsNoFailure`.  `RuntimeClient::close` stores `closing`; the writer sees
it at the top of its loop and stops, dropping its receiver.  An owner past its own check of
`closing` that then writes or flushes is told the receiver is gone while input is still open, and
publishes "PTY writer stopped before …", which a window shows as "Terminal failed".  The
desktop's comment (`huterm-gpui/src/desktop.rs:3173`) says that a stop after a close
request is that close.  `FailureHasCause` is the weaker statement that does hold.

`persistence_unchanged` violates `UnchangedHolds`.  `Unchanged` is documented
(`huterm-gpui/src/desktop/windows/persistence.rs:85-86`) as the files already holding the capture. `Shared::write`
(`persistence.rs:144-162`) compares with the pair last saved without failure. A save that replaced the structure
and then failed, on the sync or on the layout, is not remembered: the files hold its structure, and when the
program returns to the state before it, that state is answered `Unchanged` and not written. The final write of Quit
asks the same question. `QuitKeeps`, a part of `LastWordStays`, and `CheckpointsLand` therefore speak of runs without a failed step. (By the way, the
doc of the failure, "the previous files stay" at `persistence.rs:90`, holds only when the failure came first.)

Two remarks that no run reports, because what the code does there is narrow or a matter of wording:

- A crash loop can outlive a set-aside. A launch after a crash sets the structure aside, which
  renames it and syncs the directory (`store.rs`, `set_aside`). If it crashes between the two, the next launch
  finds no structure and clears the marker (`restore.rs:249-256`) before anything has synced that rename. A power loss at the right
  moment then keeps the marker's removal and brings the structure back, and it is restored again.
  `NoCrashLoop` ends its claim for a save when a launch found its file gone and began to clear the marker (`Outstanding`).
- A restore that fails says that "the saved state stays for a later run" (`restore.rs:761`). It stays on the disk, but so does
  the marker, and the next launch sets the files aside, as the doc of `suspend` says (`persistence.rs:457-460`).

## 6. What is left

Done: `Arbitration`, `Viewers`, `InputPipe`, `Runtime`, `HostEffects`, `Archive`, `Store`, `Persistence`, `Hierarchy`,
`Mux`, `CloseConsent`, `Projection` (checked, and proved except for liveness), `PaneLayout` and `PaneFocus` (checked and proved).

Next, in this order:

1. Layout templates and stepping a pane through the traversal order (`layout_template.rs`, `step_target`), beside `PaneFocus`.
2. `InputQueue` and exit closes of the desktop: order of refused input; a window
   closes only after its last pane.
3. The plan and the rollback of a launch restore (`mux/restore/`), of which `Persistence` knows only the outcome.

Not modelled, and why: text formats (configuration, schemas, command names), which unit tests cover; the engine
behind FFI, platform windows, quake animation and drawing, which are external; process tables; idle compression,
a matter of memory and not of behaviour; and the simulation of a protocol the program does not
implement. Half of the repository is configuration, windows and their tests. `PROJECT.json` gives the reason for each
component.
