----------------------------- MODULE Persistence -----------------------------
(***************************************************************************)
(* Saved sessions from launch to exit (huterm-gpui/src/desktop/windows:    *)
(* persistence.rs, checkpoints.rs, restore.rs): a launch judges what it    *)
(* finds, a restore runs under a crash marker, checkpoints are captured    *)
(* off the UI thread and written by one writer, the setting may turn off   *)
(* and on, and Quit takes the last write. The process may crash and the    *)
(* machine lose power at any point; then the next launch goes on.          *)
(***************************************************************************)
EXTENDS Store, FiniteSets

CONSTANTS
    Earlier,        \* the structures that earlier runs may have saved
    MaxLaunches, MaxChanges, MaxToggles, MaxCrashes,
    MaxEvents       \* bound: changes, toggles, crashes and faults together

ASSUME BoundsAssumption ==
    {MaxLaunches, MaxChanges, MaxToggles, MaxCrashes, MaxEvents} \subseteq Nat

ASSUME EarlierAssumption == Earlier \subseteq Structures

ASSUME HolderAssumption == None \notin {"launch", "restore", "writer", "quit"}

VARIABLES
    up,             \* "down", "launch" or "up"
    launch,         \* what the launch still has to ask of the store
    saved,          \* the structure the launch means to restore
    blocked, enabled, state, jobs, sequence,   \* Persistence
    last, newest,   \* Slot
    slot,           \* who holds the slot: None, "launch", "restore", "writer", "quit"
    writing,        \* the checkpoint or final write that the slot's holder carries out
    now,            \* the structure of the running program
    dirty,          \* a change waits for its checkpoint
    captures,       \* checkpoints being captured
    sending,        \* captured checkpoints found to be wanted, not yet queued
    restore,        \* where the restore is
    quit,           \* where the Quit write is, and the state it took over from
    attempt,        \* the save being restored, for the properties
    tried,          \* saves whose restore a crash cut short and no launch found gone
    kept,           \* what a Quit write left to the next launch, if nothing ever failed
    hurt,           \* whether a step failed since the launch
    bounds          \* how often the bounded steps were taken

owner == <<blocked, enabled, state, jobs, sequence>>
slotVars == <<last, newest, slot, writing>>
program == <<now, dirty, captures, sending, restore, quit>>
history == <<attempt, tried, kept, hurt>>
vars == <<storeVars, up, launch, saved, owner, slotVars, program, history, bounds>>

-----------------------------------------------------------------------------
NoQuit == [at |-> "none", from |-> "off"]
NoWrite == [capture |-> None, layout |-> None, seq |-> 0]

Pair(capture, layout) == [capture |-> capture, layout |-> layout]
NoPair == Pair(None, None)

AnyStructure == CHOOSE s \in Structures : TRUE

Events == bounds.changes + bounds.toggles + bounds.crashes + faults

Bump(counter) == bounds' = [bounds EXCEPT ![counter] = @ + 1]

-----------------------------------------------------------------------------
(* Launch: prepare() and load() of restore.rs, before the event loop.      *)

Call(op, must) == [op |-> op, must |-> must]

\* After a restore that never finished; a layout the store protects is kept.
AfterCrash(layout) ==
    <<Call("runtime", TRUE)>> \o
    (IF layout \in {"newer", "unreadable"} THEN <<>> ELSE <<Call("desktop", TRUE)>>) \o
    <<Call("clear", FALSE)>>

CorruptLayout(layout) ==
    IF layout = "corrupt" THEN <<Call("desktop", FALSE)>> ELSE <<>>

Remaining(crashed, setting) ==
    (IF crashed THEN <<Call("clear", FALSE)>> ELSE <<>>) \o
    (IF setting THEN <<>> ELSE <<Call("remove", FALSE)>>)

\* The Failures table, as the sequence of what the store is asked to do. "must"
\* marks a set-aside whose failure keeps persistence off.
LaunchCalls(runtime, layout, crashed, setting) ==
    CASE runtime \in {"newer", "unreadable"} -> <<>>
      [] runtime = "corrupt" -> <<Call("runtime", TRUE)>> \o Remaining(crashed, setting)
      [] runtime = "absent" -> CorruptLayout(layout) \o Remaining(crashed, setting)
      [] runtime = "saved" /\ crashed /\ setting -> AfterCrash(layout)
      [] OTHER -> CorruptLayout(layout) \o
                  (IF setting THEN <<>> ELSE <<Call("remove", FALSE)>>)

NoLaunch == [calls |-> <<>>, must |-> FALSE, setting |-> TRUE]

\* Store::open and Store::load, and the look at the marker. Any of the three may
\* be unreadable.
Launch(setting, unreadable) ==
    LET seen(f) == IF f \in unreadable /\ Present(f) THEN "unreadable" ELSE disk[f].kind
        crashed == Present("marker")
        unknown == "marker" \in unreadable
        fails == Cardinality(unreadable)
    IN
    /\ up = "down" /\ bounds.launches < MaxLaunches
    /\ faults + fails <= MaxFaults /\ Events + fails <= MaxEvents
    /\ faults' = faults + fails
    /\ Bump("launches")
    /\ up' = "launch"
    /\ slot' = "launch"
    /\ guard' = CASE seen("runtime") \in {"absent", "saved"} -> "replaceable"
                  [] seen("runtime") = "newer" -> "newer"
                  [] OTHER -> "unresolved"
    /\ identity' = IF seen("runtime") = "saved" THEN IdentityOf(disk["runtime"])
                   ELSE NoIdentity
    /\ keepDesktop' = (seen("desktop") \in {"newer", "unreadable"})
    /\ blocked' = (unknown \/ seen("runtime") \in {"newer", "unreadable"})
    /\ launch' = [NoLaunch EXCEPT !.setting = setting,
           !.calls = IF unknown THEN <<>>
                     ELSE LaunchCalls(seen("runtime"), seen("desktop"), crashed, setting)]
    /\ saved' = IF seen("runtime") = "saved" /\ setting /\ ~crashed /\ ~unknown
                THEN disk["runtime"] ELSE Absent
    /\ kept' = NoPair
    /\ hurt' = FALSE
    /\ UNCHANGED <<disks, operation, ghosts, enabled, state, jobs, sequence, last,
                   newest, writing, program, attempt, tried>>

MustFailed == failed /\ launch.must

\* Saves that must not be restored again: a removal ends that, and so does a launch
\* that no longer finds them when it clears the marker.
Outstanding(op) ==
    CASE op = "remove" -> {}
      [] op = "clear" -> tried \cap {Found.capture}
      [] OTHER -> tried

LaunchCall ==
    LET call == Head(launch.calls) IN
    /\ up = "launch" /\ script = <<>> /\ launch.calls # <<>> /\ ~MustFailed
    /\ launch' = [launch EXCEPT !.calls = Tail(@), !.must = call.must]
    /\ Begin(CASE call.op = "clear" -> ClearScript
               [] call.op = "remove" -> RemoveScript
               [] OTHER -> SetAsideScript(call.op))
    /\ tried' = Outstanding(call.op)
    /\ UNCHANGED <<disks, memory, ghosts, faults, up, saved, owner, slotVars, program,
                   attempt, kept, hurt, bounds>>

\* Without a restore the program opens a fresh window, which is a change.
LaunchDone ==
    LET stuck == blocked \/ MustFailed IN
    /\ up = "launch" /\ script = <<>> /\ (launch.calls = <<>> \/ MustFailed)
    /\ up' = "up"
    /\ blocked' = stuck
    /\ enabled' = TRUE
    /\ state' = IF stuck \/ ~launch.setting THEN "off"
                ELSE IF saved # Absent THEN "bootstrapping" ELSE "running"
    /\ restore' = IF state' = "bootstrapping" THEN "start" ELSE "none"
    /\ dirty' = (state' = "running")
    /\ IF saved # Absent THEN now' = saved.data ELSE now' \in Structures
    /\ slot' = None
    /\ launch' = NoLaunch
    /\ UNCHANGED <<storeVars, saved, jobs, sequence, last, newest, writing, captures,
                   sending, quit, history, bounds>>

-----------------------------------------------------------------------------
(* The restore worker and the UI that settles the restore.                 *)

Send(job) == jobs' = Append(jobs, job)

Job(kind) == [job |-> kind, write |-> NoWrite]

\* Persistence::suspend: the marker stays, and so do the files.
Suspend ==
    /\ blocked' = TRUE
    /\ state' = IF state \in {"bootstrapping", "running"} THEN "off" ELSE state

\* The shell to restore with cannot be resolved, or the worker not started.
RestoreNotStarted ==
    /\ up = "up" /\ restore = "start" /\ quit = NoQuit
    /\ Suspend
    /\ restore' = "none"
    /\ UNCHANGED <<storeVars, up, launch, saved, enabled, jobs, sequence, slotVars, now,
                   dirty, captures, sending, quit, history, bounds>>

\* Mutant: the marker is written without the slot.
MarkAttemptUnlocked ==
    /\ up = "up" /\ restore = "start" /\ slot = None /\ script = <<>>
    /\ restore' = "mark" /\ Begin(MarkScript)
    /\ UNCHANGED <<disks, memory, ghosts, faults, up, launch, saved, owner, last, newest,
                   slot, writing, now, dirty, captures, sending, quit, history, bounds>>

\* Termination before this point cancels the restore. The state is read with the
\* slot locked.
MarkAttempt ==
    /\ up = "up" /\ restore = "start" /\ slot = None
    /\ IF quit # NoQuit
       THEN restore' = "none" /\ UNCHANGED <<operation, slot>>
       ELSE IF state # "bootstrapping"
       THEN restore' = "spawn" /\ UNCHANGED <<operation, slot>>
       ELSE restore' = "mark" /\ Begin(MarkScript) /\ slot' = "restore"
    /\ UNCHANGED <<disks, memory, ghosts, faults, up, launch, saved, owner, last, newest,
                   writing, now, dirty, captures, sending, quit, history, bounds>>

Marked ==
    /\ slot = "restore" /\ script = <<>>
    /\ slot' = None
    /\ restore' = "spawn"
    /\ attempt' = IF failed \/ state # "bootstrapping" THEN 0 ELSE saved.save
    /\ UNCHANGED <<storeVars, up, launch, saved, owner, last, newest, writing, now, dirty,
                   captures, sending, quit, tried, kept, hurt, bounds>>

\* The structure cannot be restored, or Quit cancels the restore.
RestoreFails ==
    /\ up = "up" /\ restore = "spawn"
    /\ IF quit = NoQuit THEN Suspend ELSE UNCHANGED <<blocked, state>>
    /\ restore' = "none"
    /\ attempt' = 0
    /\ UNCHANGED <<storeVars, up, launch, saved, enabled, jobs, sequence, slotVars, now,
                   dirty, captures, sending, quit, tried, kept, hurt, bounds>>

SettleTo == IF blocked \/ ~enabled THEN "off" ELSE "running"

\* Persistence::settle runs on the UI thread: a Quit may come in between its look at
\* the state, its two jobs and its transition.
Settle ==
    /\ up = "up" /\ restore = "spawn"
    /\ restore' = IF state = "bootstrapping" THEN "clear" ELSE "none"
    /\ attempt' = 0
    /\ UNCHANGED <<storeVars, up, launch, saved, owner, slotVars, now, dirty, captures,
                   sending, quit, tried, kept, hurt, bounds>>

Settling(at, job, next) ==
    /\ restore = at
    /\ restore' = next
    /\ Send(Job(job))
    /\ UNCHANGED <<storeVars, up, launch, saved, blocked, enabled, state, sequence,
                   slotVars, now, dirty, captures, sending, quit, history, bounds>>

SettleClear ==
    Settling("clear", "clear", IF SettleTo = "off" /\ ~blocked THEN "remove" ELSE "move")

SettleRemove == Settling("remove", "remove", "move")

SettleMove ==
    /\ restore = "move"
    /\ restore' = "none"
    /\ IF state = "bootstrapping"
       THEN state' = SettleTo /\ dirty' = (SettleTo = "running")
       ELSE UNCHANGED <<state, dirty>>
    /\ UNCHANGED <<storeVars, up, launch, saved, blocked, enabled, jobs, sequence,
                   slotVars, now, captures, sending, quit, history, bounds>>

-----------------------------------------------------------------------------
(* The running program: changes, checkpoints and the setting.              *)

\* A change of the structure or of a window; it restarts the quiet second.
Change(s) ==
    /\ up = "up" /\ quit = NoQuit /\ s # now
    /\ bounds.changes < MaxChanges /\ Events < MaxEvents
    /\ Bump("changes")
    /\ now' = s
    /\ dirty' = (dirty \/ state = "running")
    /\ UNCHANGED <<storeVars, up, launch, saved, owner, slotVars, captures, sending,
                   restore, quit, history>>

\* take_checkpoint: the number and the layout are taken first.
TakeCheckpoint ==
    /\ up = "up" /\ dirty
    /\ dirty' = FALSE
    /\ IF state = "running"
       THEN /\ sequence' = sequence + 1
            /\ captures' = captures \cup
                   {[capture |-> None, layout |-> now, seq |-> sequence + 1]}
       ELSE UNCHANGED <<sequence, captures>>
    /\ UNCHANGED <<storeVars, up, launch, saved, blocked, enabled, state, jobs, slotVars,
                   now, sending, restore, quit, history, bounds>>

\* The structure is read on a worker, with the mux locked. Quit holds that lock
\* until its write has ended.
CaptureRuntime(c) ==
    /\ c.capture = None /\ quit.at \in {"none", "done"}
    /\ captures' = (captures \ {c}) \cup {[c EXCEPT !.capture = now]}
    /\ UNCHANGED <<storeVars, up, launch, saved, owner, slotVars, now, dirty, sending,
                   restore, quit, history, bounds>>

\* Persistence::checkpoint, on the same worker: the state is let go before the job
\* is sent, and both the setting and Quit may come in between.
Checkpoint(c) ==
    /\ c.capture # None
    /\ captures' = captures \ {c}
    /\ sending' = IF state = "running" THEN sending \cup {c} ELSE sending
    /\ UNCHANGED <<storeVars, up, launch, saved, owner, slotVars, now, dirty, restore,
                   quit, history, bounds>>

SendCheckpoint(c) ==
    /\ sending' = sending \ {c}
    /\ Send([job |-> "save", write |-> c])
    /\ UNCHANGED <<storeVars, up, launch, saved, blocked, enabled, state, sequence,
                   slotVars, now, dirty, captures, restore, quit, history, bounds>>

\* Persistence::set_enabled, on the UI thread and with the state locked throughout.
SetEnabled(on) ==
    /\ up = "up" /\ quit = NoQuit /\ restore \notin {"clear", "remove", "move"}
    /\ bounds.toggles < MaxToggles /\ Events < MaxEvents
    /\ Bump("toggles")
    /\ \/ /\ state = "bootstrapping"
          /\ enabled' = on
          /\ UNCHANGED <<state, jobs, dirty>>
       \/ /\ state = "off" /\ on /\ ~blocked
          /\ state' = "running"
          /\ dirty' = TRUE
          /\ UNCHANGED <<enabled, jobs>>
       \/ /\ state = "running" /\ ~on
          /\ state' = "off"
          /\ Send(Job("remove"))
          /\ UNCHANGED <<enabled, dirty>>
    /\ UNCHANGED <<storeVars, up, launch, saved, blocked, sequence, slotVars, now,
                   captures, sending, restore, quit, history>>

-----------------------------------------------------------------------------
(* The writer.                                                             *)

\* Mutant: checkpoints are written in the order they arrive.
NeverSuperseded(write) == FALSE

Superseded(write) == write.seq < newest

Unchanged(write) == last = Pair(write.capture, write.layout)

\* Mutant: a checkpoint once queued is written whatever has happened since.
AlwaysWanted == TRUE

\* The writer reads the state again, with the slot locked.
StillWanted == state = "running"

\* Shared::write, for a checkpoint.
WriteCheckpoint(write) ==
    IF ~StillWanted \/ Superseded(write) \/ guard # "replaceable"
    THEN UNCHANGED <<saves, scopes, operation, last, newest, slot, writing>>
    ELSE IF Unchanged(write)
    THEN newest' = write.seq /\ UNCHANGED <<saves, scopes, operation, last, slot, writing>>
    ELSE /\ slot' = "writer"
         /\ writing' = write
         /\ BeginSave(write.capture, write.layout)
         /\ UNCHANGED <<last, newest>>

\* Mutant: what was last written is remembered beyond its removal.
ForgetNothing(kind) == last

ForgetLast(kind) == IF kind = "remove" THEN NoPair ELSE last

Writer ==
    LET job == Head(jobs).job IN
    /\ jobs # <<>> /\ slot = None
    /\ jobs' = Tail(jobs)
    /\ CASE job = "save" ->
              WriteCheckpoint(Head(jobs).write) /\ UNCHANGED <<quit, tried>>
         [] job = "barrier" ->
              /\ quit' = [quit EXCEPT !.at = "write"]
              /\ UNCHANGED <<saves, scopes, operation, last, newest, slot, writing, tried>>
         [] OTHER ->
              /\ slot' = "writer"
              /\ last' = ForgetLast(job)
              /\ Begin(IF job = "remove" THEN RemoveScript ELSE ClearScript)
              /\ tried' = IF job = "remove" THEN {} ELSE tried
              /\ UNCHANGED <<saves, scopes, newest, writing, quit>>
    /\ UNCHANGED <<disks, memory, promised, faults, up, launch, saved, blocked, enabled,
                   state, sequence, now, dirty, captures, sending, restore, attempt, kept,
                   hurt, bounds>>

WriterDone ==
    /\ slot = "writer" /\ script = <<>>
    /\ slot' = None
    /\ writing' = NoWrite
    /\ IF writing # NoWrite /\ ~failed
       THEN last' = Pair(writing.capture, writing.layout) /\ newest' = writing.seq
       ELSE UNCHANGED <<last, newest>>
    /\ UNCHANGED <<storeVars, up, launch, saved, owner, program, history, bounds>>

-----------------------------------------------------------------------------
(* Quit.                                                                   *)

\* Persistence::finish, in the commit of a close or at shutdown, up to the barrier.
\* It waits for the jobs queued before; others may still be queued behind them.
Quit ==
    /\ up = "up" /\ quit = NoQuit
    /\ quit' = [at |-> "drain", from |-> state]
    /\ state' = "final"
    /\ Send(Job("barrier"))
    /\ attempt' = 0
    /\ UNCHANGED <<storeVars, up, launch, saved, blocked, enabled, sequence, slotVars, now,
                   dirty, captures, sending, restore, tried, kept, hurt, bounds>>

Kept == IF hurt THEN NoPair ELSE Pair(now, IF keepDesktop THEN None ELSE now)

QuitWrite ==
    LET final == [capture |-> now, layout |-> now, seq |-> newest] IN
    /\ quit.at = "write" /\ slot = None
    /\ CASE quit.from = "running" /\ guard = "replaceable" /\ ~Unchanged(final) ->
              /\ slot' = "quit" /\ BeginSave(now, now) /\ UNCHANGED <<quit, kept>>
         [] quit.from = "bootstrapping" ->
              /\ slot' = "quit" /\ Begin(ClearScript)
              /\ UNCHANGED <<saves, scopes, quit, kept>>
         [] OTHER ->
              /\ quit' = [quit EXCEPT !.at = "done"]
              /\ kept' = IF quit.from = "running" THEN Kept ELSE kept
              /\ UNCHANGED <<saves, scopes, operation, slot>>
    /\ UNCHANGED <<disks, memory, promised, faults, up, launch, saved, owner, last, newest,
                   writing, now, dirty, captures, sending, restore, attempt, tried, hurt,
                   bounds>>

QuitWritten ==
    /\ slot = "quit" /\ script = <<>>
    /\ slot' = None
    /\ quit' = [quit EXCEPT !.at = "done"]
    /\ kept' = IF quit.from = "running" THEN Kept ELSE kept
    /\ UNCHANGED <<storeVars, up, launch, saved, owner, last, newest, writing, now, dirty,
                   captures, sending, restore, attempt, tried, hurt, bounds>>

-----------------------------------------------------------------------------
(* The end of the process.                                                 *)

Stop ==
    /\ up' = "down"
    /\ script' = <<>> /\ failed' = FALSE
    /\ identity' = NoIdentity /\ guard' = "unresolved" /\ keepDesktop' = FALSE
    /\ launch' = NoLaunch /\ saved' = Absent
    /\ blocked' = FALSE /\ enabled' = TRUE /\ state' = "off"
    /\ jobs' = <<>> /\ sequence' = 0
    /\ last' = NoPair /\ newest' = 0 /\ slot' = None /\ writing' = NoWrite
    /\ dirty' = FALSE /\ captures' = {} /\ sending' = {} /\ restore' = "none" /\ quit' = NoQuit
    /\ attempt' = 0 /\ now' = AnyStructure /\ hurt' = FALSE
    /\ UNCHANGED <<ghosts, faults, kept>>

\* The writer is not waited for: what was queued behind the barrier may be cut short.
Exit ==
    /\ quit.at = "done" /\ restore = "none" /\ slot \in {None, "writer"}
    /\ Stop
    /\ UNCHANGED <<disks, tried, bounds>>

CutShort == tried' = IF attempt = 0 THEN tried ELSE tried \cup {attempt}

Crash ==
    /\ up # "down" /\ bounds.crashes < MaxCrashes /\ Events < MaxEvents
    /\ Bump("crashes")
    /\ Stop
    /\ CutShort
    /\ UNCHANGED disks

LosePower ==
    /\ bounds.crashes < MaxCrashes /\ Events < MaxEvents
    /\ Bump("crashes")
    /\ Stop
    /\ CutShort
    /\ \E d \in past["runtime"], e \in past["desktop"], m \in past["marker"] :
          disk' = [runtime |-> d, desktop |-> e, marker |-> m]
    /\ past' = [f \in Files |-> {disk'[f]}]

-----------------------------------------------------------------------------
\* What earlier runs, a newer version or damage may have left: nothing, the second
\* save of a scope with or without its layout, or with the layout of the first.
LeftBehind ==
    UNION {{[runtime |-> r, desktop |-> d, marker |-> Absent] :
               r \in {Absent, Content("corrupt"), Content("newer"), Saved(s, 1, 2, 2)},
               d \in {Absent, Content("corrupt"), Content("newer"),
                      Saved(s, 1, 1, 1), Saved(s, 1, 2, 2)}} :
           s \in Earlier}

Init ==
    /\ disk \in LeftBehind
    /\ past = [f \in Files |-> {disk[f]}]
    /\ identity = NoIdentity /\ guard = "unresolved" /\ keepDesktop = FALSE
    /\ script = <<>> /\ failed = FALSE
    /\ saves = 2 /\ scopes = 1 /\ promised = Found.capture /\ faults = 0
    /\ up = "down" /\ launch = NoLaunch /\ saved = Absent
    /\ blocked = FALSE /\ enabled = TRUE /\ state = "off" /\ jobs = <<>> /\ sequence = 0
    /\ last = NoPair /\ newest = 0 /\ slot = None /\ writing = NoWrite
    /\ now = AnyStructure
    /\ dirty = FALSE /\ captures = {} /\ sending = {} /\ restore = "none" /\ quit = NoQuit
    /\ attempt = 0 /\ tried = {} /\ kept = NoPair /\ hurt = FALSE
    /\ bounds = [launches |-> 0, changes |-> 0, toggles |-> 0, crashes |-> 0]

StoreStep ==
    /\ Step
    /\ UNCHANGED <<up, launch, saved, owner, slotVars, program, history, bounds>>

StoreFault ==
    /\ Fault /\ Events < MaxEvents
    /\ hurt' = TRUE
    /\ UNCHANGED <<up, launch, saved, owner, slotVars, program, attempt, tried, kept, bounds>>

Working ==
    \/ StoreStep
    \/ LaunchCall \/ LaunchDone
    \/ MarkAttempt \/ Marked \/ Settle \/ SettleClear \/ SettleRemove \/ SettleMove
    \/ TakeCheckpoint
    \/ \E c \in captures : CaptureRuntime(c) \/ Checkpoint(c)
    \/ \E c \in sending : SendCheckpoint(c)
    \/ Writer \/ WriterDone
    \/ QuitWrite \/ QuitWritten

Next ==
    \/ Working
    \/ \E setting \in BOOLEAN, unreadable \in SUBSET Files : Launch(setting, unreadable)
    \/ StoreFault \/ RestoreNotStarted \/ RestoreFails
    \/ \E s \in Structures : Change(s)
    \/ \E on \in BOOLEAN : SetEnabled(on)
    \/ Quit \/ Exit \/ Crash \/ LosePower

\* The threads and timers of a running program go on.
Fairness == WF_vars(Working)

Spec == Init /\ [][Next]_vars /\ Fairness

-----------------------------------------------------------------------------
(* Properties.                                                             *)

Contents == [kind : {"absent", "saved", "corrupt", "newer", "marker"},
             scope : 0..scopes, generation : 0..saves, save : 0..saves,
             data : Structures \cup {None}]

Pairs == [capture : Structures \cup {None}, layout : Structures \cup {None}]

Writes == [capture : Structures \cup {None}, layout : Structures \cup {None},
           seq : 0..sequence]

\* Types of the files, the store, the owner and the program. What is written is
\* numbered no higher than what was captured.
TypeOK ==
    /\ disk \in [Files -> Contents]
    /\ \A f \in Files : past[f] \subseteq Contents /\ disk[f] \in past[f]
    /\ identity \in [scope : 0..scopes, generation : 0..saves]
    /\ guard \in {"unresolved", "replaceable", "newer"}
    /\ keepDesktop \in BOOLEAN /\ failed \in BOOLEAN
    /\ promised \in 0..saves
    /\ up \in {"down", "launch", "up"}
    /\ saved \in Contents
    /\ blocked \in BOOLEAN /\ enabled \in BOOLEAN
    /\ state \in {"off", "bootstrapping", "running", "final"}
    /\ \A i \in DOMAIN jobs :
          jobs[i].job \in {"save", "remove", "clear", "barrier"} /\ jobs[i].write \in Writes
    /\ last \in Pairs /\ newest \in 0..sequence
    /\ slot \in {None, "launch", "restore", "writer", "quit"}
    /\ (slot = None => script = <<>>)
    /\ writing \in Writes
    /\ now \in Structures /\ captures \subseteq Writes /\ sending \subseteq Writes
    /\ restore \in {"none", "start", "mark", "spawn", "clear", "remove", "move"}
    /\ quit.at \in {"none", "drain", "write", "done"}
    /\ kept \in Pairs /\ tried \subseteq 1..saves

Archived == INSTANCE Archive WITH found <- Found

\* The two files implement the archive: whatever fails, crashes or loses power
\* between their steps, a launch finds a structure with the layout of the same
\* save or with none, and nothing older than the last save that succeeded.
StoreKeepsArchive == Archived!ArchiveSpec

\* A file of a newer version is neither replaced nor removed.
NewerStays ==
    [][\A f \in Files : disk[f].kind = "newer" => disk'[f].kind = "newer"]_vars

Holds(pair) ==
    /\ disk["runtime"].kind = "saved" /\ disk["runtime"].data = pair.capture
    /\ pair.layout # None =>
          Found.layout # 0 /\ disk["desktop"].data = pair.layout

\* What Quit wrote, in a run in which nothing failed, is what the next launch
\* finds, even after a power loss: no queued checkpoint, removal or late capture
\* undoes it, and none made the final write seem unnecessary.
QuitKeeps == kept # NoPair => Holds(kept)

Off == state = "off" \/ (state = "final" /\ quit.from = "off")

\* Once saving is turned off and the removal has been handled, without a failed
\* step, nothing is left of what was saved (but a layout the store protects): no
\* checkpoint that was wanted before and is queued behind the removal brings it
\* back.
OffLeavesNothing ==
    up = "up" /\ Off /\ ~blocked /\ ~hurt /\ slot = None
    /\ (\A i \in DOMAIN jobs : jobs[i].job # "remove") =>
        /\ ~Present("runtime") /\ ~Present("marker")
        /\ Present("desktop") => keepDesktop

\* What ended saving, Quit's write or the removal when the setting was turned off,
\* has the last word: no job that comes late undoes it.
LastWordStays == QuitKeeps /\ OffLeavesNothing

\* A saved structure whose restore was cut short by a crash is not restored again,
\* unless saving was turned off and its files deleted since, or a launch found its
\* file gone and cleared the marker. (A file set aside but not synced may return
\* with a power loss.)
NoCrashLoop == restore # "none" => saved.save \notin tried

\* While saving is on and nothing fails, the files come to hold the structure as it
\* is now, however captures and writes overtake each other.
CheckpointsLand ==
    (state = "running" /\ ~Holds(Pair(now, None)))
        ~> (state # "running" \/ hurt \/ Holds(Pair(now, None)))

\* What is not written because the files "already held it" is held by them.
UnchangedHolds ==
    jobs # <<>> /\ slot = None /\ Head(jobs).job = "save" /\ state = "running" =>
        LET write == Head(jobs).write IN
        ~Superseded(write) /\ Unchanged(write) => Holds(Pair(write.capture, None))
=============================================================================
