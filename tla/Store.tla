-------------------------------- MODULE Store --------------------------------
(***************************************************************************)
(* The saved files of one socket scope (huterm-state: store.rs, atomic.rs, *)
(* lock.rs). Every operation is a script of steps on the directory, run by *)
(* whoever holds the slot; each step may fail, which ends the operation,   *)
(* and the process or the machine may stop between any two.                *)
(*                                                                         *)
(* A file is replaced by renaming a synced temporary over it, so its       *)
(* content is never half written; until the directory is synced, a power   *)
(* loss may leave any content the name has had since the last sync.        *)
(***************************************************************************)
EXTENDS Integers, Sequences

CONSTANTS
    Structures,     \* what may be saved, told apart only by equality
    None,
    MaxFaults       \* bound: steps and reads that fail

ASSUME StoreAssumption ==
    /\ None \notin Structures
    /\ MaxFaults \in Nat

VARIABLES
    disk,           \* what the directory shows
    past,           \* what each name may hold after a power loss
    identity,       \* Store::identity
    guard,          \* Store::runtime_guard
    keepDesktop,    \* Store::keep_desktop
    script,         \* the rest of the operation in progress
    failed,         \* whether the last operation failed
    saves, scopes,  \* how many saves began and how many scope identities exist
    promised,       \* the last save whose structure was replaced and synced, 0 once
                    \* that is set aside or removed
    faults

disks == <<disk, past>>
memory == <<identity, guard, keepDesktop>>
operation == <<script, failed>>
ghosts == <<saves, scopes, promised>>
storeVars == <<disks, memory, operation, ghosts, faults>>

-----------------------------------------------------------------------------
Files == {"runtime", "desktop", "marker"}

\* Who wrote a file is its scope and generation; "save" is the number of the save
\* and only the properties read it.
Content(kind) == [kind |-> kind, scope |-> 0, generation |-> 0, save |-> 0, data |-> None]

Absent == Content("absent")

Saved(data, scope, generation, save) ==
    [kind |-> "saved", scope |-> scope, generation |-> generation,
     save |-> save, data |-> data]

NoIdentity == [scope |-> 0, generation |-> 0]

IdentityOf(c) == [scope |-> c.scope, generation |-> c.generation]

\* What a launch that can read the files finds.
Found ==
    [capture |-> IF disk["runtime"].kind = "saved" THEN disk["runtime"].save ELSE 0,
     layout |-> IF /\ disk["runtime"].kind = "saved"
                   /\ disk["desktop"].kind = "saved"
                   /\ IdentityOf(disk["desktop"]) = IdentityOf(disk["runtime"])
                THEN disk["desktop"].save ELSE 0]

-----------------------------------------------------------------------------
(* Scripts.                                                                *)

Put(file, content) == [op |-> "put", file |-> file, content |-> content]
Unlink(file) == [op |-> "unlink", file |-> file, content |-> Absent]
Do(op) == [op |-> op, file |-> "runtime", content |-> Absent]
Remember(content) == [Do("remember") EXCEPT !.content = content]

Present(file) == disk[file].kind # "absent"

\* Mutant: the layout is written before the structure it belongs to.
SaveLayoutFirst(runtime, desktop) ==
    IF keepDesktop THEN <<Put("runtime", runtime), Remember(runtime)>>
    ELSE <<Put("desktop", desktop), Do("sync"),
           Put("runtime", runtime), Remember(runtime)>>

\* Store::save, once its checks have passed.
SaveScript(runtime, desktop) ==
    IF keepDesktop THEN <<Put("runtime", runtime), Remember(runtime)>>
    ELSE <<Put("runtime", runtime), Remember(runtime),
           Put("desktop", desktop), Do("sync")>>

Protected(file) ==
    IF file = "runtime" THEN guard = "newer" ELSE keepDesktop

\* Store::set_aside. The copy under another name is not modelled.
SetAsideScript(file) ==
    IF Protected(file) THEN <<>>
    ELSE (IF Present(file) THEN <<Unlink(file), Do("sync")>> ELSE <<>>) \o
         (IF file = "runtime" THEN <<Do("replaceable")>> ELSE <<>>)

\* Mutant: the layout is removed whatever a load found.
RemovableAlways(file) == file = "runtime" => guard = "replaceable"

Removable(file) ==
    CASE file = "runtime" -> guard = "replaceable"
      [] file = "desktop" -> ~keepDesktop
      [] OTHER -> TRUE

\* A file that does not exist is no error, and then nothing is synced.
Removal(file) == IF Removable(file) /\ Present(file) THEN <<Unlink(file)>> ELSE <<>>

\* Store::remove_saved.
RemoveScript ==
    LET removals == Removal("runtime") \o Removal("desktop") \o Removal("marker") IN
    removals \o
    (IF guard = "replaceable" THEN <<Do("forget")>> ELSE <<>>) \o
    (IF removals # <<>> THEN <<Do("sync")>> ELSE <<>>)

\* Mutant: the marker is not synced.
MarkUnsynced == <<Put("marker", Content("marker"))>>

\* Store::mark_restore_attempt: syncs of the file and of its directory.
MarkScript == <<Put("marker", Content("marker")), Do("sync")>>

\* Store::clear_restore_attempt.
ClearScript == IF Present("marker") THEN <<Unlink("marker"), Do("sync")>> ELSE <<>>

Begin(steps) ==
    /\ script' = steps
    /\ failed' = FALSE

\* Store::save. A new scope identity is made when no structure was loaded.
BeginSave(capture, layout) ==
    LET save == saves + 1
        scope == IF identity = NoIdentity THEN scopes + 1 ELSE identity.scope
        generation == identity.generation + 1
    IN
    /\ saves' = save
    /\ scopes' = IF identity = NoIdentity THEN scopes + 1 ELSE scopes
    /\ Begin(SaveScript(Saved(capture, scope, generation, save),
                        Saved(layout, scope, generation, save)))

-----------------------------------------------------------------------------
(* Steps of an operation.                                                  *)

Write(file, content) ==
    /\ disk' = [disk EXCEPT ![file] = content]
    /\ past' = [past EXCEPT ![file] = @ \cup {content}]

StepOn(step, rest) ==
    /\ script' = rest
    /\ UNCHANGED <<failed, faults, scopes>>
    /\ CASE step.op = "put" ->
              Write(step.file, step.content) /\ UNCHANGED <<memory, saves, promised>>
         [] step.op = "unlink" ->
              /\ Write(step.file, Absent)
              /\ promised' = IF step.file = "runtime" THEN 0 ELSE promised
              /\ UNCHANGED <<memory, saves>>
         [] step.op = "sync" ->
              /\ past' = [f \in Files |-> {disk[f]}]
              /\ UNCHANGED <<disk, memory, ghosts>>
         [] step.op = "remember" ->
              /\ past' = [f \in Files |-> {disk[f]}]
              /\ identity' = IdentityOf(step.content)
              /\ promised' = step.content.save
              /\ UNCHANGED <<disk, guard, keepDesktop, saves>>
         [] step.op = "replaceable" ->
              /\ identity' = NoIdentity
              /\ guard' = "replaceable"
              /\ UNCHANGED <<disks, keepDesktop, ghosts>>
         [] step.op = "forget" ->
              /\ identity' = NoIdentity
              /\ UNCHANGED <<disks, guard, keepDesktop, ghosts>>

Step == script # <<>> /\ StepOn(Head(script), Tail(script))

\* A failed step leaves what it would have changed as it was.
Fault ==
    /\ script # <<>> /\ Head(script).op \in {"put", "unlink", "sync", "remember"}
    /\ faults < MaxFaults
    /\ faults' = faults + 1
    /\ script' = <<>>
    /\ failed' = TRUE
    /\ UNCHANGED <<disks, memory, ghosts>>
=============================================================================
