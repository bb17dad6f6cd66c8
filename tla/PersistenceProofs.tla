-------------------------- MODULE PersistenceProofs --------------------------
(***************************************************************************)
(* What holds of saved sessions for every number of structures, launches,  *)
(* changes, failures, crashes and power losses: the two files implement    *)
(* the archive, files of a newer version stay, a restore that was cut      *)
(* short is not tried again, and what Quit wrote or the setting deleted    *)
(* stays so.                                                               *)
(***************************************************************************)
EXTENDS Persistence, SequenceTheorems, FiniteSetTheorems, TLAPS

-----------------------------------------------------------------------------
(* Types.                                                                  *)

Ops == {"put", "unlink", "sync", "remember", "replaceable", "forget"}

Steps == [op : Ops, file : Files, content : Contents]

(* Steps of everything but a save.                                         *)
HarmlessSteps ==
    [op : {"unlink", "sync", "replaceable", "forget"}, file : Files, content : {Absent}]
        \cup {Put("marker", Content("marker"))}

Calls == [op : {"runtime", "desktop", "clear", "remove"}, must : BOOLEAN]

(* What is written has a structure and a layout.                            *)
Captured == [capture : Structures, layout : Structures, seq : 0..sequence]

Jobs == [job : {"save"}, write : Captured]
            \cup [job : {"remove", "clear", "barrier"}, write : {NoWrite}]

StoreTypes ==
    /\ saves \in Nat /\ scopes \in Nat /\ faults \in Nat
    /\ disk \in [Files -> Contents]
    /\ past \in [Files -> SUBSET Contents]
    /\ \A f \in Files : disk[f] \in past[f]
    /\ identity \in [scope : 0..scopes, generation : 0..saves]
    /\ guard \in {"unresolved", "replaceable", "newer"}
    /\ keepDesktop \in BOOLEAN /\ failed \in BOOLEAN
    /\ promised \in 0..saves
    /\ script \in Seq(Steps)

LaunchTypes ==
    /\ up \in {"down", "launch", "up"}
    /\ launch \in [calls : Seq(Calls), must : BOOLEAN, setting : BOOLEAN]
    /\ saved \in Contents
    /\ saved # Absent => saved.kind = "saved" /\ saved.data \in Structures
    /\ blocked \in BOOLEAN /\ enabled \in BOOLEAN
    /\ state \in {"off", "bootstrapping", "running", "final"}
    /\ restore \in {"none", "start", "mark", "spawn", "clear", "remove", "move"}
    /\ quit \in [at : {"none", "drain", "write", "done"},
                 from : {"off", "bootstrapping", "running", "final"}]
    /\ slot \in {None, "launch", "restore", "writer", "quit"}
    /\ (slot = None => script = <<>>)
    /\ (up = "launch" <=> slot = "launch")

WriteTypes ==
    /\ sequence \in Nat
    /\ jobs \in Seq(Jobs)
    /\ last \in Pairs /\ newest \in 0..sequence
    /\ writing \in Writes
    /\ now \in Structures /\ captures \subseteq Writes
    /\ \A c \in captures : c.layout \in Structures
    /\ sending \subseteq Captured

HistoryTypes ==
    /\ attempt \in 0..saves
    /\ kept \in Pairs /\ tried \subseteq 1..saves

(* Nothing runs between two launches.                                      *)
Resting ==
    up = "down" =>
        /\ script = <<>> /\ launch = NoLaunch /\ saved = Absent
        /\ jobs = <<>> /\ captures = {} /\ sending = {} /\ slot = None
        /\ state = "off" /\ restore = "none" /\ quit = NoQuit /\ attempt = 0

Types == StoreTypes /\ LaunchTypes /\ WriteTypes /\ HistoryTypes /\ Resting

-----------------------------------------------------------------------------
(* The files.                                                              *)

Num(c) == IF c.kind = "saved" THEN c.save ELSE 0

(* Whatever a power loss leaves of the structure, it is not older than the  *)
(* last save stored for good; a window layout is of the save of a structure *)
(* with the same identity, or of one before it; and no layout is ahead of   *)
(* the identity the next save follows.                                      *)
FileInv ==
    /\ \A f \in Files : \A c \in past[f] :
          c.kind = "saved" => c.scope # 0 /\ c.save # 0 /\ c.data \in Structures
    /\ \A r \in past["runtime"] : promised <= Num(r)
    /\ \A r \in past["runtime"], d \in past["desktop"] :
          r.kind = "saved" /\ d.kind = "saved" /\ r.scope = d.scope =>
              /\ d.generation <= r.generation
              /\ d.generation = r.generation => d.save = r.save
    /\ \A d \in past["desktop"] :
          d.kind = "saved" /\ d.scope = identity.scope =>
              d.generation <= identity.generation
    /\ identity = NoIdentity \/ identity.scope # 0

(* The layout d of the save whose structure is r.                          *)
Twins(r, d) ==
    /\ r.kind = "saved" /\ d.kind = "saved"
    /\ r.scope = d.scope /\ r.generation = d.generation /\ r.save = d.save
    /\ r.scope # 0 /\ r.save # 0 /\ r.data \in Structures /\ d.data \in Structures

(* No layout has the identity of the save under way, or a later one.       *)
Fresh(r) ==
    \A d \in past["desktop"] :
        d.kind = "saved" /\ d.scope = r.scope => d.generation < r.generation

(* How far a save has come.                                                *)
Saving(r, d) ==
    \/ /\ \/ script = <<Put("runtime", r), Remember(r)>>
          \/ script = <<Put("runtime", r), Remember(r), Put("desktop", d), Do("sync")>>
       /\ promised < r.save
       /\ Fresh(r)
    \/ /\ \/ script = <<Remember(r)>>
          \/ script = <<Remember(r), Put("desktop", d), Do("sync")>>
       /\ disk["runtime"] = r
       /\ Fresh(r)
    \/ /\ script = <<Put("desktop", d), Do("sync")>>
       /\ past["runtime"] = {r}
       /\ identity = IdentityOf(r)

ScriptInv ==
    \/ script \in Seq(HarmlessSteps)
    \/ \E r, d \in Contents : Twins(r, d) /\ Saving(r, d)

-----------------------------------------------------------------------------
(* What a step may do to the store.                                        *)

(* Everything but a save's beginning, a step of a script and a power loss.  *)
Calm ==
    /\ UNCHANGED <<disks, ghosts>>
    /\ \/ /\ script' \in Seq(HarmlessSteps)
          /\ \/ identity' \in {identity, NoIdentity}
             \/ disk["runtime"].kind = "saved" /\ identity' = IdentityOf(disk["runtime"])
       \/ UNCHANGED <<script, identity>>

Save ==
    /\ UNCHANGED <<disks, memory, promised>>
    /\ \E capture, layout \in Structures : BeginSave(capture, layout)

Reset ==
    /\ UNCHANGED ghosts
    /\ identity' = NoIdentity /\ script' = <<>>
    /\ disk' \in [Files -> Contents]
    /\ \A f \in Files : disk'[f] \in past[f] /\ past'[f] = {disk'[f]}
    /\ past' \in [Files -> SUBSET Contents]

LEMMA StringsDiffer ==
    /\ Files = {"runtime", "desktop", "marker"}
    /\ None \notin Structures
BY StoreAssumption DEF Files

LEMMA HarmlessTyped ==
    ASSUME StoreTypes
    PROVE  HarmlessSteps \subseteq Steps /\ Absent \in Contents
                /\ Content("marker") \in Contents
BY SMTT(30) DEF StoreTypes, HarmlessSteps, Steps, Ops, Absent, Content, Contents, Put, Files

(* Scripts that save nothing.                                              *)
LEMMA ScriptsHarmless ==
    /\ \A file \in Files : SetAsideScript(file) \in Seq(HarmlessSteps)
    /\ RemoveScript \in Seq(HarmlessSteps)
    /\ MarkScript \in Seq(HarmlessSteps)
    /\ ClearScript \in Seq(HarmlessSteps)
    /\ <<>> \in Seq(HarmlessSteps)
<1>1. \A f \in Files : Unlink(f) \in HarmlessSteps
  BY DEF HarmlessSteps, Unlink
<1>2. \A op \in {"sync", "replaceable", "forget"} : Do(op) \in HarmlessSteps
  BY DEF HarmlessSteps, Do, Files
<1>3. Put("marker", Content("marker")) \in HarmlessSteps
  BY DEF HarmlessSteps
<1>4. <<>> \in Seq(HarmlessSteps)
  OBVIOUS
<1>5. ASSUME NEW file \in Files
      PROVE  SetAsideScript(file) \in Seq(HarmlessSteps)
  <2>1. (IF Present(file) THEN <<Unlink(file), Do("sync")>> ELSE <<>>) \in Seq(HarmlessSteps)
    BY <1>1, <1>2, <1>4
  <2>2. (IF file = "runtime" THEN <<Do("replaceable")>> ELSE <<>>) \in Seq(HarmlessSteps)
    BY <1>2, <1>4
  <2> QED BY <2>1, <2>2, <1>4, ConcatProperties DEF SetAsideScript
<1>6. RemoveScript \in Seq(HarmlessSteps)
  <2> DEFINE a == Removal("runtime") \o Removal("desktop") \o Removal("marker")
             b == IF guard = "replaceable" THEN <<Do("forget")>> ELSE <<>>
             c == IF a # <<>> THEN <<Do("sync")>> ELSE <<>>
  <2>1. \A f \in Files : Removal(f) \in Seq(HarmlessSteps)
    BY <1>1, <1>4 DEF Removal
  <2>2. Removal("runtime") \o Removal("desktop") \in Seq(HarmlessSteps)
    BY <2>1, ConcatProperties DEF Files
  <2>3. a \in Seq(HarmlessSteps)
    BY <2>1, <2>2, ConcatProperties DEF Files
  <2>4. b \in Seq(HarmlessSteps) /\ c \in Seq(HarmlessSteps)
    BY <1>2, <1>4
  <2>5. a \o b \in Seq(HarmlessSteps)
    BY <2>3, <2>4, ConcatProperties
  <2>6. a \o b \o c \in Seq(HarmlessSteps)
    BY <2>4, <2>5, ConcatProperties
  <2> QED BY <2>6 DEF RemoveScript
<1>7. MarkScript \in Seq(HarmlessSteps)
  BY <1>2, <1>3 DEF MarkScript
<1>8. ClearScript \in Seq(HarmlessSteps)
  BY <1>1, <1>2, <1>4 DEF ClearScript, Files
<1> QED BY <1>4, <1>5, <1>6, <1>7, <1>8

(* The fields the store keeps to itself.                                   *)
Kept4 ==
    /\ guard' \in {"unresolved", "replaceable", "newer"}
    /\ keepDesktop' \in BOOLEAN /\ failed' \in BOOLEAN /\ faults' \in Nat

LEMMA NextStep ==
    ASSUME StoreTypes, script # <<>>
    PROVE  /\ Head(script) \in Steps /\ Head(script).op \in Ops
           /\ Tail(script) \in Seq(Steps)
<1>1. Head(script) \in Steps /\ Tail(script) \in Seq(Steps)
  BY HeadTailProperties DEF StoreTypes
<1> QED BY <1>1 DEF Steps

LEMMA StepMemory == StoreTypes /\ Step => Kept4
<1> SUFFICES ASSUME StoreTypes, Step PROVE Kept4
  OBVIOUS
<1>1. StepOn(Head(script), Tail(script)) /\ Head(script).op \in Ops
  BY NextStep DEF Step
<1>2. UNCHANGED <<failed, faults>>
  BY <1>1 DEF StepOn
<1>3. guard' \in {guard, "replaceable"} /\ keepDesktop' = keepDesktop
  BY <1>1 DEF StepOn, memory, Ops
<1> QED BY <1>2, <1>3 DEF Kept4, StoreTypes

LEMMA StopResets ==
    ASSUME Stop, StoreTypes
    PROVE  /\ UNCHANGED ghosts /\ identity' = NoIdentity /\ script' = <<>> /\ Kept4
BY DEF Stop, StoreTypes, Kept4

LEMMA LosePowerResets == StoreTypes /\ LosePower => Reset /\ Kept4
<1> SUFFICES ASSUME StoreTypes, LosePower PROVE Reset /\ Kept4
  OBVIOUS
<1>1. PICK d \in past["runtime"], e \in past["desktop"], m \in past["marker"] :
         disk' = [runtime |-> d, desktop |-> e, marker |-> m]
  BY DEF LosePower
<1>2. DOMAIN disk' = Files /\ \A f \in Files : disk'[f] \in past[f]
  BY <1>1 DEF Files
<1>3. past \in [Files -> SUBSET Contents]
  BY DEF StoreTypes
<1>4. disk' = [f \in Files |-> disk'[f]]
  BY <1>1 DEF Files
<1>5. disk' \in [Files -> Contents]
  BY <1>2, <1>3, <1>4
<1>6. past' = [f \in Files |-> {disk'[f]}]
  BY DEF LosePower
<1>7. past' \in [Files -> SUBSET Contents] /\ \A f \in Files : past'[f] = {disk'[f]}
  BY <1>5, <1>6
<1> QED BY <1>2, <1>5, <1>7, StopResets DEF LosePower, Reset

LEMMA SavesBegin ==
    ASSUME Types, UNCHANGED <<disks, memory, promised, faults>>,
           NEW capture \in Structures, NEW layout \in Structures,
           BeginSave(capture, layout)
    PROVE  Save /\ Kept4
BY DEF Save, Kept4, BeginSave, Begin, memory, Types, StoreTypes

(* The classification, action by action.                                   *)
LEMMA StoreMoves == Types /\ [Next]_vars => (Calm \/ Save \/ Step \/ Reset) /\ Kept4
<1> SUFFICES ASSUME Types, [Next]_vars PROVE (Calm \/ Save \/ Step \/ Reset) /\ Kept4
  OBVIOUS
<1> USE DEF Types
<1>0. UNCHANGED storeVars => Calm /\ Kept4
  BY DEF storeVars, Calm, Kept4, memory, operation, StoreTypes
<1>1. UNCHANGED vars => Calm /\ Kept4
  BY <1>0 DEF vars
<1>2. StoreStep => Step /\ Kept4
  BY StepMemory DEF StoreStep
<1>3. LaunchCall => Calm /\ Kept4
  <2> SUFFICES ASSUME LaunchCall PROVE Calm /\ Kept4
    OBVIOUS
  <2>1. launch.calls \in Seq(Calls) /\ launch.calls # <<>>
    BY DEF LaunchTypes, LaunchCall
  <2>2. Head(launch.calls) \in Calls
    BY <2>1, HeadTailProperties
  <2>3. Head(launch.calls).op \in {"runtime", "desktop", "clear", "remove"}
    BY <2>2 DEF Calls
  <2>4. script' \in Seq(HarmlessSteps) /\ failed' = FALSE
    BY <2>3, ScriptsHarmless DEF LaunchCall, Begin, Files
  <2> QED BY <2>4 DEF LaunchCall, Calm, Kept4, memory, StoreTypes
<1>4. MarkAttempt => Calm /\ Kept4
  BY ScriptsHarmless DEF MarkAttempt, Begin, Calm, Kept4, memory, operation, StoreTypes
<1>5. Writer => (Calm \/ Save) /\ Kept4
  <2> SUFFICES ASSUME Writer PROVE (Calm \/ Save) /\ Kept4
    OBVIOUS
  <2> DEFINE job == Head(jobs).job
             write == Head(jobs).write
  <2>0. UNCHANGED <<disks, memory, promised, faults>> /\ jobs # <<>>
    BY DEF Writer
  <2>1. Head(jobs) \in Jobs
    BY <2>0, HeadTailProperties DEF WriteTypes
  <2>2. job = "save" => write.capture \in Structures /\ write.layout \in Structures
    BY <2>1 DEF Jobs, Captured
  <2>3. CASE job = "save" /\ UNCHANGED <<saves, scopes, operation>>
    BY <2>0, <2>3 DEF Calm, Kept4, memory, operation, ghosts, StoreTypes
  <2>4. CASE job = "save" /\ ~UNCHANGED <<saves, scopes, operation>>
    <3>1. WriteCheckpoint(write)
      BY <2>4 DEF Writer
    <3>2. BeginSave(write.capture, write.layout)
      BY <2>4, <3>1 DEF WriteCheckpoint
    <3> QED BY <2>4, <3>2, <2>0, <2>2, SavesBegin
  <2>5. CASE job = "barrier"
    BY <2>0, <2>5 DEF Writer, Calm, Kept4, memory, operation, ghosts, StoreTypes
  <2>6. CASE job \notin {"save", "barrier"}
    <3>1. script' \in Seq(HarmlessSteps) /\ failed' = FALSE /\ UNCHANGED <<saves, scopes>>
      BY <2>6, ScriptsHarmless DEF Writer, Begin
    <3> QED BY <3>1, <2>0 DEF Calm, Kept4, memory, ghosts, StoreTypes
  <2> QED BY <2>3, <2>4, <2>5, <2>6
<1>6. QuitWrite => (Calm \/ Save) /\ Kept4
  <2> SUFFICES ASSUME QuitWrite PROVE (Calm \/ Save) /\ Kept4
    OBVIOUS
  <2>0. UNCHANGED <<disks, memory, promised, faults>>
    BY DEF QuitWrite
  <2>1. CASE UNCHANGED <<saves, scopes, operation>>
    BY <2>0, <2>1 DEF Calm, Kept4, memory, operation, ghosts, StoreTypes
  <2>2. CASE BeginSave(now, now)
    BY <2>0, <2>2, SavesBegin DEF WriteTypes
  <2>3. CASE Begin(ClearScript) /\ UNCHANGED <<saves, scopes>>
    BY <2>0, <2>3, ScriptsHarmless DEF Begin, Calm, Kept4, memory, ghosts, StoreTypes
  <2> QED BY <2>1, <2>2, <2>3 DEF QuitWrite
<1>7. ASSUME NEW setting \in BOOLEAN, NEW unreadable \in SUBSET Files, Launch(setting, unreadable)
      PROVE  Calm /\ Kept4
  <2>1. UNCHANGED <<disks, ghosts, script, failed>>
    BY <1>7 DEF Launch, operation
  <2>2. script = <<>>
    BY <1>7 DEF Launch, Resting
  <2>3. identity' = NoIdentity \/ (disk["runtime"].kind = "saved" /\ identity' = IdentityOf(disk["runtime"]))
    BY <1>7 DEF Launch, Files
  <2>4. Kept4
    <3>1. IsFiniteSet(Files)
      <4>1. IsFiniteSet({} \cup {"runtime"} \cup {"desktop"} \cup {"marker"})
        <5>1. IsFiniteSet({} \cup {"runtime"})
          BY FS_EmptySet, FS_AddElement
        <5>2. IsFiniteSet({} \cup {"runtime"} \cup {"desktop"})
          BY <5>1, FS_AddElement
        <5> QED BY <5>2, FS_AddElement
      <4>2. Files = {} \cup {"runtime"} \cup {"desktop"} \cup {"marker"}
        BY DEF Files
      <4> QED BY <4>1, <4>2
    <3>2. Cardinality(unreadable) \in Nat
      BY <3>1, FS_Subset, FS_CardinalityType
    <3>3. faults' \in Nat
      BY <1>7, <3>2 DEF Launch, StoreTypes
    <3> QED BY <1>7, <2>1, <3>3 DEF Launch, Kept4, StoreTypes
  <2>5. script' \in Seq(HarmlessSteps)
    BY <2>1, <2>2, ScriptsHarmless
  <2> QED BY <2>1, <2>3, <2>4, <2>5 DEF Calm
<1>8. StoreFault => Calm /\ Kept4
  BY ScriptsHarmless DEF StoreFault, Fault, Calm, Kept4, memory, StoreTypes
<1>9. Exit => Calm /\ Kept4
  BY StopResets, ScriptsHarmless DEF Exit, Calm, ghosts
<1>10. Crash => Calm /\ Kept4
  BY StopResets, ScriptsHarmless DEF Crash, Calm, ghosts
<1>11. LosePower => Reset /\ Kept4
  BY LosePowerResets
<1>12. LaunchDone \/ Marked \/ Settle \/ SettleClear \/ SettleRemove \/ SettleMove
       \/ TakeCheckpoint \/ WriterDone \/ QuitWritten \/ RestoreNotStarted \/ RestoreFails
       \/ Quit => UNCHANGED storeVars
  BY DEF LaunchDone, Marked, Settle, SettleClear, SettleRemove, Settling, SettleMove,
         TakeCheckpoint, WriterDone, QuitWritten, RestoreNotStarted, RestoreFails, Quit
<1>13. /\ \A c \in captures : CaptureRuntime(c) \/ Checkpoint(c) => UNCHANGED storeVars
       /\ \A c \in sending : SendCheckpoint(c) => UNCHANGED storeVars
  BY DEF CaptureRuntime, Checkpoint, SendCheckpoint
<1>14. \A s \in Structures : Change(s) => UNCHANGED storeVars
  BY DEF Change
<1>15. \A on \in BOOLEAN : SetEnabled(on) => UNCHANGED storeVars
  BY DEF SetEnabled
<1> QED
  BY <1>0, <1>1, <1>2, <1>3, <1>4, <1>5, <1>6, <1>7, <1>8, <1>9, <1>10, <1>11, <1>12,
     <1>13, <1>14, <1>15 DEF Next, Working

-----------------------------------------------------------------------------
(* The invariants of the files under each of these moves.                  *)

StoreInv == StoreTypes /\ FileInv /\ ScriptInv

LEMMA ContentsGrow ==
    ASSUME StoreTypes, scopes' \in Nat, saves' \in Nat, scopes <= scopes', saves <= saves'
    PROVE  Contents \subseteq Contents' /\ Steps \subseteq Steps'
<1>1. Contents \subseteq Contents'
  BY DEF Contents, StoreTypes
<1> QED BY <1>1 DEF Steps

LEMMA WriteTyped ==
    ASSUME StoreTypes, NEW f \in Files, NEW c \in Contents, Write(f, c), UNCHANGED <<saves, scopes>>
    PROVE  /\ disk' \in [Files -> Contents'] /\ past' \in [Files -> SUBSET Contents']
           /\ \A g \in Files : disk'[g] \in past'[g]
           /\ disk'[f] = c /\ past'[f] = past[f] \cup {c}
           /\ \A g \in Files \ {f} : disk'[g] = disk[g] /\ past'[g] = past[g]
<1>1. Contents' = Contents
  BY DEF Contents
<1> QED BY <1>1 DEF StoreTypes, Write

LEMMA SyncTyped ==
    ASSUME StoreTypes, UNCHANGED <<disk, saves, scopes>>, past' = [f \in Files |-> {disk[f]}]
    PROVE  /\ disk' \in [Files -> Contents'] /\ past' \in [Files -> SUBSET Contents']
           /\ \A g \in Files : disk'[g] \in past'[g] /\ past'[g] = {disk[g]}
<1>1. Contents' = Contents
  BY DEF Contents
<1> QED BY <1>1 DEF StoreTypes

LEMMA CalmKeeps ==
    ASSUME StoreInv, Calm, Kept4
    PROVE  StoreInv'
<1> USE DEF StoreInv
<1>1. UNCHANGED <<disk, past, saves, scopes, promised>>
  BY DEF Calm, disks, ghosts
<1>2. Contents' = Contents /\ Steps' = Steps
  BY <1>1 DEF Contents, Steps
<1>3. disk["runtime"] \in Contents /\ disk["runtime"] \in past["runtime"]
  BY DEF StoreTypes, Files
<1>4. identity' \in [scope : 0..scopes, generation : 0..saves]
  BY <1>1, <1>3 DEF Calm, NoIdentity, IdentityOf, Contents, StoreTypes
<1>5. script' \in Seq(Steps)
  BY HarmlessTyped, SeqMonotonic DEF Calm, StoreTypes
<1>6. StoreTypes'
  BY <1>1, <1>2, <1>4, <1>5 DEF StoreTypes, Kept4
<1>7. FileInv'
  <2>1. CASE identity' = identity
    BY <1>1, <2>1 DEF FileInv
  <2>2. CASE identity' = NoIdentity
    BY <1>1, <2>2 DEF FileInv, NoIdentity, Files
  <2>3. CASE disk["runtime"].kind = "saved" /\ identity' = IdentityOf(disk["runtime"])
    BY <1>1, <1>3, <2>3 DEF FileInv, IdentityOf, Files
  <2> QED BY <2>1, <2>2, <2>3 DEF Calm
<1>8. ScriptInv'
  BY <1>1, <1>2 DEF Calm, ScriptInv, Saving, Fresh
<1> QED BY <1>6, <1>7, <1>8

LEMMA SaveKeeps ==
    ASSUME StoreInv, Save, Kept4
    PROVE  StoreInv'
<1> USE DEF StoreInv
<1>1. UNCHANGED <<disk, past, identity, guard, keepDesktop, promised>>
  BY DEF Save, disks, memory
<1>2. PICK capture \in Structures, layout \in Structures :
         BeginSave(capture, layout)
  BY DEF Save
<1> DEFINE save == saves + 1
           scope == IF identity = NoIdentity THEN scopes + 1 ELSE identity.scope
           generation == identity.generation + 1
<1>3. /\ saves' = saves + 1
      /\ script' = SaveScript(Saved(capture, scope, generation, save),
                              Saved(layout, scope, generation, save))
      /\ scopes' = IF identity = NoIdentity THEN scopes + 1 ELSE scopes
  BY <1>2 DEF BeginSave, Begin
<1>4. saves \in Nat /\ scopes \in Nat /\ identity.scope \in 0..scopes
      /\ identity.generation \in 0..saves /\ promised \in 0..saves
  BY DEF StoreTypes
<1>5. saves' \in Nat /\ scopes' \in Nat /\ saves <= saves' /\ scopes <= scopes'
  BY <1>3, <1>4
<1>6. scope \in 1..scopes' /\ generation \in 1..saves' /\ save \in 1..saves'
  BY <1>3, <1>4 DEF FileInv
<1>7. /\ Saved(capture, scope, generation, save) \in Contents'
      /\ Saved(layout, scope, generation, save) \in Contents'
  BY <1>6 DEF Saved, Contents
<1>8. PICK r \in Contents', d \in Contents' :
         /\ script' = SaveScript(r, d)
         /\ r.kind = "saved" /\ r.scope = scope /\ r.generation = generation /\ r.save = save
         /\ Twins(r, d)
  BY <1>3, <1>6, <1>7 DEF Twins, Saved
<1>9. Contents \subseteq Contents' /\ Steps \subseteq Steps'
  BY <1>5, ContentsGrow
<1>10. \A c \in past["desktop"] : c \in Contents
  BY DEF StoreTypes, Files
<1>11. Fresh(r)'
  <2> SUFFICES ASSUME NEW c \in past["desktop"], c.kind = "saved", c.scope = scope
               PROVE  c.generation < generation
    BY <1>1, <1>8 DEF Fresh
  <2>1. c.scope \in 0..scopes /\ c.generation \in 0..saves
    BY <1>10 DEF Contents
  <2>2. identity # NoIdentity
    BY <2>1, <1>4
  <2>3. c.generation <= identity.generation
    BY <2>2 DEF FileInv
  <2> QED BY <2>1, <2>3, <1>4
<1>12. promised' < r.save
  BY <1>1, <1>4, <1>8
<1>13. Saving(r, d)'
  BY <1>8, <1>11, <1>12 DEF Saving, SaveScript
<1>14. ScriptInv'
  BY <1>8, <1>13 DEF ScriptInv
<1>15. script' \in Seq(Steps')
  <2>1. Put("runtime", r) \in Steps' /\ Remember(r) \in Steps' /\ Put("desktop", d) \in Steps'
    BY <1>8 DEF Steps, Put, Remember, Do, Ops, Files, Absent
  <2>2. Do("sync") \in Steps'
    <3>1. Absent \in Contents'
      BY <1>9, HarmlessTyped
    <3> QED BY <3>1 DEF Steps, Do, Ops, Files
  <2> QED BY <2>1, <2>2, <1>8 DEF SaveScript
<1>16. StoreTypes'
  <2>1. disk' \in [Files -> Contents'] /\ past' \in [Files -> SUBSET Contents']
    BY <1>1, <1>9 DEF StoreTypes
  <2>2. identity' \in [scope : 0..scopes', generation : 0..saves'] /\ promised' \in 0..saves'
    BY <1>1, <1>4, <1>5 DEF StoreTypes
  <2> QED BY <1>1, <1>5, <1>15, <2>1, <2>2 DEF StoreTypes, Kept4
<1>17. FileInv'
  BY <1>1 DEF FileInv
<1> QED BY <1>14, <1>16, <1>17

LEMMA ResetKeeps ==
    ASSUME StoreInv, Reset, Kept4
    PROVE  StoreInv'
<1> USE DEF StoreInv
<1>1. UNCHANGED <<saves, scopes, promised>> /\ script' = <<>> /\ identity' = NoIdentity
  BY DEF Reset, ghosts
<1>2. Contents' = Contents /\ Steps' = Steps
  BY <1>1 DEF Contents, Steps
<1>3. \A f \in Files : past'[f] \subseteq past[f]
  BY DEF Reset
<1>4. script' \in Seq(Steps) /\ script' \in Seq(HarmlessSteps)
  BY <1>1, ScriptsHarmless
<1>5. StoreTypes'
  BY <1>1, <1>2, <1>4 DEF Reset, StoreTypes, Kept4, NoIdentity
<1>6. FileInv'
  BY <1>1, <1>3 DEF FileInv, NoIdentity, Files
<1> QED BY <1>4, <1>5, <1>6 DEF ScriptInv

(* A step of an operation that saves nothing.                              *)
LEMMA HarmlessStepKeeps ==
    ASSUME StoreInv, Step, Kept4, script \in Seq(HarmlessSteps)
    PROVE  StoreInv'
<1> USE DEF StoreInv
<1> DEFINE step == Head(script)
<1>1. step \in HarmlessSteps /\ script' \in Seq(HarmlessSteps) /\ script' \in Seq(Steps)
      /\ UNCHANGED <<faults, failed, scopes>> /\ StepOn(step, Tail(script))
  BY NextStep, HeadTailProperties DEF Step, StepOn
<1>2. step.file \in Files /\ step.op \in {"put", "unlink", "sync", "replaceable", "forget"}
  BY <1>1 DEF HarmlessSteps, Put, Files
<1>3. Absent \in Contents /\ Content("marker") \in Contents
  BY HarmlessTyped
<1>4. CASE step.op = "put"
  <2>1. step = Put("marker", Content("marker"))
    BY <1>1, <1>4 DEF HarmlessSteps
  <2>2. Write("marker", Content("marker")) /\ UNCHANGED <<memory, saves, promised>>
    <3>1. step.op = "put" /\ step.file = "marker" /\ step.content = Content("marker")
      BY <2>1 DEF Put
    <3>2. Write(step.file, step.content) /\ UNCHANGED <<memory, saves, promised>>
      BY <1>1, <3>1 DEF StepOn
    <3> QED BY <3>1, <3>2 DEF Write
  <2>3. StoreTypes'
    <3>1. Contents' = Contents /\ Steps' = Steps
      BY <1>1, <2>2 DEF Contents, Steps
    <3> QED BY <1>1, <1>3, <2>2, <3>1, WriteTyped DEF StoreTypes, memory, Files, Kept4
  <2>4. FileInv'
    <3>1. past'["runtime"] = past["runtime"] /\ past'["desktop"] = past["desktop"]
      BY <1>1, <1>3, <2>2, WriteTyped DEF Files
    <3>2. past'["marker"] = past["marker"] \cup {Content("marker")}
      BY <1>1, <1>3, <2>2, WriteTyped DEF Files
    <3> QED BY <3>1, <3>2, <2>2 DEF FileInv, memory, Files, Content
  <2> QED BY <1>1, <2>3, <2>4 DEF ScriptInv
<1>5. CASE step.op = "unlink"
  <2>1. /\ Write(step.file, Absent) /\ UNCHANGED <<memory, saves>>
        /\ promised' = IF step.file = "runtime" THEN 0 ELSE promised
    BY <1>1, <1>5 DEF StepOn
  <2>2. StoreTypes'
    <3>1. Contents' = Contents /\ Steps' = Steps
      BY <1>1, <2>1 DEF Contents, Steps
    <3> QED BY <1>1, <1>2, <1>3, <2>1, <3>1, WriteTyped DEF StoreTypes, memory, Kept4
  <2>3. /\ past'[step.file] = past[step.file] \cup {Absent}
        /\ \A g \in Files \ {step.file} : past'[g] = past[g]
    BY <1>1, <1>2, <1>3, <2>1, WriteTyped
  <2>4. Absent.kind # "saved"
    BY DEF Absent, Content
  <2>5. \A f \in Files : \A c \in past'[f] : c = Absent \/ c \in past[f]
    BY <1>2, <2>3
  <2>6. \A c \in past'["runtime"] : promised' <= Num(c)
    <3>1. CASE step.file = "runtime"
      BY <2>1, <2>2, <3>1 DEF Num, StoreTypes, Files, Contents
    <3>2. CASE step.file # "runtime"
      BY <2>1, <2>3, <3>2 DEF FileInv, Files
    <3> QED BY <3>1, <3>2
  <2>7. FileInv'
    BY <2>1, <2>4, <2>5, <2>6 DEF FileInv, memory, Files
  <2> QED BY <1>1, <2>2, <2>7 DEF ScriptInv
<1>6. CASE step.op = "sync"
  <2>1. past' = [f \in Files |-> {disk[f]}] /\ UNCHANGED <<disk, memory, saves, promised>>
    BY <1>1, <1>6 DEF StepOn, ghosts
  <2>2. StoreTypes'
    <3>1. Contents' = Contents /\ Steps' = Steps
      BY <1>1, <2>1 DEF Contents, Steps
    <3> QED BY <1>1, <2>1, <3>1, SyncTyped DEF StoreTypes, memory, Kept4
  <2>3. \A f \in Files : past'[f] \subseteq past[f]
    BY <2>1 DEF StoreTypes
  <2>4. FileInv'
    BY <2>1, <2>3 DEF FileInv, memory, Files
  <2> QED BY <1>1, <2>2, <2>4 DEF ScriptInv
<1>7. CASE step.op \in {"replaceable", "forget"}
  <2>1. UNCHANGED <<disks, ghosts>> /\ identity' = NoIdentity
    BY <1>1, <1>7 DEF StepOn
  <2> QED BY <1>1, <2>1, CalmKeeps DEF Calm
<1> QED BY <1>2, <1>4, <1>5, <1>6, <1>7

(* A step of a save.                                                       *)
LEMMA SavingStepKeeps ==
    ASSUME StoreInv, Step, Kept4,
           NEW r \in Contents, NEW d \in Contents, Twins(r, d), Saving(r, d)
    PROVE  StoreInv'
<1> USE DEF StoreInv
<1>1. /\ UNCHANGED <<faults, failed, scopes>> /\ StepOn(Head(script), Tail(script))
      /\ script' = Tail(script) /\ script' \in Seq(Steps)
  BY NextStep DEF Step, StepOn
<1>2. Do("sync") \in HarmlessSteps
  BY DEF Do, HarmlessSteps, Files
<1>3. r.kind = "saved" /\ d.kind = "saved" /\ r.scope = d.scope /\ r.generation = d.generation
      /\ r.save = d.save /\ r.scope # 0 /\ r.save # 0
      /\ r.data \in Structures /\ d.data \in Structures
  BY DEF Twins
<1>4. CASE Head(script) = Put("runtime", r) /\ promised < r.save /\ Fresh(r)
           /\ (Tail(script) = <<Remember(r)>> \/ Tail(script) = <<Remember(r), Put("desktop", d), Do("sync")>>)
  <2>1. Write("runtime", r) /\ UNCHANGED <<memory, saves, promised>>
    <3>1. Head(script).op = "put" /\ Head(script).file = "runtime" /\ Head(script).content = r
      BY <1>4 DEF Put
    <3>2. Write(Head(script).file, Head(script).content) /\ UNCHANGED <<memory, saves, promised>>
      BY <1>1, <3>1 DEF StepOn
    <3> QED BY <3>1, <3>2 DEF Write
  <2>2. Contents' = Contents /\ Steps' = Steps
    BY <1>1, <2>1 DEF Contents, Steps
  <2>3. /\ disk'["runtime"] = r /\ past'["runtime"] = past["runtime"] \cup {r}
        /\ \A g \in Files \ {"runtime"} : past'[g] = past[g]
    BY <1>1, <2>1, WriteTyped DEF Files
  <2>4. StoreTypes'
    BY <1>1, <2>1, <2>2, WriteTyped DEF StoreTypes, memory, Files, Kept4
  <2>5. past'["desktop"] = past["desktop"]
    BY <2>3 DEF Files
  <2>6. \A c \in past["desktop"] : c.generation \in Nat
    BY DEF StoreTypes, Files, Contents
  <2>7. r.generation \in Nat
    BY DEF Contents, StoreTypes
  <2>8. \A c \in past["desktop"] :
           c.kind = "saved" /\ r.scope = c.scope => c.generation < r.generation
    BY <1>4 DEF Fresh
  <2>9. FileInv'
    <3>1. \A f \in Files : \A c \in past'[f] :
              c.kind = "saved" => c.scope # 0 /\ c.save # 0 /\ c.data \in Structures
      BY <1>3, <2>3 DEF FileInv
    <3>2. \A c \in past'["runtime"] : promised' <= Num(c)
      BY <1>3, <1>4, <2>1, <2>3 DEF FileInv, Num, StoreTypes, Contents
    <3>3. \A c \in past'["runtime"], e \in past'["desktop"] :
              c.kind = "saved" /\ e.kind = "saved" /\ c.scope = e.scope =>
              /\ e.generation <= c.generation
              /\ e.generation = c.generation => e.save = c.save
      BY <2>3, <2>5, <2>6, <2>7, <2>8 DEF FileInv
    <3>4. /\ \A c \in past'["desktop"] :
              c.kind = "saved" /\ c.scope = identity'.scope => c.generation <= identity'.generation
          /\ identity' = NoIdentity \/ identity'.scope # 0
      BY <2>1, <2>5 DEF FileInv, memory
    <3> QED BY <3>1, <3>2, <3>3, <3>4 DEF FileInv
  <2>10. Saving(r, d)'
    BY <1>1, <1>4, <2>3, <2>5 DEF Saving, Fresh
  <2> QED BY <2>2, <2>4, <2>9, <2>10 DEF ScriptInv
<1>5. CASE Head(script) = Remember(r) /\ disk["runtime"] = r /\ Fresh(r)
           /\ (Tail(script) = <<>> \/ Tail(script) = <<Put("desktop", d), Do("sync")>>)
  <2>1. /\ past' = [f \in Files |-> {disk[f]}] /\ identity' = IdentityOf(r)
        /\ promised' = r.save /\ UNCHANGED <<disk, guard, keepDesktop, saves>>
    BY <1>1, <1>5 DEF StepOn, Remember, Do
  <2>2. Contents' = Contents /\ Steps' = Steps
    BY <1>1, <2>1 DEF Contents, Steps
  <2>3. r.scope \in 0..scopes /\ r.generation \in 0..saves /\ r.save \in 0..saves
    BY DEF Contents
  <2>4. StoreTypes'
    BY <1>1, <2>1, <2>2, <2>3, SyncTyped DEF StoreTypes, IdentityOf, Kept4
  <2>5. past'["runtime"] = {r} /\ past'["desktop"] = {disk["desktop"]}
        /\ disk["desktop"] \in past["desktop"] /\ \A f \in Files : past'[f] \subseteq past[f]
    BY <1>5, <2>1 DEF StoreTypes, Files
  <2>6. disk["desktop"].generation \in Nat /\ r.generation \in Nat
    BY <2>5, <2>3 DEF StoreTypes, Files, Contents
  <2>7. FileInv'
    <3>1. \A f \in Files : \A c \in past'[f] :
              c.kind = "saved" => c.scope # 0 /\ c.save # 0 /\ c.data \in Structures
      BY <2>5 DEF FileInv
    <3>2. \A c \in past'["runtime"] : promised' <= Num(c)
      BY <1>3, <2>1, <2>3, <2>5 DEF Num
    <3>3. \A c \in past'["runtime"], e \in past'["desktop"] :
              c.kind = "saved" /\ e.kind = "saved" /\ c.scope = e.scope =>
              /\ e.generation <= c.generation
              /\ e.generation = c.generation => e.save = c.save
      BY <1>5, <2>5, <2>6 DEF Fresh
    <3>4. /\ \A c \in past'["desktop"] :
              c.kind = "saved" /\ c.scope = identity'.scope => c.generation <= identity'.generation
          /\ identity' = NoIdentity \/ identity'.scope # 0
      BY <1>3, <1>5, <2>1, <2>5, <2>6 DEF Fresh, IdentityOf
    <3> QED BY <3>1, <3>2, <3>3, <3>4 DEF FileInv
  <2>8. CASE Tail(script) = <<>>
    BY <1>1, <2>4, <2>7, <2>8, ScriptsHarmless DEF ScriptInv, HarmlessSteps
  <2>9. CASE Tail(script) = <<Put("desktop", d), Do("sync")>>
    BY <1>1, <2>1, <2>2, <2>4, <2>5, <2>7, <2>9 DEF ScriptInv, Saving
  <2> QED BY <1>5, <2>8, <2>9
<1>6. CASE Head(script) = Put("desktop", d) /\ Tail(script) = <<Do("sync")>>
           /\ past["runtime"] = {r} /\ identity = IdentityOf(r)
  <2>1. Write("desktop", d) /\ UNCHANGED <<memory, saves, promised>>
    <3>1. Head(script).op = "put" /\ Head(script).file = "desktop" /\ Head(script).content = d
      BY <1>6 DEF Put
    <3>2. Write(Head(script).file, Head(script).content) /\ UNCHANGED <<memory, saves, promised>>
      BY <1>1, <3>1 DEF StepOn
    <3> QED BY <3>1, <3>2 DEF Write
  <2>2. Contents' = Contents /\ Steps' = Steps
    BY <1>1, <2>1 DEF Contents, Steps
  <2>3. /\ past'["desktop"] = past["desktop"] \cup {d} /\ past'["runtime"] = {r}
        /\ \A g \in Files \ {"desktop"} : past'[g] = past[g]
    BY <1>1, <1>6, <2>1, WriteTyped DEF Files
  <2>4. StoreTypes'
    BY <1>1, <2>1, <2>2, WriteTyped DEF StoreTypes, memory, Files, Kept4
  <2>5. d.generation \in Nat
    BY DEF Contents, StoreTypes
  <2>6. FileInv'
    <3>1. \A f \in Files : \A c \in past'[f] :
              c.kind = "saved" => c.scope # 0 /\ c.save # 0 /\ c.data \in Structures
      BY <1>3, <2>3 DEF FileInv
    <3>2. \A c \in past'["runtime"] : promised' <= Num(c)
      BY <1>6, <2>1, <2>3 DEF FileInv
    <3>3. \A c \in past'["runtime"], e \in past'["desktop"] :
              c.kind = "saved" /\ e.kind = "saved" /\ c.scope = e.scope =>
              /\ e.generation <= c.generation
              /\ e.generation = c.generation => e.save = c.save
      BY <1>3, <1>6, <2>3, <2>5 DEF FileInv
    <3>4. /\ \A c \in past'["desktop"] :
              c.kind = "saved" /\ c.scope = identity'.scope => c.generation <= identity'.generation
          /\ identity' = NoIdentity \/ identity'.scope # 0
      BY <1>3, <1>6, <2>1, <2>3, <2>5 DEF FileInv, memory, IdentityOf
    <3> QED BY <3>1, <3>2, <3>3, <3>4 DEF FileInv
  <2>7. script' \in Seq(HarmlessSteps)
    <3>1. script' = <<Do("sync")>>
      BY <1>1, <1>6
    <3>2. \A S : \A x \in S : <<x>> \in Seq(S)
      OBVIOUS
    <3> QED BY <1>2, <3>1, <3>2
  <2>8. HarmlessSteps' = HarmlessSteps
    BY DEF HarmlessSteps
  <2> QED BY <2>4, <2>6, <2>7, <2>8 DEF ScriptInv
<1>7. \A a, b : Head(<<a, b>>) = a /\ Tail(<<a, b>>) = <<b>>
  OBVIOUS
<1>8. \A a, b, c, e : Head(<<a, b, c, e>>) = a /\ Tail(<<a, b, c, e>>) = <<b, c, e>>
  OBVIOUS
<1>9. \A a : Head(<<a>>) = a /\ Tail(<<a>>) = <<>>
  OBVIOUS
<1>10. \A a, b, c : Head(<<a, b, c>>) = a /\ Tail(<<a, b, c>>) = <<b, c>>
  OBVIOUS
<1>11. CASE /\ \/ script = <<Put("runtime", r), Remember(r)>>
               \/ script = <<Put("runtime", r), Remember(r), Put("desktop", d), Do("sync")>>
            /\ promised < r.save /\ Fresh(r)
  <2>1. CASE script = <<Put("runtime", r), Remember(r)>>
    BY <1>4, <1>7, <1>11, <2>1, ZenonT(40)
  <2>2. CASE script = <<Put("runtime", r), Remember(r), Put("desktop", d), Do("sync")>>
    BY <1>4, <1>8, <1>11, <2>2, ZenonT(40)
  <2> QED BY <1>11, <2>1, <2>2
<1>12. CASE /\ \/ script = <<Remember(r)>>
               \/ script = <<Remember(r), Put("desktop", d), Do("sync")>>
            /\ disk["runtime"] = r /\ Fresh(r)
  <2>1. CASE script = <<Remember(r)>>
    BY <1>5, <1>9, <1>12, <2>1, Zenon
  <2>2. CASE script = <<Remember(r), Put("desktop", d), Do("sync")>>
    BY <1>5, <1>10, <1>12, <2>2, Zenon
  <2> QED BY <1>12, <2>1, <2>2
<1>13. CASE script = <<Put("desktop", d), Do("sync")>> /\ past["runtime"] = {r}
            /\ identity = IdentityOf(r)
  BY <1>6, <1>7, <1>13, Zenon
<1> QED BY <1>11, <1>12, <1>13, Zenon DEF Saving

LEMMA StoreInvKept == Types /\ StoreInv /\ [Next]_vars => StoreInv'
<1> SUFFICES ASSUME Types, StoreInv, [Next]_vars PROVE StoreInv'
  OBVIOUS
<1>1. CASE Step /\ Kept4
  BY <1>1, HarmlessStepKeeps, SavingStepKeeps DEF StoreInv, ScriptInv
<1> QED BY <1>1, StoreMoves, CalmKeeps, SaveKeeps, ResetKeeps

-----------------------------------------------------------------------------
(* The other types.                                                        *)

LEMMA CountsGrow ==
    ASSUME Types, [Next]_vars
    PROVE  /\ saves <= saves' /\ scopes <= scopes' /\ saves' \in Nat /\ scopes' \in Nat
           /\ Contents \subseteq Contents'
<1> USE DEF Types
<1>1. saves \in Nat /\ scopes \in Nat
  BY DEF StoreTypes
<1>2. saves <= saves' /\ scopes <= scopes' /\ saves' \in Nat /\ scopes' \in Nat
  <2>1. CASE Calm \/ Reset
    BY <1>1, <2>1 DEF Calm, Reset, ghosts
  <2>2. CASE Save
    BY <1>1, <2>2 DEF Save, BeginSave, disks, memory
  <2>3. CASE Step
    <3>1. StepOn(Head(script), Tail(script)) /\ Head(script).op \in Ops
      BY <2>3, NextStep DEF Step
    <3>2. UNCHANGED <<saves, scopes>>
      BY <3>1 DEF StepOn, Ops, ghosts
    <3> QED BY <1>1, <3>2
  <2> QED BY <2>1, <2>2, <2>3, StoreMoves
<1> QED BY <1>2, ContentsGrow

LEMMA ShortSequences ==
    /\ \A S : <<>> \in Seq(S)
    /\ \A S : \A x \in S : <<x>> \in Seq(S)
    /\ \A S : \A x, y \in S : <<x, y>> \in Seq(S)
OBVIOUS

LEMMA CallsTyped ==
    ASSUME NEW runtime, NEW layout, NEW crashed \in BOOLEAN, NEW setting \in BOOLEAN
    PROVE  LaunchCalls(runtime, layout, crashed, setting) \in Seq(Calls)
<1>1. \A op \in {"runtime", "desktop", "clear", "remove"}, must \in BOOLEAN : Call(op, must) \in Calls
  BY DEF Call, Calls
<1>2. CorruptLayout(layout) \in Seq(Calls)
  BY <1>1, ShortSequences DEF CorruptLayout
<1>3. Remaining(crashed, setting) \in Seq(Calls)
  <2>1. (IF crashed THEN <<Call("clear", FALSE)>> ELSE <<>>) \in Seq(Calls)
        /\ (IF setting THEN <<>> ELSE <<Call("remove", FALSE)>>) \in Seq(Calls)
    BY <1>1, ShortSequences
  <2> QED BY <2>1, ConcatProperties DEF Remaining
<1>4. AfterCrash(layout) \in Seq(Calls)
  <2>1. /\ <<Call("runtime", TRUE)>> \in Seq(Calls) /\ <<Call("clear", FALSE)>> \in Seq(Calls)
        /\ (IF layout \in {"newer", "unreadable"} THEN <<>> ELSE <<Call("desktop", TRUE)>>) \in Seq(Calls)
    BY <1>1, ShortSequences
  <2>2. (<<Call("runtime", TRUE)>> \o
            (IF layout \in {"newer", "unreadable"} THEN <<>> ELSE <<Call("desktop", TRUE)>>)) \in Seq(Calls)
    BY <2>1, ConcatProperties
  <2> QED BY <2>1, <2>2, ConcatProperties DEF AfterCrash
<1>5. <<Call("runtime", TRUE)>> \in Seq(Calls)
      /\ (IF setting THEN <<>> ELSE <<Call("remove", FALSE)>>) \in Seq(Calls)
      /\ <<>> \in Seq(Calls)
  BY <1>1, ShortSequences
<1>6. <<Call("runtime", TRUE)>> \o Remaining(crashed, setting) \in Seq(Calls)
      /\ CorruptLayout(layout) \o Remaining(crashed, setting) \in Seq(Calls)
      /\ CorruptLayout(layout) \o (IF setting THEN <<>> ELSE <<Call("remove", FALSE)>>) \in Seq(Calls)
  BY <1>2, <1>3, <1>5, ConcatProperties
<1> QED BY <1>4, <1>5, <1>6 DEF LaunchCalls

LEMMA LaunchTypesKept == Types /\ StoreInv /\ [Next]_vars => LaunchTypes' /\ Resting'
<1> SUFFICES ASSUME Types, StoreInv, [Next]_vars PROVE LaunchTypes' /\ Resting'
  OBVIOUS
<1> USE HolderAssumption DEF Types
<1>0. Contents \subseteq Contents' /\ StoreTypes'
  BY CountsGrow, StoreInvKept DEF StoreInv
<1>1. CASE UNCHANGED vars
  BY <1>0, <1>1 DEF vars, owner, slotVars, program, history, storeVars, operation, LaunchTypes, Resting
<1>2. CASE StoreStep
  <2>1. slot # None /\ UNCHANGED <<up, launch, saved, owner, slotVars, program, history>>
    BY <1>2 DEF StoreStep, Step, LaunchTypes
  <2> QED BY <1>0, <2>1 DEF LaunchTypes, Resting, owner, slotVars, program, history
<1>3. CASE LaunchCall
  <2>1. launch' = [launch EXCEPT !.calls = Tail(@), !.must = Head(launch.calls).must]
    BY <1>3 DEF LaunchCall
  <2>2. Head(launch.calls) \in Calls /\ Tail(launch.calls) \in Seq(Calls)
    BY <1>3, HeadTailProperties DEF LaunchCall, LaunchTypes
  <2>3. launch' \in [calls : Seq(Calls), must : BOOLEAN, setting : BOOLEAN]
    BY <2>1, <2>2 DEF LaunchTypes, Calls
  <2> QED BY <1>0, <1>3, <2>3 DEF LaunchCall, LaunchTypes, Resting, owner, slotVars, program
<1>4. CASE LaunchDone
  <2>1. NoLaunch \in [calls : Seq(Calls), must : BOOLEAN, setting : BOOLEAN]
    BY ShortSequences DEF NoLaunch
  <2> QED BY <1>0, <1>4, <2>1 DEF LaunchDone, LaunchTypes, Resting, storeVars, operation, MustFailed, StoreTypes
<1>5. CASE MarkAttempt
  BY <1>0, <1>5 DEF MarkAttempt, LaunchTypes, Resting, owner, operation
<1>6. CASE Marked
  BY <1>0, <1>6 DEF Marked, LaunchTypes, Resting, owner, storeVars, operation
<1>7. CASE Settle \/ SettleClear \/ SettleRemove \/ SettleMove
  BY <1>0, <1>7 DEF Settle, SettleClear, SettleRemove, Settling, SettleMove, SettleTo,
         LaunchTypes, Resting, owner, slotVars, history, storeVars, operation
<1>8. CASE TakeCheckpoint
  BY <1>0, <1>8 DEF TakeCheckpoint, LaunchTypes, Resting, slotVars, history, storeVars, operation
<1>9. ASSUME NEW c \in captures, CaptureRuntime(c) \/ Checkpoint(c)
      PROVE  LaunchTypes' /\ Resting'
  BY <1>0, <1>9 DEF CaptureRuntime, Checkpoint, LaunchTypes, Resting, owner, slotVars, history, storeVars, operation
<1>9a. ASSUME NEW c \in sending, SendCheckpoint(c) PROVE LaunchTypes' /\ Resting'
  BY <1>0, <1>9a DEF SendCheckpoint, LaunchTypes, Resting, slotVars, history, storeVars, operation
<1>10. CASE Writer
  <2>1. UNCHANGED <<up, launch, saved, blocked, enabled, state, restore>> /\ up # "down"
        /\ slot = None
    BY <1>10 DEF Writer, Resting
  <2>2. quit' \in [at : {"none", "drain", "write", "done"},
                  from : {"off", "bootstrapping", "running", "final"}]
    BY <1>10 DEF Writer, LaunchTypes
  <2>3. slot' \in {None, "writer"} /\ (slot' = None => script' = <<>>)
    <3>1. slot = None /\ script = <<>>
      BY <1>10 DEF Writer, LaunchTypes
    <3>2. CASE Head(jobs).job = "save"
      BY <1>10, <3>1, <3>2, StringsDiffer DEF Writer, WriteCheckpoint, operation
    <3>3. CASE Head(jobs).job = "barrier"
      BY <1>10, <3>1, <3>3 DEF Writer, operation
    <3>4. CASE Head(jobs).job \notin {"save", "barrier"}
      BY <1>10, <3>4 DEF Writer
    <3> QED BY <3>2, <3>3, <3>4
  <2> QED BY <1>0, <2>1, <2>2, <2>3 DEF LaunchTypes, Resting
<1>11. CASE WriterDone
  BY <1>0, <1>11 DEF WriterDone, LaunchTypes, Resting, owner, storeVars, program, history, operation
<1>12. CASE QuitWrite
  <2>1. up # "down" /\ up' = up
    BY <1>12 DEF QuitWrite, Resting, NoQuit
  <2>2. slot' \in {None, "quit"} /\ (slot' = None => script' = <<>>)
    BY <1>12 DEF QuitWrite, LaunchTypes, operation
  <2> QED BY <1>0, <1>12, <2>1, <2>2 DEF QuitWrite, LaunchTypes, Resting, owner
<1>13. CASE QuitWritten
  BY <1>0, <1>13 DEF QuitWritten, LaunchTypes, Resting, owner, storeVars, operation
<1>14. ASSUME NEW setting \in BOOLEAN, NEW unreadable \in SUBSET Files, Launch(setting, unreadable)
       PROVE  LaunchTypes' /\ Resting'
  <2> DEFINE seen(f) == IF f \in unreadable /\ Present(f) THEN "unreadable" ELSE disk[f].kind
  <2>1. LaunchCalls(seen("runtime"), seen("desktop"), Present("marker"), setting) \in Seq(Calls)
    BY CallsTyped DEF Present
  <2>2. launch' \in [calls : Seq(Calls), must : BOOLEAN, setting : BOOLEAN]
    <3>1. launch' = [NoLaunch EXCEPT !.setting = setting,
                       !.calls = IF "marker" \in unreadable THEN <<>>
                                 ELSE LaunchCalls(seen("runtime"), seen("desktop"), Present("marker"), setting)]
      BY <1>14 DEF Launch
    <3> QED BY <2>1, <3>1, ShortSequences DEF NoLaunch
  <2>3. saved' \in Contents'
    <3>1. disk["runtime"] \in Contents /\ Absent \in Contents
      BY HarmlessTyped DEF StoreTypes, Files
    <3> QED BY <1>0, <1>14, <3>1 DEF Launch
  <2>5. saved' # Absent => saved'.kind = "saved" /\ saved'.data \in Structures
    <3>1. disk["runtime"] \in past["runtime"]
      BY DEF StoreTypes, Files
    <3>2. saved' # Absent => saved' = disk["runtime"] /\ saved'.kind = "saved"
      BY <1>14 DEF Launch, Present, Absent, Content
    <3> QED BY <3>1, <3>2 DEF StoreInv, FileInv, Files
  <2>4. script' = <<>> /\ slot' = "launch" /\ up' = "launch" /\ blocked' \in BOOLEAN
        /\ UNCHANGED <<enabled, state, restore, quit>>
    BY <1>14 DEF Launch, Resting, operation, program
  <2> QED BY <1>0, <2>2, <2>3, <2>4, <2>5, SMTT(30) DEF LaunchTypes, Resting
<1>15. CASE StoreFault
  <2>1. slot # None /\ UNCHANGED <<up, launch, saved, owner, slotVars, program, attempt>>
    BY <1>15 DEF StoreFault, Fault, LaunchTypes
  <2> QED BY <1>0, <2>1 DEF LaunchTypes, Resting, owner, slotVars, program, history
<1>16. CASE RestoreNotStarted \/ RestoreFails
  <2>1. up = "up" /\ restore' = "none" /\ attempt' \in {attempt, 0}
        /\ UNCHANGED <<script, up, launch, saved, enabled, jobs, slot, captures, sending, quit>>
    BY <1>16 DEF RestoreNotStarted, RestoreFails, slotVars, history, storeVars, operation
  <2>2. (Suspend \/ UNCHANGED <<blocked, state>>)
    BY <1>16, Zenon DEF RestoreNotStarted, RestoreFails
  <2>3. blocked' \in BOOLEAN /\ state' \in {"off", "bootstrapping", "running", "final"}
    BY <1>0, <2>2 DEF Suspend, LaunchTypes
  <2> QED BY <1>0, <2>1, <2>3 DEF LaunchTypes, Resting
<1>17. ASSUME NEW s \in Structures, Change(s) PROVE LaunchTypes' /\ Resting'
  BY <1>0, <1>17 DEF Change, LaunchTypes, Resting, owner, slotVars, history, storeVars, operation
<1>18. ASSUME NEW on \in BOOLEAN, SetEnabled(on) PROVE LaunchTypes' /\ Resting'
  BY <1>0, <1>18 DEF SetEnabled, LaunchTypes, Resting, slotVars, history, storeVars, operation
<1>19. CASE Quit
  BY <1>0, <1>19 DEF Quit, LaunchTypes, Resting, slotVars, storeVars, operation
<1>20. CASE Exit \/ Crash \/ LosePower
  <2>1. Stop
    BY <1>20 DEF Exit, Crash, LosePower
  <2>2. Absent \in Contents'
    BY <1>0, HarmlessTyped
  <2> QED BY <1>0, <2>1, <2>2, ShortSequences DEF Stop, LaunchTypes, Resting, NoLaunch, NoQuit
<1> QED
  BY <1>1, <1>2, <1>3, <1>4, <1>5, <1>6, <1>7, <1>8, <1>9, <1>9a, <1>10, <1>11, <1>12, <1>13,
     <1>14, <1>15, <1>16, <1>17, <1>18, <1>19, <1>20 DEF Next, Working

LEMMA WriteTypesKept == Types /\ [Next]_vars => WriteTypes'
<1> SUFFICES ASSUME Types, [Next]_vars PROVE WriteTypes'
  OBVIOUS
<1> USE DEF Types
<1>0. /\ sequence \in Nat
      /\ sequence' = sequence => Writes' = Writes /\ Jobs' = Jobs /\ Captured' = Captured
  <2>1. ASSUME sequence' = sequence PROVE Writes' = Writes /\ Jobs' = Jobs /\ Captured' = Captured
    BY <2>1 DEF Writes, Jobs, Captured
  <2> QED BY <2>1 DEF WriteTypes
<1>a. \A kind \in {"remove", "clear", "barrier"} : Job(kind) \in Jobs
  BY DEF Job, Jobs
<1>b. Pairs' = Pairs
  BY DEF Pairs
<1> DEFINE Same == UNCHANGED <<sequence, jobs, last, newest, writing, now, captures, sending>>
<1>1. Same => WriteTypes'
  BY <1>0, <1>b DEF WriteTypes
<1>2. UNCHANGED vars \/ StoreStep \/ StoreFault \/ LaunchCall \/ MarkAttempt \/ Marked \/ Settle
      \/ SettleMove \/ QuitWritten \/ RestoreNotStarted \/ RestoreFails
      \/ QuitWrite => Same
  BY DEF vars, owner, slotVars, program, StoreStep, StoreFault, LaunchCall, MarkAttempt, Marked,
         Settle, SettleMove, QuitWritten, RestoreNotStarted, RestoreFails, QuitWrite
<1>3. ASSUME NEW setting \in BOOLEAN, NEW unreadable \in SUBSET Files, Launch(setting, unreadable)
      PROVE  Same
  BY <1>3 DEF Launch, program
<1>4. CASE LaunchDone
  <2>1. now' \in Structures
    <3>1. CASE saved = Absent
      BY <1>4, <3>1 DEF LaunchDone
    <3>2. CASE saved # Absent
      BY <1>4, <3>2 DEF LaunchDone, LaunchTypes
    <3> QED BY <3>1, <3>2
  <2> QED BY <1>0, <1>b, <1>4, <2>1 DEF LaunchDone, WriteTypes
<1>5. CASE SettleClear \/ SettleRemove
  <2>1. PICK kind \in {"remove", "clear"} : jobs' = Append(jobs, Job(kind))
    BY <1>5 DEF SettleClear, SettleRemove, Settling, Send
  <2>2. jobs' \in Seq(Jobs)
    BY <1>a, <2>1, AppendProperties DEF WriteTypes
  <2>3. UNCHANGED <<sequence, last, newest, writing, now, captures, sending>>
    BY <1>5 DEF SettleClear, SettleRemove, Settling, slotVars
  <2> QED BY <1>0, <1>b, <2>2, <2>3 DEF WriteTypes
<1>6. CASE TakeCheckpoint
  <2>1. CASE state = "running"
    <3>1. /\ sequence' = sequence + 1
          /\ captures' = captures \cup {[capture |-> None, layout |-> now, seq |-> sequence + 1]}
          /\ UNCHANGED <<jobs, last, newest, writing, now, sending>>
      BY <1>6, <2>1 DEF TakeCheckpoint, slotVars
    <3>2. Writes \subseteq Writes' /\ sequence' \in Nat
      BY <1>0, <3>1 DEF Writes
    <3>3. Jobs \subseteq Jobs' /\ Captured \subseteq Captured'
      BY <1>0, <3>1 DEF Jobs, Captured
    <3>4. jobs' \in Seq(Jobs')
      BY <3>1, <3>3, SeqMonotonic DEF WriteTypes
    <3>5. [capture |-> None, layout |-> now, seq |-> sequence + 1] \in Writes'
      BY <1>0, <3>1 DEF Writes, WriteTypes
    <3> QED BY <1>0, <1>b, <3>1, <3>2, <3>3, <3>4, <3>5 DEF WriteTypes
  <2>2. CASE state # "running"
    BY <1>1, <1>6, <2>2 DEF TakeCheckpoint, slotVars
  <2> QED BY <2>1, <2>2
<1>7. ASSUME NEW c \in captures, CaptureRuntime(c) PROVE WriteTypes'
  <2>1. c \in Writes /\ now \in Structures
    BY DEF WriteTypes
  <2>2. [c EXCEPT !.capture = now] \in Writes /\ [c EXCEPT !.capture = now].layout = c.layout
    BY <2>1 DEF Writes
  <2> QED BY <1>0, <1>b, <1>7, <2>2 DEF CaptureRuntime, WriteTypes, owner, slotVars
<1>8. ASSUME NEW c \in captures, Checkpoint(c) PROVE WriteTypes'
  <2>1. c \in Captured
    <3>1. c \in Writes /\ c.layout \in Structures /\ c.capture # None
      BY <1>8 DEF WriteTypes, Checkpoint
    <3> QED BY <3>1 DEF Writes, Captured
  <2>2. sending' \subseteq Captured
    BY <1>8, <2>1 DEF Checkpoint, WriteTypes
  <2>3. UNCHANGED <<sequence, jobs, last, newest, writing, now>> /\ captures' \subseteq captures
    BY <1>8 DEF Checkpoint, owner, slotVars
  <2> QED BY <1>0, <1>b, <2>2, <2>3 DEF WriteTypes
<1>8a. ASSUME NEW c \in sending, SendCheckpoint(c) PROVE WriteTypes'
  <2>1. [job |-> "save", write |-> c] \in Jobs
    BY DEF Jobs, WriteTypes
  <2>2. jobs' \in Seq(Jobs)
    BY <1>8a, <2>1, AppendProperties DEF SendCheckpoint, Send, WriteTypes
  <2>3. UNCHANGED <<sequence, last, newest, writing, now, captures>> /\ sending' \subseteq sending
    BY <1>8a DEF SendCheckpoint, slotVars
  <2> QED BY <1>0, <1>b, <2>2, <2>3 DEF WriteTypes
<1>9. CASE Writer
  <2>1. Head(jobs) \in Jobs /\ Tail(jobs) \in Seq(Jobs)
    BY <1>9, HeadTailProperties DEF Writer, WriteTypes
  <2>2. Head(jobs).write \in Writes /\ Head(jobs).write.seq \in 0..sequence
    BY <1>0, <2>1 DEF Jobs, Captured, Writes, NoWrite
  <2>3. UNCHANGED <<sequence, now, captures, sending>> /\ jobs' = Tail(jobs)
    BY <1>9 DEF Writer
  <2>4. last' \in Pairs /\ newest' \in 0..sequence /\ writing' \in Writes
    <3>1. CASE Head(jobs).job = "save"
      BY <1>9, <2>2, <3>1 DEF Writer, WriteCheckpoint, WriteTypes
    <3>2. CASE Head(jobs).job = "barrier"
      BY <1>9, <3>2 DEF Writer, WriteTypes
    <3>3. CASE Head(jobs).job \notin {"save", "barrier"}
      <4>1. last' \in {last, NoPair} /\ UNCHANGED <<newest, writing>>
        BY <1>9, <3>3 DEF Writer, ForgetLast
      <4> QED BY <4>1 DEF WriteTypes, NoPair, Pair, Pairs
    <3> QED BY <3>1, <3>2, <3>3
  <2>5. Writes' = Writes /\ Jobs' = Jobs /\ sequence' \in Nat /\ jobs' \in Seq(Jobs')
    BY <1>0, <2>1, <2>3
  <2>6. /\ now' \in Structures /\ captures' \subseteq Writes'
        /\ \A c \in captures' : c.layout \in Structures
        /\ sending' \subseteq Captured'
    BY <1>0, <2>3, <2>5 DEF WriteTypes
  <2> QED BY <1>b, <2>3, <2>4, <2>5, <2>6 DEF WriteTypes
<1>10. CASE WriterDone
  <2>1. UNCHANGED <<sequence, jobs, now, captures, sending>> /\ writing' = NoWrite
    BY <1>10 DEF WriterDone, owner, program
  <2>2. writing.seq \in 0..sequence /\ Pair(writing.capture, writing.layout) \in Pairs
    BY DEF WriteTypes, Writes, Pair, Pairs
  <2>3. last' \in Pairs /\ newest' \in 0..sequence
    BY <1>10, <2>2 DEF WriterDone, WriteTypes
  <2>4. NoWrite \in Writes
    BY <1>0 DEF NoWrite, Writes
  <2> QED BY <1>0, <1>b, <2>1, <2>3, <2>4 DEF WriteTypes
<1>11. ASSUME NEW s \in Structures, Change(s) PROVE WriteTypes'
  BY <1>0, <1>b, <1>11 DEF Change, WriteTypes, owner, slotVars
<1>12. ASSUME NEW on \in BOOLEAN, SetEnabled(on) PROVE WriteTypes'
  <2>1. jobs' \in Seq(Jobs)
    <3>1. jobs' = jobs \/ jobs' = Append(jobs, Job("remove"))
      BY <1>12 DEF SetEnabled, Send
    <3> QED BY <1>a, <3>1, AppendProperties DEF WriteTypes
  <2> QED BY <1>0, <1>b, <1>12, <2>1 DEF SetEnabled, WriteTypes, slotVars
<1>13. CASE Quit
  <2>1. jobs' \in Seq(Jobs)
    BY <1>a, <1>13, AppendProperties DEF Quit, Send, WriteTypes
  <2> QED BY <1>0, <1>b, <1>13, <2>1 DEF Quit, WriteTypes, slotVars
<1>14. CASE Exit \/ Crash \/ LosePower
  <2>1. Stop
    BY <1>14 DEF Exit, Crash, LosePower
  <2>2. NoWrite \in Writes' /\ NoPair \in Pairs' /\ sequence' = 0
    BY <2>1 DEF NoWrite, Writes, NoPair, Pair, Pairs, Stop
  <2>3. now' \in Structures
    BY <2>1 DEF Stop, AnyStructure, WriteTypes
  <2> QED BY <2>1, <2>2, <2>3, ShortSequences DEF Stop, WriteTypes
<1> QED
  BY <1>1, <1>2, <1>3, <1>4, <1>5, <1>6, <1>7, <1>8, <1>8a, <1>9, <1>10, <1>11, <1>12, <1>13,
     <1>14 DEF Next, Working

LEMMA HistoryTypesKept == Types /\ [Next]_vars => HistoryTypes'
<1> SUFFICES ASSUME Types, [Next]_vars PROVE HistoryTypes'
  OBVIOUS
<1> USE DEF Types
<1>0. saves <= saves' /\ saves' \in Nat /\ saves \in Nat
  BY CountsGrow DEF StoreTypes
<1>b. Pairs' = Pairs
  BY DEF Pairs
<1>1. UNCHANGED <<attempt, kept, tried>> => HistoryTypes'
  BY <1>0, <1>b DEF HistoryTypes
<1>2. UNCHANGED vars \/ StoreStep \/ MarkAttempt \/ WriterDone \/ RestoreNotStarted
      => UNCHANGED <<attempt, kept, tried>>
  BY DEF vars, history, program, StoreStep, MarkAttempt, WriterDone, RestoreNotStarted
<1>3. /\ \A c \in captures : CaptureRuntime(c) \/ Checkpoint(c)
              => UNCHANGED <<attempt, kept, tried>>
      /\ \A c \in sending : SendCheckpoint(c) => UNCHANGED <<attempt, kept, tried>>
  BY DEF CaptureRuntime, Checkpoint, SendCheckpoint, history
<1>4. CASE LaunchCall
  <2>1. tried' \subseteq tried
    BY <1>4 DEF LaunchCall, Outstanding
  <2> QED BY <1>0, <1>b, <1>4, <2>1 DEF LaunchCall, HistoryTypes, program
<1>5. CASE LaunchDone \/ SettleClear \/ SettleRemove \/ SettleMove \/ TakeCheckpoint
  BY <1>1, <1>5 DEF LaunchDone, SettleClear, SettleRemove, Settling, SettleMove, TakeCheckpoint,
         history
<1>6. CASE Marked
  <2>1. saved.save \in 0..saves
    BY DEF LaunchTypes, Contents
  <2> QED BY <1>0, <1>b, <1>6, <2>1 DEF Marked, HistoryTypes
<1>7. CASE Settle \/ RestoreFails \/ Quit
  <2>1. attempt' = 0 /\ UNCHANGED <<kept, tried>>
    BY <1>7 DEF Settle, RestoreFails, Quit
  <2> QED BY <1>0, <1>b, <2>1 DEF HistoryTypes
<1>8. CASE Writer
  <2>1. tried' \subseteq tried
    BY <1>8 DEF Writer
  <2> QED BY <1>0, <1>b, <1>8, <2>1 DEF Writer, HistoryTypes
<1>9. CASE QuitWrite \/ QuitWritten
  <2>1. kept' \in {kept, Kept}
    BY <1>9 DEF QuitWrite, QuitWritten
  <2>2. Kept \in Pairs
    BY DEF Kept, NoPair, Pair, Pairs, WriteTypes
  <2> QED BY <1>0, <1>b, <1>9, <2>1, <2>2 DEF QuitWrite, QuitWritten, HistoryTypes
<1>10. ASSUME NEW setting \in BOOLEAN, NEW unreadable \in SUBSET Files, Launch(setting, unreadable)
       PROVE  HistoryTypes'
  BY <1>0, <1>b, <1>10 DEF Launch, HistoryTypes, NoPair, Pair, Pairs, program
<1>11. CASE StoreFault
  BY <1>0, <1>b, <1>11 DEF StoreFault, HistoryTypes, program
<1>12. ASSUME NEW s \in Structures, Change(s) PROVE HistoryTypes'
  BY <1>0, <1>b, <1>12 DEF Change, HistoryTypes, history
<1>13. ASSUME NEW on \in BOOLEAN, SetEnabled(on) PROVE HistoryTypes'
  BY <1>0, <1>b, <1>13 DEF SetEnabled, HistoryTypes, history
<1>14. CASE Exit \/ Crash \/ LosePower
  <2>1. tried' \in {tried, tried \cup {attempt}} /\ (tried' # tried => attempt # 0) /\ Stop
    BY <1>14 DEF Exit, Crash, LosePower, CutShort
  <2>2. tried' \subseteq 1..saves'
    BY <1>0, <2>1 DEF HistoryTypes
  <2> QED BY <1>0, <1>b, <2>1, <2>2 DEF Stop, HistoryTypes
<1> QED
  BY <1>1, <1>2, <1>3, <1>4, <1>5, <1>6, <1>7, <1>8, <1>9, <1>10, <1>11, <1>12, <1>13,
     <1>14 DEF Next, Working

(* The beginning: what earlier runs may have left.                         *)
LEMMA LeftTyped ==
    ASSUME NEW s \in Structures, saves = 2, scopes = 1
    PROVE  /\ Absent \in Contents /\ Content("corrupt") \in Contents
           /\ Content("newer") \in Contents /\ Saved(s, 1, 2, 2) \in Contents
           /\ Saved(s, 1, 1, 1) \in Contents
BY DEF Absent, Content, Saved, Contents

LEMMA StoreInitially == Init => StoreInv
<1> SUFFICES ASSUME Init PROVE StoreInv
  OBVIOUS
<1>1. PICK s \in Structures :
         disk \in {[runtime |-> r, desktop |-> d, marker |-> Absent] :
                     r \in {Absent, Content("corrupt"), Content("newer"), Saved(s, 1, 2, 2)},
                     d \in {Absent, Content("corrupt"), Content("newer"),
                            Saved(s, 1, 1, 1), Saved(s, 1, 2, 2)}}
  BY EarlierAssumption DEF Init, LeftBehind
<1>2. PICK r \in {Absent, Content("corrupt"), Content("newer"), Saved(s, 1, 2, 2)},
           d \in {Absent, Content("corrupt"), Content("newer"), Saved(s, 1, 1, 1), Saved(s, 1, 2, 2)} :
         disk = [runtime |-> r, desktop |-> d, marker |-> Absent]
  BY <1>1
<1>3. saves = 2 /\ scopes = 1 /\ faults = 0 /\ promised = Found.capture
      /\ identity = NoIdentity /\ guard = "unresolved" /\ keepDesktop = FALSE
      /\ script = <<>> /\ failed = FALSE /\ past = [f \in Files |-> {disk[f]}]
  BY DEF Init
<1>4. r \in Contents /\ d \in Contents /\ Absent \in Contents
  BY <1>3, LeftTyped
<1>5. disk \in [Files -> Contents]
  BY <1>2, <1>4 DEF Files
<1>6. disk["runtime"] = r /\ disk["desktop"] = d /\ disk["marker"] = Absent
  BY <1>2
<1>7. promised = IF r.kind = "saved" THEN r.save ELSE 0
  BY <1>3, <1>6 DEF Found
<1>8. promised \in 0..saves
  BY <1>3, <1>4, <1>7 DEF Contents
<1>9. StoreTypes
  <2>1. past \in [Files -> SUBSET Contents] /\ \A f \in Files : disk[f] \in past[f]
    BY <1>3, <1>5
  <2>2. identity \in [scope : 0..scopes, generation : 0..saves]
    BY <1>3 DEF NoIdentity
  <2> QED BY <1>3, <1>5, <1>8, <2>1, <2>2, ShortSequences DEF StoreTypes
<1>10. /\ (r.kind = "saved" => r = Saved(s, 1, 2, 2))
       /\ (d.kind = "saved" => d \in {Saved(s, 1, 1, 1), Saved(s, 1, 2, 2)})
       /\ Absent.kind # "saved"
  BY DEF Absent, Content
<1>11. FileInv
  <2>1. past["runtime"] = {r} /\ past["desktop"] = {d} /\ past["marker"] = {Absent}
    BY <1>3, <1>6 DEF Files
  <2>2. \A f \in Files : \A c \in past[f] :
            c.kind = "saved" => c.scope # 0 /\ c.save # 0 /\ c.data \in Structures
    BY <1>10, <2>1 DEF Files, Saved
  <2> QED BY <1>3, <1>7, <1>8, <1>10, <2>1, <2>2 DEF FileInv, Num, Saved, NoIdentity
<1> QED BY <1>3, <1>9, <1>11, ScriptsHarmless DEF StoreInv, ScriptInv

LEMMA TypesInitially == Init => Types
<1> SUFFICES ASSUME Init PROVE Types
  OBVIOUS
<1> USE HolderAssumption
<1>1. StoreTypes
  BY StoreInitially DEF StoreInv
<1>2. LaunchTypes /\ Resting
  BY <1>1, HarmlessTyped, ShortSequences DEF Init, LaunchTypes, Resting, NoLaunch, NoQuit
<1>3. AnyStructure \in Structures
  BY EarlierAssumption DEF Init, LeftBehind, AnyStructure
<1>4. WriteTypes
  BY <1>3, ShortSequences DEF Init, WriteTypes, NoPair, Pair, Pairs, NoWrite, Writes
<1>5. HistoryTypes
  BY DEF Init, HistoryTypes, NoPair, Pair, Pairs
<1> QED BY <1>1, <1>2, <1>4, <1>5 DEF Types

LEMMA TypesKept == Types /\ StoreInv /\ [Next]_vars => Types'
BY LaunchTypesKept, WriteTypesKept, HistoryTypesKept, StoreInvKept DEF Types, StoreInv

(* The types of the files, the store, the owner and the program (store.rs,  *)
(* persistence.rs, checkpoints.rs, restore.rs).                            *)
THEOREM PersistenceTypes == Spec => []TypeOK
<1>1. Init => Types /\ StoreInv
  BY StoreInitially, TypesInitially
<1>2. (Types /\ StoreInv) /\ [Next]_vars => (Types /\ StoreInv)'
  BY TypesKept, StoreInvKept
<1>3. Types => TypeOK
  <2> SUFFICES ASSUME Types PROVE TypeOK
    OBVIOUS
  <2>1. \A i \in DOMAIN jobs :
           jobs[i].job \in {"save", "remove", "clear", "barrier"} /\ jobs[i].write \in Writes
    <3>1. \A j \in Jobs : j.job \in {"save", "remove", "clear", "barrier"} /\ j.write \in Writes
      BY DEF Types, WriteTypes, Jobs, Captured, Writes, NoWrite
    <3> QED BY <3>1 DEF Types, WriteTypes
  <2>2. \A f \in Files : past[f] \subseteq Contents /\ disk[f] \in past[f]
    BY DEF Types, StoreTypes
  <2>3. sending \subseteq Writes
    BY DEF Types, WriteTypes, Captured, Writes
  <2> QED BY <2>1, <2>2, <2>3 DEF Types, StoreTypes, LaunchTypes, WriteTypes, HistoryTypes, TypeOK
<1> QED BY <1>1, <1>2, <1>3, PTL DEF Spec

-----------------------------------------------------------------------------
(* The files implement the archive.                                        *)

LEMMA FoundFields ==
    /\ Found.capture = Num(disk["runtime"])
    /\ Found.layout = IF /\ disk["runtime"].kind = "saved"
                         /\ disk["desktop"].kind = "saved"
                         /\ IdentityOf(disk["desktop"]) = IdentityOf(disk["runtime"])
                      THEN disk["desktop"].save ELSE 0
    /\ Found = [capture |-> Found.capture, layout |-> Found.layout]
BY DEF Found, Num

(* What is on the disk is a finding, with the layout of its own save.       *)
FoundInv ==
    /\ Found \in Archived!Findings /\ Archived!Belongs(Found)
    /\ promised <= Found.capture

LEMMA FoundBelongs == StoreInv => FoundInv
<1> SUFFICES ASSUME StoreInv PROVE FoundInv
  OBVIOUS
<1>1. disk["runtime"] \in past["runtime"] /\ disk["desktop"] \in past["desktop"]
      /\ disk["runtime"] \in Contents /\ disk["desktop"] \in Contents
  BY DEF StoreInv, StoreTypes, Files
<1>2. Found.capture \in Nat /\ Found.layout \in Nat
  BY <1>1, FoundFields DEF Num, Contents, StoreInv, StoreTypes
<1>3. Found.layout \in {0, Found.capture}
  BY <1>1, FoundFields DEF StoreInv, FileInv, Num, IdentityOf
<1>4. promised <= Found.capture
  BY <1>1, FoundFields DEF StoreInv, FileInv
<1> QED
  BY <1>2, <1>3, <1>4, FoundFields DEF FoundInv, Archived!Findings, Archived!Belongs

LEMMA FoundBelongsNext == StoreInv' => FoundInv'
BY FoundBelongs, PTL

ArchiveMove == Archived!ArchiveNext \/ UNCHANGED Archived!archive

LEMMA QuietFound ==
    ASSUME UNCHANGED <<disk, promised>>
    PROVE  ArchiveMove
BY DEF ArchiveMove, Archived!archive, Found, Present

LEMMA ResetFound ==
    ASSUME StoreInv', Reset
    PROVE  ArchiveMove
<1>1. FoundInv' /\ promised' = promised
  BY FoundBelongsNext DEF Reset, ghosts
<1>2. Archived!PowerLoss
  BY <1>1 DEF FoundInv, Archived!PowerLoss
<1> QED BY <1>2 DEF ArchiveMove, Archived!ArchiveNext

(* Removing a file takes the finding, or its layout.                        *)
LEMMA UnlinkFound ==
    ASSUME StoreInv, NEW f \in Files, disk' = [disk EXCEPT ![f] = Absent],
           promised' = IF f = "runtime" THEN 0 ELSE promised
    PROVE  ArchiveMove
<1>0. DOMAIN disk = Files /\ Absent.kind # "saved"
  BY DEF StoreInv, StoreTypes, Absent, Content
<1>1. CASE f = "runtime"
  <2>1. disk'["runtime"] = Absent /\ promised' = 0
    BY <1>0, <1>1
  <2>2. Found' = [capture |-> 0, layout |-> 0]
    BY <1>0, <2>1 DEF Found
  <2>3. Archived!Withdraw
    BY <2>1, <2>2 DEF Archived!Withdraw, Archived!Nothing
  <2> QED BY <2>3 DEF ArchiveMove, Archived!ArchiveNext
<1>2. CASE f = "desktop"
  <2>1. disk'["runtime"] = disk["runtime"] /\ disk'["desktop"] = Absent /\ promised' = promised
    BY <1>0, <1>2 DEF Files
  <2>2. Found' = [Found EXCEPT !.layout = 0]
    BY <1>0, <2>1 DEF Found
  <2>3. Archived!LoseLayout
    BY <2>1, <2>2 DEF Archived!LoseLayout
  <2> QED BY <2>3 DEF ArchiveMove, Archived!ArchiveNext
<1>3. CASE f = "marker"
  <2>1. /\ disk'["runtime"] = disk["runtime"] /\ disk'["desktop"] = disk["desktop"]
        /\ promised' = promised
    BY <1>0, <1>3 DEF Files
  <2>2. Found' = Found
    BY <2>1 DEF Found
  <2> QED BY <2>1, <2>2 DEF ArchiveMove, Archived!archive
<1> QED BY <1>1, <1>2, <1>3 DEF Files

LEMMA PutStep ==
    ASSUME NEW f, NEW c, NEW rest, StepOn(Put(f, c), rest)
    PROVE  disk' = [disk EXCEPT ![f] = c] /\ promised' = promised
<1>1. Put(f, c).op = "put" /\ Put(f, c).file = f /\ Put(f, c).content = c
  BY DEF Put
<1> DEFINE step == Put(f, c)
<1>2. StepOn(step, rest) /\ step.op = "put" /\ step.file = f /\ step.content = c
  BY <1>1
<1> HIDE DEF step
<1>3. Write(step.file, step.content) /\ UNCHANGED <<memory, saves, promised>>
  BY <1>2 DEF StepOn
<1> QED BY <1>2, <1>3 DEF Write

(* A step of a script that saves nothing.                                   *)
LEMMA HarmlessFound ==
    ASSUME StoreInv, script \in Seq(HarmlessSteps), Step
    PROVE  ArchiveMove
<1> DEFINE step == Head(script)
<1>1. step \in HarmlessSteps /\ StepOn(step, Tail(script))
  BY HeadTailProperties DEF Step
<1>2. CASE step = Put("marker", Content("marker"))
  <2>1. disk' = [disk EXCEPT !["marker"] = Content("marker")] /\ promised' = promised
    BY <1>1, <1>2, PutStep
  <2>2. disk'["runtime"] = disk["runtime"] /\ disk'["desktop"] = disk["desktop"]
    BY <2>1 DEF StoreInv, StoreTypes, Files
  <2>3. Found' = Found
    BY <2>2 DEF Found
  <2> QED BY <2>1, <2>3 DEF ArchiveMove, Archived!archive
<1>3. CASE step.op = "unlink" /\ step.file \in Files
  <2>1. /\ disk' = [disk EXCEPT ![step.file] = Absent]
        /\ promised' = IF step.file = "runtime" THEN 0 ELSE promised
    BY <1>1, <1>3 DEF StepOn, Write
  <2> QED BY <1>3, <2>1, UnlinkFound
<1>4. CASE step.op \in {"sync", "replaceable", "forget"}
  <2>1. UNCHANGED <<disk, promised>>
    BY <1>1, <1>4 DEF StepOn, disks, ghosts
  <2> QED BY <2>1, QuietFound
<1>5. \/ step = Put("marker", Content("marker"))
      \/ step.op = "unlink" /\ step.file \in Files
      \/ step.op \in {"sync", "replaceable", "forget"}
  BY <1>1 DEF HarmlessSteps
<1> QED BY <1>2, <1>3, <1>4, <1>5

(* The steps of a save: a newer structure without a layout, its promise,    *)
(* and the layout that belongs to it.                                       *)
LEMMA SavingFound ==
    ASSUME StoreInv, NEW r \in Contents, NEW d \in Contents, Twins(r, d), Saving(r, d), Step
    PROVE  ArchiveMove
<1>0. /\ DOMAIN disk = Files /\ disk["desktop"] \in past["desktop"]
      /\ disk["runtime"] \in past["runtime"]
      /\ r.save \in Nat /\ r.save # 0 /\ r.scope \in Nat /\ r.generation \in Nat
      /\ StepOn(Head(script), Tail(script))
      /\ \A c \in past["desktop"] : c \in Contents
  BY DEF StoreInv, StoreTypes, Files, Contents, Twins, Step
<1>1. CASE /\ \/ script = <<Put("runtime", r), Remember(r)>>
              \/ script = <<Put("runtime", r), Remember(r), Put("desktop", d), Do("sync")>>
           /\ promised < r.save /\ Fresh(r)
  <2>1. Head(script) = Put("runtime", r)
    BY <1>1
  <2>2. disk' = [disk EXCEPT !["runtime"] = r] /\ promised' = promised
    BY <1>0, <2>1, PutStep
  <2>3. disk'["runtime"] = r /\ disk'["desktop"] = disk["desktop"]
    BY <1>0, <2>2 DEF Files
  <2>4. ~(disk["desktop"].kind = "saved" /\ IdentityOf(disk["desktop"]) = IdentityOf(r))
    BY <1>0, <1>1 DEF Fresh, IdentityOf
  <2>5. Found' = [capture |-> r.save, layout |-> 0]
    BY <2>3, <2>4 DEF Found, Twins
  <2>6. Archived!Replace
    BY <1>0, <1>1, <2>2, <2>5 DEF Archived!Replace, Archived!Findings
  <2> QED BY <2>6 DEF ArchiveMove, Archived!ArchiveNext
<1>2. CASE /\ \/ script = <<Remember(r)>>
              \/ script = <<Remember(r), Put("desktop", d), Do("sync")>>
           /\ disk["runtime"] = r /\ Fresh(r)
  <2>1. Head(script) = Remember(r)
    BY <1>2
  <2>2. promised' = r.save /\ disk' = disk
    BY <1>0, <2>1 DEF StepOn, Remember, Do
  <2>3. Found' = Found /\ Found.capture = r.save
    BY <1>2, <2>2 DEF Found, Twins
  <2>4. Archived!Promise
    BY <2>2, <2>3 DEF Archived!Promise
  <2> QED BY <2>4 DEF ArchiveMove, Archived!ArchiveNext
<1>3. CASE /\ script = <<Put("desktop", d), Do("sync")>>
           /\ past["runtime"] = {r} /\ identity = IdentityOf(r)
  <2>1. Head(script) = Put("desktop", d)
    BY <1>3
  <2>2. disk' = [disk EXCEPT !["desktop"] = d] /\ promised' = promised
    BY <1>0, <2>1, PutStep
  <2>3. disk["runtime"] = r /\ disk'["runtime"] = r /\ disk'["desktop"] = d
    BY <1>0, <1>3, <2>2 DEF Files
  <2>4. Found.capture = r.save /\ Found' = [capture |-> r.save, layout |-> r.save]
    BY <2>3 DEF Found, Twins, IdentityOf
  <2>5. Found' = [Found EXCEPT !.layout = Found.capture]
    BY <2>4 DEF Found
  <2>6. Archived!Complete
    BY <1>0, <2>2, <2>4, <2>5 DEF Archived!Complete
  <2> QED BY <2>6 DEF ArchiveMove, Archived!ArchiveNext
<1> QED BY <1>1, <1>2, <1>3 DEF Saving

LEMMA StepFound == StoreInv /\ Step => ArchiveMove
BY HarmlessFound, SavingFound DEF StoreInv, ScriptInv

(* What a launch finds, however an operation of the store (store.rs) was    *)
(* cut short: the archive's promise, for every run.                         *)
THEOREM FilesKeepArchive == Spec => StoreKeepsArchive
<1>1. Init => Types /\ StoreInv
  BY StoreInitially, TypesInitially
<1>2. (Types /\ StoreInv) /\ [Next]_vars => (Types /\ StoreInv)'
  BY TypesKept, StoreInvKept
<1>3. Init => Archived!ArchiveInit
  <2>1. Init => FoundInv /\ promised = Found.capture
    BY <1>1, FoundBelongs DEF Init
  <2> QED BY <2>1 DEF FoundInv, Archived!ArchiveInit
<1>4. (Types /\ StoreInv) /\ (Types /\ StoreInv)' /\ [Next]_vars
      => [Archived!ArchiveNext]_(Archived!archive)
  <2> SUFFICES ASSUME Types, StoreInv, StoreInv', [Next]_vars
               PROVE  ArchiveMove
    BY DEF ArchiveMove
  <2>1. Calm \/ Save \/ Step \/ Reset
    BY StoreMoves
  <2>2. CASE Calm \/ Save
    BY <2>2, QuietFound DEF Calm, Save, disks, ghosts
  <2> QED BY <2>1, <2>2, StepFound, ResetFound
<1> QED
  BY <1>1, <1>2, <1>3, <1>4, PTL DEF Spec, StoreKeepsArchive, Archived!ArchiveSpec

-----------------------------------------------------------------------------
(* Files of a newer version stay.                                          *)

Newer(f) == disk[f].kind = "newer"

(* Steps that touch no file of a newer version.                            *)
SafeSteps ==
    {step \in [op : Ops, file : Files, content : {c \in Contents : c.kind # "newer"}] :
        /\ step.op \in {"put", "unlink"} => ~Newer(step.file)
        /\ step.op = "replaceable" => ~Newer("runtime")}

(* Nothing a power loss could bring back.                                  *)
Untouched ==
    \A f \in Files : \A c \in past[f] : c.kind = "newer" => past[f] = {disk[f]}

(* What a launch has noted about the files.                                *)
Noted ==
    up # "down" =>
        /\ ~Newer("marker")
        /\ Newer("desktop") => keepDesktop
        /\ Newer("runtime") => guard # "replaceable"
        /\ Newer("runtime") /\ guard # "newer" =>
              launch.calls \in Seq({c \in Calls : c.op # "runtime"})

MarkerKnown == \A c \in past["marker"] : c.kind # "newer"

NewerInv == Untouched /\ Noted /\ MarkerKnown /\ script \in Seq(SafeSteps)

(* Scripts that a launch's notes allow.                                    *)
LEMMA ScriptsSafe ==
    ASSUME Types, NewerInv, up # "down"
    PROVE  /\ guard = "newer" \/ ~Newer("runtime") => SetAsideScript("runtime") \in Seq(SafeSteps)
           /\ SetAsideScript("desktop") \in Seq(SafeSteps)
           /\ RemoveScript \in Seq(SafeSteps)
           /\ MarkScript \in Seq(SafeSteps)
           /\ ClearScript \in Seq(SafeSteps)
<1> USE DEF Types
<1>0. /\ Absent \in {c \in Contents : c.kind # "newer"}
      /\ Content("marker") \in {c \in Contents : c.kind # "newer"}
  BY HarmlessTyped DEF Absent, Content
<1>1. \A f \in Files : ~Newer(f) => Unlink(f) \in SafeSteps
  BY <1>0 DEF SafeSteps, Unlink, Ops
<1>2. Do("sync") \in SafeSteps /\ Do("forget") \in SafeSteps
      /\ (~Newer("runtime") => Do("replaceable") \in SafeSteps)
  BY <1>0 DEF SafeSteps, Do, Ops, Files
<1>3. ~Newer("marker") /\ (Newer("desktop") => keepDesktop)
      /\ (Newer("runtime") => guard # "replaceable")
  BY DEF NewerInv, Noted
<1>4. Put("marker", Content("marker")) \in SafeSteps
  BY <1>0, <1>3 DEF SafeSteps, Put, Ops, Files
<1>5. \A S : <<>> \in Seq(S)
  BY ShortSequences
<1>6. MarkScript \in Seq(SafeSteps) /\ ClearScript \in Seq(SafeSteps)
  BY <1>1, <1>2, <1>3, <1>4, ShortSequences DEF MarkScript, ClearScript, Files
<1>7. ASSUME NEW f \in {"runtime", "desktop"}, ~Newer(f)
      PROVE  SetAsideScript(f) \in Seq(SafeSteps)
  <2>1. (IF Present(f) THEN <<Unlink(f), Do("sync")>> ELSE <<>>) \in Seq(SafeSteps)
    BY <1>1, <1>2, <1>7, ShortSequences DEF Files
  <2>2. (IF f = "runtime" THEN <<Do("replaceable")>> ELSE <<>>) \in Seq(SafeSteps)
    BY <1>2, <1>7, ShortSequences
  <2> QED BY <2>1, <2>2, <1>5, ConcatProperties DEF SetAsideScript
<1>8. SetAsideScript("desktop") \in Seq(SafeSteps)
  <2>1. CASE keepDesktop
    BY <2>1, <1>5 DEF SetAsideScript, Protected
  <2> QED BY <1>3, <1>7, <2>1
<1>9. guard = "newer" => SetAsideScript("runtime") \in Seq(SafeSteps)
  BY <1>5 DEF SetAsideScript, Protected
<1>10. RemoveScript \in Seq(SafeSteps)
  <2> DEFINE a == Removal("runtime") \o Removal("desktop") \o Removal("marker")
             b == IF guard = "replaceable" THEN <<Do("forget")>> ELSE <<>>
             c == IF a # <<>> THEN <<Do("sync")>> ELSE <<>>
  <2>1. \A f \in Files : Removal(f) \in Seq(SafeSteps)
    <3> SUFFICES ASSUME NEW f \in Files PROVE Removal(f) \in Seq(SafeSteps)
      OBVIOUS
    <3>1. CASE Newer(f)
      <4>1. ~Removable(f)
        BY <1>3, <3>1 DEF Removable, Files
      <4> QED BY <4>1, <1>5 DEF Removal
    <3>2. CASE ~Newer(f)
      BY <1>1, <1>5, <3>2, ShortSequences DEF Removal
    <3> QED BY <3>1, <3>2
  <2>2. Removal("runtime") \o Removal("desktop") \in Seq(SafeSteps)
    BY <2>1, ConcatProperties DEF Files
  <2>3. a \in Seq(SafeSteps)
    BY <2>1, <2>2, ConcatProperties DEF Files
  <2>4. b \in Seq(SafeSteps) /\ c \in Seq(SafeSteps)
    BY <1>2, ShortSequences
  <2>5. a \o b \in Seq(SafeSteps)
    BY <2>3, <2>4, ConcatProperties
  <2>6. a \o b \o c \in Seq(SafeSteps)
    BY <2>4, <2>5, ConcatProperties
  <2> QED BY <2>6 DEF RemoveScript
<1> QED BY <1>6, <1>7, <1>8, <1>9, <1>10

(* Nothing about the files changes.                                         *)
LEMMA SafeGrow ==
    ASSUME Types, [Next]_vars, \A f \in Files : Newer(f)' = Newer(f)
    PROVE  SafeSteps \subseteq SafeSteps'
<1>1. Contents \subseteq Contents'
  BY CountsGrow
<1> QED BY <1>1 DEF SafeSteps, Files

LEMMA QuietNewer ==
    ASSUME Types, NewerInv, [Next]_vars, UNCHANGED <<disks, guard, keepDesktop, up>>,
           launch'.calls = launch.calls,
           script' \in Seq(SafeSteps)
    PROVE  NewerInv'
<1>1. UNCHANGED <<disk, past>>
  BY DEF disks
<1>2. \A f \in Files : Newer(f)' = Newer(f)
  BY <1>1 DEF Newer
<1>3. script' \in Seq(SafeSteps')
  BY <1>2, SafeGrow, SeqMonotonic
<1>4. Untouched' /\ MarkerKnown'
  BY <1>1 DEF NewerInv, Untouched, MarkerKnown
<1>5. Noted'
  BY <1>1 DEF NewerInv, Noted, Newer, Calls
<1> QED BY <1>3, <1>4, <1>5 DEF NewerInv

(* A save.                                                                  *)
LEMMA SaveNewer ==
    ASSUME Types, StoreInv, NewerInv, [Next]_vars, up # "down", guard = "replaceable",
           UNCHANGED <<disks, memory, up, launch>>,
           NEW capture \in Structures, NEW layout \in Structures,
           BeginSave(capture, layout)
    PROVE  NewerInv'
<1>1. UNCHANGED <<disk, past, guard, keepDesktop, identity>>
  BY DEF disks, memory
<1>2. \A f \in Files : Newer(f)' = Newer(f)
  BY <1>1 DEF Newer
<1>3. ~Newer("runtime") /\ (Newer("desktop") => keepDesktop)
  BY DEF NewerInv, Noted
<1> DEFINE save == saves + 1
           scope == IF identity = NoIdentity THEN scopes + 1 ELSE identity.scope
           generation == identity.generation + 1
           r == Saved(capture, scope, generation, save)
           d == Saved(layout, scope, generation, save)
<1>4. script' = SaveScript(r, d) /\ saves' = save
      /\ scopes' = IF identity = NoIdentity THEN scopes + 1 ELSE scopes
  BY DEF BeginSave, Begin
<1>5. /\ scope \in 0..scopes' /\ generation \in 0..saves' /\ save \in 0..saves'
  BY <1>4 DEF Types, StoreTypes
<1>6. r \in {c \in Contents' : c.kind # "newer"} /\ d \in {c \in Contents' : c.kind # "newer"}
  BY <1>5 DEF Saved, Contents
<1>7. Absent \in {c \in Contents' : c.kind # "newer"}
  BY CountsGrow, HarmlessTyped DEF Types, Absent, Content
<1> HIDE DEF r, d
<1>8. /\ Put("runtime", r) \in SafeSteps' /\ Remember(r) \in SafeSteps'
      /\ Do("sync") \in SafeSteps'
      /\ ~Newer("desktop") => Put("desktop", d) \in SafeSteps'
  BY <1>2, <1>3, <1>6, <1>7 DEF SafeSteps, Put, Remember, Do, Ops, Files
<1>9. script' \in Seq(SafeSteps')
  <2>1. CASE keepDesktop
    BY <1>4, <1>8, <2>1, ShortSequences DEF SaveScript
  <2>2. CASE ~keepDesktop
    BY <1>3, <1>4, <1>8, <2>2 DEF SaveScript
  <2> QED BY <2>1, <2>2
<1>10. Untouched' /\ MarkerKnown'
  BY <1>1 DEF NewerInv, Untouched, MarkerKnown
<1>11. Noted'
  BY <1>1 DEF NewerInv, Noted, Newer, Calls
<1> QED BY <1>9, <1>10, <1>11 DEF NewerInv

(* A step of an operation.                                                  *)
LEMMA StepNewer ==
    ASSUME Types, StoreInv, NewerInv, [Next]_vars, Step, UNCHANGED <<up, launch>>
    PROVE  NewerInv' /\ \A f \in Files : Newer(f)' = Newer(f)
<1> DEFINE step == Head(script)
<1>1. /\ step \in SafeSteps /\ script' \in Seq(SafeSteps) /\ StepOn(step, script')
  BY HeadTailProperties DEF NewerInv, Step, StepOn
<1>2. step.op \in Ops /\ step.file \in Files /\ step.content \in Contents
      /\ step.content.kind # "newer"
  BY <1>1 DEF SafeSteps
<1> HIDE DEF step
<1>3. DOMAIN disk = Files /\ DOMAIN past = Files /\ Absent.kind # "newer"
  BY DEF Types, StoreTypes, Absent, Content
<1>a. Untouched /\ Noted /\ MarkerKnown
  BY DEF NewerInv
<1>4. CASE step.op \in {"put", "unlink"}
  <2>1. PICK c : c.kind # "newer" /\ Write(step.file, c)
    BY <1>1, <1>2, <1>3, <1>4 DEF StepOn
  <2>2. UNCHANGED memory
    BY <1>1, <1>4 DEF StepOn
  <2>3. ~Newer(step.file)
    BY <1>1, <1>4 DEF SafeSteps
  <2>4. /\ disk'[step.file] = c /\ past'[step.file] = past[step.file] \cup {c}
        /\ \A f \in Files \ {step.file} : disk'[f] = disk[f] /\ past'[f] = past[f]
    BY <1>2, <1>3, <2>1 DEF Write
  <2>5. \A f \in Files : Newer(f)' = Newer(f)
    BY <2>1, <2>3, <2>4 DEF Newer
  <2>6. \A e \in past[step.file] : e.kind # "newer"
    <3> SUFFICES ASSUME NEW e \in past[step.file], e.kind = "newer" PROVE FALSE
      OBVIOUS
    <3>1. past[step.file] = {disk[step.file]}
      BY <1>2, <1>a DEF Untouched
    <3> QED BY <3>1, <2>3 DEF Newer
  <2>7. Untouched'
    <3> SUFFICES ASSUME NEW f \in Files, NEW e \in past'[f], e.kind = "newer"
                 PROVE  past'[f] = {disk'[f]}
      BY DEF Untouched
    <3>1. CASE f = step.file
      BY <2>1, <2>4, <2>6, <3>1
    <3>2. CASE f # step.file
      BY <1>a, <2>4, <3>2 DEF Untouched
    <3> QED BY <3>1, <3>2
  <2>8. MarkerKnown'
    BY <1>a, <2>1, <2>4 DEF MarkerKnown, Files
  <2>9. Noted'
    BY <1>a, <2>2, <2>5 DEF Noted, memory, Files, Calls
  <2>10. script' \in Seq(SafeSteps')
    BY <1>1, <2>5, SafeGrow, SeqMonotonic
  <2> QED BY <2>5, <2>7, <2>8, <2>9, <2>10 DEF NewerInv
<1>5. CASE step.op \notin {"put", "unlink"}
  <2>1. disk' = disk
    BY <1>1, <1>2, <1>5 DEF StepOn, Ops, disks
  <2>2. past' = past \/ past' = [f \in Files |-> {disk[f]}]
    BY <1>1, <1>2, <1>5 DEF StepOn, Ops, disks
  <2>3. /\ UNCHANGED keepDesktop
        /\ guard' = guard \/ (guard' = "replaceable" /\ step.op = "replaceable")
    BY <1>1, <1>2, <1>5 DEF StepOn, Ops, memory
  <2>4. \A f \in Files : Newer(f)' = Newer(f)
    BY <2>1 DEF Newer
  <2>5. \A f \in Files : disk[f] \in past[f]
    BY DEF Types, StoreTypes
  <2>6. Untouched' /\ MarkerKnown'
    BY <1>a, <2>1, <2>2, <2>5 DEF Untouched, MarkerKnown, Files
  <2>7. guard' = "replaceable" /\ step.op = "replaceable" => ~Newer("runtime")
    BY <1>1 DEF SafeSteps
  <2>8. Noted'
    BY <1>a, <2>3, <2>4, <2>7 DEF Noted, Files, Calls
  <2>9. script' \in Seq(SafeSteps')
    BY <1>1, <2>4, SafeGrow, SeqMonotonic
  <2> QED BY <2>4, <2>6, <2>8, <2>9 DEF NewerInv
<1> QED BY <1>4, <1>5

(* The end of the process, with or without the machine.                    *)
LEMMA StopNewer ==
    ASSUME Types, NewerInv, Stop, UNCHANGED disks
    PROVE  NewerInv'
<1>1. up' = "down" /\ script' = <<>> /\ UNCHANGED <<disk, past>>
  BY DEF Stop, disks
<1>2. script' \in Seq(SafeSteps')
  BY <1>1, ShortSequences
<1> QED BY <1>1, <1>2 DEF NewerInv, Untouched, MarkerKnown, Noted

LEMMA ResetNewer ==
    ASSUME Types, NewerInv, Reset, up' = "down"
    PROVE  NewerInv' /\ \A f \in Files : Newer(f) => Newer(f)'
<1>1. \A f \in Files : disk'[f] \in past[f] /\ past'[f] = {disk'[f]}
  BY DEF Reset
<1>2. script' \in Seq(SafeSteps')
  BY ShortSequences DEF Reset
<1>3. Untouched' /\ MarkerKnown'
  BY <1>1 DEF NewerInv, Untouched, MarkerKnown, Files
<1>4. \A f \in Files : Newer(f) => Newer(f)'
  BY <1>1 DEF NewerInv, Untouched, Newer, Types, StoreTypes
<1> QED BY <1>2, <1>3, <1>4 DEF NewerInv, Noted

(* A launch notes what it must not touch.                                  *)
LEMMA LaunchNewer ==
    ASSUME Types, NewerInv, [Next]_vars,
           NEW setting \in BOOLEAN, NEW unreadable \in SUBSET Files, Launch(setting, unreadable)
    PROVE  NewerInv'
<1> DEFINE seen(f) == IF f \in unreadable /\ Present(f) THEN "unreadable" ELSE disk[f].kind
<1>1. UNCHANGED <<disk, past, script>> /\ script = <<>>
  BY DEF Launch, disks, operation, Types, Resting
<1>2. \A f \in Files : Newer(f)' = Newer(f)
  BY <1>1 DEF Newer
<1>3. script' \in Seq(SafeSteps') /\ Untouched' /\ MarkerKnown'
  BY <1>1, ShortSequences DEF NewerInv, Untouched, MarkerKnown
<1>4. ~Newer("marker")
  BY DEF NewerInv, MarkerKnown, Newer, Types, StoreTypes, Files
<1>5. Newer("desktop") => keepDesktop'
  BY DEF Launch, Newer
<1>6. CASE Newer("runtime")
  <2>1. seen("runtime") \in {"newer", "unreadable"}
    BY <1>6 DEF Newer
  <2>2. guard' # "replaceable"
    BY <2>1 DEF Launch
  <2>3. LaunchCalls(seen("runtime"), seen("desktop"), Present("marker"), setting) = <<>>
    BY <2>1 DEF LaunchCalls
  <2>4. launch'.calls = <<>>
    BY <2>3 DEF Launch, NoLaunch
  <2>5. launch'.calls \in Seq({c \in Calls' : c.op # "runtime"})
    BY <2>4, ShortSequences
  <2> QED BY <1>2, <1>3, <1>4, <1>5, <2>2, <2>5 DEF NewerInv, Noted, Files, Calls
<1>7. CASE ~Newer("runtime")
  BY <1>2, <1>3, <1>4, <1>5, <1>7 DEF NewerInv, Noted, Files
<1> QED BY <1>6, <1>7

LEMMA NewerInvKept ==
    Types /\ StoreInv /\ NewerInv /\ [Next]_vars => NewerInv' /\ \A f \in Files : Newer(f) => Newer(f)'
<1> SUFFICES ASSUME Types, StoreInv, NewerInv, [Next]_vars
             PROVE  NewerInv' /\ \A f \in Files : Newer(f) => Newer(f)'
  OBVIOUS
<1>0. ASSUME UNCHANGED disks PROVE \A f \in Files : Newer(f) => Newer(f)'
  BY <1>0 DEF disks, Newer
<1>a. script \in Seq(SafeSteps) /\ <<>> \in Seq(SafeSteps)
  BY ShortSequences DEF NewerInv
<1>b. ASSUME UNCHANGED <<storeVars, up, launch>>
      PROVE  NewerInv' /\ \A f \in Files : Newer(f) => Newer(f)'
  BY <1>0, <1>a, <1>b, QuietNewer DEF storeVars, memory, operation
<1>1. CASE UNCHANGED vars
  BY <1>1, <1>b DEF vars
<1>2. CASE StoreStep
  BY <1>2, StepNewer DEF StoreStep
<1>3. CASE LaunchCall
  <2> DEFINE call == Head(launch.calls)
  <2>1. launch.calls \in Seq(Calls) /\ launch.calls # <<>> /\ up # "down"
    BY <1>3 DEF Types, LaunchTypes, LaunchCall
  <2>2. call.op \in {"runtime", "desktop", "clear", "remove"}
    <3>1. call \in Calls
      BY <2>1, HeadTailProperties
    <3> QED BY <3>1 DEF Calls
  <2>3. script' = CASE call.op = "clear" -> ClearScript
                    [] call.op = "remove" -> RemoveScript
                    [] OTHER -> SetAsideScript(call.op)
    BY <1>3 DEF LaunchCall, Begin
  <2>4. call.op = "runtime" => guard = "newer" \/ ~Newer("runtime")
    BY <2>1, HeadTailProperties DEF NewerInv, Noted
  <2>5. script' \in Seq(SafeSteps)
    BY <2>1, <2>2, <2>3, <2>4, ScriptsSafe
  <2>6. UNCHANGED <<disks, guard, keepDesktop, up>>
    BY <1>3 DEF LaunchCall, memory
  <2>7. UNCHANGED <<disk, past>> /\ \A f \in Files : Newer(f)' = Newer(f)
    BY <2>6 DEF disks, Newer
  <2>8. launch'.calls = Tail(launch.calls)
    BY <1>3 DEF LaunchCall, Types, LaunchTypes
  <2>9. script' \in Seq(SafeSteps')
    BY <2>5, <2>7, SafeGrow, SeqMonotonic
  <2>10. Untouched' /\ MarkerKnown'
    BY <2>7 DEF NewerInv, Untouched, MarkerKnown
  <2>11. Newer("runtime") /\ guard # "newer" =>
            launch'.calls \in Seq({c \in Calls' : c.op # "runtime"})
    <3> SUFFICES ASSUME Newer("runtime"), guard # "newer"
                 PROVE  launch'.calls \in Seq({c \in Calls' : c.op # "runtime"})
      OBVIOUS
    <3>1. launch.calls \in Seq({c \in Calls : c.op # "runtime"})
      BY <2>1 DEF NewerInv, Noted
    <3>2. Tail(launch.calls) \in Seq({c \in Calls : c.op # "runtime"})
      BY <2>1, <3>1, HeadTailProperties
    <3> QED BY <2>8, <3>2 DEF Calls
  <2>12. Noted'
    BY <2>6, <2>7, <2>11 DEF NewerInv, Noted, Files
  <2> QED BY <2>7, <2>9, <2>10, <2>12 DEF NewerInv
<1>4. CASE LaunchDone
  <2>1. UNCHANGED storeVars /\ up' # "down" /\ up # "down" /\ launch' = NoLaunch
    BY <1>4 DEF LaunchDone
  <2>2. UNCHANGED <<disk, past, guard, keepDesktop, script>>
        /\ \A f \in Files : Newer(f)' = Newer(f)
    BY <2>1 DEF storeVars, disks, memory, operation, Newer
  <2>3. launch'.calls \in Seq({c \in Calls' : c.op # "runtime"})
    BY <2>1, ShortSequences DEF NoLaunch
  <2>4. script' \in Seq(SafeSteps')
    BY <1>a, <2>2, SafeGrow, SeqMonotonic
  <2>5. Noted'
    BY <2>1, <2>2, <2>3 DEF NewerInv, Noted, Files
  <2> QED BY <2>2, <2>4, <2>5 DEF NewerInv, Untouched, MarkerKnown
<1>5. CASE MarkAttempt
  <2>1. up # "down" /\ script' \in {script, MarkScript}
    BY <1>5 DEF MarkAttempt, Begin, operation
  <2>2. script' \in Seq(SafeSteps)
    BY <1>a, <2>1, ScriptsSafe
  <2> QED BY <1>0, <1>5, <2>2, QuietNewer DEF MarkAttempt, memory
<1>6. CASE Marked \/ Settle \/ SettleClear \/ SettleRemove \/ SettleMove \/ TakeCheckpoint
           \/ WriterDone \/ QuitWritten \/ RestoreNotStarted \/ RestoreFails \/ Quit
  BY <1>6, <1>b DEF Marked, Settle, SettleClear, SettleRemove, Settling, SettleMove,
         TakeCheckpoint, WriterDone, QuitWritten, RestoreNotStarted, RestoreFails, Quit
<1>7. ASSUME NEW c \in captures, CaptureRuntime(c) \/ Checkpoint(c)
      PROVE  NewerInv' /\ \A f \in Files : Newer(f) => Newer(f)'
  BY <1>7, <1>b DEF CaptureRuntime, Checkpoint
<1>7a. ASSUME NEW c \in sending, SendCheckpoint(c)
       PROVE  NewerInv' /\ \A f \in Files : Newer(f) => Newer(f)'
  BY <1>7a, <1>b DEF SendCheckpoint
<1>8. ASSUME NEW s \in Structures, Change(s)
      PROVE  NewerInv' /\ \A f \in Files : Newer(f) => Newer(f)'
  BY <1>8, <1>b DEF Change
<1>9. ASSUME NEW on \in BOOLEAN, SetEnabled(on)
      PROVE  NewerInv' /\ \A f \in Files : Newer(f) => Newer(f)'
  BY <1>9, <1>b DEF SetEnabled
<1>10. CASE Writer
  <2>1. UNCHANGED <<disks, memory, up, launch>> /\ jobs # <<>>
    BY <1>10 DEF Writer
  <2>2. up # "down"
    BY <2>1 DEF Types, Resting
  <2>3. UNCHANGED <<guard, keepDesktop>> /\ launch'.calls = launch.calls
    BY <2>1 DEF memory
  <2>4. CASE script' \in Seq(SafeSteps)
    BY <1>0, <2>1, <2>3, <2>4, QuietNewer
  <2>5. CASE Head(jobs).job = "save" /\ script' \notin Seq(SafeSteps)
    <3>1. Head(jobs) \in Jobs
      BY <2>1, HeadTailProperties DEF Types, WriteTypes
    <3>2. Head(jobs).write.capture \in Structures /\ Head(jobs).write.layout \in Structures
      BY <2>5, <3>1 DEF Jobs, Captured
    <3>3. WriteCheckpoint(Head(jobs).write)
      BY <1>10, <2>5 DEF Writer
    <3>4. guard = "replaceable" /\ BeginSave(Head(jobs).write.capture, Head(jobs).write.layout)
      BY <1>a, <2>5, <3>3 DEF WriteCheckpoint, operation
    <3> QED BY <1>0, <2>1, <2>2, <3>2, <3>4, SaveNewer
  <2>6. CASE Head(jobs).job = "barrier"
    BY <1>10, <1>a, <2>4, <2>6 DEF Writer, operation
  <2>7. CASE Head(jobs).job \notin {"save", "barrier"}
    <3>1. script' \in {RemoveScript, ClearScript}
      BY <1>10, <2>7 DEF Writer, Begin
    <3> QED BY <2>2, <2>4, <3>1, ScriptsSafe
  <2> QED BY <2>4, <2>5, <2>6, <2>7
<1>11. CASE QuitWrite
  <2>1. UNCHANGED <<disks, memory, up, launch>> /\ quit.at = "write"
    BY <1>11 DEF QuitWrite
  <2>2. up # "down"
    BY <2>1 DEF Types, Resting, NoQuit
  <2>3. UNCHANGED <<guard, keepDesktop>> /\ launch'.calls = launch.calls
    BY <2>1 DEF memory
  <2>4. CASE script' \in Seq(SafeSteps)
    BY <1>0, <2>1, <2>3, <2>4, QuietNewer
  <2>5. CASE guard = "replaceable" /\ BeginSave(now, now)
    BY <1>0, <2>1, <2>2, <2>5, SaveNewer DEF Types, WriteTypes
  <2>6. CASE Begin(ClearScript)
    BY <2>2, <2>4, <2>6, ScriptsSafe DEF Begin
  <2>7. CASE UNCHANGED operation
    BY <1>a, <2>4, <2>7 DEF operation
  <2> QED BY <1>11, <2>5, <2>6, <2>7 DEF QuitWrite
<1>12. ASSUME NEW setting \in BOOLEAN, NEW unreadable \in SUBSET Files, Launch(setting, unreadable)
       PROVE  NewerInv' /\ \A f \in Files : Newer(f) => Newer(f)'
  <2>1. UNCHANGED disks
    BY <1>12 DEF Launch
  <2>2. NewerInv'
    BY <1>12, LaunchNewer
  <2> QED BY <1>0, <2>1, <2>2
<1>13. CASE StoreFault
  <2>1. UNCHANGED <<disks, memory, up, launch>> /\ script' = <<>>
    BY <1>13 DEF StoreFault, Fault
  <2> QED BY <1>0, <1>a, <2>1, QuietNewer DEF memory
<1>14. CASE Exit \/ Crash
  BY <1>0, <1>14, StopNewer DEF Exit, Crash
<1>15. CASE LosePower
  <2>1. Reset /\ up' = "down"
    BY <1>15, LosePowerResets DEF LosePower, Stop, Types
  <2> QED BY <2>1, ResetNewer
<1> QED
  BY <1>1, <1>2, <1>3, <1>4, <1>5, <1>6, <1>7, <1>7a, <1>8, <1>9, <1>10, <1>11, <1>12, <1>13,
     <1>14, <1>15 DEF Next, Working

LEMMA NewerInitially == Init => NewerInv
<1> SUFFICES ASSUME Init PROVE NewerInv
  OBVIOUS
<1>1. script = <<>> /\ up = "down" /\ past = [f \in Files |-> {disk[f]}]
  BY DEF Init
<1>2. disk["marker"] = Absent
  BY DEF Init, LeftBehind
<1>3. Untouched /\ MarkerKnown
  BY <1>1, <1>2 DEF Untouched, MarkerKnown, Files, Absent, Content
<1> QED BY <1>1, <1>3, ShortSequences DEF NewerInv, Noted

(* A file of a newer version is neither replaced nor removed (store.rs:     *)
(* runtime_guard and keep_desktop), nor does a power loss undo that.        *)
THEOREM NewerFilesStay == Spec => NewerStays
<1>1. Init => Types /\ StoreInv /\ NewerInv
  BY StoreInitially, TypesInitially, NewerInitially
<1>2. (Types /\ StoreInv /\ NewerInv) /\ [Next]_vars => (Types /\ StoreInv /\ NewerInv)'
  BY TypesKept, StoreInvKept, NewerInvKept
<1>3. (Types /\ StoreInv /\ NewerInv) /\ [Next]_vars
      => \A f \in Files : disk[f].kind = "newer" => disk'[f].kind = "newer"
  BY NewerInvKept DEF Newer
<1> QED BY <1>1, <1>2, <1>3, PTL DEF Spec, NewerStays

-----------------------------------------------------------------------------
(* A restore that crashed is not tried again.                              *)

(* Where the program is in a restore, and what follows for the writer's     *)
(* queue: nothing is queued before the restore settles.                     *)
Booting == state = "bootstrapping" \/ quit.from = "bootstrapping"

PhaseInv ==
    /\ up # "up" =>
          /\ jobs = <<>> /\ captures = {} /\ sending = {} /\ restore = "none"
          /\ quit = NoQuit /\ state = "off" /\ attempt = 0
    /\ quit # NoQuit => state = "final"
    /\ restore # "none" => Booting
    /\ Booting => saved # Absent /\ sending = {}
    /\ state = "bootstrapping" /\ restore \in {"start", "mark", "spawn"} => jobs = <<>>
    /\ slot = "restore" => restore = "mark"
    /\ slot = "quit" => quit # NoQuit
    /\ attempt # 0 => restore = "spawn" /\ state = "bootstrapping" /\ slot = None

JobsInv ==
    \A i \in 1..Len(jobs) :
        /\ jobs[i].job = "clear" => saved # Absent
        /\ jobs[i].job = "barrier" => quit # NoQuit

LEMMA PhaseKept == Types /\ PhaseInv /\ JobsInv /\ [Next]_vars => PhaseInv'
<1> SUFFICES ASSUME Types, PhaseInv, JobsInv, [Next]_vars PROVE PhaseInv'
  OBVIOUS
<1> USE HolderAssumption DEF PhaseInv, Booting
<1>0. /\ slot = None => script = <<>>
      /\ up = "launch" <=> slot = "launch"
      /\ state \in {"off", "bootstrapping", "running", "final"}
      /\ up \in {"down", "launch", "up"}
      /\ up = "down" => slot = None
  BY DEF Types, LaunchTypes, Resting
<1>1. CASE UNCHANGED vars
  BY <1>1 DEF vars, owner, slotVars, program, history
<1>2. CASE StoreStep \/ StoreFault
  BY <1>2 DEF StoreStep, StoreFault, owner, slotVars, program, history
<1>3. CASE LaunchCall
  BY <1>3 DEF LaunchCall, owner, slotVars, program, history
<1>4. CASE LaunchDone
  BY <1>0, <1>4 DEF LaunchDone, NoQuit, history
<1>5. CASE MarkAttempt
  <2>1. UNCHANGED <<up, saved, jobs, captures, sending, quit, state, attempt>> /\ up = "up"
        /\ restore = "start"
    BY <1>5 DEF MarkAttempt, owner, history
  <2>2. restore' \in {"none", "spawn", "mark"} /\ (slot' = "restore" => restore' = "mark")
    BY <1>5 DEF MarkAttempt
  <2>3. slot' # "quit"
    BY <1>5 DEF MarkAttempt
  <2> QED BY <2>1, <2>2, <2>3
<1>6. CASE Marked
  <2>1. UNCHANGED <<up, saved, jobs, captures, sending, quit, state>> /\ restore' = "spawn" /\ slot' = None
        /\ attempt' = (IF failed \/ state # "bootstrapping" THEN 0 ELSE saved.save)
    BY <1>6 DEF Marked, owner
  <2>2. restore = "mark"
    BY <1>6 DEF Marked
  <2> QED BY <2>1, <2>2
<1>7. CASE RestoreNotStarted
  BY <1>7 DEF RestoreNotStarted, Suspend, NoQuit, history, slotVars
<1>8. CASE RestoreFails
  <2>1. UNCHANGED <<up, saved, jobs, captures, sending, quit, slot>> /\ restore' = "none" /\ attempt' = 0
        /\ up = "up"
    BY <1>8 DEF RestoreFails, slotVars
  <2>2. state' = state \/ (quit = NoQuit /\ state' # "bootstrapping")
    BY <1>8 DEF RestoreFails, Suspend
  <2>3. slot # "restore"
    BY <1>8 DEF RestoreFails
  <2> QED BY <2>1, <2>2, <2>3 DEF NoQuit
<1>9. CASE Settle \/ SettleClear \/ SettleRemove
  <2>1. /\ UNCHANGED <<up, saved, captures, sending, quit, slot, state>> /\ restore # "none"
        /\ attempt' = 0 \/ attempt' = attempt
    BY <1>9 DEF Settle, SettleClear, SettleRemove, Settling, slotVars, history, owner
  <2>2. restore' \in {"none", "clear", "remove", "move"}
    BY <1>9 DEF Settle, SettleClear, SettleRemove, Settling
  <2>3. restore \in {"clear", "remove"} \/ attempt' = 0
    BY <1>9 DEF Settle, SettleClear, SettleRemove, Settling
  <2>4. restore = "mark" => FALSE
    BY <1>9 DEF Settle, SettleClear, SettleRemove, Settling
  <2>5. up = "up"
    BY <2>1
  <2> QED BY <2>1, <2>2, <2>3, <2>4, <2>5
<1>10. CASE SettleMove
  <2>1. UNCHANGED <<up, saved, jobs, captures, sending, quit, slot, attempt>> /\ restore' = "none"
        /\ restore = "move"
    BY <1>10 DEF SettleMove, slotVars, history
  <2>2. \/ state # "bootstrapping" /\ state' = state
        \/ state = "bootstrapping" /\ state' = SettleTo
    BY <1>10 DEF SettleMove
  <2>3. SettleTo \in {"off", "running"}
    BY DEF SettleTo
  <2> QED BY <2>1, <2>2, <2>3
<1>11. CASE TakeCheckpoint
  <2>1. UNCHANGED <<up, saved, jobs, sending, quit, slot, state, restore, attempt>> /\ up = "up"
    BY <1>11 DEF TakeCheckpoint, slotVars, history
  <2> QED BY <2>1
<1>12. ASSUME NEW c \in captures, CaptureRuntime(c) PROVE PhaseInv'
  <2>1. UNCHANGED <<up, saved, jobs, sending, quit, slot, state, restore, attempt>> /\ up = "up"
    BY <1>0, <1>12 DEF CaptureRuntime, slotVars, history, owner
  <2> QED BY <2>1
<1>13. ASSUME NEW c \in captures, Checkpoint(c) PROVE PhaseInv'
  <2>1. UNCHANGED <<up, saved, jobs, quit, slot, state, restore, attempt>> /\ up = "up"
        /\ (state # "running" => sending' = sending)
    BY <1>0, <1>13 DEF Checkpoint, owner, slotVars, history
  <2>2. Booting => state # "running"
    BY DEF NoQuit
  <2> QED BY <2>1, <2>2
<1>13a. ASSUME NEW c \in sending, SendCheckpoint(c) PROVE PhaseInv'
  <2>1. UNCHANGED <<up, saved, captures, quit, slot, state, restore, attempt>> /\ up = "up"
        /\ ~Booting
    BY <1>0, <1>13a DEF SendCheckpoint, slotVars, history
  <2>2. restore = "none"
    BY <2>1
  <2> QED BY <2>1, <2>2
<1>14. CASE Writer
  <2>1. UNCHANGED <<up, saved, state, captures, sending, restore, attempt>> /\ jobs # <<>> /\ up = "up"
        /\ slot = None
    BY <1>0, <1>14 DEF Writer
  <2>2. ~(state = "bootstrapping" /\ restore \in {"start", "mark", "spawn"}) /\ attempt = 0
    BY <2>1
  <2>3. slot' \in {None, "writer"}
    BY <1>14, StringsDiffer DEF Writer, WriteCheckpoint
  <2>4. CASE quit' = quit
    BY <2>1, <2>2, <2>3, <2>4
  <2>5. CASE quit' # quit
    <3>1. Head(jobs).job = "barrier" /\ quit' = [quit EXCEPT !.at = "write"]
      BY <1>14, <2>5 DEF Writer
    <3>2. 1 \in 1..Len(jobs) /\ Head(jobs) = jobs[1]
      BY <2>1, HeadTailProperties DEF Types, WriteTypes
    <3>3. quit # NoQuit
      BY <3>1, <3>2 DEF JobsInv
    <3>4. quit'.from = quit.from
      BY <3>1 DEF Types, LaunchTypes
    <3> QED BY <2>1, <2>2, <2>3, <3>3, <3>4
  <2> QED BY <2>4, <2>5
<1>15. CASE WriterDone
  <2>1. UNCHANGED <<up, saved, state, captures, sending, jobs, quit, restore, attempt>> /\ slot' = None
        /\ slot = "writer"
    BY <1>15 DEF WriterDone, owner, program, history
  <2> QED BY <2>1
<1>16. ASSUME NEW s \in Structures, Change(s) PROVE PhaseInv'
  <2>1. UNCHANGED <<up, saved, state, captures, sending, jobs, quit, restore, attempt, slot>>
    BY <1>16 DEF Change, owner, slotVars, history
  <2> QED BY <2>1
<1>17. ASSUME NEW on \in BOOLEAN, SetEnabled(on) PROVE PhaseInv'
  <2>1. UNCHANGED <<up, saved, captures, sending, quit, restore, attempt, slot>> /\ up = "up" /\ quit = NoQuit
    BY <1>17 DEF SetEnabled, slotVars, history
  <2>2. \/ UNCHANGED <<state, jobs>>
        \/ state \in {"off", "running"} /\ state' \in {"off", "running"}
    BY <1>17 DEF SetEnabled
  <2> QED BY <2>1, <2>2
<1>18. CASE Quit
  <2>1. UNCHANGED <<up, saved, captures, sending, restore, slot>> /\ up = "up" /\ attempt' = 0
        /\ state' = "final" /\ quit'.from = state /\ quit' # NoQuit /\ quit.from = "off"
    BY <1>18 DEF Quit, slotVars, NoQuit
  <2>2. Booting' <=> Booting
    BY <2>1
  <2> QED BY <2>1, <2>2
<1>19. CASE QuitWrite
  <2>1. UNCHANGED <<up, saved, state, jobs, captures, sending, restore, attempt>> /\ quit.at = "write"
        /\ slot = None
    BY <1>19 DEF QuitWrite, owner
  <2>2. quit # NoQuit /\ quit'.from = quit.from /\ slot' # "restore"
    BY <1>19 DEF QuitWrite, NoQuit, Types, LaunchTypes
  <2>3. quit' # NoQuit
    BY <1>19 DEF QuitWrite, NoQuit, Types, LaunchTypes
  <2> QED BY <2>1, <2>2, <2>3
<1>20. CASE QuitWritten
  <2>1. UNCHANGED <<up, saved, state, jobs, captures, sending, restore, attempt>> /\ slot = "quit"
        /\ slot' = None
    BY <1>20 DEF QuitWritten, owner
  <2>2. quit' = [quit EXCEPT !.at = "done"] /\ quit'.from = quit.from
    BY <1>20 DEF QuitWritten, Types, LaunchTypes
  <2>3. state = "final"
    BY <2>1
  <2> QED BY <2>1, <2>2, <2>3
<1>21. ASSUME NEW setting \in BOOLEAN, NEW unreadable \in SUBSET Files, Launch(setting, unreadable)
       PROVE  PhaseInv'
  <2>1. UNCHANGED <<jobs, captures, sending, restore, quit, state, attempt>> /\ up = "down"
        /\ slot' = "launch"
    BY <1>21 DEF Launch, program
  <2> QED BY <2>1 DEF NoQuit
<1>22. CASE Exit \/ Crash \/ LosePower
  BY <1>22 DEF Exit, Crash, LosePower, Stop, NoQuit
<1> QED
  BY <1>1, <1>2, <1>3, <1>4, <1>5, <1>6, <1>7, <1>8, <1>9, <1>10, <1>11, <1>12, <1>13, <1>13a,
     <1>14, <1>15, <1>16, <1>17, <1>18, <1>19, <1>20, <1>21, <1>22 DEF Next, Working

LEMMA JobsKept == Types /\ PhaseInv /\ JobsInv /\ [Next]_vars => JobsInv'
<1> SUFFICES ASSUME Types, PhaseInv, JobsInv, [Next]_vars PROVE JobsInv'
  OBVIOUS
<1> DEFINE Fits(j) == /\ j.job = "clear" => saved' # Absent
                      /\ j.job = "barrier" => quit' # NoQuit
<1>0. jobs \in Seq(Jobs)
  BY DEF Types, WriteTypes
<1>a. ASSUME NEW j, Fits(j), jobs' = Append(jobs, j), UNCHANGED saved,
             quit # NoQuit => quit' # NoQuit
      PROVE  JobsInv'
  <2>1. Len(jobs') = Len(jobs) + 1
    BY <1>0, <1>a, AppendProperties, SeqMonotonic
  <2> SUFFICES ASSUME NEW i \in 1..Len(jobs') PROVE Fits(jobs'[i])
    BY DEF JobsInv
  <2>2. CASE i \in 1..Len(jobs)
    BY <1>0, <1>a, <2>2 DEF JobsInv
  <2>3. CASE i = Len(jobs) + 1
    BY <1>0, <1>a, <2>3
  <2> QED BY <1>0, <2>1, <2>2, <2>3
<1>b. ASSUME UNCHANGED <<jobs, saved>>, quit # NoQuit => quit' # NoQuit PROVE JobsInv'
  BY <1>b DEF JobsInv
<1>c. ASSUME jobs = <<>>, UNCHANGED jobs PROVE JobsInv'
  BY <1>c DEF JobsInv
<1>1. CASE UNCHANGED vars
  BY <1>1, <1>b DEF vars, owner, program
<1>2. CASE StoreStep \/ StoreFault \/ LaunchCall \/ MarkAttempt \/ Marked \/ RestoreNotStarted
           \/ RestoreFails \/ Settle \/ SettleMove \/ TakeCheckpoint \/ WriterDone \/ LaunchDone
  BY <1>2, <1>b DEF StoreStep, StoreFault, LaunchCall, MarkAttempt, Marked, RestoreNotStarted,
         RestoreFails, Settle, SettleMove, TakeCheckpoint, WriterDone, LaunchDone, owner, program
<1>3. ASSUME NEW c \in captures, CaptureRuntime(c) \/ Checkpoint(c) PROVE JobsInv'
  BY <1>3, <1>b DEF CaptureRuntime, Checkpoint, owner
<1>4. ASSUME NEW c \in sending, SendCheckpoint(c) PROVE JobsInv'
  <2>1. UNCHANGED <<saved, quit>> /\ jobs' = Append(jobs, [job |-> "save", write |-> c])
    BY <1>4 DEF SendCheckpoint, Send
  <2> QED BY <1>a, <2>1
<1>5. ASSUME NEW s \in Structures, Change(s) PROVE JobsInv'
  BY <1>5, <1>b DEF Change, owner
<1>6. ASSUME NEW on \in BOOLEAN, SetEnabled(on) PROVE JobsInv'
  <2>1. UNCHANGED <<saved, quit>>
    BY <1>6 DEF SetEnabled
  <2>2. jobs' = jobs \/ jobs' = Append(jobs, Job("remove"))
    BY <1>6 DEF SetEnabled, Send
  <2> QED BY <1>a, <1>b, <2>1, <2>2 DEF Job
<1>7. CASE SettleClear \/ SettleRemove
  <2>1. UNCHANGED <<saved, quit>> /\ saved # Absent
    BY <1>7 DEF SettleClear, SettleRemove, Settling, PhaseInv
  <2>2. PICK kind \in {"remove", "clear"} : jobs' = Append(jobs, Job(kind))
    BY <1>7 DEF SettleClear, SettleRemove, Settling, Send
  <2> QED BY <1>a, <2>1, <2>2 DEF Job
<1>8. CASE Writer
  <2>1. UNCHANGED saved /\ jobs # <<>> /\ jobs' = Tail(jobs)
    BY <1>8 DEF Writer
  <2>2. quit # NoQuit => quit' # NoQuit
    BY <1>8 DEF Writer, Types, LaunchTypes, NoQuit
  <2>3. Len(jobs') = Len(jobs) - 1 /\ \A i \in 1..Len(jobs') : jobs'[i] = jobs[i + 1]
    BY <1>0, <2>1
  <2> SUFFICES ASSUME NEW i \in 1..Len(jobs') PROVE Fits(jobs'[i])
    BY DEF JobsInv
  <2>4. i + 1 \in 1..Len(jobs)
    BY <1>0, <2>3
  <2> QED BY <2>1, <2>2, <2>3, <2>4 DEF JobsInv
<1>9. CASE Quit
  <2>1. UNCHANGED saved /\ quit' # NoQuit /\ jobs' = Append(jobs, Job("barrier"))
    BY <1>9 DEF Quit, NoQuit, Send
  <2> QED BY <1>a, <2>1 DEF Job
<1>10. CASE QuitWrite \/ QuitWritten
  <2>1. UNCHANGED <<jobs, saved>>
    BY <1>10 DEF QuitWrite, QuitWritten, owner
  <2>2. quit' = quit \/ quit' = [quit EXCEPT !.at = "done"]
    BY <1>10 DEF QuitWrite, QuitWritten
  <2>3. quit' # NoQuit \/ quit' = quit
    BY <2>2 DEF NoQuit, Types, LaunchTypes
  <2> QED BY <1>b, <2>1, <2>3
<1>11. ASSUME NEW setting \in BOOLEAN, NEW unreadable \in SUBSET Files, Launch(setting, unreadable)
       PROVE  JobsInv'
  BY <1>11, <1>c DEF Launch, PhaseInv
<1>12. CASE Exit \/ Crash \/ LosePower
  <2>1. jobs' = <<>>
    BY <1>12 DEF Exit, Crash, LosePower, Stop
  <2> QED BY <2>1 DEF JobsInv
<1> QED
  BY <1>1, <1>2, <1>3, <1>4, <1>5, <1>6, <1>7, <1>8, <1>9, <1>10, <1>11, <1>12
     DEF Next, Working

(* What a launch could find, now or after a power loss.                    *)
Back(s) == \E r \in past["runtime"] : r.kind = "saved" /\ r.save = s

(* No restore that crashed could be found again.                           *)
NoneBack == \A s \in tried : ~Back(s)

OnlyMarker == past["marker"] = {Content("marker")}

(* A launch that finds one also finds the marker.                          *)
TriedInv == NoneBack \/ OnlyMarker

SavedInv == saved # Absent => NoneBack /\ saved.save \notin tried

(* The marker is on the disk for good before the restore begins.           *)
MarkInv ==
    /\ attempt # 0 => OnlyMarker
    /\ slot = "restore" =>
          \/ failed
          \/ script = MarkScript
          \/ script = <<Do("sync")>> /\ disk["marker"] = Content("marker")
          \/ script = <<>> /\ OnlyMarker

PutsRuntime(step) == step.op = "put" /\ step.file = "runtime"

(* What is saved is new, and the marker goes only when nothing could come   *)
(* back that it stands for.                                                *)
WorkInv ==
    /\ script # <<>> /\ PutsRuntime(Head(script)) => Head(script).content.save \notin tried
    /\ NoneBack \/ \A i \in 1..Len(script) : script[i] # Unlink("marker")
    /\ up = "launch" => script \in Seq(HarmlessSteps)

(* A launch clears the marker after it has set the structure aside.        *)
ClearInv ==
    (up = "launch" /\ \E i \in 1..Len(launch.calls) : launch.calls[i].op = "clear") =>
        \/ disk["runtime"].kind # "saved"
        \/ Head(launch.calls) = Call("runtime", TRUE) /\ script = <<>> /\ guard # "newer"
        \/ launch.must /\ (failed \/ (script # <<>> /\ Head(script) = Unlink("runtime")))

CrashInv == TriedInv /\ SavedInv /\ MarkInv /\ WorkInv /\ ClearInv

LEMMA HarmlessPuts ==
    \A step \in HarmlessSteps : ~PutsRuntime(step)
            /\ (step.op = "put" => step.file = "marker" /\ step.content = Content("marker"))
BY DEF HarmlessSteps, PutsRuntime, Put

(* The next step of a script, and the one after it.                        *)
LEMMA ScriptPuts ==
    ASSUME StoreInv, script # <<>>
    PROVE  /\ Head(script).op = "put" /\ Head(script).file = "marker" =>
                  Head(script).content = Content("marker")
           /\ Tail(script) # <<>> => ~PutsRuntime(Head(Tail(script)))
<1>1. CASE script \in Seq(HarmlessSteps)
  <2>1. Head(script) \in HarmlessSteps /\ Tail(script) \in Seq(HarmlessSteps)
    BY <1>1, HeadTailProperties
  <2>2. Tail(script) # <<>> => Head(Tail(script)) \in HarmlessSteps
    BY <2>1, HeadTailProperties
  <2> QED BY <2>1, <2>2, HarmlessPuts
<1>2. ASSUME NEW r \in Contents, NEW d \in Contents, Saving(r, d)
      PROVE  /\ Head(script).op = "put" => Head(script).file # "marker"
             /\ Tail(script) # <<>> => ~PutsRuntime(Head(Tail(script)))
  <2>1. /\ Put("runtime", r).file = "runtime" /\ Put("desktop", d).file = "desktop"
        /\ Remember(r).op = "remember" /\ Do("sync").op = "sync"
    BY DEF Put, Remember, Do
  <2>2. CASE script = <<Put("runtime", r), Remember(r)>>
    BY <2>1, <2>2 DEF PutsRuntime
  <2>3. CASE script = <<Put("runtime", r), Remember(r), Put("desktop", d), Do("sync")>>
    BY <2>1, <2>3 DEF PutsRuntime
  <2>4. CASE script = <<Remember(r)>>
    BY <2>1, <2>4 DEF PutsRuntime
  <2>5. CASE script = <<Remember(r), Put("desktop", d), Do("sync")>>
    BY <2>1, <2>5 DEF PutsRuntime
  <2>6. CASE script = <<Put("desktop", d), Do("sync")>>
    BY <2>1, <2>6 DEF PutsRuntime
  <2> QED BY <1>2, <2>2, <2>3, <2>4, <2>5, <2>6 DEF Saving
<1> QED BY <1>1, <1>2 DEF StoreInv, ScriptInv

(* What a step does to what could come back.                               *)
LEMMA StepPast ==
    ASSUME StoreInv, Step
    PROVE  /\ \A r \in past'["runtime"] : r.kind = "saved" =>
                  r \in past["runtime"] \/ (PutsRuntime(Head(script)) /\ r = Head(script).content)
           /\ OnlyMarker /\ Head(script) # Unlink("marker") => OnlyMarker'
           /\ UNCHANGED failed /\ script' = Tail(script)
           /\ disk'["runtime"] = disk["runtime"] \/ PutsRuntime(Head(script))
                  \/ disk'["runtime"] = Absent
<1> DEFINE step == Head(script)
<1>1. StepOn(step, Tail(script)) /\ script # <<>> /\ step \in Steps
  BY NextStep DEF Step, StoreInv
<1>2. step.op \in Ops /\ step.file \in Files
  BY <1>1 DEF Steps
<1>3. step.op = "put" /\ step.file = "marker" => step.content = Content("marker")
  BY <1>1, ScriptPuts
<1>4. DOMAIN disk = Files /\ DOMAIN past = Files /\ (\A f \in Files : disk[f] \in past[f])
      /\ Absent.kind = "absent"
  BY DEF StoreInv, StoreTypes, Absent, Content
<1>5. UNCHANGED failed /\ script' = Tail(script)
  BY <1>1 DEF StepOn
<1>6. step.op = "unlink" /\ step.file = "marker" => step = Unlink("marker")
  <2>1. CASE script \in Seq(HarmlessSteps)
    <3>1. step \in HarmlessSteps
      BY <1>1, <2>1, HeadTailProperties
    <3> QED BY <3>1 DEF HarmlessSteps, Unlink, Put
  <2>2. ASSUME NEW r \in Contents, NEW d \in Contents, Saving(r, d) PROVE step.op # "unlink"
    <3>1. step \in {Put("runtime", r), Put("desktop", d), Remember(r)}
      BY <2>2 DEF Saving
    <3> QED BY <3>1 DEF Put, Remember, Do
  <2> QED BY <2>1, <2>2 DEF StoreInv, ScriptInv
<1> HIDE DEF step
<1>7. CASE step.op \in {"put", "unlink"}
  <2>1. PICK c : /\ Write(step.file, c)
                 /\ c = IF step.op = "put" THEN step.content ELSE Absent
    BY <1>1, <1>7 DEF StepOn
  <2>2. /\ disk'[step.file] = c /\ past'[step.file] = past[step.file] \cup {c}
        /\ \A f \in Files \ {step.file} : disk'[f] = disk[f] /\ past'[f] = past[f]
    BY <1>2, <1>4, <2>1 DEF Write
  <2>3. CASE step.file = "runtime"
    <3>1. past'["marker"] = past["marker"] /\ disk'["runtime"] = c
          /\ past'["runtime"] = past["runtime"] \cup {c}
      BY <2>2, <2>3 DEF Files
    <3>2. step.op = "put" \/ c = Absent
      BY <1>7, <2>1
    <3> QED BY <1>4, <1>5, <2>1, <2>3, <3>1, <3>2 DEF PutsRuntime, OnlyMarker, step
  <2>4. CASE step.file = "marker"
    <3>1. past'["runtime"] = past["runtime"] /\ disk'["runtime"] = disk["runtime"]
          /\ past'["marker"] = past["marker"] \cup {c}
      BY <2>2, <2>4 DEF Files
    <3>2. step # Unlink("marker") => c = Content("marker")
      BY <1>3, <1>6, <1>7, <2>1, <2>4
    <3> QED BY <1>5, <3>1, <3>2 DEF OnlyMarker, step
  <2>5. CASE step.file = "desktop"
    <3>1. past'["runtime"] = past["runtime"] /\ disk'["runtime"] = disk["runtime"]
          /\ past'["marker"] = past["marker"]
      BY <2>2, <2>5 DEF Files
    <3> QED BY <1>5, <3>1 DEF OnlyMarker
  <2> QED BY <1>2, <2>3, <2>4, <2>5 DEF Files
<1>8. CASE step.op \notin {"put", "unlink"}
  <2>1. disk' = disk /\ (past' = past \/ past' = [f \in Files |-> {disk[f]}])
    BY <1>1, <1>2, <1>8 DEF StepOn, Ops, disks
  <2>2. past'["runtime"] \subseteq past["runtime"]
        /\ (past'["marker"] = past["marker"] \/ past'["marker"] = {disk["marker"]})
    BY <1>4, <2>1 DEF Files
  <2>3. disk["marker"] \in past["marker"]
    BY <1>4 DEF Files
  <2> QED BY <1>5, <2>1, <2>2, <2>3 DEF OnlyMarker
<1> QED BY <1>7, <1>8

LEMMA StepCrash ==
    ASSUME Types, StoreInv, PhaseInv, CrashInv, StoreStep
    PROVE  CrashInv'
<1> DEFINE step == Head(script)
<1>0. Step /\ UNCHANGED <<up, launch, saved, slot, tried, attempt>>
  BY DEF StoreStep, slotVars, history
<1>1. /\ StepOn(step, Tail(script)) /\ script # <<>> /\ script \in Seq(Steps)
      /\ step.op \in Ops /\ step.file \in Files
  BY <1>0, NextStep DEF Step, StoreInv, StoreTypes, Steps
<1>2. /\ script' = Tail(script) /\ Len(script') = Len(script) - 1
      /\ \A i \in 1..Len(script') : script'[i] = script[i + 1] /\ i + 1 \in 1..Len(script)
      /\ step = script[1] /\ 1 \in 1..Len(script) /\ failed' = failed
  BY <1>1 DEF StepOn
<1>3. DOMAIN disk = Files /\ DOMAIN past = Files /\ Absent.kind = "absent"
  BY DEF StoreInv, StoreTypes, Absent, Content
<1>4. NoneBack => NoneBack'
  <2> SUFFICES ASSUME NoneBack, NEW s \in tried, NEW r \in past'["runtime"],
                      r.kind = "saved", r.save = s
               PROVE  FALSE
    BY <1>0 DEF NoneBack, Back
  <2>1. CASE r \in past["runtime"]
    BY <2>1 DEF NoneBack, Back
  <2>2. CASE PutsRuntime(step) /\ r = step.content
    BY <1>1, <2>2 DEF CrashInv, WorkInv
  <2> QED BY <1>0, <2>1, <2>2, StepPast
<1>5. NoneBack \/ OnlyMarker'
  <2>1. ~NoneBack => step # Unlink("marker") /\ OnlyMarker
    BY <1>2 DEF CrashInv, WorkInv, TriedInv
  <2> QED BY <1>0, <2>1, StepPast
<1>6. TriedInv' /\ SavedInv'
  BY <1>0, <1>4, <1>5 DEF CrashInv, TriedInv, SavedInv
<1>7. MarkInv'
  <2>1. attempt' = 0
    BY <1>0, <1>1 DEF PhaseInv, Types, LaunchTypes
  <2>2. CASE script = MarkScript
    <3>1. step = Put("marker", Content("marker")) /\ Tail(script) = <<Do("sync")>>
      BY <2>2 DEF MarkScript
    <3>2. step.op = "put" /\ step.file = "marker" /\ step.content = Content("marker")
      BY <3>1 DEF Put
    <3>3. Write("marker", Content("marker"))
      BY <1>1, <3>2 DEF StepOn
    <3>4. disk'["marker"] = Content("marker")
      BY <1>3, <3>3 DEF Write, Files
    <3> QED BY <1>2, <2>1, <3>1, <3>4 DEF MarkInv
  <2>3. CASE script = <<Do("sync")>> /\ disk["marker"] = Content("marker")
    <3>1. step.op = "sync" /\ Tail(script) = <<>>
      BY <2>3 DEF Do
    <3>2. past'["marker"] = {disk["marker"]}
      BY <1>1, <3>1 DEF StepOn, Files
    <3> QED BY <1>2, <2>1, <2>3, <3>1, <3>2 DEF MarkInv, OnlyMarker
  <2>4. slot = "restore" =>
           failed \/ script = MarkScript \/ (script = <<Do("sync")>> /\ disk["marker"] = Content("marker"))
    BY <1>1 DEF CrashInv, MarkInv
  <2>5. CASE slot # "restore" \/ failed
    BY <1>0, <1>2, <2>1, <2>5 DEF MarkInv
  <2> QED BY <2>2, <2>3, <2>4, <2>5
<1>8. WorkInv'
  <2>1. script' # <<>> => ~PutsRuntime(Head(script'))
    BY <1>1, <1>2, ScriptPuts
  <2>2. NoneBack' \/ \A i \in 1..Len(script') : script'[i] # Unlink("marker")
    BY <1>2, <1>4 DEF CrashInv, WorkInv
  <2>3. up' = "launch" => script' \in Seq(HarmlessSteps)
    BY <1>0, <1>1, <1>2, HeadTailProperties DEF CrashInv, WorkInv
  <2>4. script' # <<>> /\ PutsRuntime(Head(script')) => Head(script').content.save \notin tried'
    BY <2>1
  <2> QED BY <2>2, <2>3, <2>4 DEF WorkInv
<1>9. ClearInv'
  <2> SUFFICES ASSUME up = "launch", \E i \in 1..Len(launch.calls) : launch.calls[i].op = "clear"
               PROVE  disk'["runtime"].kind # "saved" \/ (launch.must /\ failed)
    BY <1>0, <1>2 DEF ClearInv
  <2>1. step \in HarmlessSteps
    BY <1>1, HeadTailProperties DEF CrashInv, WorkInv
  <2>2. ~PutsRuntime(step)
    BY <2>1, HarmlessPuts
  <2>3. CASE disk["runtime"].kind # "saved"
    BY <1>0, <1>3, <2>2, <2>3, StepPast
  <2>4. CASE launch.must /\ (failed \/ step = Unlink("runtime"))
    <3>1. CASE step = Unlink("runtime")
      <4>1. step.op = "unlink" /\ step.file = "runtime"
        BY <3>1 DEF Unlink
      <4>2. Write("runtime", Absent)
        BY <1>1, <4>1 DEF StepOn
      <4> QED BY <1>3, <4>2 DEF Files, Write
    <3> QED BY <2>4, <3>1
  <2> QED BY <1>1, <2>3, <2>4 DEF CrashInv, ClearInv
<1> QED BY <1>6, <1>7, <1>8, <1>9 DEF CrashInv

(* Steps of the owner that ask nothing of the store.                       *)
LEMMA QuietCrash ==
    ASSUME CrashInv, UNCHANGED <<disks, operation, guard, tried, saved>>,
           UNCHANGED <<up, launch>> \/ up' # "launch",
           attempt' # 0 => attempt # 0 \/ (slot = "restore" /\ script = <<>> /\ ~failed),
           slot' = "restore" => slot = "restore"
    PROVE  CrashInv'
<1>1. UNCHANGED <<disk, past, script, failed, guard, tried, saved>>
  BY DEF disks, operation
<1>2. (NoneBack' <=> NoneBack) /\ (OnlyMarker' <=> OnlyMarker)
  BY <1>1 DEF NoneBack, OnlyMarker, Back
<1>3. TriedInv' /\ SavedInv'
  BY <1>1, <1>2 DEF CrashInv, TriedInv, SavedInv
<1>4. MarkInv'
  <2>1. attempt' # 0 => OnlyMarker
    BY SMTT(20) DEF CrashInv, MarkInv, MarkScript
  <2> QED BY <1>1, <1>2, <2>1 DEF CrashInv, MarkInv
<1>5. WorkInv'
  BY <1>1, <1>2 DEF CrashInv, WorkInv
<1>6. ClearInv'
  BY <1>1 DEF CrashInv, ClearInv
<1> QED BY <1>3, <1>4, <1>5, <1>6 DEF CrashInv

(* An operation begins, or ends early.                                     *)
LEMMA BeginCrash ==
    ASSUME CrashInv, UNCHANGED <<disks, saved>>, tried' \subseteq tried,
           attempt' # 0 => attempt # 0,
           slot' = "restore" => (slot = "restore" /\ failed') \/ script' = MarkScript,
           script' # <<>> /\ PutsRuntime(Head(script')) => Head(script').content.save \notin tried',
           NoneBack' \/ \A i \in 1..Len(script') : script'[i] # Unlink("marker"),
           up' = "launch" => script' \in Seq(HarmlessSteps),
           ClearInv'
    PROVE  CrashInv'
<1>1. UNCHANGED <<disk, past, saved>>
  BY DEF disks
<1>2. (NoneBack => NoneBack') /\ (OnlyMarker' <=> OnlyMarker)
  BY <1>1 DEF NoneBack, OnlyMarker, Back
<1>3. TriedInv' /\ SavedInv'
  BY <1>1, <1>2 DEF CrashInv, TriedInv, SavedInv
<1>4. MarkInv'
  BY <1>1, <1>2 DEF CrashInv, MarkInv
<1>5. WorkInv'
  BY DEF WorkInv
<1> QED BY <1>3, <1>4, <1>5 DEF CrashInv

LEMMA SaveCrash ==
    ASSUME Types, CrashInv, UNCHANGED <<disks, saved, up, tried, attempt>>, up # "launch",
           slot' # "restore", NEW capture, NEW layout, BeginSave(capture, layout)
    PROVE  CrashInv'
<1>1. PICK r, d : script' = SaveScript(r, d) /\ r.save = saves + 1
  BY DEF BeginSave, Begin, Saved
<1>2. saves + 1 \notin tried
  BY DEF Types, HistoryTypes, StoreTypes
<1>3. /\ Put("runtime", r).content = r /\ Put("runtime", r).op # Unlink("marker").op
      /\ Remember(r).op # Unlink("marker").op /\ Do("sync").op # Unlink("marker").op
      /\ Put("desktop", d).op # Unlink("marker").op
  BY DEF Put, Remember, Do, Unlink
<1>4. CASE script' = <<Put("runtime", r), Remember(r)>>
  <2>1. Head(script') = Put("runtime", r) /\ \A i \in 1..Len(script') : script'[i] # Unlink("marker")
    BY <1>3, <1>4
  <2> QED BY <1>1, <1>2, <1>3, <2>1, BeginCrash DEF ClearInv
<1>5. CASE script' = <<Put("runtime", r), Remember(r), Put("desktop", d), Do("sync")>>
  <2>1. Head(script') = Put("runtime", r) /\ \A i \in 1..Len(script') : script'[i] # Unlink("marker")
    BY <1>3, <1>5
  <2> QED BY <1>1, <1>2, <1>3, <2>1, BeginCrash DEF ClearInv
<1> QED BY <1>1, <1>4, <1>5 DEF SaveScript

(* An operation that saves nothing begins after the launch.                *)
LEMMA HarmlessCrash ==
    ASSUME CrashInv, UNCHANGED <<disks, saved, up>>, tried' \subseteq tried, up # "launch",
           attempt' = attempt, NoneBack \/ tried' = {},
           slot' = "restore" => script' = MarkScript,
           script' \in Seq(HarmlessSteps)
    PROVE  CrashInv'
<1>1. NoneBack'
  BY DEF NoneBack, Back, disks
<1>2. script' # <<>> => ~PutsRuntime(Head(script'))
  BY HeadTailProperties, HarmlessPuts
<1> QED BY <1>1, <1>2, BeginCrash DEF ClearInv

LEMMA StopCrash ==
    ASSUME CrashInv, Stop, UNCHANGED disks \/ Reset,
           tried' = tried \/ (attempt # 0 /\ tried' = tried \cup {attempt})
    PROVE  CrashInv'
<1>1. up' = "down" /\ script' = <<>> /\ saved' = Absent /\ attempt' = 0 /\ slot' = None
  BY DEF Stop
<1>2. \/ UNCHANGED past
      \/ \A f \in Files : past'[f] = {disk'[f]} /\ disk'[f] \in past[f]
  BY DEF disks, Reset
<1>3. OnlyMarker => OnlyMarker'
  BY <1>2 DEF OnlyMarker, Files
<1>4. tried' = tried /\ NoneBack => NoneBack'
  BY <1>2 DEF NoneBack, Back, Files
<1>5. tried' # tried => OnlyMarker
  BY DEF CrashInv, MarkInv
<1>6. TriedInv'
  BY <1>3, <1>4, <1>5 DEF CrashInv, TriedInv
<1>7. SavedInv' /\ MarkInv' /\ ClearInv'
  BY <1>1, HolderAssumption DEF SavedInv, MarkInv, ClearInv
<1>8. WorkInv'
  BY <1>1 DEF WorkInv
<1> QED BY <1>6, <1>7, <1>8 DEF CrashInv

LEMMA SetAsideClear ==
    \A file \in {"runtime", "desktop"} :
        /\ SetAsideScript(file) \in Seq(HarmlessSteps \ {Unlink("marker")})
        /\ \A i \in 1..Len(SetAsideScript(file)) : SetAsideScript(file)[i] # Unlink("marker")
<1> DEFINE Others == HarmlessSteps \ {Unlink("marker")}
<1>1. \A f \in {"runtime", "desktop"} : Unlink(f) \in Others
  BY DEF HarmlessSteps, Unlink, Files
<1>2. \A op \in {"sync", "replaceable"} : Do(op) \in Others
  BY DEF HarmlessSteps, Do, Unlink, Files
<1>3. <<>> \in Seq(Others)
  OBVIOUS
<1>4. ASSUME NEW file \in {"runtime", "desktop"}
      PROVE  SetAsideScript(file) \in Seq(Others)
  <2> HIDE DEF Others
  <2>1. (IF Present(file) THEN <<Unlink(file), Do("sync")>> ELSE <<>>) \in Seq(Others)
    BY <1>1, <1>2, <1>3
  <2>2. (IF file = "runtime" THEN <<Do("replaceable")>> ELSE <<>>) \in Seq(Others)
    BY <1>2, <1>3
  <2> QED BY <2>1, <2>2, <1>3, ConcatProperties DEF SetAsideScript
<1>5. ASSUME NEW t \in Seq(Others), NEW i \in 1..Len(t) PROVE t[i] # Unlink("marker")
  <2>1. t[i] \in Others
    OBVIOUS
  <2> QED BY <2>1
<1> QED BY <1>4, <1>5

LEMMA LaunchCallCrash ==
    ASSUME Types, StoreInv, CrashInv, LaunchCall
    PROVE  CrashInv'
<1> DEFINE calls == launch.calls
           call == Head(launch.calls)
           Clears == \E i \in 1..Len(calls) : calls[i].op = "clear"
<1>0. /\ up = "launch" /\ script = <<>> /\ calls # <<>> /\ ~MustFailed /\ up' = up
      /\ launch' = [launch EXCEPT !.calls = Tail(@), !.must = call.must]
      /\ UNCHANGED <<disks, guard, saved, attempt, slot>> /\ tried' = Outstanding(call.op)
      /\ failed' = FALSE
      /\ script' = CASE call.op = "clear" -> ClearScript
                     [] call.op = "remove" -> RemoveScript
                     [] OTHER -> SetAsideScript(call.op)
  BY DEF LaunchCall, slotVars, memory, Begin
<1>1. calls \in Seq(Calls) /\ slot = "launch" /\ tried \subseteq 1..saves
  BY <1>0 DEF Types, LaunchTypes, HistoryTypes
<1>2. call.op \in {"runtime", "desktop", "clear", "remove"} /\ call = calls[1]
      /\ 1 \in 1..Len(calls)
  <2>1. call \in Calls
    BY <1>0, <1>1, HeadTailProperties
  <2> QED BY <1>0, <1>1, <2>1 DEF Calls
<1>3. launch'.calls = Tail(calls) /\ launch'.must = call.must
  BY <1>0 DEF Types, LaunchTypes
<1>4. Clears => disk["runtime"].kind # "saved" \/ (call = Call("runtime", TRUE) /\ guard # "newer")
  BY <1>0 DEF CrashInv, ClearInv, MustFailed
<1>5. tried' \subseteq tried
  BY <1>0 DEF Outstanding
<1>6. script' \in Seq(HarmlessSteps)
  BY <1>0, <1>2, ScriptsHarmless DEF Files
<1>7. NoneBack' \/ \A i \in 1..Len(script') : script'[i] # Unlink("marker")
  <2>1. CASE call.op = "remove"
    BY <1>0, <2>1 DEF Outstanding, NoneBack
  <2>2. CASE call.op = "clear"
    <3>1. call # Call("runtime", TRUE)
      BY <2>2 DEF Call
    <3>2. disk["runtime"].kind # "saved"
      BY <1>2, <1>4, <2>2, <3>1
    <3>3. tried' = tried \cap {0}
      BY <1>0, <2>2, <3>2 DEF Outstanding, Found
    <3>4. tried' = {}
      BY <1>1, <3>3
    <3> QED BY <3>4 DEF NoneBack
  <2>3. CASE call.op \in {"runtime", "desktop"}
    BY <1>0, <2>3, SetAsideClear
  <2> QED BY <1>2, <2>1, <2>2, <2>3
<1>8. ClearInv'
  <2> SUFFICES ASSUME \E i \in 1..Len(launch'.calls) : launch'.calls[i].op = "clear"
               PROVE  \/ disk'["runtime"].kind # "saved"
                      \/ launch'.must /\ script' # <<>> /\ Head(script') = Unlink("runtime")
    BY DEF ClearInv
  <2>1. Clears
    BY <1>0, <1>1, <1>3
  <2>2. CASE disk["runtime"].kind # "saved"
    BY <1>0, <2>2 DEF disks
  <2>3. CASE call = Call("runtime", TRUE) /\ guard # "newer" /\ disk["runtime"].kind = "saved"
    <3>1. script' = SetAsideScript("runtime") /\ launch'.must
      BY <1>0, <1>3, <2>3 DEF Call
    <3>2. script' = <<Unlink("runtime"), Do("sync")>> \o <<Do("replaceable")>>
      BY <2>3, <3>1 DEF SetAsideScript, Protected, Present
    <3>3. script' # <<>> /\ Head(script') = Unlink("runtime")
      BY <3>2
    <3> QED BY <3>1, <3>3
  <2> QED BY <1>4, <2>1, <2>2, <2>3
<1>9. script' # <<>> => ~PutsRuntime(Head(script'))
  BY <1>6, HeadTailProperties, HarmlessPuts
<1>10. slot' # "restore"
  BY <1>0, <1>1
<1> QED BY <1>0, <1>5, <1>6, <1>7, <1>8, <1>9, <1>10, BeginCrash

LEMMA LaunchCrash ==
    ASSUME Types, StoreInv, CrashInv, NEW setting \in BOOLEAN,
           NEW unreadable \in SUBSET Files, Launch(setting, unreadable)
    PROVE  CrashInv'
<1> DEFINE seen(f) == IF f \in unreadable /\ Present(f) THEN "unreadable" ELSE disk[f].kind
           crashed == Present("marker")
           unknown == "marker" \in unreadable
<1>0. /\ up = "down" /\ up' = "launch" /\ slot' = "launch"
      /\ UNCHANGED <<disks, script, failed, tried, attempt>>
      /\ guard' = CASE seen("runtime") \in {"absent", "saved"} -> "replaceable"
                    [] seen("runtime") = "newer" -> "newer"
                    [] OTHER -> "unresolved"
      /\ launch'.calls = IF unknown THEN <<>>
                         ELSE LaunchCalls(seen("runtime"), seen("desktop"), crashed, setting)
      /\ saved' = IF seen("runtime") = "saved" /\ setting /\ ~crashed /\ ~unknown
                  THEN disk["runtime"] ELSE Absent
  BY DEF Launch, operation, NoLaunch
<1>1. script = <<>> /\ attempt = 0
  BY <1>0 DEF Types, Resting
<1>2. (NoneBack' <=> NoneBack) /\ (OnlyMarker' <=> OnlyMarker)
  BY <1>0 DEF NoneBack, OnlyMarker, Back, disks
<1>3. \A f \in Files : disk[f] \in past[f]
  BY DEF StoreInv, StoreTypes
<1>4. OnlyMarker => crashed
  BY <1>3 DEF OnlyMarker, Present, Content, Files
<1>5. TriedInv'
  BY <1>0, <1>2 DEF CrashInv, TriedInv
<1>6. SavedInv'
  <2> SUFFICES ASSUME saved' # Absent PROVE NoneBack /\ saved'.save \notin tried
    BY <1>0, <1>2 DEF SavedInv
  <2>1. disk["runtime"].kind = "saved" /\ ~crashed /\ saved' = disk["runtime"]
    BY <1>0
  <2>2. NoneBack
    BY <1>4, <2>1 DEF CrashInv, TriedInv
  <2>3. disk["runtime"] \in past["runtime"]
    BY <1>3 DEF Files
  <2> QED BY <2>1, <2>2, <2>3 DEF NoneBack, Back
<1>7. MarkInv'
  BY <1>0, <1>1, HolderAssumption DEF MarkInv
<1>8. WorkInv'
  BY <1>0, <1>1, ShortSequences DEF WorkInv
<1>9. ClearInv'
  <2>0. script' = <<>> /\ disk' = disk /\ (unknown => launch'.calls = <<>>)
    BY <1>0, <1>1 DEF disks
  <2> SUFFICES ASSUME ~unknown, disk["runtime"].kind = "saved",
                      \E i \in 1..Len(launch'.calls) : launch'.calls[i].op = "clear"
               PROVE  Head(launch'.calls) = Call("runtime", TRUE) /\ guard' # "newer"
    <3>1. (\E i \in 1..Len(launch'.calls) : launch'.calls[i].op = "clear") => ~unknown
      BY <2>0
    <3> HIDE DEF unknown
    <3> QED BY <2>0, <3>1 DEF ClearInv
  <2>1. seen("runtime") \in {"unreadable", "saved"}
    OBVIOUS
  <2>2. CASE seen("runtime") = "unreadable"
    BY <1>0, <2>2 DEF LaunchCalls
  <2>3. CASE seen("runtime") = "saved" /\ crashed /\ setting
    <3>1. launch'.calls = AfterCrash(seen("desktop"))
      BY <1>0, <2>3 DEF LaunchCalls
    <3>2. Head(launch'.calls) = Call("runtime", TRUE)
      BY <3>1 DEF AfterCrash
    <3>3. guard' = "replaceable"
      BY <1>0, <2>3
    <3> QED BY <3>2, <3>3
  <2>4. CASE seen("runtime") = "saved" /\ ~(crashed /\ setting)
    <3> DEFINE a == CorruptLayout(seen("desktop"))
               b == IF setting THEN <<>> ELSE <<Call("remove", FALSE)>>
    <3>1. launch'.calls = a \o b
      BY <1>0, <2>4 DEF LaunchCalls
    <3> DEFINE Others == {Call("desktop", FALSE), Call("remove", FALSE)}
    <3>2. a \in Seq(Others) /\ b \in Seq(Others)
      <4>1. Call("desktop", FALSE) \in Others /\ Call("remove", FALSE) \in Others
        OBVIOUS
      <4> HIDE DEF Others
      <4> QED BY <4>1, ShortSequences DEF CorruptLayout
    <3>3. launch'.calls \in Seq(Others)
      <4> HIDE DEF a, b, Others
      <4> QED BY <3>1, <3>2, ConcatProperties
    <3>4. \A i \in 1..Len(launch'.calls) : launch'.calls[i] \in Others
      <4> HIDE DEF Others
      <4> QED BY <3>3
    <3>5. \A c \in Others : c.op # "clear"
      BY DEF Call
    <3> QED BY <3>4, <3>5
  <2> QED BY <2>1, <2>2, <2>3, <2>4
<1> QED BY <1>5, <1>6, <1>7, <1>8, <1>9 DEF CrashInv

LEMMA WriterCrash ==
    ASSUME Types, StoreInv, PhaseInv, JobsInv, CrashInv, Writer
    PROVE  CrashInv'
<1> DEFINE job == Head(jobs).job
           write == Head(jobs).write
<1>0. /\ UNCHANGED <<disks, memory, saved, up, launch, attempt>> /\ jobs # <<>> /\ slot = None
      /\ up = "up"
  BY DEF Writer, PhaseInv, Types, LaunchTypes
<1>1. job = Head(jobs).job /\ Head(jobs) = jobs[1] /\ 1 \in 1..Len(jobs)
  BY <1>0, HeadTailProperties DEF Types, WriteTypes
<1>2. slot' \in {None, "writer"}
  BY <1>0 DEF Writer, WriteCheckpoint
<1>3. slot' # "restore"
  BY <1>2, HolderAssumption
<1>4. CASE UNCHANGED operation /\ tried' = tried
  BY <1>0, <1>3, <1>4, QuietCrash DEF memory
<1>5. CASE job = "save" /\ ~UNCHANGED operation
  <2>1. WriteCheckpoint(write) /\ tried' = tried
    BY <1>5 DEF Writer
  <2>2. BeginSave(write.capture, write.layout)
    BY <1>5, <2>1 DEF WriteCheckpoint
  <2> QED BY <1>0, <1>3, <2>1, <2>2, SaveCrash
<1>6. CASE job \notin {"save", "barrier"}
  <2>1. script' = (IF job = "remove" THEN RemoveScript ELSE ClearScript)
        /\ tried' = (IF job = "remove" THEN {} ELSE tried)
    BY <1>6 DEF Writer, Begin
  <2>2. job \in {"remove", "clear"}
    BY <1>0, <1>6, HeadTailProperties DEF Types, WriteTypes, Jobs
  <2>3. NoneBack \/ tried' = {}
    BY <1>1, <2>1, <2>2 DEF JobsInv, CrashInv, SavedInv
  <2>4. script' \in Seq(HarmlessSteps) /\ tried' \subseteq tried
    BY <2>1, ScriptsHarmless
  <2> QED BY <1>0, <1>3, <2>3, <2>4, HarmlessCrash
<1>7. job \in {"save", "barrier"} => tried' = tried
  BY DEF Writer
<1>8. job = "barrier" => UNCHANGED operation
  BY DEF Writer
<1> QED BY <1>4, <1>5, <1>6, <1>7, <1>8

LEMMA CrashKept ==
    Types /\ StoreInv /\ PhaseInv /\ JobsInv /\ CrashInv /\ [Next]_vars => CrashInv'
<1> SUFFICES ASSUME Types, StoreInv, PhaseInv, JobsInv, CrashInv, [Next]_vars PROVE CrashInv'
  OBVIOUS
<1>0. /\ HolderAssumption
      /\ slot = "restore" => up = "up"
      /\ up = "down" => slot = None
  BY HolderAssumption DEF Types, LaunchTypes, Resting
<1>1. CASE UNCHANGED vars
  BY <1>1, QuietCrash DEF vars, storeVars, memory, slotVars, history
<1>2. CASE StoreStep
  BY <1>2, StepCrash
<1>3. CASE LaunchCall
  BY <1>3, LaunchCallCrash
<1>4. CASE RestoreNotStarted \/ RestoreFails \/ Settle \/ SettleClear \/ SettleRemove
           \/ SettleMove \/ TakeCheckpoint \/ Quit
  <2>1. UNCHANGED <<storeVars, tried, saved, up, launch, slot>> /\ attempt' \in {attempt, 0}
    BY <1>4 DEF RestoreNotStarted, RestoreFails, Settle, SettleClear, SettleRemove, Settling,
           SettleMove, TakeCheckpoint, Quit, slotVars, history
  <2> QED BY <2>1, QuietCrash DEF storeVars, memory
<1>5. ASSUME NEW c \in captures, CaptureRuntime(c) \/ Checkpoint(c) PROVE CrashInv'
  <2>1. UNCHANGED <<storeVars, tried, saved, up, launch, slot, attempt>>
    BY <1>5 DEF CaptureRuntime, Checkpoint, slotVars, history
  <2> QED BY <2>1, QuietCrash DEF storeVars, memory
<1>5a. ASSUME NEW c \in sending, SendCheckpoint(c) PROVE CrashInv'
  <2>1. UNCHANGED <<storeVars, tried, saved, up, launch, slot, attempt>>
    BY <1>5a DEF SendCheckpoint, slotVars, history
  <2> QED BY <2>1, QuietCrash DEF storeVars, memory
<1>6. ASSUME NEW s \in Structures, Change(s) PROVE CrashInv'
  <2>1. UNCHANGED <<storeVars, tried, saved, up, launch, slot, attempt>>
    BY <1>6 DEF Change, slotVars, history
  <2> QED BY <2>1, QuietCrash DEF storeVars, memory
<1>7. ASSUME NEW on \in BOOLEAN, SetEnabled(on) PROVE CrashInv'
  <2>1. UNCHANGED <<storeVars, tried, saved, up, launch, slot, attempt>>
    BY <1>7 DEF SetEnabled, slotVars, history
  <2> QED BY <2>1, QuietCrash DEF storeVars, memory
<1>8. CASE LaunchDone
  <2>1. UNCHANGED <<storeVars, tried, saved, attempt>> /\ up' = "up" /\ slot' = None
    BY <1>8 DEF LaunchDone, history
  <2> QED BY <1>0, <2>1, QuietCrash DEF storeVars, memory
<1>9. CASE WriterDone \/ QuitWritten
  <2>1. UNCHANGED <<storeVars, tried, saved, up, launch, attempt>> /\ slot' = None
    BY <1>9 DEF WriterDone, QuitWritten, program, history
  <2> QED BY <1>0, <2>1, QuietCrash DEF storeVars, memory
<1>10. CASE Marked
  <2>1. UNCHANGED <<storeVars, tried, saved, up, launch>> /\ slot' = None
        /\ slot = "restore" /\ script = <<>> /\ (attempt' # 0 => ~failed)
    BY <1>10 DEF Marked
  <2> QED BY <1>0, <2>1, QuietCrash DEF storeVars, memory
<1>11. CASE MarkAttempt
  <2>1. UNCHANGED <<disks, memory, tried, saved, up, launch, attempt>> /\ up = "up"
        /\ slot = None
    BY <1>11 DEF MarkAttempt, history
  <2>2. CASE UNCHANGED <<operation, slot>>
    BY <2>1, <2>2, QuietCrash DEF memory
  <2>3. CASE state = "bootstrapping" /\ Begin(MarkScript) /\ slot' = "restore"
    <3>1. NoneBack
      BY <2>3 DEF PhaseInv, Booting, CrashInv, SavedInv
    <3>2. script' = MarkScript
      BY <2>3 DEF Begin
    <3>3. script' \in Seq(HarmlessSteps)
      BY <3>2, ScriptsHarmless
    <3> QED BY <2>1, <3>1, <3>2, <3>3, HarmlessCrash
  <2> QED BY <1>11, <2>2, <2>3 DEF MarkAttempt
<1>12. CASE Writer
  BY <1>12, WriterCrash
<1>13. CASE QuitWrite
  <2>1. UNCHANGED <<disks, memory, tried, saved, up, launch, attempt>> /\ slot = None
        /\ quit.at = "write"
    BY <1>13 DEF QuitWrite
  <2>2. up = "up"
    BY <2>1 DEF PhaseInv, NoQuit
  <2>3. slot' # "restore"
    BY <1>0, <1>13 DEF QuitWrite
  <2>4. CASE BeginSave(now, now)
    BY <2>1, <2>2, <2>3, <2>4, SaveCrash
  <2>5. CASE quit.from = "bootstrapping" /\ Begin(ClearScript)
    <3>1. NoneBack
      BY <2>5 DEF PhaseInv, Booting, CrashInv, SavedInv
    <3>2. script' \in Seq(HarmlessSteps)
      BY <2>5, ScriptsHarmless DEF Begin
    <3> QED BY <2>1, <2>2, <2>3, <3>1, <3>2, HarmlessCrash
  <2>6. CASE UNCHANGED operation
    BY <2>1, <2>3, <2>6, QuietCrash DEF memory
  <2> QED BY <1>13, <2>4, <2>5, <2>6 DEF QuitWrite
<1>14. ASSUME NEW setting \in BOOLEAN, NEW unreadable \in SUBSET Files, Launch(setting, unreadable)
       PROVE  CrashInv'
  BY <1>14, LaunchCrash
<1>15. CASE StoreFault
  <2>1. /\ UNCHANGED <<disks, memory, saved, tried, attempt, slot, up, launch>>
        /\ script # <<>> /\ script' = <<>> /\ failed' = TRUE
    BY <1>15 DEF StoreFault, Fault, slotVars
  <2>2. ClearInv'
    BY <2>1 DEF CrashInv, ClearInv, disks
  <2>3. \A i \in 1..Len(script') : script'[i] # Unlink("marker")
    BY <2>1
  <2> QED BY <2>1, <2>2, <2>3, BeginCrash, ShortSequences
<1>16. CASE Exit \/ Crash
  BY <1>16, StopCrash DEF Exit, Crash, CutShort
<1>17. CASE LosePower
  BY <1>17, StopCrash, LosePowerResets DEF LosePower, CutShort, Types
<1> QED
  BY <1>1, <1>2, <1>3, <1>4, <1>5, <1>5a, <1>6, <1>7, <1>8, <1>9, <1>10, <1>11, <1>12, <1>13,
     <1>14, <1>15, <1>16, <1>17 DEF Next, Working

LEMMA CrashInitially == Init => PhaseInv /\ JobsInv /\ CrashInv
<1> SUFFICES ASSUME Init PROVE PhaseInv /\ JobsInv /\ CrashInv
  OBVIOUS
<1>1. PhaseInv /\ JobsInv
  BY HolderAssumption DEF Init, PhaseInv, Booting, JobsInv, NoQuit
<1>2. /\ up = "down" /\ tried = {} /\ saved = Absent /\ attempt = 0 /\ slot = None
      /\ script = <<>>
  BY DEF Init
<1>3. CrashInv
  BY <1>2, HolderAssumption
     DEF CrashInv, TriedInv, SavedInv, MarkInv, WorkInv, ClearInv, NoneBack
<1> QED BY <1>1, <1>3

(* A saved structure whose restore was cut short by a crash or a power loss *)
(* is not restored again (restore.rs: begin_restore, load): the marker is   *)
(* on the disk for good before the restore begins, and only what sets the   *)
(* structure aside, or finds it gone, takes it away.                        *)
THEOREM NoRestoreLoops == Spec => []NoCrashLoop
<1> DEFINE Inv == Types /\ StoreInv /\ PhaseInv /\ JobsInv /\ CrashInv
<1>1. Init => Inv
  BY TypesInitially, StoreInitially, CrashInitially
<1>2. Inv /\ [Next]_vars => Inv'
  BY TypesKept, StoreInvKept, PhaseKept, JobsKept, CrashKept
<1>3. Inv => NoCrashLoop
  BY DEF PhaseInv, CrashInv, SavedInv, NoCrashLoop
<1> QED BY <1>1, <1>2, <1>3, PTL DEF Spec
-----------------------------------------------------------------------------
(* What Quit wrote is there for the next launch.                           *)

(* What may stand behind the barrier of a Quit: a checkpoint found to be     *)
(* wanted before, and the jobs of a restore that was settling.              *)
Late(j) ==
    /\ j.job # "barrier"
    /\ quit.from = "running" => j.job = "save"

QuitInv ==
    /\ quit.at = "none" <=> quit = NoQuit
    /\ quit.at = "drain" =>
          \E k \in 1..Len(jobs) :
              /\ jobs[k].job = "barrier"
              /\ \A i \in 1..(k - 1) : jobs[i].job # "barrier"
              /\ \A i \in (k + 1)..Len(jobs) : Late(jobs[i])
    /\ quit.at \in {"write", "done"} => \A i \in 1..Len(jobs) : Late(jobs[i])
    /\ slot = "quit" => quit.at = "write"

(* How far the launch has come in setting the structure aside.              *)
SettingAside ==
    \/ failed
    \/ script = <<Unlink("runtime"), Do("sync"), Do("replaceable")>>
    \/ script = <<Do("sync"), Do("replaceable")>>
    \/ script = <<Do("replaceable")>>

(* The restore marker has a file of its own.                               *)
RuntimeKinds == \A c \in past["runtime"] : c.kind # "marker"

(* A program that saves may replace the structure.                          *)
GuardInv ==
    /\ RuntimeKinds
    /\ up = "launch" /\ ~blocked /\ guard # "replaceable" =>
          \/ /\ guard # "newer" /\ script = <<>> /\ launch.calls # <<>>
             /\ Head(launch.calls) = Call("runtime", TRUE)
          \/ launch.must /\ SettingAside
    /\ up = "up" => blocked \/ guard = "replaceable"
    /\ state \in {"bootstrapping", "running"} => ~blocked
    /\ quit.from = "running" => guard = "replaceable"

(* The structure p.capture is on the disk for good, and with it its layout. *)
Firm(p) ==
    LET r == disk["runtime"]
        d == disk["desktop"]
    IN
    /\ r.kind = "saved" /\ r.data = p.capture /\ past["runtime"] = {r}
    /\ p.layout # None =>
          /\ d.kind = "saved" /\ d.data = p.layout /\ d.save # 0
          /\ IdentityOf(d) = IdentityOf(r) /\ past["desktop"] = {d}

Landed(p) == Firm(Pair(p.capture, IF keepDesktop THEN None ELSE p.layout))

(* The contents that a save of p puts into the two files.                   *)
Carries(r, d, p) ==
    /\ r.kind = "saved" /\ r.data = p.capture
    /\ d.kind = "saved" /\ d.data = p.layout /\ d.save # 0
    /\ IdentityOf(d) = IdentityOf(r)

(* How far a save of p has come in which nothing failed.                    *)
Progress(p) ==
    \/ script = <<>> /\ Landed(p)
    \/ \E r, d \in Contents :
          /\ Carries(r, d, p)
          /\ \/ script = SaveScript(r, d)
             \/ /\ script = Tail(SaveScript(r, d))
                /\ disk["runtime"] = r
             \/ /\ ~keepDesktop /\ script = <<Put("desktop", d), Do("sync")>>
                /\ disk["runtime"] = r
             \/ /\ ~keepDesktop /\ script = <<Do("sync")>>
                /\ disk["runtime"] = r /\ disk["desktop"] = d

(* Steps that leave the two files alone.                                   *)
MarkerSteps == {Put("marker", Content("marker")), Unlink("marker"), Do("sync")}

(* What the saves that nothing disturbed have left on the disk.             *)
LastInv ==
    /\ up # "up" => last = NoPair /\ writing = NoWrite
    /\ up = "down" => ~hurt
    /\ ~hurt => ~failed
    /\ writing # NoWrite => slot = "writer"
    /\ ~hurt /\ writing # NoWrite => Progress(writing)
    /\ ~hurt /\ slot = "quit" /\ quit.from = "running" => Progress(Pair(now, now))
    /\ ~hurt /\ writing = NoWrite /\ ~(slot = "quit" /\ quit.from = "running")
       /\ last # NoPair /\ quit.at # "done" => Landed(last) /\ script \in Seq(MarkerSteps)

KeptInv ==
    kept # NoPair =>
        /\ Firm(kept) /\ slot = None
        /\ up = "down" \/ (quit.at = "done" /\ quit.from = "running")

KeepInv == QuitInv /\ GuardInv /\ LastInv /\ KeptInv

LEMMA QuitKept ==
    ASSUME Types, PhaseInv, JobsInv, QuitInv, [Next]_vars
    PROVE  QuitInv'
<1>0. /\ jobs \in Seq(Jobs)
      /\ quit \in [at : {"none", "drain", "write", "done"},
                   from : {"off", "bootstrapping", "running", "final"}]
      /\ quit # NoQuit => state = "final"
  BY DEF Types, WriteTypes, LaunchTypes, PhaseInv
<1>a. UNCHANGED <<jobs, quit>> /\ (slot' = "quit" => slot = "quit") => QuitInv'
  BY DEF QuitInv, Late
<1>b. quit = NoQuit /\ quit' = quit /\ (slot' = "quit" => slot = "quit") => QuitInv'
  BY DEF QuitInv, NoQuit
<1>d. ASSUME NEW j, jobs' = Append(jobs, j), quit' = quit, slot' = slot, quit # NoQuit => Late(j)
      PROVE  QuitInv'
  <2>1. /\ Len(jobs') = Len(jobs) + 1 /\ jobs'[Len(jobs) + 1] = j
        /\ \A i \in 1..Len(jobs) : jobs'[i] = jobs[i]
    BY <1>0, <1>d
  <2>2. Len(jobs) \in Nat
    BY <1>0
  <2>3. CASE quit = NoQuit
    BY <1>b, <1>d, <2>3
  <2>4. CASE quit # NoQuit /\ quit.at = "drain"
    <3>1. PICK k \in 1..Len(jobs) :
              /\ jobs[k].job = "barrier"
              /\ \A i \in 1..(k - 1) : jobs[i].job # "barrier"
              /\ \A i \in (k + 1)..Len(jobs) : Late(jobs[i])
      BY <2>4 DEF QuitInv
    <3>2. /\ k \in 1..Len(jobs') /\ jobs'[k].job = "barrier"
          /\ \A i \in 1..(k - 1) : jobs'[i].job # "barrier"
      BY <2>1, <2>2, <3>1
    <3>3. ASSUME NEW i \in (k + 1)..Len(jobs') PROVE Late(jobs'[i])
      BY <1>d, <2>1, <2>2, <2>4, <3>1
    <3> QED BY <1>d, <2>4, <3>2, <3>3 DEF QuitInv, Late
  <2>5. CASE quit # NoQuit /\ quit.at # "drain"
    <3>1. \A i \in 1..Len(jobs) : Late(jobs[i])
      BY <1>0, <2>5 DEF QuitInv
    <3>2. ASSUME NEW i \in 1..Len(jobs') PROVE Late(jobs'[i])
      BY <1>d, <2>1, <2>2, <2>5, <3>1
    <3> QED BY <1>d, <2>5, <3>2 DEF QuitInv, Late
  <2> QED BY <2>3, <2>4, <2>5
<1>c. slot' = None => slot' # "quit"
  BY HolderAssumption
<1>1. CASE UNCHANGED vars
  BY <1>1, <1>a DEF vars, owner, program, slotVars
<1>2. CASE StoreStep \/ StoreFault \/ LaunchCall \/ LaunchDone \/ MarkAttempt \/ Marked
           \/ RestoreNotStarted \/ RestoreFails \/ Settle \/ SettleMove \/ TakeCheckpoint
           \/ WriterDone
  BY <1>2, <1>a, <1>c DEF StoreStep, StoreFault, LaunchCall, LaunchDone, MarkAttempt, Marked,
         RestoreNotStarted, RestoreFails, Settle, SettleMove, TakeCheckpoint, WriterDone, owner,
         program, slotVars
<1>3. CASE SettleClear \/ SettleRemove
  <2>1. PICK kind \in {"remove", "clear"} : jobs' = Append(jobs, Job(kind))
    BY <1>3 DEF SettleClear, SettleRemove, Settling, Send
  <2>2. UNCHANGED <<quit, slot>> /\ restore # "none"
    BY <1>3 DEF SettleClear, SettleRemove, Settling, slotVars
  <2>3. quit # NoQuit => Late(Job(kind))
    BY <1>0, <2>2 DEF Late, Job, PhaseInv, Booting
  <2> QED BY <1>d, <2>1, <2>2, <2>3
<1>4. ASSUME NEW c \in captures, CaptureRuntime(c) \/ Checkpoint(c) PROVE QuitInv'
  BY <1>4, <1>a DEF CaptureRuntime, Checkpoint, owner, slotVars
<1>5. ASSUME NEW c \in sending, SendCheckpoint(c) PROVE QuitInv'
  <2>1. jobs' = Append(jobs, [job |-> "save", write |-> c]) /\ UNCHANGED <<quit, slot>>
    BY <1>5 DEF SendCheckpoint, Send, slotVars
  <2>2. Late([job |-> "save", write |-> c])
    BY DEF Late
  <2> QED BY <1>d, <2>1, <2>2
<1>6. ASSUME NEW s \in Structures, Change(s) PROVE QuitInv'
  BY <1>6, <1>a DEF Change, owner, slotVars
<1>7. ASSUME NEW on \in BOOLEAN, SetEnabled(on) PROVE QuitInv'
  BY <1>7, <1>b DEF SetEnabled, slotVars
<1>8. CASE Writer
  <2>1. jobs # <<>> /\ jobs' = Tail(jobs)
    BY <1>8 DEF Writer
  <2>0. slot' # "quit"
    BY <1>8, HolderAssumption DEF Writer, WriteCheckpoint
  <2>2. /\ Head(jobs) = jobs[1] /\ 1 \in 1..Len(jobs)
        /\ Len(jobs') = Len(jobs) - 1
        /\ \A i \in 1..Len(jobs') : jobs'[i] = jobs[i + 1]
    BY <1>0, <2>1
  <2>3. CASE quit = NoQuit
    <3>1. Head(jobs).job # "barrier"
      BY <2>2, <2>3 DEF JobsInv
    <3> QED BY <1>8, <1>b, <2>0, <2>3, <3>1 DEF Writer
  <2>4. CASE quit # NoQuit /\ quit.at = "drain"
    <3>1. PICK k \in 1..Len(jobs) :
              /\ jobs[k].job = "barrier"
              /\ \A i \in 1..(k - 1) : jobs[i].job # "barrier"
              /\ \A i \in (k + 1)..Len(jobs) : Late(jobs[i])
      BY <2>4 DEF QuitInv
    <3>2. CASE k = 1
      <4>1. quit' = [quit EXCEPT !.at = "write"]
        BY <1>8, <2>2, <3>1, <3>2 DEF Writer
      <4>2. quit'.at = "write" /\ quit'.from = quit.from
        BY <1>0, <4>1
      <4>3. \A i \in 1..Len(jobs') : Late(jobs'[i])
        BY <2>2, <3>1, <3>2
      <4> QED BY <2>0, <4>2, <4>3 DEF QuitInv, Late, NoQuit
    <3>3. CASE k # 1
      <4>1. Head(jobs).job # "barrier"
        BY <2>2, <3>1, <3>3
      <4>2. quit' = quit
        BY <1>8, <4>1 DEF Writer
      <4>3. /\ k - 1 \in 1..Len(jobs') /\ jobs'[k - 1].job = "barrier"
            /\ \A i \in 1..((k - 1) - 1) : jobs'[i].job # "barrier"
        BY <2>2, <3>1, <3>3
      <4>4. ASSUME NEW i \in ((k - 1) + 1)..Len(jobs') PROVE Late(jobs'[i])
        <5>1. i + 1 \in (k + 1)..Len(jobs) /\ i \in 1..Len(jobs')
          BY <2>2, <3>1
        <5> QED BY <2>2, <3>1, <5>1
      <4> QED BY <2>0, <2>4, <4>2, <4>3, <4>4 DEF QuitInv, Late, NoQuit
    <3> QED BY <3>2, <3>3
  <2>5. CASE quit # NoQuit /\ quit.at # "drain"
    <3>1. \A i \in 1..Len(jobs) : Late(jobs[i])
      BY <1>0, <2>5 DEF QuitInv
    <3>2. quit' = quit
      BY <1>8, <2>2, <3>1 DEF Writer, Late
    <3>3. \A i \in 1..Len(jobs') : Late(jobs'[i])
      BY <2>2, <3>1
    <3> QED BY <1>0, <2>0, <2>5, <3>2, <3>3 DEF QuitInv, Late
  <2> QED BY <2>3, <2>4, <2>5
<1>9. CASE Quit
  <2>1. /\ jobs' = Append(jobs, Job("barrier")) /\ quit = NoQuit
        /\ quit' = [at |-> "drain", from |-> state]
    BY <1>9 DEF Quit, Send
  <2>2. /\ Len(jobs') = Len(jobs) + 1 /\ jobs'[Len(jobs')] = Job("barrier")
        /\ \A i \in 1..Len(jobs) : jobs'[i] = jobs[i]
    BY <1>0, <2>1
  <2>3. \A i \in 1..Len(jobs) : jobs'[i].job # "barrier"
    BY <2>1, <2>2 DEF JobsInv
  <2>4. slot' # "quit"
    BY <1>9, <2>1 DEF Quit, slotVars, PhaseInv
  <2>5. Len(jobs') \in 1..Len(jobs') /\ jobs'[Len(jobs')].job = "barrier"
    BY <1>0, <2>2 DEF Job
  <2>6. /\ \A i \in 1..(Len(jobs') - 1) : jobs'[i].job # "barrier"
        /\ (Len(jobs') + 1)..Len(jobs') = {}
    BY <1>0, <2>2, <2>3
  <2> QED BY <2>1, <2>4, <2>5, <2>6 DEF QuitInv, NoQuit
<1>10. CASE QuitWrite
  <2>1. jobs' = jobs /\ quit.at = "write"
    BY <1>10 DEF QuitWrite, owner
  <2>2. \/ quit' = quit
        \/ quit' = [quit EXCEPT !.at = "done"] /\ slot' = None
    BY <1>10 DEF QuitWrite
  <2> QED BY <1>0, <1>c, <2>1, <2>2 DEF QuitInv, Late, NoQuit
<1>11. CASE QuitWritten
  <2>1. jobs' = jobs /\ slot = "quit" /\ quit' = [quit EXCEPT !.at = "done"]
        /\ slot' = None
    BY <1>11 DEF QuitWritten, owner
  <2> QED BY <1>0, <1>c, <2>1 DEF QuitInv, Late, NoQuit
<1>12. ASSUME NEW setting \in BOOLEAN, NEW unreadable \in SUBSET Files, Launch(setting, unreadable)
       PROVE  QuitInv'
  BY <1>12, <1>a DEF Launch, program
<1>13. CASE Exit \/ Crash \/ LosePower
  BY <1>13, <1>c DEF Exit, Crash, LosePower, Stop, QuitInv, NoQuit
<1> QED
  BY <1>1, <1>2, <1>3, <1>4, <1>5, <1>6, <1>7, <1>8, <1>9, <1>10, <1>11, <1>12, <1>13
     DEF Next, Working

(* What a step may leave in the structure's file.                          *)
LEMMA StepKinds ==
    ASSUME StoreInv, Step
    PROVE  \A c \in past'["runtime"] :
               c \in past["runtime"] \/ c = Absent \/ c.kind = "saved"
<1> DEFINE step == Head(script)
<1>1. StepOn(step, Tail(script)) /\ script # <<>> /\ step \in Steps
  BY NextStep DEF Step, StoreInv
<1>2. step.op \in Ops /\ step.file \in Files
  BY <1>1 DEF Steps
<1>3. disk["runtime"] \in past["runtime"] /\ past \in [Files -> SUBSET Contents] /\ "runtime" \in Files
  BY DEF StoreInv, StoreTypes, Files
<1>4. step.op = "put" /\ step.file = "runtime" => step.content.kind = "saved"
  <2>1. CASE script \in Seq(HarmlessSteps)
    <3>1. step \in HarmlessSteps
      BY <1>1, <2>1, HeadTailProperties
    <3> QED BY <3>1, HarmlessPuts
  <2>2. ASSUME NEW r \in Contents, NEW d \in Contents, Twins(r, d), Saving(r, d)
        PROVE  step.op = "put" /\ step.file = "runtime" => step.content.kind = "saved"
    <3>1. step \in {Put("runtime", r), Remember(r), Put("desktop", d)}
      BY <2>2 DEF Saving
    <3>2. r.kind = "saved"
      BY <2>2 DEF Twins
    <3> QED BY <3>1, <3>2 DEF Put, Remember, Do
  <2> QED BY <2>1, <2>2 DEF StoreInv, ScriptInv
<1>a. step.content \in Contents /\ Absent \in Contents
  BY <1>1, HarmlessTyped DEF Steps, StoreInv
<1>5. CASE step.op = "put"
  <2>1. Write(step.file, step.content) /\ UNCHANGED <<saves, scopes>>
    BY <1>1, <1>5 DEF StepOn
  <2> QED BY <1>2, <1>3, <1>4, <1>5, <1>a, <2>1, WriteTyped DEF StoreInv
<1>6. CASE step.op = "unlink"
  <2>1. Write(step.file, Absent) /\ UNCHANGED <<saves, scopes>>
    BY <1>1, <1>6 DEF StepOn
  <2> QED BY <1>2, <1>3, <1>a, <2>1, WriteTyped DEF StoreInv
<1>7. CASE step.op \in {"sync", "remember"}
  BY <1>1, <1>3, <1>7 DEF StepOn
<1>8. CASE step.op \in {"replaceable", "forget"}
  BY <1>1, <1>8 DEF StepOn, disks
<1> QED BY <1>2, <1>5, <1>6, <1>7, <1>8 DEF Ops

LEMMA KindsKept ==
    ASSUME Types, StoreInv, RuntimeKinds, [Next]_vars
    PROVE  RuntimeKinds'
<1>1. Calm \/ Save \/ Step \/ Reset
  BY StoreMoves
<1>2. CASE Calm \/ Save
  BY <1>2 DEF Calm, Save, RuntimeKinds, disks
<1>3. CASE Step
  BY <1>3, StepKinds DEF RuntimeKinds, Absent, Content
<1>4. CASE Reset
  BY <1>4 DEF Reset, RuntimeKinds, Files
<1> QED BY <1>1, <1>2, <1>3, <1>4

(* The next step of setting the structure aside.                           *)
LEMMA AsideStep ==
    ASSUME StoreInv, Step, SettingAside, ~failed
    PROVE  guard' = "replaceable" \/ SettingAside'
<1>1. StepOn(Head(script), Tail(script)) /\ script' = Tail(script)
  BY DEF Step, StepOn
<1>2. CASE script = <<Do("replaceable")>>
  <2>1. Head(script).op = "replaceable"
    BY <1>2 DEF Do
  <2> QED BY <1>1, <2>1 DEF StepOn
<1>3. CASE script = <<Do("sync"), Do("replaceable")>>
  <2>1. Tail(script) = <<Do("replaceable")>>
    BY <1>3
  <2> QED BY <1>1, <2>1 DEF SettingAside
<1>4. CASE script = <<Unlink("runtime"), Do("sync"), Do("replaceable")>>
  <2>1. Tail(script) = <<Do("sync"), Do("replaceable")>>
    BY <1>4
  <2> QED BY <1>1, <2>1 DEF SettingAside
<1> QED BY <1>2, <1>3, <1>4 DEF SettingAside

LEMMA Joined ==
    ASSUME NEW x, NEW y, NEW z
    PROVE  <<x, y>> \o <<z>> = <<x, y, z>>
<1> DEFINE S == {x, y, z}
<1>1. <<x, y>> \in Seq(S) /\ <<z>> \in Seq(S) /\ <<x, y, z>> \in Seq(S)
  OBVIOUS
<1>2. <<x, y>> \o <<z>> \in Seq(S)
  BY <1>1, ConcatProperties
<1>3. Len(<<x, y>> \o <<z>>) = 3
  BY <1>1, ConcatProperties
<1>4. \A i \in 1..3 : (<<x, y>> \o <<z>>)[i] = <<x, y, z>>[i]
  BY <1>1, ConcatProperties
<1> HIDE DEF S
<1> QED BY <1>1, <1>2, <1>3, <1>4, SeqEqual

LEMMA AsideBegins ==
    ASSUME guard # "newer"
    PROVE  \/ SetAsideScript("runtime") = <<Unlink("runtime"), Do("sync"), Do("replaceable")>>
           \/ SetAsideScript("runtime") = <<Do("replaceable")>>
<1>1. SetAsideScript("runtime") =
          (IF Present("runtime") THEN <<Unlink("runtime"), Do("sync")>> ELSE <<>>)
              \o <<Do("replaceable")>>
  BY DEF SetAsideScript, Protected
<1>2. <<Unlink("runtime"), Do("sync")>> \o <<Do("replaceable")>>
          = <<Unlink("runtime"), Do("sync"), Do("replaceable")>>
  BY Joined
<1>3. <<>> \o <<Do("replaceable")>> = <<Do("replaceable")>>
  <2>1. Do("replaceable") \in {Do("replaceable")}
    OBVIOUS
  <2>2. <<Do("replaceable")>> \in Seq({Do("replaceable")})
    BY <2>1, ShortSequences
  <2> QED BY <2>2, ConcatEmptySeq
<1> QED BY <1>1, <1>2, <1>3

LEMMA LaunchGuard ==
    ASSUME Types, GuardInv, NEW setting \in BOOLEAN,
           NEW unreadable \in SUBSET Files, Launch(setting, unreadable)
    PROVE  ~blocked' /\ guard' # "replaceable" =>
               /\ guard' # "newer" /\ script' = <<>> /\ launch'.calls # <<>>
               /\ Head(launch'.calls) = Call("runtime", TRUE)
<1> DEFINE seen(f) == IF f \in unreadable /\ Present(f) THEN "unreadable" ELSE disk[f].kind
           crashed == Present("marker")
           unknown == "marker" \in unreadable
<1>0. /\ up = "down" /\ script' = script
      /\ guard' = CASE seen("runtime") \in {"absent", "saved"} -> "replaceable"
                    [] seen("runtime") = "newer" -> "newer"
                    [] OTHER -> "unresolved"
      /\ blocked' = (unknown \/ seen("runtime") \in {"newer", "unreadable"})
      /\ launch'.calls = IF unknown THEN <<>>
                         ELSE LaunchCalls(seen("runtime"), seen("desktop"), crashed, setting)
  BY DEF Launch, operation, NoLaunch
<1> SUFFICES ASSUME ~blocked', guard' # "replaceable"
             PROVE  /\ guard' # "newer" /\ script' = <<>> /\ launch'.calls # <<>>
                    /\ Head(launch'.calls) = Call("runtime", TRUE)
  OBVIOUS
<1>1. script' = <<>> /\ ~unknown /\ seen("runtime") \notin {"newer", "unreadable", "absent", "saved"}
  BY <1>0 DEF Types, Resting
<1>2. disk["runtime"].kind \in {"absent", "saved", "corrupt", "newer", "marker"}
  BY DEF Types, StoreTypes, Contents, Files
<1>3. disk["runtime"].kind # "marker"
  BY DEF GuardInv, RuntimeKinds, Types, StoreTypes, Files
<1>4. seen("runtime") = "corrupt"
  BY <1>1, <1>2, <1>3
<1>5. launch'.calls = <<Call("runtime", TRUE)>> \o Remaining(crashed, setting)
  BY <1>0, <1>1, <1>4 DEF LaunchCalls
<1>6. guard' = "unresolved"
  BY <1>0, <1>4
<1>7. \E S : Remaining(crashed, setting) \in Seq(S)
  <2>1. Call("clear", FALSE) \in {Call("clear", FALSE), Call("remove", FALSE)}
        /\ Call("remove", FALSE) \in {Call("clear", FALSE), Call("remove", FALSE)}
    OBVIOUS
  <2> QED BY <2>1, ShortSequences, ConcatProperties DEF Remaining
<1>8. launch'.calls # <<>> /\ Head(launch'.calls) = Call("runtime", TRUE)
  BY <1>5, <1>7
<1> QED BY <1>1, <1>6, <1>8

LEMMA GuardKept ==
    ASSUME Types, StoreInv, PhaseInv, GuardInv, [Next]_vars
    PROVE  GuardInv'
<1>0. /\ up \in {"down", "launch", "up"}
      /\ state \in {"off", "bootstrapping", "running", "final"}
      /\ quit \in [at : {"none", "drain", "write", "done"},
                   from : {"off", "bootstrapping", "running", "final"}]
      /\ up = "launch" <=> slot = "launch"
      /\ up # "up" => quit = NoQuit /\ state = "off"
  BY DEF Types, LaunchTypes, PhaseInv
<1>r. RuntimeKinds'
  BY KindsKept DEF GuardInv
<1>a. ASSUME up = "up", up' = "up", UNCHANGED <<guard, blocked, state>>, quit'.from = quit.from
      PROVE  GuardInv'
  BY <1>a, <1>r DEF GuardInv
<1>1. CASE UNCHANGED vars
  <2>1. UNCHANGED <<up, launch, blocked, guard, failed, script, state, quit>>
    BY <1>1 DEF vars, storeVars, memory, operation, owner, program
  <2> QED BY <2>1, <1>r DEF GuardInv, SettingAside
<1>2. CASE StoreStep
  <2>1. Step /\ UNCHANGED <<up, launch, blocked, state, quit>>
    BY <1>2 DEF StoreStep, owner, program
  <2>2. script # <<>> /\ guard' \in {guard, "replaceable"} /\ failed' = failed
    BY <2>1, NextStep DEF Step, StepOn, memory, Ops, StoreInv
  <2>3. SettingAside /\ guard # "replaceable" => guard' = "replaceable" \/ SettingAside'
    <3>1. CASE failed
      BY <2>2, <3>1 DEF SettingAside
    <3> QED BY <2>1, <3>1, AsideStep
  <2> QED BY <2>1, <2>2, <2>3, <1>r DEF GuardInv
<1>3. CASE StoreFault
  <2>1. UNCHANGED <<up, launch, blocked, state, quit, guard>> /\ script # <<>> /\ failed' = TRUE
    BY <1>3 DEF StoreFault, Fault, owner, program, memory
  <2> QED BY <2>1, <1>r DEF GuardInv, SettingAside
<1>4. CASE LaunchCall
  <2>1. /\ UNCHANGED <<up, blocked, state, quit, guard>> /\ up = "launch" /\ script = <<>>
        /\ launch.calls # <<>> /\ ~MustFailed
        /\ launch' = [launch EXCEPT !.calls = Tail(@), !.must = Head(launch.calls).must]
    BY <1>4 DEF LaunchCall, owner, program, memory
  <2>2. ASSUME ~blocked, guard # "replaceable"
        PROVE  launch'.must /\ SettingAside'
    <3>1. Head(launch.calls) = Call("runtime", TRUE) /\ guard # "newer"
      BY <2>1, <2>2 DEF GuardInv, SettingAside, MustFailed
    <3>2. launch'.must
      BY <2>1, <3>1 DEF Types, LaunchTypes, Call
    <3>3. script' = SetAsideScript("runtime")
      BY <1>4, <3>1 DEF LaunchCall, Begin, Call
    <3> QED BY <3>1, <3>2, <3>3, AsideBegins DEF SettingAside
  <2> QED BY <2>1, <2>2, <1>0, <1>r DEF GuardInv
<1>5. CASE LaunchDone
  <2>1. /\ up = "launch" /\ script = <<>> /\ (launch.calls = <<>> \/ MustFailed)
        /\ up' = "up" /\ blocked' = (blocked \/ MustFailed) /\ UNCHANGED <<guard, quit>>
        /\ (blocked' => state' = "off")
    BY <1>5 DEF LaunchDone, storeVars, memory
  <2>2. ~blocked' => guard = "replaceable"
    BY <2>1 DEF GuardInv, SettingAside, MustFailed
  <2> QED BY <1>0, <1>r, <2>1, <2>2 DEF GuardInv, NoQuit
<1>6. CASE MarkAttempt \/ Marked
  <2>1. up = "up" /\ up' = up /\ UNCHANGED <<guard, blocked, state, quit>>
    BY <1>6, <1>0 DEF MarkAttempt, Marked, owner, storeVars, memory, PhaseInv
  <2> QED BY <2>1, <1>a
<1>7. CASE RestoreNotStarted \/ RestoreFails
  <2>1. up = "up" /\ up' = up /\ UNCHANGED <<guard, quit>>
        /\ (Suspend \/ UNCHANGED <<blocked, state>>)
    BY <1>7 DEF RestoreNotStarted, RestoreFails, storeVars, memory
  <2>2. CASE UNCHANGED <<blocked, state>>
    BY <2>1, <2>2, <1>a
  <2>3. CASE Suspend
    BY <2>1, <2>3, <1>r, <1>0 DEF Suspend, GuardInv
  <2> QED BY <2>1, <2>2, <2>3
<1>8. CASE Settle \/ SettleClear \/ SettleRemove \/ TakeCheckpoint
  <2>1. UNCHANGED <<up, guard, blocked, state, quit>> /\ (up = "up" \/ restore # "none")
    BY <1>8 DEF Settle, SettleClear, SettleRemove, Settling, TakeCheckpoint, storeVars, memory,
           owner
  <2>2. up = "up"
    BY <1>0, <2>1 DEF PhaseInv
  <2> QED BY <2>1, <2>2, <1>a
<1>9. CASE SettleMove
  <2>1. up = "up" /\ up' = up /\ UNCHANGED <<guard, blocked, quit>>
        /\ (state' = state \/ state' = SettleTo)
    BY <1>9, <1>0 DEF SettleMove, storeVars, memory, PhaseInv
  <2> QED BY <2>1, <1>r DEF GuardInv, SettleTo
<1>10. ASSUME NEW c \in captures, CaptureRuntime(c) \/ Checkpoint(c) PROVE GuardInv'
  <2>1. up = "up" /\ up' = up /\ UNCHANGED <<guard, blocked, state, quit>>
    BY <1>10, <1>0 DEF CaptureRuntime, Checkpoint, owner, storeVars, memory, PhaseInv
  <2> QED BY <2>1, <1>a
<1>10a. ASSUME NEW c \in sending, SendCheckpoint(c) PROVE GuardInv'
  <2>1. up = "up" /\ up' = up /\ UNCHANGED <<guard, blocked, state, quit>>
    BY <1>10a, <1>0 DEF SendCheckpoint, storeVars, memory, PhaseInv
  <2> QED BY <2>1, <1>a
<1>11. ASSUME NEW s \in Structures, Change(s) PROVE GuardInv'
  <2>1. up = "up" /\ up' = up /\ UNCHANGED <<guard, blocked, state, quit>>
    BY <1>11 DEF Change, owner, storeVars, memory
  <2> QED BY <2>1, <1>a
<1>12. ASSUME NEW on \in BOOLEAN, SetEnabled(on) PROVE GuardInv'
  <2>1. up = "up" /\ up' = up /\ UNCHANGED <<guard, blocked, quit>>
        /\ (state' = state \/ state' = "off" \/ ~blocked)
    BY <1>12 DEF SetEnabled, storeVars, memory
  <2> QED BY <2>1, <1>r DEF GuardInv
<1>13. CASE Writer
  <2>1. up = "up" /\ up' = up /\ UNCHANGED <<guard, blocked, state>> /\ quit'.from = quit.from
    BY <1>13, <1>0 DEF Writer, memory, PhaseInv
  <2> QED BY <2>1, <1>a
<1>14. CASE WriterDone
  <2>1. slot = "writer" /\ UNCHANGED <<up, launch, guard, blocked, state, quit>>
    BY <1>14 DEF WriterDone, owner, program, storeVars, memory
  <2>2. up = "up"
    BY <2>1, <1>0, HolderAssumption DEF Types, Resting
  <2> QED BY <2>1, <2>2, <1>a
<1>15. CASE Quit
  <2>1. up = "up" /\ up' = up /\ UNCHANGED <<guard, blocked>> /\ state' = "final" /\ quit'.from = state
    BY <1>15 DEF Quit, storeVars, memory
  <2> QED BY <2>1, <1>r DEF GuardInv
<1>16. CASE QuitWrite \/ QuitWritten
  <2>1. up' = up /\ UNCHANGED <<guard, blocked, state>> /\ quit'.from = quit.from
    BY <1>16, <1>0 DEF QuitWrite, QuitWritten, owner, storeVars, memory
  <2>2. quit.at = "write" \/ slot = "quit"
    BY <1>16 DEF QuitWrite, QuitWritten
  <2>3. up = "up"
    BY <1>0, <2>2 DEF PhaseInv, NoQuit
  <2> QED BY <2>1, <2>3, <1>a
<1>17. ASSUME NEW setting \in BOOLEAN, NEW unreadable \in SUBSET Files, Launch(setting, unreadable)
       PROVE  GuardInv'
  <2>1. up = "down" /\ up' = "launch" /\ UNCHANGED <<state, quit>>
    BY <1>17 DEF Launch, program
  <2>2. ~blocked' /\ guard' # "replaceable" =>
            /\ guard' # "newer" /\ script' = <<>> /\ launch'.calls # <<>>
            /\ Head(launch'.calls) = Call("runtime", TRUE)
    BY <1>17, LaunchGuard
  <2>3. quit'.from = "off" /\ state' = "off"
    BY <1>0, <2>1 DEF NoQuit
  <2> QED BY <1>r, <2>1, <2>2, <2>3 DEF GuardInv
<1>18. CASE Exit \/ Crash \/ LosePower
  <2>1. up' = "down" /\ state' = "off" /\ quit' = NoQuit
    BY <1>18 DEF Exit, Crash, LosePower, Stop
  <2> QED BY <2>1, <1>r DEF GuardInv, NoQuit
<1> QED
  BY <1>1, <1>2, <1>3, <1>4, <1>5, <1>6, <1>7, <1>8, <1>9, <1>10, <1>10a, <1>11, <1>12, <1>13,
     <1>14, <1>15, <1>16, <1>17, <1>18 DEF Next, Working

(* The two files are as they were, or as they were and synced.              *)
FilesAlone ==
    \A f \in {"runtime", "desktop"} :
        disk'[f] = disk[f] /\ past'[f] \in {past[f], {disk[f]}}

LEMMA FirmStays ==
    ASSUME NEW p, Firm(p), FilesAlone
    PROVE  Firm(p)'
<1>1. /\ disk'["runtime"] = disk["runtime"] /\ disk'["desktop"] = disk["desktop"]
      /\ past'["runtime"] \in {past["runtime"], {disk["runtime"]}}
      /\ past'["desktop"] \in {past["desktop"], {disk["desktop"]}}
  BY DEF FilesAlone
<1> QED BY <1>1 DEF Firm

LEMMA LandedStays ==
    ASSUME NEW p, Landed(p), FilesAlone, keepDesktop' = keepDesktop
    PROVE  Landed(p)'
BY FirmStays DEF Landed

(* What is on the disk for good outlives a power loss.                     *)
LEMMA FirmSurvives ==
    ASSUME NEW p, Firm(p), Reset
    PROVE  Firm(p)'
<1>1. /\ disk'["runtime"] \in past["runtime"] /\ past'["runtime"] = {disk'["runtime"]}
      /\ disk'["desktop"] \in past["desktop"] /\ past'["desktop"] = {disk'["desktop"]}
  BY DEF Reset, Files
<1>2. past["runtime"] = {disk["runtime"]} /\ (p.layout # None => past["desktop"] = {disk["desktop"]})
  BY DEF Firm
<1>3. disk'["runtime"] = disk["runtime"] /\ (p.layout # None => disk'["desktop"] = disk["desktop"])
  BY <1>1, <1>2
<1> QED BY <1>1, <1>3 DEF Firm

(* What a step writes.                                                     *)
LEMMA StepWrites ==
    ASSUME StepOn(Head(script), Tail(script))
    PROVE  /\ \A f, c : Head(script) = Put(f, c) =>
                  Write(f, c) /\ UNCHANGED <<saves, scopes, keepDesktop>>
           /\ \A f : Head(script) = Unlink(f) =>
                  Write(f, Absent) /\ UNCHANGED <<saves, scopes, keepDesktop>>
           /\ \A c : Head(script) = Do("sync") \/ Head(script) = Remember(c) =>
                  /\ past' = [f \in Files |-> {disk[f]}]
                  /\ UNCHANGED <<disk, saves, scopes, keepDesktop>>
<1> DEFINE step == Head(script)
<1>1. /\ \A f, c : step = Put(f, c) => step.op = "put" /\ step.file = f /\ step.content = c
      /\ \A f : step = Unlink(f) => step.op = "unlink" /\ step.file = f
      /\ step = Do("sync") => step.op = "sync"
      /\ \A c : step = Remember(c) => step.op = "remember"
  BY DEF Put, Unlink, Do, Remember
<1>2. /\ step.op = "put" => Write(step.file, step.content) /\ UNCHANGED <<memory, saves, scopes>>
      /\ step.op = "unlink" => Write(step.file, Absent) /\ UNCHANGED <<memory, saves, scopes>>
      /\ step.op \in {"sync", "remember"} =>
            /\ past' = [f \in Files |-> {disk[f]}]
            /\ UNCHANGED <<disk, saves, scopes, keepDesktop>>
  BY DEF StepOn, memory, ghosts
<1>3. UNCHANGED memory => UNCHANGED keepDesktop
  BY DEF memory
<1> QED BY <1>1, <1>2, <1>3

LEMMA MarkerStep ==
    ASSUME StoreInv, Step, script \in Seq(MarkerSteps)
    PROVE  FilesAlone /\ keepDesktop' = keepDesktop /\ script' \in Seq(MarkerSteps)
<1>1. StepOn(Head(script), Tail(script)) /\ script # <<>>
  BY DEF Step
<1>2. Head(script) \in MarkerSteps /\ Tail(script) \in Seq(MarkerSteps)
  BY <1>1, HeadTailProperties
<1>3. script' \in Seq(MarkerSteps)
  BY <1>1, <1>2 DEF StepOn
<1>4. /\ Content("marker") \in Contents /\ Absent \in Contents /\ "marker" \in Files
      /\ "runtime" \in Files /\ "desktop" \in Files
  BY HarmlessTyped DEF StoreInv, Files
<1>5. CASE Head(script) = Put("marker", Content("marker"))
  <2>1. Write("marker", Content("marker")) /\ UNCHANGED <<saves, scopes, keepDesktop>>
    BY <1>1, <1>5, StepWrites
  <2> QED BY <1>3, <1>4, <2>1, WriteTyped DEF FilesAlone, StoreInv
<1>6. CASE Head(script) = Unlink("marker")
  <2>1. Write("marker", Absent) /\ UNCHANGED <<saves, scopes, keepDesktop>>
    BY <1>1, <1>6, StepWrites
  <2> QED BY <1>3, <1>4, <2>1, WriteTyped DEF FilesAlone, StoreInv
<1>7. CASE Head(script) = Do("sync")
  <2>1. past' = [f \in Files |-> {disk[f]}] /\ UNCHANGED <<disk, keepDesktop>>
    BY <1>1, <1>7, StepWrites
  <2> QED BY <1>3, <1>4, <2>1 DEF FilesAlone
<1> QED BY <1>2, <1>5, <1>6, <1>7 DEF MarkerSteps

LEMMA MarkerScripts ==
    MarkScript \in Seq(MarkerSteps) /\ ClearScript \in Seq(MarkerSteps) /\ <<>> \in Seq(MarkerSteps)
<1>1. /\ Put("marker", Content("marker")) \in MarkerSteps /\ Unlink("marker") \in MarkerSteps
      /\ Do("sync") \in MarkerSteps
  BY DEF MarkerSteps
<1> QED BY <1>1, ShortSequences DEF MarkScript, ClearScript

(* The next step of a save.                                                *)
LEMMA ProgressStep ==
    ASSUME StoreInv, Step, NEW p, Progress(p)
    PROVE  Progress(p)'
<1>1. StepOn(Head(script), Tail(script)) /\ script # <<>> /\ script' = Tail(script)
  BY DEF Step, StepOn
<1>2. PICK r \in Contents, d \in Contents :
          /\ Carries(r, d, p)
          /\ \/ script = SaveScript(r, d)
             \/ script = Tail(SaveScript(r, d)) /\ disk["runtime"] = r
             \/ /\ ~keepDesktop /\ script = <<Put("desktop", d), Do("sync")>>
                /\ disk["runtime"] = r
             \/ /\ ~keepDesktop /\ script = <<Do("sync")>>
                /\ disk["runtime"] = r /\ disk["desktop"] = d
  BY <1>1 DEF Progress
<1>3. Carries(r, d, p)' /\ "runtime" \in Files /\ "desktop" \in Files
  BY <1>2 DEF Carries, Files
<1>4. CASE script = SaveScript(r, d)
  <2>1. Head(script) = Put("runtime", r) /\ Tail(script) = Tail(SaveScript(r, d))
    BY <1>4 DEF SaveScript
  <2>2. Write("runtime", r) /\ UNCHANGED <<saves, scopes, keepDesktop>>
    BY <1>1, <2>1, StepWrites
  <2>3. disk'["runtime"] = r /\ Contents' = Contents
    BY <1>3, <2>2, WriteTyped DEF StoreInv, Contents
  <2>4. script' = Tail(SaveScript(r, d))'
    BY <1>1, <2>1, <2>2 DEF SaveScript
  <2> QED BY <1>3, <2>3, <2>4 DEF Progress
<1>5. CASE script = Tail(SaveScript(r, d)) /\ disk["runtime"] = r
  <2>1. /\ Head(script) = Remember(r)
        /\ Tail(script) = IF keepDesktop THEN <<>> ELSE <<Put("desktop", d), Do("sync")>>
    BY <1>5 DEF SaveScript
  <2>2. past' = [f \in Files |-> {disk[f]}] /\ UNCHANGED <<disk, keepDesktop, saves, scopes>>
    BY <1>1, <2>1, StepWrites
  <2>3. Contents' = Contents
    BY <2>2 DEF Contents
  <2>4. CASE keepDesktop
    <3>1. Landed(p)'
      BY <1>2, <1>3, <1>5, <2>2, <2>4 DEF Landed, Firm, Pair, Carries
    <3> QED BY <1>1, <2>1, <2>4, <3>1 DEF Progress
  <2>5. CASE ~keepDesktop
    <3>1. script' = <<Put("desktop", d), Do("sync")>> /\ ~keepDesktop' /\ disk'["runtime"] = r
      BY <1>1, <1>5, <2>1, <2>2, <2>5
    <3> QED BY <1>3, <2>3, <3>1 DEF Progress, Put, Do
  <2> QED BY <2>4, <2>5
<1>6. CASE ~keepDesktop /\ script = <<Put("desktop", d), Do("sync")>> /\ disk["runtime"] = r
  <2>1. Head(script) = Put("desktop", d) /\ Tail(script) = <<Do("sync")>>
    BY <1>6
  <2>2. Write("desktop", d) /\ UNCHANGED <<saves, scopes, keepDesktop>>
    BY <1>1, <2>1, StepWrites
  <2>3. disk'["desktop"] = d /\ disk'["runtime"] = r /\ Contents' = Contents
    BY <1>3, <1>6, <2>2, WriteTyped DEF StoreInv, Contents
  <2>4. ~keepDesktop' /\ script' = <<Do("sync")>>
    BY <1>1, <1>6, <2>1, <2>2
  <2> QED BY <1>3, <2>3, <2>4 DEF Progress, Do
<1>7. CASE /\ ~keepDesktop /\ script = <<Do("sync")>>
           /\ disk["runtime"] = r /\ disk["desktop"] = d
  <2>1. Head(script) = Do("sync") /\ Tail(script) = <<>>
    BY <1>7
  <2>2. past' = [f \in Files |-> {disk[f]}] /\ UNCHANGED <<disk, keepDesktop>>
    BY <1>1, <2>1, StepWrites
  <2>3. Landed(p)'
    BY <1>2, <1>3, <1>7, <2>2 DEF Landed, Firm, Pair, Carries
  <2> QED BY <1>1, <2>1, <2>3 DEF Progress
<1> QED BY <1>2, <1>4, <1>5, <1>6, <1>7

LEMMA ProgressEnds ==
    ASSUME NEW p, Progress(p), script = <<>>
    PROVE  Landed(p)
<1>1. \A r, d : SaveScript(r, d) # <<>> /\ Tail(SaveScript(r, d)) # <<>>
  BY DEF SaveScript
<1> QED BY <1>1 DEF Progress

LEMMA ProgressBegins ==
    ASSUME StoreInv, UNCHANGED <<disks, memory>>, NEW p, p.capture \in Structures,
           p.layout \in Structures, BeginSave(p.capture, p.layout)
    PROVE  Progress(p)' /\ failed' = FALSE
<1> DEFINE scope == IF identity = NoIdentity THEN scopes + 1 ELSE identity.scope
           generation == identity.generation + 1
           r == Saved(p.capture, scope, generation, saves + 1)
           d == Saved(p.layout, scope, generation, saves + 1)
<1>1. /\ script' = SaveScript(r, d) /\ saves' = saves + 1 /\ failed' = FALSE
      /\ scopes' = IF identity = NoIdentity THEN scopes + 1 ELSE scopes
  BY DEF BeginSave, Begin
<1>2. saves \in Nat /\ scopes \in Nat /\ identity \in [scope : 0..scopes, generation : 0..saves]
  BY DEF StoreInv, StoreTypes
<1>3. scope \in 0..scopes' /\ generation \in 0..saves' /\ saves + 1 \in 0..saves'
  BY <1>1, <1>2
<1>4. r \in Contents' /\ d \in Contents'
  <2> HIDE DEF scope, generation
  <2> QED BY <1>1, <1>3 DEF Saved, Contents
<1>5. Carries(r, d, p)
  BY <1>2 DEF Carries, Saved, IdentityOf
<1>6. \E u, v \in Contents' : script' = SaveScript(u, v) /\ Carries(u, v, p)
  BY <1>1, <1>4, <1>5
<1>7. keepDesktop' = keepDesktop
  BY DEF memory
<1>8. PICK u \in Contents', v \in Contents' : script' = SaveScript(u, v) /\ Carries(u, v, p)
  BY <1>6
<1>9. script' = SaveScript(u, v)' /\ Carries(u, v, p)'
  BY <1>7, <1>8 DEF SaveScript, Carries
<1> QED BY <1>1, <1>9 DEF Progress

(* Steps of the owner that ask nothing of the store.                       *)
LEMMA QuietLast ==
    ASSUME QuitInv, LastInv, UNCHANGED <<storeVars, last, writing, hurt>>,
           up' = up \/ up' = "up",
           quit'.at # "done" => quit.at # "done",
           \/ slot' = slot /\ (slot = "quit" => UNCHANGED <<now, quit>>)
           \/ slot \notin {"quit", "writer"} /\ slot' = None
    PROVE  LastInv'
<1>1. UNCHANGED <<disk, past, keepDesktop, script, failed, saves, scopes>>
  BY DEF storeVars, disks, memory, operation, ghosts
<1>2. Contents' = Contents
  BY <1>1 DEF Contents
<1>3. \A p : (Progress(p)' <=> Progress(p)) /\ (Landed(p)' <=> Landed(p))
  BY <1>1, <1>2 DEF Progress, Landed, Firm, SaveScript, Carries
<1>4. slot = "quit" => Pair(now, now)' = Pair(now, now)
  BY HolderAssumption
<1>5. (slot' = "quit" /\ quit'.from = "running") => (slot = "quit" /\ quit.from = "running")
  BY HolderAssumption
<1>6. slot = "quit" /\ quit.from = "running" => slot' = "quit" /\ quit'.from = "running"
  BY HolderAssumption
<1>7. writing' = writing /\ last' = last /\ hurt' = hurt
  OBVIOUS
<1>8. writing # NoWrite => slot' = "writer"
  BY HolderAssumption DEF LastInv
<1>9. ~hurt /\ writing # NoWrite => Progress(writing)'
  BY <1>3, <1>7 DEF LastInv
<1>10. ~hurt /\ slot' = "quit" /\ quit'.from = "running" => Progress(Pair(now, now))'
  BY <1>3, <1>4, <1>5 DEF LastInv
<1>11. ~hurt /\ writing = NoWrite /\ ~(slot' = "quit" /\ quit'.from = "running")
       /\ last # NoPair /\ quit'.at # "done" => Landed(last)' /\ script' \in Seq(MarkerSteps)
  BY <1>1, <1>3, <1>6, <1>7 DEF LastInv
<1> QED BY <1>1, <1>7, <1>8, <1>9, <1>10, <1>11 DEF LastInv

(* An operation that leaves the two files alone begins.                    *)
LEMMA MarkerLast ==
    ASSUME LastInv, UNCHANGED <<disks, memory, up, hurt, writing, quit>>, up = "up",
           writing = NoWrite, slot # "quit", failed' = FALSE,
           slot' = "quit" => quit.from # "running",
           last' \in {last, NoPair},
           last' # NoPair => script' \in Seq(MarkerSteps)
    PROVE  LastInv'
<1>1. FilesAlone /\ keepDesktop' = keepDesktop
  BY DEF disks, memory, FilesAlone
<1>2. last' = last /\ Landed(last) => Landed(last)'
  <2>1. \A p : Landed(p) => Landed(p)'
    BY <1>1, LandedStays
  <2> QED BY <2>1
<1>3. writing' = NoWrite /\ hurt' = hurt /\ up' = "up" /\ quit' = quit
  OBVIOUS
<1>4. ~(slot = "quit" /\ quit.from = "running") /\ ~(slot' = "quit" /\ quit'.from = "running")
  BY <1>3
<1>5. ~hurt /\ last' # NoPair /\ quit.at # "done" => Landed(last)' /\ script' \in Seq(MarkerSteps)
  <2> SUFFICES ASSUME ~hurt, last' # NoPair, quit.at # "done" PROVE Landed(last)' /\ script' \in Seq(MarkerSteps)
    OBVIOUS
  <2>1. last' = last
    OBVIOUS
  <2> QED BY <1>2, <1>4, <2>1 DEF LastInv
<1> QED BY <1>3, <1>4, <1>5 DEF LastInv

(* A save of write begins, for the writer or for Quit.                     *)
LEMMA SaveLast ==
    ASSUME Types, StoreInv, LastInv, UNCHANGED <<disks, memory, up, hurt, quit, last, now>>,
           up = "up",
           NEW write, write.capture \in Structures, write.layout \in Structures,
           BeginSave(write.capture, write.layout),
           \/ slot' = "writer" /\ writing' = write
           \/ /\ slot' = "quit" /\ writing = NoWrite /\ writing' = writing
              /\ quit.from = "running" /\ write = Pair(now, now)
    PROVE  LastInv'
<1>1. Progress(write)' /\ failed' = FALSE
  BY ProgressBegins
<1>2. write # NoWrite
  BY StoreAssumption DEF NoWrite
<1>3. CASE slot' = "writer" /\ writing' = write
  BY <1>1, <1>2, <1>3 DEF LastInv
<1>4. CASE /\ slot' = "quit" /\ writing = NoWrite /\ writing' = writing
           /\ quit.from = "running" /\ write = Pair(now, now)
  <2>1. Pair(now, now)' = write
    BY <1>4 DEF Pair
  <2> QED BY <1>1, <1>4, <2>1 DEF LastInv
<1> QED BY <1>3, <1>4

LEMMA WriterLast ==
    ASSUME Types, StoreInv, PhaseInv, QuitInv, LastInv, Writer
    PROVE  LastInv'
<1> DEFINE job == Head(jobs).job
           write == Head(jobs).write
<1>0. /\ UNCHANGED <<disks, memory, promised, faults, up, hurt, now>> /\ jobs # <<>> /\ slot = None
      /\ up = "up" /\ jobs \in Seq(Jobs)
  BY DEF Writer, PhaseInv, Types, WriteTypes
<1>1. writing = NoWrite /\ slot # "quit" /\ slot # "writer"
  BY <1>0, HolderAssumption DEF LastInv
<1>2. Head(jobs) \in Jobs
  BY <1>0, HeadTailProperties
<1>3. CASE UNCHANGED <<saves, scopes, operation, last, slot, writing>>
  <2>1. quit'.at # "done" => quit.at # "done"
    <3>1. CASE job = "barrier"
      <4>1. 1 \in 1..Len(jobs) /\ Head(jobs) = jobs[1]
        BY <1>0
      <4> QED BY <3>1, <4>1 DEF QuitInv, Late
    <3>2. CASE job # "barrier"
      BY <3>2 DEF Writer
    <3> QED BY <3>1, <3>2
  <2> QED BY <1>0, <1>1, <1>3, <2>1, QuietLast DEF storeVars, ghosts
<1>4. CASE job = "save" /\ ~UNCHANGED <<saves, scopes, operation, last, slot, writing>>
  <2>1. WriteCheckpoint(write) /\ quit' = quit
    BY <1>4 DEF Writer
  <2>2. slot' = "writer" /\ writing' = write /\ BeginSave(write.capture, write.layout) /\ last' = last
    BY <1>4, <2>1 DEF WriteCheckpoint
  <2>3. write.capture \in Structures /\ write.layout \in Structures
    BY <1>2, <1>4 DEF Jobs, Captured
  <2> QED BY <1>0, <2>1, <2>2, <2>3, SaveLast
<1>5. CASE job \notin {"save", "barrier"}
  <2>1. /\ slot' = "writer" /\ last' = ForgetLast(job) /\ UNCHANGED <<writing, quit>>
        /\ Begin(IF job = "remove" THEN RemoveScript ELSE ClearScript)
    BY <1>5 DEF Writer
  <2>2. last' \in {last, NoPair} /\ (last' # NoPair => job # "remove")
    BY <2>1 DEF ForgetLast
  <2>3. failed' = FALSE /\ (last' # NoPair => script' \in Seq(MarkerSteps))
    BY <2>1, <2>2, MarkerScripts DEF Begin
  <2> QED BY <1>0, <1>1, <2>1, <2>2, <2>3, MarkerLast
<1>6. job = "barrier" => UNCHANGED <<saves, scopes, operation, last, slot, writing>>
  BY DEF Writer
<1> QED BY <1>3, <1>4, <1>5, <1>6

LEMMA WriterDoneLast ==
    ASSUME LastInv, WriterDone
    PROVE  LastInv'
<1>1. /\ slot = "writer" /\ script = <<>> /\ slot' = None /\ writing' = NoWrite
      /\ UNCHANGED <<disks, memory, operation, up, hurt, quit, now>>
  BY DEF WriterDone, storeVars, program, history
<1>2. FilesAlone /\ keepDesktop' = keepDesktop /\ script' = <<>> /\ failed' = failed
  BY <1>1 DEF FilesAlone, disks, memory, operation
<1>3. \A p : Landed(p) => Landed(p)'
  BY <1>2, LandedStays
<1>4. \A p : Landed(Pair(p.capture, p.layout)) <=> Landed(p)
  BY DEF Landed, Pair
<1>5. ~hurt /\ last' # NoPair /\ quit.at # "done" => Landed(last)'
  <2> SUFFICES ASSUME ~hurt, last' # NoPair, quit.at # "done" PROVE Landed(last)'
    OBVIOUS
  <2>1. CASE writing # NoWrite
    <3>1. ~failed /\ Progress(writing)
      BY <2>1 DEF LastInv
    <3>2. last' = Pair(writing.capture, writing.layout)
      BY <2>1, <3>1 DEF WriterDone
    <3>3. Landed(last')
      BY <1>1, <1>4, <3>1, <3>2, ProgressEnds
    <3> QED BY <1>3, <3>3
  <2>2. CASE writing = NoWrite
    <3>1. last' = last
      BY <2>2 DEF WriterDone
    <3>2. Landed(last)
      BY <1>1, <2>2, <3>1 DEF LastInv
    <3> QED BY <1>3, <3>1, <3>2
  <2> QED BY <2>1, <2>2
<1>6. slot' # "quit" /\ up = up' /\ hurt' = hurt /\ quit' = quit /\ script' \in Seq(MarkerSteps)
  BY <1>1, <1>2, HolderAssumption, MarkerScripts
<1>7. up = "up" => up' = "up"
  BY <1>6
<1>8. up # "up" => last' = NoPair
  <2>1. up # "up" => writing = NoWrite
    BY DEF LastInv
  <2> QED BY <2>1 DEF WriterDone, LastInv
<1> QED BY <1>1, <1>2, <1>5, <1>6, <1>8 DEF LastInv

LEMMA QuitWriteLast ==
    ASSUME Types, StoreInv, PhaseInv, QuitInv, LastInv, QuitWrite
    PROVE  LastInv'
<1>0. /\ UNCHANGED <<disks, memory, promised, faults, up, hurt, now, last, writing>>
      /\ slot = None /\ quit.at = "write"
  BY DEF QuitWrite, owner
<1>1. up = "up" /\ writing = NoWrite /\ slot # "quit" /\ slot # "writer" /\ now \in Structures
  BY <1>0, HolderAssumption DEF PhaseInv, NoQuit, LastInv, Types, WriteTypes
<1>2. CASE /\ slot' = "quit" /\ BeginSave(now, now) /\ UNCHANGED quit /\ quit.from = "running"
  <2>1. Pair(now, now).capture = now /\ Pair(now, now).layout = now
    BY DEF Pair
  <2> QED BY <1>0, <1>1, <1>2, <2>1, SaveLast
<1>3. CASE /\ slot' = "quit" /\ Begin(ClearScript) /\ UNCHANGED quit /\ quit.from = "bootstrapping"
  <2>1. failed' = FALSE /\ script' \in Seq(MarkerSteps)
    BY <1>3, MarkerScripts DEF Begin
  <2> QED BY <1>0, <1>1, <1>3, <2>1, MarkerLast
<1>4. CASE quit' = [quit EXCEPT !.at = "done"] /\ UNCHANGED <<saves, scopes, operation, slot>>
  <2>1. quit'.at = "done"
    BY <1>4 DEF Types, LaunchTypes
  <2> QED BY <1>0, <1>1, <1>4, <2>1, QuietLast DEF storeVars, ghosts
<1> QED BY <1>2, <1>3, <1>4 DEF QuitWrite

LEMMA StepLast ==
    ASSUME StoreInv, LastInv, StoreStep
    PROVE  LastInv'
<1>1. Step /\ UNCHANGED <<up, slot, last, writing, now, quit, hurt>> /\ failed' = failed
  BY DEF StoreStep, Step, StepOn, slotVars, program, history
<1>2. \A p : Progress(p) => Progress(p)'
  BY <1>1, ProgressStep
<1>3. Pair(now, now)' = Pair(now, now)
  BY <1>1
<1>4. script \in Seq(MarkerSteps) => script' \in Seq(MarkerSteps) /\ \A p : Landed(p) => Landed(p)'
  BY <1>1, MarkerStep, LandedStays
<1>5. ~hurt /\ writing # NoWrite => Progress(writing)'
  BY <1>1, <1>2 DEF LastInv
<1>6. ~hurt /\ slot = "quit" /\ quit.from = "running" => Progress(Pair(now, now))'
  BY <1>2, <1>3 DEF LastInv
<1>7. ~hurt /\ writing = NoWrite /\ ~(slot = "quit" /\ quit.from = "running")
      /\ last # NoPair /\ quit.at # "done" => Landed(last)' /\ script' \in Seq(MarkerSteps)
  BY <1>1, <1>4 DEF LastInv
<1> QED BY <1>1, <1>5, <1>6, <1>7 DEF LastInv

LEMMA LastKept ==
    ASSUME Types, StoreInv, PhaseInv, QuitInv, LastInv, [Next]_vars
    PROVE  LastInv'
<1>0. /\ up \in {"down", "launch", "up"}
      /\ up = "launch" <=> slot = "launch"
      /\ slot = None => script = <<>>
      /\ up = "down" => slot = None /\ quit = NoQuit
      /\ up # "up" => last = NoPair /\ writing = NoWrite
  BY DEF Types, LaunchTypes, Resting, LastInv
<1>1. CASE UNCHANGED vars
  BY <1>1, QuietLast DEF vars, slotVars, program, history
<1>2. CASE StoreStep
  BY <1>2, StepLast
<1>3. CASE StoreFault
  <2>1. script # <<>> /\ hurt' = TRUE /\ UNCHANGED <<up, last, writing, slot>>
    BY <1>3 DEF StoreFault, Fault, slotVars
  <2>2. up # "down"
    BY <1>0, <2>1
  <2> QED BY <2>1, <2>2 DEF LastInv
<1>4. CASE LaunchCall
  <2>1. up = "launch" /\ UNCHANGED <<up, last, writing, slot, hurt>> /\ failed' = FALSE
    BY <1>4 DEF LaunchCall, slotVars, Begin
  <2> QED BY <1>0, <2>1 DEF LastInv
<1>5. CASE LaunchDone
  <2>1. /\ up = "launch" /\ UNCHANGED <<storeVars, last, writing, quit, hurt>> /\ up' = "up"
        /\ slot' = None
    BY <1>5 DEF LaunchDone, history
  <2> QED BY <1>0, <2>1, QuietLast
<1>6. CASE Marked
  <2>1. /\ slot = "restore" /\ UNCHANGED <<storeVars, up, last, writing, quit, hurt>>
        /\ slot' = None
    BY <1>6 DEF Marked
  <2> QED BY <2>1, QuietLast
<1>7. CASE MarkAttempt
  <2>1. /\ up = "up" /\ slot = None
        /\ UNCHANGED <<disks, memory, ghosts, faults, up, last, writing, quit, hurt, now>>
    BY <1>7 DEF MarkAttempt, history
  <2>2. CASE UNCHANGED <<operation, slot>>
    BY <2>1, <2>2, QuietLast DEF storeVars
  <2>3. CASE Begin(MarkScript) /\ slot' = "restore"
    <3>1. script' \in Seq(MarkerSteps) /\ failed' = FALSE
      BY <2>3, MarkerScripts DEF Begin
    <3>2. writing = NoWrite /\ slot # "quit"
      BY <2>1, HolderAssumption DEF LastInv
    <3> QED BY <2>1, <2>3, <3>1, <3>2, MarkerLast
  <2> QED BY <1>7, <2>2, <2>3 DEF MarkAttempt
<1>8. CASE RestoreNotStarted \/ RestoreFails \/ Settle \/ SettleClear \/ SettleRemove
           \/ SettleMove \/ TakeCheckpoint
  <2>1. UNCHANGED <<storeVars, up, last, writing, quit, hurt, slot, now>>
    BY <1>8 DEF RestoreNotStarted, RestoreFails, Settle, SettleClear, SettleRemove, Settling,
           SettleMove, TakeCheckpoint, slotVars, history
  <2> QED BY <2>1, QuietLast
<1>9. ASSUME NEW c \in captures, CaptureRuntime(c) \/ Checkpoint(c) PROVE LastInv'
  <2>1. UNCHANGED <<storeVars, up, last, writing, quit, hurt, slot, now>>
    BY <1>9 DEF CaptureRuntime, Checkpoint, slotVars, history
  <2> QED BY <2>1, QuietLast
<1>9a. ASSUME NEW c \in sending, SendCheckpoint(c) PROVE LastInv'
  <2>1. UNCHANGED <<storeVars, up, last, writing, quit, hurt, slot, now>>
    BY <1>9a DEF SendCheckpoint, slotVars, history
  <2> QED BY <2>1, QuietLast
<1>10. ASSUME NEW s \in Structures, Change(s) PROVE LastInv'
  <2>1. UNCHANGED <<storeVars, up, last, writing, quit, hurt, slot>> /\ quit = NoQuit
    BY <1>10 DEF Change, slotVars, history
  <2>2. slot # "quit"
    BY <2>1 DEF QuitInv, NoQuit
  <2> QED BY <2>1, <2>2, QuietLast
<1>11. ASSUME NEW on \in BOOLEAN, SetEnabled(on) PROVE LastInv'
  <2>1. UNCHANGED <<storeVars, up, last, writing, quit, hurt, slot, now>>
    BY <1>11 DEF SetEnabled, slotVars, history
  <2> QED BY <2>1, QuietLast
<1>12. CASE Writer
  BY <1>12, WriterLast
<1>13. CASE WriterDone
  BY <1>13, WriterDoneLast
<1>14. CASE Quit
  <2>1. UNCHANGED <<storeVars, up, last, writing, hurt, slot>> /\ quit = NoQuit
        /\ quit'.at = "drain"
    BY <1>14 DEF Quit, slotVars
  <2>2. slot # "quit" /\ quit.at # "done"
    BY <2>1 DEF QuitInv, NoQuit
  <2> QED BY <2>1, <2>2, QuietLast
<1>15. CASE QuitWrite
  BY <1>15, QuitWriteLast
<1>16. CASE QuitWritten
  <2>1. /\ slot = "quit" /\ slot' = None /\ quit' = [quit EXCEPT !.at = "done"]
        /\ UNCHANGED <<storeVars, up, last, writing, hurt>>
    BY <1>16 DEF QuitWritten
  <2>2. quit'.at = "done" /\ writing = NoWrite /\ slot' # "quit" /\ failed' = failed
    BY <2>1, HolderAssumption DEF Types, LaunchTypes, LastInv, storeVars, operation
  <2> QED BY <2>1, <2>2 DEF LastInv
<1>17. ASSUME NEW setting \in BOOLEAN, NEW unreadable \in SUBSET Files, Launch(setting, unreadable)
       PROVE  LastInv'
  <2>1. /\ up = "down" /\ up' = "launch" /\ slot' = "launch" /\ hurt' = FALSE
        /\ UNCHANGED <<last, writing, failed>>
    BY <1>17 DEF Launch, operation
  <2> QED BY <1>0, <2>1 DEF LastInv
<1>18. CASE Exit \/ Crash \/ LosePower
  <2>1. /\ up' = "down" /\ last' = NoPair /\ writing' = NoWrite /\ slot' = None
        /\ hurt' = FALSE /\ failed' = FALSE
    BY <1>18 DEF Exit, Crash, LosePower, Stop
  <2> QED BY <2>1, HolderAssumption DEF LastInv
<1> QED
  BY <1>1, <1>2, <1>3, <1>4, <1>5, <1>6, <1>7, <1>8, <1>9, <1>9a, <1>10, <1>11, <1>12, <1>13,
     <1>14, <1>15, <1>16, <1>17, <1>18 DEF Next, Working

(* The final write has ended, or there was nothing to write.               *)
LEMMA FinalKept ==
    ASSUME Types, QuitInv, GuardInv, LastInv, KeptInv, QuitWrite \/ QuitWritten
    PROVE  KeptInv'
<1>0. /\ UNCHANGED <<disks, memory, now, hurt>> /\ slot \in {None, "quit"}
      /\ quit.at = "write" /\ quit.at # "done"
  BY DEF QuitWrite, QuitWritten, QuitInv, storeVars
<1>1. \A p : Firm(p) => Firm(p)'
  <2>1. FilesAlone
    BY <1>0 DEF FilesAlone, disks
  <2> QED BY <2>1, FirmStays
<1>2. kept = NoPair \/ up = "down"
  BY <1>0 DEF KeptInv
<1>3. up # "down"
  BY <1>0 DEF Types, Resting, NoQuit
<1>4. Firm(Kept) \/ Kept = NoPair
      => (kept' = Kept /\ quit'.at = "done" /\ quit'.from = "running" /\ slot' = None
            => KeptInv')
  <2> SUFFICES ASSUME Firm(Kept) \/ Kept = NoPair, kept' = Kept, quit'.at = "done",
                      quit'.from = "running", slot' = None
               PROVE  KeptInv'
    OBVIOUS
  <2> HIDE DEF Kept
  <2> QED BY <1>1 DEF KeptInv
<1>5. Landed(Pair(now, now)) /\ ~hurt => Firm(Kept)
  BY DEF Landed, Kept, Pair
<1>6. hurt => Kept = NoPair
  BY DEF Kept
<1>7. kept' = kept => KeptInv'
  BY <1>2, <1>3 DEF KeptInv
<1>8. CASE QuitWritten /\ kept' # kept
  <2>1. /\ slot = "quit" /\ script = <<>> /\ slot' = None /\ kept' = Kept
        /\ quit.from = "running" /\ quit'.at = "done" /\ quit'.from = "running"
    BY <1>8 DEF QuitWritten, Types, LaunchTypes
  <2>2. ~hurt => Landed(Pair(now, now))
    BY <2>1, ProgressEnds DEF LastInv
  <2> QED BY <1>4, <1>5, <1>6, <2>1, <2>2
<1>9. CASE QuitWrite /\ kept' # kept
  <2>1. /\ slot = None /\ slot' = None /\ kept' = Kept /\ quit.from = "running"
        /\ quit'.at = "done" /\ quit'.from = "running"
        /\ guard # "replaceable" \/ Unchanged([capture |-> now, layout |-> now, seq |-> newest])
    BY <1>9 DEF QuitWrite, Types, LaunchTypes
  <2>2. last = Pair(now, now)
    BY <2>1 DEF GuardInv, Unchanged
  <2>3. last # NoPair
    BY <2>2, StoreAssumption DEF NoPair, Pair, Types, WriteTypes
  <2>4. writing = NoWrite /\ slot # "quit"
    BY <2>1, HolderAssumption DEF LastInv
  <2>5. ~hurt => Landed(Pair(now, now))
    BY <1>0, <2>2, <2>3, <2>4 DEF LastInv
  <2> QED BY <1>4, <1>5, <1>6, <2>1, <2>5
<1> QED BY <1>7, <1>8, <1>9

LEMMA KeptKept ==
    ASSUME Types, StoreInv, PhaseInv, QuitInv, GuardInv, LastInv, KeptInv, [Next]_vars
    PROVE  KeptInv'
<1>0. /\ up \in {"down", "launch", "up"}
      /\ up = "launch" <=> slot = "launch"
      /\ slot = None => script = <<>>
      /\ up # "up" => quit = NoQuit /\ jobs = <<>>
  BY DEF Types, LaunchTypes, PhaseInv
<1>a. ASSUME kept' = NoPair PROVE KeptInv'
  BY <1>a DEF KeptInv
<1>b. ASSUME kept # NoPair, kept' = kept, UNCHANGED disks, slot' = None,
             up' = "down" \/ (quit'.at = "done" /\ quit'.from = "running")
      PROVE  KeptInv'
  <2>1. FilesAlone
    BY <1>b DEF FilesAlone, disks
  <2>2. Firm(kept)'
    <3>1. \A p : Firm(p) => Firm(p)'
      BY <2>1, FirmStays
    <3> QED BY <1>b, <3>1 DEF KeptInv
  <2> QED BY <1>b, <2>2 DEF KeptInv
<1>1. CASE QuitWrite \/ QuitWritten
  BY <1>1, FinalKept
<1>2. ASSUME NEW setting \in BOOLEAN, NEW unreadable \in SUBSET Files, Launch(setting, unreadable)
      PROVE  KeptInv'
  BY <1>2, <1>a DEF Launch
<1>3. CASE ~(QuitWrite \/ QuitWritten) /\ kept' = kept /\ kept = NoPair
  BY <1>3, <1>a
<1>4. CASE kept # NoPair /\ (Exit \/ Crash)
  <2>1. UNCHANGED <<disks, kept>> /\ slot' = None /\ up' = "down"
    BY <1>4 DEF Exit, Crash, Stop
  <2> QED BY <1>4, <2>1, <1>b
<1>5. CASE kept # NoPair /\ LosePower
  <2>1. Reset
    BY <1>5, LosePowerResets DEF Types
  <2>2. kept' = kept /\ slot' = None /\ up' = "down"
    BY <1>5 DEF LosePower, Stop
  <2>3. Firm(kept)'
    <3>1. \A p : Firm(p) => Firm(p)'
      BY <2>1, FirmSurvives
    <3> QED BY <1>5, <2>2, <3>1 DEF KeptInv
  <2> QED BY <2>2, <2>3 DEF KeptInv
<1>6. CASE kept # NoPair
  <2>1. /\ slot = None /\ script = <<>> /\ slot # "launch" /\ slot # "restore" /\ slot # "writer"
        /\ slot # "quit" /\ up # "launch"
        /\ \/ up = "down" /\ quit = NoQuit /\ jobs = <<>>
           \/ up = "up" /\ quit.at = "done" /\ quit.from = "running" /\ quit # NoQuit
    BY <1>6, <1>0, HolderAssumption DEF KeptInv, NoQuit, QuitInv
  <2>2. ~(StoreStep \/ StoreFault \/ LaunchCall \/ LaunchDone \/ Marked \/ WriterDone
          \/ QuitWritten \/ Quit \/ RestoreNotStarted)
    BY <2>1 DEF StoreStep, Step, StoreFault, Fault, LaunchCall, LaunchDone, Marked,
           WriterDone, QuitWritten, Quit, RestoreNotStarted
  <2>3. ~QuitWrite
    BY <2>1 DEF QuitWrite, NoQuit
  <2>4. \A s \in Structures : ~Change(s)
    BY <2>1 DEF Change
  <2>5. \A on \in BOOLEAN : ~SetEnabled(on)
    BY <2>1 DEF SetEnabled
  <2>6. CASE UNCHANGED <<kept, disks, slot, up, quit>>
    BY <1>6, <1>b, <2>1, <2>6
  <2>7. UNCHANGED vars => UNCHANGED <<kept, disks, slot, up, quit>>
    BY DEF vars, storeVars, history, slotVars, program
  <2>8. MarkAttempt => UNCHANGED <<kept, disks, slot, up, quit>>
    BY <2>1 DEF MarkAttempt, history
  <2>9. Settle \/ SettleClear \/ SettleRemove \/ SettleMove \/ TakeCheckpoint \/ RestoreFails
        => UNCHANGED <<kept, disks, slot, up, quit>>
    BY DEF Settle, SettleClear, SettleRemove, Settling, SettleMove, TakeCheckpoint, RestoreFails,
           storeVars, history, slotVars
  <2>10. /\ \A c \in captures : CaptureRuntime(c) \/ Checkpoint(c)
                => UNCHANGED <<kept, disks, slot, up, quit>>
         /\ \A c \in sending : SendCheckpoint(c) => UNCHANGED <<kept, disks, slot, up, quit>>
    BY DEF CaptureRuntime, Checkpoint, SendCheckpoint, storeVars, history, slotVars
  <2>11. Writer => UNCHANGED <<kept, disks, slot, up, quit>>
    <3> SUFFICES ASSUME Writer PROVE UNCHANGED <<kept, disks, slot, up, quit>>
      OBVIOUS
    <3>1. jobs # <<>> /\ UNCHANGED <<kept, disks, up>>
      BY DEF Writer
    <3>2. Head(jobs) = jobs[1] /\ 1 \in 1..Len(jobs)
      BY <3>1 DEF Types, WriteTypes
    <3>3. Head(jobs).job = "save" /\ state = "final"
      BY <2>1, <3>1, <3>2 DEF QuitInv, Late, PhaseInv
    <3>4. WriteCheckpoint(Head(jobs).write) /\ quit' = quit
      BY <3>3 DEF Writer
    <3>5. slot' = slot
      BY <3>3, <3>4 DEF WriteCheckpoint, StillWanted
    <3> QED BY <3>1, <3>4, <3>5
  <2> QED
    BY <1>2, <1>4, <1>5, <1>6, <2>2, <2>3, <2>4, <2>5, <2>6, <2>7, <2>8, <2>9, <2>10, <2>11
       DEF Next, Working
<1>7. CASE kept = NoPair /\ kept' # kept
  <2>1. ~(StoreStep \/ StoreFault \/ LaunchCall \/ LaunchDone \/ MarkAttempt \/ Marked)
    BY <1>7 DEF StoreStep, StoreFault, LaunchCall, LaunchDone, MarkAttempt, Marked, history
  <2>2. ~(Settle \/ SettleClear \/ SettleRemove \/ SettleMove \/ TakeCheckpoint
          \/ RestoreNotStarted \/ RestoreFails)
    BY <1>7 DEF Settle, SettleClear, SettleRemove, Settling, SettleMove, TakeCheckpoint,
           RestoreNotStarted, RestoreFails, history
  <2>3. /\ \A c \in captures : ~(CaptureRuntime(c) \/ Checkpoint(c))
        /\ \A c \in sending : ~SendCheckpoint(c)
    BY <1>7 DEF CaptureRuntime, Checkpoint, SendCheckpoint, history
  <2>4. /\ \A s \in Structures : ~Change(s)
        /\ \A on \in BOOLEAN : ~SetEnabled(on)
    BY <1>7 DEF Change, SetEnabled, history
  <2>5. ~(Writer \/ WriterDone \/ Quit \/ UNCHANGED vars)
    BY <1>7 DEF Writer, WriterDone, Quit, history, vars
  <2>6. ~(Exit \/ Crash \/ LosePower)
    BY <1>7 DEF Exit, Crash, LosePower, Stop
  <2> QED BY <1>1, <1>2, <2>1, <2>2, <2>3, <2>4, <2>5, <2>6 DEF Next, Working
<1> QED BY <1>1, <1>3, <1>6, <1>7

-----------------------------------------------------------------------------
(* What the setting deleted stays away.                                    *)

Erasers == [op : {"unlink", "sync", "replaceable", "forget"}, file : Files, content : {Absent}]

Gone(f) == ~Present(f) \/ (f = "desktop" /\ keepDesktop)

Unlinks(steps, f) == \E i \in 1..Len(steps) : steps[i] = Unlink(f)

(* What is left of a removal leaves no file behind.                         *)
Erasing ==
    /\ script \in Seq(Erasers)
    /\ \A f \in Files : Gone(f) \/ Unlinks(script, f)

(* Saving is off, or a restore with the setting off is about to end so.     *)
Offing == Off \/ (state = "bootstrapping" /\ restore = "move" /\ SettleTo = "off")

NoRemoval == \A i \in 1..Len(jobs) : jobs[i].job # "remove"

OffInv ==
    /\ up = "up" /\ Offing /\ ~blocked /\ ~hurt /\ NoRemoval => Erasing
    /\ up = "launch" /\ ~launch.setting /\ ~blocked /\ ~hurt =>
          IF launch.calls = <<>> THEN Erasing
          ELSE launch.calls[Len(launch.calls)].op = "remove"

LEMMA ConcatUnlinks ==
    ASSUME NEW S, NEW s \in Seq(S), NEW t \in Seq(S), NEW f, Unlinks(s, f) \/ Unlinks(t, f)
    PROVE  Unlinks(s \o t, f)
<1>0. /\ Len(s) \in Nat /\ Len(t) \in Nat /\ Len(s \o t) = Len(s) + Len(t)
      /\ \A i \in 1..(Len(s) + Len(t)) :
            (s \o t)[i] = IF i <= Len(s) THEN s[i] ELSE t[i - Len(s)]
  BY ConcatProperties
<1>1. ASSUME NEW i \in 1..Len(s), s[i] = Unlink(f) PROVE Unlinks(s \o t, f)
  <2>1. i \in 1..Len(s \o t) /\ (s \o t)[i] = Unlink(f)
    BY <1>0, <1>1
  <2> QED BY <2>1 DEF Unlinks
<1>2. ASSUME NEW i \in 1..Len(t), t[i] = Unlink(f) PROVE Unlinks(s \o t, f)
  <2>1. Len(s) + i \in 1..Len(s \o t) /\ (s \o t)[Len(s) + i] = Unlink(f)
    BY <1>0, <1>2
  <2> QED BY <2>1 DEF Unlinks
<1> QED BY <1>1, <1>2 DEF Unlinks

LEMMA ConcatLast ==
    ASSUME NEW S, NEW s \in Seq(S), NEW t \in Seq(S), t # <<>>
    PROVE  s \o t # <<>> /\ (s \o t)[Len(s \o t)] = t[Len(t)]
<1>1. /\ Len(s) \in Nat /\ Len(t) \in Nat /\ Len(t) # 0 /\ Len(s \o t) = Len(s) + Len(t)
      /\ \A i \in 1..(Len(s) + Len(t)) :
            (s \o t)[i] = IF i <= Len(s) THEN s[i] ELSE t[i - Len(s)]
  BY ConcatProperties, EmptySeq
<1>2. (s \o t)[Len(s \o t)] = t[Len(t)]
  BY <1>1
<1>3. s \o t # <<>>
  BY <1>1, EmptySeq
<1> QED BY <1>2, <1>3

LEMMA RemovalErases ==
    ASSUME guard = "replaceable"
    PROVE  /\ RemoveScript \in Seq(Erasers)
           /\ \A f \in Files : Gone(f) \/ Unlinks(RemoveScript, f)
<1> DEFINE r == Removal("runtime")
           d == Removal("desktop")
           m == Removal("marker")
           a == r \o d \o m
           b == IF guard = "replaceable" THEN <<Do("forget")>> ELSE <<>>
           c == IF a # <<>> THEN <<Do("sync")>> ELSE <<>>
<1>1. \A f \in Files : Unlink(f) \in Erasers
  BY DEF Erasers, Unlink
<1>2. \A op \in {"sync", "forget"} : Do(op) \in Erasers
  BY DEF Erasers, Do, Files
<1>3. r \in Seq(Erasers) /\ d \in Seq(Erasers) /\ m \in Seq(Erasers)
  BY <1>1, ShortSequences DEF Removal, Files
<1>4. r \o d \in Seq(Erasers) /\ a \in Seq(Erasers)
  BY <1>3, ConcatProperties
<1>5. b \in Seq(Erasers) /\ c \in Seq(Erasers)
  BY <1>2, ShortSequences
<1>6. a \o b \in Seq(Erasers) /\ RemoveScript = a \o b \o c
  BY <1>4, <1>5, ConcatProperties DEF RemoveScript
<1>7. RemoveScript \in Seq(Erasers)
  BY <1>5, <1>6, ConcatProperties
<1>8. \A f \in Files : Gone(f) \/ Unlinks(Removal(f), f)
  <2> SUFFICES ASSUME NEW f \in Files, ~Gone(f) PROVE Unlinks(Removal(f), f)
    OBVIOUS
  <2>1. Removable(f) /\ Present(f)
    BY DEF Removable, Gone, Files
  <2>2. Removal(f) = <<Unlink(f)>>
    BY <2>1 DEF Removal
  <2> QED BY <2>2 DEF Unlinks
<1>9. ASSUME NEW f \in Files, Unlinks(Removal(f), f) PROVE Unlinks(RemoveScript, f)
  <2>1. Unlinks(a, f)
    <3>1. f \in {"runtime", "desktop"} => Unlinks(r \o d, f)
      BY <1>3, <1>9, ConcatUnlinks
    <3> QED BY <1>3, <1>4, <1>9, <3>1, ConcatUnlinks DEF Files
  <2> HIDE DEF a, b, c
  <2>2. Unlinks(a \o b, f)
    BY <1>4, <1>5, <2>1, ConcatUnlinks
  <2>3. Unlinks(a \o b \o c, f)
    BY <1>5, <1>6, <2>2, ConcatUnlinks
  <2> QED BY <1>6, <2>3
<1> QED BY <1>7, <1>8, <1>9

LEMMA EraseStep ==
    ASSUME StoreInv, Step, Erasing
    PROVE  Erasing'
<1> DEFINE step == Head(script)
<1>1. StepOn(step, Tail(script)) /\ script # <<>> /\ script' = Tail(script)
  BY DEF Step, StepOn
<1>2. /\ step \in Erasers /\ Tail(script) \in Seq(Erasers)
      /\ Len(Tail(script)) = Len(script) - 1 /\ Len(script) \in Nat
      /\ \A i \in 1..Len(Tail(script)) : Tail(script)[i] = script[i + 1]
      /\ step = script[1]
  BY <1>1, HeadTailProperties DEF Erasing
<1>3. ASSUME NEW f \in Files, step # Unlink(f), Gone(f) => Gone(f)'
      PROVE  Gone(f)' \/ Unlinks(script', f)
  <2> SUFFICES ASSUME Unlinks(script, f) PROVE Unlinks(script', f)
    BY <1>3 DEF Erasing
  <2>1. PICK i \in 1..Len(script) : script[i] = Unlink(f)
    BY DEF Unlinks
  <2>2. i # 1
    BY <1>2, <1>3, <2>1
  <2>3. i - 1 \in 1..Len(script') /\ script'[i - 1] = Unlink(f)
    BY <1>1, <1>2, <2>1, <2>2
  <2> QED BY <2>3 DEF Unlinks
<1>4. CASE step.op = "unlink"
  <2>1. step.file \in Files /\ step = Unlink(step.file)
    BY <1>2, <1>4 DEF Erasers, Unlink
  <2>2. Write(step.file, Absent) /\ UNCHANGED keepDesktop
    BY <1>1, <2>1, StepWrites
  <2>3. disk \in [Files -> Contents]
    BY DEF StoreInv, StoreTypes
  <2>4. ASSUME NEW f \in Files PROVE Gone(f)' \/ Unlinks(script', f)
    <3>1. CASE f = step.file
      <4>1. disk'[f] = Absent
        BY <2>1, <2>2, <2>3, <3>1 DEF Write
      <4> QED BY <4>1 DEF Gone, Present, Absent, Content
    <3>2. CASE f # step.file
      <4>1. disk'[f] = disk[f]
        BY <2>1, <2>2, <2>3, <3>2 DEF Write
      <4>2. Gone(f) => Gone(f)'
        BY <2>2, <4>1 DEF Gone, Present
      <4>3. step # Unlink(f)
        BY <3>2 DEF Unlink
      <4> QED BY <1>3, <4>2, <4>3
    <3> QED BY <3>1, <3>2
  <2> QED BY <1>1, <1>2, <2>4 DEF Erasing
<1>5. CASE step.op # "unlink"
  <2>1. step.op \in {"sync", "replaceable", "forget"}
    BY <1>2, <1>5 DEF Erasers
  <2>2. UNCHANGED <<disk, keepDesktop>>
    BY <1>1, <2>1 DEF StepOn, memory, disks
  <2>3. ASSUME NEW f \in Files PROVE Gone(f)' \/ Unlinks(script', f)
    <3>1. Gone(f) => Gone(f)'
      BY <2>2 DEF Gone, Present
    <3>2. step # Unlink(f)
      BY <1>5 DEF Unlink
    <3> QED BY <1>3, <3>1, <3>2
  <2> QED BY <1>1, <1>2, <2>3 DEF Erasing
<1> QED BY <1>4, <1>5

(* A launch with the setting off ends with the removal.                     *)
LEMMA CallsRemove ==
    ASSUME NEW runtime, NEW layout, NEW crashed \in BOOLEAN,
           runtime \notin {"newer", "unreadable"}
    PROVE  LET calls == LaunchCalls(runtime, layout, crashed, FALSE) IN
           calls # <<>> /\ calls[Len(calls)] = Call("remove", FALSE)
<1> DEFINE Ends(s) == s # <<>> /\ s[Len(s)] = Call("remove", FALSE)
<1>1. \A op \in {"runtime", "desktop", "clear", "remove"}, must \in BOOLEAN : Call(op, must) \in Calls
  BY DEF Call, Calls
<1>2. /\ <<Call("remove", FALSE)>> \in Seq(Calls) /\ <<Call("runtime", TRUE)>> \in Seq(Calls)
      /\ CorruptLayout(layout) \in Seq(Calls)
      /\ (IF crashed THEN <<Call("clear", FALSE)>> ELSE <<>>) \in Seq(Calls)
  BY <1>1, ShortSequences DEF CorruptLayout
<1>3. Ends(<<Call("remove", FALSE)>>)
  OBVIOUS
<1> HIDE DEF Ends
<1>4. ASSUME NEW s \in Seq(Calls), NEW t \in Seq(Calls), Ends(t) PROVE Ends(s \o t)
  BY <1>4, ConcatLast DEF Ends
<1>5. Ends(Remaining(crashed, FALSE)) /\ Remaining(crashed, FALSE) \in Seq(Calls)
  <2>1. Remaining(crashed, FALSE) =
            (IF crashed THEN <<Call("clear", FALSE)>> ELSE <<>>) \o <<Call("remove", FALSE)>>
    BY DEF Remaining
  <2> QED BY <1>2, <1>3, <1>4, <2>1, ConcatProperties
<1>6. /\ Ends(<<Call("runtime", TRUE)>> \o Remaining(crashed, FALSE))
      /\ Ends(CorruptLayout(layout) \o Remaining(crashed, FALSE))
      /\ Ends(CorruptLayout(layout) \o <<Call("remove", FALSE)>>)
  BY <1>2, <1>3, <1>4, <1>5
<1>7. LaunchCalls(runtime, layout, crashed, FALSE) \in
          {<<Call("runtime", TRUE)>> \o Remaining(crashed, FALSE),
           CorruptLayout(layout) \o Remaining(crashed, FALSE),
           CorruptLayout(layout) \o <<Call("remove", FALSE)>>}
  BY DEF LaunchCalls
<1>8. Ends(LaunchCalls(runtime, layout, crashed, FALSE))
  BY <1>6, <1>7
<1> QED BY <1>8 DEF Ends

(* The program's steps other than the launch's, the writer's and a script's. *)
LEMMA OffStays ==
    ASSUME OffInv, up = "up", up' = "up", UNCHANGED <<disk, keepDesktop, script>>,
           Offing' /\ ~blocked' /\ ~hurt' /\ NoRemoval' => Offing /\ ~blocked /\ ~hurt /\ NoRemoval
    PROVE  OffInv'
<1>1. Erasing => Erasing'
  BY DEF Erasing, Gone, Present
<1> QED BY <1>1 DEF OffInv

LEMMA JobSent ==
    ASSUME Types, NEW j, jobs' = Append(jobs, j)
    PROVE  (NoRemoval' => NoRemoval) /\ (j.job = "remove" => ~NoRemoval')
<1>1. /\ Len(jobs') = Len(jobs) + 1 /\ jobs'[Len(jobs) + 1] = j /\ Len(jobs) \in Nat
      /\ \A i \in 1..Len(jobs) : jobs'[i] = jobs[i]
  BY DEF Types, WriteTypes
<1>2. \A i \in 1..Len(jobs) : i \in 1..Len(jobs')
  BY <1>1
<1>3. Len(jobs) + 1 \in 1..Len(jobs')
  BY <1>1
<1> QED BY <1>1, <1>2, <1>3 DEF NoRemoval

LEMMA WriterOff ==
    ASSUME Types, StoreInv, PhaseInv, GuardInv, OffInv, Writer
    PROVE  OffInv'
<1>0. /\ up = "up" /\ up' = up /\ jobs # <<>> /\ jobs' = Tail(jobs) /\ slot = None /\ script = <<>>
      /\ UNCHANGED <<disk, guard, keepDesktop, blocked, hurt, state, restore, enabled>>
      /\ quit'.from = quit.from
  BY HolderAssumption DEF Writer, disks, memory, Types, LaunchTypes, PhaseInv
<1>1. Offing' => Offing
  BY <1>0 DEF Offing, Off, SettleTo
<1>2. /\ Head(jobs) = jobs[1] /\ 1 \in 1..Len(jobs) /\ Len(jobs) \in Nat
      /\ Len(jobs') = Len(jobs) - 1
      /\ \A i \in 1..Len(jobs') : jobs'[i] = jobs[i + 1]
      /\ Head(jobs) \in Jobs
  BY <1>0 DEF Types, WriteTypes
<1>3. Head(jobs).job # "remove" /\ NoRemoval' => NoRemoval
  <2> SUFFICES ASSUME Head(jobs).job # "remove", NoRemoval', NEW i \in 1..Len(jobs)
               PROVE  jobs[i].job # "remove"
    BY DEF NoRemoval
  <2>1. CASE i = 1
    BY <1>2, <2>1
  <2>2. CASE i # 1
    <3>1. i - 1 \in 1..Len(jobs') /\ jobs'[i - 1] = jobs[i]
      BY <1>2, <2>2
    <3> QED BY <3>1 DEF NoRemoval
  <2> QED BY <2>1, <2>2
<1> SUFFICES ASSUME Offing', ~blocked', ~hurt', NoRemoval' PROVE Erasing'
  BY <1>0 DEF OffInv
<1>4. CASE Head(jobs).job = "remove"
  <2>1. script' = RemoveScript /\ guard = "replaceable"
    BY <1>0, <1>4 DEF Writer, Begin, GuardInv
  <2>2. \A f \in Files : Gone(f) => Gone(f)'
    BY <1>0 DEF Gone, Present
  <2> QED BY <2>1, <2>2, RemovalErases DEF Erasing
<1>5. CASE Head(jobs).job # "remove"
  <2>1. \A f \in Files : Gone(f)
    BY <1>0, <1>1, <1>3, <1>5 DEF OffInv, Erasing, Unlinks
  <2>2. \A f \in Files : Gone(f)'
    BY <1>0, <2>1 DEF Gone, Present
  <2>3. script' = <<>>
    <3>1. CASE Head(jobs).job = "save"
      <4>1. WriteCheckpoint(Head(jobs).write)
        BY <1>0, <3>1 DEF Writer
      <4>2. ~StillWanted
        BY <1>0 DEF StillWanted, Offing, Off
      <4> QED BY <1>0, <4>1, <4>2 DEF WriteCheckpoint, operation
    <3>2. CASE Head(jobs).job = "barrier"
      BY <1>0, <3>2 DEF Writer, operation
    <3>3. CASE Head(jobs).job = "clear"
      <4>1. script' = ClearScript
        BY <3>3 DEF Writer, Begin
      <4>2. ~Present("marker")
        BY <2>1 DEF Gone, Files
      <4> QED BY <4>1, <4>2 DEF ClearScript
    <3> QED BY <1>2, <1>5, <3>1, <3>2, <3>3 DEF Jobs
  <2>4. script' \in Seq(Erasers)
    BY <2>3
  <2> QED BY <2>2, <2>4 DEF Erasing
<1> QED BY <1>4, <1>5

LEMMA LaunchOff ==
    ASSUME Types, NEW setting \in BOOLEAN, NEW unreadable \in SUBSET Files,
           Launch(setting, unreadable)
    PROVE  OffInv'
<1> DEFINE seen(f) == IF f \in unreadable /\ Present(f) THEN "unreadable" ELSE disk[f].kind
           crashed == Present("marker")
           unknown == "marker" \in unreadable
           calls == LaunchCalls(seen("runtime"), seen("desktop"), crashed, setting)
<1>1. /\ up' = "launch"
      /\ blocked' = (unknown \/ seen("runtime") \in {"newer", "unreadable"})
      /\ launch'.setting = setting
      /\ launch'.calls = IF unknown THEN <<>> ELSE calls
  BY DEF Launch, NoLaunch
<1>2. ASSUME ~setting, ~blocked'
      PROVE  launch'.calls # <<>> /\ launch'.calls[Len(launch'.calls)].op = "remove"
  <2>1. setting = FALSE /\ ~unknown /\ seen("runtime") \notin {"newer", "unreadable"}
    BY <1>1, <1>2
  <2>2. crashed \in BOOLEAN
    BY DEF Present
  <2>3. calls # <<>> /\ calls[Len(calls)] = Call("remove", FALSE)
    <3> HIDE DEF seen, crashed
    <3> QED BY <2>1, <2>2, CallsRemove
  <2>4. launch'.calls = calls
    BY <1>1, <2>1
  <2> HIDE DEF calls
  <2> QED BY <2>3, <2>4 DEF Call
<1> QED BY <1>1, <1>2 DEF OffInv

LEMMA LaunchCallOff ==
    ASSUME Types, GuardInv, LastInv, OffInv, LaunchCall
    PROVE  OffInv'
<1>1. /\ up = "launch" /\ up' = "launch" /\ script = <<>> /\ launch.calls # <<>>
      /\ UNCHANGED <<disk, guard, keepDesktop, blocked, hurt>>
      /\ launch' = [launch EXCEPT !.calls = Tail(@), !.must = Head(launch.calls).must]
  BY DEF LaunchCall, disks, memory, owner
<1>2. launch'.setting = launch.setting /\ launch'.calls = Tail(launch.calls)
  BY <1>1 DEF Types, LaunchTypes
<1>3. /\ Len(launch.calls) \in Nat /\ Len(launch'.calls) = Len(launch.calls) - 1
      /\ \A i \in 1..Len(launch'.calls) : launch'.calls[i] = launch.calls[i + 1]
      /\ Head(launch.calls) = launch.calls[1]
  BY <1>1, <1>2, HeadTailProperties DEF Types, LaunchTypes
<1> SUFFICES ASSUME ~launch.setting, ~blocked, ~hurt
             PROVE  IF launch'.calls = <<>> THEN Erasing'
                    ELSE launch'.calls[Len(launch'.calls)].op = "remove"
  BY <1>1, <1>2 DEF OffInv
<1>4. launch.calls[Len(launch.calls)].op = "remove"
  BY <1>1 DEF OffInv
<1>5. CASE launch'.calls = <<>>
  <2>1. Head(launch.calls).op = "remove"
    BY <1>3, <1>4, <1>5
  <2>2. script' = RemoveScript
    BY <2>1 DEF LaunchCall, Begin
  <2>3. ~failed /\ ~SettingAside
    BY <1>1 DEF LastInv, SettingAside
  <2>4. guard = "replaceable"
    BY <1>1, <2>1, <2>3 DEF GuardInv, Call
  <2>5. \A f \in Files : Gone(f) => Gone(f)'
    BY <1>1 DEF Gone, Present
  <2> QED BY <1>5, <2>2, <2>4, <2>5, RemovalErases DEF Erasing
<1>6. CASE launch'.calls # <<>>
  <2>1. Len(launch'.calls) \in 1..Len(launch'.calls)
    <3>1. launch'.calls \in Seq(Calls)
      BY <1>1, <1>2, HeadTailProperties DEF Types, LaunchTypes
    <3> QED BY <1>6, <3>1
  <2>2. launch'.calls[Len(launch'.calls)] = launch.calls[Len(launch.calls)]
    BY <1>3, <2>1
  <2> QED BY <1>4, <1>6, <2>2
<1> QED BY <1>5, <1>6

LEMMA LaunchDoneOff ==
    ASSUME Types, PhaseInv, LastInv, OffInv, LaunchDone
    PROVE  OffInv'
<1>1. /\ up = "launch" /\ up' = "up" /\ script = <<>> /\ UNCHANGED <<disk, keepDesktop, script, hurt, quit>>
      /\ launch.calls = <<>> \/ MustFailed
      /\ blocked' = (blocked \/ MustFailed)
      /\ state' = IF blocked' \/ ~launch.setting THEN "off"
                  ELSE IF saved # Absent THEN "bootstrapping" ELSE "running"
      /\ restore' = IF state' = "bootstrapping" THEN "start" ELSE "none"
  BY DEF LaunchDone, storeVars, disks, memory, operation, history
<1> SUFFICES ASSUME Offing', ~blocked', ~hurt' PROVE Erasing'
  BY <1>1 DEF OffInv
<1>2. ~launch.setting
  BY <1>1 DEF Offing, Off
<1>3. Erasing
  BY <1>1, <1>2 DEF OffInv
<1> QED BY <1>1, <1>3 DEF Erasing, Gone, Present

LEMMA OffKept ==
    ASSUME Types, StoreInv, PhaseInv, QuitInv, GuardInv, LastInv, OffInv, [Next]_vars
    PROVE  OffInv'
<1>0. /\ up \in {"down", "launch", "up"}
      /\ up = "launch" <=> slot = "launch"
      /\ up # "up" => quit = NoQuit /\ restore = "none" /\ captures = {} /\ sending = {} /\ jobs = <<>>
      /\ quit # NoQuit => state = "final"
  BY DEF Types, LaunchTypes, PhaseInv
<1>1. CASE UNCHANGED vars
  <2>1. UNCHANGED <<up, launch, disk, keepDesktop, script, state, quit, blocked, enabled, restore,
                    jobs, hurt>>
    BY <1>1 DEF vars, storeVars, disks, memory, operation, owner, program, history
  <2>2. Erasing' <=> Erasing
    BY <2>1 DEF Erasing, Gone, Present
  <2> QED BY <2>1, <2>2 DEF OffInv, Offing, Off, SettleTo, NoRemoval
<1>2. CASE StoreStep
  <2>1. /\ Step
        /\ UNCHANGED <<up, launch, state, quit, blocked, enabled, restore, jobs, hurt>>
    BY <1>2 DEF StoreStep, owner, program, history
  <2>2. Erasing => Erasing'
    BY <2>1, EraseStep
  <2> QED BY <2>1, <2>2 DEF OffInv, Offing, Off, SettleTo, NoRemoval
<1>3. CASE StoreFault
  BY <1>3 DEF StoreFault, OffInv
<1>4. CASE LaunchCall
  BY <1>4, LaunchCallOff
<1>5. CASE LaunchDone
  BY <1>5, LaunchDoneOff
<1>6. CASE MarkAttempt
  <2>1. /\ up = "up" /\ up' = up /\ UNCHANGED <<disk, keepDesktop, state, quit, blocked, hurt, jobs>>
        /\ UNCHANGED script \/ (state = "bootstrapping" /\ restore' = "mark")
        /\ restore' # "move"
    BY <1>6 DEF MarkAttempt, disks, memory, operation, owner, history
  <2>2. Offing' => Off /\ state # "bootstrapping"
    BY <2>1 DEF Offing, Off
  <2>3. CASE state = "bootstrapping"
    BY <2>1, <2>2, <2>3 DEF OffInv
  <2>4. CASE state # "bootstrapping"
    BY <2>1, <2>2, <2>4, OffStays DEF Offing, NoRemoval
  <2> QED BY <2>3, <2>4
<1>7. CASE Marked
  <2>1. /\ up = "up" /\ up' = up /\ UNCHANGED <<disk, keepDesktop, script, state, quit, blocked, hurt, jobs>>
        /\ restore' = "spawn"
    BY <1>7, <1>0, HolderAssumption
       DEF Marked, storeVars, disks, memory, operation, owner, history, Types, LaunchTypes, PhaseInv
  <2> QED BY <2>1, OffStays DEF Offing, Off, NoRemoval
<1>8. CASE RestoreNotStarted \/ RestoreFails
  <2>1. /\ up = "up" /\ up' = up /\ UNCHANGED <<disk, keepDesktop, script, quit, hurt, jobs>>
        /\ Suspend \/ UNCHANGED <<blocked, state>>
        /\ restore' = "none"
    BY <1>8 DEF RestoreNotStarted, RestoreFails, storeVars, disks, memory, operation, history
  <2>2. CASE Suspend
    BY <2>1, <2>2 DEF Suspend, OffInv
  <2>3. CASE UNCHANGED <<blocked, state>>
    BY <2>1, <2>3, OffStays DEF Offing, Off, NoRemoval
  <2> QED BY <2>1, <2>2, <2>3
<1>9. CASE Settle
  <2>1. /\ up = "up" /\ up' = up /\ UNCHANGED <<disk, keepDesktop, script, state, quit, blocked, hurt, jobs>>
        /\ restore' # "move"
    BY <1>9 DEF Settle, storeVars, disks, memory, operation, owner
  <2> QED BY <2>1, OffStays DEF Offing, Off, NoRemoval
<1>10. ASSUME NEW kind, NEW at, NEW next, Settling(at, kind, next), at # "none",
              kind = "remove" \/ next = "remove" \/ SettleTo # "off" \/ blocked
       PROVE  OffInv'
  <2>1. /\ up = "up" /\ up' = up
        /\ UNCHANGED <<disk, keepDesktop, script, state, quit, blocked, enabled, hurt>>
        /\ jobs' = Append(jobs, Job(kind)) /\ restore' = next
    BY <1>10, <1>0 DEF Settling, Send, storeVars, disks, memory, operation, history
  <2>2. (NoRemoval' => NoRemoval) /\ (kind = "remove" => ~NoRemoval')
    BY <2>1, JobSent DEF Job
  <2>3. Offing' /\ ~blocked' => Off \/ (SettleTo = "off" /\ next = "move")
    BY <2>1 DEF Offing, Off, SettleTo
  <2>4. Offing' /\ ~blocked' /\ NoRemoval' => Off
    BY <1>10, <2>1, <2>2, <2>3
  <2> QED BY <2>1, <2>2, <2>4, OffStays DEF Offing
<1>11. CASE SettleClear
  <2>1. Settling("clear", "clear", IF SettleTo = "off" /\ ~blocked THEN "remove" ELSE "move")
    BY <1>11 DEF SettleClear
  <2> QED BY <1>10, <2>1
<1>12. CASE SettleRemove
  BY <1>10, <1>12 DEF SettleRemove
<1>13. CASE SettleMove
  <2>1. /\ up = "up" /\ up' = up
        /\ UNCHANGED <<disk, keepDesktop, script, quit, blocked, hurt, jobs>>
        /\ restore = "move" /\ restore' = "none"
        /\ IF state = "bootstrapping" THEN state' = SettleTo ELSE state' = state
    BY <1>13, <1>0 DEF SettleMove, storeVars, disks, memory, operation, history
  <2>2. Offing' => Offing
    BY <2>1 DEF Offing, Off, SettleTo
  <2> QED BY <2>1, <2>2, OffStays DEF NoRemoval
<1>14. ASSUME up = "up", up' = "up",
              UNCHANGED <<disk, keepDesktop, script, state, quit, blocked, enabled, restore, hurt>>,
              NoRemoval' => NoRemoval
       PROVE  OffInv'
  BY <1>14, OffStays DEF Offing, Off, SettleTo
<1>15. CASE TakeCheckpoint
  <2>1. up = "up" /\ up' = up /\ UNCHANGED <<disk, keepDesktop, script, state, quit, blocked,
                                            enabled, restore, hurt, jobs>>
    BY <1>15 DEF TakeCheckpoint, storeVars, disks, memory, operation, history
  <2> QED BY <2>1, <1>14 DEF NoRemoval
<1>16. ASSUME NEW c \in captures, CaptureRuntime(c) \/ Checkpoint(c) PROVE OffInv'
  <2>1. up = "up" /\ up' = up /\ UNCHANGED <<disk, keepDesktop, script, state, quit, blocked,
                                            enabled, restore, hurt, jobs>>
    BY <1>16, <1>0 DEF CaptureRuntime, Checkpoint, storeVars, disks, memory, operation, owner, history
  <2> QED BY <2>1, <1>14 DEF NoRemoval
<1>17. ASSUME NEW c \in sending, SendCheckpoint(c) PROVE OffInv'
  <2>1. up = "up" /\ up' = up /\ UNCHANGED <<disk, keepDesktop, script, state, quit, blocked,
                                            enabled, restore, hurt>>
        /\ \E j : jobs' = Append(jobs, j)
    BY <1>17, <1>0 DEF SendCheckpoint, Send, storeVars, disks, memory, operation, history
  <2>2. NoRemoval' => NoRemoval
    BY <2>1, JobSent
  <2> QED BY <2>1, <2>2, <1>14
<1>18. ASSUME NEW s \in Structures, Change(s) PROVE OffInv'
  <2>1. up = "up" /\ up' = up /\ UNCHANGED <<disk, keepDesktop, script, state, quit, blocked,
                                            enabled, restore, hurt, jobs>>
    BY <1>18 DEF Change, storeVars, disks, memory, operation, owner, history
  <2> QED BY <2>1, <1>14 DEF NoRemoval
<1>19. ASSUME NEW on \in BOOLEAN, SetEnabled(on) PROVE OffInv'
  <2>1. /\ up = "up" /\ up' = up
        /\ UNCHANGED <<disk, keepDesktop, script, quit, blocked, restore, hurt>>
        /\ quit = NoQuit /\ restore # "move"
        /\ \/ state = "bootstrapping" /\ state' = state /\ jobs' = jobs
           \/ state' = "running" /\ jobs' = jobs
           \/ jobs' = Append(jobs, Job("remove"))
    BY <1>19 DEF SetEnabled, Send, storeVars, disks, memory, operation, history
  <2>2. jobs' = Append(jobs, Job("remove")) => ~NoRemoval'
    BY JobSent DEF Job
  <2>3. ~Offing' \/ ~NoRemoval'
    BY <2>1, <2>2 DEF Offing, Off
  <2> QED BY <2>1, <2>3 DEF OffInv
<1>20. CASE Writer
  BY <1>20, WriterOff
<1>21. CASE WriterDone
  <2>1. slot = "writer" /\ UNCHANGED <<up, disk, keepDesktop, script, state, quit, blocked,
                                      enabled, restore, hurt, jobs>>
    BY <1>21 DEF WriterDone, storeVars, disks, memory, operation, owner, program, history
  <2>2. up = "up"
    BY <2>1, <1>0, HolderAssumption DEF Types, Resting
  <2> QED BY <2>1, <2>2, <1>14 DEF NoRemoval
<1>22. CASE Quit
  <2>1. /\ up = "up" /\ up' = up
        /\ UNCHANGED <<disk, keepDesktop, script, blocked, hurt>>
        /\ state' = "final" /\ quit'.from = state /\ jobs' = Append(jobs, Job("barrier"))
    BY <1>22 DEF Quit, Send, storeVars, disks, memory, operation, history
  <2>2. Offing' => Offing
    BY <2>1 DEF Offing, Off
  <2>3. NoRemoval' => NoRemoval
    BY <2>1, JobSent
  <2> QED BY <2>1, <2>2, <2>3, OffStays
<1>23. CASE QuitWrite \/ QuitWritten
  <2>1. quit.at = "write" /\ quit # NoQuit /\ up = "up"
    BY <1>23, <1>0 DEF QuitWrite, QuitWritten, QuitInv, NoQuit
  <2>2. /\ UNCHANGED <<up, disk, keepDesktop, state, blocked, enabled, restore, hurt, jobs>>
        /\ quit'.from = quit.from
        /\ quit.from = "off" => UNCHANGED script
    BY <1>23 DEF QuitWrite, QuitWritten, storeVars, disks, memory, operation, owner, Types, LaunchTypes
  <2>3. state = "final" /\ (Offing' => Offing /\ quit.from = "off")
    BY <1>0, <2>1, <2>2 DEF Offing, Off
  <2>4. CASE quit.from = "off"
    BY <2>1, <2>2, <2>3, <2>4, OffStays DEF NoRemoval
  <2>5. CASE quit.from # "off"
    BY <2>1, <2>2, <2>3, <2>5 DEF OffInv
  <2> QED BY <2>4, <2>5
<1>24. ASSUME NEW setting \in BOOLEAN, NEW unreadable \in SUBSET Files, Launch(setting, unreadable)
       PROVE  OffInv'
  BY <1>24, LaunchOff
<1>25. CASE Exit \/ Crash \/ LosePower
  BY <1>25 DEF Exit, Crash, LosePower, Stop, OffInv
<1> QED
  BY <1>1, <1>2, <1>3, <1>4, <1>5, <1>6, <1>7, <1>8, <1>9, <1>11, <1>12, <1>13, <1>15, <1>16,
     <1>17, <1>18, <1>19, <1>20, <1>21, <1>22, <1>23, <1>24, <1>25 DEF Next, Working

(* What ended saving has the last word (persistence.rs: finish, set_enabled, *)
(* settle, write). What Quit wrote, when nothing failed, is what the next    *)
(* launch finds: jobs queued before are waited for, and what was last        *)
(* written is on the disk for good. What the setting deleted stays away. In  *)
(* both cases the writer refuses the checkpoints queued behind.              *)
THEOREM LastWordKept == Spec => []LastWordStays
<1> DEFINE Inv == Types /\ StoreInv /\ PhaseInv /\ JobsInv /\ KeepInv /\ OffInv
<1>1. Init => Inv
  <2>1. Init => Types /\ StoreInv /\ PhaseInv /\ JobsInv
    BY TypesInitially, StoreInitially, CrashInitially
  <2>2. ASSUME Init PROVE KeepInv /\ OffInv
    <3>1. /\ up = "down" /\ quit = NoQuit /\ slot = None /\ state = "off" /\ last = NoPair
          /\ writing = NoWrite /\ hurt = FALSE /\ failed = FALSE /\ kept = NoPair
      BY <2>2 DEF Init
    <3>2. RuntimeKinds
      <4>1. disk \in LeftBehind /\ past = [f \in Files |-> {disk[f]}]
        BY <2>2 DEF Init
      <4>2. disk["runtime"].kind # "marker"
        BY <4>1 DEF LeftBehind, Absent, Content, Saved
      <4> QED BY <4>1, <4>2 DEF RuntimeKinds, Files
    <3>3. slot # "quit" /\ slot # "writer"
      BY <3>1, HolderAssumption
    <3> QED BY <3>1, <3>2, <3>3 DEF KeepInv, QuitInv, GuardInv, LastInv, KeptInv, NoQuit, OffInv
  <2> QED BY <2>1, <2>2
<1>2. Inv /\ [Next]_vars => Inv'
  BY TypesKept, StoreInvKept, PhaseKept, JobsKept, QuitKept, GuardKept, LastKept, KeptKept, OffKept
     DEF KeepInv
<1>3. Inv => QuitKeeps
  BY DEF KeepInv, KeptInv, Firm, QuitKeeps, Holds, Found
<1>4. Inv => OffLeavesNothing
  <2> SUFFICES ASSUME Types, OffInv, up = "up", Off, ~blocked, ~hurt, slot = None,
                      \A i \in DOMAIN jobs : jobs[i].job # "remove"
               PROVE  \A f \in Files : Gone(f)
    BY DEF OffLeavesNothing, Gone, Files
  <2>1. NoRemoval
    BY DEF NoRemoval, Types, WriteTypes
  <2>2. Erasing /\ script = <<>>
    BY <2>1 DEF OffInv, Offing, Types, LaunchTypes
  <2> QED BY <2>2 DEF Erasing, Unlinks
<1>5. Inv => LastWordStays
  BY <1>3, <1>4 DEF LastWordStays
<1> QED BY <1>1, <1>2, <1>5, PTL DEF Spec
=============================================================================
