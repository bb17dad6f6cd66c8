------------------------------ MODULE Viewers ------------------------------
(***************************************************************************)
(* The viewers of one terminal: handles in clients' threads that register, *)
(* send ordered requests, are dropped and are revoked at any time, and the *)
(* owner thread that reconciles its arbiter with the registry, runs the    *)
(* requests and finalizes the viewers that left.  Registry flags are       *)
(* atomics: a change is stored first and marked later, and the owner may   *)
(* run between the two.                                                    *)
(***************************************************************************)
EXTENDS Arbitration, Sequences

CONSTANTS
    ViewerLimit,     \* VIEWER_LIMIT: registered slots
    QueueCapacity,   \* MESSAGE_CAPACITY: queued requests
    MaxRequests,     \* bound: requests the viewers send in all
    MaxCalls,        \* bound: client calls under way at once
    Kinds,           \* bound: the kinds of request they send, and "initial"
                     \* if they may register with state of their own
    Surroundings     \* bound: what else happens, of "output", "backlog",
                     \* "hangup" and "stop"

ASSUME LimitAssumption ==
    /\ ViewerLimit \in Nat
    /\ QueueCapacity \in Nat
    /\ MaxRequests \in Nat
    /\ MaxCalls \in Nat

(* What a viewer may ask, in order with its input.  A press carries the   *)
(* geometry revision its coordinates were computed against, if any.        *)
Requests ==
         [viewer : Viewers, kind : {"focus"}, on : BOOLEAN]
    \cup [viewer : Viewers, kind : {"geometry"}, size : Sizes]
    \cup [viewer : Viewers, kind : {"presentation"}, look : Looks]
    \cup [viewer : Viewers, kind : {"typing", "reset"}]
    \cup [viewer : Viewers, kind : {"press"}, button : Buttons, stamp : Nat \cup {None}]
    \cup [viewer : Viewers, kind : {"release"}, button : Buttons]

ASSUME NoRequestAssumption == None \notin Requests

Initials == [focused : BOOLEAN, size : Sizes \cup {None}, look : Looks \cup {None}]

NoInitial == [focused |-> FALSE, size |-> None, look |-> None]

OwnerStates == {"turn", "list", "adopt", "retire", "flush", "next",
                "run", "settle", "waiting", "stopped"}

VARIABLES
    \* registry and slots, shared between threads
    slots,      \* registered viewers
    order,      \* registration order of each viewer, 0 if never registered
    registered, \* RegistryState::next
    closed,     \* the registry refuses viewers
    changed,    \* the owner must reconcile
    dropped,    \* viewers whose handle was dropped
    revoked,    \* viewers whose authority was withdrawn
    initial,    \* state a slot carries until the owner first sees it
    queued,     \* requests sent but not yet processed or refused
    \* clients
    unmarked,   \* flags stored whose mark_changed has not run yet
    sending,    \* the request each viewer is between counting and sending
    sent,       \* requests sent so far (bounds the model)
    \* owner thread
    pc,
    queue,      \* ordered requests
    current,    \* the request being handled
    todo,       \* viewers the running sync has still to visit
    arb,        \* the arbiter
    wake,       \* the owner's Wake is pending
    writerFull, \* the writer's queue has no room
    spilled,    \* pending_writes is not empty
    outputTurn, \* next_message prefers output
    \* the application behind the PTY
    inputClosed, \* nothing reaches the application any more
    tracking,    \* the application tracks the mouse
    app          \* what the application was told

registryVars == <<slots, order, registered, closed, dropped, revoked, initial>>
clientVars == <<unmarked, sending, sent>>
appVars == <<inputClosed, tracking, app>>
writerVars == <<writerFull, spilled>>

vars == <<slots, order, registered, closed, changed, dropped, revoked, initial,
          queued, unmarked, sending, sent, pc, queue, current, todo, arb, wake,
          writerFull, spilled, outputTurn, inputClosed, tracking, app>>

(* `repeated` records that a focus report ever told it what it knew. *)
Apps == [size : AllSizes, look : AllLooks, held : SUBSET Buttons,
         focused : BOOLEAN, repeated : BOOLEAN]

Init ==
    /\ slots = {}
    /\ order = [v \in Viewers |-> 0]
    /\ registered = 0
    /\ closed = FALSE
    /\ changed = FALSE
    /\ dropped = {}
    /\ revoked = {}
    /\ initial = [v \in Viewers |-> NoInitial]
    /\ queued = [v \in Viewers |-> 0]
    /\ unmarked = {}
    /\ sending = [v \in Viewers |-> None]
    /\ sent = 0
    /\ pc = "turn"
    /\ queue = <<>>
    /\ current = None
    /\ todo = {}
    /\ arb = NewArbiter
    /\ wake = FALSE
    /\ writerFull = FALSE
    /\ spilled = FALSE
    /\ outputTurn = FALSE
    /\ inputClosed = FALSE
    /\ tracking = TRUE
    /\ app = [size |-> StartSize, look |-> StartLook, held |-> {},
              focused |-> FALSE, repeated |-> FALSE]

(* Mutant: a dropped viewer controls until it is finalized. *)
BarredIfRevoked == revoked

Barred == dropped \cup revoked

(* Mutant: a dropped viewer's queued requests are not waited for. *)
FinishedAtOnce(v) == v \in revoked \cup dropped

(* Revoked, or dropped with every request it sent already run. *)
Finished(v) == v \in revoked \/ (v \in dropped /\ queued[v] = 0)

-----------------------------------------------------------------------------
(* Clients *)

(* What a viewer may start with. *)
InitialsNow == IF "initial" \in Kinds THEN Initials ELSE {NoInitial}

(* Another call may start. *)
CallsBound ==
    Cardinality(unmarked) + Cardinality({v \in Viewers : sending[v] # None}) < MaxCalls

(* subscribe: Registry::register pushes the slot under the lock ... *)
Register(v) ==
    /\ CallsBound
    /\ order[v] = 0
    /\ ~closed
    /\ Cardinality(slots) < ViewerLimit
    /\ \E i \in InitialsNow : initial' = [initial EXCEPT ![v] = i]
    /\ slots' = slots \cup {v}
    /\ registered' = registered + 1
    /\ order' = [order EXCEPT ![v] = registered + 1]
    /\ unmarked' = unmarked \cup {v}
    /\ UNCHANGED <<closed, changed, dropped, revoked, queued, sending, sent, pc,
                   queue, current, todo, arb, wake, writerVars, outputTurn, appVars>>

(* ... and mark_changed runs after it, as after a drop or a revocation. *)
MarkChanged(v) ==
    /\ v \in unmarked
    /\ unmarked' = unmarked \ {v}
    /\ changed' = TRUE
    /\ wake' = TRUE
    /\ UNCHANGED <<registryVars, queued, sending, sent, pc, queue, current, todo,
                   arb, writerVars, outputTurn, appVars>>

(* The handle exists and no call through it is running. *)
Holds(v) == order[v] # 0 /\ v \notin dropped \cup unmarked /\ sending[v] = None

Drop(v) ==
    /\ CallsBound
    /\ Holds(v)
    /\ dropped' = dropped \cup {v}
    /\ unmarked' = unmarked \cup {v}
    /\ UNCHANGED <<slots, order, registered, closed, changed, revoked, initial,
                   queued, sending, sent, pc, queue, current, todo, arb, wake,
                   writerVars, outputTurn, appVars>>

(* Mux revokes an attachment's viewers, whatever their handles are doing. *)
Revoke(v) ==
    /\ CallsBound
    /\ v \in slots \ revoked
    /\ revoked' = revoked \cup {v}
    /\ unmarked' = unmarked \cup {v}
    /\ UNCHANGED <<slots, order, registered, closed, changed, dropped, initial,
                   queued, sending, sent, pc, queue, current, todo, arb, wake,
                   writerVars, outputTurn, appVars>>

(* What each kind of request needs, checked by the handle and again by the *)
(* owner together with the revocation flag.                                *)
Capable(m) ==
    CASE m.kind \in {"typing", "press", "release", "reset"} -> m.viewer \in InputViewers
      [] m.kind = "focus" -> m.viewer \in InputViewers \cup SizeViewers
      [] m.kind = "geometry" -> m.viewer \in SizeViewers
      [] OTHER -> TRUE

Permitted(m) == m.viewer \notin revoked /\ Capable(m)

(* The requests a viewer can make now: a press is stamped with a revision  *)
(* some snapshot has shown.                                                *)
RequestsNow(v) ==
         [viewer : {v}, kind : Kinds \cap {"focus"}, on : BOOLEAN]
    \cup [viewer : {v}, kind : Kinds \cap {"geometry"}, size : Sizes]
    \cup [viewer : {v}, kind : Kinds \cap {"presentation"}, look : Looks]
    \cup [viewer : {v}, kind : Kinds \cap {"typing", "reset"}]
    \cup [viewer : {v}, kind : Kinds \cap {"press"}, button : Buttons,
          stamp : 0..arb.revision]
    \cup [viewer : {v}, kind : Kinds \cap {"release"}, button : Buttons]

(* Counts the request before it is sent. *)
StartSend(v) ==
    /\ CallsBound
    /\ Holds(v)
    /\ sent < MaxRequests
    /\ \E m \in RequestsNow(v) :
          /\ Permitted(m)
          /\ sending' = [sending EXCEPT ![v] = m]
    /\ sent' = sent + 1
    /\ queued' = [queued EXCEPT ![v] = @ + 1]
    /\ UNCHANGED <<registryVars, changed, unmarked, pc, queue, current, todo, arb,
                   wake, writerVars, outputTurn, appVars>>

Sent(v) ==
    /\ sending[v] # None
    /\ Len(queue) < QueueCapacity
    /\ pc # "stopped"
    /\ queue' = Append(queue, sending[v])
    /\ sending' = [sending EXCEPT ![v] = None]
    /\ wake' = TRUE
    /\ UNCHANGED <<registryVars, changed, queued, unmarked, sent, pc, current, todo,
                   arb, writerVars, outputTurn, appVars>>

(* A full queue, or a runtime that stopped, refuses the request. *)
Refused(v) ==
    /\ sending[v] # None
    /\ Len(queue) >= QueueCapacity \/ pc = "stopped"
    /\ sending' = [sending EXCEPT ![v] = None]
    /\ queued' = [queued EXCEPT ![v] = @ - 1]
    /\ UNCHANGED <<registryVars, changed, unmarked, sent, pc, queue, current, todo,
                   arb, wake, writerVars, outputTurn, appVars>>

-----------------------------------------------------------------------------
(* Writes: once input has closed they are dropped; otherwise they fill the *)
(* writer's queue and then spill.                                          *)

Write ==
    IF inputClosed \/ "backlog" \notin Surroundings THEN UNCHANGED writerVars
    ELSE \/ ~writerFull /\ UNCHANGED writerVars
         \/ writerFull' = TRUE /\ spilled' = spilled
         \/ writerFull' = TRUE /\ spilled' = TRUE

(* Owner::apply: resize, presentation, releases, then the focus report. *)
Apply(a) ==
    LET fx == a.fx IN
    /\ arb' = Cleared(a)
    /\ app' = [size |-> IF fx.resize = None THEN app.size ELSE fx.resize,
               look |-> IF fx.look = None THEN app.look ELSE fx.look,
               held |-> IF inputClosed THEN app.held ELSE app.held \ fx.releases,
               focused |-> IF inputClosed \/ fx.focus = "none" THEN app.focused
                           ELSE fx.focus = "gained",
               repeated |-> \/ app.repeated
                            \/ /\ ~inputClosed
                               /\ fx.focus = IF app.focused THEN "gained" ELSE "lost"]

WriteEffects(a) == IF a.fx = NoEffects THEN UNCHANGED writerVars ELSE Write

-----------------------------------------------------------------------------
(* The owner thread *)

(* A turn starts with a reconcile, put off while writes are backed up. *)
Turn ==
    /\ pc = "turn"
    /\ IF spilled \/ ~changed
       THEN pc' = "flush" /\ UNCHANGED changed
       ELSE pc' = "list" /\ changed' = FALSE
    /\ UNCHANGED <<registryVars, queued, clientVars, queue, current, todo, arb, wake,
                   writerVars, outputTurn, appVars>>

(* The slots are listed only after the flag was taken, so a viewer that    *)
(* registers in between is seen now or marked again.                       *)
ListSlots ==
    /\ pc = "list"
    /\ todo' = slots
    /\ pc' = "adopt"
    /\ UNCHANGED <<registryVars, changed, queued, clientVars, queue, current, arb,
                   wake, writerVars, outputTurn, appVars>>

First(v) == v \in todo /\ \A w \in todo : order[v] <= order[w]

(* Arbiter::sync, first loop: each registered slot has an entry or goes. *)
Adopt(v) ==
    /\ pc = "adopt" /\ First(v)
    /\ todo' = todo \ {v}
    /\ IF v \in arb.entries
       THEN UNCHANGED <<arb, slots, initial>>
       ELSE IF Finished(v)
            THEN /\ arb' = FinalizeMouse(arb, v)
                 /\ slots' = slots \ {v}
                 /\ UNCHANGED initial
            ELSE /\ arb' = AddEntry(arb, v, initial[v])
                 /\ initial' = [initial EXCEPT ![v] = NoInitial]
                 /\ UNCHANGED slots
    /\ UNCHANGED <<order, registered, closed, changed, dropped, revoked, queued,
                   clientVars, pc, queue, current, wake, writerVars, outputTurn, appVars>>

Adopted ==
    /\ pc = "adopt" /\ todo = {}
    /\ todo' = arb.entries
    /\ pc' = "retire"
    /\ UNCHANGED <<registryVars, changed, queued, clientVars, queue, current, arb,
                   wake, writerVars, outputTurn, appVars>>

(* Second loop: finalizes the revoked and the dropped that have run. *)
Retire(v) ==
    /\ pc = "retire" /\ First(v)
    /\ todo' = todo \ {v}
    /\ IF Finished(v)
       THEN arb' = Finalize(arb, v) /\ slots' = slots \ {v}
       ELSE UNCHANGED <<arb, slots>>
    /\ UNCHANGED <<order, registered, closed, changed, dropped, revoked, initial, queued,
                   clientVars, pc, queue, current, wake, writerVars, outputTurn, appVars>>

(* The sync ends with a choice of controller, and its effects are applied. *)
Synced ==
    /\ pc = "retire" /\ todo = {}
    /\ Apply(Recompute(arb, order, Barred))
    /\ WriteEffects(Recompute(arb, order, Barred))
    /\ pc' = IF current = None THEN "flush" ELSE "run"
    /\ UNCHANGED <<registryVars, changed, queued, clientVars, queue, current, todo,
                   wake, outputTurn, inputClosed, tracking>>

(* Spilled writes go first; while they do not fit the owner waits.  Once   *)
(* input has closed they are dropped instead.                              *)
Flush ==
    /\ pc = "flush"
    /\ \/ ~spilled /\ pc' = "next" /\ UNCHANGED writerVars
       \/ spilled /\ inputClosed /\ pc' = "next" /\ spilled' = FALSE /\ UNCHANGED writerFull
       \/ /\ spilled /\ ~inputClosed /\ ~writerFull
          /\ \/ pc' = "next" /\ spilled' = FALSE /\ writerFull' \in BOOLEAN
             \/ pc' = "waiting" /\ spilled' = TRUE /\ writerFull' = TRUE
       \/ spilled /\ ~inputClosed /\ writerFull /\ pc' = "waiting" /\ UNCHANGED writerVars
    /\ UNCHANGED <<registryVars, changed, queued, clientVars, queue, current, todo,
                   arb, wake, outputTurn, appVars>>

(* Mutant: the request runs against the table as the turn left it. *)
DequeueUnreconciled ==
    /\ pc = "next" /\ queue # <<>>
    /\ current' = Head(queue)
    /\ queue' = Tail(queue)
    /\ outputTurn' = ("output" \in Surroundings)
    /\ pc' = "run"
    /\ UNCHANGED <<registryVars, changed, queued, clientVars, todo, arb, wake,
                   writerVars, appVars>>

(* next_message took a request: requests go ahead of output except when   *)
(* output has the turn and some is waiting.  The table is reconciled again *)
(* before the request runs.                                                *)
Dequeue ==
    /\ pc = "next" /\ queue # <<>>
    /\ current' = Head(queue)
    /\ queue' = Tail(queue)
    /\ outputTurn' = ("output" \in Surroundings)
    /\ IF changed
       THEN pc' = "list" /\ changed' = FALSE
       ELSE pc' = "run" /\ UNCHANGED changed
    /\ UNCHANGED <<registryVars, queued, clientVars, todo, arb, wake, writerVars, appVars>>

(* Mutant: output keeps its turn. *)
OutputFirst ==
    /\ "output" \in Surroundings
    /\ pc = "next"
    /\ outputTurn' = TRUE
    /\ app' = app /\ arb' = arb
    /\ Write
    /\ pc' = "turn"
    /\ UNCHANGED <<registryVars, changed, queued, clientVars, queue, current, todo,
                   wake, inputClosed, tracking>>

(* Output changes the modes; end_untracked_gesture follows it.  A chunk   *)
(* that stops tracking makes the application forget its buttons, also when *)
(* the same chunk starts it again.                                         *)
Output ==
    /\ "output" \in Surroundings
    /\ pc = "next"
    /\ outputTurn \/ queue = <<>>
    /\ outputTurn' = FALSE
    /\ tracking' \in BOOLEAN
    /\ \/ tracking' /\ app' = app
       \/ app' = [app EXCEPT !.held = {}]
    /\ arb' = IF tracking' THEN arb ELSE TrackingDisabled(arb)
    /\ Write
    /\ pc' = "turn"
    /\ UNCHANGED <<registryVars, changed, queued, clientVars, queue, current, todo,
                   wake, inputClosed>>

(* Mutant: the owner waits without looking for a pending change. *)
IdleAtOnce ==
    /\ pc = "next" /\ queue = <<>>
    /\ pc' = "waiting"
    /\ UNCHANGED <<registryVars, changed, queued, clientVars, queue, current, todo,
                   arb, wake, writerVars, outputTurn, appVars>>

(* Nothing to do: a change marked since the turn began starts another. *)
Idle ==
    /\ pc = "next" /\ queue = <<>>
    /\ pc' = IF changed THEN "turn" ELSE "waiting"
    /\ UNCHANGED <<registryVars, changed, queued, clientVars, queue, current, todo,
                   arb, wake, writerVars, outputTurn, appVars>>

Woken ==
    /\ pc = "waiting" /\ wake
    /\ wake' = FALSE
    /\ pc' = "turn"
    /\ UNCHANGED <<registryVars, changed, queued, clientVars, queue, current, todo,
                   arb, writerVars, outputTurn, appVars>>

-----------------------------------------------------------------------------
(* Handlers: what a request does when its viewer may still make it. *)

Running(kind) ==
    /\ pc = "run"
    /\ Permitted(current)
    /\ current.kind = kind
    /\ pc' = "settle"
    /\ UNCHANGED <<registryVars, changed, queued, clientVars, queue, current, todo,
                   wake, outputTurn, inputClosed>>

RunRefused ==
    /\ pc = "run" /\ ~Permitted(current)
    /\ pc' = "settle"
    /\ UNCHANGED <<registryVars, changed, queued, clientVars, queue, current, todo,
                   arb, wake, writerVars, outputTurn, appVars>>

(* Arbiter methods do nothing for a viewer without an entry. *)
Known == current.viewer \in arb.entries

RunFocus ==
    /\ Running("focus")
    /\ arb' = IF Known
              THEN Recompute(SetFocus(arb, current.viewer, current.on), order, Barred)
              ELSE arb
    /\ UNCHANGED <<writerVars, tracking, app>>

RunGeometry ==
    /\ Running("geometry")
    /\ arb' = IF Known
              THEN Recompute(Report(arb, current.viewer, current.size), order, Barred)
              ELSE arb
    /\ UNCHANGED <<writerVars, tracking, app>>

RunPresentation ==
    /\ Running("presentation")
    /\ arb' = IF Known
              THEN Recompute(Present(arb, current.viewer, current.look), order, Barred)
              ELSE arb
    /\ UNCHANGED <<writerVars, tracking, app>>

(* Typing moves control, and the resize is applied before the bytes. *)
RunTyping ==
    /\ Running("typing")
    /\ Apply(IF Known THEN Recompute(Touch(arb, current.viewer), order, Barred)
             ELSE arb)
    /\ Write
    /\ UNCHANGED tracking

RunPress ==
    /\ Running("press")
    /\ UNCHANGED tracking
    /\ IF inputClosed
       THEN UNCHANGED <<arb, app, writerVars>>
       ELSE IF ~tracking
       THEN arb' = TrackingDisabled(arb) /\ UNCHANGED <<app, writerVars>>
       ELSE IF PressAdmitted(arb, current.viewer, current.stamp)
       THEN /\ arb' = Press(arb, current.viewer, current.button)
            /\ app' = [app EXCEPT !.held = @ \cup {current.button}]
            /\ Write
       ELSE UNCHANGED <<arb, app, writerVars>>

(* A release the application does not track still ends its owner's button. *)
RunRelease ==
    /\ Running("release")
    /\ UNCHANGED tracking
    /\ LET a == IF tracking THEN arb ELSE TrackingDisabled(arb)
           admitted == ReleaseAdmitted(a, current.viewer, current.button)
           b == IF admitted THEN Release(a, current.viewer, current.button) ELSE a
       IN  IF inputClosed
           THEN UNCHANGED <<arb, app, writerVars>>
           ELSE /\ arb' = b
                /\ IF admitted /\ tracking
                   THEN app' = [app EXCEPT !.held = @ \ {current.button}] /\ Write
                   ELSE UNCHANGED <<app, writerVars>>

(* Edit::Reset: the emulator forgets every mode, mouse tracking included. *)
RunReset ==
    /\ Running("reset")
    /\ tracking' = FALSE
    /\ app' = [app EXCEPT !.held = {}]
    /\ arb' = TrackingDisabled(arb)
    /\ Write

(* Mutant: the last request of a dropped viewer does not finalize it. *)
SettleOnly ==
    /\ pc = "settle"
    /\ queued' = [queued EXCEPT ![current.viewer] = @ - 1]
    /\ Apply(arb) /\ WriteEffects(arb)
    /\ current' = None
    /\ pc' = "turn"
    /\ UNCHANGED <<registryVars, changed, clientVars, queue, todo, wake, outputTurn,
                   inputClosed, tracking>>

(* The request is settled, its viewer finalized if that was the last thing *)
(* a dropped handle asked, and the effects of both are applied together.   *)
Settle ==
    /\ pc = "settle"
    /\ LET v == current.viewer
           left == queued[v] - 1
           last == v \in arb.entries /\ v \in dropped /\ left = 0
           a == IF last THEN Recompute(Finalize(arb, v), order, Barred) ELSE arb
       IN  /\ queued' = [queued EXCEPT ![v] = left]
           /\ slots' = IF last THEN slots \ {v} ELSE slots
           /\ Apply(a)
           /\ WriteEffects(a)
    /\ current' = None
    /\ pc' = "turn"
    /\ UNCHANGED <<order, registered, closed, changed, dropped, revoked, initial,
                   clientVars, queue, todo, wake, outputTurn, inputClosed, tracking>>

-----------------------------------------------------------------------------
(* The rest of the runtime *)

(* The writer takes a write, and wakes the owner if it asked for room. *)
WriterDequeues ==
    /\ writerFull
    /\ writerFull' = FALSE
    /\ wake' = (wake \/ spilled)
    /\ UNCHANGED <<registryVars, changed, queued, clientVars, pc, queue, current, todo,
                   arb, spilled, outputTurn, appVars>>

(* Output arrives for an owner that waits with nothing to do. *)
OutputArrives ==
    /\ "output" \in Surroundings
    /\ pc = "waiting" /\ ~wake
    /\ wake' = TRUE
    /\ UNCHANGED <<registryVars, changed, queued, clientVars, pc, queue, current, todo,
                   arb, writerVars, outputTurn, appVars>>

(* The child exited or the terminal hung up. *)
InputCloses ==
    /\ "hangup" \in Surroundings
    /\ ~inputClosed
    /\ inputClosed' = TRUE
    /\ wake' = TRUE
    /\ UNCHANGED <<registryVars, changed, queued, clientVars, pc, queue, current, todo,
                   arb, writerVars, outputTurn, tracking, app>>

(* A close, a failure or the terminal's end stops the owner between turns. *)
Stop ==
    /\ "stop" \in Surroundings
    /\ pc \in {"flush", "turn"}
    /\ pc' = "stopped"
    /\ closed' = TRUE
    /\ UNCHANGED <<slots, order, registered, dropped, revoked, initial, changed, queued,
                   clientVars, queue, current, todo, arb, wake, writerVars, outputTurn,
                   appVars>>

Client(v) == Register(v) \/ Drop(v) \/ Revoke(v) \/ StartSend(v)
Call(v) == MarkChanged(v) \/ Sent(v) \/ Refused(v)

Handler == \/ RunRefused \/ RunFocus \/ RunGeometry \/ RunPresentation
           \/ RunTyping \/ RunPress \/ RunRelease \/ RunReset

Owner == \/ Turn \/ ListSlots \/ Adopted \/ Synced \/ Flush \/ Dequeue \/ Output \/ Idle
         \/ Woken \/ Handler \/ Settle
         \/ \E v \in Viewers : Adopt(v) \/ Retire(v)

Next == \/ Owner
        \/ WriterDequeues \/ OutputArrives \/ InputCloses \/ Stop
        \/ \E v \in Viewers : Client(v) \/ Call(v)

Spec == Init /\ [][Next]_vars

(* The owner thread and calls already under way keep running; nothing says *)
(* a client ever calls, output ever arrives or the application ever reads. *)
Fairness == WF_vars(Owner) /\ \A v \in Viewers : WF_vars(Call(v))

FairSpec == Spec /\ Fairness

-----------------------------------------------------------------------------
(* Properties *)

(* Every variable has its type: in particular the count of focused viewers *)
(* and the counts of queued requests never wrap below zero                 *)
(* (arbitration.rs set_focus, viewer.rs Slot::settled).                    *)
TypeOK ==
    /\ slots \subseteq Viewers
    /\ order \in [Viewers -> Nat]
    /\ registered \in Nat
    /\ closed \in BOOLEAN /\ changed \in BOOLEAN
    /\ dropped \subseteq Viewers /\ revoked \subseteq Viewers
    /\ initial \in [Viewers -> Initials]
    /\ queued \in [Viewers -> Nat]
    /\ unmarked \subseteq Viewers
    /\ sending \in [Viewers -> Requests \cup {None}]
    /\ sent \in Nat
    /\ pc \in OwnerStates
    /\ queue \in Seq(Requests)
    /\ current \in Requests \cup {None}
    /\ todo \subseteq Viewers
    /\ arb \in Arbiters
    /\ wake \in BOOLEAN /\ writerFull \in BOOLEAN /\ spilled \in BOOLEAN
    /\ outputTurn \in BOOLEAN /\ inputClosed \in BOOLEAN /\ tracking \in BOOLEAN
    /\ app \in Apps

(* A gesture never outlives its owner: whoever holds buttons, tracked or   *)
(* not, has an arbiter entry whose finalization will release them          *)
(* (terminal.rs handle_client_message reconciles before every request).    *)
GestureOwnerLive ==
    /\ arb.owner = None <=> arb.held \cup arb.untracked = {}
    /\ arb.owner # None => arb.owner \in arb.entries

(* No button stays down in the application: what it was told is pressed is *)
(* held by the gesture's owner or about to be released (Effects.releases). *)
NoStuckButton ==
    ~inputClosed => app.held \subseteq arb.held \cup arb.fx.releases

(* The application's focus is that of the input viewers as a whole: the    *)
(* pending report is the difference, and it never repeats what the         *)
(* application already knows (arbitration.rs set_focus, Effects::merge).   *)
FocusFaithful ==
    LET any == arb.focused \cap InputViewers # {} IN
    /\ ~app.repeated
    /\ ~inputClosed => arb.fx.focus = IF any = app.focused THEN "none"
                                      ELSE IF any THEN "gained" ELSE "lost"

(* A request of a viewer that keeps its authority finds the viewer still   *)
(* registered when it runs, even when the handle was dropped behind it     *)
(* (viewer.rs Slot::queue and settled).                                    *)
RequestsKeepSlot ==
    /\ \A i \in 1..Len(queue) :
          queue[i].viewer \notin revoked => queue[i].viewer \in slots
    /\ current # None /\ current.viewer \notin revoked => current.viewer \in slots
    /\ pc = "run" /\ Permitted(current) => Known

Settled == pc \in {"flush", "next", "waiting"} /\ ~changed /\ unmarked = {}

(* Once every change is marked and reconciled, the registry holds exactly  *)
(* the arbiter's viewers and none that has nothing left to run: no slot    *)
(* leaks toward VIEWER_LIMIT.                                              *)
NoLeakedSlot ==
    Settled => /\ slots = arb.entries
               /\ \A v \in slots : ~Finished(v)

(* And the terminal has the size and presentation of its controller: of    *)
(* the live viewers that want a size, the one most recently active.        *)
ControllerDecides ==
    LET live == {v \in (slots \cap SizeViewers) \ (dropped \cup revoked) :
                    arb.geometry[v] # None}
    IN  Settled =>
          /\ app.size = arb.canonical
          /\ \A v \in live :
                (\A w \in live : \/ arb.activity[w] < arb.activity[v]
                                \/ /\ arb.activity[w] = arb.activity[v]
                                   /\ order[w] <= order[v])
                => /\ app.size = arb.geometry[v]
                   /\ arb.look[v] # None => app.look = arb.look[v]

(* A gesture that blocks other viewers ends only by its owner's own        *)
(* release, its owner's finalization, or the application no longer         *)
(* tracking the mouse: no other viewer's report takes it over.             *)
GestureEndsByOwner ==
    [][arb.held # {} /\ arb.owner' # arb.owner =>
           /\ arb.owner' = None
           /\ \/ arb.owner \notin arb.entries'
              \/ /\ pc = "run" /\ current.kind = "release"
                 /\ current.viewer = arb.owner]_vars

(* Once the application keeps up with what it is written, a viewer that    *)
(* was dropped or revoked is finalized and frees its slot, also when the   *)
(* wait for the backlog consumed the notification of its departure         *)
(* (terminal.rs run_terminal, has_pending_change).                         *)
DepartedLeave ==
    <>[](~spilled) =>
        \A v \in Viewers : v \in dropped \cup revoked ~> v \notin slots \/ pc = "stopped"

(* As long as the application reads now and then, a request that was sent  *)
(* runs, whatever output arrives meanwhile (next_message alternates).      *)
RequestsRun ==
    []<>(~spilled) => (queue # <<>> ~> queue = <<>> \/ pc = "stopped")
=============================================================================
