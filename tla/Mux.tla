-------------------------------- MODULE Mux --------------------------------
(* The runtime's own structure (huterm-core/src/mux.rs and mux/): every      *)
(* operation runs under one lock, changes the structure, revokes the viewers *)
(* that lose their right to a terminal, emits an event and, when it can      *)
(* change what a close covers, advances the revision that close tickets name.*)
(* One desktop window's undo and redo entries and one bounded subscription   *)
(* stand beside it.  A refused operation changes nothing and is no step.     *)
EXTENDS Hierarchy

CONSTANTS Start,      \* the structure the run starts from
          Sides,      \* where a pane lands: 0 before its target, 1 after it
          Capacity    \* events a subscription holds before it lags

(* The identities a structure uses. *)
Ids(g) == DOMAIN g.workspaces \cup DOMAIN g.tabs \cup DOMAIN g.layout
            \cup Panes(g) \cup DOMAIN g.attachments

ASSUME MuxConstants ==
    /\ IsHierarchy(Start) /\ Sound(Start, Panes(Start))
    /\ IsFiniteSet(Ids(Start)) /\ Ids(Start) = 1..Cardinality(Ids(Start))
    /\ Sides \subseteq {0, 1}
    /\ Capacity \in Nat \ {0}

VARIABLES
    h,          \* sessions, workspaces, tabs, layouts and attachments
    terminals,  \* panes whose terminal runtime is owned
    viewers,    \* <<attachment, pane>>: viewers registered with a terminal
    next,       \* the highest identity handed out
    revision,   \* advances when what a close covers may have changed
    seq,        \* of the latest emitted event
    queue,      \* the subscription: queued events, whether it lagged, its signal
    history,    \* a window's entries: the last rearrangement, the last undone
    left        \* structural operations left (bound)

muxVars == <<h, terminals, viewers, next, revision, seq, queue, history, left>>

NoChange == [tabs |-> <<>>, before |-> <<>>, after |-> <<>>, placed |-> {}]
Subscribed == [open |-> TRUE, events |-> <<>>, lagged |-> FALSE, wake |-> FALSE]
Unsubscribed == [Subscribed EXCEPT !.open = FALSE]

MuxBegins(ops, subscription) ==
    /\ h = Start
    /\ terminals = Panes(Start)
    /\ viewers = {}
    /\ next = Cardinality(Ids(Start))
    /\ revision = 0 /\ seq = 0
    /\ queue = subscription
    /\ history = [undo |-> NoChange, redo |-> NoChange]
    /\ left = ops

-----------------------------------------------------------------------------
\* Mutant: a full queue drops the event that does not fit.
PublishedDropping(q, envelopes) ==
    IF ~q.open \/ envelopes = <<>> \/ Len(q.events) + Len(envelopes) > Capacity THEN q
    ELSE [q EXCEPT !.events = @ \o envelopes, !.wake = TRUE]

(* A queue that cannot hold what an operation says is dropped and lags until *)
(* the subscription is replaced.                                             *)
Published(q, envelopes) ==
    IF ~q.open \/ q.lagged \/ envelopes = <<>> THEN q
    ELSE IF Len(q.events) + Len(envelopes) > Capacity
         THEN [q EXCEPT !.events = <<>>, !.lagged = TRUE, !.wake = TRUE]
         ELSE [q EXCEPT !.events = @ \o envelopes, !.wake = TRUE]

Emit(events) ==
    /\ seq' = seq + Len(events)
    /\ queue' = Published(queue, [i \in DOMAIN events |-> [seq |-> seq + i, event |-> events[i]]])

Spend == left > 0 /\ left' = left - 1
Changed == revision' = revision + 1

(* A structural operation leaves `new` and says so. *)
Commit(new, events) == Spend /\ h' = new /\ Emit(events)

RevokeTerminals(P) == viewers' = {v \in viewers : v[2] \notin P}
(* Closing terminals ends their registries. *)
CloseTerminals(P) == terminals' = terminals \ P /\ RevokeTerminals(P)

Index(s, x) == CHOOSE i \in DOMAIN s : s[i] = x
(* Before an anchor of the list, or at its end. *)
Place(list, before) == IF before = None THEN Len(list) + 1 ELSE Index(list, before)

-----------------------------------------------------------------------------
(* Creation.  An identity is allocated, and the revision advances, even when *)
(* the terminal then fails to spawn.                                         *)

CreateSession ==
    /\ Commit([h EXCEPT !.sessions = Append(@, next + 1), !.workspaces = With(@, next + 1, <<>>)],
              <<[kind |-> "SessionCreated", session |-> next + 1, index |-> Len(h.sessions) + 1]>>)
    /\ Changed /\ next' = next + 1
    /\ UNCHANGED <<terminals, viewers, history>>

CreateWorkspace(s) ==
    /\ Commit([h EXCEPT !.workspaces[s] = Append(@, next + 1), !.tabs = With(@, next + 1, <<>>)],
              <<[kind |-> "WorkspaceCreated", session |-> s, workspace |-> next + 1,
                 index |-> Len(h.workspaces[s]) + 1]>>)
    /\ Changed /\ next' = next + 1
    /\ UNCHANGED <<terminals, viewers, history>>

OpenTab(w) ==
    LET t == next + 1
        layout == [panes |-> <<next + 2>>, zoomed |-> None]
    IN /\ Commit([h EXCEPT !.tabs[w] = Append(@, t), !.layout = With(@, t, layout)],
                 <<[kind |-> "TabOpened", workspace |-> w, tab |-> t, layout |-> layout,
                    index |-> Len(h.tabs[w]) + 1]>>)
       /\ Changed /\ next' = next + 2
       /\ terminals' = terminals \cup {next + 2}
       /\ UNCHANGED <<viewers, history>>

SpawnFails ==
    /\ DOMAIN h.tabs # {}
    /\ Spend /\ Changed /\ next' = next + 2
    /\ UNCHANGED <<h, terminals, viewers, seq, queue, history>>

(* Layout with `new` panes on a side of a target, unzoomed. *)
Beside(layout, p, side, new) ==
    LET i == Index(layout.panes, p) + side - 1
    IN [panes |-> SubSeq(layout.panes, 1, i) \o new \o SubSeq(layout.panes, i + 1, Len(layout.panes)),
        zoomed |-> None]

LayoutEvent(t, layout) == [kind |-> "PaneLayoutChanged", tab |-> t, layout |-> layout]

SplitPane(t, p, side) ==
    LET layout == Beside(h.layout[t], p, side, <<next + 1>>)
    IN /\ Commit([h EXCEPT !.layout[t] = layout], <<LayoutEvent(t, layout)>>)
       /\ Changed /\ next' = next + 1
       /\ terminals' = terminals \cup {next + 1}
       /\ UNCHANGED <<viewers, history>>

-----------------------------------------------------------------------------
(* Changes inside a tab that leave what a close covers alone, so that the    *)
(* revision stays.                                                           *)

SetPaneZoom(t, p) ==
    /\ p = None \/ Len(h.layout[t].panes) > 1
    /\ p # h.layout[t].zoomed
    /\ Commit([h EXCEPT !.layout[t].zoomed = p],
              <<[kind |-> "PaneZoomChanged", tab |-> t, zoomed |-> p]>>)
    /\ UNCHANGED <<revision, next, terminals, viewers, history>>

(* What an operation did to the tabs it touched, before and after. *)
Snapshot(g, T) ==
    [t \in T \cap DOMAIN g.layout |->
       LET w == WorkspaceOf(g, t)
       IN [session |-> SessionOf(g, w), workspace |-> w,
           index |-> Index(g.tabs[w], t), layout |-> g.layout[t]]]

LayoutChange(new, tabs, placed) ==
    [tabs |-> tabs, before |-> Snapshot(h, ToSet(tabs)), after |-> Snapshot(new, ToSet(tabs)),
     placed |-> placed]

(* The window that made the change files it for undo; another's does not. *)
Record(change) == \/ history' = [undo |-> change, redo |-> NoChange]
                  \/ UNCHANGED history

SwapPanes(t, a, b) ==
    LET panes == h.layout[t].panes
        swapped == [i \in DOMAIN panes |-> IF panes[i] = a THEN b ELSE IF panes[i] = b THEN a ELSE panes[i]]
        new == [h EXCEPT !.layout[t].panes = swapped]
    IN /\ a # b
       /\ Commit(new, <<LayoutEvent(t, new.layout[t])>>)
       /\ Record(LayoutChange(new, <<t>>, {}))
       /\ UNCHANGED <<revision, next, terminals, viewers>>

(* Any arrangement of the tab's own panes, in other places or other shapes. *)
ArrangePanes(t, panes) ==
    LET new == [h EXCEPT !.layout[t] = [panes |-> panes, zoomed |-> None]]
    IN /\ IsInjective(panes) /\ ToSet(panes) = ToSet(h.layout[t].panes)
       /\ Commit(new, <<LayoutEvent(t, new.layout[t])>>)
       /\ Record(LayoutChange(new, <<t>>, {}))
       /\ UNCHANGED <<revision, next, terminals, viewers>>

-----------------------------------------------------------------------------
(* Moves (mux.rs, mux/moves.rs).  A move into another session revokes the     *)
(* viewers of the terminals it takes along.                                   *)

MovesTo(P, s, session) == IF session = s THEN UNCHANGED viewers ELSE RevokeTerminals(P)

MoveTab(t, w, before) ==
    LET source == WorkspaceOf(h, t)
        i == Place(h.tabs[w], before)
        index == IF source = w /\ Index(h.tabs[w], t) < i THEN i - 1 ELSE i
    IN /\ ~(source = w /\ Index(h.tabs[w], t) = index)
       /\ Commit(Ordered(Unordered(h, t), w, index, t),
                 <<[kind |-> "TabMoved", tab |-> t, workspace |-> w, index |-> index]>>)
       /\ Changed
       /\ MovesTo(ToSet(h.layout[t].panes), SessionOf(h, source), SessionOf(h, w))
       /\ UNCHANGED <<next, terminals, history>>

MoveWorkspace(w, s, before) ==
    LET source == SessionOf(h, w)
        i == Place(h.workspaces[s], before)
        index == IF source = s /\ Index(h.workspaces[s], w) < i THEN i - 1 ELSE i
        removed == [h EXCEPT !.workspaces[source] = Dropped(@, {w})]
    IN /\ ~(source = s /\ Index(h.workspaces[s], w) = index)
       /\ Commit([removed EXCEPT !.workspaces[s] = InsertAt(@, index, w)],
                 <<[kind |-> "WorkspaceMoved", workspace |-> w, session |-> s, index |-> index]>>)
       /\ Changed
       /\ MovesTo(PanesIn(h, ToSet(h.tabs[w])), source, s)
       /\ UNCHANGED <<next, terminals, history>>

(* A source tab keeps its zoom while the zoomed pane and another one remain. *)
KeptZoom(panes, zoomed) ==
    IF Len(panes) > 1 /\ Contains(panes, zoomed) THEN zoomed ELSE None
Remaining(t, p) ==
    LET panes == Dropped(h.layout[t].panes, {p})
    IN [panes |-> panes, zoomed |-> KeptZoom(panes, h.layout[t].zoomed)]

LayoutStep(t, layout) == [kind |-> "Layout", tab |-> t, layout |-> layout]
RemovedStep(t) == [kind |-> "Removed", tab |-> t]
Rearrangement(changes) == [kind |-> "PanesRearranged", changes |-> changes]

(* A whole tab dropped beside a pane of another tab. *)
MoveTabToPane(t, p, side) ==
    LET target == TabOf(h, p)
        layout == Beside(h.layout[target], p, side, h.layout[t].panes)
        new == [WithoutTab(h, t) EXCEPT !.layout[target] = layout]
    IN /\ target # t
       /\ Commit(new, <<Rearrangement(<<RemovedStep(t), LayoutStep(target, layout)>>)>>)
       /\ Changed
       /\ MovesTo(ToSet(h.layout[t].panes), SessionOfTab(h, t), SessionOfTab(h, target))
       /\ Record(LayoutChange(new, <<t, target>>, {}))
       /\ UNCHANGED <<next, terminals>>

MoveWithinTab(p, q, side) ==
    LET t == TabOf(h, p)
        layout == Beside(Remaining(t, p), q, side, <<p>>)
        new == [h EXCEPT !.layout[t] = layout]
    IN /\ p # q /\ TabOf(h, q) = t
       /\ layout.panes # h.layout[t].panes
       /\ Commit(new, <<LayoutEvent(t, layout)>>)
       /\ Changed
       /\ Record(LayoutChange(new, <<t>>, {}))
       /\ UNCHANGED <<next, terminals, viewers>>

MoveBetweenTabs(p, q, side) ==
    LET t == TabOf(h, p)
        target == TabOf(h, q)
        rest == Remaining(t, p)
        layout == Beside(h.layout[target], q, side, <<p>>)
        source == IF rest.panes = <<>> THEN RemovedStep(t) ELSE LayoutStep(t, rest)
        left_ == IF rest.panes = <<>> THEN WithoutTab(h, t) ELSE [h EXCEPT !.layout[t] = rest]
        new == [left_ EXCEPT !.layout[target] = layout]
    IN /\ t # target
       /\ Commit(new, <<Rearrangement(<<source, LayoutStep(target, layout)>>)>>)
       /\ Changed
       /\ MovesTo({p}, SessionOfTab(h, t), SessionOfTab(h, target))
       /\ Record(LayoutChange(new, <<t, target>>, {}))
       /\ UNCHANGED <<next, terminals>>

(* A pane of several becomes a tab of its own. *)
ExtractPane(p, w, before) ==
    LET t == TabOf(h, p)
        rest == Remaining(t, p)
        tab == next + 1
        layout == [panes |-> <<p>>, zoomed |-> None]
        index == Place(h.tabs[w], before)
        new == [h EXCEPT !.layout = With([@ EXCEPT ![t] = rest], tab, layout),
                         !.tabs[w] = InsertAt(@, index, tab)]
    IN /\ rest.panes # <<>>
       /\ Commit(new, <<Rearrangement(<<[kind |-> "Opened", workspace |-> w, tab |-> tab,
                                          layout |-> layout, index |-> index],
                                         LayoutStep(t, rest)>>)>>)
       /\ Changed /\ next' = next + 1
       /\ MovesTo({p}, SessionOfTab(h, t), SessionOf(h, w))
       /\ Record(LayoutChange(new, <<t, tab>>, {}))
       /\ UNCHANGED terminals

(* Extracting a tab's only pane moves the tab to another workspace. *)
PlaceLonePane(p, w, before) ==
    LET t == TabOf(h, p)
        index == Place(h.tabs[w], before)
        new == Ordered(Unordered(h, t), w, index, t)
    IN /\ Len(h.layout[t].panes) = 1 /\ WorkspaceOf(h, t) # w
       /\ Commit(new, <<Rearrangement(<<[kind |-> "Placed", tab |-> t, workspace |-> w,
                                          index |-> index]>>)>>)
       /\ Changed
       /\ MovesTo({p}, SessionOfTab(h, t), SessionOf(h, w))
       /\ Record(LayoutChange(new, <<t>>, {t}))
       /\ UNCHANGED <<next, terminals>>

-----------------------------------------------------------------------------
(* Undo and redo (mux/restore.rs, layout_history.rs).                         *)

(* The side of an entry a restore leaves and the one it returns to. *)
From(change, direction) == IF direction = "undo" THEN change.after ELSE change.before
To(change, direction) == IF direction = "undo" THEN change.before ELSE change.after
Opposite(direction) == IF direction = "undo" THEN "redo" ELSE "undo"

(* A touched tab is still absent, or still holds the same panes in the same   *)
(* places and session, and the same workspace when it was placed.             *)
StillMatches(from, now, placed) ==
    /\ DOMAIN from = DOMAIN now
    /\ \A t \in DOMAIN from :
        /\ from[t].session = now[t].session
        /\ from[t].layout.panes = now[t].layout.panes
        /\ t \in placed => from[t].workspace = now[t].workspace

(* A tab to reopen or to place needs its recorded workspace, still in the     *)
(* recorded session.                                                          *)
HasDestination(record) ==
    record.workspace \in DOMAIN h.tabs /\ SessionOf(h, record.workspace) = record.session

Returning(change, to, now) ==
    {t \in DOMAIN to : t \notin DOMAIN now \/ t \in change.placed}

\* Mutant: an entry is checked against the tabs that exist, not what they hold.
RestorableTabs(change, direction) ==
    LET now == Snapshot(h, ToSet(change.tabs))
        to == To(change, direction)
    IN /\ change # NoChange
       /\ DOMAIN From(change, direction) = DOMAIN now
       /\ \A t \in Returning(change, to, now) : HasDestination(to[t])

Restorable(change, direction) ==
    LET T == ToSet(change.tabs)
        now == Snapshot(h, T)
        to == To(change, direction)
        Held(side) == UNION {ToSet(side[t].layout.panes) : t \in DOMAIN side}
    IN /\ change # NoChange
       /\ StillMatches(From(change, direction), now, change.placed)
       /\ Held(now) = Held(to)
       /\ \A t \in Returning(change, to, now) : HasDestination(to[t])

(* The recorded zoom returns when the change set it and nobody did since;     *)
(* otherwise the current one stays while its pane remains.                    *)
RestoredZoom(from, now, to, t) ==
    KeptZoom(to[t].layout.panes,
             IF /\ from[t].layout.zoomed # to[t].layout.zoomed
                /\ from[t].layout.zoomed = now[t].layout.zoomed
             THEN to[t].layout.zoomed ELSE now[t].layout.zoomed)

RestoredLayout(from, now, to, t) ==
    [panes |-> to[t].layout.panes,
     zoomed |-> IF t \in DOMAIN now THEN RestoredZoom(from, now, to, t) ELSE to[t].layout.zoomed]

(* The tabs a restore removes, gives another layout, and places or reopens. *)
TakenAway(to, now) == DOMAIN now \ DOMAIN to
Relaid(from, now, to) ==
    {t \in DOMAIN now \cap DOMAIN to : RestoredLayout(from, now, to, t) # now[t].layout}
PutBack(change, to, now) ==
    {t \in Returning(change, to, now) :
       t \in DOMAIN now => to[t].workspace # now[t].workspace \/ to[t].index # now[t].index}

Insertion(from, now, to, t) ==
    IF t \in DOMAIN now
    THEN [kind |-> "Placed", tab |-> t, workspace |-> to[t].workspace, index |-> to[t].index]
    ELSE [kind |-> "Opened", tab |-> t, workspace |-> to[t].workspace, index |-> to[t].index,
          layout |-> RestoredLayout(from, now, to, t)]

Clamped(g, c) ==
    LET room == Len(IF c.kind = "Placed" THEN Unordered(g, c.tab).tabs[c.workspace]
                    ELSE g.tabs[c.workspace]) + 1
    IN [c EXCEPT !.index = IF @ > room THEN room ELSE @]

(* The structure without the tabs that go, the layouts of the others restored, *)
(* and the changes that say so.                                               *)
Cleared(from, now, to) ==
    WithoutTabs([h EXCEPT !.layout = [t \in DOMAIN @ |-> IF t \in Relaid(from, now, to)
                                                         THEN RestoredLayout(from, now, to, t) ELSE @[t]]],
                TakenAway(to, now))

ClearingSteps(tabs, from, now, to) ==
    LET removed == Dropped(tabs, ToSet(tabs) \ TakenAway(to, now))
        laid == Dropped(tabs, ToSet(tabs) \ Relaid(from, now, to))
    IN [i \in DOMAIN removed |-> RemovedStep(removed[i])]
         \o [i \in DOMAIN laid |-> LayoutStep(laid[i], RestoredLayout(from, now, to, laid[i]))]

Reinserted(done, from, now, to, t) ==
    LET c == Clamped(done.h, Insertion(from, now, to, t))
    IN [h |-> StepDone(done.h, c), steps |-> Append(done.steps, c)]

(* The tab of the highest recorded position. *)
Highest(to, T) == CHOOSE t \in T : \A u \in T : to[u].index <= to[t].index

(* The changes of a restore in order: tabs removed, layouts restored, then    *)
(* tabs placed or reopened, the lower positions first, each clamped to its    *)
(* workspace's length.                                                        *)
RestoreSteps(change, direction) ==
    LET now == Snapshot(h, ToSet(change.tabs))
        from == From(change, direction)
        to == To(change, direction)
        placing[T \in SUBSET PutBack(change, to, now)] ==
          IF T = {} THEN [h |-> Cleared(from, now, to),
                          steps |-> ClearingSteps(change.tabs, from, now, to)]
          ELSE LET t == Highest(to, T) IN Reinserted(placing[T \ {t}], from, now, to, t)
    IN placing[PutBack(change, to, now)]

(* Panes that change tabs, and those that change sessions. *)
Homes(snapshot, p) == {t \in DOMAIN snapshot : Contains(snapshot[t].layout.panes, p)}
Moved(now, to) == {p \in terminals : Homes(now, p) # Homes(to, p)}
\* Mutant: only tabs that are still there are looked at.
LeavesOpenTab(change, now, to) ==
    {p \in terminals : \E t \in Homes(now, p), u \in Homes(to, p) \cap DOMAIN now :
                         now[t].session # now[u].session}
LeavesSession(change, now, to) ==
    LET Session(u) == IF u \in Returning(change, to, now) THEN to[u].session ELSE now[u].session
    IN {p \in terminals : \E t \in Homes(now, p), u \in Homes(to, p) : now[t].session # Session(u)}

\* Mutant: only terminals that change tabs count.
AdvancesPanes(steps, now, to) == Moved(now, to) # {}

(* A tab that opens, goes or changes place, or a terminal that changes tabs,  *)
(* changes what a close covers.                                               *)
Advances(steps, now, to) ==
    \/ \E i \in DOMAIN steps : steps[i].kind # "Layout"
    \/ Moved(now, to) # {}

(* A restore that runs moves its entry to the other direction; a refused one  *)
(* drops it.                                                                  *)
RestoreTabs(direction) ==
    LET change == history[direction]
        now == Snapshot(h, ToSet(change.tabs))
        to == To(change, direction)
        restored == RestoreSteps(change, direction)
    IN /\ Restorable(change, direction)
       /\ Spend /\ h' = restored.h
       /\ Emit(IF restored.steps = <<>> THEN <<>> ELSE <<Rearrangement(restored.steps)>>)
       /\ IF Advances(restored.steps, now, to) THEN Changed ELSE UNCHANGED revision
       /\ RevokeTerminals(LeavesSession(change, now, to))
       /\ history' = [history EXCEPT ![direction] = NoChange, ![Opposite(direction)] = change]
       /\ UNCHANGED <<next, terminals>>

RestoreRefused(direction) ==
    /\ history[direction] # NoChange /\ ~Restorable(history[direction], direction)
    /\ history' = [history EXCEPT ![direction] = NoChange]
    /\ UNCHANGED <<h, terminals, viewers, next, revision, seq, queue, left>>

-----------------------------------------------------------------------------
(* Closing.  Each operation stops the terminals of what it removes.           *)

CloseTab(t) ==
    /\ Commit(WithoutTab(h, t), <<[kind |-> "TabClosed", tab |-> t]>>)
    /\ Changed
    /\ CloseTerminals(ToSet(h.layout[t].panes))
    /\ UNCHANGED <<next, history>>

(* Several tabs, one after the other. *)
CloseTabs(tabs) ==
    /\ Commit(WithoutTabs(h, ToSet(tabs)), [i \in DOMAIN tabs |-> [kind |-> "TabClosed", tab |-> tabs[i]]])
    /\ Changed
    /\ CloseTerminals(PanesIn(h, ToSet(tabs)))
    /\ UNCHANGED <<next, history>>

(* The last pane of a tab closes the tab. *)
ClosePane(p) ==
    LET t == TabOf(h, p)
        rest == Remaining(t, p)
    IN IF rest.panes = <<>> THEN CloseTab(t)
       ELSE /\ Commit([h EXCEPT !.layout[t] = rest], <<LayoutEvent(t, rest)>>)
            /\ Changed
            /\ CloseTerminals({p})
            /\ UNCHANGED <<next, history>>

CloseWorkspace(w) ==
    /\ Commit(WithoutWorkspaces(h, {w}), <<[kind |-> "WorkspaceClosed", workspace |-> w]>>)
    /\ Changed
    /\ CloseTerminals(PanesIn(h, ToSet(h.tabs[w])))
    /\ UNCHANGED <<next, history>>

(* A session takes the viewers of its attachments, its attachments and its    *)
(* terminals with it.                                                         *)
CloseSession(s) ==
    LET ended == PanesIn(h, TabsIn(h, ToSet(h.workspaces[s])))
    IN /\ Commit(WithoutSession(h, s), <<[kind |-> "SessionClosed", session |-> s]>>)
       /\ Changed
       /\ terminals' = terminals \ ended
       /\ viewers' = {v \in viewers : v[2] \notin ended /\ h.attachments[v[1]] # s}
       /\ UNCHANGED <<next, history>>

(* Quit: everything goes, the terminals by the table of runtimes. *)
Shutdown ==
    /\ Commit(EmptyHierarchy, IF h.sessions = <<>> THEN <<>> ELSE <<[kind |-> "Reset"]>>)
    /\ Changed
    /\ CloseTerminals(terminals)
    /\ UNCHANGED <<next, history>>

-----------------------------------------------------------------------------
(* Attachments and viewers (mux/lifecycle.rs, mux.rs).                        *)

AttachSession(s) ==
    /\ Commit([h EXCEPT !.attachments = With(@, next + 1, s)],
              <<[kind |-> "AttachmentCreated", attachment |-> next + 1, session |-> s]>>)
    /\ Changed /\ next' = next + 1
    /\ UNCHANGED <<terminals, viewers, history>>

RevokeAttachment(a) == viewers' = {v \in viewers : v[1] # a}

DetachSession(a) ==
    /\ Commit([h EXCEPT !.attachments = Without(@, {a})],
              <<[kind |-> "AttachmentDetached", attachment |-> a]>>)
    /\ Changed /\ RevokeAttachment(a)
    /\ UNCHANGED <<next, terminals, history>>

RetargetAttachment(a, s) ==
    /\ h.attachments[a] # s
    /\ Commit([h EXCEPT !.attachments[a] = s],
              <<[kind |-> "AttachmentRetargeted", attachment |-> a, session |-> s]>>)
    /\ Changed /\ RevokeAttachment(a)
    /\ UNCHANGED <<next, terminals, history>>

(* A viewer registers with a terminal of its attachment's session. *)
SubscribeTerminal(a, p) ==
    /\ SessionOfPane(h, p) = h.attachments[a]
    /\ <<a, p>> \notin viewers
    /\ Spend /\ viewers' = viewers \cup {<<a, p>>}
    /\ UNCHANGED <<h, terminals, next, revision, seq, queue, history>>

-----------------------------------------------------------------------------
Anchors(list) == {None} \cup ToSet(list)

Creates ==
    \/ CreateSession \/ SpawnFails
    \/ \E s \in DOMAIN h.workspaces : CreateWorkspace(s) \/ AttachSession(s)
    \/ \E w \in DOMAIN h.tabs : OpenTab(w)
    \/ \E t \in DOMAIN h.layout, side \in Sides :
        \E p \in ToSet(h.layout[t].panes) : SplitPane(t, p, side)

Arranges ==
    \E t \in DOMAIN h.layout :
        LET panes == ToSet(h.layout[t].panes)
        IN \/ \E p \in panes \cup {None} : SetPaneZoom(t, p)
           \/ \E a, b \in panes : SwapPanes(t, a, b)
           \/ \E order \in [DOMAIN h.layout[t].panes -> panes] : ArrangePanes(t, order)

Moves ==
    \/ \E t \in DOMAIN h.layout, w \in DOMAIN h.tabs :
        \E before \in Anchors(h.tabs[w]) : MoveTab(t, w, before)
    \/ \E w \in DOMAIN h.tabs, s \in DOMAIN h.workspaces :
        \E before \in Anchors(h.workspaces[s]) : MoveWorkspace(w, s, before)
    \/ \E q \in Panes(h), side \in Sides :
        \/ \E t \in DOMAIN h.layout : MoveTabToPane(t, q, side)
        \/ \E p \in Panes(h) : MoveWithinTab(p, q, side) \/ MoveBetweenTabs(p, q, side)
    \/ \E p \in Panes(h), w \in DOMAIN h.tabs :
        \E before \in Anchors(h.tabs[w]) : ExtractPane(p, w, before) \/ PlaceLonePane(p, w, before)

Restores == \E direction \in {"undo", "redo"} : RestoreTabs(direction) \/ RestoreRefused(direction)

Closes ==
    \/ \E p \in Panes(h) : ClosePane(p)
    \/ \E t \in DOMAIN h.layout : CloseTab(t)
    \/ \E w \in DOMAIN h.tabs : CloseWorkspace(w)
    \/ \E s \in DOMAIN h.workspaces : CloseSession(s)

Views ==
    \E a \in DOMAIN h.attachments :
        \/ DetachSession(a)
        \/ \E s \in DOMAIN h.workspaces : RetargetAttachment(a, s)
        \/ \E p \in Panes(h) : SubscribeTerminal(a, p)

MuxNext == Creates \/ Arranges \/ Moves \/ Restores \/ Closes \/ Shutdown \/ Views

-----------------------------------------------------------------------------
TypeOK ==
    /\ IsHierarchy(h)
    /\ Ids(h) \cup terminals \subseteq 1..next
    /\ viewers \subseteq (DOMAIN h.attachments) \X terminals
    /\ revision \in Nat /\ seq \in Nat
    /\ queue.open \in BOOLEAN /\ queue.lagged \in BOOLEAN /\ queue.wake \in BOOLEAN
    /\ Len(queue.events) <= Capacity
    /\ left \in Nat

(* Every workspace is in one session, every tab in one workspace, every pane  *)
(* in one tab, and the panes shown are exactly those whose terminals run:     *)
(* no sequence of moves, restores and closes loses a pane, shows it twice or  *)
(* leaves a terminal nobody can reach.                                        *)
OneHome == TypeOK /\ Sound(h, terminals)

(* A viewer watches a terminal of the session its attachment views: whatever  *)
(* moved the terminal or the attachment elsewhere revoked it.                 *)
ViewersInSession ==
    \A v \in viewers : SessionOfPane(h, v[2]) = h.attachments[v[1]]
=============================================================================
