------------------------------ MODULE Hierarchy ------------------------------
(* The runtime's structure as its clients see it, and the events that         *)
(* describe how it changes (huterm-protocol/src/hierarchy.rs): sessions hold  *)
(* workspaces, workspaces hold tabs, tabs hold panes, and attachments view    *)
(* sessions.  A layout is its panes in traversal order and its shared zoom;   *)
(* splits, weights and names are left out.  A pane and its terminal are born  *)
(* and die together and share one identity here.  Positions count from 1.     *)
EXTENDS Integers, FiniteSets, SequencesExt, Functions

(* Identities are allocated from 1. *)
None == 0

(* order of the sessions, of each session's workspaces and of each            *)
(* workspace's tabs, the layout of each tab, and the attachments' sessions.   *)
EmptyHierarchy == [sessions |-> <<>>, workspaces |-> <<>>, tabs |-> <<>>,
                   layout |-> <<>>, attachments |-> <<>>]

(* A list without the members of S, the others in their order. *)
Dropped(s, S) ==
    LET kept[i \in 0..Len(s)] ==
          IF i = 0 THEN <<>>
          ELSE IF s[i] \in S THEN kept[i - 1] ELSE Append(kept[i - 1], s[i])
    IN kept[Len(s)]

Without(f, S) == Restrict(f, DOMAIN f \ S)
With(f, x, y) == [z \in DOMAIN f \cup {x} |-> IF z = x THEN y ELSE f[z]]

SessionOf(h, w) == CHOOSE s \in DOMAIN h.workspaces : Contains(h.workspaces[s], w)
WorkspaceOf(h, t) == CHOOSE w \in DOMAIN h.tabs : Contains(h.tabs[w], t)
PanesIn(h, T) == UNION {ToSet(h.layout[t].panes) : t \in T}
Panes(h) == PanesIn(h, DOMAIN h.layout)
TabOf(h, p) == CHOOSE t \in DOMAIN h.layout : Contains(h.layout[t].panes, p)
SessionOfTab(h, t) == SessionOf(h, WorkspaceOf(h, t))
SessionOfPane(h, p) == SessionOfTab(h, TabOf(h, p))
TabsIn(h, W) == UNION {ToSet(h.tabs[w]) : w \in W}

(* A zoom names a pane of a layout that has another one. *)
ValidZoom(layout) ==
    layout.zoomed # None => Len(layout.panes) > 1 /\ Contains(layout.panes, layout.zoomed)

-----------------------------------------------------------------------------
(* What holds of every structure.                                             *)

IsHierarchy(g) ==
    /\ g = [sessions |-> g.sessions, workspaces |-> g.workspaces, tabs |-> g.tabs,
            layout |-> g.layout, attachments |-> g.attachments]
    /\ g.workspaces = [s \in DOMAIN g.workspaces |-> g.workspaces[s]]
    /\ g.tabs = [w \in DOMAIN g.tabs |-> g.tabs[w]]
    /\ g.layout = [t \in DOMAIN g.layout |->
                     [panes |-> g.layout[t].panes, zoomed |-> g.layout[t].zoomed]]
    /\ g.attachments = [a \in DOMAIN g.attachments |-> g.attachments[a]]
    /\ \A a \in DOMAIN g.attachments : g.attachments[a] \in DOMAIN g.workspaces

(* Together the lists hold the members of E, each in one place of one list. *)
Partition(f, E) ==
    /\ \A x \in DOMAIN f : f[x] \in Seq(E) /\ IsInjective(f[x])
    /\ \A e \in E : \E x \in DOMAIN f : e \in ToSet(f[x])
    /\ \A x, y \in DOMAIN f : x # y => ToSet(f[x]) \cap ToSet(f[y]) = {}

PaneLists(layout) == [t \in DOMAIN layout |-> layout[t].panes]

Sound(g, panes) ==
    /\ g.sessions \in Seq(DOMAIN g.workspaces) /\ IsInjective(g.sessions)
    /\ ToSet(g.sessions) = DOMAIN g.workspaces
    /\ Partition(g.workspaces, DOMAIN g.tabs)
    /\ Partition(g.tabs, DOMAIN g.layout)
    /\ Partition(PaneLists(g.layout), panes)
    /\ \A t \in DOMAIN g.layout : g.layout[t].panes # <<>> /\ ValidZoom(g.layout[t])

-----------------------------------------------------------------------------
(* The structure without some workspaces, or without some tabs. *)
WithoutWorkspaces(h, W) ==
    [h EXCEPT !.workspaces = [s \in DOMAIN @ |-> Dropped(@[s], W)],
              !.tabs = Without(@, W),
              !.layout = Without(@, TabsIn(h, W))]

WithoutTabs(h, T) ==
    [h EXCEPT !.tabs = [w \in DOMAIN @ |-> Dropped(@[w], T)],
              !.layout = Without(@, T)]

WithoutTab(h, t) == WithoutTabs(h, {t})

-----------------------------------------------------------------------------
(* PanesRearranged: changes that run in order on a scratch copy.              *)

CanTake(h, w, i) == w \in DOMAIN h.tabs /\ i \in 1..Len(h.tabs[w]) + 1
Unordered(h, t) == [h EXCEPT !.tabs = [w \in DOMAIN @ |-> Dropped(@[w], {t})]]
Ordered(h, w, i, t) == [h EXCEPT !.tabs[w] = InsertAt(@, i, t)]

StepFits(h, c) ==
    CASE c.kind \in {"Layout", "Removed"} -> c.tab \in DOMAIN h.layout
      [] c.kind = "Placed" -> c.tab \in DOMAIN h.layout /\ CanTake(Unordered(h, c.tab), c.workspace, c.index)
      [] c.kind = "Opened" -> c.tab \notin DOMAIN h.layout /\ CanTake(h, c.workspace, c.index)

StepDone(h, c) ==
    CASE c.kind = "Layout" -> [h EXCEPT !.layout[c.tab] = c.layout]
      [] c.kind = "Removed" -> WithoutTab(h, c.tab)
      [] c.kind = "Placed" -> Ordered(Unordered(h, c.tab), c.workspace, c.index, c.tab)
      [] c.kind = "Opened" -> [Ordered(h, c.workspace, c.index, c.tab)
                                 EXCEPT !.layout = With(@, c.tab, c.layout)]

(* The structure before the changes and after each of them. *)
Rearranged(h, changes) ==
    LET after[i \in 0..Len(changes)] ==
          IF i = 0 THEN h ELSE StepDone(after[i - 1], changes[i])
    IN after

(* A tab has one role in the changes: no change here gives it two. *)
DistinctRoles(changes) ==
    \A i, j \in DOMAIN changes :
        i # j /\ changes[i].tab = changes[j].tab =>
            {changes[i].kind, changes[j].kind} = {"Layout", "Placed"}

(* The touched tabs hold the panes they held before, each in one place.       *)
Conserves(h, after, T) ==
    LET Touched(g) == T \cap DOMAIN g.layout
    IN /\ PanesIn(h, Touched(h)) = PanesIn(after, Touched(after))
       /\ \A t \in Touched(after) :
            /\ ValidZoom(after.layout[t])
            /\ IsInjective(after.layout[t].panes)
            /\ ToSet(after.layout[t].panes) \cap PanesIn(after, Touched(after) \ {t}) = {}

(* Each change fits the structure the ones before it left. *)
Rearranges(h, changes) ==
    LET after == Rearranged(h, changes)
        T == {changes[i].tab : i \in DOMAIN changes}
    IN /\ changes # <<>> /\ DistinctRoles(changes)
       /\ \A i \in DOMAIN changes : StepFits(after[i - 1], changes[i])
       /\ Conserves(h, after[Len(changes)], T)

-----------------------------------------------------------------------------
(* HierarchyState::apply_event: which events fit a state, and the state each  *)
(* leaves.                                                                    *)

LayoutFits(h, t, layout) ==
    ValidZoom(layout) /\ ToSet(layout.panes) \cap PanesIn(h, DOMAIN h.layout \ {t}) = {}

Accepts(h, e) ==
    CASE e.kind = "SessionCreated" ->
            e.session \notin DOMAIN h.workspaces /\ e.index \in 1..Len(h.sessions) + 1
      [] e.kind = "SessionClosed" -> e.session \in DOMAIN h.workspaces
      [] e.kind = "WorkspaceCreated" ->
            /\ e.workspace \notin DOMAIN h.tabs /\ e.session \in DOMAIN h.workspaces
            /\ e.index \in 1..Len(h.workspaces[e.session]) + 1
      [] e.kind = "WorkspaceMoved" ->
            /\ e.workspace \in DOMAIN h.tabs /\ e.session \in DOMAIN h.workspaces
            /\ e.index \in 1..Cardinality(ToSet(h.workspaces[e.session]) \ {e.workspace}) + 1
      [] e.kind = "WorkspaceClosed" -> e.workspace \in DOMAIN h.tabs
      [] e.kind = "TabOpened" ->
            e.tab \notin DOMAIN h.layout /\ LayoutFits(h, e.tab, e.layout) /\ CanTake(h, e.workspace, e.index)
      [] e.kind = "TabMoved" -> e.tab \in DOMAIN h.layout /\ CanTake(Unordered(h, e.tab), e.workspace, e.index)
      [] e.kind = "TabClosed" -> e.tab \in DOMAIN h.layout
      [] e.kind = "PaneLayoutChanged" -> e.tab \in DOMAIN h.layout /\ LayoutFits(h, e.tab, e.layout)
      [] e.kind = "PaneZoomChanged" ->
            e.tab \in DOMAIN h.layout /\ ValidZoom([h.layout[e.tab] EXCEPT !.zoomed = e.zoomed])
      [] e.kind = "PanesRearranged" -> Rearranges(h, e.changes)
      [] e.kind = "AttachmentCreated" ->
            e.attachment \notin DOMAIN h.attachments /\ e.session \in DOMAIN h.workspaces
      [] e.kind = "AttachmentRetargeted" ->
            e.attachment \in DOMAIN h.attachments /\ e.session \in DOMAIN h.workspaces
      [] e.kind = "AttachmentDetached" -> e.attachment \in DOMAIN h.attachments
      [] e.kind = "Reset" -> TRUE

(* Closing a session takes its workspaces and its attachments with it. *)
WithoutSession(h, s) ==
    [WithoutWorkspaces(h, ToSet(h.workspaces[s]))
       EXCEPT !.sessions = Dropped(@, {s}),
              !.workspaces = Without(@, {s}),
              !.attachments = Restrict(@, {a \in DOMAIN @ : @[a] # s})]

Applied(h, e) ==
    CASE e.kind = "SessionCreated" ->
            [h EXCEPT !.sessions = InsertAt(@, e.index, e.session),
                      !.workspaces = With(@, e.session, <<>>)]
      [] e.kind = "SessionClosed" -> WithoutSession(h, e.session)
      [] e.kind = "WorkspaceCreated" ->
            [h EXCEPT !.workspaces[e.session] = InsertAt(@, e.index, e.workspace),
                      !.tabs = With(@, e.workspace, <<>>)]
      [] e.kind = "WorkspaceMoved" ->
            [h EXCEPT !.workspaces =
                [s \in DOMAIN @ |->
                   LET others == Dropped(@[s], {e.workspace})
                   IN IF s = e.session THEN InsertAt(others, e.index, e.workspace) ELSE others]]
      [] e.kind = "WorkspaceClosed" -> WithoutWorkspaces(h, {e.workspace})
      [] e.kind = "TabOpened" -> StepDone(h, [e EXCEPT !.kind = "Opened"])
      [] e.kind = "TabMoved" -> StepDone(h, [e EXCEPT !.kind = "Placed"])
      [] e.kind = "TabClosed" -> WithoutTab(h, e.tab)
      [] e.kind = "PaneLayoutChanged" -> [h EXCEPT !.layout[e.tab] = e.layout]
      [] e.kind = "PaneZoomChanged" -> [h EXCEPT !.layout[e.tab].zoomed = e.zoomed]
      [] e.kind = "PanesRearranged" -> Rearranged(h, e.changes)[Len(e.changes)]
      [] e.kind \in {"AttachmentCreated", "AttachmentRetargeted"} ->
            [h EXCEPT !.attachments = With(@, e.attachment, e.session)]
      [] e.kind = "AttachmentDetached" -> [h EXCEPT !.attachments = Without(@, {e.attachment})]
      [] e.kind = "Reset" -> EmptyHierarchy
=============================================================================
