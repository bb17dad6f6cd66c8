----------------------------- MODULE CloseProofs -----------------------------
(***************************************************************************)
(* Closes and the structure they close.  No operation, whatever its order  *)
(* with others, loses a pane, shows it twice or leaves a viewer where it   *)
(* has no right to watch.  While the revision stands, a close under way    *)
(* means what was prepared; and the jobs that are found again before it    *)
(* commits belong to groups that were shown.                               *)
(***************************************************************************)
EXTENDS CloseConsent, MuxProofs

-----------------------------------------------------------------------------
(* What a close request means while the revision stands.                   *)

LEMMA SameLength ==
  ASSUME NEW s, Distinct(s), NEW t, Distinct(t), ToSet(s) = ToSet(t)
  PROVE  /\ Len(s) = Len(t) /\ (s = <<>> <=> t = <<>>)
         /\ \A x : Contains(s, x) <=> Contains(t, x)
BY ListFacts, ListLength

(* The same tabs in the same workspaces and the same panes in the same tabs. *)
SamePlaces(g, n) ==
    /\ n.workspaces = g.workspaces /\ n.attachments = g.attachments
    /\ DOMAIN n.tabs = DOMAIN g.tabs /\ DOMAIN n.layout = DOMAIN g.layout
    /\ \A w \in DOMAIN g.tabs : /\ ToSet(n.tabs[w]) = ToSet(g.tabs[w])
                                /\ n.tabs[w] = <<>> <=> g.tabs[w] = <<>>
                                /\ \A t : Contains(n.tabs[w], t) <=> Contains(g.tabs[w], t)
    /\ \A t \in DOMAIN g.layout : /\ ToSet(n.layout[t].panes) = ToSet(g.layout[t].panes)
                                  /\ Len(n.layout[t].panes) = Len(g.layout[t].panes)
                                  /\ \A p : Contains(n.layout[t].panes, p) <=> Contains(g.layout[t].panes, p)

LEMMA SamePlacesIs ==
  ASSUME MuxInv, MuxInv', SameScope
  PROVE  SamePlaces(h, h')
<1>1. Whole(h, terminals) /\ Whole(h', terminals')
  BY DEF MuxInv
<1>2. /\ h'.workspaces = h.workspaces /\ h'.attachments = h.attachments
      /\ DOMAIN h'.tabs = DOMAIN h.tabs /\ \A w \in DOMAIN h.tabs : ToSet(h'.tabs[w]) = ToSet(h.tabs[w])
      /\ DOMAIN h'.layout = DOMAIN h.layout
      /\ \A t \in DOMAIN h.layout : ToSet(h'.layout[t].panes) = ToSet(h.layout[t].panes)
  BY DEF SameScope
<1>3. ASSUME NEW w \in DOMAIN h.tabs
      PROVE  /\ h'.tabs[w] = <<>> <=> h.tabs[w] = <<>>
             /\ \A t : Contains(h'.tabs[w], t) <=> Contains(h.tabs[w], t)
  <2> DEFINE s == h.tabs[w]  t == h'.tabs[w]
  <2>1. Distinct(s) /\ Distinct(t) /\ ToSet(s) = ToSet(t)
    BY <1>1, <1>2, PartitionLists DEF Whole
  <2> HIDE DEF s, t
  <2>2. /\ Len(s) = Len(t) /\ (s = <<>> <=> t = <<>>)
        /\ \A x : Contains(s, x) <=> Contains(t, x)
    BY <2>1, SameLength
  <2> QED BY <2>2 DEF s, t
<1>4. ASSUME NEW u \in DOMAIN h.layout
      PROVE  /\ Len(h'.layout[u].panes) = Len(h.layout[u].panes)
             /\ \A p : Contains(h'.layout[u].panes, p) <=> Contains(h.layout[u].panes, p)
  <2> DEFINE s == h.layout[u].panes  t == h'.layout[u].panes
  <2>1. Distinct(s) /\ Distinct(t) /\ ToSet(s) = ToSet(t)
    BY <1>1, <1>2 DEF Whole, GoodLayout
  <2> HIDE DEF s, t
  <2>2. /\ Len(s) = Len(t) /\ (s = <<>> <=> t = <<>>)
        /\ \A x : Contains(s, x) <=> Contains(t, x)
    BY <2>1, SameLength
  <2> QED BY <2>2 DEF s, t
<1> QED BY <1>2, <1>3, <1>4 DEF SamePlaces

LEMMA SameReading ==
  ASSUME NEW g, NEW P, Whole(g, P), NEW n, NEW Q, Whole(n, Q), SamePlaces(g, n)
  PROVE  /\ \A t \in DOMAIN g.layout : WorkspaceOf(n, t) = WorkspaceOf(g, t)
         /\ \A w : SessionOf(n, w) = SessionOf(g, w)
         /\ \A s : Viewing(n, s) = Viewing(g, s)
         /\ \A W \in SUBSET DOMAIN g.tabs : TabsIn(n, W) = TabsIn(g, W)
         /\ \A T \in SUBSET DOMAIN g.layout : PanesIn(n, T) = PanesIn(g, T)
<1>1. \A t \in DOMAIN g.layout : WorkspaceOf(n, t) = WorkspaceOf(g, t)
  <2> TAKE t \in DOMAIN g.layout
  <2>1. WorkspaceOf(g, t) \in DOMAIN g.tabs /\ t \in ToSet(g.tabs[WorkspaceOf(g, t)])
    BY Houses
  <2>2. WorkspaceOf(g, t) \in DOMAIN n.tabs /\ t \in ToSet(n.tabs[WorkspaceOf(g, t)])
    BY <2>1 DEF SamePlaces
  <2> QED BY <2>2, Houses
<1>2. \A w : SessionOf(n, w) = SessionOf(g, w)
  BY DEF SamePlaces, SessionOf
<1>3. \A s : Viewing(n, s) = Viewing(g, s)
  BY DEF SamePlaces, Viewing
<1>4. ASSUME NEW W \in SUBSET DOMAIN g.tabs PROVE TabsIn(n, W) = TabsIn(g, W)
  <2>1. \A w \in W : ToSet(n.tabs[w]) = ToSet(g.tabs[w])
    BY DEF SamePlaces
  <2> QED BY <2>1 DEF TabsIn
<1>5. ASSUME NEW T \in SUBSET DOMAIN g.layout PROVE PanesIn(n, T) = PanesIn(g, T)
  <2>1. \A t \in T : ToSet(n.layout[t].panes) = ToSet(g.layout[t].panes)
    BY DEF SamePlaces
  <2> QED BY <2>1 DEF PanesIn
<1> QED BY <1>1, <1>2, <1>3, <1>4, <1>5

RequestKinds == {"window", "session", "tab", "pane", "tabs", "application", "emptied"}
GoodRequest(r) == r.kind \in RequestKinds /\ (r.kind = "tabs" => Distinct(r.tabs))

(* The targets are there, the effect is the one of now, and so are its      *)
(* terminals.                                                               *)
Meant ==
    /\ Resolves(ticket.request) /\ Resolved(ticket.request) = ticket.effect
    /\ Covered(ticket.effect) = ticket.terminals

TicketInv ==
    ticket.phase # "none" =>
      /\ ticket.revision \in Nat /\ ticket.revision <= revision
      /\ ticket = [phase |-> ticket.phase, request |-> ticket.request, effect |-> ticket.effect,
                   revision |-> ticket.revision, terminals |-> ticket.terminals]
      /\ GoodRequest(ticket.request)
      /\ ticket.revision = revision => Meant

(* What the places of two structures that are alike are read as. *)
LEMMA SameSession ==
  ASSUME NEW g, NEW P, Whole(g, P), NEW n, NEW Q, Whole(n, Q), SamePlaces(g, n),
         NEW s \in DOMAIN g.workspaces
  PROVE  /\ TabsIn(n, ToSet(n.workspaces[s])) = TabsIn(g, ToSet(g.workspaces[s]))
         /\ PanesIn(n, TabsIn(n, ToSet(n.workspaces[s]))) = PanesIn(g, TabsIn(g, ToSet(g.workspaces[s])))
<1> DEFINE W == ToSet(g.workspaces[s])  T == TabsIn(g, W)
<1>1. W \in SUBSET DOMAIN g.tabs
  BY Houses
<1>2. T \in SUBSET DOMAIN g.layout
  BY <1>1, Houses, TabsInIs
<1>3. n.workspaces[s] = g.workspaces[s]
  BY DEF SamePlaces
<1> HIDE DEF W, T
<1>4. TabsIn(n, W) = TabsIn(g, W) /\ PanesIn(n, T) = PanesIn(g, T)
  BY <1>1, <1>2, SameReading
<1> QED BY <1>3, <1>4 DEF W, T

LEMMA WindowSame ==
  ASSUME NEW r, r.kind = "window", Whole(h, terminals), Whole(h', terminals'), SamePlaces(h, h'),
         Resolves(r), NEW e, e = Resolved(r), NEW P, P = Covered(e), ticket'.request = r,
         ticket'.effect = e, ticket'.terminals = P
  PROVE  Meant'
<1> DEFINE a == r.attachment  s == h.attachments[a]  shared == Cardinality(Viewing(h, s)) > 1
<1>1. a \in DOMAIN h.attachments /\ s \in DOMAIN h.workspaces
  BY DEF Resolves, Whole
<1>2. h'.attachments = h.attachments /\ Viewing(h', s) = Viewing(h, s)
  BY DEF SamePlaces, Viewing
<1>3. PanesIn(h', TabsIn(h', ToSet(h'.workspaces[s]))) = PanesIn(h, TabsIn(h, ToSet(h.workspaces[s])))
  BY <1>1, SameSession
<1>4. e = IF shared THEN Detaches(a) ELSE EndsSession(s)
  BY DEF Resolved
<1>5. Resolves(ticket.request)'
  BY <1>1, <1>2 DEF Resolves
<1>6. (Resolved(ticket.request) = ticket.effect)'
  BY <1>2, <1>4 DEF Resolved
<1>7. (Covered(ticket.effect) = ticket.terminals)'
  BY <1>3, <1>4 DEF Covered, Detaches, EndsSession
<1> QED BY <1>5, <1>6, <1>7 DEF Meant

LEMMA EmptiedSame ==
  ASSUME NEW r, r.kind = "emptied", Whole(h, terminals), Whole(h', terminals'), SamePlaces(h, h'),
         Resolves(r), NEW e, e = Resolved(r), NEW P, P = Covered(e), ticket'.request = r,
         ticket'.effect = e, ticket'.terminals = P
  PROVE  Meant'
<1> DEFINE a == r.attachment  s == h.attachments[a]  w == r.workspace
           T == TabsIn(h, ToSet(h.workspaces[s]))  V == Viewing(h, s)
<1>0. a \in DOMAIN h.attachments /\ s \in DOMAIN h.workspaces
  BY DEF Resolves, Whole
<1>1. /\ a \in DOMAIN h.attachments
      /\ w \in DOMAIN h.tabs => h.tabs[w] = <<>> \/ SessionOf(h, w) # s
  BY DEF Resolves
<1>2. /\ h'.attachments = h.attachments /\ Viewing(h', s) = V
      /\ SessionOf(h', w) = SessionOf(h, w) /\ DOMAIN h'.tabs = DOMAIN h.tabs
      /\ w \in DOMAIN h.tabs => (h'.tabs[w] = <<>> <=> h.tabs[w] = <<>>)
  BY DEF SamePlaces, Viewing, SessionOf
<1>3. TabsIn(h', ToSet(h'.workspaces[s])) = T /\ PanesIn(h', TabsIn(h', ToSet(h'.workspaces[s]))) = PanesIn(h, T)
  BY <1>0, SameSession
<1>4. e = IF Cardinality(V) > 1 \/ T # {} THEN Detaches(a) ELSE EndsSession(s)
  BY DEF Resolved
<1>5. Covered(Detaches(a)) = {} /\ Covered(EndsSession(s)) = PanesIn(h, T)
  BY DEF Covered, Detaches, EndsSession
<1>6. s = h'.attachments[a]
  BY <1>2
<1> HIDE DEF s, T, V
<1>7. Resolves(ticket.request)'
  <2>1. w \in DOMAIN h'.tabs => h'.tabs[w] = <<>> \/ SessionOf(h', w) # h'.attachments[a]
    BY <1>1, <1>2, <1>6
  <2> QED BY <1>1, <1>2, <2>1 DEF Resolves
<1>8. (Resolved(ticket.request) = ticket.effect)'
  BY <1>2, <1>3, <1>4, <1>6 DEF Resolved
<1>9. (Covered(ticket.effect) = ticket.terminals)'
  <2>1. CASE Cardinality(V) > 1 \/ T # {}
    BY <1>4, <1>5, <2>1 DEF Covered, Detaches
  <2>2. CASE ~(Cardinality(V) > 1 \/ T # {})
    <3>1. e = EndsSession(s) /\ P = PanesIn(h, T)
      BY <1>4, <1>5, <2>2
    <3> QED BY <1>3, <3>1 DEF Covered, EndsSession
  <2> QED BY <2>1, <2>2
<1> QED BY <1>7, <1>8, <1>9 DEF Meant

LEMMA SessionSame ==
  ASSUME NEW r, r.kind = "session", Whole(h, terminals), Whole(h', terminals'), SamePlaces(h, h'),
         Resolves(r), NEW e, e = Resolved(r), NEW P, P = Covered(e), ticket'.request = r,
         ticket'.effect = e, ticket'.terminals = P
  PROVE  Meant'
<1> DEFINE s == r.session
<1>1. s \in DOMAIN h.workspaces /\ h'.workspaces = h.workspaces /\ e = r
  BY DEF Resolves, Resolved, SamePlaces
<1>2. PanesIn(h', TabsIn(h', ToSet(h'.workspaces[s]))) = PanesIn(h, TabsIn(h, ToSet(h.workspaces[s])))
  BY <1>1, SameSession
<1>3. Resolves(ticket.request)'
  BY <1>1 DEF Resolves
<1>4. (Resolved(ticket.request) = ticket.effect)'
  BY <1>1 DEF Resolved
<1>5. (Covered(ticket.effect) = ticket.terminals)'
  BY <1>1, <1>2 DEF Covered
<1> QED BY <1>3, <1>4, <1>5 DEF Meant

LEMMA TabSame ==
  ASSUME NEW r, r.kind = "tab", Whole(h, terminals), Whole(h', terminals'), SamePlaces(h, h'),
         Resolves(r), NEW e, e = Resolved(r), NEW P, P = Covered(e), ticket'.request = r,
         ticket'.effect = e, ticket'.terminals = P
  PROVE  Meant'
<1> DEFINE t == r.tab  w == r.workspace
<1>1. w \in DOMAIN h.tabs /\ Contains(h.tabs[w], t) /\ e = r
  BY DEF Resolves, Resolved
<1>2. Distinct(h.tabs[w])
  BY <1>1, PartitionLists DEF Whole
<1>3. t \in DOMAIN h.layout
  BY <1>1, <1>2, ListFacts, Houses
<1>4. ToSet(h'.layout[t].panes) = ToSet(h.layout[t].panes)
  BY <1>3 DEF SamePlaces
<1>5. Resolves(ticket.request)'
  BY <1>1 DEF Resolves, SamePlaces
<1>6. (Resolved(ticket.request) = ticket.effect)'
  BY <1>1 DEF Resolved
<1>7. (Covered(ticket.effect) = ticket.terminals)'
  BY <1>1, <1>4 DEF Covered
<1> QED BY <1>5, <1>6, <1>7 DEF Meant

LEMMA PaneSame ==
  ASSUME NEW r, r.kind = "pane", Whole(h, terminals), Whole(h', terminals'), SamePlaces(h, h'),
         Resolves(r), NEW e, e = Resolved(r), NEW P, P = Covered(e), ticket'.request = r,
         ticket'.effect = e, ticket'.terminals = P
  PROVE  Meant'
<1> DEFINE t == r.tab  p == r.pane
<1>1. t \in DOMAIN h.layout /\ Contains(h.layout[t].panes, p)
  BY DEF Resolves
<1>2. /\ ToSet(h'.layout[t].panes) = ToSet(h.layout[t].panes)
      /\ Len(h'.layout[t].panes) = Len(h.layout[t].panes)
      /\ Contains(h'.layout[t].panes, p) /\ t \in DOMAIN h'.layout
  BY <1>1 DEF SamePlaces
<1>3. WorkspaceOf(h', t) = WorkspaceOf(h, t)
  BY <1>1, SameReading
<1>4. e = IF Len(h.layout[t].panes) = 1 THEN EndsTab(t) ELSE r
  BY DEF Resolved
<1>5. Resolves(ticket.request)'
  BY <1>2 DEF Resolves
<1>6. (Resolved(ticket.request) = ticket.effect)'
  BY <1>2, <1>3, <1>4 DEF Resolved, EndsTab
<1>7. (Covered(ticket.effect) = ticket.terminals)'
  BY <1>2, <1>4 DEF Covered, EndsTab
<1> QED BY <1>5, <1>6, <1>7 DEF Meant

LEMMA TabsSame ==
  ASSUME NEW r, r.kind = "tabs", Whole(h, terminals), Whole(h', terminals'), SamePlaces(h, h'),
         Resolves(r), NEW e, e = Resolved(r), NEW P, P = Covered(e), ticket'.request = r,
         ticket'.effect = e, ticket'.terminals = P
  PROVE  Meant'
<1> DEFINE T == ToSet(r.tabs)  w == r.workspace
<1>1. w \in DOMAIN h.tabs /\ T \subseteq ToSet(h.tabs[w]) /\ e = r
  BY DEF Resolves, Resolved
<1>2. T \in SUBSET DOMAIN h.layout
  BY <1>1, Houses
<1>3. w \in DOMAIN h'.tabs /\ ToSet(h'.tabs[w]) = ToSet(h.tabs[w])
  BY <1>1 DEF SamePlaces
<1>4. Resolves(ticket.request)'
  BY <1>1, <1>3 DEF Resolves
<1>5. (Resolved(ticket.request) = ticket.effect)'
  BY <1>1 DEF Resolved
<1>6. PanesIn(h', T) = PanesIn(h, T)
  <2> HIDE DEF T
  <2> QED BY <1>2, SameReading
<1>7. (Covered(ticket.effect) = ticket.terminals)'
  BY <1>1, <1>6 DEF Covered
<1> QED BY <1>4, <1>5, <1>7 DEF Meant

LEMMA AllSame ==
  ASSUME NEW r, r.kind = "application", terminals' = terminals,
         NEW e, e = Resolved(r), NEW P, P = Covered(e), ticket'.request = r,
         ticket'.effect = e, ticket'.terminals = P
  PROVE  Meant'
BY DEF Meant, Resolves, Resolved, Covered

(* The close means what it meant as long as its scope is the same. *)
LEMMA MeantStays ==
  ASSUME MuxInv, MuxInv', SameScope, GoodRequest(ticket.request), Meant,
         ticket' = ticket
  PROVE  Meant'
<1>1. Whole(h, terminals) /\ Whole(h', terminals') /\ SamePlaces(h, h') /\ terminals' = terminals
  BY SamePlacesIs DEF MuxInv, SameScope
<1> DEFINE r == ticket.request  e == ticket.effect  P == ticket.terminals
<1>2. Resolves(r) /\ e = Resolved(r) /\ P = Covered(e)
  BY DEF Meant
<1>3. ticket'.request = r /\ ticket'.effect = e /\ ticket'.terminals = P /\ r.kind \in RequestKinds
  BY DEF GoodRequest
<1> HIDE DEF r, e, P
<1>4. \/ r.kind = "window" \/ r.kind = "session" \/ r.kind = "tab" \/ r.kind = "pane"
      \/ r.kind = "tabs" \/ r.kind = "application" \/ r.kind = "emptied"
  BY <1>3 DEF RequestKinds
<1> QED BY <1>1, <1>2, <1>3, <1>4, WindowSame, SessionSame, TabSame, PaneSame, TabsSame, AllSame, EmptiedSame

-----------------------------------------------------------------------------
(* What a close does.                                                      *)

(* The panes of tabs are panes whose terminals run. *)
LEMMA PanesRun ==
  ASSUME NEW g, NEW P, Whole(g, P), NEW T, T \subseteq DOMAIN g.layout
  PROVE  PanesIn(g, T) \subseteq P
BY Houses, PanesInIs

LEMMA SessionTabs ==
  ASSUME NEW g, NEW P, Whole(g, P), NEW s \in DOMAIN g.workspaces
  PROVE  TabsIn(g, ToSet(g.workspaces[s])) \subseteq DOMAIN g.layout
BY Houses, TabsInIs

LEMMA DetachPerforms ==
  ASSUME MuxInv, NEW a \in DOMAIN h.attachments, Perform(Detaches(a))
  PROVE  MuxInv' /\ Accounted /\ terminals \ terminals' = Covered(Detaches(a))
<1>1. DetachSession(a) /\ Covered(Detaches(a)) = {}
  BY DEF Perform, Covered, Detaches
<1>2. terminals' = terminals
  BY <1>1 DEF DetachSession
<1> QED BY <1>1, <1>2, DetachSessionKeeps

LEMMA SessionPerforms ==
  ASSUME MuxInv, NEW e, e.kind = "session", e.session \in DOMAIN h.workspaces, Perform(e)
  PROVE  MuxInv' /\ Accounted /\ terminals \ terminals' = Covered(e)
<1> DEFINE s == e.session  E == PanesIn(h, TabsIn(h, ToSet(h.workspaces[s])))
<1>1. CloseSession(s) /\ Covered(e) = E
  BY DEF Perform, Covered
<1>2. E \subseteq terminals
  BY PanesRun, SessionTabs DEF MuxInv
<1>3. terminals' = terminals \ E
  BY <1>1 DEF CloseSession
<1>4. MuxInv' /\ Accounted
  BY <1>1, CloseSessionKeeps
<1> HIDE DEF E
<1> QED BY <1>1, <1>2, <1>3, <1>4

LEMMA TabPerforms ==
  ASSUME MuxInv, NEW t \in DOMAIN h.layout, CloseTab(t)
  PROVE  MuxInv' /\ Accounted /\ terminals \ terminals' = ToSet(h.layout[t].panes)
<1> DEFINE E == ToSet(h.layout[t].panes)
<1>1. E \subseteq terminals
  BY Houses DEF MuxInv
<1>2. terminals' = terminals \ E
  BY DEF CloseTab, CloseTerminals
<1>3. MuxInv' /\ Accounted
  BY CloseTabKeeps
<1> HIDE DEF E
<1>4. terminals \ terminals' = E
  BY <1>1, <1>2
<1> QED BY <1>3, <1>4 DEF E

LEMMA PanePerforms ==
  ASSUME MuxInv, NEW t \in DOMAIN h.layout, NEW p \in ToSet(h.layout[t].panes), ClosePane(p)
  PROVE  MuxInv' /\ Accounted /\ terminals \ terminals' = {p}
<1>1. Whole(h, terminals)
  BY DEF MuxInv
<1>2. p \in terminals /\ t = TabOf(h, p)
  BY <1>1, Houses
<1>3. Distinct(h.layout[t].panes)
  BY <1>1 DEF Whole, GoodLayout
<1>4. MuxInv' /\ Accounted
  BY <1>2, ClosePaneKeeps
<1>5. CASE Remaining(t, p).panes = <<>>
  <2>1. CloseTab(t)
    BY <1>2, <1>5 DEF ClosePane
  <2>2. terminals' = terminals \ ToSet(h.layout[t].panes)
    BY <2>1 DEF CloseTab, CloseTerminals
  <2>3. ToSet(h.layout[t].panes) \subseteq {p}
    BY <1>3, <1>5, RemainingIs
  <2> QED BY <1>2, <1>4, <2>2, <2>3
<1>6. CASE Remaining(t, p).panes # <<>>
  <2>1. terminals' = terminals \ {p}
    BY <1>2, <1>6 DEF ClosePane, CloseTerminals
  <2> QED BY <1>2, <1>4, <2>1
<1> QED BY <1>5, <1>6

LEMMA TabsPerforms ==
  ASSUME MuxInv, NEW tabs, Distinct(tabs), ToSet(tabs) \subseteq DOMAIN h.layout, CloseTabs(tabs)
  PROVE  MuxInv' /\ Accounted /\ terminals \ terminals' = PanesIn(h, ToSet(tabs))
<1> DEFINE T == ToSet(tabs)  E == PanesIn(h, T)
<1>1. E \subseteq terminals
  BY PanesRun DEF MuxInv
<1>2. terminals' = terminals \ E
  BY DEF CloseTabs, CloseTerminals
<1>3. MuxInv' /\ Accounted
  BY ListFacts, CloseTabsKeeps
<1> HIDE DEF E
<1>4. terminals \ terminals' = E
  BY <1>1, <1>2
<1> QED BY <1>3, <1>4 DEF E

(* A close that resolves now keeps the structure sound and stops the       *)
(* terminals it covers.                                                    *)
LEMMA Performs ==
  ASSUME MuxInv, NEW r, GoodRequest(r), Resolves(r), Perform(Resolved(r))
  PROVE  MuxInv' /\ Accounted /\ terminals \ terminals' = Covered(Resolved(r))
<1> DEFINE e == Resolved(r)
<1>0. Whole(h, terminals)
  BY DEF MuxInv
<1>1. CASE r.kind = "window" \/ r.kind = "emptied"
  <2> DEFINE a == r.attachment  s == h.attachments[a]
  <2>1. a \in DOMAIN h.attachments /\ s \in DOMAIN h.workspaces
    BY <1>0, <1>1 DEF Resolves, Whole
  <2>2. e = Detaches(a) \/ e = EndsSession(s)
    BY <1>1 DEF Resolved
  <2> HIDE DEF e
  <2>3. CASE e = Detaches(a)
    BY <2>1, <2>3, DetachPerforms DEF e
  <2>4. CASE e = EndsSession(s)
    <3>1. e.kind = "session" /\ e.session \in DOMAIN h.workspaces
      BY <2>1, <2>4 DEF EndsSession
    <3>2. Perform(e)
      BY DEF e
    <3>3. MuxInv' /\ Accounted /\ terminals \ terminals' = Covered(e)
      BY <3>1, <3>2, SessionPerforms
    <3> QED BY <3>3 DEF e
  <2> QED BY <2>2, <2>3, <2>4
<1>2. CASE r.kind = "session"
  <2>1. e = r /\ e.kind = "session" /\ e.session \in DOMAIN h.workspaces /\ Perform(e)
    BY <1>2 DEF Resolved, Resolves
  <2> HIDE DEF e
  <2>2. MuxInv' /\ Accounted /\ terminals \ terminals' = Covered(e)
    BY <2>1, SessionPerforms
  <2> QED BY <2>2 DEF e
<1>3. CASE r.kind = "tab"
  <2> DEFINE t == r.tab  w == r.workspace
  <2>1. w \in DOMAIN h.tabs /\ Contains(h.tabs[w], t) /\ e = r
    BY <1>3 DEF Resolves, Resolved
  <2>2. Distinct(h.tabs[w])
    BY <1>0, <2>1, PartitionLists DEF Whole
  <2>3. t \in DOMAIN h.layout
    BY <1>0, <2>1, <2>2, ListFacts, Houses
  <2>4. CloseTab(t) /\ Covered(e) = ToSet(h.layout[t].panes)
    BY <1>3, <2>1 DEF Perform, Covered
  <2> HIDE DEF e, t
  <2>5. MuxInv' /\ Accounted /\ terminals \ terminals' = ToSet(h.layout[t].panes)
    BY <2>3, <2>4, TabPerforms
  <2> QED BY <2>4, <2>5 DEF e
<1>4. CASE r.kind = "pane"
  <2> DEFINE t == r.tab  p == r.pane
  <2>1. t \in DOMAIN h.layout /\ Contains(h.layout[t].panes, p)
    BY <1>4 DEF Resolves
  <2>2. p \in ToSet(h.layout[t].panes)
    BY <1>0, <2>1, ListFacts DEF Whole, GoodLayout
  <2>3. e = EndsTab(t) \/ e = r
    BY <1>4 DEF Resolved
  <2>4. CASE e = EndsTab(t)
    <3>1. CloseTab(t) /\ Covered(e) = ToSet(h.layout[t].panes)
      BY <2>4 DEF Perform, Covered, EndsTab
    <3> HIDE DEF e, t
    <3>2. MuxInv' /\ Accounted /\ terminals \ terminals' = ToSet(h.layout[t].panes)
      BY <2>1, <3>1, TabPerforms
    <3> QED BY <3>1, <3>2 DEF e
  <2>5. CASE e = r
    <3>1. ClosePane(p) /\ Covered(e) = {p}
      BY <1>4, <2>5 DEF Perform, Covered
    <3> HIDE DEF e, t, p
    <3>2. MuxInv' /\ Accounted /\ terminals \ terminals' = {p}
      BY <2>1, <2>2, <3>1, PanePerforms
    <3> QED BY <3>1, <3>2 DEF e
  <2> QED BY <2>3, <2>4, <2>5
<1>5. CASE r.kind = "tabs"
  <2> DEFINE tabs == r.tabs  w == r.workspace
  <2>1. w \in DOMAIN h.tabs /\ ToSet(tabs) \subseteq ToSet(h.tabs[w]) /\ e = r /\ Distinct(tabs)
    BY <1>5 DEF Resolves, Resolved, GoodRequest
  <2>2. ToSet(tabs) \subseteq DOMAIN h.layout
    BY <1>0, <2>1, Houses
  <2>3. CloseTabs(tabs) /\ Covered(e) = PanesIn(h, ToSet(tabs))
    BY <1>5, <2>1 DEF Perform, Covered
  <2> HIDE DEF e, tabs
  <2>4. MuxInv' /\ Accounted /\ terminals \ terminals' = PanesIn(h, ToSet(tabs))
    BY <2>1, <2>2, <2>3, TabsPerforms
  <2> QED BY <2>3, <2>4 DEF e
<1>6. CASE r.kind = "application"
  <2>1. Shutdown /\ Covered(e) = terminals
    BY <1>6 DEF Perform, Covered, Resolved
  <2>2. terminals' = terminals \ terminals
    BY <2>1 DEF Shutdown, CloseTerminals
  <2>3. MuxInv' /\ Accounted
    BY <2>1, ShutdownKeeps
  <2> QED BY <2>1, <2>2, <2>3
<1>7. r.kind \in RequestKinds
  BY DEF GoodRequest
<1> HIDE DEF e
<1> QED BY <1>1, <1>2, <1>3, <1>4, <1>5, <1>6, <1>7 DEF RequestKinds

-----------------------------------------------------------------------------
(* The close and what goes on beside it.                                   *)

(* The structure is sound and the close under way means what was prepared. *)
CloseInv == MuxInv /\ TicketInv

LEMMA MeantSame ==
  ASSUME NEW r, NEW e, NEW P, Resolves(r), e = Resolved(r), P = Covered(e), UNCHANGED muxVars,
         ticket'.request = r, ticket'.effect = e, ticket'.terminals = P
  PROVE  Meant'
<1>1. h' = h /\ terminals' = terminals
  BY DEF muxVars
<1>2. Resolves(ticket.request)'
  BY <1>1 DEF Resolves
<1>3. (Resolved(ticket.request) = ticket.effect)'
  BY <1>1 DEF Resolved, EndsTab
<1>4. (Covered(ticket.effect) = ticket.terminals)'
  BY <1>1 DEF Covered
<1> QED BY <1>2, <1>3, <1>4 DEF Meant

LEMMA TicketSame ==
  ASSUME CloseInv, UNCHANGED <<muxVars, ticket>>
  PROVE  CloseInv'
<1>1. MuxInv'
  BY MuxSame DEF CloseInv
<1>2. revision' = revision /\ ticket' = ticket
  BY DEF muxVars
<1>3. TicketInv'
  BY <1>2, MeantSame DEF CloseInv, TicketInv, Meant
<1> QED BY <1>1, <1>3 DEF CloseInv

(* A further stage of the close. *)
LEMMA TicketNext ==
  ASSUME CloseInv, UNCHANGED muxVars, NEW phase, ticket.phase # "none",
         ticket' = [ticket EXCEPT !.phase = phase]
  PROVE  CloseInv'
<1>1. MuxInv'
  BY MuxSame DEF CloseInv
<1>2. revision' = revision
  BY DEF muxVars
<1>3. ticket = [phase |-> ticket.phase, request |-> ticket.request, effect |-> ticket.effect,
                revision |-> ticket.revision, terminals |-> ticket.terminals]
  BY DEF CloseInv, TicketInv
<1>4. ticket' = [phase |-> phase, request |-> ticket.request, effect |-> ticket.effect,
                 revision |-> ticket.revision, terminals |-> ticket.terminals]
  BY <1>3
<1>5. /\ ticket'.request = ticket.request /\ ticket'.effect = ticket.effect
      /\ ticket'.revision = ticket.revision /\ ticket'.terminals = ticket.terminals
      /\ ticket'.phase = phase
  BY <1>4
<1>6. TicketInv'
  BY <1>2, <1>4, <1>5, MeantSame DEF CloseInv, TicketInv, Meant
<1> QED BY <1>1, <1>6 DEF CloseInv

LEMMA TicketGone ==
  ASSUME MuxInv', GiveUp
  PROVE  CloseInv'
BY DEF GiveUp, NoTicket, CloseInv, TicketInv

LEMMA RequestsAre ==
  ASSUME MuxInv, NEW r \in Requests
  PROVE  GoodRequest(r)
<1>1. \A w \in DOMAIN h.tabs : Distinct(h.tabs[w])
  BY PartitionLists DEF MuxInv, Whole
<1> QED BY <1>1 DEF Requests, GoodRequest, RequestKinds

LEMMA PrepareKeeps ==
  ASSUME CloseInv, NEW r \in Requests, Prepare(r)
  PROVE  CloseInv'
<1> DEFINE e == Resolved(r)  P == Covered(e)
<1>1. UNCHANGED muxVars /\ Resolves(r)
      /\ ticket' = [phase |-> "prepared", request |-> r, effect |-> e, revision |-> revision, terminals |-> P]
  BY DEF Prepare
<1>2. MuxInv'
  BY <1>1, MuxSame DEF CloseInv
<1>3. revision' = revision
  BY <1>1 DEF muxVars
<1>4. ticket'.request = r /\ ticket'.effect = e /\ ticket'.terminals = P
  <2> HIDE DEF e, P
  <2> QED BY <1>1
<1>5. P = Covered(e) /\ e = Resolved(r)
  OBVIOUS
<1> HIDE DEF e, P
<1>6. Meant'
  BY <1>1, <1>4, <1>5, MeantSame
<1>7. revision \in Nat /\ GoodRequest(r)
  BY RequestsAre DEF CloseInv, MuxInv, Counts
<1>8. TicketInv'
  BY <1>1, <1>3, <1>6, <1>7 DEF TicketInv
<1> QED BY <1>2, <1>8 DEF CloseInv

LEMMA OperateKeeps ==
  ASSUME CloseInv, Operate
  PROVE  CloseInv'
<1>1. MuxInv' /\ Accounted
  BY MuxStep DEF Operate, CloseInv
<1>2. ticket' = ticket
  BY DEF Operate, closeVars
<1>3. revision \in Nat
  BY DEF CloseInv, MuxInv, Counts
<1>4. CASE ticket.phase = "none"
  BY <1>1, <1>2, <1>4 DEF CloseInv, TicketInv
<1>5. CASE ticket.phase # "none" /\ revision' = revision + 1
  BY <1>1, <1>2, <1>3, <1>5 DEF CloseInv, TicketInv
<1>6. CASE ticket.phase # "none" /\ revision' = revision /\ SameScope
  <2>1. ticket.revision = revision => Meant'
    BY <1>1, <1>2, <1>6, MeantStays DEF CloseInv, TicketInv
  <2> QED BY <1>1, <1>2, <1>6, <2>1 DEF CloseInv, TicketInv
<1> QED BY <1>1, <1>4, <1>5, <1>6 DEF Accounted

(* The commit performs what the request means now. *)
LEMMA CommitPerforms ==
  ASSUME CloseInv, CommitClose
  PROVE  /\ MuxInv' /\ Resolves(ticket.request) /\ Resolved(ticket.request) = ticket.effect
         /\ terminals \ terminals' = ticket.terminals
<1>1. ticket.phase = "rechecked" /\ ticket.revision = revision /\ Perform(ticket.effect)
  BY DEF CommitClose, Valid
<1>2. Meant /\ GoodRequest(ticket.request) /\ MuxInv
  BY <1>1 DEF CloseInv, TicketInv
<1> DEFINE r == ticket.request
<1>3. Resolves(r) /\ Resolved(r) = ticket.effect /\ Covered(Resolved(r)) = ticket.terminals
  BY <1>2 DEF Meant
<1>4. GoodRequest(r) /\ Perform(Resolved(r))
  BY <1>1, <1>2, <1>3
<1> HIDE DEF r
<1>5. MuxInv' /\ Accounted /\ terminals \ terminals' = Covered(Resolved(r))
  BY <1>2, <1>3, <1>4, Performs
<1> QED BY <1>3, <1>5 DEF r

LEMMA ListKeeps ==
  ASSUME CloseInv, NEW phase, NEW listed, phase # "none", List(phase, listed)
  PROVE  CloseInv'
<1>1. UNCHANGED muxVars /\ ticket.phase # "none" /\ ticket' = [ticket EXCEPT !.phase = listed]
  BY DEF List
<1> QED BY <1>1, TicketNext

(* Jobs, shells and runtimes leave the structure and the ticket alone. *)
LEMMA HappensKeeps ==
  ASSUME CloseInv, Happens
  PROVE  CloseInv'
<1>1. ASSUME NEW p, ShellExits(p) \/ Retire(p) \/ RuntimeStops(p) PROVE UNCHANGED <<muxVars, ticket>>
  BY <1>1 DEF ShellExits, Retire, RuntimeStops, closeVars
<1>2. ASSUME NEW p, NEW g, StartJob(p, g) PROVE UNCHANGED <<muxVars, ticket>>
  BY <1>2 DEF StartJob, closeVars
<1>3. ASSUME NEW x, Fork(x) \/ ProcessExits(x) PROVE UNCHANGED <<muxVars, ticket>>
  BY <1>3 DEF Fork, ProcessExits, closeVars
<1>4. UNCHANGED <<muxVars, ticket>>
  BY <1>1, <1>2, <1>3 DEF Happens
<1> QED BY <1>4, TicketSame

LEMMA CloseStep ==
  ASSUME CloseInv, [Next]_vars
  PROVE  CloseInv'
<1>1. CASE Operate
  BY <1>1, OperateKeeps
<1>2. CASE Happens
  BY <1>2, HappensKeeps
<1>3. ASSUME NEW r \in Requests, Prepare(r) PROVE CloseInv'
  BY <1>3, PrepareKeeps
<1>4. CASE CheckJobs \/ Recheck
  BY <1>4, ListKeeps DEF CheckJobs, Recheck
<1>5. CASE Ask
  <2>1. UNCHANGED muxVars /\ ticket.phase # "none" /\ ticket' = [ticket EXCEPT !.phase = "asked"]
    BY <1>5 DEF Ask
  <2> QED BY <2>1, TicketNext
<1>6. CASE Rechecked
  <2>1. UNCHANGED muxVars /\ ticket.phase # "none" /\ ticket' = [ticket EXCEPT !.phase = "rechecked"]
    BY <1>6 DEF Rechecked
  <2> QED BY <2>1, TicketNext
<1>7. CASE Abandon \/ RefuseClose
  <2>1. UNCHANGED muxVars /\ GiveUp
    BY <1>7 DEF Abandon, RefuseClose
  <2>2. MuxInv'
    BY <2>1, MuxSame DEF CloseInv
  <2> QED BY <2>1, <2>2, TicketGone
<1>8. CASE CommitClose
  <2>1. MuxInv' /\ GiveUp
    BY <1>8, CommitPerforms DEF CommitClose
  <2> QED BY <2>1, TicketGone
<1>9. CASE UNCHANGED vars
  <2>1. UNCHANGED <<muxVars, ticket>>
    BY <1>9 DEF vars, closeVars
  <2> QED BY <2>1, TicketSame
<1> QED BY <1>1, <1>2, <1>3, <1>4, <1>5, <1>6, <1>7, <1>8, <1>9 DEF Next

LEMMA CloseStarts ==
  ASSUME CloseInit
  PROVE  CloseInv
<1>1. PICK b \in Budgets : MuxBegins(b.ops, Unsubscribed) /\ ticket = NoTicket
  BY DEF CloseInit
<1>2. b.ops \in Nat
  BY CloseConstants
<1>3. MuxInv
  BY <1>1, <1>2, MuxStarts, FeedBegins
<1>4. TicketInv
  BY <1>1 DEF TicketInv, NoTicket
<1> QED BY <1>3, <1>4 DEF CloseInv

LEMMA CloseInvariant == CloseSpec => []CloseInv
<1>1. CloseInit => CloseInv
  BY CloseStarts
<1>2. CloseInv /\ [Next]_vars => CloseInv'
  BY CloseStep
<1> QED BY <1>1, <1>2, PTL DEF CloseSpec

-----------------------------------------------------------------------------
(* Whatever is created, moved, merged, extracted, undone, redone or closed, *)
(* every workspace is in one session, every tab in one workspace, every     *)
(* pane in one tab, and the panes shown are those whose terminals run.      *)
THEOREM HomesKept == CloseSpec => []OneHome
<1>1. CloseInv => OneHome
  BY MuxTyped DEF CloseInv
<1> QED BY <1>1, CloseInvariant, PTL

(* A viewer watches only terminals of the session its attachment views:     *)
(* every move into another session, retarget and undo revoked the others.   *)
THEOREM WatchersKept == CloseSpec => []ViewersInSession
<1>1. CloseInv => ViewersInSession
  BY MuxWatched DEF CloseInv
<1> QED BY <1>1, CloseInvariant, PTL

(* A close that commits does what its request means at that moment, which   *)
(* is what was prepared, and stops the assessed terminals and no other.     *)
THEOREM CommitsConsented == CloseSpec => ConsentedScope
<1>1. ASSUME CloseInv, [Next]_vars
      PROVE  [CommitClose => /\ Resolves(ticket.request)
                             /\ Resolved(ticket.request) = ticket.effect
                             /\ terminals \ terminals' = ticket.terminals]_vars
  BY <1>1, CommitPerforms
<1>2. CloseInv /\ [Next]_vars => 
      [CommitClose => /\ Resolves(ticket.request)
                      /\ Resolved(ticket.request) = ticket.effect
                      /\ terminals \ terminals' = ticket.terminals]_vars
  BY <1>1
<1> QED BY <1>2, CloseInvariant, PTL DEF CloseSpec, ConsentedScope

-----------------------------------------------------------------------------
(* The jobs that are listed, shown and found again.                        *)

IsJob(x) == x = [id |-> x.id, pane |-> x.pane, group |-> x.group, instance |-> x.instance,
                 leader |-> x.leader]

(* A process that was started, not one that took over a shell's identity. *)
Genuine(x) == IsJob(x) /\ x.id \in 1..born /\ x.instance \in 1..born

(* One identity is one process, which stays with one instance of a group.  *)
Identified(X) == \A x, y \in X : x.id = y.id => x.instance = y.instance
Grouped(X) == \A x, y \in X : x.group = y.group => x.instance = y.instance

ListedOf(p) == {x \in table.jobs : x.pane = p}
Believed == {x \in table.jobs : x.pane \notin exited}
Shown == UNION {consent[p].jobs : p \in DOMAIN consent}
Seen == processes \cup Believed \cup Shown

(* What the second assessment says of a terminal. *)
Found(p) ==
    /\ \A x \in current[p].jobs : Genuine(x)
    /\ p \in exited \cup retired \/ ListedOf(p) = {} \/ current[p] = Running(ListedOf(p))

JobInv ==
    /\ born \in Nat /\ stopped \subseteq retired /\ table.stopped \subseteq stopped
    /\ ~table.readable => table.jobs = {}
    /\ \A x \in processes : x.pane \notin retired
    /\ \A x \in Seen : Genuine(x)
    /\ Identified(Seen) /\ Grouped(processes) /\ Grouped(Believed)
    /\ ticket.phase \in {"asked", "relisted", "rechecked"} => DOMAIN consent = ticket.terminals
    /\ ticket.phase = "rechecked" => \A p \in ticket.terminals : Found(p)

LEMMA StartedIs ==
  ASSUME NEW jobs, NEW g, Started(jobs, g) # 0
  PROVE  \E x \in jobs : x.group = g /\ x.leader /\ x.instance = Started(jobs, g)
BY DEF Started

LEMMA NotStarted ==
  ASSUME NEW jobs, NEW g, \A x \in jobs : x.instance # 0, Started(jobs, g) = 0
  PROVE  \A x \in jobs : ~(x.group = g /\ x.leader)
<1> DEFINE leaders == {x \in jobs : x.group = g /\ x.leader}
<1>1. Started(jobs, g) = IF leaders = {} THEN 0 ELSE (CHOOSE x \in leaders : TRUE).instance
  BY DEF Started
<1>2. leaders # {} => (CHOOSE x \in leaders : TRUE) \in leaders
  OBVIOUS
<1> QED BY <1>1, <1>2

(* A group that still is the group that was shown. *)
LEMMA SameGroupIs ==
  ASSUME NEW now, NEW then, Grouped(now), Identified(now \cup then), NEW x \in now, NEW y \in then,
         x.group = y.group, SameGroup(now, then, y)
  PROVE  \E z \in then : z.instance = x.instance
<1>1. CASE Started(now, y.group) # 0
  <2>1. PICK l \in now : l.group = y.group /\ l.instance = Started(now, y.group)
    BY <1>1, StartedIs
  <2>2. Started(then, y.group) = Started(now, y.group)
    BY <1>1 DEF SameGroup
  <2>3. PICK z \in then : z.instance = Started(then, y.group)
    BY <1>1, <2>2, StartedIs
  <2>4. l.instance = x.instance
    BY <2>1 DEF Grouped
  <2> QED BY <2>1, <2>2, <2>3, <2>4
<1>2. CASE Started(now, y.group) = 0
  <2>1. PICK m \in now : m.group = y.group /\ m.id = y.id
    BY <1>2 DEF SameGroup
  <2>2. m.instance = x.instance
    BY <2>1 DEF Grouped
  <2>3. m.instance = y.instance
    BY <2>1 DEF Identified
  <2> QED BY <2>2, <2>3
<1> QED BY <1>1, <1>2

(* What an assessment shows of a terminal is listed and genuine. *)
LEMMA AssessedIs ==
  ASSUME JobInv, NEW p
  PROVE  /\ \A x \in Assess(p).jobs : x \in Believed
         /\ p \in exited \cup retired \/ ListedOf(p) = {} \/ Assess(p) = Running(ListedOf(p))
<1> DEFINE listed == {x \in table.jobs : x.pane = p}
<1>1. Assess(p) = IF p \in table.stopped \/ p \in exited \ retired THEN Idle
                  ELSE IF p \in retired \/ ~table.readable THEN Unknown
                  ELSE IF listed = {} THEN Idle ELSE Running(listed)
  BY DEF Assess
<1>2. listed = ListedOf(p)
  BY DEF ListedOf
<1>3. Idle.jobs = {} /\ Unknown.jobs = {} /\ Running(listed).jobs = listed
  BY DEF Idle, Unknown, Running
<1>4. table.stopped \subseteq retired /\ (~table.readable => table.jobs = {})
  BY DEF JobInv
<1>5. p \notin exited => \A x \in listed : x \in Believed
  BY DEF Believed
<1> HIDE DEF listed
<1>6. ~table.readable => listed = {}
  BY <1>4 DEF listed
<1> QED BY <1>1, <1>2, <1>3, <1>4, <1>5, <1>6

(* A commit stops only jobs of groups that were shown. *)
LEMMA CommitShown ==
  ASSUME JobInv, CommitClose, NEW p \in ticket.terminals
  PROVE  /\ consent[p].kind = "unknown" \/ p \in exited \/
              \A x \in processes \cap table.jobs :
                 x.pane = p => \E y \in consent[p].jobs : y.instance = x.instance
         /\ Stranger(p) \notin consent[p].jobs \cup current[p].jobs
<1>1. /\ ticket.phase = "rechecked" /\ DOMAIN consent = ticket.terminals /\ Found(p)
      /\ CoveredBy(current[p], consent[p])
  BY DEF CommitClose, Valid, JobInv
<1>2. consent[p].jobs \subseteq Shown
  BY <1>1 DEF Shown
<1>3. \A x \in consent[p].jobs : Genuine(x)
  BY <1>2 DEF JobInv, Seen
<1>4. ~Genuine(Stranger(p))
  BY DEF Genuine, Stranger, JobInv
<1>5. Stranger(p) \notin consent[p].jobs \cup current[p].jobs
  BY <1>1, <1>3, <1>4 DEF Found
<1>6. ASSUME p \notin exited, NEW x \in processes \cap table.jobs, x.pane = p
      PROVE  \E y \in consent[p].jobs : y.instance = x.instance
  <2> DEFINE now == ListedOf(p)  then == consent[p].jobs
  <2>1. p \notin retired /\ x \in now
    BY <1>6 DEF JobInv, ListedOf
  <2>2. current[p] = Running(now)
    BY <1>1, <1>6, <2>1 DEF Found
  <2>3. now \subseteq Believed
    BY <1>6 DEF ListedOf, Believed
  <2>4. Grouped(now) /\ Identified(now \cup then)
    BY <1>2, <2>3 DEF JobInv, Grouped, Identified, Seen
  <2> HIDE DEF now
  <2>5. PICK y \in then : x.group = y.group /\ SameGroup(now, then, y)
    BY <1>1, <2>1, <2>2 DEF CoveredBy, Running
  <2> HIDE DEF then
  <2>6. \E z \in then : z.instance = x.instance
    BY <2>1, <2>4, <2>5, SameGroupIs
  <2> QED BY <2>6 DEF then
<1> QED BY <1>5, <1>6

LEMMA SeenShrinks ==
  ASSUME NEW X, NEW Y, Y \subseteq X
  PROVE  (Identified(X) => Identified(Y)) /\ (Grouped(X) => Grouped(Y))
BY DEF Identified, Grouped

(* Fewer processes run, more shells and runtimes are gone. *)
LEMMA JobsLess ==
  ASSUME JobInv, processes' \subseteq processes, born' = born, UNCHANGED closeVars,
         exited \subseteq exited', retired \subseteq retired', stopped \subseteq stopped',
         stopped' \subseteq retired', \A x \in processes' : x.pane \notin retired'
  PROVE  JobInv'
<1>1. ticket' = ticket /\ table' = table /\ consent' = consent /\ current' = current
  BY DEF closeVars
<1>2. Believed' \subseteq Believed /\ Shown' = Shown
  BY <1>1 DEF Believed, Shown
<1>3. Seen' \subseteq Seen
  BY <1>2 DEF Seen
<1>4. /\ \A x \in Seen' : Genuine(x)'
      /\ Identified(Seen') /\ Grouped(processes') /\ Grouped(Believed')
  <2>1. \A x \in Seen' : Genuine(x)
    BY <1>3 DEF JobInv
  <2>2. Identified(Seen') /\ Grouped(processes') /\ Grouped(Believed')
    BY <1>2, <1>3, SeenShrinks DEF JobInv
  <2> QED BY <2>1, <2>2 DEF Genuine
<1>5. \A p : Found(p) => Found(p)'
  BY <1>1 DEF Found, Genuine, ListedOf
<1> QED BY <1>1, <1>4, <1>5 DEF JobInv, Identified, Grouped

(* One more process, of a new identity. *)
LEMMA JobsMore ==
  ASSUME JobInv, NEW x, processes' = processes \cup {x}, born' = born + 1, IsJob(x),
         x.id = born + 1, x.instance \in 1..born+1, x.pane \notin retired,
         Grouped(processes \cup {x}), UNCHANGED <<closeVars, exited, retired, stopped>>
  PROVE  JobInv'
<1>1. ticket' = ticket /\ table' = table /\ consent' = consent /\ current' = current
  BY DEF closeVars
<1>2. Believed' = Believed /\ Shown' = Shown
  BY <1>1 DEF Believed, Shown
<1>3. Seen' = Seen \cup {x}
  BY <1>2 DEF Seen
<1>4. born \in Nat /\ \A y \in Seen : Genuine(y)
  BY DEF JobInv
<1>5. \A y : Genuine(y) => Genuine(y)'
  BY <1>4 DEF Genuine
<1>6. \A y \in Seen' : Genuine(y)'
  BY <1>3, <1>4, <1>5 DEF Genuine
<1>7. Identified(Seen')
  <2>1. \A y \in Seen : y.id # x.id
    BY <1>4 DEF Genuine
  <2> QED BY <1>3, <2>1 DEF Identified, JobInv
<1>8. \A p : Found(p) => Found(p)'
  BY <1>1, <1>5 DEF Found, ListedOf
<1> QED BY <1>1, <1>2, <1>4, <1>6, <1>7, <1>8 DEF JobInv, Identified, Grouped

LEMMA JobsGiveUp ==
  ASSUME JobInv, GiveUp, processes' \subseteq processes, UNCHANGED <<born, exited, retired, stopped>>
  PROVE  JobInv'
<1>1. /\ table'.jobs = {} /\ table'.stopped = {} /\ consent' = <<>> /\ ticket'.phase = "none"
  BY DEF GiveUp, Unlisted, Nothing, NoTicket
<1>2. Believed' = {} /\ Shown' = {}
  BY <1>1 DEF Believed, Shown
<1>3. Seen' \subseteq Seen
  BY <1>2 DEF Seen
<1>4. /\ \A x \in Seen' : Genuine(x)'
      /\ Identified(Seen') /\ Grouped(processes') /\ Grouped(Believed')
  <2>1. \A x \in Seen' : Genuine(x)
    BY <1>3 DEF JobInv
  <2>2. Identified(Seen') /\ Grouped(processes') /\ Grouped(Believed')
    BY <1>2, <1>3, SeenShrinks DEF JobInv
  <2> QED BY <2>1, <2>2 DEF Genuine
<1> QED BY <1>1, <1>4 DEF JobInv, Identified, Grouped

LEMMA PrepareJobs ==
  ASSUME JobInv, NEW r, Prepare(r)
  PROVE  JobInv'
<1>1. /\ ticket'.phase = "prepared" /\ table' = table /\ consent' = consent /\ processes' = processes
      /\ born' = born /\ exited' = exited /\ retired' = retired /\ stopped' = stopped
  BY DEF Prepare
<1>2. Believed' = Believed /\ Shown' = Shown
  BY <1>1 DEF Believed, Shown
<1>3. Seen' = Seen /\ \A x : Genuine(x)' <=> Genuine(x)
  BY <1>1, <1>2 DEF Seen, Genuine
<1> QED BY <1>1, <1>2, <1>3 DEF JobInv, Identified, Grouped

(* What moves a close on keeps its request. *)
LEMMA Further ==
  ASSUME TicketInv, ticket.phase # "none", NEW phase, ticket' = [ticket EXCEPT !.phase = phase]
  PROVE  ticket'.phase = phase /\ ticket'.terminals = ticket.terminals
<1>1. ticket = [phase |-> ticket.phase, request |-> ticket.request, effect |-> ticket.effect,
                revision |-> ticket.revision, terminals |-> ticket.terminals]
  BY DEF TicketInv
<1> QED BY <1>1

LEMMA ListJobs ==
  ASSUME JobInv, TicketInv, NEW phase, NEW listed, phase \in {"prepared", "asked"},
         listed \in {"listed", "relisted"}, listed = "relisted" => phase = "asked", List(phase, listed)
  PROVE  JobInv'
<1>1. /\ table' = Listing \/ table' = Unread
      /\ consent' = consent /\ processes' = processes /\ born' = born
      /\ exited' = exited /\ retired' = retired /\ stopped' = stopped
  BY DEF List
<1>2. ticket.phase = phase /\ ticket'.phase = listed /\ ticket'.terminals = ticket.terminals
  BY Further DEF List
<1>3. table'.stopped = stopped /\ (~table'.readable => table'.jobs = {})
      /\ \A x \in table'.jobs : x \in processes \/ x.pane \in exited
  BY <1>1 DEF Listing, Unread, Stranger
<1>4. Believed' \subseteq processes /\ Shown' = Shown
  BY <1>1, <1>3 DEF Believed, Shown
<1>5. Seen' \subseteq Seen
  BY <1>1, <1>4 DEF Seen
<1>6. /\ \A x \in Seen' : Genuine(x)'
      /\ Identified(Seen') /\ Grouped(processes') /\ Grouped(Believed')
  <2>1. \A x \in Seen' : Genuine(x)
    BY <1>5 DEF JobInv
  <2>2. Identified(Seen') /\ Grouped(processes') /\ Grouped(Believed')
    BY <1>1, <1>4, <1>5, SeenShrinks DEF JobInv
  <2> QED BY <1>1, <2>1, <2>2 DEF Genuine
<1>7. ticket'.phase \in {"asked", "relisted", "rechecked"} => DOMAIN consent' = ticket'.terminals
  BY <1>1, <1>2 DEF JobInv
<1>8. ticket'.phase # "rechecked"
  BY <1>2
<1>9. born \in Nat /\ stopped \subseteq retired /\ \A x \in processes : x.pane \notin retired
  BY DEF JobInv
<1> QED BY <1>1, <1>3, <1>6, <1>7, <1>8, <1>9 DEF JobInv, Identified, Grouped

LEMMA AskJobs ==
  ASSUME JobInv, TicketInv, Ask
  PROVE  JobInv'
<1>1. /\ consent' = Assessment /\ table' = table /\ processes' = processes /\ born' = born
      /\ exited' = exited /\ retired' = retired /\ stopped' = stopped
  BY DEF Ask, jobVars
<1>2. ticket'.phase = "asked" /\ ticket'.terminals = ticket.terminals
  BY Further DEF Ask
<1>3. DOMAIN consent' = ticket.terminals /\ \A p \in ticket.terminals : consent'[p] = Assess(p)
  BY <1>1 DEF Assessment
<1>4. Shown' \subseteq Believed
  BY <1>3, AssessedIs DEF Shown
<1>5. Believed' = Believed
  BY <1>1 DEF Believed
<1>6. Seen' \subseteq Seen
  BY <1>1, <1>4, <1>5 DEF Seen
<1>7. /\ \A x \in Seen' : Genuine(x)'
      /\ Identified(Seen')
  <2>1. \A x \in Seen' : Genuine(x)
    BY <1>6 DEF JobInv
  <2>2. Identified(Seen')
    BY <1>6, SeenShrinks DEF JobInv
  <2> QED BY <1>1, <2>1, <2>2 DEF Genuine
<1> QED BY <1>1, <1>2, <1>3, <1>5, <1>7 DEF JobInv, Identified, Grouped

LEMMA RecheckedJobs ==
  ASSUME JobInv, TicketInv, Rechecked
  PROVE  JobInv'
<1>1. /\ current' = Assessment /\ table' = table /\ consent' = consent /\ processes' = processes
      /\ born' = born /\ exited' = exited /\ retired' = retired /\ stopped' = stopped
  BY DEF Rechecked, jobVars
<1>2. ticket.phase = "relisted" /\ ticket'.phase = "rechecked" /\ ticket'.terminals = ticket.terminals
  BY Further DEF Rechecked
<1>3. Believed' = Believed /\ Shown' = Shown
  BY <1>1 DEF Believed, Shown
<1>4. Seen' = Seen /\ \A x : Genuine(x)' <=> Genuine(x)
  BY <1>1, <1>3 DEF Seen, Genuine
<1>5. ASSUME NEW p \in ticket.terminals PROVE Found(p)'
  <2>1. current'[p] = Assess(p)
    BY <1>1 DEF Assessment
  <2>2. /\ \A x \in Assess(p).jobs : Genuine(x)
        /\ p \in exited \cup retired \/ ListedOf(p) = {} \/ Assess(p) = Running(ListedOf(p))
    BY AssessedIs DEF JobInv, Seen
  <2>3. ListedOf(p)' = ListedOf(p)
    BY <1>1 DEF ListedOf
  <2> QED BY <1>1, <1>4, <2>1, <2>2, <2>3 DEF Found
<1>6. DOMAIN consent' = ticket'.terminals
  BY <1>1, <1>2 DEF JobInv
<1> QED BY <1>1, <1>2, <1>3, <1>4, <1>5, <1>6 DEF JobInv, Identified, Grouped

Offspring(y, k) == [y EXCEPT !.id = k, !.leader = FALSE]

LEMMA Forked ==
  ASSUME NEW y, IsJob(y), NEW k
  PROVE  LET x == Offspring(y, k)
         IN IsJob(x) /\ x.id = k /\ x.instance = y.instance /\ x.pane = y.pane /\ x.group = y.group
<1> DEFINE x == Offspring(y, k)
<1>1. x = [id |-> k, pane |-> y.pane, group |-> y.group, instance |-> y.instance, leader |-> FALSE]
  <2> DEFINE z == [y EXCEPT !.id = k]
  <2>1. z = [id |-> k, pane |-> y.pane, group |-> y.group, instance |-> y.instance, leader |-> y.leader]
    BY DEF IsJob
  <2>2. x = [z EXCEPT !.leader = FALSE]
    BY DEF Offspring
  <2> HIDE DEF z, x
  <2> QED BY <2>1, <2>2
<1> HIDE DEF x
<1>2. IsJob(x) /\ x.id = k /\ x.instance = y.instance /\ x.pane = y.pane /\ x.group = y.group
  BY <1>1 DEF IsJob
<1> QED BY <1>2 DEF x

LEMMA HappensJobs ==
  ASSUME JobInv, Happens
  PROVE  JobInv'
<1>0. born \in Nat /\ stopped \subseteq retired /\ Grouped(processes)
      /\ \A x \in processes : x.pane \notin retired /\ Genuine(x)
  BY DEF JobInv, Seen
<1>1. ASSUME NEW p, ShellExits(p) \/ Retire(p) \/ RuntimeStops(p) PROVE JobInv'
  <2>1. /\ processes' \subseteq processes /\ born' = born /\ UNCHANGED closeVars
        /\ exited \subseteq exited' /\ retired \subseteq retired' /\ stopped \subseteq stopped'
        /\ stopped' \subseteq retired' /\ \A x \in processes' : x.pane \notin retired'
    BY <1>0, <1>1 DEF ShellExits, Retire, RuntimeStops
  <2> QED BY <2>1, JobsLess
<1>2. ASSUME NEW p, NEW g, StartJob(p, g) PROVE JobInv'
  <2> DEFINE x == [id |-> born + 1, pane |-> p, group |-> g, instance |-> born + 1, leader |-> TRUE]
  <2>1. /\ processes' = processes \cup {x} /\ born' = born + 1 /\ p \notin retired
        /\ \A y \in processes : y.group # g
        /\ UNCHANGED <<closeVars, exited, retired, stopped>>
    BY <1>2 DEF StartJob
  <2>2. /\ IsJob(x) /\ x.id = born + 1 /\ x.instance \in 1..born+1 /\ x.pane = p /\ x.group = g
    BY <1>0 DEF IsJob
  <2> HIDE DEF x
  <2>3. Grouped(processes \cup {x}) /\ x.pane \notin retired
    BY <1>0, <2>1, <2>2 DEF Grouped
  <2> QED BY <2>1, <2>2, <2>3, JobsMore
<1>3. ASSUME NEW y \in processes, Fork(y) PROVE JobInv'
  <2> DEFINE x == Offspring(y, born + 1)
  <2>1. /\ processes' = processes \cup {x} /\ born' = born + 1
        /\ UNCHANGED <<closeVars, exited, retired, stopped>>
    BY <1>3 DEF Fork, Offspring
  <2>2. IsJob(y) /\ y.instance \in 1..born
    BY <1>0 DEF Genuine
  <2>3. IsJob(x) /\ x.id = born + 1 /\ x.instance = y.instance /\ x.pane = y.pane /\ x.group = y.group
    BY <2>2, Forked
  <2> HIDE DEF x
  <2>4. Grouped(processes \cup {x}) /\ x.pane \notin retired /\ x.instance \in 1..born+1
    BY <1>0, <2>2, <2>3 DEF Grouped
  <2> QED BY <2>1, <2>3, <2>4, JobsMore
<1>4. ASSUME NEW y, ProcessExits(y) PROVE JobInv'
  <2>1. processes' \subseteq processes /\ UNCHANGED <<closeVars, born, exited, retired, stopped>>
    BY <1>4 DEF ProcessExits
  <2> QED BY <1>0, <2>1, JobsLess
<1> QED BY <1>1, <1>2, <1>3, <1>4 DEF Happens

LEMMA JobStep ==
  ASSUME JobInv, TicketInv, [Next]_vars
  PROVE  JobInv'
<1>0. stopped \subseteq retired /\ \A x \in processes : x.pane \notin retired
  BY DEF JobInv
<1>1. CASE Operate \/ UNCHANGED vars
  <2>1. processes' \subseteq processes /\ UNCHANGED <<closeVars, born, exited, retired, stopped>>
    BY <1>1 DEF Operate, JobsEnd, vars, jobVars
  <2> QED BY <1>0, <2>1, JobsLess
<1>2. CASE Happens
  BY <1>2, HappensJobs
<1>3. ASSUME NEW r, Prepare(r) PROVE JobInv'
  BY <1>3, PrepareJobs
<1>4. CASE CheckJobs \/ Recheck
  BY <1>4, ListJobs DEF CheckJobs, Recheck
<1>5. CASE Ask
  BY <1>5, AskJobs
<1>6. CASE Rechecked
  BY <1>6, RecheckedJobs
<1>7. CASE Abandon \/ RefuseClose \/ CommitClose
  <2>1. GiveUp /\ processes' \subseteq processes /\ UNCHANGED <<born, exited, retired, stopped>>
    BY <1>7 DEF Abandon, RefuseClose, CommitClose, JobsEnd, jobVars
  <2> QED BY <2>1, JobsGiveUp
<1> QED BY <1>1, <1>2, <1>3, <1>4, <1>5, <1>6, <1>7 DEF Next

LEMMA JobStarts ==
  ASSUME CloseInit
  PROVE  JobInv
<1>1. /\ ticket = NoTicket /\ table = Unlisted /\ consent = Nothing /\ processes = {} /\ born = 0
      /\ retired = {} /\ stopped = {}
  BY DEF CloseInit
<1>2. /\ table.jobs = {} /\ table.stopped = {} /\ DOMAIN consent = {} /\ ticket.phase = "none"
  BY <1>1 DEF Unlisted, Nothing, NoTicket
<1>3. Believed = {} /\ Shown = {}
  BY <1>2 DEF Believed, Shown
<1>4. Seen = {}
  BY <1>1, <1>3 DEF Seen
<1> QED BY <1>1, <1>2, <1>3, <1>4 DEF JobInv, Identified, Grouped

(* Whatever starts, forks or exits while the user decides, a commit stops   *)
(* only jobs of groups the user was asked about: a group number that another *)
(* job took, or a process that took a shell's identity, is never among them. *)
THEOREM JobsConsented == CloseSpec => ConsentedJobs
<1> DEFINE Told == \A p \in ticket.terminals :
            /\ consent[p].kind = "unknown" \/ p \in exited \/
                 \A x \in processes \cap table.jobs :
                    x.pane = p => \E y \in consent[p].jobs : y.instance = x.instance
            /\ Stranger(p) \notin consent[p].jobs \cup current[p].jobs
<1>1. CloseInit => JobInv
  BY JobStarts
<1>2. CloseInv /\ JobInv /\ [Next]_vars => JobInv'
  BY JobStep DEF CloseInv
<1>3. JobInv /\ [Next]_vars => [CommitClose => Told]_vars
  BY CommitShown
<1> QED BY <1>1, <1>2, <1>3, CloseInvariant, PTL DEF CloseSpec, ConsentedJobs
=============================================================================
