--------------------------- MODULE ProjectionProofs ---------------------------
(***************************************************************************)
(* Every operation of the runtime either changes nothing a client sees or  *)
(* says one event, and that event fits the structure it was said of and    *)
(* turns it into the structure the operation left.  So the events a        *)
(* subscription holds lead from a client's copy to the runtime's           *)
(* structure, whatever the structure and the capacity are.                 *)
(***************************************************************************)
EXTENDS Projection, MuxProofs

-----------------------------------------------------------------------------
(* Lists that an edit leaves as they were, or makes one longer at the end. *)

LEMMA InsertLast ==
  ASSUME NEW s, Distinct(s), NEW x
  PROVE  InsertAt(s, Len(s) + 1, x) = Append(s, x)
<1> DEFINE E == ToSet(s) \cup {x}  n == Len(s)
<1>1. s \in Seq(E) /\ n \in Nat /\ x \in E
  BY ListOf, ListFacts
<1>2. n + 1 \in Int /\ n \in Int /\ n < n + 1 /\ (n + 1) - 1 = n
  BY <1>1
<1>3. SubSeq(s, 1, (n + 1) - 1) = s
  BY <1>1, <1>2, SubSeqFull
<1>4. SubSeq(s, n + 1, n) = <<>>
  BY <1>2, SubSeqEmpty
<1>5. Append(s, x) = s \o <<x>> /\ Append(s, x) \in Seq(E)
  BY <1>1, AppendIsConcat, AppendProperties
<1>6. Append(s, x) \o <<>> = Append(s, x)
  BY <1>5, ConcatEmptySeq
<1>7. InsertAt(s, n + 1, x) = SubSeq(s, 1, (n + 1) - 1) \o <<x>> \o SubSeq(s, n + 1, n)
  BY DEF InsertAt
<1> HIDE DEF n, E
<1>8. InsertAt(s, n + 1, x) = s \o <<x>> \o <<>>
  BY <1>3, <1>4, <1>7
<1>9. InsertAt(s, n + 1, x) = Append(s, x)
  BY <1>5, <1>6, <1>8
<1> QED BY <1>9 DEF n

LEMMA DroppedNone ==
  ASSUME NEW s, Distinct(s), NEW S, ToSet(s) \cap S = {}
  PROVE  Dropped(s, S) = s
<1> DEFINE E == ToSet(s)
           n == Len(s)
           kept == CHOOSE f : f = [i \in 0..n |-> IF i = 0 THEN <<>>
                              ELSE IF s[i] \in S THEN f[i - 1] ELSE Append(f[i - 1], s[i])]
           Same(k) == kept[k] \in Seq(E) /\ Len(kept[k]) = k /\ \A j \in 1..k : kept[k][j] = s[j]
           Bad == {k \in 0..n : ~Same(k)}
<1>1. s \in Seq(E) /\ n \in Nat /\ DOMAIN s = 1..n /\ n \in 0..n /\ \A j \in 1..n : s[j] \in E
  BY ListFacts DEF Distinct, ToSet
<1>2. Keeps(s, S, n, kept)
  <2>1. \E f : Keeps(s, S, n, f)
    BY <1>1, KeepsExists
  <2> QED BY <2>1, Zenon DEF Keeps
<1>3. Dropped(s, S) = kept[n]
  BY DEF Dropped
<1> HIDE DEF kept
<1>4. Bad = {}
  <2> SUFFICES ASSUME Bad # {} PROVE FALSE
    OBVIOUS
  <2>1. PICK m \in Bad : \A k \in Bad : m <= k
    <3>1. Bad \subseteq Nat
      BY <1>1
    <3> HIDE DEF Bad
    <3> QED BY <3>1, Least
  <2>2. m # 0
    <3>1. kept[0] = <<>>
      BY <1>1, <1>2 DEF Keeps
    <3>2. kept[0] \in Seq(E) /\ Len(kept[0]) = 0
      <4> HIDE DEF E
      <4> QED BY <3>1, EmptyList, Zenon
    <3>3. \A j \in 1..0 : kept[0][j] = s[j]
      OBVIOUS
    <3> QED BY <3>2, <3>3, <2>1
  <2>3. m - 1 \in 0..n /\ m \in 1..n /\ Same(m - 1)
    <3> HIDE DEF Same, n
    <3>1. m - 1 \in 0..n /\ m \in 1..n /\ ~(m <= m - 1)
      BY <1>1, <2>1, <2>2
    <3> QED BY <3>1, <2>1
  <2>4. kept[m] = Append(kept[m - 1], s[m])
    <3>1. s[m] \notin S
      BY <1>1, <2>3
    <3>2. m \in 0..n /\ m # 0
      BY <2>3, <1>1
    <3>3. kept[m] = IF s[m] \in S THEN kept[m - 1] ELSE Append(kept[m - 1], s[m])
      BY <1>2, <3>2 DEF Keeps
    <3> QED BY <3>1, <3>3
  <2>5. Same(m)
    <3> DEFINE g == kept[m - 1]
    <3>1. g \in Seq(E) /\ Len(g) = m - 1 /\ s[m] \in E /\ \A j \in 1..m-1 : g[j] = s[j]
      BY <1>1, <2>3
    <3> HIDE DEF g
    <3>2. /\ Append(g, s[m]) \in Seq(E) /\ Len(Append(g, s[m])) = (m - 1) + 1
          /\ \A i \in 1..m-1 : Append(g, s[m])[i] = g[i]
          /\ Append(g, s[m])[(m - 1) + 1] = s[m]
      BY <3>1, AppendProperties
    <3>3. (m - 1) + 1 = m /\ \A j \in 1..m : j = m \/ j \in 1..m-1
      BY <2>3, <1>1
    <3> HIDE DEF E, n
    <3> QED BY <2>4, <3>1, <3>2, <3>3 DEF g
  <2> QED BY <2>5, <2>1
<1>5. Same(n)
  BY <1>1, <1>4
<1> HIDE DEF E, n
<1>6. kept[n] = s
  BY <1>1, <1>5, SeqEqual DEF n
<1> QED BY <1>3, <1>6

-----------------------------------------------------------------------------
(* Which structures an event fits, and what it leaves, one kind at a time.   *)

LEMMA SessionCreatedIs ==
  ASSUME NEW g, NEW e, e.kind = "SessionCreated"
  PROVE  /\ Accepts(g, e) <=> e.session \notin DOMAIN g.workspaces /\ e.index \in 1..Len(g.sessions) + 1
         /\ Applied(g, e) = [g EXCEPT !.sessions = InsertAt(@, e.index, e.session),
                                      !.workspaces = With(@, e.session, <<>>)]
BY DEF Accepts, Applied

LEMMA SessionClosedIs ==
  ASSUME NEW g, NEW e, e.kind = "SessionClosed"
  PROVE  /\ Accepts(g, e) <=> e.session \in DOMAIN g.workspaces
         /\ Applied(g, e) = WithoutSession(g, e.session)
BY DEF Accepts, Applied

LEMMA WorkspaceCreatedIs ==
  ASSUME NEW g, NEW e, e.kind = "WorkspaceCreated"
  PROVE  /\ Accepts(g, e) <=> /\ e.workspace \notin DOMAIN g.tabs /\ e.session \in DOMAIN g.workspaces
                              /\ e.index \in 1..Len(g.workspaces[e.session]) + 1
         /\ Applied(g, e) = [g EXCEPT !.workspaces[e.session] = InsertAt(@, e.index, e.workspace),
                                      !.tabs = With(@, e.workspace, <<>>)]
BY DEF Accepts, Applied

(* The sessions' lists once a workspace is taken out of all and put into one. *)
Resettled(lists, w, s, i) ==
    [r \in DOMAIN lists |->
       LET others == Dropped(lists[r], {w})
       IN IF r = s THEN InsertAt(others, i, w) ELSE others]

LEMMA WorkspaceMovedIs ==
  ASSUME NEW g, NEW e, e.kind = "WorkspaceMoved"
  PROVE  /\ Accepts(g, e) <=> /\ e.workspace \in DOMAIN g.tabs /\ e.session \in DOMAIN g.workspaces
                              /\ e.index \in 1..Cardinality(ToSet(g.workspaces[e.session]) \ {e.workspace}) + 1
         /\ Applied(g, e) = [g EXCEPT !.workspaces = Resettled(@, e.workspace, e.session, e.index)]
BY DEF Accepts, Applied, Resettled

LEMMA WorkspaceClosedIs ==
  ASSUME NEW g, NEW e, e.kind = "WorkspaceClosed"
  PROVE  /\ Accepts(g, e) <=> e.workspace \in DOMAIN g.tabs
         /\ Applied(g, e) = WithoutWorkspaces(g, {e.workspace})
BY DEF Accepts, Applied

LEMMA TabOpenedIs ==
  ASSUME NEW g, NEW e, e.kind = "TabOpened"
  PROVE  /\ Accepts(g, e) <=> /\ e.tab \notin DOMAIN g.layout /\ LayoutFits(g, e.tab, e.layout)
                              /\ CanTake(g, e.workspace, e.index)
         /\ Applied(g, e) = StepDone(g, [e EXCEPT !.kind = "Opened"])
BY DEF Accepts, Applied

LEMMA TabMovedIs ==
  ASSUME NEW g, NEW e, e.kind = "TabMoved"
  PROVE  /\ Accepts(g, e) <=> e.tab \in DOMAIN g.layout /\ CanTake(Unordered(g, e.tab), e.workspace, e.index)
         /\ Applied(g, e) = StepDone(g, [e EXCEPT !.kind = "Placed"])
BY DEF Accepts, Applied

LEMMA TabClosedIs ==
  ASSUME NEW g, NEW e, e.kind = "TabClosed"
  PROVE  /\ Accepts(g, e) <=> e.tab \in DOMAIN g.layout
         /\ Applied(g, e) = WithoutTab(g, e.tab)
BY DEF Accepts, Applied

LEMMA PaneLayoutChangedIs ==
  ASSUME NEW g, NEW e, e.kind = "PaneLayoutChanged"
  PROVE  /\ Accepts(g, e) <=> e.tab \in DOMAIN g.layout /\ LayoutFits(g, e.tab, e.layout)
         /\ Applied(g, e) = [g EXCEPT !.layout[e.tab] = e.layout]
BY DEF Accepts, Applied

LEMMA PaneZoomChangedIs ==
  ASSUME NEW g, NEW e, e.kind = "PaneZoomChanged"
  PROVE  /\ Accepts(g, e) <=> /\ e.tab \in DOMAIN g.layout
                              /\ ValidZoom([g.layout[e.tab] EXCEPT !.zoomed = e.zoomed])
         /\ Applied(g, e) = [g EXCEPT !.layout[e.tab].zoomed = e.zoomed]
BY DEF Accepts, Applied

LEMMA PanesRearrangedIs ==
  ASSUME NEW g, NEW e, e.kind = "PanesRearranged"
  PROVE  /\ Accepts(g, e) <=> Rearranges(g, e.changes)
         /\ Applied(g, e) = Rearranged(g, e.changes)[Len(e.changes)]
BY DEF Accepts, Applied

LEMMA AttachmentCreatedIs ==
  ASSUME NEW g, NEW e, e.kind = "AttachmentCreated"
  PROVE  /\ Accepts(g, e) <=> e.attachment \notin DOMAIN g.attachments /\ e.session \in DOMAIN g.workspaces
         /\ Applied(g, e) = [g EXCEPT !.attachments = With(@, e.attachment, e.session)]
BY DEF Accepts, Applied

LEMMA AttachmentRetargetedIs ==
  ASSUME NEW g, NEW e, e.kind = "AttachmentRetargeted"
  PROVE  /\ Accepts(g, e) <=> e.attachment \in DOMAIN g.attachments /\ e.session \in DOMAIN g.workspaces
         /\ Applied(g, e) = [g EXCEPT !.attachments = With(@, e.attachment, e.session)]
BY DEF Accepts, Applied

LEMMA AttachmentDetachedIs ==
  ASSUME NEW g, NEW e, e.kind = "AttachmentDetached"
  PROVE  /\ Accepts(g, e) <=> e.attachment \in DOMAIN g.attachments
         /\ Applied(g, e) = [g EXCEPT !.attachments = Without(@, {e.attachment})]
BY DEF Accepts, Applied

-----------------------------------------------------------------------------
(* An event fits whenever the structure it leaves is whole.                  *)

LEMMA LayoutFitsIs ==
  ASSUME NEW g, NEW n, NEW Q, Whole(n, Q), NEW t \in DOMAIN n.layout,
         \A u \in DOMAIN g.layout \ {t} : u \in DOMAIN n.layout /\ n.layout[u] = g.layout[u]
  PROVE  LayoutFits(g, t, n.layout[t])
<1>1. ValidZoom(n.layout[t])
  BY DEF Whole, GoodLayout
<1>2. ASSUME NEW p \in ToSet(n.layout[t].panes) PROVE p \notin PanesIn(g, DOMAIN g.layout \ {t})
  <2> SUFFICES ASSUME NEW u \in DOMAIN g.layout \ {t}, p \in ToSet(g.layout[u].panes) PROVE FALSE
    BY PanesInIs
  <2>1. t = TabOf(n, p) /\ u = TabOf(n, p)
    BY <1>2, Houses
  <2> QED BY <2>1
<1> QED BY <1>1, <1>2 DEF LayoutFits

LEMMA ConservesIs ==
  ASSUME NEW g, NEW P, Whole(g, P), NEW n, Whole(n, P), NEW T,
         DOMAIN n.layout \ T = DOMAIN g.layout \ T,
         \A u \in DOMAIN g.layout \ T : n.layout[u] = g.layout[u]
  PROVE  Conserves(g, n, T)
<1>1. \A k \in {g, n} : /\ \A p \in P : TabOf(k, p) \in DOMAIN k.layout
                                         /\ p \in ToSet(k.layout[TabOf(k, p)].panes)
                        /\ \A t \in DOMAIN k.layout : \A p \in ToSet(k.layout[t].panes) :
                              p \in P /\ t = TabOf(k, p)
  BY Houses
<1>2. \A p \in P : TabOf(g, p) \in T <=> TabOf(n, p) \in T
  <2> TAKE p \in P
  <2>1. CASE TabOf(g, p) \notin T
    <3>1. TabOf(g, p) \in DOMAIN n.layout /\ p \in ToSet(n.layout[TabOf(g, p)].panes)
      BY <1>1, <2>1
    <3>2. TabOf(n, p) = TabOf(g, p)
      BY <1>1, <3>1
    <3> QED BY <2>1, <3>2
  <2>2. CASE TabOf(n, p) \notin T
    <3>1. TabOf(n, p) \in DOMAIN g.layout \ T /\ p \in ToSet(n.layout[TabOf(n, p)].panes)
      BY <1>1, <2>2
    <3>2. p \in ToSet(g.layout[TabOf(n, p)].panes)
      BY <3>1
    <3>3. TabOf(n, p) = TabOf(g, p)
      BY <1>1, <3>1, <3>2
    <3> QED BY <2>2, <3>3
  <2> QED BY <2>1, <2>2
<1>3. \A k \in {g, n} : \A p : p \in PanesIn(k, T \cap DOMAIN k.layout) <=> p \in P /\ TabOf(k, p) \in T
  <2> TAKE k \in {g, n}
  <2> TAKE p
  <2>1. p \in PanesIn(k, T \cap DOMAIN k.layout) <=>
          \E t \in T \cap DOMAIN k.layout : p \in ToSet(k.layout[t].panes)
    BY PanesInIs
  <2> QED BY <2>1, <1>1
<1>4. PanesIn(g, T \cap DOMAIN g.layout) = PanesIn(n, T \cap DOMAIN n.layout)
  <2>1. \A p : p \in PanesIn(g, T \cap DOMAIN g.layout) <=> p \in PanesIn(n, T \cap DOMAIN n.layout)
    BY <1>2, <1>3
  <2> QED BY <2>1
<1>5. ASSUME NEW t \in T \cap DOMAIN n.layout
      PROVE  /\ ValidZoom(n.layout[t]) /\ IsInjective(n.layout[t].panes)
             /\ ToSet(n.layout[t].panes) \cap PanesIn(n, (T \cap DOMAIN n.layout) \ {t}) = {}
  <2>1. ValidZoom(n.layout[t]) /\ IsInjective(n.layout[t].panes)
    BY DEF Whole, GoodLayout, Distinct
  <2>2. ASSUME NEW p \in ToSet(n.layout[t].panes), p \in PanesIn(n, (T \cap DOMAIN n.layout) \ {t}) PROVE FALSE
    <3>1. PICK u \in (T \cap DOMAIN n.layout) \ {t} : p \in ToSet(n.layout[u].panes)
      BY <2>2, PanesInIs
    <3> QED BY <2>2, <3>1, <1>1
  <2> QED BY <2>1, <2>2
<1> QED BY <1>4, <1>5 DEF Conserves

(* The structures between the changes of one event are as they are computed  *)
(* one after the other.                                                      *)
Chain(w, g, changes) ==
    /\ w = [i \in 0..Len(changes) |-> w[i]] /\ w[0] = g
    /\ \A i \in 1..Len(changes) : w[i] = StepDone(w[i - 1], changes[i])

LEMMA RearrangedIs ==
  ASSUME NEW g, NEW changes, Len(changes) \in Nat, NEW w, Chain(w, g, changes)
  PROVE  Rearranged(g, changes) = w
<1> DEFINE n == Len(changes)
           After(f) == f = [i \in 0..n |-> IF i = 0 THEN g ELSE StepDone(f[i - 1], changes[i])]
           a == CHOOSE f : After(f)
           Bad == {i \in 0..n : a[i] # w[i]}
<1>1. Rearranged(g, changes) = a
  BY Zenon DEF Rearranged
<1>2. After(w)
  <2>1. \A i \in 0..n : w[i] = IF i = 0 THEN g ELSE StepDone(w[i - 1], changes[i])
    BY DEF Chain
  <2>2. w = [i \in 0..n |-> w[i]]
    BY DEF Chain
  <2> HIDE DEF n
  <2> QED BY <2>1, <2>2, Zenon
<1>3. After(a)
  <2> HIDE DEF After
  <2> QED BY <1>2
<1> HIDE DEF a
<1>4. a = [i \in 0..n |-> a[i]] /\ \A i \in 0..n : a[i] = IF i = 0 THEN g ELSE StepDone(a[i - 1], changes[i])
  BY <1>3
<1>5. Bad = {}
  <2> SUFFICES ASSUME Bad # {} PROVE FALSE
    OBVIOUS
  <2>1. PICK m \in Bad : \A k \in Bad : m <= k
    <3>1. Bad \subseteq Nat
      OBVIOUS
    <3> HIDE DEF Bad
    <3> QED BY <3>1, Least
  <2>2. m # 0
    BY <1>4, <2>1 DEF Chain
  <2>3. m \in 1..n /\ m - 1 \in 0..n /\ ~(m <= m - 1)
    BY <2>1, <2>2
  <2>4. a[m - 1] = w[m - 1]
    BY <2>1, <2>3
  <2>5. a[m] = StepDone(a[m - 1], changes[m]) /\ w[m] = StepDone(w[m - 1], changes[m])
    BY <1>4, <2>2, <2>3 DEF Chain
  <2> QED BY <2>1, <2>4, <2>5
<1>6. \A i \in 0..n : a[i] = w[i]
  BY <1>5
<1>7. a = w
  BY <1>4, <1>6 DEF Chain
<1> QED BY <1>1, <1>7

(* The structures of a chain of changes that fit, the tabs they are about,    *)
(* and the layouts they leave alone.                                         *)
Works(w, g, changes) ==
    Chain(w, g, changes) /\ \A i \in 1..Len(changes) : StepFits(w[i - 1], changes[i])
TabsOf(changes) == {changes[i].tab : i \in DOMAIN changes}
Spares(g, n, T) ==
    /\ DOMAIN n.layout \ T = DOMAIN g.layout \ T
    /\ \A u \in DOMAIN g.layout \ T : n.layout[u] = g.layout[u]

(* Changes that run in order from one whole structure to another, and leave  *)
(* the tabs they do not name alone, make an event that fits.                 *)
LEMMA RearrangementFits ==
  ASSUME NEW g, NEW P, Whole(g, P), NEW changes, Len(changes) \in Nat \ {0},
         DistinctRoles(changes), DOMAIN changes = 1..Len(changes),
         NEW w, Works(w, g, changes), Whole(w[Len(changes)], P),
         Spares(g, w[Len(changes)], TabsOf(changes))
  PROVE  /\ Accepts(g, Rearrangement(changes))
         /\ w[Len(changes)] = Applied(g, Rearrangement(changes))
<1> DEFINE e == Rearrangement(changes)
<1>1. e.kind = "PanesRearranged" /\ e.changes = changes
  BY DEF Rearrangement
<1>2. Rearranged(g, changes) = w
  BY RearrangedIs DEF Works
<1>3. Conserves(g, w[Len(changes)], TabsOf(changes))
  BY ConservesIs DEF Spares
<1>4. changes # <<>>
  <2>1. Len(changes) # 0
    OBVIOUS
  <2> QED BY <2>1
<1>5. Rearranges(g, changes)
  BY <1>2, <1>3, <1>4 DEF Rearranges, Works, TabsOf
<1> HIDE DEF e
<1>6. Accepts(g, e) /\ Applied(g, e) = Rearranged(g, changes)[Len(changes)]
  BY <1>1, <1>5, PanesRearrangedIs
<1> QED BY <1>2, <1>6 DEF e

LEMMA OneChange ==
  ASSUME NEW g, NEW P, Whole(g, P), NEW a, StepFits(g, a), Whole(StepDone(g, a), P),
         Spares(g, StepDone(g, a), {a.tab})
  PROVE  Accepts(g, Rearrangement(<<a>>)) /\ StepDone(g, a) = Applied(g, Rearrangement(<<a>>))
<1> DEFINE n == StepDone(g, a)
           changes == <<a>>
           w == [i \in 0..1 |-> IF i = 0 THEN g ELSE n]
<1>1. Len(changes) = 1 /\ DOMAIN changes = 1..1 /\ changes[1] = a
  OBVIOUS
<1>2. w[0] = g /\ w[1] = n /\ w = [i \in 0..1 |-> w[i]]
  OBVIOUS
<1> HIDE DEF changes, w
<1>3. \A i \in 1..1 : i = 1 /\ i - 1 = 0
  OBVIOUS
<1>4. Works(w, g, changes)
  BY <1>1, <1>2, <1>3 DEF Chain, Works
<1>5. DistinctRoles(changes) /\ TabsOf(changes) = {a.tab}
  BY <1>1, <1>3 DEF DistinctRoles, TabsOf
<1>6. Len(changes) \in Nat \ {0} /\ DOMAIN changes = 1..Len(changes) /\ w[Len(changes)] = n
  BY <1>1, <1>2
<1> HIDE DEF n
<1>7. Whole(w[Len(changes)], P) /\ Spares(g, w[Len(changes)], TabsOf(changes))
  BY <1>5, <1>6 DEF n
<1>8. /\ Accepts(g, Rearrangement(changes))
      /\ w[Len(changes)] = Applied(g, Rearrangement(changes))
  BY <1>4, <1>5, <1>6, <1>7, RearrangementFits
<1> QED BY <1>6, <1>8 DEF changes, n

LEMMA TwoChanges ==
  ASSUME NEW g, NEW P, Whole(g, P), NEW a, StepFits(g, a), NEW b, StepFits(StepDone(g, a), b),
         NEW n, n = StepDone(StepDone(g, a), b), Whole(n, P), a.tab # b.tab,
         Spares(g, n, {a.tab, b.tab})
  PROVE  Accepts(g, Rearrangement(<<a, b>>)) /\ n = Applied(g, Rearrangement(<<a, b>>))
<1> DEFINE m == StepDone(g, a)
           changes == <<a, b>>
           w == [i \in 0..2 |-> IF i = 0 THEN g ELSE IF i = 1 THEN m ELSE n]
<1>1. Len(changes) = 2 /\ DOMAIN changes = 1..2 /\ changes[1] = a /\ changes[2] = b
  OBVIOUS
<1>2. w[0] = g /\ w[1] = m /\ w[2] = n /\ w = [i \in 0..2 |-> w[i]]
  OBVIOUS
<1> HIDE DEF changes, w
<1>3. /\ \A i \in 1..2 : (i = 1 /\ i - 1 = 0) \/ (i = 2 /\ i - 1 = 1)
      /\ 1 \in 1..2 /\ 2 \in 1..2
  OBVIOUS
<1>4. Works(w, g, changes)
  BY <1>1, <1>2, <1>3 DEF Chain, Works
<1>5. DistinctRoles(changes) /\ TabsOf(changes) = {a.tab, b.tab}
  BY <1>1, <1>3 DEF DistinctRoles, TabsOf
<1>6. Len(changes) \in Nat \ {0} /\ DOMAIN changes = 1..Len(changes) /\ w[Len(changes)] = n
  BY <1>1, <1>2
<1>7. Whole(w[Len(changes)], P) /\ Spares(g, w[Len(changes)], TabsOf(changes))
  BY <1>5, <1>6
<1>8. /\ Accepts(g, Rearrangement(changes))
      /\ w[Len(changes)] = Applied(g, Rearrangement(changes))
  BY <1>4, <1>5, <1>6, <1>7, RearrangementFits
<1> QED BY <1>6, <1>8 DEF changes

-----------------------------------------------------------------------------
(* An operation says one event, which fits the structure it was said of and  *)
(* makes it the structure the operation left, or the one of Quit; or it says *)
(* nothing and leaves the structure alone.                                   *)

Says(g, n, e) == e.kind # "Reset" /\ Accepts(g, e) /\ n = Applied(g, e)

Reports ==
    \/ UNCHANGED <<h, seq, queue>>
    \/ \E e : Emit(<<e>>) /\ (e.kind = "Reset" \/ Says(h, h', e))

LEMMA Reported ==
  ASSUME NEW n, NEW e, Commit(n, <<e>>), Says(h, n, e)
  PROVE  Reports
BY DEF Commit, Reports

(* What an unused identity names, and the end of a list. *)
LEMMA Fresh ==
  ASSUME MuxInv, NEW k \in Nat, k > next
  PROVE  /\ k \notin DOMAIN h.workspaces /\ k \notin DOMAIN h.tabs
         /\ k \notin DOMAIN h.layout /\ k \notin DOMAIN h.attachments
BY DEF MuxInv, Numbered

LEMMA AtEnd ==
  ASSUME NEW s, Distinct(s)
  PROVE  Len(s) + 1 \in 1..Len(s) + 1 /\ \A x : InsertAt(s, Len(s) + 1, x) = Append(s, x)
<1>1. Len(s) \in Nat
  BY ListFacts
<1> QED BY <1>1, InsertLast

(* The lists of a whole structure. *)
LEMMA WholeLists ==
  ASSUME NEW g, NEW P, Whole(g, P)
  PROVE  /\ Fields(g) /\ Distinct(g.sessions)
         /\ \A s \in DOMAIN g.workspaces : Distinct(g.workspaces[s])
         /\ \A w \in DOMAIN g.tabs : Distinct(g.tabs[w])
         /\ \A t \in DOMAIN g.layout : Distinct(g.layout[t].panes)
BY PartitionLists DEF Whole, GoodLayout

LEMMA CreateSessionSays ==
  ASSUME MuxInv, CreateSession
  PROVE  Reports
<1> DEFINE s == next + 1
           index == Len(h.sessions) + 1
           n == [h EXCEPT !.sessions = Append(@, s), !.workspaces = With(@, s, <<>>)]
           e == [kind |-> "SessionCreated", session |-> s, index |-> index]
<1>1. Commit(n, <<e>>)
  BY DEF CreateSession
<1>2. Whole(h, terminals) /\ s \in Nat /\ s > next
  BY DEF MuxInv, Numbered
<1>3. s \notin DOMAIN h.workspaces
  BY <1>2, Fresh
<1>4. index \in 1..Len(h.sessions) + 1 /\ InsertAt(h.sessions, index, s) = Append(h.sessions, s)
  BY <1>2, WholeLists, AtEnd
<1>5. e.kind = "SessionCreated" /\ e.session = s /\ e.index = index
  OBVIOUS
<1>6. n = [h EXCEPT !.sessions = InsertAt(@, index, s), !.workspaces = With(@, s, <<>>)]
  BY <1>4
<1> HIDE DEF e, n, s, index
<1>7. Says(h, n, e)
  BY <1>3, <1>4, <1>5, <1>6, SessionCreatedIs DEF Says
<1> QED BY <1>1, <1>7, Reported

LEMMA CreateWorkspaceSays ==
  ASSUME MuxInv, NEW s \in DOMAIN h.workspaces, CreateWorkspace(s)
  PROVE  Reports
<1> DEFINE w == next + 1
           index == Len(h.workspaces[s]) + 1
           n == [h EXCEPT !.workspaces[s] = Append(@, w), !.tabs = With(@, w, <<>>)]
           e == [kind |-> "WorkspaceCreated", session |-> s, workspace |-> w, index |-> index]
<1>1. Commit(n, <<e>>)
  BY DEF CreateWorkspace
<1>2. Whole(h, terminals) /\ w \in Nat /\ w > next
  BY DEF MuxInv, Numbered
<1>3. w \notin DOMAIN h.tabs
  BY <1>2, Fresh
<1>4. index \in 1..Len(h.workspaces[s]) + 1
      /\ InsertAt(h.workspaces[s], index, w) = Append(h.workspaces[s], w)
  BY <1>2, WholeLists, AtEnd
<1>5. e.kind = "WorkspaceCreated" /\ e.session = s /\ e.workspace = w /\ e.index = index
  OBVIOUS
<1>6. n = [h EXCEPT !.workspaces[s] = InsertAt(@, index, w), !.tabs = With(@, w, <<>>)]
  BY <1>4
<1> HIDE DEF e, n, w, index
<1>7. Says(h, n, e)
  BY <1>3, <1>4, <1>5, <1>6, WorkspaceCreatedIs DEF Says
<1> QED BY <1>1, <1>7, Reported

LEMMA AttachSessionSays ==
  ASSUME MuxInv, NEW s \in DOMAIN h.workspaces, AttachSession(s)
  PROVE  Reports
<1> DEFINE a == next + 1
           n == [h EXCEPT !.attachments = With(@, a, s)]
           e == [kind |-> "AttachmentCreated", attachment |-> a, session |-> s]
<1>1. Commit(n, <<e>>)
  BY DEF AttachSession
<1>2. a \in Nat /\ a > next
  BY DEF MuxInv, Numbered
<1>3. a \notin DOMAIN h.attachments
  BY <1>2, Fresh
<1>4. e.kind = "AttachmentCreated" /\ e.attachment = a /\ e.session = s
  OBVIOUS
<1> HIDE DEF e, a
<1>5. Says(h, n, e)
  BY <1>3, <1>4, AttachmentCreatedIs DEF Says
<1> QED BY <1>1, <1>5, Reported

LEMMA DetachSessionSays ==
  ASSUME MuxInv, NEW a \in DOMAIN h.attachments, DetachSession(a)
  PROVE  Reports
<1> DEFINE n == [h EXCEPT !.attachments = Without(@, {a})]
           e == [kind |-> "AttachmentDetached", attachment |-> a]
<1>1. Commit(n, <<e>>) /\ e.kind = "AttachmentDetached" /\ e.attachment = a
  BY DEF DetachSession
<1> HIDE DEF e
<1>2. Says(h, n, e)
  BY <1>1, AttachmentDetachedIs DEF Says
<1> QED BY <1>1, <1>2, Reported

LEMMA RetargetAttachmentSays ==
  ASSUME MuxInv, NEW a \in DOMAIN h.attachments, NEW s \in DOMAIN h.workspaces, RetargetAttachment(a, s)
  PROVE  Reports
<1> DEFINE n == [h EXCEPT !.attachments[a] = s]
           e == [kind |-> "AttachmentRetargeted", attachment |-> a, session |-> s]
<1>1. /\ Commit(n, <<e>>)
      /\ e.kind = "AttachmentRetargeted" /\ e.attachment = a /\ e.session = s
  BY DEF RetargetAttachment
<1>2. With(h.attachments, a, s) = [h.attachments EXCEPT ![a] = s]
  <2>1. Fun(h.attachments) /\ DOMAIN h.attachments \cup {a} = DOMAIN h.attachments
    BY DEF MuxInv, Whole
  <2> QED BY <2>1 DEF With, Fun
<1>3. n = [h EXCEPT !.attachments = With(@, a, s)]
  BY <1>2
<1> HIDE DEF e, n
<1>4. Says(h, n, e)
  BY <1>1, <1>3, AttachmentRetargetedIs DEF Says
<1> QED BY <1>1, <1>4, Reported

LEMMA OpenTabSays ==
  ASSUME MuxInv, MuxInv', NEW w \in DOMAIN h.tabs, OpenTab(w)
  PROVE  Reports
<1> DEFINE t == next + 1
           layout == [panes |-> <<next + 2>>, zoomed |-> None]
           index == Len(h.tabs[w]) + 1
           n == [h EXCEPT !.tabs[w] = Append(@, t), !.layout = With(@, t, layout)]
           e == [kind |-> "TabOpened", workspace |-> w, tab |-> t, layout |-> layout, index |-> index]
           opened == [e EXCEPT !.kind = "Opened"]
<1>1. Commit(n, <<e>>) /\ h' = n
  BY DEF OpenTab, Commit
<1>2. Whole(h, terminals) /\ Whole(n, terminals') /\ t \in Nat /\ t > next
  BY <1>1 DEF MuxInv, Numbered
<1>3. t \notin DOMAIN h.layout
  BY <1>2, Fresh
<1>4. index \in 1..Len(h.tabs[w]) + 1 /\ InsertAt(h.tabs[w], index, t) = Append(h.tabs[w], t)
  BY <1>2, WholeLists, AtEnd
<1>5. /\ e.kind = "TabOpened" /\ e.workspace = w /\ e.tab = t /\ e.layout = layout /\ e.index = index
      /\ opened.kind = "Opened" /\ opened.workspace = w /\ opened.tab = t
      /\ opened.layout = layout /\ opened.index = index
  OBVIOUS
<1> HIDE DEF opened
<1>6. n.layout = With(h.layout, t, layout)
  <2>1. Fields(h)
    BY <1>2, WholeLists
  <2> HIDE DEF t, layout
  <2> QED BY <2>1 DEF Fields
<1>7. LayoutFits(h, t, layout)
  <2>1. t \in DOMAIN n.layout /\ n.layout[t] = layout
        /\ \A u \in DOMAIN h.layout \ {t} : u \in DOMAIN n.layout /\ n.layout[u] = h.layout[u]
    BY <1>6 DEF With
  <2> HIDE DEF n, layout, t
  <2>2. LayoutFits(h, t, n.layout[t])
    BY <1>2, <2>1, LayoutFitsIs
  <2> QED BY <2>1, <2>2
<1>8. n = StepDone(h, opened)
  <2> HIDE DEF t, layout, n, index, e
  <2>1. StepDone(h, opened) = [Ordered(h, w, index, t) EXCEPT !.layout = With(@, t, layout)]
    BY <1>5 DEF StepDone
  <2>2. Ordered(h, w, index, t) = [h EXCEPT !.tabs[w] = Append(@, t)]
    BY <1>4 DEF Ordered
  <2>3. Fields(h)
    BY <1>2, WholeLists
  <2>4. n = [h EXCEPT !.tabs[w] = Append(@, t), !.layout = With(@, t, layout)]
    BY DEF n
  <2> DEFINE l == With(h.layout, t, layout)  a == [h.tabs EXCEPT ![w] = Append(@, t)]
             m == [h EXCEPT !.tabs = a]
  <2>5. Ordered(h, w, index, t) = m /\ n = [h EXCEPT !.tabs = a, !.layout = l]
    BY <2>2, <2>4
  <2> HIDE DEF a
  <2>6. m.layout = h.layout /\ StepDone(h, opened) = [m EXCEPT !.layout = l]
    BY <2>1, <2>3, <2>5 DEF Fields
  <2> HIDE DEF l
  <2> QED BY <2>3, <2>5, <2>6 DEF Fields
<1>9. opened = [e EXCEPT !.kind = "Opened"]
  BY DEF opened
<1>10. CanTake(h, w, index)
  BY <1>4 DEF CanTake
<1> HIDE DEF e, n, t, index, layout
<1>11. Says(h, n, e)
  BY <1>3, <1>5, <1>7, <1>8, <1>9, <1>10, TabOpenedIs DEF Says
<1> QED BY <1>1, <1>11, Reported

-----------------------------------------------------------------------------
(* Changes inside one tab. *)

LEMMA Left ==
  ASSUME MuxInv', NEW new, NEW e, Commit(new, <<e>>)
  PROVE  Whole(new, terminals')
BY DEF MuxInv, Commit

LEMMA LayoutSaid ==
  ASSUME MuxInv, MuxInv', NEW t \in DOMAIN h.layout, NEW layout,
         Commit([h EXCEPT !.layout[t] = layout], <<LayoutEvent(t, layout)>>)
  PROVE  Reports
<1> DEFINE new == [h EXCEPT !.layout[t] = layout]
           e == LayoutEvent(t, layout)
<1>1. Commit(new, <<e>>) /\ Fields(h) /\ e.kind = "PaneLayoutChanged" /\ e.tab = t /\ e.layout = layout
  BY DEF LayoutEvent, MuxInv, Whole
<1>2. new.layout = [h.layout EXCEPT ![t] = layout]
  BY <1>1 DEF Fields
<1>3. t \in DOMAIN new.layout /\ new.layout[t] = layout
      /\ \A u \in DOMAIN h.layout \ {t} : u \in DOMAIN new.layout /\ new.layout[u] = h.layout[u]
  BY <1>2
<1> HIDE DEF e
<1>4. Says(h, new, e)
  <2>1. LayoutFits(h, t, layout)
    <3> HIDE DEF new
    <3>1. Whole(new, terminals')
      BY <1>1, Left
    <3>2. LayoutFits(h, t, new.layout[t])
      BY <1>3, <3>1, LayoutFitsIs
    <3> QED BY <1>3, <3>2
  <2> QED BY <1>1, <2>1, PaneLayoutChangedIs DEF Says
<1> HIDE DEF new
<1> QED BY <1>1, <1>4, Reported

LEMMA SplitPaneSays ==
  ASSUME MuxInv, MuxInv', NEW t \in DOMAIN h.layout, NEW p, NEW side, SplitPane(t, p, side)
  PROVE  Reports
<1> DEFINE layout == Beside(h.layout[t], p, side, <<next + 1>>)
<1>1. Commit([h EXCEPT !.layout[t] = layout], <<LayoutEvent(t, layout)>>)
  BY DEF SplitPane
<1> HIDE DEF layout
<1> QED BY <1>1, LayoutSaid

LEMMA SwapPanesSays ==
  ASSUME MuxInv, MuxInv', NEW t \in DOMAIN h.layout, NEW a, NEW b, SwapPanes(t, a, b)
  PROVE  Reports
<1> DEFINE panes == h.layout[t].panes
           swapped == [i \in DOMAIN panes |-> IF panes[i] = a THEN b ELSE IF panes[i] = b THEN a ELSE panes[i]]
           layout == [h.layout[t] EXCEPT !.panes = swapped]
           new == [h EXCEPT !.layout[t].panes = swapped]
<1>1. Commit(new, <<LayoutEvent(t, new.layout[t])>>)
  BY DEF SwapPanes
<1> HIDE DEF swapped
<1>2. new = [h EXCEPT !.layout[t] = layout]
  OBVIOUS
<1>3. new.layout[t] = layout
  <2>1. Fields(h)
    BY DEF MuxInv, Whole
  <2> HIDE DEF layout, new
  <2> QED BY <1>2, <2>1 DEF Fields
<1> HIDE DEF layout, new
<1> QED BY <1>1, <1>2, <1>3, LayoutSaid

LEMMA ArrangePanesSays ==
  ASSUME MuxInv, MuxInv', NEW t \in DOMAIN h.layout, NEW panes, ArrangePanes(t, panes)
  PROVE  Reports
<1> DEFINE layout == [panes |-> panes, zoomed |-> None]
           new == [h EXCEPT !.layout[t] = layout]
<1>1. Commit(new, <<LayoutEvent(t, new.layout[t])>>)
  BY DEF ArrangePanes
<1> HIDE DEF layout
<1>2. new.layout[t] = layout
  BY DEF MuxInv, Whole, Fields
<1> HIDE DEF new
<1>3. Commit(new, <<LayoutEvent(t, layout)>>)
  BY <1>1, <1>2
<1> QED BY <1>3, LayoutSaid DEF new

LEMMA MoveWithinTabSays ==
  ASSUME MuxInv, MuxInv', NEW p \in terminals, NEW q, NEW side, MoveWithinTab(p, q, side)
  PROVE  Reports
<1> DEFINE t == TabOf(h, p)
           layout == Beside(Remaining(t, p), q, side, <<p>>)
<1>1. Commit([h EXCEPT !.layout[t] = layout], <<LayoutEvent(t, layout)>>)
  BY DEF MoveWithinTab
<1>2. t \in DOMAIN h.layout
  BY Houses DEF MuxInv
<1> HIDE DEF t, layout
<1> QED BY <1>1, <1>2, LayoutSaid

LEMMA SetPaneZoomSays ==
  ASSUME MuxInv, MuxInv', NEW t \in DOMAIN h.layout, NEW p, SetPaneZoom(t, p)
  PROVE  Reports
<1> DEFINE layout == [h.layout[t] EXCEPT !.zoomed = p]
           new == [h EXCEPT !.layout[t].zoomed = p]
           e == [kind |-> "PaneZoomChanged", tab |-> t, zoomed |-> p]
<1>1. Commit(new, <<e>>) /\ e.kind = "PaneZoomChanged" /\ e.tab = t /\ e.zoomed = p
  BY DEF SetPaneZoom
<1>2. new.layout[t] = layout /\ t \in DOMAIN new.layout
  <2>1. Fields(h) /\ new = [h EXCEPT !.layout = [h.layout EXCEPT ![t] = layout]]
    BY DEF MuxInv, Whole
  <2> HIDE DEF new, layout
  <2> QED BY <2>1 DEF Fields
<1> HIDE DEF e
<1>3. Says(h, new, e)
  <2>1. ValidZoom(layout)
    <3> HIDE DEF new, layout
    <3>1. Whole(new, terminals')
      BY <1>1, Left
    <3> QED BY <1>2, <3>1 DEF Whole, GoodLayout
  <2>2. ValidZoom([h.layout[e.tab] EXCEPT !.zoomed = e.zoomed])
    BY <1>1, <2>1
  <2>3. Accepts(h, e)
    BY <1>1, <2>2, PaneZoomChangedIs
  <2>4. Applied(h, e) = [h EXCEPT !.layout[e.tab].zoomed = e.zoomed]
    BY <1>1, PaneZoomChangedIs
  <2> QED BY <1>1, <2>3, <2>4 DEF Says
<1> HIDE DEF new
<1> QED BY <1>1, <1>3, Reported

-----------------------------------------------------------------------------
(* Closes. *)

LEMMA CloseTabSays ==
  ASSUME NEW t \in DOMAIN h.layout, CloseTab(t)
  PROVE  Reports
<1> DEFINE e == [kind |-> "TabClosed", tab |-> t]
<1>1. Commit(WithoutTab(h, t), <<e>>) /\ e.kind = "TabClosed" /\ e.tab = t
  BY DEF CloseTab
<1> HIDE DEF e
<1>2. Says(h, WithoutTab(h, t), e)
  BY <1>1, TabClosedIs DEF Says
<1> QED BY <1>1, <1>2, Reported

LEMMA ClosePaneSays ==
  ASSUME MuxInv, MuxInv', NEW p \in terminals, ClosePane(p)
  PROVE  Reports
<1> DEFINE t == TabOf(h, p)
           rest == Remaining(t, p)
<1>1. t \in DOMAIN h.layout
  BY Houses DEF MuxInv
<1>2. CloseTab(t) \/ Commit([h EXCEPT !.layout[t] = rest], <<LayoutEvent(t, rest)>>)
  BY DEF ClosePane
<1> HIDE DEF t, rest
<1> QED BY <1>1, <1>2, CloseTabSays, LayoutSaid

LEMMA CloseWorkspaceSays ==
  ASSUME NEW w \in DOMAIN h.tabs, CloseWorkspace(w)
  PROVE  Reports
<1> DEFINE e == [kind |-> "WorkspaceClosed", workspace |-> w]
<1>1. Commit(WithoutWorkspaces(h, {w}), <<e>>) /\ e.kind = "WorkspaceClosed" /\ e.workspace = w
  BY DEF CloseWorkspace
<1> HIDE DEF e
<1>2. Says(h, WithoutWorkspaces(h, {w}), e)
  BY <1>1, WorkspaceClosedIs DEF Says
<1> QED BY <1>1, <1>2, Reported

LEMMA CloseSessionSays ==
  ASSUME NEW s \in DOMAIN h.workspaces, CloseSession(s)
  PROVE  Reports
<1> DEFINE e == [kind |-> "SessionClosed", session |-> s]
<1>1. Commit(WithoutSession(h, s), <<e>>) /\ e.kind = "SessionClosed" /\ e.session = s
  BY DEF CloseSession
<1> HIDE DEF e
<1>2. Says(h, WithoutSession(h, s), e)
  BY <1>1, SessionClosedIs DEF Says
<1> QED BY <1>1, <1>2, Reported

(* What says nothing changes nothing of the feed. *)
LEMMA Silent ==
  ASSUME Counts, Emit(<<>>)
  PROVE  UNCHANGED <<seq, queue>>
<1>1. seq' = seq + 0 /\ queue' = Published(queue, [i \in DOMAIN <<>> |-> [seq |-> seq + i, event |-> <<>>[i]]])
  BY DEF Emit
<1>2. [i \in DOMAIN <<>> |-> [seq |-> seq + i, event |-> <<>>[i]]] = <<>>
  OBVIOUS
<1>3. Published(queue, <<>>) = queue
  BY DEF Published
<1> QED BY <1>1, <1>2, <1>3 DEF Counts

LEMMA NoSessions ==
  ASSUME NEW g, NEW P, Whole(g, P), g.sessions = <<>>
  PROVE  g = EmptyHierarchy
<1>1. DOMAIN g.workspaces = {}
  BY ListEmpty DEF Whole
<1>2. DOMAIN g.tabs = {} /\ DOMAIN g.layout = {} /\ DOMAIN g.attachments = {}
  BY <1>1, Houses DEF Whole
<1>3. ASSUME NEW f, Fun(f), DOMAIN f = {} PROVE f = <<>>
  BY <1>3 DEF Fun
<1>4. g.workspaces = <<>> /\ g.tabs = <<>> /\ g.layout = <<>> /\ g.attachments = <<>>
  BY <1>1, <1>2, <1>3 DEF Whole
<1> QED BY <1>4 DEF Whole, Fields, EmptyHierarchy

LEMMA ShutdownSays ==
  ASSUME MuxInv, Shutdown
  PROVE  Reports
<1>1. CASE h.sessions = <<>>
  <2>1. h' = EmptyHierarchy /\ Emit(<<>>)
    BY <1>1 DEF Shutdown, Commit
  <2>2. h = EmptyHierarchy
    BY <1>1, NoSessions DEF MuxInv
  <2> QED BY <2>1, <2>2, Silent DEF MuxInv, Reports
<1>2. CASE h.sessions # <<>>
  <2> DEFINE e == [kind |-> "Reset"]
  <2>1. Emit(<<e>>) /\ e.kind = "Reset"
    BY <1>2 DEF Shutdown, Commit
  <2> HIDE DEF e
  <2> QED BY <2>1 DEF Reports
<1> QED BY <1>1, <1>2

-----------------------------------------------------------------------------
(* Moves.  Each change of a rearrangement, and when it fits. *)

LEMMA LayoutStepIs ==
  ASSUME NEW g, NEW t, NEW l, NEW c, c = LayoutStep(t, l)
  PROVE  c.tab = t /\ (StepFits(g, c) <=> t \in DOMAIN g.layout) /\ StepDone(g, c) = [g EXCEPT !.layout[t] = l]
<1>1. c.kind = "Layout" /\ c.tab = t /\ c.layout = l
  BY DEF LayoutStep
<1> QED BY <1>1 DEF StepFits, StepDone

LEMMA RemovedStepIs ==
  ASSUME NEW g, NEW t, NEW c, c = RemovedStep(t)
  PROVE  c.tab = t /\ (StepFits(g, c) <=> t \in DOMAIN g.layout) /\ StepDone(g, c) = WithoutTab(g, t)
<1>1. c.kind = "Removed" /\ c.tab = t
  BY DEF RemovedStep
<1> QED BY <1>1 DEF StepFits, StepDone

LEMMA PlacedStepIs ==
  ASSUME NEW g, NEW c, c.kind = "Placed"
  PROVE  /\ StepFits(g, c) <=> c.tab \in DOMAIN g.layout /\ CanTake(Unordered(g, c.tab), c.workspace, c.index)
         /\ StepDone(g, c) = Ordered(Unordered(g, c.tab), c.workspace, c.index, c.tab)
BY DEF StepFits, StepDone

LEMMA OpenedStepIs ==
  ASSUME NEW g, NEW c, c.kind = "Opened"
  PROVE  /\ StepFits(g, c) <=> c.tab \notin DOMAIN g.layout /\ CanTake(g, c.workspace, c.index)
         /\ StepDone(g, c) = Opens(g, c.workspace, c.index, c.tab, c.layout)
BY DEF StepFits, StepDone, Opens

LEMMA Kept ==
  ASSUME MuxInv', NEW new, NEW e, Commit(new, <<e>>), terminals' = terminals
  PROVE  Whole(new, terminals)
BY DEF MuxInv, Commit

(* Where a tab that was taken out of its list may go. *)
LEMMA CanReturn ==
  ASSUME NEW g, NEW P, Whole(g, P), NEW t, NEW w \in DOMAIN g.tabs, NEW i,
         i \in 1..Len(Dropped(g.tabs[w], {t})) + 1
  PROVE  CanTake(Unordered(g, t), w, i)
<1>1. Unordered(g, t).tabs = Dropping(g.tabs, {t})
  BY UnorderedIs
<1>2. w \in DOMAIN Unordered(g, t).tabs /\ Unordered(g, t).tabs[w] = Dropped(g.tabs[w], {t})
  BY <1>1 DEF Dropping
<1> QED BY <1>2 DEF CanTake

LEMMA MoveTabSays ==
  ASSUME MuxInv, NEW t \in DOMAIN h.layout, NEW w \in DOMAIN h.tabs,
         NEW before \in Anchors(h.tabs[w]), MoveTab(t, w, before)
  PROVE  Reports
<1> DEFINE source == WorkspaceOf(h, t)
           i == Place(h.tabs[w], before)
           index == IF source = w /\ Index(h.tabs[w], t) < i THEN i - 1 ELSE i
           new == Ordered(Unordered(h, t), w, index, t)
           e == [kind |-> "TabMoved", tab |-> t, workspace |-> w, index |-> index]
           placed == [e EXCEPT !.kind = "Placed"]
<1>1. Commit(new, <<e>>) /\ Whole(h, terminals)
  BY DEF MoveTab, MuxInv
<1>2. index \in 1..Len(Dropped(h.tabs[w], {t})) + 1
  <2>1. source = w <=> t \in ToSet(h.tabs[w])
    BY <1>1, Houses
  <2>2. Distinct(h.tabs[w])
    BY <1>1, WholeLists
  <2>3. (IF t \in ToSet(h.tabs[w]) /\ Index(h.tabs[w], t) < i THEN i - 1 ELSE i)
          \in 1..Len(Dropped(h.tabs[w], {t})) + 1
    BY <2>2, PlaceAmong
  <2> HIDE DEF i, source
  <2> QED BY <2>1, <2>3
<1> HIDE DEF index
<1>3. /\ e.kind = "TabMoved" /\ e.tab = t /\ e.workspace = w /\ e.index = index
      /\ placed.kind = "Placed" /\ placed.tab = t /\ placed.workspace = w /\ placed.index = index
      /\ placed = [e EXCEPT !.kind = "Placed"]
  OBVIOUS
<1>4. CanTake(Unordered(h, t), w, index)
  BY <1>1, <1>2, CanReturn
<1> HIDE DEF e, placed, new
<1>5. new = StepDone(h, placed)
  BY <1>3, PlacedStepIs DEF new
<1>6. Accepts(h, e) /\ Applied(h, e) = StepDone(h, placed)
  BY <1>3, <1>4, TabMovedIs
<1>7. Says(h, new, e)
  BY <1>3, <1>5, <1>6 DEF Says
<1> QED BY <1>1, <1>7, Reported

LEMMA MoveWorkspaceSays ==
  ASSUME MuxInv, NEW w \in DOMAIN h.tabs, NEW s \in DOMAIN h.workspaces,
         NEW before \in Anchors(h.workspaces[s]), MoveWorkspace(w, s, before)
  PROVE  Reports
<1> DEFINE source == SessionOf(h, w)
           i == Place(h.workspaces[s], before)
           index == IF source = s /\ Index(h.workspaces[s], w) < i THEN i - 1 ELSE i
           k == [h EXCEPT !.workspaces[source] = Dropped(@, {w})]
           new == [k EXCEPT !.workspaces[s] = InsertAt(@, index, w)]
           all == [r \in DOMAIN h.workspaces |-> Dropped(h.workspaces[r], {w})]
           e == [kind |-> "WorkspaceMoved", workspace |-> w, session |-> s, index |-> index]
<1>1. Commit(new, <<e>>) /\ Whole(h, terminals)
  BY DEF MoveWorkspace, MuxInv
<1>2. /\ source \in DOMAIN h.workspaces
      /\ \A r \in DOMAIN h.workspaces : Distinct(h.workspaces[r]) /\ (source = r <=> w \in ToSet(h.workspaces[r]))
  BY <1>1, Houses, WholeLists
<1>3. index \in 1..Cardinality(ToSet(h.workspaces[s]) \ {w}) + 1
  <2>1. (IF w \in ToSet(h.workspaces[s]) /\ Index(h.workspaces[s], w) < i THEN i - 1 ELSE i)
          \in 1..Len(Dropped(h.workspaces[s], {w})) + 1
    BY <1>2, PlaceAmong
  <2>2. Cardinality(ToSet(h.workspaces[s]) \ {w}) = Len(Dropped(h.workspaces[s], {w}))
    <3> DEFINE list == h.workspaces[s]  d == Dropped(list, {w})
    <3>1. Distinct(d) /\ ToSet(d) = ToSet(list) \ {w}
      BY <1>2, ListDropped
    <3> HIDE DEF d
    <3>2. Cardinality(ToSet(d)) = Len(d)
      BY <3>1, ListLength
    <3> QED BY <3>1, <3>2 DEF d
  <2> HIDE DEF i, source
  <2> QED BY <2>1, <2>2, <1>2
<1> HIDE DEF index
<1>4. e.kind = "WorkspaceMoved" /\ e.workspace = w /\ e.session = s /\ e.index = index
  OBVIOUS
<1> HIDE DEF e
<1>5. k.workspaces = all
  <2>1. \A r \in DOMAIN h.workspaces : r # source => Dropped(h.workspaces[r], {w}) = h.workspaces[r]
    <3> SUFFICES ASSUME NEW r \in DOMAIN h.workspaces, r # source
                 PROVE  Dropped(h.workspaces[r], {w}) = h.workspaces[r]
      OBVIOUS
    <3>1. Distinct(h.workspaces[r]) /\ ToSet(h.workspaces[r]) \cap {w} = {}
      BY <1>2
    <3> QED BY <3>1, DroppedNone
  <2>2. k.workspaces = [h.workspaces EXCEPT ![source] = Dropped(@, {w})] /\ Fun(h.workspaces)
    BY <1>1 DEF Whole, Fields
  <2> HIDE DEF source, k
  <2> QED BY <2>1, <2>2, <1>2 DEF Fun
<1>6. new = [h EXCEPT !.workspaces = [all EXCEPT ![s] = InsertAt(@, index, w)]]
  <2>1. Fields(h)
    BY <1>1 DEF Whole
  <2>2. Fields(k) /\ k.sessions = h.sessions /\ k.tabs = h.tabs /\ k.layout = h.layout
        /\ k.attachments = h.attachments
    BY <2>1 DEF Fields
  <2> HIDE DEF k, all
  <2> QED BY <2>1, <2>2, <1>5 DEF Fields
<1>7. Applied(h, e) = [h EXCEPT !.workspaces = Resettled(h.workspaces, w, s, index)]
  BY <1>4, WorkspaceMovedIs
<1>8. new = Applied(h, e)
  <2>1. Resettled(h.workspaces, w, s, index) = [all EXCEPT ![s] = InsertAt(@, index, w)]
    BY DEF Resettled
  <2> HIDE DEF new, all
  <2> QED BY <2>1, <1>6, <1>7
<1>9. Says(h, new, e)
  <2> HIDE DEF new
  <2>1. Accepts(h, e)
    BY <1>3, <1>4, WorkspaceMovedIs
  <2> QED BY <1>4, <1>8, <2>1 DEF Says
<1> HIDE DEF new
<1> QED BY <1>1, <1>9, Reported

LEMMA RearrangementSaid ==
  ASSUME NEW new, NEW changes, Commit(new, <<Rearrangement(changes)>>),
         Accepts(h, Rearrangement(changes)), new = Applied(h, Rearrangement(changes))
  PROVE  Reports
<1> DEFINE e == Rearrangement(changes)
<1>1. e.kind = "PanesRearranged"
  BY DEF Rearrangement
<1> HIDE DEF e
<1>2. Says(h, new, e)
  BY <1>1 DEF Says, e
<1> QED BY <1>2, Reported DEF e

LEMMA MoveTabToPaneSays ==
  ASSUME MuxInv, MuxInv', NEW q \in terminals, NEW side, NEW t \in DOMAIN h.layout,
         MoveTabToPane(t, q, side)
  PROVE  Reports
<1> DEFINE target == TabOf(h, q)
           layout == Beside(h.layout[target], q, side, h.layout[t].panes)
           k == WithoutTab(h, t)
           new == [k EXCEPT !.layout[target] = layout]
           a == RemovedStep(t)
           b == LayoutStep(target, layout)
<1>1. Commit(new, <<Rearrangement(<<a, b>>)>>) /\ terminals' = terminals /\ target # t
  BY DEF MoveTabToPane
<1>2. Whole(h, terminals) /\ target \in DOMAIN h.layout
  BY Houses DEF MuxInv
<1>3. Fields(k) /\ DOMAIN k.layout = DOMAIN h.layout \ {t}
      /\ \A u \in DOMAIN h.layout \ {t} : k.layout[u] = h.layout[u]
  <2> DEFINE T == {t}
  <2>1. T \subseteq DOMAIN h.layout
    OBVIOUS
  <2> HIDE DEF T
  <2>2. k = WithoutTabs(h, T)
    BY DEF WithoutTab, T
  <2> HIDE DEF k
  <2>3. /\ Whole(k, terminals \ PanesIn(h, T)) /\ DOMAIN k.layout = DOMAIN h.layout \ T
        /\ \A u \in DOMAIN h.layout \ T : k.layout[u] = h.layout[u]
    BY <1>2, <2>1, <2>2, TabsLeave
  <2> QED BY <2>3 DEF T, Whole
<1> HIDE DEF k, layout, target
<1>4. new.layout = [k.layout EXCEPT ![target] = layout]
  BY <1>3 DEF Fields
<1> HIDE DEF a, b
<1>5. StepFits(h, a) /\ StepDone(h, a) = k /\ a.tab = t
  BY RemovedStepIs DEF a, k
<1>6. StepFits(k, b) /\ StepDone(k, b) = new /\ b.tab = target
  BY <1>1, <1>2, <1>3, LayoutStepIs DEF b
<1> HIDE DEF new
<1>7. Whole(new, terminals)
  BY <1>1, Kept
<1>8. Spares(h, new, {a.tab, b.tab})
  BY <1>3, <1>4, <1>5, <1>6 DEF Spares
<1>9. Accepts(h, Rearrangement(<<a, b>>)) /\ new = Applied(h, Rearrangement(<<a, b>>))
  BY <1>1, <1>2, <1>5, <1>6, <1>7, <1>8, TwoChanges
<1> QED BY <1>1, <1>9, RearrangementSaid

LEMMA MoveBetweenTabsSays ==
  ASSUME MuxInv, MuxInv', NEW p \in terminals, NEW q \in terminals, NEW side,
         MoveBetweenTabs(p, q, side)
  PROVE  Reports
<1> DEFINE t == TabOf(h, p)
           target == TabOf(h, q)
           rest == Remaining(t, p)
           layout == Beside(h.layout[target], q, side, <<p>>)
           k == Thinned(t, rest)
           new == [k EXCEPT !.layout[target] = layout]
           a == IF rest.panes = <<>> THEN RemovedStep(t) ELSE LayoutStep(t, rest)
           b == LayoutStep(target, layout)
<1>1. Commit(new, <<Rearrangement(<<a, b>>)>>) /\ terminals' = terminals /\ target # t
  BY DEF MoveBetweenTabs, Thinned
<1>2. Whole(h, terminals) /\ target \in DOMAIN h.layout /\ t \in DOMAIN h.layout
  BY Houses DEF MuxInv
<1>3. Whole(k, Others(terminals, p)) /\ ThinFields(k, t, rest)
  <2>1. t = TabOf(h, p) /\ rest = Remaining(t, p) /\ k = Thinned(t, rest)
    OBVIOUS
  <2> HIDE DEF k, rest, t
  <2> QED BY <1>2, <2>1, PaneLeaves
<1>4. StepFits(h, a) /\ StepDone(h, a) = k /\ a.tab = t
  <2> HIDE DEF rest, t
  <2>1. CASE rest.panes = <<>>
    <3>1. a = RemovedStep(t) /\ k = WithoutTab(h, t)
      BY <2>1 DEF Thinned
    <3> HIDE DEF a, k
    <3> QED BY <1>2, <3>1, RemovedStepIs
  <2>2. CASE rest.panes # <<>>
    <3>1. a = LayoutStep(t, rest) /\ k = [h EXCEPT !.layout[t] = rest]
      BY <2>2 DEF Thinned
    <3> HIDE DEF a, k
    <3> QED BY <1>2, <3>1, LayoutStepIs
  <2> QED BY <2>1, <2>2
<1> HIDE DEF k, a
<1>5. /\ Fields(k) /\ target \in DOMAIN k.layout
      /\ DOMAIN k.layout \ {t} = DOMAIN h.layout \ {t}
      /\ \A u \in DOMAIN h.layout \ {t} : k.layout[u] = h.layout[u]
  <2> HIDE DEF t, target, rest
  <2> QED BY <1>1, <1>2, <1>3 DEF ThinFields, Whole
<1> HIDE DEF t, target, rest, layout
<1>6. new.layout = [k.layout EXCEPT ![target] = layout]
  BY <1>5 DEF Fields
<1> HIDE DEF b
<1>7. StepFits(k, b) /\ StepDone(k, b) = new /\ b.tab = target
  BY <1>5, LayoutStepIs DEF b
<1> HIDE DEF new
<1>8. Whole(new, terminals)
  BY <1>1, Kept
<1>9. Spares(h, new, {a.tab, b.tab})
  BY <1>4, <1>5, <1>6, <1>7 DEF Spares
<1>10. Accepts(h, Rearrangement(<<a, b>>)) /\ new = Applied(h, Rearrangement(<<a, b>>))
  BY <1>1, <1>2, <1>4, <1>7, <1>8, <1>9, TwoChanges
<1> QED BY <1>1, <1>10, RearrangementSaid

LEMMA PlaceLonePaneSays ==
  ASSUME MuxInv, MuxInv', NEW p \in terminals, NEW w \in DOMAIN h.tabs, NEW before \in Anchors(h.tabs[w]),
         PlaceLonePane(p, w, before)
  PROVE  Reports
<1> DEFINE t == TabOf(h, p)
           index == Place(h.tabs[w], before)
           new == Ordered(Unordered(h, t), w, index, t)
           c == [kind |-> "Placed", tab |-> t, workspace |-> w, index |-> index]
<1>1. Commit(new, <<Rearrangement(<<c>>)>>) /\ terminals' = terminals /\ WorkspaceOf(h, t) # w
  BY DEF PlaceLonePane
<1>2. Whole(h, terminals) /\ t \in DOMAIN h.layout
  BY Houses DEF MuxInv
<1>3. index \in 1..Len(Dropped(h.tabs[w], {t})) + 1
  <2>1. Distinct(h.tabs[w]) /\ t \notin ToSet(h.tabs[w])
    BY <1>1, <1>2, Houses, WholeLists
  <2>2. index \in 1..Len(h.tabs[w]) + 1 /\ Len(Dropped(h.tabs[w], {t})) = Len(h.tabs[w])
    BY <2>1, PlaceIs, DroppedLength
  <2> QED BY <2>2
<1> HIDE DEF index, t
<1>4. c.kind = "Placed" /\ c.tab = t /\ c.workspace = w /\ c.index = index
  OBVIOUS
<1> HIDE DEF c, new
<1>5. StepFits(h, c) /\ StepDone(h, c) = new
  <2>1. CanTake(Unordered(h, t), w, index)
    BY <1>2, <1>3, CanReturn
  <2> QED BY <1>2, <1>4, <2>1, PlacedStepIs DEF new
<1>6. Whole(new, terminals)
  BY <1>1, Kept
<1>7. Spares(h, new, {c.tab})
  <2>1. Room(Dropped(h.tabs[w], {t}), index)
    BY <1>3 DEF Room
  <2>2. MoveFields(h, new)
    BY <1>2, <2>1, TabMove DEF new
  <2> QED BY <2>2 DEF MoveFields, Spares
<1>8. Accepts(h, Rearrangement(<<c>>)) /\ new = Applied(h, Rearrangement(<<c>>))
  BY <1>2, <1>5, <1>6, <1>7, OneChange
<1> QED BY <1>1, <1>8, RearrangementSaid

LEMMA ExtractPaneSays ==
  ASSUME MuxInv, MuxInv', NEW p \in terminals, NEW w \in DOMAIN h.tabs, NEW before \in Anchors(h.tabs[w]),
         ExtractPane(p, w, before)
  PROVE  Reports
<1> DEFINE t == TabOf(h, p)  rest == Remaining(t, p)  tab == next + 1
           layout == [panes |-> <<p>>, zoomed |-> None]
           index == Place(h.tabs[w], before)
           tabs == [h.tabs EXCEPT ![w] = InsertAt(@, index, tab)]
           new == [h EXCEPT !.layout = With([@ EXCEPT ![t] = rest], tab, layout),
                            !.tabs[w] = InsertAt(@, index, tab)]
           a == [kind |-> "Opened", workspace |-> w, tab |-> tab, layout |-> layout, index |-> index]
           b == LayoutStep(t, rest)
           k == Opens(h, w, index, tab, layout)
<1>1. Commit(new, <<Rearrangement(<<a, b>>)>>) /\ terminals' = terminals
  BY DEF ExtractPane
<1>2. Whole(h, terminals) /\ t \in DOMAIN h.layout /\ tab \notin DOMAIN h.layout
  <2>1. tab \in Nat /\ tab > next
    BY DEF MuxInv, Numbered
  <2>2. tab \notin DOMAIN h.layout
    BY <2>1, Fresh
  <2> QED BY <2>2, Houses DEF MuxInv
<1>3. CanTake(h, w, index)
  <2>1. Distinct(h.tabs[w])
    BY <1>2, WholeLists
  <2>2. index \in 1..Len(h.tabs[w]) + 1
    BY <2>1, PlaceIs
  <2> QED BY <2>2 DEF CanTake
<1> HIDE DEF index, t, rest, tab, layout
<1>4. a.kind = "Opened" /\ a.workspace = w /\ a.tab = tab /\ a.layout = layout /\ a.index = index
  OBVIOUS
<1> HIDE DEF a, b
<1>5. StepFits(h, a) /\ StepDone(h, a) = k
  BY <1>2, <1>3, <1>4, OpenedStepIs
<1>6. Fields(h)
  BY <1>2 DEF Whole
<1>7. k = [h EXCEPT !.tabs = tabs, !.layout = With(h.layout, tab, layout)]
  <2>1. k = [[h EXCEPT !.tabs = tabs] EXCEPT !.layout = With(@, tab, layout)]
    BY DEF Opens, Ordered
  <2> HIDE DEF k, tabs
  <2> QED BY <1>6, <2>1 DEF Fields
<1>8. new = [h EXCEPT !.tabs = tabs, !.layout = With([h.layout EXCEPT ![t] = rest], tab, layout)]
  <2>1. new = [h EXCEPT !.layout = With([h.layout EXCEPT ![t] = rest], tab, layout), !.tabs = tabs]
    BY <1>6 DEF Fields
  <2> HIDE DEF new, tabs
  <2> QED BY <1>6, <2>1 DEF Fields
<1>9. With([h.layout EXCEPT ![t] = rest], tab, layout) = [With(h.layout, tab, layout) EXCEPT ![t] = rest]
  BY <1>2 DEF With
<1>10. k.layout = With(h.layout, tab, layout) /\ new.layout = [With(h.layout, tab, layout) EXCEPT ![t] = rest]
  <2> HIDE DEF k, new, tabs
  <2> QED BY <1>6, <1>7, <1>8, <1>9 DEF Fields
<1>11. StepFits(k, b) /\ StepDone(k, b) = new /\ b.tab = t
  <2>1. t \in DOMAIN k.layout
    BY <1>2, <1>10 DEF With
  <2>2. new = [k EXCEPT !.layout[t] = rest]
    <3> DEFINE l == With(h.layout, tab, layout)  m == [l EXCEPT ![t] = rest]
    <3>1. k = [h EXCEPT !.tabs = tabs, !.layout = l] /\ new = [h EXCEPT !.tabs = tabs, !.layout = m]
      BY <1>7, <1>8, <1>9
    <3>2. k.layout = l
      BY <1>10
    <3> HIDE DEF k, new, tabs, l
    <3>3. [k EXCEPT !.layout[t] = rest] = [k EXCEPT !.layout = m]
      BY <3>2
    <3> HIDE DEF m
    <3> QED BY <1>6, <3>1, <3>3 DEF Fields
  <2> HIDE DEF k, new
  <2> QED BY <2>1, <2>2, LayoutStepIs DEF b
<1> HIDE DEF new, k
<1>12. Whole(new, terminals)
  BY <1>1, Kept
<1>13. Spares(h, new, {a.tab, b.tab})
  BY <1>4, <1>10, <1>11 DEF Spares, With
<1>14. Accepts(h, Rearrangement(<<a, b>>)) /\ new = Applied(h, Rearrangement(<<a, b>>))
  <2>1. a.tab # b.tab
    BY <1>2, <1>4, <1>11
  <2>2. StepFits(StepDone(h, a), b) /\ new = StepDone(StepDone(h, a), b)
    BY <1>5, <1>11
  <2> QED BY <1>2, <1>5, <1>12, <1>13, <2>1, <2>2, TwoChanges
<1> QED BY <1>1, <1>14, RearrangementSaid

-----------------------------------------------------------------------------
(* The changes of a restore run one after the other to what it leaves. *)

Runs(g, changes, n) ==
    /\ Listed(changes)
    /\ \E w : Works(w, g, changes) /\ w[Len(changes)] = n
    /\ Spares(g, n, TabsOf(changes))

LEMMA RunsNone ==
  ASSUME NEW g
  PROVE  Runs(g, <<>>, g) /\ DistinctRoles(<<>>)
<1> DEFINE none == <<>>  w == [i \in 0..0 |-> g]
<1>1. Listed(none) /\ Len(none) = 0 /\ DOMAIN none = {}
  BY ListedNone
<1>2. w[0] = g /\ w = [i \in 0..0 |-> w[i]]
  OBVIOUS
<1> HIDE DEF none, w
<1>3. Works(w, g, none) /\ w[Len(none)] = g
  BY <1>1, <1>2 DEF Works, Chain
<1>4. Runs(g, none, g)
  BY <1>1, <1>3 DEF Runs, Spares
<1>5. DistinctRoles(none)
  BY <1>1 DEF DistinctRoles
<1> QED BY <1>4, <1>5 DEF none

LEMMA RunsOne ==
  ASSUME NEW g, NEW a, StepFits(g, a), NEW n, n = StepDone(g, a), Spares(g, n, {a.tab})
  PROVE  Runs(g, <<a>>, n) /\ DistinctRoles(<<a>>)
<1> DEFINE changes == <<a>>
           w == [i \in 0..1 |-> IF i = 0 THEN g ELSE n]
<1>1. Len(changes) = 1 /\ DOMAIN changes = 1..1 /\ changes[1] = a
  OBVIOUS
<1>2. Listed(changes)
  BY ListedSingle
<1>3. w[0] = g /\ w[1] = n /\ w = [i \in 0..1 |-> w[i]]
  OBVIOUS
<1> HIDE DEF changes, w
<1>4. \A i \in 1..1 : i = 1 /\ i - 1 = 0
  OBVIOUS
<1>5. Works(w, g, changes) /\ w[Len(changes)] = n
  BY <1>1, <1>3, <1>4 DEF Chain, Works
<1>6. DistinctRoles(changes) /\ TabsOf(changes) = {a.tab}
  BY <1>1, <1>4 DEF DistinctRoles, TabsOf
<1> QED BY <1>2, <1>5, <1>6 DEF Runs, changes

LEMMA RunsJoin ==
  ASSUME NEW g, NEW s, NEW m, Runs(g, s, m), NEW t, NEW n, Runs(m, t, n)
  PROVE  Runs(g, s \o t, n)
<1> DEFINE a == Len(s)  b == Len(t)  u == s \o t
<1>1. PICK v : Works(v, g, s) /\ v[a] = m
  BY DEF Runs
<1>2. PICK z : Works(z, m, t) /\ z[b] = n
  BY DEF Runs
<1> DEFINE w == [i \in 0..a+b |-> IF i <= a THEN v[i] ELSE z[i - a]]
<1>3. a \in Nat /\ b \in Nat /\ DOMAIN s = 1..a /\ DOMAIN t = 1..b
  BY ListedIs DEF Runs
<1>4. /\ Listed(u) /\ Len(u) = a + b
      /\ \A i \in 1..a : u[i] = s[i]
      /\ \A i \in 1..b : u[a + i] = t[i]
  BY ListedJoin DEF Runs
<1>5. DOMAIN u = 1..a+b
  BY <1>4, ListedIs
<1>6. /\ v[0] = g /\ \A i \in 1..a : v[i] = StepDone(v[i - 1], s[i]) /\ StepFits(v[i - 1], s[i])
      /\ z[0] = m /\ \A i \in 1..b : z[i] = StepDone(z[i - 1], t[i]) /\ StepFits(z[i - 1], t[i])
  BY <1>1, <1>2 DEF Works, Chain
<1>7. /\ \A i \in 0..a : w[i] = v[i]
      /\ \A i \in 0..b : w[a + i] = z[i]
  <2>1. \A i \in 0..a : i \in 0..a+b /\ i <= a
    BY <1>3
  <2>2. \A i \in 1..b : a + i \in 0..a+b /\ ~(a + i <= a) /\ (a + i) - a = i
    BY <1>3
  <2>3. \A i \in 0..b : i = 0 \/ i \in 1..b
    BY <1>3
  <2>4. a + 0 = a /\ a \in 0..a
    BY <1>3
  <2>5. \A i \in 0..a : w[i] = v[i]
    BY <2>1
  <2>6. \A i \in 1..b : w[a + i] = z[i]
    BY <2>2
  <2>7. w[a] = v[a] /\ v[a] = m /\ z[0] = m
    BY <2>4, <2>5, <1>1, <1>6
  <2> HIDE DEF w, u
  <2>8. w[a + 0] = z[0]
    BY <2>4, <2>7
  <2> QED BY <2>3, <2>5, <2>6, <2>8
<1>8. w = [i \in 0..a+b |-> w[i]]
  OBVIOUS
<1> HIDE DEF w, u, a, b
<1>9. ASSUME NEW i \in 1..a+b PROVE w[i] = StepDone(w[i - 1], u[i]) /\ StepFits(w[i - 1], u[i])
  <2>1. CASE i \in 1..a
    <3>1. i \in 0..a /\ i - 1 \in 0..a
      BY <2>1, <1>3
    <3> QED BY <2>1, <3>1, <1>4, <1>6, <1>7
  <2>2. CASE i \notin 1..a
    <3> DEFINE j == i - a
    <3>1. j \in 1..b /\ j \in 0..b /\ j - 1 \in 0..b /\ a + j = i /\ a + (j - 1) = i - 1
      BY <2>2, <1>3
    <3> HIDE DEF j
    <3>2. w[i] = z[j] /\ w[i - 1] = z[j - 1] /\ u[i] = t[j]
      BY <3>1, <1>4, <1>7
    <3> QED BY <3>1, <3>2, <1>6
  <2> QED BY <2>1, <2>2
<1>10. w[0] = g /\ w[a + b] = n
  <2>1. 0 \in 0..a /\ b \in 0..b
    BY <1>3
  <2> QED BY <2>1, <1>2, <1>6, <1>7 DEF b
<1>11. Works(w, g, u) /\ w[Len(u)] = n
  BY <1>4, <1>8, <1>9, <1>10 DEF Works, Chain
<1>12. TabsOf(u) = TabsOf(s) \cup TabsOf(t)
  <2>1. ASSUME NEW i \in 1..a PROVE i \in 1..a+b /\ u[i] = s[i]
    BY <1>3, <1>4
  <2>2. ASSUME NEW j \in 1..b PROVE a + j \in 1..a+b /\ u[a + j] = t[j]
    BY <1>3, <1>4
  <2>3. ASSUME NEW i \in 1..a+b PROVE i \in 1..a \/ (i - a \in 1..b /\ a + (i - a) = i)
    BY <1>3
  <2>4. TabsOf(u) \subseteq TabsOf(s) \cup TabsOf(t)
    <3> SUFFICES ASSUME NEW i \in 1..a+b PROVE u[i].tab \in TabsOf(s) \cup TabsOf(t)
      BY <1>5 DEF TabsOf
    <3>1. CASE i \in 1..a
      BY <3>1, <2>1, <1>3 DEF TabsOf
    <3>2. CASE i \notin 1..a
      <4> DEFINE j == i - a
      <4>1. j \in 1..b /\ a + j = i
        BY <3>2, <2>3
      <4> HIDE DEF j
      <4>2. u[i].tab = t[j].tab /\ j \in DOMAIN t
        BY <4>1, <2>2, <1>3
      <4> QED BY <4>2 DEF TabsOf
    <3> QED BY <3>1, <3>2
  <2>5. TabsOf(s) \subseteq TabsOf(u)
    BY <2>1, <1>3, <1>5 DEF TabsOf
  <2>6. TabsOf(t) \subseteq TabsOf(u)
    <3> SUFFICES ASSUME NEW j \in 1..b PROVE t[j].tab \in TabsOf(u)
      BY <1>3 DEF TabsOf
    <3>1. a + j \in DOMAIN u /\ t[j].tab = u[a + j].tab
      BY <2>2, <1>5
    <3> QED BY <3>1 DEF TabsOf
  <2> QED BY <2>4, <2>5, <2>6
<1>13. Spares(g, n, TabsOf(u))
  <2>1. Spares(g, m, TabsOf(s)) /\ Spares(m, n, TabsOf(t))
    BY DEF Runs
  <2> QED BY <2>1, <1>12 DEF Spares
<1> QED BY <1>4, <1>11, <1>13 DEF Runs, u

LEMMA RolesJoin ==
  ASSUME NEW s, NEW t, Listed(s), Listed(t), DistinctRoles(s), DistinctRoles(t),
         \A i \in DOMAIN s, j \in DOMAIN t : s[i].tab = t[j].tab => {s[i].kind, t[j].kind} = {"Layout", "Placed"}
  PROVE  DistinctRoles(s \o t)
<1> DEFINE a == Len(s)  b == Len(t)  u == s \o t
<1>1. a \in Nat /\ b \in Nat /\ DOMAIN s = 1..a /\ DOMAIN t = 1..b
  BY ListedIs
<1>2. /\ Listed(u) /\ Len(u) = a + b
      /\ \A i \in 1..a : u[i] = s[i]
      /\ \A i \in 1..b : u[a + i] = t[i]
  BY ListedJoin
<1>3. DOMAIN u = 1..a+b
  BY <1>2, ListedIs
<1> HIDE DEF u, a, b
<1>4. ASSUME NEW i \in 1..a+b
      PROVE  (i \in 1..a /\ u[i] = s[i]) \/ (i - a \in 1..b /\ u[i] = t[i - a] /\ i \notin 1..a)
  <2>1. CASE i \in 1..a
    BY <2>1, <1>2
  <2>2. CASE i \notin 1..a
    <3>1. i - a \in 1..b /\ a + (i - a) = i
      BY <2>2, <1>1
    <3> QED BY <3>1, <2>2, <1>2
  <2> QED BY <2>1, <2>2
<1>5. /\ \A i, j \in 1..a : i # j /\ s[i].tab = s[j].tab => {s[i].kind, s[j].kind} = {"Layout", "Placed"}
      /\ \A i, j \in 1..b : i # j /\ t[i].tab = t[j].tab => {t[i].kind, t[j].kind} = {"Layout", "Placed"}
      /\ \A i \in 1..a, j \in 1..b : s[i].tab = t[j].tab => {s[i].kind, t[j].kind} = {"Layout", "Placed"}
  BY <1>1 DEF DistinctRoles
<1>6. ASSUME NEW i \in 1..a+b, NEW j \in 1..a+b, i # j, u[i].tab = u[j].tab
      PROVE  {u[i].kind, u[j].kind} = {"Layout", "Placed"}
  <2> DEFINE k == i - a  l == j - a
  <2>1. (i \in 1..a /\ u[i] = s[i]) \/ (k \in 1..b /\ u[i] = t[k] /\ i \notin 1..a)
    BY <1>4
  <2>2. (j \in 1..a /\ u[j] = s[j]) \/ (l \in 1..b /\ u[j] = t[l] /\ j \notin 1..a)
    BY <1>4
  <2>3. k # l
    BY <1>1, <1>6
  <2> HIDE DEF k, l
  <2>4. CASE i \in 1..a /\ j \in 1..a
    BY <2>1, <2>2, <2>4, <1>5, <1>6
  <2>5. CASE i \in 1..a /\ j \notin 1..a
    BY <2>1, <2>2, <2>5, <1>5, <1>6
  <2>6. CASE i \notin 1..a /\ j \in 1..a
    <3>1. {s[j].kind, t[k].kind} = {"Layout", "Placed"}
      BY <2>1, <2>2, <2>6, <1>5, <1>6
    <3> QED BY <2>1, <2>2, <2>6, <3>1
  <2>7. CASE i \notin 1..a /\ j \notin 1..a
    BY <2>1, <2>2, <2>3, <2>7, <1>5, <1>6
  <2> QED BY <2>4, <2>5, <2>6, <2>7
<1>7. DistinctRoles(u)
  BY <1>3, <1>6 DEF DistinctRoles
<1> QED BY <1>7 DEF u

LEMMA RunSaid ==
  ASSUME NEW g, NEW P, Whole(g, P), NEW changes, changes # <<>>, DistinctRoles(changes),
         NEW n, Whole(n, P), Runs(g, changes, n)
  PROVE  Accepts(g, Rearrangement(changes)) /\ n = Applied(g, Rearrangement(changes))
<1>1. Len(changes) \in Nat \ {0} /\ DOMAIN changes = 1..Len(changes)
  <2>1. Len(changes) \in Nat /\ DOMAIN changes = 1..Len(changes)
    BY ListedIs DEF Runs
  <2>2. Len(changes) # 0
    BY EmptySeq DEF Runs, Listed
  <2> QED BY <2>1, <2>2
<1>2. PICK w : Works(w, g, changes) /\ w[Len(changes)] = n
  BY DEF Runs
<1>3. Whole(w[Len(changes)], P) /\ Spares(g, w[Len(changes)], TabsOf(changes))
  BY <1>2 DEF Runs
<1>4. /\ Accepts(g, Rearrangement(changes))
      /\ w[Len(changes)] = Applied(g, Rearrangement(changes))
  BY <1>1, <1>2, <1>3, RearrangementFits
<1> QED BY <1>2, <1>4

(* Nothing to run leaves everything. *)
LEMMA RunNothing ==
  ASSUME NEW g, NEW n, Runs(g, <<>>, n)
  PROVE  n = g
<1> DEFINE none == <<>>
<1>1. Len(none) = 0
  OBVIOUS
<1> HIDE DEF none
<1>2. PICK w : Works(w, g, none) /\ w[Len(none)] = n
  BY DEF Runs, none
<1> QED BY <1>1, <1>2 DEF Works, Chain

(* The layouts of some tabs restored, one after the other. *)
Relays(g, S, from, now, to) ==
    [g EXCEPT !.layout = [t \in DOMAIN @ |-> IF t \in S THEN RestoredLayout(from, now, to, t) ELSE @[t]]]

RelaysFields(n, g, S, from, now, to) ==
    /\ Fields(n) /\ n.sessions = g.sessions /\ n.workspaces = g.workspaces /\ n.tabs = g.tabs
    /\ n.attachments = g.attachments /\ Fun(n.layout) /\ DOMAIN n.layout = DOMAIN g.layout
    /\ \A t \in DOMAIN g.layout :
         n.layout[t] = IF t \in S THEN RestoredLayout(from, now, to, t) ELSE g.layout[t]

LEMMA RelaysIs ==
  ASSUME NEW g, Fields(g), NEW S, NEW from, NEW now, NEW to
  PROVE  RelaysFields(Relays(g, S, from, now, to), g, S, from, now, to)
<1> DEFINE n == Relays(g, S, from, now, to)
           l == [t \in DOMAIN g.layout |-> IF t \in S THEN RestoredLayout(from, now, to, t) ELSE g.layout[t]]
<1>1. n = [g EXCEPT !.layout = l]
  BY DEF Relays
<1>2. /\ Fun(l) /\ DOMAIN l = DOMAIN g.layout
      /\ \A t \in DOMAIN g.layout : l[t] = IF t \in S THEN RestoredLayout(from, now, to, t) ELSE g.layout[t]
  BY DEF Fun
<1> HIDE DEF l, n
<1>3. Fields(n) /\ n.layout = l /\ n.sessions = g.sessions /\ n.workspaces = g.workspaces /\ n.tabs = g.tabs
      /\ n.attachments = g.attachments
  BY <1>1 DEF Fields
<1>4. RelaysFields(n, g, S, from, now, to)
  BY <1>2, <1>3 DEF RelaysFields
<1> QED BY <1>4 DEF n

LEMMA Relay ==
  ASSUME NEW g, Fields(g), NEW S, NEW from, NEW now, NEW to, NEW t \in DOMAIN g.layout
  PROVE  LET m == Relays(g, S, from, now, to)
         IN /\ t \in DOMAIN m.layout
            /\ Relays(g, S \cup {t}, from, now, to) = [m EXCEPT !.layout[t] = RestoredLayout(from, now, to, t)]
<1> DEFINE R == RestoredLayout(from, now, to, t)  U == S \cup {t}
           m == Relays(g, S, from, now, to)  n == Relays(g, U, from, now, to)
<1>1. RelaysFields(m, g, S, from, now, to)
  BY RelaysIs
<1>2. RelaysFields(n, g, U, from, now, to)
  <2> HIDE DEF U
  <2> QED BY RelaysIs
<1> HIDE DEF m, n
<1>3. n.layout = [m.layout EXCEPT ![t] = R]
  <2>1. \A u \in DOMAIN g.layout : n.layout[u] = IF u = t THEN R ELSE m.layout[u]
    BY <1>1, <1>2 DEF RelaysFields
  <2> HIDE DEF R
  <2> QED BY <2>1, <1>1, <1>2 DEF Fun, RelaysFields
<1> HIDE DEF R, U
<1>4. n = [m EXCEPT !.layout[t] = R]
  BY <1>1, <1>2, <1>3 DEF Fields, RelaysFields
<1>5. t \in DOMAIN m.layout
  BY <1>1 DEF RelaysFields
<1> QED BY <1>4, <1>5 DEF R, U, m, n

LEMMA LaidRuns ==
  ASSUME NEW g, Fields(g), Fun(g.layout), NEW list, Distinct(list), ToSet(list) \subseteq DOMAIN g.layout,
         NEW from, NEW now, NEW to,
         NEW steps, steps = [i \in DOMAIN list |-> LayoutStep(list[i], RestoredLayout(from, now, to, list[i]))]
  PROVE  Runs(g, steps, Relays(g, ToSet(list), from, now, to)) /\ DistinctRoles(steps)
<1> DEFINE n == Len(list)
           w == [k \in 0..n |-> Relays(g, UpTo(list, k), from, now, to)]
           R(t) == RestoredLayout(from, now, to, t)
<1>1. n \in Nat /\ DOMAIN list = 1..n
  BY ListFacts
<1>2. DOMAIN steps = 1..n /\ steps = [i \in 1..n |-> steps[i]]
      /\ \A i \in 1..n : steps[i] = LayoutStep(list[i], R(list[i]))
  BY <1>1
<1>3. Listed(steps) /\ Len(steps) = n
  BY <1>1, <1>2, ListedIs
<1>4. w = [k \in 0..n |-> w[k]] /\ \A k \in 0..n : w[k] = Relays(g, UpTo(list, k), from, now, to)
  OBVIOUS
<1>5. w[0] = g
  <2> DEFINE m == w[0]  none == UpTo(list, 0)
  <2>1. m = Relays(g, none, from, now, to) /\ \A t : t \notin none
    BY <1>1, <1>4 DEF UpTo
  <2> HIDE DEF m, none
  <2>2. RelaysFields(m, g, none, from, now, to)
    BY <2>1, RelaysIs
  <2>3. m.layout = g.layout
    BY <2>1, <2>2 DEF Fun, RelaysFields
  <2>4. m = g
    BY <2>2, <2>3 DEF Fields, RelaysFields
  <2> QED BY <2>4 DEF m
<1>6. w[n] = Relays(g, ToSet(list), from, now, to)
  <2>1. UpTo(list, n) = ToSet(list)
    BY <1>1 DEF UpTo, ToSet
  <2> QED BY <2>1, <1>1, <1>4
<1> HIDE DEF w, n
<1>7. ASSUME NEW i \in 1..n
      PROVE  w[i] = StepDone(w[i - 1], steps[i]) /\ StepFits(w[i - 1], steps[i])
  <2> DEFINE t == list[i]  c == steps[i]  m == w[i - 1]
  <2>1. t \in DOMAIN g.layout /\ c = LayoutStep(t, R(t))
    BY <1>1, <1>2 DEF ToSet
  <2> DEFINE U == UpTo(list, i - 1)
  <2>2. m = Relays(g, U, from, now, to) /\ w[i] = Relays(g, U \cup {t}, from, now, to)
    <3>1. i \in 0..n /\ i - 1 \in 0..n
      BY <1>1
    <3>2. UpTo(list, i) = UpTo(list, i - 1) \cup {t}
      <4>1. \A j \in 1..i : j = i \/ j \in 1..i-1
        BY <1>1
      <4>2. i \in 1..i /\ \A j \in 1..i-1 : j \in 1..i
        BY <1>1
      <4> QED BY <4>1, <4>2 DEF UpTo
    <3> QED BY <3>1, <3>2, <1>4
  <2> HIDE DEF t, m, c, R, U
  <2>3. t \in DOMAIN m.layout /\ w[i] = [m EXCEPT !.layout[t] = R(t)]
    <3> DEFINE x == w[i]
    <3>1. m = Relays(g, U, from, now, to) /\ x = Relays(g, U \cup {t}, from, now, to)
      BY <2>2
    <3>2. LET q == Relays(g, U, from, now, to)
          IN /\ t \in DOMAIN q.layout
             /\ Relays(g, U \cup {t}, from, now, to) = [q EXCEPT !.layout[t] = RestoredLayout(from, now, to, t)]
      BY <2>1, Relay, SMTT(30)
    <3> HIDE DEF x
    <3>3. t \in DOMAIN m.layout /\ x = [m EXCEPT !.layout[t] = RestoredLayout(from, now, to, t)]
      BY <3>1, <3>2
    <3> QED BY <3>3 DEF R, x
  <2>4. StepFits(m, c) /\ StepDone(m, c) = [m EXCEPT !.layout[t] = R(t)]
    BY <2>1, <2>3, LayoutStepIs
  <2> QED BY <2>3, <2>4 DEF m, c
<1>8. Works(w, g, steps)
  BY <1>3, <1>4, <1>5, <1>7 DEF Works, Chain
<1>9. \A i \in 1..n : steps[i].tab = list[i]
  BY <1>2 DEF LayoutStep
<1>10. TabsOf(steps) = ToSet(list)
  BY <1>1, <1>2, <1>9 DEF TabsOf, ToSet
<1>11. Spares(g, w[n], ToSet(list))
  <2> DEFINE m == w[n]  S == ToSet(list)
  <2>1. m = Relays(g, S, from, now, to)
    BY <1>6
  <2> HIDE DEF m, S
  <2>2. RelaysFields(m, g, S, from, now, to)
    BY <2>1, RelaysIs
  <2>3. Spares(g, m, S)
    BY <2>2 DEF Spares, RelaysFields
  <2> QED BY <2>3 DEF m, S
<1>12. Runs(g, steps, w[n])
  BY <1>3, <1>8, <1>10, <1>11 DEF Runs
<1>13. DistinctRoles(steps)
  BY <1>1, <1>2, <1>9 DEF DistinctRoles, Distinct, IsInjective
<1> QED BY <1>6, <1>12, <1>13

LEMMA WithoutNone ==
  ASSUME NEW g, NEW P, Whole(g, P)
  PROVE  WithoutTabs(g, {}) = g
<1> DEFINE a == [w \in DOMAIN g.tabs |-> Dropped(g.tabs[w], {})]
           l == Without(g.layout, {})
<1>1. WithoutTabs(g, {}) = [g EXCEPT !.tabs = a, !.layout = l]
  BY DEF WithoutTabs
<1>2. a = g.tabs
  <2>1. \A w \in DOMAIN g.tabs : Dropped(g.tabs[w], {}) = g.tabs[w]
    <3> SUFFICES ASSUME NEW w \in DOMAIN g.tabs PROVE Dropped(g.tabs[w], {}) = g.tabs[w]
      OBVIOUS
    <3>1. Distinct(g.tabs[w]) /\ ToSet(g.tabs[w]) \cap {} = {}
      BY WholeLists
    <3> QED BY <3>1, DroppedNone
  <2>2. Fun(g.tabs)
    BY DEF Whole
  <2> QED BY <2>1, <2>2 DEF Fun
<1>3. l = g.layout
  BY DEF Without, Restrict, Whole, Fun
<1> HIDE DEF a, l
<1> QED BY <1>1, <1>2, <1>3 DEF Whole, Fields

(* The restored layouts of what stays, as the model states them at once. *)
LEMMA ClearedAgain ==
  ASSUME NEW P, Whole(h, P), NEW from, NEW now, NEW to,
         NEW A, A = TakenAway(to, now), NEW k, k = WithoutTabs(h, A), A \subseteq DOMAIN h.layout,
         NEW L, L = Relaid(from, now, to)
  PROVE  Cleared(from, now, to) = Relays(k, L, from, now, to) /\ Fields(k) /\ Fun(k.layout)
         /\ DOMAIN k.layout = DOMAIN h.layout \ A
         /\ \A t \in DOMAIN k.layout : k.layout[t] = h.layout[t]
<1> DEFINE l == [t \in DOMAIN h.layout |-> IF t \in L THEN RestoredLayout(from, now, to, t) ELSE h.layout[t]]
           m == [h EXCEPT !.layout = l]
           tabs == [w \in DOMAIN h.tabs |-> Dropped(h.tabs[w], A)]
           j == [t \in DOMAIN k.layout |-> IF t \in L THEN RestoredLayout(from, now, to, t) ELSE k.layout[t]]
<1>1. Fields(h)
  BY DEF Whole
<1>2. k = [h EXCEPT !.tabs = tabs, !.layout = Without(h.layout, A)]
  BY DEF WithoutTabs
<1>3. Fields(k) /\ k.tabs = tabs /\ k.layout = Without(h.layout, A) /\ k.sessions = h.sessions
      /\ k.workspaces = h.workspaces /\ k.attachments = h.attachments
  <2> DEFINE x == Without(h.layout, A)
  <2>1. k = [h EXCEPT !.tabs = tabs, !.layout = x]
    BY <1>2
  <2> HIDE DEF tabs, x
  <2>2. Fields(k) /\ k.tabs = tabs /\ k.layout = x /\ k.sessions = h.sessions
        /\ k.workspaces = h.workspaces /\ k.attachments = h.attachments
    BY <1>1, <2>1 DEF Fields
  <2> QED BY <2>2 DEF x
<1>4. Fun(k.layout) /\ DOMAIN k.layout = DOMAIN h.layout \ A
      /\ \A t \in DOMAIN k.layout : k.layout[t] = h.layout[t]
  BY <1>3 DEF Without, Restrict, Fun
<1>5. Cleared(from, now, to) = WithoutTabs(m, A)
  BY DEF Cleared
<1>6. Fields(m) /\ m.layout = l /\ m.tabs = h.tabs /\ m.sessions = h.sessions
      /\ m.workspaces = h.workspaces /\ m.attachments = h.attachments
  <2> HIDE DEF l
  <2> QED BY <1>1 DEF Fields
<1>7. WithoutTabs(m, A) = [m EXCEPT !.tabs = tabs, !.layout = Without(l, A)]
  BY <1>6 DEF WithoutTabs
<1>8. Without(l, A) = j
  BY <1>4 DEF Without, Restrict
<1>9. Relays(k, L, from, now, to) = [k EXCEPT !.layout = j]
  BY DEF Relays
<1> HIDE DEF l, tabs, j, m
<1>10. WithoutTabs(m, A) = [sessions |-> h.sessions, workspaces |-> h.workspaces, tabs |-> tabs,
                            layout |-> j, attachments |-> h.attachments]
  BY <1>6, <1>7, <1>8 DEF Fields
<1>11. [k EXCEPT !.layout = j] = [sessions |-> h.sessions, workspaces |-> h.workspaces, tabs |-> tabs,
                            layout |-> j, attachments |-> h.attachments]
  BY <1>3 DEF Fields
<1> QED BY <1>3, <1>4, <1>5, <1>9, <1>10, <1>11

(* What the clearing of a restore says of the tabs A and L. *)
Roles(s, A, L) ==
    \A i \in DOMAIN s : \/ s[i].kind = "Removed" /\ s[i].tab \in A
                        \/ s[i].kind = "Layout" /\ s[i].tab \in L

(* The layouts of the tabs that were not removed. *)
Gone(g, T) ==
    /\ DOMAIN WithoutTabs(g, T).layout = DOMAIN g.layout \ T
    /\ \A u \in DOMAIN g.layout \ T : WithoutTabs(g, T).layout[u] = g.layout[u]

LEMMA TabsGone ==
  ASSUME NEW g, NEW P, Whole(g, P), NEW T, T \subseteq DOMAIN g.layout
  PROVE  Gone(g, T)
BY TabsLeave DEF Gone

(* At most one tab is removed. *)
LEMMA RemovalRuns ==
  ASSUME NEW P, Whole(h, P), NEW A, A \subseteq DOMAIN h.layout, \A t, u \in A : t = u,
         NEW list, Distinct(list), ToSet(list) = A,
         NEW steps, steps = [i \in DOMAIN list |-> RemovedStep(list[i])], NEW L
  PROVE  Runs(h, steps, WithoutTabs(h, A)) /\ DistinctRoles(steps) /\ Roles(steps, A, L)
<1>1. DOMAIN list = 1..Len(list) /\ Len(list) \in Nat
  BY ListFacts
<1>0. Gone(h, A)
  BY TabsGone
<1>2. CASE A = {}
  <2>1. list = <<>>
    BY <1>2, ListFacts
  <2>2. steps = <<>>
    BY <2>1
  <2>3. Runs(h, <<>>, h) /\ DistinctRoles(<<>>)
    BY RunsNone
  <2>4. WithoutTabs(h, A) = h
    BY <1>2, WithoutNone
  <2>5. Roles(<<>>, A, L)
    BY DEF Roles
  <2> QED BY <2>2, <2>3, <2>4, <2>5
<1>3. ASSUME NEW t \in A
      PROVE  Runs(h, steps, WithoutTabs(h, A)) /\ DistinctRoles(steps) /\ Roles(steps, A, L)
  <2> DEFINE c == RemovedStep(t)  n == WithoutTabs(h, A)
  <2>1. A = {t}
    OBVIOUS
  <2>2. Len(list) = 1
    <3>1. \A i, j \in 1..Len(list) : i = j
      <4>1. \A i \in 1..Len(list) : list[i] \in A
        BY <1>1 DEF ToSet
      <4> QED BY <4>1, <1>1 DEF Distinct, IsInjective
    <3>2. Len(list) # 0
      <4>1. PICK i \in DOMAIN list : list[i] = t
        BY DEF ToSet
      <4> QED BY <4>1, <1>1
    <3>3. Len(list) > 1 => 1 \in 1..Len(list) /\ 2 \in 1..Len(list)
      BY <1>1
    <3> QED BY <1>1, <3>1, <3>2, <3>3
  <2>3. DOMAIN list = 1..1 /\ list[1] = t
    <3>1. DOMAIN list = 1..1 /\ 1 \in DOMAIN list
      BY <1>1, <2>2
    <3> QED BY <3>1, <2>1 DEF ToSet
  <2>4. steps = <<c>>
    <3>1. steps = [i \in 1..1 |-> RemovedStep(list[i])]
      BY <2>3
    <3>2. \A i \in 1..1 : RemovedStep(list[i]) = c
      <4>1. \A i \in 1..1 : i = 1
        OBVIOUS
      <4> QED BY <4>1, <2>3
    <3> HIDE DEF c
    <3>3. steps = [i \in 1..1 |-> c]
      BY <3>1, <3>2
    <3> QED BY <3>3
  <2>5. n = WithoutTab(h, t)
    BY <2>1 DEF WithoutTab
  <2> HIDE DEF c
  <2>6. DOMAIN n.layout = DOMAIN h.layout \ A /\ \A u \in DOMAIN h.layout \ A : n.layout[u] = h.layout[u]
    BY <1>0 DEF Gone
  <2> HIDE DEF n
  <2>7. StepFits(h, c) /\ n = StepDone(h, c) /\ c.tab = t
    BY <2>5, RemovedStepIs DEF c
  <2>8. Spares(h, n, {c.tab})
    BY <2>1, <2>6, <2>7 DEF Spares
  <2>9. Runs(h, <<c>>, n) /\ DistinctRoles(<<c>>)
    BY <2>7, <2>8, RunsOne
  <2>10. Roles(<<c>>, A, L)
    <3>1. c.kind = "Removed" /\ c.tab = t
      BY DEF c, RemovedStep
    <3> HIDE DEF c
    <3> QED BY <3>1 DEF Roles
  <2> QED BY <2>4, <2>9, <2>10 DEF n
<1> QED BY <1>2, <1>3

LEMMA RolesTogether ==
  ASSUME NEW s, NEW t, Listed(s), Listed(t), NEW A, NEW L, Roles(s, A, L), Roles(t, A, L)
  PROVE  Roles(s \o t, A, L)
<1> DEFINE a == Len(s)  b == Len(t)  u == s \o t
<1>1. a \in Nat /\ b \in Nat /\ DOMAIN s = 1..a /\ DOMAIN t = 1..b
  BY ListedIs
<1>2. /\ Listed(u) /\ Len(u) = a + b
      /\ \A i \in 1..a : u[i] = s[i]
      /\ \A i \in 1..b : u[a + i] = t[i]
  BY ListedJoin
<1>3. DOMAIN u = 1..a+b
  BY <1>2, ListedIs
<1> HIDE DEF u, a, b
<1>4. ASSUME NEW i \in 1..a+b
      PROVE  (\E j \in DOMAIN s : u[i] = s[j]) \/ (\E j \in DOMAIN t : u[i] = t[j])
  <2>1. CASE i \in 1..a
    BY <2>1, <1>1, <1>2
  <2>2. CASE i \notin 1..a
    <3>1. i - a \in 1..b /\ a + (i - a) = i
      BY <2>2, <1>1
    <3> QED BY <3>1, <1>1, <1>2
  <2> QED BY <2>1, <2>2
<1>5. Roles(u, A, L)
  BY <1>3, <1>4 DEF Roles
<1> QED BY <1>5 DEF u

LEMMA ClearingRuns ==
  ASSUME NEW P, Whole(h, P), NEW now, NEW to, NEW tabs, Distinct(tabs), Fits(now, to, ToSet(tabs)), NEW from,
         \A t, u \in TakenAway(to, now) : t = u,
         NEW s, s = ClearingSteps(tabs, from, now, to), NEW g, g = Cleared(from, now, to)
  PROVE  Runs(h, s, g) /\ DistinctRoles(s) /\ Roles(s, TakenAway(to, now), Relaid(from, now, to))
<1> DEFINE A == TakenAway(to, now)
           L == Relaid(from, now, to)
           X == ToSet(tabs) \ A
           Y == ToSet(tabs) \ L
           removed == Dropped(tabs, X)
           laid == Dropped(tabs, Y)
           a == [i \in DOMAIN removed |-> RemovedStep(removed[i])]
           b == [i \in DOMAIN laid |-> LayoutStep(laid[i], RestoredLayout(from, now, to, laid[i]))]
           k == WithoutTabs(h, A)
<1>1. s = a \o b
  BY DEF ClearingSteps
<1>2. A \subseteq ToSet(tabs) /\ A \subseteq DOMAIN h.layout /\ L \subseteq ToSet(tabs)
      /\ L \subseteq DOMAIN h.layout \ A /\ (\A t, u \in A : t = u)
  BY DEF TakenAway, Relaid, Fits
<1>3. Distinct(removed) /\ ToSet(removed) = A
  <2> HIDE DEF X, A
  <2>1. Distinct(Dropped(tabs, X)) /\ ToSet(Dropped(tabs, X)) = ToSet(tabs) \ X
    BY ListDropped
  <2> QED BY <2>1, <1>2 DEF X
<1>4. Distinct(laid) /\ ToSet(laid) = L
  <2> HIDE DEF Y, L
  <2>1. Distinct(Dropped(tabs, Y)) /\ ToSet(Dropped(tabs, Y)) = ToSet(tabs) \ Y
    BY ListDropped
  <2> QED BY <2>1, <1>2 DEF Y
<1> HIDE DEF removed, laid
<1>5. A = TakenAway(to, now) /\ L = Relaid(from, now, to) /\ k = WithoutTabs(h, A)
  OBVIOUS
<1> HIDE DEF A, L, k
<1>6. Runs(h, a, k) /\ DistinctRoles(a) /\ Roles(a, A, L)
  <2>1. a = [i \in DOMAIN removed |-> RemovedStep(removed[i])]
    OBVIOUS
  <2> HIDE DEF a
  <2> QED BY <2>1, <1>2, <1>3, <1>5, RemovalRuns
<1>7. /\ Cleared(from, now, to) = Relays(k, L, from, now, to) /\ Fields(k) /\ Fun(k.layout)
      /\ DOMAIN k.layout = DOMAIN h.layout \ A
  BY <1>2, <1>5, ClearedAgain
<1>8. Runs(k, b, g) /\ DistinctRoles(b)
  <2>1. b = [i \in DOMAIN laid |-> LayoutStep(laid[i], RestoredLayout(from, now, to, laid[i]))]
    OBVIOUS
  <2>2. ToSet(laid) \subseteq DOMAIN k.layout
    BY <1>2, <1>4, <1>7
  <2> HIDE DEF b
  <2>3. Runs(k, b, Relays(k, ToSet(laid), from, now, to)) /\ DistinctRoles(b)
    BY <2>1, <2>2, <1>4, <1>7, LaidRuns
  <2> QED BY <2>3, <1>4, <1>7
<1>9. Roles(b, A, L)
  <2>1. \A i \in DOMAIN laid : laid[i] \in L
    BY <1>4 DEF ToSet
  <2>2. \A i \in DOMAIN laid : b[i].kind = "Layout" /\ b[i].tab = laid[i]
    BY DEF LayoutStep
  <2>3. DOMAIN b = DOMAIN laid
    OBVIOUS
  <2> HIDE DEF b
  <2> QED BY <2>1, <2>2, <2>3 DEF Roles
<1>10. \A i \in DOMAIN a : a[i].tab \in A
  <2>1. \A i \in DOMAIN removed : removed[i] \in A
    BY <1>3 DEF ToSet
  <2> QED BY <2>1 DEF RemovedStep
<1>11. \A i \in DOMAIN b : b[i].tab \in L
  <2>1. \A i \in DOMAIN laid : laid[i] \in L
    BY <1>4 DEF ToSet
  <2> QED BY <2>1 DEF LayoutStep
<1> HIDE DEF a, b
<1>12. Runs(h, s, g)
  BY <1>1, <1>6, <1>8, RunsJoin
<1>13. DistinctRoles(s)
  <2>1. Listed(a) /\ Listed(b)
    BY <1>6, <1>8 DEF Runs
  <2>2. \A i \in DOMAIN a, j \in DOMAIN b : a[i].tab # b[j].tab
    BY <1>2, <1>10, <1>11
  <2> QED BY <2>1, <2>2, <1>1, <1>6, <1>8, RolesJoin
<1>14. Roles(s, A, L)
  <2>1. Listed(a) /\ Listed(b)
    BY <1>6, <1>8 DEF Runs
  <2> QED BY <2>1, <1>1, <1>6, <1>9, RolesTogether
<1> QED BY <1>5, <1>12, <1>13, <1>14

(* The change that puts a tab back. *)
LEMMA PlacedRuns ==
  ASSUME NEW P, NEW g, Whole(g, P), NEW from, NEW now, NEW to,
         NEW t \in DOMAIN now, t \in DOMAIN g.layout, NEW w \in DOMAIN g.tabs, w = to[t].workspace,
         to[t].index \in Nat \ {0}, NEW b, b = Clamped(g, Insertion(from, now, to, t))
  PROVE  b.kind = "Placed" /\ b.tab = t /\ Runs(g, <<b>>, StepDone(g, b))
<1> DEFINE i == to[t].index
           l == Dropped(g.tabs[w], {t})
           j == IF i > Len(l) + 1 THEN Len(l) + 1 ELSE i
           c == [kind |-> "Placed", tab |-> t, workspace |-> w, index |-> i]
           n == StepDone(g, b)
<1>1. Insertion(from, now, to, t) = c
  BY DEF Insertion
<1>2. Unordered(g, t).tabs[w] = l
  <2>1. Unordered(g, t).tabs = Dropping(g.tabs, {t})
    BY UnorderedIs
  <2> QED BY <2>1 DEF Dropping
<1>3. b = [kind |-> "Placed", tab |-> t, workspace |-> w, index |-> j]
  <2> HIDE DEF l, i
  <2> QED BY <1>1, <1>2 DEF Clamped
<1>4. Room(l, j)
  <2>1. Distinct(g.tabs[w])
    BY WholeLists
  <2>2. Distinct(l)
    BY <2>1, ListDropped
  <2>3. i \in Nat \ {0} /\ j = IF i > Len(l) + 1 THEN Len(l) + 1 ELSE i
    OBVIOUS
  <2> HIDE DEF i, j, l
  <2> QED BY <2>2, <2>3, ClampIs
<1> HIDE DEF j, c, i
<1>5. b.kind = "Placed" /\ b.tab = t /\ b.workspace = w /\ b.index = j
  BY <1>3
<1>6. CanTake(Unordered(g, t), w, j)
  BY <1>4, CanReturn DEF Room
<1>7. StepFits(g, b) /\ n = Ordered(Unordered(g, t), w, j, t)
  BY <1>5, <1>6, PlacedStepIs
<1> HIDE DEF n
<1>8. n.layout = g.layout
  <2>1. MoveFields(g, n)
    BY <1>4, <1>7, TabMove DEF l
  <2> QED BY <2>1 DEF MoveFields
<1>9. Spares(g, n, {b.tab})
  BY <1>8 DEF Spares
<1>10. Runs(g, <<b>>, n)
  BY <1>7, <1>9, RunsOne DEF n
<1> QED BY <1>5, <1>10 DEF n

LEMMA OpenedRuns ==
  ASSUME NEW P, NEW g, Whole(g, P), NEW from, NEW now, NEW to,
         NEW t, t \notin DOMAIN now, t \notin DOMAIN g.layout, NEW w \in DOMAIN g.tabs, w = to[t].workspace,
         to[t].index \in Nat \ {0}, NEW b, b = Clamped(g, Insertion(from, now, to, t))
  PROVE  b.kind = "Opened" /\ b.tab = t /\ Runs(g, <<b>>, StepDone(g, b))
<1> DEFINE i == to[t].index
           l == g.tabs[w]
           j == IF i > Len(l) + 1 THEN Len(l) + 1 ELSE i
           layout == RestoredLayout(from, now, to, t)
           c == [kind |-> "Opened", tab |-> t, workspace |-> w, index |-> i, layout |-> layout]
           n == StepDone(g, b)
           tabs == [g.tabs EXCEPT ![w] = InsertAt(@, j, t)]
           L == With(g.layout, t, layout)
<1>1. Insertion(from, now, to, t) = c
  BY DEF Insertion
<1> HIDE DEF layout
<1>2. b = [kind |-> "Opened", tab |-> t, workspace |-> w, index |-> j, layout |-> layout]
  <2> HIDE DEF i
  <2> QED BY <1>1 DEF Clamped
<1>3. Room(l, j)
  <2>1. Distinct(l)
    BY WholeLists
  <2>2. i \in Nat \ {0} /\ j = IF i > Len(l) + 1 THEN Len(l) + 1 ELSE i
    OBVIOUS
  <2> HIDE DEF i, j, l
  <2> QED BY <2>1, <2>2, ClampIs
<1> HIDE DEF j, c, i
<1>4. b.kind = "Opened" /\ b.tab = t /\ b.workspace = w /\ b.index = j /\ b.layout = layout
  BY <1>2
<1>5. CanTake(g, w, j)
  BY <1>3 DEF Room, CanTake
<1>6. StepFits(g, b) /\ n = Opens(g, w, j, t, layout)
  BY <1>4, <1>5, OpenedStepIs
<1>7. n = [[g EXCEPT !.tabs = tabs] EXCEPT !.layout = L]
  BY <1>6 DEF Opens, Ordered
<1> HIDE DEF n
<1>8. n.layout = L
  <2>1. Fields(g)
    BY DEF Whole
  <2> HIDE DEF tabs, L
  <2> QED BY <1>7, <2>1 DEF Fields
<1>9. Spares(g, n, {b.tab})
  BY <1>4, <1>8 DEF Spares, With
<1>10. Runs(g, <<b>>, n)
  BY <1>6, <1>9, RunsOne DEF n
<1> QED BY <1>4, <1>10 DEF n

(* A tab that is put back was not removed, and has its layout restored before *)
(* only when it is there to be placed.                                       *)
LEMMA PutBackRuns ==
  ASSUME NEW P, Whole(h, P), NEW Q, NEW now, NEW to, NEW T, Fits(now, to, T), NEW from,
         NEW g, Whole(g, Q), ClearedFields(g, now, to, T),
         NEW t \in DOMAIN to, HasDestination(to[t]),
         NEW s, Runs(h, s, g), DistinctRoles(s), Roles(s, TakenAway(to, now), Relaid(from, now, to)),
         NEW b, b = Clamped(g, Insertion(from, now, to, t))
  PROVE  Runs(h, s \o <<b>>, StepDone(g, b)) /\ DistinctRoles(s \o <<b>>)
<1> DEFINE w == to[t].workspace  n == StepDone(g, b)
<1>1. w \in DOMAIN g.tabs /\ to[t].index \in Nat \ {0} /\ DOMAIN g.layout = DOMAIN h.layout \ TakenAway(to, now)
  BY DEF HasDestination, ClearedFields, Fits, Recorded
<1>2. t \in T /\ DOMAIN now = T \cap DOMAIN h.layout /\ t \notin TakenAway(to, now)
  BY DEF Fits, Recorded, TakenAway
<1>3. Runs(g, <<b>>, n) /\ b.tab = t /\ (b.kind = "Placed" \/ (b.kind = "Opened" /\ t \notin DOMAIN now))
  <2> HIDE DEF n
  <2>1. CASE t \in DOMAIN now
    <3>1. t \in DOMAIN g.layout
      BY <2>1, <1>1, <1>2
    <3> QED BY <2>1, <3>1, <1>1, PlacedRuns DEF n
  <2>2. CASE t \notin DOMAIN now
    <3>1. t \notin DOMAIN g.layout
      BY <2>2, <1>1, <1>2
    <3> QED BY <2>2, <3>1, <1>1, OpenedRuns DEF n
  <2> QED BY <2>1, <2>2
<1> HIDE DEF n
<1>4. Runs(h, s \o <<b>>, n)
  BY <1>3, RunsJoin
<1>5. DistinctRoles(<<b>>) /\ Listed(<<b>>) /\ Listed(s)
  <2>1. Listed(<<b>>)
    BY ListedSingle
  <2> QED BY <2>1 DEF Runs, DistinctRoles
<1>6. ASSUME NEW i \in DOMAIN s, s[i].tab = t
      PROVE  {s[i].kind, b.kind} = {"Layout", "Placed"}
  <2>1. s[i].kind = "Layout" /\ t \in Relaid(from, now, to)
    BY <1>2, <1>6 DEF Roles
  <2>2. t \in DOMAIN now
    BY <2>1 DEF Relaid
  <2> QED BY <2>1, <2>2, <1>3
<1>7. DistinctRoles(s \o <<b>>)
  <2> DEFINE one == <<b>>
  <2>1. \A j \in DOMAIN one : one[j] = b
    OBVIOUS
  <2>2. DistinctRoles(one) /\ Listed(one)
    BY <1>5
  <2> HIDE DEF one
  <2>3. \A i \in DOMAIN s, j \in DOMAIN one :
          s[i].tab = one[j].tab => {s[i].kind, one[j].kind} = {"Layout", "Placed"}
    BY <2>1, <1>3, <1>6
  <2>4. DistinctRoles(s \o one)
    BY <2>2, <2>3, <1>5, RolesJoin
  <2> QED BY <2>4 DEF one
<1> QED BY <1>4, <1>7 DEF n

(* An entry that removed at most one tab. *)
LEMMA RestorableTakes ==
  ASSUME MuxInv, NEW d \in {"undo", "redo"}, NEW c, c = history[d], Restorable(c, d)
  PROVE  \A t, u \in TakenAway(To(c, d), Snapshot(h, ToSet(c.tabs))) : t = u
<1> DEFINE from == From(c, d)  to == To(c, d)  now == Snapshot(h, ToSet(c.tabs))
<1>1. Entry(c, next)
  BY DEF MuxInv, Entries
<1>2. \A t, u \in Comes(to, from, c.placed) : t = u
  <2>1. CASE d = "undo"
    BY <2>1, <1>1 DEF Entry, From, To
  <2>2. CASE d = "redo"
    BY <2>2, <1>1 DEF Entry, From, To
  <2> QED BY <2>1, <2>2
<1>3. DOMAIN from = DOMAIN now
  BY DEF Restorable, StillMatches
<1> HIDE DEF from, to, now
<1>4. TakenAway(to, now) \subseteq Comes(to, from, c.placed)
  BY <1>3 DEF TakenAway, Comes
<1>5. \A t, u \in TakenAway(to, now) : t = u
  BY <1>2, <1>4
<1> QED BY <1>5 DEF to, now

(* The changes of a restore run to the structure it leaves. *)
LEMMA RestoreRuns ==
  ASSUME MuxInv, NEW d \in {"undo", "redo"}, NEW c, c = history[d], Restorable(c, d)
  PROVE  Runs(h, RestoreSteps(c, d).steps, RestoreSteps(c, d).h) /\ DistinctRoles(RestoreSteps(c, d).steps)
<1> DEFINE from == From(c, d)  to == To(c, d)  T == ToSet(c.tabs)
           now == Snapshot(h, T)  B == PutBack(c, to, now)
           g == Cleared(from, now, to)  s == ClearingSteps(c.tabs, from, now, to)
           start == [h |-> g, steps |-> s]
           restored == RestoreSteps(c, d)
<1>1. /\ Distinct(c.tabs) /\ Fits(now, to, T) /\ B \subseteq DOMAIN to
      /\ \A t, u \in B : t = u
      /\ \A t \in B : HasDestination(to[t]) /\ to[t].index \in Nat
  BY RestorableIs
<1>2. \A t, u \in TakenAway(to, now) : t = u
  BY RestorableTakes
<1>3. /\ B = {} => restored = start
      /\ \A t \in B : restored = Reinserted(start, from, now, to, t)
  <2>1. (\A t \in B : to[t].index \in Nat) /\ (\A t, u \in B : t = u)
    BY <1>1
  <2> QED BY <2>1, RestoreStepsIs
<1>4. Whole(h, terminals)
  BY DEF MuxInv
<1>5. start.h = g /\ start.steps = s
  OBVIOUS
<1> HIDE DEF start, restored, from, to, now, B, T
<1>6. Whole(g, terminals \ Reopened(now, to)) /\ ClearedFields(g, now, to, T)
  BY <1>1, <1>4, ClearedIs
<1>7. Runs(h, s, g) /\ DistinctRoles(s) /\ Roles(s, TakenAway(to, now), Relaid(from, now, to))
  <2>1. Fits(now, to, ToSet(c.tabs)) /\ s = ClearingSteps(c.tabs, from, now, to) /\ g = Cleared(from, now, to)
    BY <1>1 DEF T
  <2> HIDE DEF s, g
  <2> QED BY <2>1, <1>1, <1>2, <1>4, ClearingRuns
<1> HIDE DEF g, s
<1>8. CASE B = {}
  <2>1. restored.h = g /\ restored.steps = s
    BY <1>3, <1>5, <1>8
  <2> QED BY <2>1, <1>7 DEF restored
<1>9. ASSUME NEW t \in B PROVE Runs(h, restored.steps, restored.h) /\ DistinctRoles(restored.steps)
  <2> DEFINE b == Clamped(g, Insertion(from, now, to, t))
  <2>1. restored = [h |-> StepDone(g, b), steps |-> Append(s, b)]
    <3> HIDE DEF b
    <3>1. restored = Reinserted(start, from, now, to, t)
      BY <1>3
    <3> QED BY <3>1, <1>5 DEF Reinserted, b
  <2>2. Append(s, b) = s \o <<b>>
    <3>1. s \in Seq(ToSet(s))
      BY <1>7 DEF Runs, Listed
    <3> HIDE DEF b
    <3> DEFINE E == ToSet(s) \cup {b}
    <3>2. ToSet(s) \subseteq E /\ b \in E
      OBVIOUS
    <3> HIDE DEF E
    <3>3. s \in Seq(E)
      BY <3>1, <3>2, SeqMonotonic
    <3> QED BY <3>2, <3>3, AppendIsConcat
  <2>3. t \in DOMAIN to /\ HasDestination(to[t])
    BY <1>1
  <2>4. b = Clamped(g, Insertion(from, now, to, t))
    OBVIOUS
  <2> HIDE DEF b
  <2>5. Runs(h, s \o <<b>>, StepDone(g, b)) /\ DistinctRoles(s \o <<b>>)
    BY <1>1, <1>4, <1>6, <1>7, <2>3, <2>4, PutBackRuns
  <2>6. restored.h = StepDone(g, b) /\ restored.steps = s \o <<b>>
    BY <2>1, <2>2
  <2> QED BY <2>5, <2>6
<1> QED BY <1>8, <1>9 DEF restored

LEMMA RestoreTabsSays ==
  ASSUME MuxInv, MuxInv', NEW d \in {"undo", "redo"}, RestoreTabs(d)
  PROVE  Reports
<1> DEFINE c == history[d]  restored == RestoreSteps(c, d)  f == restored.h  steps == restored.steps
<1>1. /\ Restorable(c, d) /\ Spend /\ h' = f /\ terminals' = terminals
      /\ Emit(IF steps = <<>> THEN <<>> ELSE <<Rearrangement(steps)>>)
  BY DEF RestoreTabs
<1>2. Runs(h, steps, f) /\ DistinctRoles(steps)
  BY <1>1, RestoreRuns
<1> HIDE DEF c, restored
<1>3. CASE steps = <<>>
  <2>1. h' = h
    BY <1>1, <1>2, <1>3, RunNothing
  <2>2. Emit(<<>>)
    BY <1>1, <1>3
  <2> QED BY <2>1, <2>2, Silent DEF MuxInv, Reports
<1>4. CASE steps # <<>>
  <2> DEFINE e == Rearrangement(steps)  n == h'
  <2>1. Whole(h, terminals) /\ Whole(n, terminals) /\ n = f
    BY <1>1 DEF MuxInv
  <2> HIDE DEF n, f, steps
  <2>2. Accepts(h, e) /\ n = Applied(h, e)
    BY <2>1, <1>2, <1>4, RunSaid
  <2>3. Emit(<<e>>) /\ e.kind # "Reset"
    BY <1>1, <1>4 DEF Rearrangement
  <2> HIDE DEF e
  <2> QED BY <2>2, <2>3 DEF n, Reports, Says
<1> QED BY <1>3, <1>4

LEMMA OperationSays ==
  ASSUME MuxInv, MuxInv', MuxNext
  PROVE  Reports
<1>0. Panes(h) = terminals
  BY PanesAre DEF MuxInv
<1>1. CASE Creates
  <2>1. CASE SpawnFails
    BY <2>1 DEF SpawnFails, Reports
  <2> QED BY <2>1, <1>1, CreateSessionSays, CreateWorkspaceSays, AttachSessionSays, OpenTabSays, SplitPaneSays
          DEF Creates
<1>2. CASE Arranges
  BY <1>2, SetPaneZoomSays, SwapPanesSays, ArrangePanesSays DEF Arranges
<1>3. CASE Moves
  BY <1>0, <1>3, MoveTabSays, MoveWorkspaceSays, MoveTabToPaneSays, MoveWithinTabSays,
     MoveBetweenTabsSays, ExtractPaneSays, PlaceLonePaneSays DEF Moves
<1>4. CASE Restores
  <2>1. ASSUME NEW d \in {"undo", "redo"}, RestoreRefused(d) PROVE Reports
    BY <2>1 DEF RestoreRefused, Reports
  <2> QED BY <2>1, <1>4, RestoreTabsSays DEF Restores
<1>5. CASE Closes
  BY <1>0, <1>5, ClosePaneSays, CloseTabSays, CloseWorkspaceSays, CloseSessionSays DEF Closes
<1>6. CASE Shutdown
  BY <1>6, ShutdownSays
<1>7. CASE Views
  <2>1. ASSUME NEW a, NEW p, SubscribeTerminal(a, p) PROVE Reports
    BY <2>1 DEF SubscribeTerminal, Reports
  <2> QED BY <2>1, <1>0, <1>7, DetachSessionSays, RetargetAttachmentSays DEF Views
<1> QED BY <1>1, <1>2, <1>3, <1>4, <1>5, <1>6, <1>7 DEF MuxNext

-----------------------------------------------------------------------------
(* The events a subscription holds lead from a copy to the structure: it      *)
(* accepts each in turn and ends equal to it, or meets the Reset of Quit.    *)

Path(f, copy, s, k) ==
    /\ f[0] = copy.h
    /\ \A i \in 1..k : s[i].seq = copy.seq + i /\ Says(f[i - 1], f[i], s[i].event)

Arrives(copy, s, g, n) ==
    \E f : Path(f, copy, s, Len(s)) /\ f[Len(s)] = g /\ n = copy.seq + Len(s)

Resets(copy, s) ==
    \E k \in 1..Len(s) : s[k].event.kind = "Reset" /\ \E f : Path(f, copy, s, k - 1)

Leads(copy, q, g, n) ==
    copy.seq \in Nat /\ (q.lagged \/ Arrives(copy, q.events, g, n) \/ Resets(copy, q.events))

LEMMA LeadsNowhere ==
  ASSUME NEW copy, copy.seq \in Nat, NEW q, q.events = <<>>
  PROVE  Leads(copy, q, copy.h, copy.seq)
<1> DEFINE none == <<>>  f == [i \in {0} |-> copy.h]
<1>1. Len(none) = 0 /\ copy.seq = copy.seq + 0 /\ f[0] = copy.h /\ q.events = none
  OBVIOUS
<1>2. \A i \in 1..0 : FALSE
  OBVIOUS
<1> HIDE DEF none, f
<1>3. Path(f, copy, none, 0)
  BY <1>1, <1>2 DEF Path
<1>4. Arrives(copy, none, copy.h, copy.seq)
  BY <1>1, <1>3 DEF Arrives
<1> QED BY <1>1, <1>4 DEF Leads

(* Only what it holds and whether it lagged matters of a subscription. *)
LEMMA LeadsSame ==
  ASSUME NEW copy, NEW q, NEW r, NEW g, NEW n, Leads(copy, q, g, n), r.events = q.events, r.lagged = q.lagged
  PROVE  Leads(copy, r, g, n)
BY DEF Leads

(* What one more event makes of the events held. *)
LEMMA OneMore ==
  ASSUME NEW s, Listed(s), NEW v
  PROVE  /\ Len(s) \in Nat /\ Len(s \o <<v>>) = Len(s) + 1
         /\ \A i \in 1..Len(s) : (s \o <<v>>)[i] = s[i]
         /\ (s \o <<v>>)[Len(s) + 1] = v
<1> DEFINE one == <<v>>
<1>1. Listed(one) /\ Len(one) = 1 /\ one[1] = v /\ 1 \in 1..1
  BY ListedSingle
<1>2. Len(s) \in Nat
  BY ListedIs
<1> HIDE DEF one
<1> QED BY <1>1, <1>2, ListedJoin DEF one

LEMMA ArrivesNext ==
  ASSUME NEW copy, copy.seq \in Nat, NEW s, Listed(s), NEW g, NEW n, Arrives(copy, s, g, n),
         NEW v, v.seq = n + 1, NEW m, v.event.kind = "Reset" \/ Says(g, m, v.event)
  PROVE  Arrives(copy, s \o <<v>>, m, n + 1) \/ Resets(copy, s \o <<v>>)
<1> DEFINE l == Len(s)  u == s \o <<v>>
<1>1. l \in Nat /\ Len(u) = l + 1 /\ (\A i \in 1..l : u[i] = s[i]) /\ u[l + 1] = v
  BY OneMore
<1> HIDE DEF u
<1>2. PICK f : Path(f, copy, s, l) /\ f[l] = g /\ n = copy.seq + l
  BY DEF Arrives
<1>3. Path(f, copy, u, l)
  BY <1>1, <1>2 DEF Path
<1> HIDE DEF l
<1>4. CASE v.event.kind = "Reset"
  <2>1. l + 1 \in 1..Len(u) /\ (l + 1) - 1 = l
    BY <1>1
  <2> QED BY <2>1, <1>1, <1>3, <1>4 DEF Resets, u
<1>5. CASE Says(g, m, v.event)
  <2> DEFINE w == [i \in 0..l+1 |-> IF i = l + 1 THEN m ELSE f[i]]
  <2>1. (\A i \in 0..l : w[i] = f[i]) /\ w[l + 1] = m /\ 0 \in 0..l
    <3>1. \A i \in 0..l : i \in 0..l+1 /\ i # l + 1
      BY <1>1
    <3>2. l + 1 \in 0..l+1 /\ 0 \in 0..l
      BY <1>1
    <3> QED BY <3>1, <3>2
  <2> HIDE DEF w
  <2>2. ASSUME NEW i \in 1..l+1
        PROVE  u[i].seq = copy.seq + i /\ Says(w[i - 1], w[i], u[i].event)
    <3>1. CASE i \in 1..l
      <4>1. i - 1 \in 0..l /\ i \in 0..l
        BY <3>1, <1>1
      <4>2. u[i].seq = copy.seq + i /\ Says(f[i - 1], f[i], u[i].event)
        BY <3>1, <1>3 DEF Path
      <4> QED BY <4>1, <4>2, <2>1
    <3>2. CASE i = l + 1
      <4>1. i - 1 = l /\ l \in 0..l
        BY <3>2, <1>1
      <4>2. v.seq = copy.seq + i
        BY <3>2, <1>1, <1>2
      <4>3. w[i - 1] = g /\ w[i] = m /\ u[i] = v
        BY <4>1, <3>2, <2>1, <1>1, <1>2
      <4> QED BY <4>2, <4>3, <1>5
    <3>3. i \in 1..l \/ i = l + 1
      BY <1>1
    <3> QED BY <3>1, <3>2, <3>3
  <2>3. Path(w, copy, u, Len(u))
    BY <2>1, <2>2, <1>1, <1>2 DEF Path
  <2>4. n + 1 = copy.seq + Len(u)
    BY <1>1, <1>2
  <2>5. Arrives(copy, u, m, n + 1)
    BY <2>1, <2>3, <2>4, <1>1 DEF Arrives
  <2> QED BY <2>5 DEF u
<1> QED BY <1>4, <1>5

LEMMA ResetsStill ==
  ASSUME NEW copy, NEW s, Listed(s), Resets(copy, s), NEW v
  PROVE  Resets(copy, s \o <<v>>)
<1> DEFINE l == Len(s)  u == s \o <<v>>
<1>1. l \in Nat /\ Len(u) = l + 1 /\ \A i \in 1..l : u[i] = s[i]
  BY OneMore
<1> HIDE DEF u
<1>2. PICK k \in 1..l : s[k].event.kind = "Reset" /\ \E f : Path(f, copy, s, k - 1)
  BY DEF Resets
<1>3. PICK f : Path(f, copy, s, k - 1)
  BY <1>2
<1> HIDE DEF l
<1>4. k \in 1..Len(u) /\ \A i \in 1..k-1 : i \in 1..l
  BY <1>1
<1>5. Path(f, copy, u, k - 1)
  BY <1>1, <1>3, <1>4 DEF Path
<1> QED BY <1>1, <1>2, <1>4, <1>5 DEF Resets, u

(* A lagged subscription holds nothing. *)
Lags(q) == q.lagged => q.events = <<>>

LEMMA OneEmitted ==
  ASSUME Counts, NEW e, Emit(<<e>>), NEW v, v = [seq |-> seq + 1, event |-> e], queue.open, Lags(queue)
  PROVE  /\ seq' = seq + 1 /\ queue'.open /\ Lags(queue')
         /\ queue'.lagged \/ (~queue.lagged /\ queue'.events = queue.events \o <<v>>)
<1> DEFINE one == <<e>>  envelopes == [i \in DOMAIN one |-> [seq |-> seq + i, event |-> one[i]]]
           s == queue.events \o <<v>>
<1>1. seq' = seq + Len(one) /\ queue' = Published(queue, envelopes)
  BY DEF Emit
<1>2. envelopes = <<v>> /\ Len(one) = 1 /\ envelopes # <<>>
  OBVIOUS
<1> HIDE DEF envelopes
<1>3. queue = [open |-> queue.open, events |-> queue.events, lagged |-> queue.lagged, wake |-> queue.wake]
  BY DEF Counts, Feed
<1>4. CASE queue.lagged
  <2>1. queue' = queue
    BY <1>1, <1>4 DEF Published
  <2> QED BY <2>1, <1>1, <1>2, <1>4
<1>5. CASE ~queue.lagged
  <2>1. \/ queue' = [queue EXCEPT !.events = <<>>, !.lagged = TRUE, !.wake = TRUE]
        \/ queue' = [queue EXCEPT !.events = s, !.wake = TRUE]
    BY <1>1, <1>2, <1>5 DEF Published
  <2> DEFINE none == <<>>
  <2>2. \/ queue'.open = queue.open /\ queue'.events = none /\ queue'.lagged = TRUE
        \/ queue'.open = queue.open /\ queue'.events = s /\ queue'.lagged = queue.lagged
    <3> HIDE DEF s
    <3>1. \/ queue' = [queue EXCEPT !.events = none, !.lagged = TRUE, !.wake = TRUE]
          \/ queue' = [queue EXCEPT !.events = s, !.wake = TRUE]
      BY <2>1
    <3> HIDE DEF none
    <3> QED BY <3>1, <1>3
  <2> QED BY <2>2, <1>1, <1>2, <1>5 DEF Lags
<1> QED BY <1>4, <1>5

LEMMA LeadsOn ==
  ASSUME Counts, queue.open, Lags(queue), Reports
  PROVE  /\ queue'.open /\ Lags(queue')
         /\ \A copy : Leads(copy, queue, h, seq) => Leads(copy, queue', h', seq')
<1>1. CASE UNCHANGED <<h, seq, queue>>
  BY <1>1
<1>2. ASSUME NEW e, Emit(<<e>>), e.kind = "Reset" \/ Says(h, h', e)
      PROVE  /\ queue'.open /\ Lags(queue')
             /\ \A copy : Leads(copy, queue, h, seq) => Leads(copy, queue', h', seq')
  <2> DEFINE v == [seq |-> seq + 1, event |-> e]
  <2>1. v.seq = seq + 1 /\ v.event = e
    OBVIOUS
  <2>2. /\ seq' = seq + 1 /\ queue'.open /\ Lags(queue')
        /\ queue'.lagged \/ (~queue.lagged /\ queue'.events = queue.events \o <<v>>)
    BY <1>2, OneEmitted
  <2> HIDE DEF v
  <2>3. ASSUME NEW copy, Leads(copy, queue, h, seq)
        PROVE  Leads(copy, queue', h', seq')
    <3> DEFINE s == queue.events  u == s \o <<v>>
    <3>1. CASE queue'.lagged
      BY <3>1, <2>3 DEF Leads
    <3>2. CASE ~queue.lagged /\ queue'.events = u
      <4>1. copy.seq \in Nat /\ Listed(s) /\ (Arrives(copy, s, h, seq) \/ Resets(copy, s))
        BY <2>3, <3>2 DEF Leads, Counts, Feed
      <4>2. Arrives(copy, u, h', seq') \/ Resets(copy, u)
        <5> HIDE DEF s
        <5>1. CASE Arrives(copy, s, h, seq)
          <6> DEFINE n == h'
          <6>1. v.event.kind = "Reset" \/ Says(h, n, v.event)
            BY <2>1, <1>2
          <6> HIDE DEF n
          <6>2. Arrives(copy, s \o <<v>>, n, seq + 1) \/ Resets(copy, s \o <<v>>)
            BY <5>1, <4>1, <2>1, <6>1, ArrivesNext
          <6> QED BY <6>2, <2>2 DEF n
        <5>2. CASE Resets(copy, s)
          BY <5>2, <4>1, ResetsStill
        <5> QED BY <5>1, <5>2, <4>1
      <4> QED BY <4>1, <4>2, <3>2 DEF Leads
    <3> QED BY <3>1, <3>2, <2>2
  <2> QED BY <2>2, <2>3
<1> QED BY <1>1, <1>2 DEF Reports

-----------------------------------------------------------------------------
(* A drain.                                                                   *)

Copied(g, n, outcome) == [h |-> g, seq |-> n, outcome |-> outcome]

(* The copy before the queued events and after each of them. *)
Trail(d, copy, s) ==
    /\ d = [i \in 0..Len(s) |-> d[i]] /\ d[0] = Copied(copy.h, copy.seq, "current")
    /\ \A i \in 1..Len(s) : d[i] = Received(d[i - 1], s[i])

Ended(end) == IF end.outcome = "current" /\ queue.lagged THEN [end EXCEPT !.outcome = "resync"] ELSE end

LEMMA DrainedIs ==
  ASSUME NEW copy, Len(queue.events) \in Nat, NEW d, Trail(d, copy, queue.events)
  PROVE  Drained(copy) = Ended(d[Len(queue.events)])
<1> DEFINE s == queue.events  n == Len(s)  start == Copied(copy.h, copy.seq, "current")
           Done(f) == f = [i \in 0..n |-> IF i = 0 THEN start ELSE Received(f[i - 1], s[i])]
           a == CHOOSE f : Done(f)
           Bad == {i \in 0..n : a[i] # d[i]}
<1>1. Drained(copy) = Ended(a[n])
  BY Zenon DEF Drained, Ended, Copied
<1>2. Done(d)
  <2>0. d[0] = start /\ \A i \in 1..n : d[i] = Received(d[i - 1], s[i])
    BY DEF Trail
  <2>2. d = [i \in 0..n |-> d[i]]
    BY DEF Trail
  <2> HIDE DEF start, s
  <2>1. \A i \in 0..n : d[i] = IF i = 0 THEN start ELSE Received(d[i - 1], s[i])
    <3>1. n \in Nat
      BY DEF s
    <3> HIDE DEF n
    <3>2. \A i \in 0..n : i = 0 \/ i \in 1..n
      BY <3>1
    <3>3. \A i \in 1..n : i # 0
      BY <3>1
    <3> QED BY <3>2, <3>3, <2>0
  <2> HIDE DEF n
  <2> QED BY <2>1, <2>2, Zenon
<1>3. Done(a)
  <2> HIDE DEF Done
  <2> QED BY <1>2
<1> HIDE DEF a
<1>4. /\ a = [i \in 0..n |-> a[i]]
      /\ \A i \in 0..n : a[i] = IF i = 0 THEN start ELSE Received(a[i - 1], s[i])
  <2> HIDE DEF start, s
  <2> QED BY <1>3
<1> HIDE DEF start
<1>5. Bad = {}
  <2> SUFFICES ASSUME Bad # {} PROVE FALSE
    OBVIOUS
  <2>1. PICK m \in Bad : \A k \in Bad : m <= k
    <3>1. Bad \subseteq Nat
      OBVIOUS
    <3> HIDE DEF Bad
    <3> QED BY <3>1, Least
  <2>2. m # 0
    BY <1>4, <2>1 DEF Trail, start
  <2>3. m \in 1..n /\ m - 1 \in 0..n /\ ~(m <= m - 1)
    BY <2>1, <2>2
  <2>4. a[m - 1] = d[m - 1]
    BY <2>1, <2>3
  <2>5. a[m] = Received(a[m - 1], s[m]) /\ d[m] = Received(d[m - 1], s[m])
    BY <1>4, <2>2, <2>3 DEF Trail
  <2> QED BY <2>1, <2>4, <2>5
<1>6. n \in 0..n /\ n \in Nat
  OBVIOUS
<1>7. a[n] = d[n]
  BY <1>5, <1>6
<1> QED BY <1>1, <1>7

CopiedTo(c, g, n) == [c EXCEPT !.h = g, !.seq = n]

LEMMA CopiedOn ==
  ASSUME NEW g, NEW n, NEW o, NEW m, NEW k
  PROVE  CopiedTo(Copied(g, n, o), m, k) = Copied(m, k, o)
<1> DEFINE a == [h |-> g, seq |-> n, outcome |-> o]
<1>1. [a EXCEPT !.h = m] = [h |-> m, seq |-> n, outcome |-> o]
  OBVIOUS
<1>2. [[h |-> m, seq |-> n, outcome |-> o] EXCEPT !.seq = k] = [h |-> m, seq |-> k, outcome |-> o]
  OBVIOUS
<1> HIDE DEF a
<1>3. [a EXCEPT !.h = m, !.seq = k] = [h |-> m, seq |-> k, outcome |-> o]
  BY <1>1, <1>2
<1> QED BY <1>3 DEF a, Copied, CopiedTo

(* The next event of a copy it leads from, and the Reset. *)
LEMMA ReceivedNext ==
  ASSUME NEW g, NEW n \in Nat, NEW v, v.seq = n + 1, NEW m, Says(g, m, v.event)
  PROVE  Received(Copied(g, n, "current"), v) = Copied(m, n + 1, "current")
<1> DEFINE c == Copied(g, n, "current")
<1>1. c.h = g /\ c.seq = n /\ c.outcome = "current"
  BY DEF Copied
<1>2. CopiedTo(c, m, n + 1) = Copied(m, n + 1, "current")
  BY CopiedOn
<1> HIDE DEF c
<1>3. ~(v.seq <= c.seq) /\ v.seq = c.seq + 1 /\ v.event.kind # "Reset" /\ Accepts(c.h, v.event)
      /\ m = Applied(c.h, v.event)
  BY <1>1 DEF Says
<1>4. Received(c, v) = [c EXCEPT !.h = Applied(c.h, v.event), !.seq = v.seq]
  BY <1>1, <1>3 DEF Received
<1>5. Received(c, v) = CopiedTo(c, m, n + 1)
  BY <1>1, <1>3, <1>4 DEF CopiedTo
<1> QED BY <1>2, <1>5 DEF c

LEMMA ReceivedReset ==
  ASSUME NEW g, NEW n, NEW v, v.event.kind = "Reset"
  PROVE  Received(Copied(g, n, "current"), v) = Copied(g, n, "frozen")
BY DEF Received, Copied

LEMMA ReceivedAfter ==
  ASSUME NEW g, NEW n, NEW v
  PROVE  Received(Copied(g, n, "frozen"), v) = Copied(g, n, "frozen")
BY DEF Received, Copied

(* A drain that arrives. *)
LEMMA DrainArrives ==
  ASSUME NEW copy, copy.seq \in Nat, Listed(queue.events), ~queue.lagged,
         Arrives(copy, queue.events, h, seq)
  PROVE  Drained(copy) = Copied(h, seq, "current")
<1> DEFINE s == queue.events  n == Len(s)
<1>1. n \in Nat
  BY ListedIs
<1>2. PICK f : Path(f, copy, s, n) /\ f[n] = h /\ seq = copy.seq + n
  BY DEF Arrives
<1> DEFINE d == [i \in 0..n |-> Copied(f[i], copy.seq + i, "current")]
<1>3. Trail(d, copy, s)
  <2>1. d = [i \in 0..n |-> d[i]]
    OBVIOUS
  <2>2. d[0] = Copied(copy.h, copy.seq, "current")
    <3>1. 0 \in 0..n /\ copy.seq + 0 = copy.seq
      BY <1>1
    <3>2. f[0] = copy.h
      BY <1>2 DEF Path
    <3>3. d[0] = Copied(f[0], copy.seq + 0, "current")
      BY <3>1
    <3> QED BY <3>1, <3>2, <3>3
  <2>3. ASSUME NEW i \in 1..n PROVE d[i] = Received(d[i - 1], s[i])
    <3> DEFINE k == copy.seq + (i - 1)
    <3>1. i \in 0..n /\ i - 1 \in 0..n /\ k \in Nat /\ k + 1 = copy.seq + i
      BY <1>1
    <3>2. d[i - 1] = Copied(f[i - 1], k, "current") /\ d[i] = Copied(f[i], copy.seq + i, "current")
      BY <3>1
    <3>3. s[i].seq = k + 1 /\ Says(f[i - 1], f[i], s[i].event)
      BY <3>1, <1>2 DEF Path
    <3> HIDE DEF k, d, s
    <3>4. Received(Copied(f[i - 1], k, "current"), s[i]) = Copied(f[i], k + 1, "current")
      BY <3>1, <3>3, ReceivedNext
    <3> QED BY <3>1, <3>2, <3>4
  <2> HIDE DEF d
  <2> QED BY <2>1, <2>2, <2>3 DEF Trail
<1>4. d[n] = Copied(h, seq, "current")
  BY <1>1, <1>2
<1> HIDE DEF d
<1>5. Drained(copy) = Ended(d[n])
  BY <1>1, <1>3, DrainedIs
<1> QED BY <1>4, <1>5 DEF Ended

(* A drain that meets the Reset. *)
LEMMA DrainResets ==
  ASSUME NEW copy, copy.seq \in Nat, Listed(queue.events), Resets(copy, queue.events)
  PROVE  Drained(copy).outcome = "frozen"
<1> DEFINE s == queue.events  n == Len(s)
<1>1. n \in Nat
  BY ListedIs
<1>2. PICK k \in 1..n : s[k].event.kind = "Reset" /\ \E f : Path(f, copy, s, k - 1)
  BY DEF Resets
<1>3. PICK f : Path(f, copy, s, k - 1)
  BY <1>2
<1> DEFINE final == Copied(f[k - 1], copy.seq + (k - 1), "frozen")
           d == [i \in 0..n |-> IF i < k THEN Copied(f[i], copy.seq + i, "current") ELSE final]
<1>4. Trail(d, copy, s)
  <2>1. d = [i \in 0..n |-> d[i]]
    OBVIOUS
  <2>2. d[0] = Copied(copy.h, copy.seq, "current")
    <3>1. 0 \in 0..n /\ copy.seq + 0 = copy.seq /\ 0 < k
      BY <1>1
    <3>2. f[0] = copy.h
      BY <1>3 DEF Path
    <3>3. d[0] = Copied(f[0], copy.seq + 0, "current")
      BY <3>1
    <3> QED BY <3>1, <3>2, <3>3
  <2>3. ASSUME NEW i \in 1..n PROVE d[i] = Received(d[i - 1], s[i])
    <3> DEFINE j == copy.seq + (i - 1)
    <3>1. i \in 0..n /\ i - 1 \in 0..n /\ j \in Nat /\ j + 1 = copy.seq + i
      BY <1>1
    <3>2. CASE i < k
      <4>1. i - 1 < k /\ i \in 1..k-1
        BY <3>1, <3>2
      <4>2. d[i - 1] = Copied(f[i - 1], j, "current") /\ d[i] = Copied(f[i], copy.seq + i, "current")
        BY <3>1, <3>2, <4>1
      <4>3. s[i].seq = j + 1 /\ Says(f[i - 1], f[i], s[i].event)
        BY <3>1, <4>1, <1>3 DEF Path
      <4> HIDE DEF j, d, s
      <4>4. Received(Copied(f[i - 1], j, "current"), s[i]) = Copied(f[i], j + 1, "current")
        BY <3>1, <4>3, ReceivedNext
      <4> QED BY <3>1, <4>2, <4>4
    <3>3. CASE i = k
      <4>1. i - 1 < k /\ ~(i < k)
        BY <3>1, <3>3
      <4>2. d[i - 1] = Copied(f[i - 1], j, "current") /\ d[i] = final
        BY <3>1, <4>1
      <4>3. final = Copied(f[i - 1], j, "frozen") /\ s[i].event.kind = "Reset"
        BY <3>3, <1>2
      <4> HIDE DEF j, d, s, final
      <4> QED BY <4>2, <4>3, ReceivedReset
    <3>4. CASE i > k
      <4>1. ~(i - 1 < k) /\ ~(i < k)
        BY <3>1, <3>4
      <4>2. d[i - 1] = final /\ d[i] = final
        BY <3>1, <4>1
      <4> HIDE DEF d, s
      <4>3. Received(final, s[i]) = final
        BY ReceivedAfter
      <4> QED BY <4>2, <4>3
    <3>5. i < k \/ i = k \/ i > k
      OBVIOUS
    <3> QED BY <3>2, <3>3, <3>4, <3>5
  <2> HIDE DEF d
  <2> QED BY <2>1, <2>2, <2>3 DEF Trail
<1>5. d[n] = final
  <2>1. n \in 0..n /\ ~(n < k)
    BY <1>1
  <2> QED BY <2>1
<1> HIDE DEF d
<1>6. Drained(copy) = Ended(d[n])
  BY <1>1, <1>4, DrainedIs
<1>7. final.outcome = "frozen"
  BY DEF Copied
<1> HIDE DEF final
<1> QED BY <1>5, <1>6, <1>7 DEF Ended

(* A lagged subscription has nothing left. *)
LEMMA DrainLags ==
  ASSUME NEW copy, queue.lagged, queue.events = <<>>
  PROVE  Drained(copy).outcome = "resync"
<1> DEFINE start == Copied(copy.h, copy.seq, "current")
           d == [i \in 0..0 |-> start]
<1>1. Len(queue.events) = 0
  OBVIOUS
<1>2. d = [i \in 0..0 |-> d[i]] /\ d[0] = start /\ \A i \in 1..0 : FALSE
  OBVIOUS
<1> HIDE DEF d
<1>3. Trail(d, copy, queue.events)
  BY <1>1, <1>2 DEF Trail
<1>4. Drained(copy) = Ended(start)
  BY <1>1, <1>2, <1>3, DrainedIs
<1> QED BY <1>4 DEF Ended, Copied

LEMMA DrainEnds ==
  ASSUME NEW copy, Counts, Lags(queue), Leads(copy, queue, h, seq)
  PROVE  \/ queue.lagged /\ Drained(copy).outcome = "resync"
         \/ ~queue.lagged /\ Drained(copy) = Copied(h, seq, "current")
         \/ Drained(copy).outcome = "frozen"
<1>1. Listed(queue.events)
  BY DEF Counts, Feed
<1> QED BY <1>1, DrainLags, DrainResets, DrainArrives DEF Leads, Lags

-----------------------------------------------------------------------------
(* The inductive invariant: a live subscription leads from the copy to the    *)
(* structure, and the one a worker replaced it with leads from the snapshot. *)

Streaming ==
    /\ MuxInv /\ queue.open /\ Lags(queue)
    /\ worker \in {"idle", "asked", "taken"}
    /\ worker # "idle" => resyncing \/ frozen
    /\ worker = "taken" => Leads(taken, queue, h, seq)
    /\ ~resyncing /\ ~frozen => Leads(view, queue, h, seq)

LEMMA StreamFollowed ==
  ASSUME Streaming
  PROVE  FollowsStream
<1>1. ASSUME NEW copy, Leads(copy, queue, h, seq)
      PROVE  LET done == Drained(copy)
             IN queue.lagged \/ done.outcome = "frozen" \/ [h |-> done.h, seq |-> done.seq] = [h |-> h, seq |-> seq]
  <2> DEFINE done == Drained(copy)
  <2>1. \/ queue.lagged
        \/ done = Copied(h, seq, "current")
        \/ done.outcome = "frozen"
    BY <1>1, DrainEnds DEF Streaming, MuxInv
  <2> HIDE DEF done
  <2>2. CASE done = Copied(h, seq, "current")
    BY <2>2 DEF Copied, done
  <2> QED BY <2>1, <2>2 DEF done
<1> QED BY <1>1 DEF Streaming, FollowsStream

LEMMA StreamStarts ==
  ASSUME ProjectionInit
  PROVE  Streaming
<1>1. PICK s \in Scenarios :
        /\ MuxBegins(s.ops, Subscribed) /\ view = [h |-> Start, seq |-> 0] /\ worker = "idle"
  BY DEF ProjectionInit
<1>2. MuxInv
  <2>1. s.ops \in Nat
    BY ProjectionConstants
  <2> QED BY <2>1, <1>1, FeedBegins, MuxStarts
<1>3. queue = Subscribed /\ h = Start /\ seq = 0
  BY <1>1 DEF MuxBegins
<1>4. queue.open /\ ~queue.lagged /\ queue.events = <<>>
  BY <1>3 DEF Subscribed
<1>5. view.h = h /\ view.seq = seq /\ view.seq \in Nat
  BY <1>1, <1>3
<1>6. Leads(view, queue, h, seq)
  BY <1>4, <1>5, LeadsNowhere
<1> QED BY <1>1, <1>2, <1>4, <1>6 DEF Streaming, Lags

(* What only the subscription's own state changes leaves the rest whole. *)
LEMMA FedStill ==
  ASSUME MuxInv, UNCHANGED structureVars, Feed(queue')
  PROVE  MuxInv'
BY DEF MuxInv, structureVars, Counts

LEMMA FeedSignalled ==
  ASSUME NEW q, Feed(q), NEW wake \in BOOLEAN, NEW r, r = [q EXCEPT !.wake = wake]
  PROVE  Feed(r) /\ r.events = q.events /\ r.lagged = q.lagged /\ r.open = q.open
<1> DEFINE s == q.events
<1>1. q = [open |-> q.open, events |-> s, lagged |-> q.lagged, wake |-> q.wake]
      /\ q.open \in BOOLEAN /\ q.lagged \in BOOLEAN /\ Listed(s) /\ Len(s) <= Capacity
  BY DEF Feed
<1> HIDE DEF s
<1>2. r = [open |-> q.open, events |-> s, lagged |-> q.lagged, wake |-> wake]
  BY <1>1
<1> QED BY <1>1, <1>2 DEF Feed, s

LEMMA FeedEmptied ==
  ASSUME NEW q, Feed(q), NEW wake \in BOOLEAN, NEW r,
         r = [q EXCEPT !.events = <<>>, !.wake = wake] \/ r = [q EXCEPT !.events = <<>>]
  PROVE  Feed(r) /\ r.events = <<>> /\ r.lagged = q.lagged /\ r.open = q.open
<1> DEFINE none == <<>>
<1>1. q = [open |-> q.open, events |-> q.events, lagged |-> q.lagged, wake |-> q.wake]
      /\ q.open \in BOOLEAN /\ q.lagged \in BOOLEAN /\ q.wake \in BOOLEAN
  BY DEF Feed
<1>2. Listed(none) /\ Len(none) <= Capacity
  BY ListedNone, MuxConstants
<1>3. r = [q EXCEPT !.events = none, !.wake = wake] \/ r = [q EXCEPT !.events = none]
  OBVIOUS
<1> HIDE DEF none
<1>4. \/ r = [open |-> q.open, events |-> none, lagged |-> q.lagged, wake |-> wake]
      \/ r = [open |-> q.open, events |-> none, lagged |-> q.lagged, wake |-> q.wake]
  BY <1>1, <1>3
<1> QED BY <1>1, <1>2, <1>4 DEF Feed, none

(* An operation says what it did to both. *)
LEMMA OperateStreams ==
  ASSUME Streaming, MuxNext, UNCHANGED clientVars
  PROVE  Streaming'
<1>1. MuxInv'
  BY MuxStep DEF Streaming
<1>2. Reports
  BY <1>1, OperationSays DEF Streaming
<1>3. Counts
  BY DEF Streaming, MuxInv
<1>4. /\ queue'.open /\ Lags(queue')
      /\ \A copy : Leads(copy, queue, h, seq) => Leads(copy, queue', h', seq')
  BY <1>2, <1>3, LeadsOn DEF Streaming
<1>5. worker' = worker /\ resyncing' = resyncing /\ frozen' = frozen /\ taken' = taken /\ view' = view
  BY DEF clientVars
<1> QED BY <1>1, <1>4, <1>5 DEF Streaming

(* A copy that was drained to the end. *)
LEMMA DrainLeads ==
  ASSUME NEW copy, Counts, Lags(queue), Leads(copy, queue, h, seq), queue'.events = <<>>,
         h' = h, seq' = seq, Drained(copy).outcome = "current", Holds(Drained(copy))
  PROVE  Leads(view', queue', h', seq')
<1> DEFINE done == Drained(copy)
<1>1. done = Copied(h, seq, "current")
  <2>1. done.outcome = "current"
    OBVIOUS
  <2>2. \/ queue.lagged /\ done.outcome = "resync"
        \/ ~queue.lagged /\ done = Copied(h, seq, "current")
        \/ done.outcome = "frozen"
    BY DrainEnds
  <2> HIDE DEF done
  <2> QED BY <2>1, <2>2
<1>2. view' = [h |-> done.h, seq |-> done.seq]
  BY DEF Holds
<1> HIDE DEF done
<1>3. view'.h = h /\ view'.seq = seq /\ view'.seq \in Nat
  BY <1>1, <1>2 DEF Copied, Counts
<1> DEFINE c == view'  q == queue'
<1>4. c.h = h /\ c.seq = seq /\ c.seq \in Nat /\ q.events = <<>>
  BY <1>3
<1> HIDE DEF c, q
<1>5. Leads(c, q, h, seq)
  BY <1>4, LeadsNowhere
<1> QED BY <1>5 DEF c, q

LEMMA SyncStreams ==
  ASSUME Streaming, UNCHANGED structureVars, NEW asked, NEW wake \in BOOLEAN, Sync(asked, wake)
  PROVE  Streaming'
<1>1. taken' = taken /\ h' = h /\ seq' = seq /\ Feed(queue) /\ Counts
  BY DEF Sync, structureVars, Streaming, MuxInv, Counts
<1>2. PICK quits \in Sampled :
        \/ /\ quits \/ frozen
           /\ Freeze
           /\ queue' = [queue EXCEPT !.wake = wake]
           /\ UNCHANGED <<view, shown, worker>>
        \/ /\ ~quits /\ ~frozen /\ resyncing
           /\ waits' = waits \cup Waiting(asked, view.seq)
           /\ queue' = [queue EXCEPT !.wake = wake]
           /\ UNCHANGED <<view, shown, resyncing, worker, frozen>>
        \/ /\ ~quits /\ ~frozen /\ ~resyncing
           /\ Drain(asked)
           /\ queue' = [queue EXCEPT !.events = <<>>, !.wake = wake]
  BY DEF Sync
<1>3. CASE /\ queue' = [queue EXCEPT !.wake = wake] /\ UNCHANGED worker
           /\ frozen' = TRUE \/ (UNCHANGED <<resyncing, frozen>> /\ resyncing)
  <2> DEFINE q == queue'
  <2>1. Feed(q) /\ q.events = queue.events /\ q.lagged = queue.lagged /\ q.open = queue.open
    <3>1. q = [queue EXCEPT !.wake = wake]
      BY <1>3
    <3> HIDE DEF q
    <3> QED BY <3>1, <1>1, FeedSignalled
  <2>2. MuxInv'
    BY <2>1, FedStill DEF Streaming
  <2>3. worker' = "taken" => Leads(taken', queue', h', seq')
    <3> HIDE DEF q
    <3>1. worker = "taken" => Leads(taken, q, h, seq)
      BY <2>1, LeadsSame DEF Streaming
    <3> QED BY <3>1, <1>1, <1>3 DEF q
  <2>4. Lags(queue') /\ queue'.open
    BY <2>1 DEF Streaming, Lags
  <2>5. worker' # "idle" => resyncing' \/ frozen'
    BY <1>3
  <2>6. ~(~resyncing' /\ ~frozen')
    BY <1>3
  <2> QED BY <2>2, <2>3, <2>4, <2>5, <2>6, <1>3 DEF Streaming
<1>4. CASE ~frozen /\ ~resyncing /\ Drain(asked) /\ queue' = [queue EXCEPT !.events = <<>>, !.wake = wake]
  <2> DEFINE q == queue'  done == Drained(view)
  <2>1. Feed(q) /\ q.events = <<>> /\ q.lagged = queue.lagged /\ q.open = queue.open
    <3>1. q = [queue EXCEPT !.events = <<>>, !.wake = wake]
      BY <1>4
    <3> HIDE DEF q
    <3> QED BY <3>1, <1>1, FeedEmptied
  <2>2. MuxInv' /\ Lags(queue') /\ queue'.open
    BY <2>1, FedStill DEF Streaming, Lags
  <2>3. worker = "idle" /\ Lags(queue) /\ Leads(view, queue, h, seq)
    BY <1>4 DEF Streaming
  <2>4. /\ Holds(done)
        /\ \/ /\ done.outcome = "current"
              /\ UNCHANGED <<resyncing, worker, frozen>>
           \/ resyncing' = TRUE /\ worker' = "asked" /\ UNCHANGED frozen
           \/ frozen' = TRUE /\ UNCHANGED worker
    BY <1>4 DEF Drain, Freeze
  <2>5. CASE done.outcome = "current" /\ UNCHANGED <<resyncing, worker, frozen>>
    <3>1. Leads(view', queue', h', seq')
      BY <1>1, <2>1, <2>3, <2>4, <2>5, DrainLeads
    <3> QED BY <3>1, <2>2, <2>3, <2>5 DEF Streaming
  <2>6. CASE resyncing' = TRUE /\ worker' = "asked"
    BY <2>2, <2>6 DEF Streaming
  <2>7. CASE frozen' = TRUE /\ UNCHANGED worker
    BY <2>2, <2>3, <2>7 DEF Streaming
  <2> QED BY <2>4, <2>5, <2>6, <2>7
<1> QED BY <1>2, <1>3, <1>4 DEF Freeze

LEMMA ResubscribeStreams ==
  ASSUME Streaming, Resubscribe
  PROVE  Streaming'
<1>1. /\ worker = "asked" /\ worker' = "taken" /\ taken' = [h |-> h, seq |-> seq] /\ queue' = Subscribed
      /\ UNCHANGED structureVars /\ UNCHANGED <<view, resyncing, frozen>>
  BY DEF Resubscribe
<1>2. MuxInv'
  BY <1>1, FeedBegins, FedStill DEF Streaming
<1>3. queue'.open /\ ~queue'.lagged /\ queue'.events = <<>>
  BY <1>1 DEF Subscribed
<1> DEFINE c == taken'  q == queue'
<1>4. c.h = h /\ c.seq = seq /\ c.seq \in Nat /\ q.events = <<>>
  BY <1>1, <1>3 DEF Streaming, MuxInv, Counts
<1> HIDE DEF c, q
<1>5. Leads(c, q, h, seq)
  BY <1>4, LeadsNowhere
<1>6. h' = h /\ seq' = seq
  BY <1>1 DEF structureVars
<1> QED BY <1>1, <1>2, <1>3, <1>5, <1>6 DEF Streaming, Lags, c, q

LEMMA InstallStreams ==
  ASSUME Streaming, Install
  PROVE  Streaming'
<1>1. worker = "taken" /\ UNCHANGED structureVars /\ h' = h /\ seq' = seq
  BY DEF Install, structureVars
<1>2. Leads(taken, queue, h, seq) /\ Lags(queue) /\ queue.open /\ Counts /\ Feed(queue) /\ (resyncing \/ frozen)
  BY <1>1 DEF Streaming, MuxInv, Counts
<1> DEFINE done == Drained(taken)
<1>3. \/ Freeze /\ worker' = "idle" /\ queue' = queue
      \/ /\ queue' = [queue EXCEPT !.events = <<>>] /\ Holds(done)
         /\ \/ /\ done.outcome = "current" /\ worker' = "idle"
            \/ /\ worker' = "asked" /\ UNCHANGED <<resyncing, frozen>>
            \/ /\ Freeze /\ worker' = "idle"
  BY DEF Install
<1>4. CASE Freeze /\ worker' = "idle" /\ queue' = queue
  <2>1. MuxInv'
    BY <1>1, <1>2, <1>4, FedStill DEF Streaming
  <2> QED BY <2>1, <1>2, <1>4 DEF Streaming, Freeze
<1>5. CASE /\ queue' = [queue EXCEPT !.events = <<>>] /\ Holds(done)
           /\ \/ /\ done.outcome = "current" /\ worker' = "idle"
              \/ /\ worker' = "asked" /\ UNCHANGED <<resyncing, frozen>>
              \/ /\ Freeze /\ worker' = "idle"
  <2> DEFINE q == queue'
  <2>1. Feed(q) /\ q.events = <<>> /\ q.lagged = queue.lagged /\ q.open = queue.open
    <3>1. q = [queue EXCEPT !.events = <<>>] /\ TRUE \in BOOLEAN
      BY <1>5
    <3> HIDE DEF q
    <3> QED BY <3>1, <1>2, FeedEmptied
  <2>2. MuxInv' /\ Lags(queue') /\ queue'.open
    BY <1>1, <1>2, <2>1, FedStill DEF Streaming, Lags
  <2>3. CASE done.outcome = "current" /\ worker' = "idle"
    <3>1. Leads(view', queue', h', seq')
      BY <1>1, <1>2, <1>5, <2>1, <2>3, DrainLeads
    <3> QED BY <3>1, <2>2, <2>3 DEF Streaming
  <2>4. CASE worker' = "asked" /\ UNCHANGED <<resyncing, frozen>>
    BY <1>2, <2>2, <2>4 DEF Streaming
  <2>5. CASE Freeze /\ worker' = "idle"
    BY <2>2, <2>5 DEF Streaming, Freeze
  <2> QED BY <1>5, <2>3, <2>4, <2>5
<1> QED BY <1>3, <1>4, <1>5

LEMMA StreamStep ==
  ASSUME Streaming, [Next]_vars
  PROVE  Streaming'
<1>1. CASE Operate
  <2>1. UNCHANGED clientVars
    BY <1>1 DEF Operate
  <2>2. MuxNext
    BY <1>1 DEF Operate, Structure, MuxNext
  <2> QED BY <2>1, <2>2, OperateStreams
<1>2. CASE Teardown
  <2>1. MuxNext /\ UNCHANGED clientVars
    BY <1>2 DEF Teardown, MuxNext
  <2> QED BY <2>1, OperateStreams
<1>3. CASE Terminate \/ Settle \/ UNCHANGED vars
  <2>1. UNCHANGED muxVars /\ UNCHANGED <<view, resyncing, worker, taken, frozen>>
    BY <1>3 DEF Terminate, Settle, vars, clientVars
  <2>2. MuxInv'
    BY <2>1, MuxSame DEF Streaming
  <2>3. queue' = queue /\ h' = h /\ seq' = seq
    BY <2>1 DEF muxVars
  <2> QED BY <2>1, <2>2, <2>3 DEF Streaming
<1>4. CASE Woken
  <2>1. Sync({}, FALSE) /\ UNCHANGED structureVars /\ FALSE \in BOOLEAN
    BY <1>4 DEF Woken
  <2> QED BY <2>1, SyncStreams
<1>5. ASSUME NEW s \in completions, Completed(s) PROVE Streaming'
  <2>1. Sync({s}, queue.wake) /\ UNCHANGED structureVars /\ queue.wake \in BOOLEAN
    BY <1>5 DEF Completed, Streaming, MuxInv, Counts, Feed
  <2> QED BY <2>1, SyncStreams
<1>6. CASE Resubscribe
  BY <1>6, ResubscribeStreams
<1>7. CASE Install
  BY <1>7, InstallStreams
<1> QED BY <1>1, <1>2, <1>3, <1>4, <1>5, <1>6, <1>7 DEF Next

(* Whatever operations ran, and however subscriptions lagged and were         *)
(* replaced meanwhile, the events a live subscription still holds are exactly *)
(* those that lead from the desktop's copy to the runtime's structure: each   *)
(* event that an operation emits fits the structure it was emitted for and    *)
(* makes it the one the operation left.                                      *)
THEOREM StreamFollows == ProjectionSpec => []FollowsStream
<1>1. ProjectionInit => Streaming
  BY StreamStarts
<1>2. Streaming /\ [Next]_vars => Streaming'
  BY StreamStep
<1>3. Streaming => FollowsStream
  BY StreamFollowed
<1> QED BY <1>1, <1>2, <1>3, PTL DEF ProjectionSpec

=============================================================================
