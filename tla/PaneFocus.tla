------------------------------ MODULE PaneFocus ------------------------------
(* The rectangles of a layout's panes and the panes a direction leads to       *)
(* (huterm-protocol/src/pane_layout.rs).                                       *)
EXTENDS PaneLayout

CONSTANT NormalizedExtent   \* the root's extent on each axis

ASSUME ExtentAssumption == NormalizedExtent \in Nat

\* A rectangle has a start and an end on each axis.
Whole == [axis \in Axes |-> [start |-> 0, end |-> NormalizedExtent]]

Edge(span, children, i) ==
    span.start + ((span.end - span.start) * PrefixSums(children)[i]) \div SplitTotal

\* The part of a split's span that its i-th child has.
Part(span, children, i) == [start |-> Edge(span, children, i - 1), end |-> Edge(span, children, i)]

\* The rectangle of each node: a part of that of its holder.
RectOf(l) ==
    LET rect[node \in Nodes(l)] ==
            IF node = l.root THEN Whole
            ELSE LET s == HolderOf(l, node)
                 IN [rect[s] EXCEPT ![l.splits[s].axis] = Part(@, Children(l, s), Place(l, s, node))]
    IN rect

Rects(l) == LET rect == RectOf(l) IN [p \in PanesOf(l) |-> rect[p]]
Empty(rect) == \E axis \in Axes : rect[axis].start = rect[axis].end

Overlap(a, b) ==
    LET first == IF a.end < b.end THEN a.end ELSE b.end
        last == IF a.start > b.start THEN a.start ELSE b.start
    IN IF first > last THEN first - last ELSE 0

\* How far the candidate is beyond the source's edge: negative if it is not.
Distance(source, candidate, side) ==
    IF side.leading THEN source[side.axis].start - candidate[side.axis].end
    ELSE candidate[side.axis].start - source[side.axis].end

\* Mutant: edges are not compared.
PreferredByDistance(a, b) == a.distance <= b.distance
\* The nearest pane wins, and of equally near ones the longest shared edge.
Preferred(a, b) == a.distance < b.distance \/ (a.distance = b.distance /\ a.shared >= b.shared)

\* The best candidates, before the history and the order decide between them.
Neighbors(l, from, side) ==
    LET rects == Rects(l)
        across == CHOOSE axis \in Axes : axis # side.axis
        candidates == {p \in DOMAIN rects \ {from} :
                          ~Empty(rects[p]) /\ Distance(rects[from], rects[p], side) >= 0}
        Reach(p) == [distance |-> Distance(rects[from], rects[p], side),
                     shared |-> Overlap(rects[from][across], rects[p][across])]
    IN {p \in candidates : \A q \in candidates : Preferred(Reach(p), Reach(q))}

\* Every pane with an extent is reached from every other by moving the focus left,
\* right, up and down (pane_layout.rs: neighbor), whatever the history decides
\* between equals: no set of panes but all is closed under the moves.
NavigationReaches ==
    \A t \in Live :
        LET visible == {p \in PanesIn(t) : ~Empty(Rects(tabs[t])[p])}
        IN \A S \in (SUBSET visible) \ {{}, visible} :
             \E p \in S, side \in Sides :
                LET next == Neighbors(tabs[t], p, side)
                IN next # {} /\ next \subseteq visible \ S

=============================================================================
