----------------------------- MODULE PaneLayout -----------------------------
(* The split trees of tabs (huterm-protocol/src/pane_layout.rs) and the        *)
(* operations on them (huterm-core/src/mux.rs, mux/moves.rs, mux/arrange.rs).  *)
(* A layout is its root and its splits by their identities; a node is the      *)
(* identity of a pane or of a split.  A pane and its terminal are one, and     *)
(* the identity of a pane or a split that is gone may come again.  (In         *)
(* Hierarchy a layout is its panes, in order.)                                 *)
EXTENDS Integers, FiniteSets, SequencesExt

CONSTANTS
    PaneIds, SplitIds, Tabs,
    SplitTotal,         \* the sum of a split's weights
    MaxSplitChildren,
    Resizes,            \* the weights a user may give to a split's children
    None

Axes == {"columns", "rows"}

\* The largest child of a full split can absorb the rounding of a flatten.
ASSUME SplitAssumption ==
    /\ MaxSplitChildren \in Nat /\ MaxSplitChildren >= 2
    /\ SplitTotal \in Nat /\ SplitTotal % 2 = 0
    /\ SplitTotal >= MaxSplitChildren * MaxSplitChildren
    /\ Resizes \subseteq Seq(Nat)
    /\ SplitIds \subseteq Nat /\ SplitIds \cap PaneIds = {} /\ None \notin SplitIds \cup PaneIds

\* The sides of a pane: left and up come first on their axes.
Sides == [axis : Axes, leading : BOOLEAN]

Child(weight, node) == [weight |-> weight, node |-> node]
Layout(root, splits) == [root |-> root, splits |-> splits]
Alone(p) == Layout(p, [s \in {} |-> None])

Splits(l) == DOMAIN l.splits
Children(l, s) == l.splits[s].children
ChildrenOf(l) == UNION {ToSet(Children(l, s)) : s \in Splits(l)}
Nodes(l) == {l.root} \cup {child.node : child \in ChildrenOf(l)}
PanesOf(l) == Nodes(l) \ Splits(l)

\* The split that holds a node itself, and the node's place there.
Holds(l, s, i, node) == i \in DOMAIN Children(l, s) /\ Children(l, s)[i].node = node
HolderOf(l, node) == CHOOSE s \in Splits(l) : \E i \in DOMAIN Children(l, s) : Holds(l, s, i, node)
Place(l, s, node) == CHOOSE i \in DOMAIN Children(l, s) : Holds(l, s, i, node)

\* The sum of the first weights, for each number of them.
PrefixSums(children) ==
    LET sum[i \in 0..Len(children)] == IF i = 0 THEN 0 ELSE sum[i - 1] + children[i].weight
    IN sum
SumOf(children) == PrefixSums(children)[Len(children)]

\* A split on the axis of the split that holds it, and room to be one with it.
Merges(l, s, node) ==
    /\ node \in Splits(l) /\ l.splits[node].axis = l.splits[s].axis
    /\ Len(Children(l, s)) + Len(Children(l, node)) - 1 <= MaxSplitChildren

Validated(l, s) ==
    LET children == Children(l, s) IN
    /\ Len(children) \in 2..MaxSplitChildren
    /\ \A i \in DOMAIN children : ~Merges(l, s, children[i].node) /\ children[i].weight > 0
    /\ SumOf(children) = SplitTotal

Once(l) ==
    /\ \A s, t \in Splits(l) : \A i \in DOMAIN Children(l, s), j \in DOMAIN Children(l, t) :
          Children(l, s)[i].node = Children(l, t)[j].node => s = t /\ i = j
    /\ \A child \in ChildrenOf(l) : child.node # l.root

Valid(l) == Once(l) /\ \A s \in Splits(l) : Validated(l, s)

\* The trees are the same but for the identities of their splits and the weights.
SameShape(a, b) ==
    \E f \in [Splits(a) -> Splits(b)] :
        LET Same(node, other) == other = IF node \in Splits(a) THEN f[node] ELSE node
        IN /\ Same(a.root, b.root)
           /\ \A s \in Splits(a) :
                /\ a.splits[s].axis = b.splits[f[s]].axis
                /\ Len(Children(a, s)) = Len(Children(b, f[s]))
                /\ \A i \in DOMAIN Children(a, s) :
                      Same(Children(a, s)[i].node, Children(b, f[s])[i].node)

-----------------------------------------------------------------------------
(* Flattening.                                                                *)

AtLeastOne(n) == IF n < 1 THEN 1 ELSE n
Scale(weight, slot) == AtLeastOne((weight * slot) \div SplitTotal)

\* The difference to the total goes to the largest child, the first of equals.
Largest(children) ==
    CHOOSE i \in DOMAIN children : \A j \in DOMAIN children :
        \/ children[i].weight > children[j].weight
        \/ children[i].weight = children[j].weight /\ i <= j
Rebalanced(children) ==
    [children EXCEPT ![Largest(children)].weight = AtLeastOne(@ + SplitTotal - SumOf(children))]

WithChildren(l, s, children) == Layout(l.root, [l.splits EXCEPT ![s].children = children])
Forget(splits, s) == [t \in DOMAIN splits \ {s} |-> splits[t]]

\* The split in the i-th place of s is gone, and s has other children.
Dissolved(l, s, i, children) ==
    Layout(l.root, Forget(WithChildren(l, s, children).splits, Children(l, s)[i].node))

Collapsed(l, s, i) ==
    LET node == Children(l, s)[i].node
    IN IF node \in Splits(l) /\ Len(Children(l, node)) = 1
       THEN Dissolved(l, s, i, [Children(l, s) EXCEPT ![i].node = Children(l, node)[1].node])
       ELSE l

Scaled(children, slot) ==
    [k \in DOMAIN children |-> [children[k] EXCEPT !.weight = Scale(@, slot)]]
Spliced(children, i, others) ==
    SubSeq(children, 1, i - 1) \o others \o SubSeq(children, i + 1, Len(children))

Flattened(l, s, i) ==
    LET slot == Children(l, s)[i]
    IN IF Merges(l, s, slot.node)
       THEN Dissolved(l, s, i, Rebalanced(Spliced(Children(l, s), i,
                                   Scaled(Children(l, slot.node), slot.weight))))
       ELSE l

\* A child split left alone with one child gives way to it; a split on the
\* axis of the split that holds it flattens into it while there is room.
NormalizeChild(l, s, i) == Flattened(Collapsed(l, s, i), s, i)

-----------------------------------------------------------------------------
(* Transforms.                                                                *)

CheckSplit(l, target, side) ==
    /\ target \in PanesOf(l)
    /\ target # l.root =>
          LET s == HolderOf(l, target) IN
          l.splits[s].axis = side.axis =>
              /\ Len(Children(l, s)) < MaxSplitChildren
              /\ Children(l, s)[Place(l, s, target)].weight >= 2

\* The splits of a layout and of one that is inserted into it.
Together(l, inserted) ==
    Layout(l.root, [s \in Splits(l) \cup Splits(inserted) |->
                       IF s \in Splits(l) THEN l.splits[s] ELSE inserted.splits[s]])

\* A new split in the place of a pane, the root or a child.
WithNode(l, target, new) ==
    IF target = l.root THEN Layout(new, l.splits)
    ELSE LET s == HolderOf(l, target)
         IN WithChildren(l, s, [Children(l, s) EXCEPT ![Place(l, s, target)].node = new])

NewSplit(l, new, side, original, inserted) ==
    LET half == SplitTotal \div 2
        nodes == IF side.leading THEN <<inserted, original>> ELSE <<original, inserted>>
        split == [axis |-> side.axis,
                  children |-> <<Child(half, nodes[1]), Child(SplitTotal - half, nodes[2])>>]
    IN NormalizeChild(Layout(l.root, [s \in Splits(l) \cup {new} |->
                                         IF s = new THEN split ELSE l.splits[s]]),
                      new, IF side.leading THEN 1 ELSE 2)

WithSibling(l, s, i, side, inserted) ==
    LET added == Children(l, s)[i].weight \div 2
        at == IF side.leading THEN i ELSE i + 1
    IN NormalizeChild(WithChildren(l, s, InsertAt([Children(l, s) EXCEPT ![i].weight = @ - added],
                                                  at, Child(added, inserted))), s, at)

WithInserted(l, target, side, inserted, new) ==
    LET both == Together(l, inserted)
        s == HolderOf(l, target)
    IN IF target # l.root /\ l.splits[s].axis = side.axis
       THEN WithSibling(both, s, Place(l, s, target), side, inserted.root)
       ELSE NewSplit(WithNode(both, target, new), new, side, target, inserted.root)

\* Mutant: a close does not look at the siblings of the pane.
NormalizeNone(l, s) == l

\* Each of the children a split is left with may flatten now.
NormalizeAll(l, s) ==
    LET count == Len(Children(l, s))
        done[k \in 0..count] ==
            IF k = 0 THEN [layout |-> l, index |-> 1]
            ELSE LET last == done[k - 1]
                     before == Len(Children(last.layout, s))
                     next == NormalizeChild(last.layout, s, last.index)
                 IN [layout |-> next,
                     index |-> last.index + 1 + Len(Children(next, s)) - before]
    IN IF count > 1 THEN done[count].layout ELSE l

\* Among the children left, who gets the space of the i-th.
Heir(i) == IF i = 1 THEN 1 ELSE i - 1

\* What is left of the split that holds a pane when the pane is removed.
Without(children, i) ==
    [RemoveAt(children, i) EXCEPT ![Heir(i)].weight = @ + children[i].weight]

\* One step up the splits that held a pane, from the one normalized last.
Up(last) ==
    IF last.at = last.layout.root THEN last
    ELSE LET above == HolderOf(last.layout, last.at)
         IN [layout |-> NormalizeChild(last.layout, above, Place(last.layout, above, last.at)),
             at |-> above]

\* The split that holds the pane, then every split above it.
RemovedWithin(l, target) ==
    LET s == HolderOf(l, target)
        smaller == WithChildren(l, s, Without(Children(l, s), Place(l, s, target)))
        done[k \in 0..Cardinality(Splits(l))] ==
            IF k = 0 THEN [layout |-> NormalizeAll(smaller, s), at |-> s]
            ELSE Up(done[k - 1])
    IN done[Cardinality(Splits(l))].layout

\* For a layout of several panes.
WithoutPane(l, target) ==
    LET left == RemovedWithin(l, target)
        lone == Children(left, left.root)
    IN IF Len(lone) = 1 THEN Layout(lone[1].node, Forget(left.splits, left.root)) ELSE left

WithSwapped(l, a, b) ==
    LET Swap(node) == CASE node = a -> b [] node = b -> a [] OTHER -> node
        SwapIn(children) == [i \in DOMAIN children |-> [children[i] EXCEPT !.node = Swap(@)]]
    IN Layout(Swap(l.root), [s \in Splits(l) |-> [l.splits[s] EXCEPT !.children = SwapIn(@)]])

WithWeights(l, s, weights) ==
    WithChildren(l, s, [i \in DOMAIN Children(l, s) |-> Child(weights[i], Children(l, s)[i].node)])

\* Equal shares, the remainder one each to the first.
Apportion(count) ==
    [i \in 1..count |-> SplitTotal \div count + IF i <= SplitTotal % count THEN 1 ELSE 0]

Balanced(l) ==
    Layout(l.root, [s \in Splits(l) |-> WithWeights(l, s, Apportion(Len(Children(l, s)))).splits[s]])

-----------------------------------------------------------------------------
(* The operations.                                                            *)

VARIABLE tabs

Live == {t \in Tabs : tabs[t] # None}
PanesIn(t) == PanesOf(tabs[t])
UsedPanes == UNION {PanesIn(t) : t \in Live}
UsedSplits == UNION {Splits(tabs[t]) : t \in Live}

\* The next identity is the least that is free.
NextSplit(new) ==
    /\ new \in SplitIds \ UsedSplits
    /\ \A s \in SplitIds \ UsedSplits : new <= s

\* `PaneLayout::new` validates what a transform made.
Becomes(t, l) == Valid(l) /\ tabs' = [tabs EXCEPT ![t] = l]

OpenTab(t, p) ==
    /\ t \notin Live /\ p \notin UsedPanes
    /\ tabs' = [tabs EXCEPT ![t] = Alone(p)]

SplitPane(t, target, side, p, new) ==
    /\ p \notin UsedPanes
    /\ CheckSplit(tabs[t], target, side)
    /\ Becomes(t, WithInserted(tabs[t], target, side, Alone(p), new))

\* What is left of a tab without a pane: nothing if it is the last.
Left(t, p) == IF tabs[t].root = p THEN None ELSE WithoutPane(tabs[t], p)
Leaves(t, p) == tabs[t].root # p => Valid(WithoutPane(tabs[t], p))

ClosePane(t, p) == Leaves(t, p) /\ tabs' = [tabs EXCEPT ![t] = Left(t, p)]

SwapPanes(t, a, b) == a # b /\ Becomes(t, WithSwapped(tabs[t], a, b))

ResizeSplit(t, s, weights) ==
    /\ Len(weights) = Len(Children(tabs[t], s))
    /\ Becomes(t, WithWeights(tabs[t], s, weights))

BalancePanes(t) == Becomes(t, Balanced(tabs[t]))

MoveWithinTab(t, p, target, side, new) ==
    LET remaining == WithoutPane(tabs[t], p)
        moved == WithInserted(remaining, target, side, Alone(p), new)
    IN /\ p # target
       /\ Valid(remaining) /\ CheckSplit(remaining, target, side)
       /\ ~SameShape(moved, tabs[t])
       /\ Becomes(t, moved)

MoveBetweenTabs(t, p, u, target, side, new) ==
    LET moved == WithInserted(tabs[u], target, side, Alone(p), new)
    IN /\ t # u
       /\ Leaves(t, p) /\ CheckSplit(tabs[u], target, side) /\ Valid(moved)
       /\ tabs' = [tabs EXCEPT ![t] = Left(t, p), ![u] = moved]

\* A tab's only pane stays where it is.
ExtractPane(t, p, u) ==
    /\ u \notin Live /\ tabs[t].root # p
    /\ Leaves(t, p)
    /\ tabs' = [tabs EXCEPT ![t] = Left(t, p), ![u] = Alone(p)]

MoveTabToPane(t, u, target, side, new) ==
    LET moved == WithInserted(tabs[u], target, side, tabs[t], new)
    IN /\ t # u
       /\ CheckSplit(tabs[u], target, side) /\ Valid(moved)
       /\ tabs' = [tabs EXCEPT ![t] = None, ![u] = moved]

Init == tabs = [t \in Tabs |-> None]

Next ==
    \/ \E t \in Tabs, p \in PaneIds : OpenTab(t, p)
    \/ \E t \in Live :
         \/ BalancePanes(t)
         \/ \E s \in Splits(tabs[t]), weights \in Resizes : ResizeSplit(t, s, weights)
         \/ \E p \in PanesIn(t) :
              \/ ClosePane(t, p)
              \/ \E other \in PanesIn(t) : SwapPanes(t, p, other)
              \/ \E u \in Tabs : ExtractPane(t, p, u)
         \/ \E side \in Sides, target \in PanesIn(t), new \in SplitIds :
              /\ NextSplit(new)
              /\ \/ \E p \in PaneIds : SplitPane(t, target, side, p, new)
                 \/ \E p \in PanesIn(t) : MoveWithinTab(t, p, target, side, new)
                 \/ \E u \in Live : MoveTabToPane(u, t, target, side, new)
                 \/ \E u \in Live : \E p \in PanesIn(u) : MoveBetweenTabs(u, p, t, target, side, new)

Spec == Init /\ [][Next]_tabs

-----------------------------------------------------------------------------
(* Properties.                                                                *)

\* Whatever a check allows fits, and whatever is in a tab can be closed, and no other
\* pane comes or goes: rounding and splits kept on the axis of their parent never leave
\* a layout that the next transform breaks. Closing what a split added gives back the
\* shape, and the weights too if it came after its neighbour.
TransformsFit ==
    \A t \in Live :
        /\ \A p \in PanesIn(t) :
             /\ Leaves(t, p)
             /\ Left(t, p) # None => PanesOf(Left(t, p)) = PanesIn(t) \ {p}
        /\ \A target \in PanesIn(t), side \in Sides, new \in SplitIds :
             NextSplit(new) /\ CheckSplit(tabs[t], target, side) =>
             /\ \A u \in Live \ {t} :
                  LET joined == WithInserted(tabs[t], target, side, tabs[u], new)
                  IN Valid(joined) /\ PanesOf(joined) = PanesIn(t) \cup PanesIn(u)
             /\ LET split == WithInserted(tabs[t], target, side, Alone(None), new)
                    back == WithoutPane(split, None)
                IN /\ Valid(split) /\ PanesOf(split) = PanesIn(t) \cup {None}
                   /\ SameShape(back, tabs[t])
                   /\ ~side.leading => back = tabs[t]

=============================================================================
