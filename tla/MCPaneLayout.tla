---------------------------- MODULE MCPaneLayout ----------------------------
(* Users make children as small as can be.  Panes, splits and tabs are         *)
(* interchangeable: two states count as one when their tabs have the same      *)
(* trees, whatever the identities.                                             *)
EXTENDS PaneFocus

Smallest == {<<1, 9>>, <<9, 1>>, <<1, 1, 8>>, <<8, 1, 1>>}

\* The tree under a node, without identities.
RECURSIVE Tree(_, _)
Tree(l, node) ==
    IF node \notin Splits(l) THEN None
    ELSE [axis |-> l.splits[node].axis,
          children |-> [i \in DOMAIN Children(l, node) |->
                           Child(Children(l, node)[i].weight, Tree(l, Children(l, node)[i].node))]]

\* How many tabs have each tree. (The test, which always succeeds, has TLC bring the
\* state in normal form before it takes the view.)
Trees ==
    LET TreeOf(t) == Tree(tabs[t], tabs[t].root)
    IN IF tabs \in {tabs}
       THEN [tree \in {TreeOf(t) : t \in Live} |-> Cardinality({t \in Live : TreeOf(t) = tree})]
       ELSE <<>>

=============================================================================
