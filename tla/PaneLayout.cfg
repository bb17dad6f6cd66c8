\* Four panes in two tabs, splits of at most three children, weights out of ten:
\* splits, closes, swaps, resizes, moves within and between tabs in every order.
CONSTANTS
    None = None
    PaneIds = {p1, p2, p3, p4}
    SplitIds = {1, 2, 3, 4}
    Tabs = {t1, t2}
    SplitTotal = 10
    MaxSplitChildren = 3
    NormalizedExtent = 100
    Resizes <- Smallest
SPECIFICATION Spec
INVARIANTS TransformsFit NavigationReaches
VIEW Trees
CHECK_DEADLOCK FALSE
