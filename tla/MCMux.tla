------------------------------- MODULE MCMux -------------------------------
(* The structures the model-checking runs start from.  No zoom is 0. *)
EXTENDS Integers, TLC

(* Two sessions with a workspace each: a tab of two panes, a tab of one. *)
TwoSessions ==
    [sessions |-> <<1, 2>>,
     workspaces |-> (1 :> <<3>>) @@ (2 :> <<4>>),
     tabs |-> (3 :> <<5>>) @@ (4 :> <<6>>),
     layout |-> (5 :> [panes |-> <<7, 8>>, zoomed |-> 0])
                  @@ (6 :> [panes |-> <<9>>, zoomed |-> 0]),
     attachments |-> (10 :> 1) @@ (11 :> 2)]

(* One session: a tab of two panes. *)
OneTab ==
    [sessions |-> <<1>>,
     workspaces |-> 1 :> <<2>>,
     tabs |-> 2 :> <<3>>,
     layout |-> 3 :> [panes |-> <<4, 5>>, zoomed |-> 0],
     attachments |-> 6 :> 1]
=============================================================================
