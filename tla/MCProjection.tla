---------------------------- MODULE MCProjection ----------------------------
EXTENDS Projection, MCMux

(* Any two operations; three that can be undone; and, of the cheap kind,       *)
(* enough for a subscription to lag, and to lag again while it is replaced.    *)
AnyThenMany == {[ops |-> 2, kinds |-> Kinds], [ops |-> 4, kinds |-> {"arrange"}],
                [ops |-> 3, kinds |-> {"arrange", "restore"}]}
=============================================================================
