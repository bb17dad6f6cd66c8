------------------------------ MODULE MCClose ------------------------------
EXTENDS CloseConsent, MCMux

(* The structure alone; a close around two operations; jobs around a close,   *)
(* with an operation or without.                                              *)
CloseBudgets == {[ops |-> 3, closes |-> 0, processes |-> 0, ends |-> 0],
                 [ops |-> 3, closes |-> 1, processes |-> 0, ends |-> 0],
                 [ops |-> 2, closes |-> 1, processes |-> 1, ends |-> 0],
                 [ops |-> 1, closes |-> 1, processes |-> 3, ends |-> 1]}
=============================================================================
