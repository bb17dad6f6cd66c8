---------------------------- MODULE MCHostEffects ----------------------------
EXTENDS HostEffects

CONSTANTS t1, t2, r1, r2, clipboard, notification

(* One recipient with effects of every kind and size; then a recipient for    *)
(* each of two terminals, whose effects do not both fit the process's budget. *)
OneOrTwoTerminals ==
    {[homes |-> {<<r1, t1>>}, kinds |-> {clipboard, notification}, sizes |-> {1, 2},
      granted |-> {{clipboard, notification}}],
     [homes |-> {<<r1, t1>>, <<r2, t2>>}, kinds |-> {clipboard}, sizes |-> {2},
      granted |-> {{clipboard}}]}
=============================================================================
