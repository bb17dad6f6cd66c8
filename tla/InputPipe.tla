----------------------------- MODULE InputPipe -----------------------------
(***************************************************************************)
(* What the path from the runtime to a PTY promises: writes are accepted   *)
(* one after another, and the parts of the accepted writes arrive in       *)
(* order, each once, none skipped.  The path may stop anywhere.            *)
(***************************************************************************)
EXTENDS Naturals, Sequences

CONSTANT Parts  \* PTY writes that one accepted write takes

ASSUME PartsAssumption == Parts \in Nat \ {0}

VARIABLES
    accepted,   \* writes accepted so far, numbered from 1
    delivered   \* parts the PTY took: <<write, part>>

(* The last part taken; before the first, the end of a write number 0. *)
LastPart(parts) == IF parts = <<>> THEN <<0, Parts>> ELSE parts[Len(parts)]

Follows(before, part) ==
    \/ part = <<before[1], before[2] + 1>> /\ before[2] < Parts
    \/ part = <<before[1] + 1, 1>> /\ before[2] = Parts

Init == accepted = 0 /\ delivered = <<>>

Accept == accepted' = accepted + 1 /\ UNCHANGED delivered

Deliver ==
    /\ \E part \in (1..accepted) \X (1..Parts) :
          /\ Follows(LastPart(delivered), part)
          /\ delivered' = Append(delivered, part)
    /\ UNCHANGED accepted

Next == Accept \/ Deliver

Spec == Init /\ [][Next]_<<accepted, delivered>>
=============================================================================
