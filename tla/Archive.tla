------------------------------- MODULE Archive -------------------------------
(***************************************************************************)
(* What saved state promises to the launch that reads it, whatever was     *)
(* interrupted: saves are numbered in the order they began, a launch finds *)
(* the structure of one of them, with the window layout of the very same   *)
(* save or with none, and never an older one than the last whose structure *)
(* was stored for good. Store implements this with two files.              *)
(***************************************************************************)
EXTENDS Naturals

VARIABLES
    found,      \* what a launch would find: 0 stands for nothing
    promised    \* the last save stored for good and not withdrawn since

archive == <<found, promised>>

Findings == [capture : Nat, layout : Nat]

Nothing == [capture |-> 0, layout |-> 0]

Belongs(f) == f.layout \in {0, f.capture}

ArchiveInit ==
    /\ found \in Findings /\ Belongs(found)
    /\ promised = found.capture

\* A new structure replaces the old one. The layout that was found with the old
\* one is no longer found.
Replace ==
    /\ found' \in Findings
    /\ found'.capture > promised
    /\ found'.layout = 0
    /\ UNCHANGED promised

\* The layout of the structure that is found follows.
Complete ==
    /\ found.capture # 0
    /\ found' = [found EXCEPT !.layout = found.capture]
    /\ UNCHANGED promised

LoseLayout ==
    /\ found' = [found EXCEPT !.layout = 0]
    /\ UNCHANGED promised

Promise ==
    /\ promised' = found.capture
    /\ UNCHANGED found

\* Saved state is set aside, deleted, or replaced by somebody else's.
Withdraw ==
    /\ found' = Nothing
    /\ promised' = 0

\* What had not reached the disk is lost, in part or altogether.
PowerLoss ==
    /\ found' \in Findings
    /\ Belongs(found')
    /\ found'.capture >= promised
    /\ UNCHANGED promised

ArchiveNext == Replace \/ Complete \/ LoseLayout \/ Promise \/ Withdraw \/ PowerLoss

ArchiveSpec == ArchiveInit /\ [][ArchiveNext]_archive
=============================================================================
