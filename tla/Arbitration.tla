---------------------------- MODULE Arbitration ----------------------------
(***************************************************************************)
(* The owner thread's arbitration between the viewers of one terminal:     *)
(* who controls its size and presentation, what focus the application is  *)
(* told of, and who owns the mouse gesture.  The operators are the methods *)
(* of `Arbiter` and `MouseArbiter`; each takes the arbiter's state `a` and *)
(* returns the next one, with the effects the runtime still has to apply   *)
(* accumulated in a.fx as the code's Effects::merge does.                  *)
(***************************************************************************)
EXTENDS Integers, FiniteSets

CONSTANTS
    Viewers,        \* viewer ids, one per registration
    InputViewers,   \* those with the `input` capability
    SizeViewers,    \* those with the `size` capability
    Sizes,          \* (grid, cell) geometries a viewer reports
    Looks,          \* presentations a viewer submits
    Buttons,        \* mouse buttons
    StartSize,      \* the geometry the terminal is created with
    StartLook,      \* the presentation the terminal is created with
    None

ASSUME CapabilityAssumption ==
    /\ InputViewers \subseteq Viewers
    /\ SizeViewers \subseteq Viewers

ASSUME NoneAssumption ==
    /\ None \notin Viewers
    /\ None \notin Sizes \cup {StartSize}
    /\ None \notin Looks \cup {StartLook}

AllSizes == Sizes \cup {StartSize}
AllLooks == Looks \cup {StartLook}

(* Some(true), Some(false) and None of Effects.focus. *)
FocusReports == {"gained", "lost", "none"}

NoEffects == [resize |-> None, look |-> None, releases |-> {}, focus |-> "none"]

Effects == [resize   : AllSizes \cup {None},
            look     : AllLooks \cup {None},
            releases : SUBSET Buttons,
            focus    : FocusReports]

Arbiters == [entries  : SUBSET Viewers,
             geometry : [Viewers -> Sizes \cup {None}],
             look     : [Viewers -> Looks \cup {None}],
             focused  : SUBSET Viewers,
             activity : [Viewers -> Nat],
             clock    : Nat,
             canonical : AllSizes,
             revision : Nat,
             shown    : AllLooks,
             count    : Nat,
             owner    : Viewers \cup {None},
             held     : SUBSET Buttons,
             untracked : SUBSET Buttons,
             fx       : Effects]

NewArbiter ==
    [entries  |-> {},
     geometry |-> [v \in Viewers |-> None],
     look     |-> [v \in Viewers |-> None],
     focused  |-> {},
     activity |-> [v \in Viewers |-> 0],
     clock    |-> 0,
     canonical |-> StartSize,
     revision |-> 0,
     shown    |-> StartLook,
     count    |-> 0,
     owner    |-> None,
     held     |-> {},
     untracked |-> {},
     fx       |-> NoEffects]

-----------------------------------------------------------------------------
(* Focus *)

(* Mutant: the later change always wins. *)
MergeFocusLater(earlier, later) == IF later = "none" THEN earlier ELSE later

(* Two focus changes in one batch cancel out or keep the later one. *)
MergeFocus(earlier, later) ==
    CASE later = "none"                          -> earlier
      [] later # "none" /\ earlier \in {"none", later} -> later
      [] OTHER                                   -> "none"

Touch(a, v) ==
    [a EXCEPT !.clock = @ + 1, !.activity[v] = a.clock + 1]

Gain(a, v) ==
    LET n == IF v \in InputViewers THEN a.count + 1 ELSE a.count
        report == IF v \in InputViewers /\ n = 1 THEN "gained" ELSE "none"
    IN  Touch([a EXCEPT !.focused = @ \cup {v},
                        !.count = n,
                        !.fx.focus = MergeFocus(@, report)], v)

Lose(a, v) ==
    LET n == IF v \in InputViewers THEN a.count - 1 ELSE a.count
        report == IF v \in InputViewers /\ n = 0 THEN "lost" ELSE "none"
    IN  [a EXCEPT !.focused = @ \ {v},
                  !.count = n,
                  !.fx.focus = MergeFocus(@, report)]

(* Mutant: a loss is counted whether or not the viewer had focus. *)
SetFocusUnchecked(a, v, on) ==
    IF ~on THEN Lose(a, v)
    ELSE IF v \in a.focused THEN Touch(a, v) ELSE Gain(a, v)

(* A repeated gain is still new activity; a repeated loss changes nothing. *)
SetFocus(a, v, on) ==
    CASE on /\ v \in a.focused    -> Touch(a, v)
      [] on /\ v \notin a.focused -> Gain(a, v)
      [] ~on /\ v \in a.focused   -> Lose(a, v)
      [] OTHER                    -> a

-----------------------------------------------------------------------------
(* Control: the `latest` policy over the viewers that are neither dropped  *)
(* nor revoked (`barred`), ties going to the latest registration.          *)

Candidates(a, barred) ==
    {v \in (a.entries \cap SizeViewers) \ barred : a.geometry[v] # None}

Outranks(a, order, v, w) ==
    \/ a.activity[v] > a.activity[w]
    \/ a.activity[v] = a.activity[w] /\ order[v] > order[w]

IsController(a, order, barred, v) ==
    /\ v \in Candidates(a, barred)
    /\ \A w \in Candidates(a, barred) \ {v} : Outranks(a, order, v, w)

AdoptSize(a, size) ==
    IF size = a.canonical THEN a
    ELSE [a EXCEPT !.canonical = size, !.revision = @ + 1, !.fx.resize = size]

AdoptLook(a, look) ==
    IF look \in {None, a.shown} THEN a
    ELSE [a EXCEPT !.shown = look, !.fx.look = look]

Recompute(a, order, barred) ==
    IF \E v \in Viewers : IsController(a, order, barred, v)
    THEN LET c == CHOOSE v \in Viewers : IsController(a, order, barred, v)
         IN  AdoptLook(AdoptSize(a, a.geometry[c]), a.look[c])
    ELSE a

(* A size or a presentation counts from the next Recompute on. *)
Report(a, v, size) == [a EXCEPT !.geometry[v] = size]

Present(a, v, look) == [a EXCEPT !.look[v] = look]

(* The effects were handed to the runtime. *)
Cleared(a) == [a EXCEPT !.fx = NoEffects]

-----------------------------------------------------------------------------
(* Mouse gestures.  Motion and wheel reports change nothing but the        *)
(* position a release is written at, which is abstracted away.             *)

EndGesture(a) == [a EXCEPT !.owner = None, !.held = {}, !.untracked = {}]

Press(a, v, b) ==
    IF a.owner = v
    THEN [a EXCEPT !.untracked = @ \ {b}, !.held = @ \cup {b}]
    ELSE [a EXCEPT !.owner = v, !.untracked = {}, !.held = {b}]

(* Mutant: another viewer's press is not refused while buttons are held. *)
PressAdmittedToAll(a, v, stamp) == stamp \in {None, a.revision}

PressAdmitted(a, v, stamp) ==
    /\ a.owner = v \/ a.held = {}
    /\ stamp \in {None, a.revision}

ReleaseAdmitted(a, v, b) == a.owner = v /\ b \in a.held \cup a.untracked

Release(a, v, b) ==
    LET r == IF b \in a.held THEN [a EXCEPT !.held = @ \ {b}]
                             ELSE [a EXCEPT !.untracked = @ \ {b}]
    IN  IF r.held = {} /\ r.untracked = {} THEN EndGesture(r) ELSE r

(* The held buttons stop blocking other viewers. *)
TrackingDisabled(a) ==
    [a EXCEPT !.untracked = @ \cup a.held, !.held = {}]

(* Mutant: the gesture ends without releasing its buttons. *)
FinalizeMouseSilent(a, v) == IF a.owner = v THEN EndGesture(a) ELSE a

(* Releases the buttons of a finalized viewer. *)
FinalizeMouse(a, v) ==
    IF a.owner # v THEN a
    ELSE EndGesture([a EXCEPT !.fx.releases = @ \cup a.held \cup a.untracked])

-----------------------------------------------------------------------------
(* Entries *)

AddEntry(a, v, initial) ==
    LET e == [a EXCEPT !.entries = @ \cup {v},
                       !.geometry[v] = initial.size,
                       !.look[v] = initial.look]
    IN  IF initial.focused /\ v \in InputViewers \cup SizeViewers
        THEN SetFocus(e, v, TRUE) ELSE e

Finalize(a, v) ==
    FinalizeMouse([SetFocus(a, v, FALSE) EXCEPT !.entries = @ \ {v},
                                                !.geometry[v] = None,
                                                !.look[v] = None,
                                                !.activity[v] = 0], v)
=============================================================================
