--------------------------- MODULE ViewersProofs ---------------------------
(***************************************************************************)
(* The owner thread and the viewers' handles, for any number of viewers,   *)
(* capabilities, requests and queue capacity: an inductive invariant of    *)
(* requests, gestures and focus, a second one of slots and the screen, and *)
(* the safety properties that follow from them.                            *)
(***************************************************************************)
EXTENDS Viewers, SequenceTheorems, FiniteSetTheorems, TLAPS

-----------------------------------------------------------------------------
(* What each arbiter method preserves, for any viewers and buttons. *)

Any(a) == a.focused \cap InputViewers # {}

(* The pending focus report is what an application that knows `known` has *)
(* still to be told.                                                       *)
Told(a, known) ==
    a.fx.focus = IF Any(a) THEN IF known THEN "none" ELSE "gained"
                           ELSE IF known THEN "lost" ELSE "none"

FocusOK(a) ==
    /\ a \in Arbiters
    /\ IsFiniteSet(a.focused)
    /\ a.focused \subseteq a.entries
    /\ a.count = Cardinality(a.focused \cap InputViewers)

MouseOK(a) ==
    /\ a.owner = None <=> a.held \cup a.untracked = {}
    /\ a.owner # None => a.owner \in a.entries

ArbOK(a) == FocusOK(a) /\ MouseOK(a)

SameMouse(a, b) ==
    /\ b.owner = a.owner /\ b.held = a.held /\ b.untracked = a.untracked
    /\ b.fx.releases = a.fx.releases

SameFocus(a, b) ==
    b.focused = a.focused /\ b.count = a.count /\ b.fx.focus = a.fx.focus

-----------------------------------------------------------------------------
(* The count of a finite set of focused viewers follows one gain or loss. *)
LEMMA CountGain ==
    ASSUME NEW F, IsFiniteSet(F), NEW v, v \notin F
    PROVE  /\ IsFiniteSet(F \cup {v})
           /\ Cardinality((F \cup {v}) \cap InputViewers) =
                IF v \in InputViewers THEN Cardinality(F \cap InputViewers) + 1
                ELSE Cardinality(F \cap InputViewers)
<1>1. IsFiniteSet(F \cap InputViewers) /\ IsFiniteSet(F \cup {v})
  BY FS_Subset, FS_AddElement
<1>2. CASE v \in InputViewers
  <2>1. (F \cup {v}) \cap InputViewers = (F \cap InputViewers) \cup {v}
    BY <1>2
  <2> QED BY <1>1, <1>2, <2>1, FS_AddElement
<1>3. CASE v \notin InputViewers
  <2>1. (F \cup {v}) \cap InputViewers = F \cap InputViewers
    BY <1>3
  <2> QED BY <1>1, <1>3, <2>1
<1> QED BY <1>2, <1>3

(* Losing a focused input viewer takes one from a count that was positive. *)
LEMMA CountLose ==
    ASSUME NEW F, IsFiniteSet(F), NEW v, v \in F
    PROVE  /\ IsFiniteSet(F \ {v})
           /\ Cardinality((F \ {v}) \cap InputViewers) =
                IF v \in InputViewers THEN Cardinality(F \cap InputViewers) - 1
                ELSE Cardinality(F \cap InputViewers)
<1>1. IsFiniteSet(F \cap InputViewers) /\ IsFiniteSet(F \ {v})
  BY FS_Subset, FS_RemoveElement
<1>2. CASE v \in InputViewers
  <2>1. (F \ {v}) \cap InputViewers = (F \cap InputViewers) \ {v}
    BY <1>2
  <2> QED BY <1>1, <1>2, <2>1, FS_RemoveElement
<1>3. CASE v \notin InputViewers
  <2>1. (F \ {v}) \cap InputViewers = F \cap InputViewers
    BY <1>3
  <2> QED BY <1>1, <1>3, <2>1
<1> QED BY <1>2, <1>3

(* The count of a set of viewers is zero exactly when it has none of them. *)
LEMMA CountZero ==
    ASSUME NEW F, IsFiniteSet(F)
    PROVE  /\ Cardinality(F \cap InputViewers) \in Nat
           /\ Cardinality(F \cap InputViewers) = 0 <=> F \cap InputViewers = {}
BY FS_Subset, FS_EmptySet, FS_CardinalityType

-----------------------------------------------------------------------------
(* Touching a viewer moves only the activity ordinals. *)
LEMMA TouchFrame ==
    ASSUME NEW a \in Arbiters, NEW v \in Viewers
    PROVE  LET r == Touch(a, v)
           IN  r \in Arbiters /\ r.entries = a.entries /\ r.fx = a.fx
               /\ SameMouse(a, r) /\ SameFocus(a, r)
<1> DEFINE r == Touch(a, v)
<1>1. r.clock \in Nat /\ r.activity \in [Viewers -> Nat]
  BY DEF Touch, Arbiters
<1>2. /\ r.entries = a.entries /\ r.geometry = a.geometry /\ r.look = a.look
      /\ r.focused = a.focused /\ r.canonical = a.canonical
      /\ r.revision = a.revision /\ r.shown = a.shown /\ r.count = a.count
      /\ r.owner = a.owner /\ r.held = a.held /\ r.untracked = a.untracked
      /\ r.fx = a.fx
  BY DEF Touch, Arbiters
<1>3. r \in Arbiters
  BY <1>1, <1>2 DEF Touch, Arbiters
<1> QED BY <1>2, <1>3 DEF SameMouse, SameFocus

(* A gain keeps the count, and owes the application exactly the difference. *)
LEMMA GainOK ==
    ASSUME NEW a, FocusOK(a), NEW v \in a.entries, v \notin a.focused,
           NEW known \in BOOLEAN, Told(a, known)
    PROVE  LET r == Gain(a, v)
           IN  FocusOK(r) /\ Told(r, known) /\ r.entries = a.entries /\ SameMouse(a, r)
<1> DEFINE n == IF v \in InputViewers THEN a.count + 1 ELSE a.count
           report == IF v \in InputViewers /\ n = 1 THEN "gained" ELSE "none"
           b == [a EXCEPT !.focused = @ \cup {v}, !.count = n,
                          !.fx.focus = MergeFocus(@, report)]
<1>a. a \in Arbiters /\ v \in Viewers /\ a.count \in Nat
      /\ a.fx.focus \in FocusReports
  BY DEF FocusOK, Arbiters, Effects
<1>1. /\ b.focused = a.focused \cup {v} /\ b.count = n
      /\ b.fx = [a.fx EXCEPT !.focus = MergeFocus(@, report)]
      /\ b.entries = a.entries /\ b.geometry = a.geometry /\ b.look = a.look
      /\ b.canonical = a.canonical /\ b.revision = a.revision /\ b.shown = a.shown
      /\ b.owner = a.owner /\ b.held = a.held /\ b.untracked = a.untracked
      /\ b.activity = a.activity /\ b.clock = a.clock
  BY <1>a DEF Arbiters
<1>2. MergeFocus(a.fx.focus, report) \in FocusReports
  BY <1>a DEF MergeFocus, FocusReports
<1>3. b.fx \in Effects /\ b.fx.focus = MergeFocus(a.fx.focus, report)
      /\ b.fx.releases = a.fx.releases
  BY <1>1, <1>2, <1>a DEF Arbiters, Effects
<1>4. n \in Nat
  BY <1>a
<1>5. b \in Arbiters
  BY <1>1, <1>3, <1>4, <1>a DEF Arbiters
<1>6. FocusOK(b)
  BY <1>1, <1>5, CountGain DEF FocusOK
<1>7. Told(b, known)
  <2>1. Any(a) <=> a.count # 0
    BY CountZero DEF FocusOK, Any
  <2>2. Any(b) <=> n # 0
    BY <1>1, <1>6, CountZero DEF FocusOK, Any
  <2>3. CASE v \in InputViewers /\ n = 1
    BY <2>1, <2>2, <2>3, <1>3, <1>a DEF Told, MergeFocus
  <2>4. CASE ~(v \in InputViewers /\ n = 1)
    BY <2>1, <2>2, <2>4, <1>3, <1>a DEF Told, MergeFocus
  <2> QED BY <2>3, <2>4
<1>8. LET r == Touch(b, v)
      IN  r \in Arbiters /\ r.entries = b.entries /\ r.fx = b.fx
          /\ SameMouse(b, r) /\ SameFocus(b, r)
  BY <1>5, <1>a, TouchFrame
<1>9. Gain(a, v) = Touch(b, v)
  BY DEF Gain
<1> HIDE DEF b
<1> QED BY <1>1, <1>3, <1>6, <1>7, <1>8, <1>9
       DEF FocusOK, Told, Any, SameMouse, SameFocus

(* So does a loss. *)
LEMMA LoseOK ==
    ASSUME NEW a, FocusOK(a), NEW v \in a.entries, v \in a.focused,
           NEW known \in BOOLEAN, Told(a, known)
    PROVE  LET r == Lose(a, v)
           IN  /\ FocusOK(r) /\ Told(r, known) /\ r.entries = a.entries
               /\ SameMouse(a, r) /\ r.focused = a.focused \ {v}
<1> DEFINE n == IF v \in InputViewers THEN a.count - 1 ELSE a.count
           report == IF v \in InputViewers /\ n = 0 THEN "lost" ELSE "none"
           b == Lose(a, v)
<1>a. a \in Arbiters /\ v \in Viewers /\ a.count \in Nat
      /\ a.fx.focus \in FocusReports
  BY DEF FocusOK, Arbiters, Effects
<1>1. /\ b.focused = a.focused \ {v} /\ b.count = n
      /\ b.fx = [a.fx EXCEPT !.focus = MergeFocus(@, report)]
      /\ b.entries = a.entries /\ b.geometry = a.geometry /\ b.look = a.look
      /\ b.canonical = a.canonical /\ b.revision = a.revision /\ b.shown = a.shown
      /\ b.owner = a.owner /\ b.held = a.held /\ b.untracked = a.untracked
      /\ b.activity = a.activity /\ b.clock = a.clock
  BY <1>a DEF Arbiters, Lose
<1>2. MergeFocus(a.fx.focus, report) \in FocusReports
  BY <1>a DEF MergeFocus, FocusReports
<1>3. b.fx \in Effects /\ b.fx.focus = MergeFocus(a.fx.focus, report)
      /\ b.fx.releases = a.fx.releases
  BY <1>1, <1>2, <1>a DEF Arbiters, Effects
<1>4. /\ IsFiniteSet(b.focused)
      /\ b.count = Cardinality(b.focused \cap InputViewers) /\ b.count \in Nat
  <2>1. IsFiniteSet(a.focused) /\ a.count = Cardinality(a.focused \cap InputViewers)
    BY DEF FocusOK
  <2>2. /\ IsFiniteSet(a.focused \ {v})
        /\ Cardinality((a.focused \ {v}) \cap InputViewers) = n
    BY <2>1, CountLose
  <2> QED BY <1>1, <2>2, CountZero
<1>5. b \in Arbiters
  BY <1>1, <1>3, <1>4, <1>a DEF Arbiters, Lose
<1>6. FocusOK(b)
  BY <1>1, <1>4, <1>5 DEF FocusOK
<1>7. Told(b, known)
  <2>1. Any(a) <=> a.count # 0
    BY CountZero DEF FocusOK, Any
  <2>2. Any(b) <=> n # 0
    BY <1>1, <1>6, CountZero DEF FocusOK, Any
  <2>3. CASE v \in InputViewers /\ n = 0
    BY <2>1, <2>2, <2>3, <1>3, <1>a DEF Told, MergeFocus
  <2>4. CASE ~(v \in InputViewers /\ n = 0)
    BY <2>1, <2>2, <2>4, <1>3, <1>a, <1>1, <1>4 DEF Told, MergeFocus, Any
  <2> QED BY <2>3, <2>4
<1> QED BY <1>1, <1>3, <1>6, <1>7 DEF SameMouse

(* A focus report, repeated or not, keeps the count and the pending report *)
(* right and touches nothing of the gesture.                               *)
LEMMA SetFocusOK ==
    ASSUME NEW a, FocusOK(a), NEW v \in a.entries, NEW on \in BOOLEAN,
           NEW known \in BOOLEAN, Told(a, known)
    PROVE  LET r == SetFocus(a, v, on)
           IN  /\ FocusOK(r) /\ Told(r, known) /\ r.entries = a.entries
               /\ SameMouse(a, r) /\ (~on => v \notin r.focused)
<1>1. CASE on /\ v \in a.focused
  <2>1. SetFocus(a, v, on) = Touch(a, v)
    BY <1>1 DEF SetFocus
  <2>2. a \in Arbiters /\ v \in Viewers
    BY DEF FocusOK, Arbiters
  <2> DEFINE r == Touch(a, v)
  <2>3. r \in Arbiters /\ r.entries = a.entries /\ r.fx = a.fx
        /\ SameMouse(a, r) /\ SameFocus(a, r)
    BY <2>2, TouchFrame
  <2> HIDE DEF r
  <2>4. FocusOK(r) /\ Told(r, known)
    BY <2>3 DEF FocusOK, Told, Any, SameFocus
  <2> QED BY <1>1, <2>1, <2>3, <2>4 DEF r
<1>2. CASE on /\ v \notin a.focused
  BY <1>2, GainOK DEF SetFocus
<1>3. CASE ~on /\ v \in a.focused
  BY <1>3, LoseOK DEF SetFocus
<1>4. CASE ~on /\ v \notin a.focused
  BY <1>4 DEF SetFocus, SameMouse
<1> QED BY <1>1, <1>2, <1>3, <1>4

-----------------------------------------------------------------------------
(* Choosing the controller touches neither gestures nor focus. *)
LEMMA AdoptSizeFrame ==
    ASSUME NEW a \in Arbiters, NEW size \in Sizes
    PROVE  LET r == AdoptSize(a, size)
           IN  r \in Arbiters /\ r.entries = a.entries /\ r.look = a.look
               /\ SameMouse(a, r) /\ SameFocus(a, r)
<1>1. CASE size = a.canonical
  BY <1>1 DEF AdoptSize, SameMouse, SameFocus
<1>2. CASE size # a.canonical
  <2> DEFINE r == [a EXCEPT !.canonical = size, !.revision = @ + 1, !.fx.resize = size]
  <2>1. /\ r.fx = [a.fx EXCEPT !.resize = size]
        /\ r.canonical \in AllSizes /\ r.revision \in Nat
        /\ r.entries = a.entries /\ r.geometry = a.geometry /\ r.look = a.look
        /\ r.focused = a.focused /\ r.activity = a.activity /\ r.clock = a.clock
        /\ r.shown = a.shown /\ r.count = a.count
        /\ r.owner = a.owner /\ r.held = a.held /\ r.untracked = a.untracked
    BY DEF Arbiters, AllSizes
  <2>2. r.fx \in Effects /\ r.fx.focus = a.fx.focus /\ r.fx.releases = a.fx.releases
    BY <2>1 DEF Arbiters, Effects, AllSizes
  <2>3. r \in Arbiters
    BY <2>1, <2>2 DEF Arbiters
  <2>4. AdoptSize(a, size) = r
    BY <1>2 DEF AdoptSize
  <2> HIDE DEF r
  <2> QED BY <2>1, <2>2, <2>3, <2>4 DEF SameMouse, SameFocus
<1> QED BY <1>1, <1>2

(* Adopting a presentation changes only the presentation and its effect. *)
LEMMA AdoptLookFrame ==
    ASSUME NEW a \in Arbiters, NEW look \in Looks \cup {None}
    PROVE  LET r == AdoptLook(a, look)
           IN  r \in Arbiters /\ r.entries = a.entries
               /\ SameMouse(a, r) /\ SameFocus(a, r)
<1>1. CASE look \in {None, a.shown}
  BY <1>1 DEF AdoptLook, SameMouse, SameFocus
<1>2. CASE look \notin {None, a.shown}
  <2> DEFINE r == [a EXCEPT !.shown = look, !.fx.look = look]
  <2>1. /\ r.fx = [a.fx EXCEPT !.look = look]
        /\ r.shown \in AllLooks
        /\ r.entries = a.entries /\ r.geometry = a.geometry /\ r.look = a.look
        /\ r.focused = a.focused /\ r.activity = a.activity /\ r.clock = a.clock
        /\ r.canonical = a.canonical /\ r.revision = a.revision /\ r.count = a.count
        /\ r.owner = a.owner /\ r.held = a.held /\ r.untracked = a.untracked
    BY <1>2 DEF Arbiters, AllLooks
  <2>2. r.fx \in Effects /\ r.fx.focus = a.fx.focus /\ r.fx.releases = a.fx.releases
    BY <1>2, <2>1 DEF Arbiters, Effects, AllLooks
  <2>3. r \in Arbiters
    BY <2>1, <2>2 DEF Arbiters
  <2>4. AdoptLook(a, look) = r
    BY <1>2 DEF AdoptLook
  <2> HIDE DEF r
  <2> QED BY <2>1, <2>2, <2>3, <2>4 DEF SameMouse, SameFocus
<1> QED BY <1>1, <1>2

(* Choosing a controller changes sizes, presentations and their effects    *)
(* only.                                                                   *)
LEMMA RecomputeFrame ==
    ASSUME NEW a \in Arbiters, NEW ranks, NEW barred
    PROVE  LET r == Recompute(a, ranks, barred)
           IN  r \in Arbiters /\ r.entries = a.entries
               /\ SameMouse(a, r) /\ SameFocus(a, r)
<1>1. CASE \E v \in Viewers : IsController(a, ranks, barred, v)
  <2> DEFINE c == CHOOSE v \in Viewers : IsController(a, ranks, barred, v)
             b == AdoptSize(a, a.geometry[c])
             r == AdoptLook(b, a.look[c])
  <2>1. c \in Viewers /\ IsController(a, ranks, barred, c)
    BY <1>1
  <2> HIDE DEF c
  <2>2. a.geometry[c] \in Sizes /\ a.look[c] \in Looks \cup {None}
    BY <2>1 DEF IsController, Candidates, Arbiters
  <2>3. b \in Arbiters /\ b.entries = a.entries /\ SameMouse(a, b) /\ SameFocus(a, b)
    BY <2>2, AdoptSizeFrame
  <2> HIDE DEF b
  <2>4. r \in Arbiters /\ r.entries = b.entries /\ SameMouse(b, r) /\ SameFocus(b, r)
    BY <2>2, <2>3, AdoptLookFrame
  <2>5. Recompute(a, ranks, barred) = r
    BY <1>1 DEF Recompute, c, b
  <2> HIDE DEF r
  <2> QED BY <2>3, <2>4, <2>5 DEF SameMouse, SameFocus
<1>2. CASE ~\E v \in Viewers : IsController(a, ranks, barred, v)
  BY <1>2 DEF Recompute, SameMouse, SameFocus
<1> QED BY <1>1, <1>2

(* Choosing a controller keeps the arbiter well formed. *)
LEMMA RecomputeOK ==
    ASSUME NEW a, ArbOK(a), NEW ranks, NEW barred
    PROVE  LET r == Recompute(a, ranks, barred)
           IN  /\ ArbOK(r) /\ r.entries = a.entries /\ SameMouse(a, r)
               /\ \A known \in BOOLEAN : Told(a, known) => Told(r, known)
<1>1. a \in Arbiters
  BY DEF ArbOK, FocusOK
<1> QED BY <1>1, RecomputeFrame
       DEF ArbOK, FocusOK, MouseOK, SameMouse, SameFocus, Told, Any

-----------------------------------------------------------------------------
(* A change to the gesture alone keeps everything about focus. *)
SetMouse(a, o, h, u) == [a EXCEPT !.owner = o, !.held = h, !.untracked = u]

(* The mouse operators leave everything but the gesture and the releases   *)
(* alone.                                                                  *)
LEMMA MouseFrame ==
    ASSUME NEW a, FocusOK(a), NEW o \in Viewers \cup {None},
           NEW h \in SUBSET Buttons, NEW u \in SUBSET Buttons
    PROVE  LET r == SetMouse(a, o, h, u)
           IN  /\ FocusOK(r) /\ SameFocus(a, r) /\ r.fx = a.fx /\ r.entries = a.entries
               /\ r.owner = o /\ r.held = h /\ r.untracked = u
<1> DEFINE r == SetMouse(a, o, h, u)
<1>1. a \in Arbiters
  BY DEF FocusOK
<1>2. /\ r.owner = o /\ r.held = h /\ r.untracked = u /\ r.fx = a.fx
      /\ r.entries = a.entries /\ r.focused = a.focused /\ r.count = a.count
  BY <1>1 DEF Arbiters, SetMouse
<1>3. r \in Arbiters
  BY <1>1 DEF Arbiters, SetMouse
<1> QED BY <1>2, <1>3 DEF FocusOK, SameFocus

(* Ending a gesture clears its owner and its buttons and nothing else. *)
LEMMA EndFrame ==
    ASSUME NEW a, FocusOK(a)
    PROVE  LET r == EndGesture(a)
           IN  /\ FocusOK(r) /\ SameFocus(a, r) /\ r.fx = a.fx /\ r.entries = a.entries
               /\ r.owner = None /\ r.held = {} /\ r.untracked = {}
<1> DEFINE r == EndGesture(a)
<1>1. a \in Arbiters
  BY DEF FocusOK
<1>2. /\ r.owner = None /\ r.held = {} /\ r.untracked = {} /\ r.fx = a.fx
      /\ r.entries = a.entries /\ r.focused = a.focused /\ r.count = a.count
  BY <1>1 DEF Arbiters, EndGesture
<1>3. r \in Arbiters
  BY <1>1 DEF Arbiters, EndGesture
<1> QED BY <1>2, <1>3 DEF FocusOK, SameFocus

(* An admitted press belongs to a viewer with an entry and adds its button. *)
LEMMA PressOK ==
    ASSUME NEW a, ArbOK(a), NEW v \in a.entries, NEW b \in Buttons,
           NEW stamp, PressAdmitted(a, v, stamp)
    PROVE  LET r == Press(a, v, b)
           IN  /\ ArbOK(r) /\ SameFocus(a, r) /\ r.fx = a.fx
               /\ r.entries = a.entries /\ r.held = a.held \cup {b} /\ r.owner = v
<1> DEFINE u == IF a.owner = v THEN a.untracked \ {b} ELSE {}
           r == SetMouse(a, v, a.held \cup {b}, u)
<1>1. a \in Arbiters /\ v \in Viewers /\ v # None
  BY NoneAssumption DEF ArbOK, FocusOK, Arbiters
<1>2. a.held \cup {b} \in SUBSET Buttons /\ u \in SUBSET Buttons
  BY <1>1 DEF Arbiters
<1>3. /\ FocusOK(r) /\ SameFocus(a, r) /\ r.fx = a.fx /\ r.entries = a.entries
      /\ r.owner = v /\ r.held = a.held \cup {b} /\ r.untracked = u
  BY <1>1, <1>2, MouseFrame DEF ArbOK
<1>4. Press(a, v, b) = r
  <2>1. CASE a.owner = v
    BY <2>1, <1>1 DEF Press, Arbiters, SetMouse
  <2>2. CASE a.owner # v
    BY <2>2, <1>1 DEF Press, PressAdmitted, Arbiters, SetMouse
  <2> QED BY <2>1, <2>2
<1> HIDE DEF r
<1>5. MouseOK(r)
  BY <1>1, <1>3 DEF MouseOK
<1> QED BY <1>3, <1>4, <1>5 DEF ArbOK

(* A release takes one button off, and the last one ends the gesture. *)
LEMMA ReleaseOK ==
    ASSUME NEW a, ArbOK(a), NEW v \in Viewers, NEW b \in Buttons,
           ReleaseAdmitted(a, v, b)
    PROVE  LET r == Release(a, v, b)
           IN  /\ ArbOK(r) /\ SameFocus(a, r) /\ r.fx = a.fx
               /\ r.entries = a.entries /\ r.held = a.held \ {b}
               /\ r.owner \in {None, v}
<1> DEFINE h == IF b \in a.held THEN a.held \ {b} ELSE a.held
           u == IF b \in a.held THEN a.untracked ELSE a.untracked \ {b}
           o == IF h = {} /\ u = {} THEN None ELSE v
           r == SetMouse(a, o, h, u)
<1>1. a \in Arbiters /\ v # None /\ a.owner = v /\ v \in a.entries
  BY NoneAssumption DEF ArbOK, FocusOK, MouseOK, ReleaseAdmitted
<1>2. /\ h \in SUBSET Buttons /\ u \in SUBSET Buttons /\ o \in Viewers \cup {None}
      /\ h = a.held \ {b}
  BY <1>1 DEF Arbiters
<1>3. /\ FocusOK(r) /\ SameFocus(a, r) /\ r.fx = a.fx /\ r.entries = a.entries
      /\ r.owner = o /\ r.held = h /\ r.untracked = u
  BY <1>2, MouseFrame DEF ArbOK
<1>4. Release(a, v, b) = r
  <2> DEFINE q == IF b \in a.held THEN [a EXCEPT !.held = @ \ {b}]
                                  ELSE [a EXCEPT !.untracked = @ \ {b}]
  <2>1. q.held = h /\ q.untracked = u /\ q = [a EXCEPT !.held = h, !.untracked = u]
    BY <1>1 DEF Arbiters
  <2>2. CASE h = {} /\ u = {}
    BY <2>1, <2>2, <1>1 DEF Release, EndGesture, Arbiters, SetMouse
  <2>3. CASE ~(h = {} /\ u = {})
    BY <2>1, <2>3, <1>1 DEF Release, Arbiters, SetMouse
  <2> QED BY <2>2, <2>3
<1> HIDE DEF r
<1>5. MouseOK(r)
  BY <1>1, <1>3 DEF MouseOK
<1> QED BY <1>2, <1>3, <1>4, <1>5 DEF ArbOK

(* Buttons the application stopped tracking stay with their owner. *)
LEMMA TrackingDisabledOK ==
    ASSUME NEW a, ArbOK(a)
    PROVE  LET r == TrackingDisabled(a)
           IN  /\ ArbOK(r) /\ SameFocus(a, r) /\ r.fx = a.fx
               /\ r.entries = a.entries /\ r.owner = a.owner
<1> DEFINE r == SetMouse(a, a.owner, {}, a.untracked \cup a.held)
<1>1. a \in Arbiters
  BY DEF ArbOK, FocusOK
<1>2. /\ a.owner \in Viewers \cup {None} /\ a.held \in SUBSET Buttons
      /\ a.untracked \cup a.held \in SUBSET Buttons
  BY <1>1 DEF Arbiters
<1>3. /\ FocusOK(r) /\ SameFocus(a, r) /\ r.fx = a.fx /\ r.entries = a.entries
      /\ r.owner = a.owner /\ r.held = {} /\ r.untracked = a.untracked \cup a.held
  BY <1>2, MouseFrame DEF ArbOK
<1>4. TrackingDisabled(a) = r
  BY <1>1 DEF TrackingDisabled, Arbiters, SetMouse
<1> HIDE DEF r
<1>5. MouseOK(r)
  BY <1>3 DEF MouseOK, ArbOK
<1> QED BY <1>3, <1>4, <1>5 DEF ArbOK

(* Ending a viewer's gesture hands its buttons to the pending releases. *)
LEMMA FinalizeMouseOK ==
    ASSUME NEW a, FocusOK(a), NEW v \in Viewers,
           a.owner = None <=> a.held \cup a.untracked = {},
           a.owner \notin {None, v} => a.owner \in a.entries
    PROVE  LET r == FinalizeMouse(a, v)
           IN  /\ ArbOK(r) /\ SameFocus(a, r) /\ r.entries = a.entries
               /\ r.owner # v
               /\ a.held \cup a.fx.releases \subseteq r.held \cup r.fx.releases
<1>0. a \in Arbiters /\ v # None
  BY NoneAssumption DEF FocusOK
<1>1. CASE a.owner # v
  BY <1>0, <1>1 DEF FinalizeMouse, ArbOK, MouseOK, SameFocus
<1>2. CASE a.owner = v
  <2> DEFINE b == [a EXCEPT !.fx.releases = @ \cup a.held \cup a.untracked]
             r == EndGesture(b)
  <2>1. /\ b.fx = [a.fx EXCEPT !.releases = @ \cup a.held \cup a.untracked]
        /\ b.entries = a.entries /\ b.geometry = a.geometry /\ b.look = a.look
        /\ b.focused = a.focused /\ b.activity = a.activity /\ b.clock = a.clock
        /\ b.canonical = a.canonical /\ b.revision = a.revision /\ b.count = a.count
        /\ b.shown = a.shown
        /\ b.owner = a.owner /\ b.held = a.held /\ b.untracked = a.untracked
    BY <1>0 DEF Arbiters
  <2>2. /\ b.fx \in Effects /\ b.fx.focus = a.fx.focus
        /\ b.fx.releases = a.fx.releases \cup a.held \cup a.untracked
    BY <2>1, <1>0 DEF Arbiters, Effects
  <2>3. b \in Arbiters
    BY <2>1, <2>2, <1>0 DEF Arbiters
  <2>4. FocusOK(b)
    BY <2>1, <2>3 DEF FocusOK
  <2> HIDE DEF b
  <2>5. /\ FocusOK(r) /\ SameFocus(b, r) /\ r.fx = b.fx /\ r.entries = b.entries
        /\ r.owner = None /\ r.held = {} /\ r.untracked = {}
    BY <2>4, EndFrame
  <2>6. FinalizeMouse(a, v) = r
    BY <1>2 DEF FinalizeMouse, b
  <2> HIDE DEF r
  <2> QED BY <1>0, <2>1, <2>2, <2>5, <2>6 DEF ArbOK, MouseOK, SameFocus
<1> QED BY <1>1, <1>2

-----------------------------------------------------------------------------
(* A new entry starts with what the viewer registered with. *)
LEMMA AddEntryOK ==
    ASSUME NEW a, ArbOK(a), NEW v \in Viewers, v \notin a.entries,
           NEW i, i.focused \in BOOLEAN, i.size \in Sizes \cup {None},
           i.look \in Looks \cup {None},
           NEW known \in BOOLEAN, Told(a, known)
    PROVE  LET r == AddEntry(a, v, i)
           IN  /\ ArbOK(r) /\ Told(r, known)
               /\ r.entries = a.entries \cup {v} /\ SameMouse(a, r)
<1> DEFINE e == [a EXCEPT !.entries = @ \cup {v}, !.geometry[v] = i.size,
                          !.look[v] = i.look]
<1>1. a \in Arbiters /\ FocusOK(a) /\ MouseOK(a)
  BY DEF ArbOK, FocusOK
<1>2. /\ e.entries = a.entries \cup {v}
      /\ e.geometry = [a.geometry EXCEPT ![v] = i.size]
      /\ e.look = [a.look EXCEPT ![v] = i.look]
      /\ e.fx = a.fx /\ e.focused = a.focused /\ e.activity = a.activity
      /\ e.clock = a.clock /\ e.canonical = a.canonical /\ e.revision = a.revision
      /\ e.count = a.count /\ e.shown = a.shown
      /\ e.owner = a.owner /\ e.held = a.held /\ e.untracked = a.untracked
  BY <1>1 DEF Arbiters
<1>3. /\ e.entries \in SUBSET Viewers
      /\ e.geometry \in [Viewers -> Sizes \cup {None}]
      /\ e.look \in [Viewers -> Looks \cup {None}]
  BY <1>1, <1>2 DEF Arbiters
<1>4. e \in Arbiters
  BY <1>1, <1>2, <1>3 DEF Arbiters
<1>a. AddEntry(a, v, i) = IF i.focused /\ v \in InputViewers \cup SizeViewers
                         THEN SetFocus(e, v, TRUE) ELSE e
  BY DEF AddEntry
<1> HIDE DEF e
<1>5. FocusOK(e) /\ MouseOK(e) /\ SameMouse(a, e) /\ Told(e, known)
  BY <1>1, <1>2, <1>4 DEF FocusOK, MouseOK, SameMouse, Told, Any
<1> DEFINE r == SetFocus(e, v, TRUE)
<1>6. v \in e.entries /\ TRUE \in BOOLEAN
  BY <1>2
<1>7. FocusOK(r) /\ Told(r, known) /\ r.entries = e.entries /\ SameMouse(e, r)
  BY <1>5, <1>6, SetFocusOK
<1> HIDE DEF r
<1>8. ArbOK(r) /\ ArbOK(e)
  BY <1>5, <1>7 DEF ArbOK, MouseOK, SameMouse
<1> QED BY <1>a, <1>2, <1>5, <1>7, <1>8 DEF r, SameMouse

(* Finalizing a viewer takes its focus, its entry and its gesture, and    *)
(* nothing of the others'.                                                 *)
LEMMA FinalizeOK ==
    ASSUME NEW a, ArbOK(a), NEW v \in a.entries,
           NEW known \in BOOLEAN, Told(a, known)
    PROVE  LET r == Finalize(a, v)
           IN  /\ ArbOK(r) /\ Told(r, known) /\ r.entries = a.entries \ {v}
               /\ a.held \cup a.fx.releases \subseteq r.held \cup r.fx.releases
               /\ \/ r.owner = a.owner
                  \/ r.owner = None /\ a.owner = v
<1> DEFINE f == SetFocus(a, v, FALSE)
           e == [f EXCEPT !.entries = @ \ {v}, !.geometry[v] = None,
                          !.look[v] = None, !.activity[v] = 0]
           r == FinalizeMouse(e, v)
<1>1. /\ a \in Arbiters /\ FocusOK(a) /\ MouseOK(a) /\ v \in Viewers
      /\ FALSE \in BOOLEAN
  BY DEF ArbOK, FocusOK, Arbiters
<1>2. /\ FocusOK(f) /\ Told(f, known) /\ f.entries = a.entries
      /\ SameMouse(a, f) /\ v \notin f.focused
  BY <1>1, SetFocusOK
<1> HIDE DEF f
<1>b. f \in Arbiters
  BY <1>2 DEF FocusOK
<1>3. /\ e.entries = f.entries \ {v}
      /\ e.geometry = [f.geometry EXCEPT ![v] = None]
      /\ e.look = [f.look EXCEPT ![v] = None]
      /\ e.activity = [f.activity EXCEPT ![v] = 0]
      /\ e.fx = f.fx /\ e.focused = f.focused
      /\ e.clock = f.clock /\ e.canonical = f.canonical /\ e.revision = f.revision
      /\ e.count = f.count /\ e.shown = f.shown
      /\ e.owner = f.owner /\ e.held = f.held /\ e.untracked = f.untracked
  BY <1>b DEF Arbiters
<1>4. /\ e.entries \in SUBSET Viewers
      /\ e.geometry \in [Viewers -> Sizes \cup {None}]
      /\ e.look \in [Viewers -> Looks \cup {None}]
      /\ e.activity \in [Viewers -> Nat]
  BY <1>b, <1>3 DEF Arbiters
<1>5. e \in Arbiters
  BY <1>b, <1>3, <1>4 DEF Arbiters
<1>a. Finalize(a, v) = r
  BY DEF Finalize, f
<1> HIDE DEF e
<1>6. FocusOK(e) /\ Told(e, known) /\ SameMouse(a, e)
  BY <1>2, <1>3, <1>5 DEF FocusOK, Told, Any, SameMouse
<1>7. /\ e.owner = None <=> e.held \cup e.untracked = {}
      /\ e.owner \notin {None, v} => e.owner \in e.entries
  BY <1>1, <1>2, <1>3 DEF MouseOK, SameMouse
<1>8. /\ ArbOK(r) /\ SameFocus(e, r) /\ r.entries = e.entries
      /\ r.owner # v
      /\ e.held \cup e.fx.releases \subseteq r.held \cup r.fx.releases
  BY <1>1, <1>6, <1>7, FinalizeMouseOK
<1>9. \/ r.owner = e.owner
      \/ r.owner = None /\ e.owner = v
  <2>1. CASE e.owner # v
    BY <2>1 DEF FinalizeMouse
  <2>2. CASE e.owner = v
    BY <2>2, <1>5 DEF FinalizeMouse, EndGesture, Arbiters
  <2> QED BY <2>1, <2>2
<1> HIDE DEF r
<1> QED BY <1>2, <1>3, <1>6, <1>8, <1>9, <1>a DEF SameFocus, SameMouse, Told, Any

-----------------------------------------------------------------------------
(* The other reports of a viewer. *)

(* New activity keeps the arbiter well formed. *)
LEMMA TouchOK ==
    ASSUME NEW a, ArbOK(a), NEW v \in Viewers
    PROVE  LET r == Touch(a, v)
           IN  /\ ArbOK(r) /\ r.entries = a.entries /\ SameMouse(a, r)
               /\ \A known \in BOOLEAN : Told(a, known) => Told(r, known)
<1> DEFINE r == Touch(a, v)
<1>1. a \in Arbiters
  BY DEF ArbOK, FocusOK
<1>2. r \in Arbiters /\ r.entries = a.entries /\ r.fx = a.fx
      /\ SameMouse(a, r) /\ SameFocus(a, r)
  BY <1>1, TouchFrame
<1> HIDE DEF r
<1>3. ArbOK(r) /\ \A known \in BOOLEAN : Told(a, known) => Told(r, known)
  BY <1>2 DEF ArbOK, FocusOK, MouseOK, SameMouse, SameFocus, Told, Any
<1> QED BY <1>2, <1>3 DEF r

(* A reported size keeps the arbiter well formed. *)
LEMMA ReportOK ==
    ASSUME NEW a, ArbOK(a), NEW v \in Viewers, NEW size \in Sizes
    PROVE  LET r == Report(a, v, size)
           IN  /\ ArbOK(r) /\ r.entries = a.entries /\ SameMouse(a, r)
               /\ \A known \in BOOLEAN : Told(a, known) => Told(r, known)
<1> DEFINE r == Report(a, v, size)
<1>1. a \in Arbiters
  BY DEF ArbOK, FocusOK
<1>2. /\ r.geometry = [a.geometry EXCEPT ![v] = size]
      /\ r.entries = a.entries /\ r.look = a.look /\ r.fx = a.fx
      /\ r.focused = a.focused /\ r.activity = a.activity /\ r.clock = a.clock
      /\ r.canonical = a.canonical /\ r.revision = a.revision /\ r.count = a.count
      /\ r.shown = a.shown
      /\ r.owner = a.owner /\ r.held = a.held /\ r.untracked = a.untracked
  BY <1>1 DEF Report, Arbiters
<1>3. r.geometry \in [Viewers -> Sizes \cup {None}]
  BY <1>1, <1>2 DEF Arbiters
<1>4. r \in Arbiters
  BY <1>1, <1>2, <1>3 DEF Report, Arbiters
<1> HIDE DEF r
<1>5. ArbOK(r) /\ \A known \in BOOLEAN : Told(a, known) => Told(r, known)
  BY <1>2, <1>4 DEF ArbOK, FocusOK, MouseOK, Told, Any
<1> QED BY <1>2, <1>5 DEF r, SameMouse

(* A submitted presentation keeps the arbiter well formed. *)
LEMMA PresentOK ==
    ASSUME NEW a, ArbOK(a), NEW v \in Viewers, NEW look \in Looks
    PROVE  LET r == Present(a, v, look)
           IN  /\ ArbOK(r) /\ r.entries = a.entries /\ SameMouse(a, r)
               /\ \A known \in BOOLEAN : Told(a, known) => Told(r, known)
<1> DEFINE r == Present(a, v, look)
<1>1. a \in Arbiters
  BY DEF ArbOK, FocusOK
<1>2. /\ r.look = [a.look EXCEPT ![v] = look]
      /\ r.entries = a.entries /\ r.geometry = a.geometry /\ r.fx = a.fx
      /\ r.focused = a.focused /\ r.activity = a.activity /\ r.clock = a.clock
      /\ r.canonical = a.canonical /\ r.revision = a.revision /\ r.count = a.count
      /\ r.shown = a.shown
      /\ r.owner = a.owner /\ r.held = a.held /\ r.untracked = a.untracked
  BY <1>1 DEF Present, Arbiters
<1>3. r.look \in [Viewers -> Looks \cup {None}]
  BY <1>1, <1>2 DEF Arbiters
<1>4. r \in Arbiters
  BY <1>1, <1>2, <1>3 DEF Present, Arbiters
<1> HIDE DEF r
<1>5. ArbOK(r) /\ \A known \in BOOLEAN : Told(a, known) => Told(r, known)
  BY <1>2, <1>4 DEF ArbOK, FocusOK, MouseOK, Told, Any
<1> QED BY <1>2, <1>5 DEF r, SameMouse

(* Once the effects are applied the application owes nothing. *)
LEMMA ClearedOK ==
    ASSUME NEW a, ArbOK(a)
    PROVE  LET r == Cleared(a)
           IN  /\ ArbOK(r) /\ r.entries = a.entries
               /\ r.owner = a.owner /\ r.held = a.held /\ r.untracked = a.untracked
               /\ r.fx = NoEffects /\ Told(r, Any(a))
<1> DEFINE r == Cleared(a)
<1>1. a \in Arbiters
  BY DEF ArbOK, FocusOK
<1>2. /\ r.fx = NoEffects
      /\ r.entries = a.entries /\ r.geometry = a.geometry /\ r.look = a.look
      /\ r.focused = a.focused /\ r.activity = a.activity /\ r.clock = a.clock
      /\ r.canonical = a.canonical /\ r.revision = a.revision /\ r.count = a.count
      /\ r.shown = a.shown
      /\ r.owner = a.owner /\ r.held = a.held /\ r.untracked = a.untracked
  BY <1>1 DEF Cleared, Arbiters
<1>3. r.fx \in Effects
  BY <1>2 DEF NoEffects, Effects, FocusReports
<1>4. r \in Arbiters
  BY <1>1, <1>2, <1>3 DEF Cleared, Arbiters
<1> HIDE DEF r
<1>5. ArbOK(r)
  BY <1>2, <1>4 DEF ArbOK, FocusOK, MouseOK
<1>6. Told(r, Any(a))
  BY <1>2 DEF Told, Any, NoEffects
<1> QED BY <1>2, <1>5, <1>6 DEF r
-----------------------------------------------------------------------------
(* The choice of a controller.                                             *)

(* What the choice depends on, and what the terminal is told of it. *)
SameClaims(a, b) ==
    /\ b.entries = a.entries /\ b.geometry = a.geometry
    /\ b.look = a.look /\ b.activity = a.activity

SameScreen(a, b) ==
    /\ b.canonical = a.canonical /\ b.shown = a.shown
    /\ b.fx.resize = a.fx.resize /\ b.fx.look = a.fx.look

(* The controller, if there is one, has the size it wants and, if it wants *)
(* one, the presentation.                                                  *)
Decided(a, ranks, barred) ==
    \A v \in Viewers : IsController(a, ranks, barred, v) =>
        a.canonical = a.geometry[v] /\ (a.look[v] # None => a.shown = a.look[v])

(* A terminal of this size and look, once the pending effects are applied, *)
(* has those the arbiter chose.                                            *)
Presented(a, size, look) ==
    /\ IF a.fx.resize = None THEN size = a.canonical ELSE a.fx.resize = a.canonical
    /\ IF a.fx.look = None THEN look = a.shown ELSE a.fx.look = a.shown

(* The choice depends on the claims only. *)
LEMMA SameController ==
    ASSUME NEW a, NEW b, SameClaims(a, b), NEW ranks, NEW barred, NEW v
    PROVE  IsController(a, ranks, barred, v) <=> IsController(b, ranks, barred, v)
BY DEF SameClaims, IsController, Candidates, Outranks

(* A decision stands while claims and screen do. *)
LEMMA DecidedStays ==
    ASSUME NEW a, NEW b, SameClaims(a, b), b.canonical = a.canonical, b.shown = a.shown,
           NEW ranks, NEW barred, Decided(a, ranks, barred)
    PROVE  Decided(b, ranks, barred)
<1> SUFFICES ASSUME NEW v \in Viewers, IsController(b, ranks, barred, v)
             PROVE  b.canonical = b.geometry[v] /\ (b.look[v] # None => b.shown = b.look[v])
  BY DEF Decided
<1>1. IsController(a, ranks, barred, v)
  BY SameController
<1> QED BY <1>1 DEF Decided, SameClaims

(* Gestures have no part in it. *)
LEMMA MouseKeepsClaims ==
    ASSUME NEW a \in Arbiters, NEW v, NEW b
    PROVE  /\ SameClaims(a, Press(a, v, b)) /\ SameScreen(a, Press(a, v, b))
           /\ SameClaims(a, Release(a, v, b)) /\ SameScreen(a, Release(a, v, b))
           /\ SameClaims(a, TrackingDisabled(a)) /\ SameScreen(a, TrackingDisabled(a))
           /\ SameClaims(a, FinalizeMouse(a, v)) /\ SameScreen(a, FinalizeMouse(a, v))
<1> USE DEF SameClaims, SameScreen, Arbiters
<1>1. SameClaims(a, Press(a, v, b)) /\ SameScreen(a, Press(a, v, b))
  BY DEF Press
<1>2. SameClaims(a, Release(a, v, b)) /\ SameScreen(a, Release(a, v, b))
  BY DEF Release, EndGesture
<1>3. SameClaims(a, TrackingDisabled(a)) /\ SameScreen(a, TrackingDisabled(a))
  BY DEF TrackingDisabled
<1>4. SameClaims(a, FinalizeMouse(a, v)) /\ SameScreen(a, FinalizeMouse(a, v))
  BY DEF FinalizeMouse, EndGesture, Effects
<1> QED BY <1>1, <1>2, <1>3, <1>4

(* A focus report, a size or a presentation leaves the screen alone until  *)
(* the next choice.                                                        *)
LEMMA ReportsKeepScreen ==
    ASSUME NEW a \in Arbiters, NEW v, NEW on \in BOOLEAN, NEW size, NEW look
    PROVE  /\ SameScreen(a, Touch(a, v))
           /\ SameScreen(a, SetFocus(a, v, on))
           /\ SameScreen(a, Report(a, v, size))
           /\ SameScreen(a, Present(a, v, look))
<1> USE DEF SameScreen, Arbiters
<1>1. SameScreen(a, Touch(a, v))
  BY DEF Touch
<1>2. SameScreen(a, SetFocus(a, v, on))
  <2>1. SameScreen(a, Gain(a, v))
    BY DEF Gain, Touch, Effects
  <2>2. SameScreen(a, Lose(a, v))
    BY DEF Lose, Effects
  <2> QED BY <1>1, <2>1, <2>2 DEF SetFocus
<1>3. SameScreen(a, Report(a, v, size))
  BY DEF Report
<1>4. SameScreen(a, Present(a, v, look))
  BY DEF Present
<1> QED BY <1>1, <1>2, <1>3, <1>4

(* So does an entry that comes ... *)
LEMMA AddEntryKeepsScreen ==
    ASSUME NEW a \in Arbiters, NEW v \in Viewers, NEW i,
           i.size \in Sizes \cup {None}, i.look \in Looks \cup {None}
    PROVE  SameScreen(a, AddEntry(a, v, i))
<1> DEFINE e == [a EXCEPT !.entries = @ \cup {v}, !.geometry[v] = i.size,
                          !.look[v] = i.look]
<1>1. e \in Arbiters /\ SameScreen(a, e)
  BY DEF Arbiters, SameScreen
<1>2. AddEntry(a, v, i) = IF i.focused /\ v \in InputViewers \cup SizeViewers
                         THEN SetFocus(e, v, TRUE) ELSE e
  BY DEF AddEntry
<1> HIDE DEF e
<1>3. SameScreen(e, SetFocus(e, v, TRUE))
  BY <1>1, ReportsKeepScreen
<1> QED BY <1>1, <1>2, <1>3 DEF SameScreen

(* ... or goes. *)
LEMMA FinalizeKeepsScreen ==
    ASSUME NEW a, ArbOK(a), NEW v \in a.entries, NEW known \in BOOLEAN, Told(a, known)
    PROVE  SameScreen(a, Finalize(a, v))
<1> DEFINE f == SetFocus(a, v, FALSE)
           e == [f EXCEPT !.entries = @ \ {v}, !.geometry[v] = None,
                          !.look[v] = None, !.activity[v] = 0]
<1>1. a \in Arbiters /\ FocusOK(a) /\ v \in Viewers
  BY DEF ArbOK, FocusOK, Arbiters
<1>2. f \in Arbiters /\ SameScreen(a, f)
  BY <1>1, SetFocusOK, ReportsKeepScreen DEF FocusOK
<1> HIDE DEF f
<1>3. e \in Arbiters /\ SameScreen(f, e)
  BY <1>2 DEF Arbiters, SameScreen
<1>4. Finalize(a, v) = FinalizeMouse(e, v)
  BY DEF Finalize, e, f
<1> HIDE DEF e
<1>5. SameScreen(e, FinalizeMouse(e, v))
  BY <1>3, MouseKeepsClaims
<1> QED BY <1>2, <1>3, <1>4, <1>5 DEF SameScreen

(* The screen follows the choice it is owed. *)
LEMMA AdoptPresents ==
    ASSUME NEW a \in Arbiters, NEW size \in Sizes, NEW want \in Looks \cup {None},
           NEW screen, NEW look, Presented(a, screen, look)
    PROVE  LET b == AdoptSize(a, size)
               r == AdoptLook(b, want)
           IN  /\ SameClaims(a, r) /\ Presented(r, screen, look)
               /\ r.canonical = size /\ (want # None => r.shown = want)
<1> DEFINE b == AdoptSize(a, size)
           r == AdoptLook(b, want)
<1>1. SameClaims(a, b) /\ Presented(b, screen, look) /\ b.canonical = size
  BY NoneAssumption DEF AdoptSize, SameClaims, Presented, Arbiters, Effects, AllSizes
<1>2. b \in Arbiters
  BY AdoptSizeFrame
<1> HIDE DEF b
<1>3. /\ SameClaims(b, r) /\ Presented(r, screen, look) /\ r.canonical = b.canonical
      /\ want # None => r.shown = want
  BY <1>1, <1>2, NoneAssumption DEF AdoptLook, SameClaims, Presented, Arbiters, Effects, AllLooks
<1> QED BY <1>1, <1>3 DEF SameClaims, b, r

(* Viewers that registered at different times cannot both control. *)
LEMMA OneController ==
    ASSUME NEW a \in Arbiters, NEW ranks \in [Viewers -> Nat], NEW barred,
           NEW v \in Viewers, NEW w \in Viewers,
           IsController(a, ranks, barred, v), IsController(a, ranks, barred, w)
    PROVE  v = w
<1> SUFFICES ASSUME v # w PROVE FALSE
  OBVIOUS
<1>1. Outranks(a, ranks, v, w) /\ Outranks(a, ranks, w, v)
  BY DEF IsController
<1>2. a.activity \in [Viewers -> Nat]
  BY DEF Arbiters
<1> QED BY <1>1, <1>2 DEF Outranks

(* A choice decides, keeps the claims, and tells the terminal. *)
LEMMA RecomputeDecides ==
    ASSUME NEW a \in Arbiters, NEW ranks \in [Viewers -> Nat], NEW barred,
           NEW screen, NEW look, Presented(a, screen, look)
    PROVE  LET r == Recompute(a, ranks, barred)
           IN  /\ SameClaims(a, r) /\ Presented(r, screen, look)
               /\ Decided(r, ranks, barred)
<1> DEFINE r == Recompute(a, ranks, barred)
<1>1. CASE \E v \in Viewers : IsController(a, ranks, barred, v)
  <2> DEFINE c == CHOOSE v \in Viewers : IsController(a, ranks, barred, v)
  <2>1. c \in Viewers /\ IsController(a, ranks, barred, c)
    BY <1>1
  <2>2. r = AdoptLook(AdoptSize(a, a.geometry[c]), a.look[c])
    BY <1>1 DEF Recompute
  <2> HIDE DEF c, r
  <2>3. a.geometry[c] \in Sizes /\ a.look[c] \in Looks \cup {None}
    BY <2>1 DEF IsController, Candidates, Arbiters
  <2>4. /\ SameClaims(a, r) /\ Presented(r, screen, look)
        /\ r.canonical = a.geometry[c] /\ (a.look[c] # None => r.shown = a.look[c])
    BY <2>2, <2>3, AdoptPresents
  <2>5. \A v \in Viewers : IsController(r, ranks, barred, v) => v = c
    BY <2>1, <2>4, OneController, SameController
  <2> QED BY <2>4, <2>5 DEF Decided, SameClaims, r
<1>2. CASE ~\E v \in Viewers : IsController(a, ranks, barred, v)
  BY <1>2 DEF Recompute, SameClaims, Decided
<1> QED BY <1>1, <1>2
-----------------------------------------------------------------------------
(* Requests of viewer v in a queue. *)
Places(q, v) == {i \in 1..Len(q) : q[i].viewer = v}

CountOf(q, v) == Cardinality(Places(q, v))

SendingOf(v) == IF sending[v] = None THEN 0 ELSE 1

CurrentOf(v) == IF current = None THEN 0 ELSE IF current.viewer = v THEN 1 ELSE 0

(* The pending focus report is the difference to what the application was  *)
(* told, while it can be told anything.                                    *)
Owed(a, p, unreachable) ==
    \E known \in BOOLEAN : Told(a, known) /\ (~unreachable => known = p.focused)

ArbInv ==
    /\ ArbOK(arb)
    /\ Owed(arb, app, inputClosed)
    /\ ~app.repeated
    /\ pc = "retire" => todo \subseteq arb.entries

(* Buttons the application holds are held by the gesture or being released. *)
ButtonInv ==
    /\ ~inputClosed => app.held \subseteq arb.held \cup arb.fx.releases
    /\ ~tracking => app.held = {}

(* A request is counted from before it is sent until it is settled. *)
CountInv ==
    \A v \in Viewers : queued[v] = CountOf(queue, v) + SendingOf(v) + CurrentOf(v)

(* Where requests and flags can come from. *)
CallInv ==
    /\ pc \in {"turn", "flush", "next", "waiting", "stopped"} => current = None
    /\ pc \in {"run", "settle"} => current # None
    /\ \A v \in Viewers :
          /\ order[v] = 0 => /\ v \notin slots \cup dropped \cup revoked \cup unmarked
                             /\ queued[v] = 0
          /\ sending[v] # None => sending[v].viewer = v /\ v \notin dropped
          /\ v \in unmarked /\ v \notin dropped \cup revoked => queued[v] = 0

(* A viewer with something left to run keeps its slot, and every slot that *)
(* was not revoked has an entry or is about to get one.                    *)
SlotInv ==
    \A v \in Viewers :
        /\ order[v] # 0 /\ ~Finished(v) => v \in slots
        /\ v \in slots \ revoked =>
              \/ v \in arb.entries
              \/ changed
              \/ v \in unmarked /\ v \notin dropped
              \/ pc = "list"
              \/ pc = "adopt" /\ v \in todo

(* The request being handled finds its viewer's entry. *)
EntryInv ==
    current # None /\ current.viewer \notin revoked =>
        \/ current.viewer \in arb.entries
        \/ pc = "list"
        \/ pc = "adopt" /\ current.viewer \in todo

(* What every step keeps of arbitration, and how it may end a gesture. *)
GestureStep ==
    arb.held # {} /\ arb.owner' # arb.owner =>
        /\ arb.owner' = None
        /\ \/ arb.owner \notin arb.entries'
           \/ /\ pc = "run" /\ current.kind = "release"
              /\ current.viewer = arb.owner

ArbStep == ArbInv' /\ ButtonInv' /\ (app \in Apps)' /\ GestureStep

EntriesKept == arb.entries' = arb.entries

IInv == TypeOK /\ ArbInv /\ ButtonInv /\ CountInv /\ CallInv /\ SlotInv /\ EntryInv

-----------------------------------------------------------------------------
(* Counting the requests of one viewer through the queue's operations. *)

(* The count of a viewer's requests is a natural number. *)
LEMMA CountNat ==
    ASSUME NEW q \in Seq(Requests), NEW w
    PROVE  IsFiniteSet(Places(q, w)) /\ CountOf(q, w) \in Nat
<1>1. Len(q) \in Nat /\ IsFiniteSet(1..Len(q))
  BY FS_Interval
<1>2. Places(q, w) \in SUBSET (1..Len(q))
  BY DEF Places
<1> QED BY <1>1, <1>2, FS_Subset, FS_CardinalityType DEF CountOf

(* An empty queue has no request of any viewer. *)
LEMMA CountEmpty ==
    ASSUME NEW w
    PROVE  CountOf(<<>>, w) = 0
<1>1. Places(<<>>, w) = {}
  BY DEF Places
<1> QED BY <1>1, FS_EmptySet DEF CountOf

(* A queue that holds a request of the viewer counts at least one. *)
LEMMA CountHas ==
    ASSUME NEW q \in Seq(Requests), NEW i \in 1..Len(q)
    PROVE  CountOf(q, q[i].viewer) >= 1
<1> DEFINE S == Places(q, q[i].viewer)
<1>1. i \in S
  BY DEF Places
<1>2. IsFiniteSet(S) /\ CountOf(q, q[i].viewer) \in Nat
  BY CountNat
<1>3. Cardinality(S) # 0
  <2> HIDE DEF S
  <2> QED BY <1>1, <1>2, FS_EmptySet DEF S
<1> QED BY <1>2, <1>3 DEF CountOf

(* A request sent adds one to its own viewer's count only. *)
LEMMA CountAppend ==
    ASSUME NEW q \in Seq(Requests), NEW m \in Requests, NEW w
    PROVE  CountOf(Append(q, m), w) =
               CountOf(q, w) + (IF m.viewer = w THEN 1 ELSE 0)
<1> DEFINE r == Append(q, m)
           S == Places(q, w)
           T == Places(r, w)
<1>1. /\ Len(r) = Len(q) + 1 /\ Len(q) \in Nat
      /\ \A i \in 1..Len(q) : r[i] = q[i]
      /\ r[Len(q) + 1] = m
  BY AppendProperties
<1>2. T = IF m.viewer = w THEN S \cup {Len(q) + 1} ELSE S
  <2> HIDE DEF r
  <2> QED BY <1>1 DEF Places
<1>3. IsFiniteSet(S) /\ Cardinality(S) \in Nat
  BY CountNat DEF CountOf
<1>4. Len(q) + 1 \notin S
  BY <1>1 DEF Places
<1> HIDE DEF r, S, T
<1>5. Cardinality(T) = Cardinality(S) + (IF m.viewer = w THEN 1 ELSE 0)
  <2>1. CASE m.viewer = w
    <3>1. T = S \cup {Len(q) + 1}
      BY <1>2, <2>1
    <3>2. Cardinality(T) = Cardinality(S) + 1
      BY <3>1, <1>3, <1>4, FS_AddElement
    <3> QED BY <2>1, <3>2
  <2>2. CASE m.viewer # w
    <3>1. T = S
      BY <1>2, <2>2
    <3> QED BY <2>2, <3>1, <1>3
  <2> QED BY <2>1, <2>2
<1> QED BY <1>5 DEF CountOf, r, S, T

(* A request taken subtracts one from its own viewer's count only. *)
LEMMA CountTail ==
    ASSUME NEW q \in Seq(Requests), q # <<>>, NEW w
    PROVE  CountOf(q, w) =
               CountOf(Tail(q), w) + (IF Head(q).viewer = w THEN 1 ELSE 0)
<1> DEFINE r == Tail(q)
           S == Places(q, w)
           R == Places(r, w)
           U == S \ {1}
           f == [i \in R |-> i + 1]
<1>1. /\ Len(r) = Len(q) - 1 /\ Len(q) \in Nat \ {0} /\ r \in Seq(Requests)
      /\ \A i \in 1..Len(r) : r[i] = q[i + 1]
      /\ Head(q) = q[1]
  BY HeadTailProperties, EmptySeq
<1> HIDE DEF r
<1>2. IsFiniteSet(S) /\ IsFiniteSet(R) /\ IsFiniteSet(U)
  <2>1. IsFiniteSet(S) /\ IsFiniteSet(R)
    BY <1>1, CountNat
  <2> HIDE DEF S
  <2> QED BY <2>1, FS_Subset
<1>3. f \in Bijection(R, U)
  <2>1. f \in [R -> U]
    BY <1>1 DEF Places
  <2>2. \A i, j \in R : f[i] = f[j] => i = j
    BY <1>1 DEF Places
  <2>3. \A k \in U : \E i \in R : f[i] = k
    <3> SUFFICES ASSUME NEW k \in U PROVE \E i \in R : f[i] = k
      OBVIOUS
    <3>1. k - 1 \in R /\ k - 1 + 1 = k
      BY <1>1 DEF Places
    <3>2. f[k - 1] = k
      BY <3>1
    <3> QED BY <3>1, <3>2
  <2> HIDE DEF R, U, f
  <2> QED BY <2>1, <2>2, <2>3 DEF Bijection, Injection, IsInjective, Surjection
<1>4. Cardinality(R) = Cardinality(U)
  <2> HIDE DEF R, U, f
  <2> QED BY <1>2, <1>3, FS_Bijection DEF ExistsBijection
<1>5. 1 \in S <=> Head(q).viewer = w
  BY <1>1 DEF Places
<1>6. Cardinality(S) = Cardinality(U) + (IF 1 \in S THEN 1 ELSE 0)
  <2> HIDE DEF S
  <2>1. CASE 1 \in S
    <3>1. Cardinality(U) = Cardinality(S) - 1 /\ Cardinality(S) \in Nat
      BY <2>1, <1>2, FS_RemoveElement, FS_CardinalityType
    <3> QED BY <2>1, <3>1
  <2>2. CASE 1 \notin S
    <3>1. U = S
      BY <2>2
    <3>2. Cardinality(S) \in Nat
      BY <1>2, FS_CardinalityType
    <3> HIDE DEF U
    <3>3. Cardinality(U) = Cardinality(S)
      BY <3>1
    <3> QED BY <2>2, <3>2, <3>3
  <2> QED BY <2>1, <2>2
<1> HIDE DEF S, R, U, f
<1>7. Cardinality(S) = Cardinality(R) + (IF Head(q).viewer = w THEN 1 ELSE 0)
  BY <1>4, <1>5, <1>6
<1> QED BY <1>7 DEF CountOf, S, R, r

-----------------------------------------------------------------------------
(* Requests are well formed. *)
LEMMA RequestFields ==
    ASSUME NEW m \in Requests
    PROVE  /\ m # None /\ m.viewer \in Viewers
           /\ m.kind = "focus" => m.on \in BOOLEAN
           /\ m.kind = "geometry" => m.size \in Sizes
           /\ m.kind = "presentation" => m.look \in Looks
           /\ m.kind \in {"press", "release"} => m.button \in Buttons
BY NoRequestAssumption DEF Requests

-----------------------------------------------------------------------------
(* Arbitration across the owner's steps *)

(* Applying the accumulated effects settles the focus report and the       *)
(* releases that were owed.                                                *)
LEMMA ApplyOK ==
    ASSUME NEW a, ArbOK(a), Owed(a, app, inputClosed), app \in Apps, ~app.repeated,
           inputClosed \in BOOLEAN, Apply(a), UNCHANGED inputClosed,
           ~inputClosed => app.held \subseteq a.held \cup a.fx.releases
    PROVE  /\ ArbOK(arb') /\ Owed(arb', app', inputClosed')
           /\ (app \in Apps)' /\ ~app'.repeated
           /\ app'.held \subseteq app.held
           /\ ~inputClosed' => app'.held \subseteq arb'.held
           /\ arb.entries' = a.entries /\ arb.owner' = a.owner /\ arb.held' = a.held
<1>1. /\ arb' = Cleared(a) /\ ArbOK(arb') /\ Told(arb', Any(a))
      /\ arb.entries' = a.entries /\ arb.owner' = a.owner /\ arb.held' = a.held
  <2> DEFINE r == Cleared(a)
  <2>1. /\ ArbOK(r) /\ r.entries = a.entries
        /\ r.owner = a.owner /\ r.held = a.held /\ r.untracked = a.untracked
        /\ r.fx = NoEffects /\ Told(r, Any(a))
    BY ClearedOK
  <2>2. arb' = r
    BY DEF Apply
  <2> HIDE DEF r
  <2> QED BY <2>1, <2>2 DEF r
<1>2. /\ a.fx.resize \in AllSizes \cup {None} /\ a.fx.look \in AllLooks \cup {None}
      /\ a.fx.releases \in SUBSET Buttons /\ a.fx.focus \in FocusReports
  BY DEF ArbOK, FocusOK, Arbiters, Effects
<1>3. /\ app'.size \in AllSizes /\ app'.look \in AllLooks
      /\ app'.held = IF inputClosed THEN app.held ELSE app.held \ a.fx.releases
      /\ app'.focused = IF inputClosed \/ a.fx.focus = "none" THEN app.focused
                        ELSE a.fx.focus = "gained"
  BY <1>2 DEF Apply, Apps
<1>4. PICK known \in BOOLEAN : Told(a, known) /\ (~inputClosed => known = app.focused)
  BY DEF Owed
<1>5. ~app'.repeated
  <2>1. CASE inputClosed
    BY <2>1 DEF Apply
  <2>2. CASE ~inputClosed
    <3>1. Told(a, app.focused) /\ app.focused \in BOOLEAN
      BY <1>4, <2>2 DEF Apps
    <3>2. a.fx.focus # (IF app.focused THEN "gained" ELSE "lost")
      BY <3>1 DEF Told
    <3> QED BY <3>2 DEF Apply
  <2> QED BY <2>1, <2>2
<1>6. app' \in Apps
  <2>1. app' = [size |-> app'.size, look |-> app'.look, held |-> app'.held,
                focused |-> app'.focused, repeated |-> app'.repeated]
    BY DEF Apply
  <2>2. app'.held \in SUBSET Buttons /\ app'.focused \in BOOLEAN
    BY <1>2, <1>3 DEF Apps
  <2>3. app'.repeated \in BOOLEAN
    BY DEF Apply, Apps
  <2> QED BY <1>3, <2>1, <2>2, <2>3 DEF Apps
<1>7. Owed(arb', app', inputClosed')
  <2>1. CASE inputClosed
    <3>1. Any(a) \in BOOLEAN
      BY DEF Any
    <3> QED BY <1>1, <2>1, <3>1 DEF Owed
  <2>2. CASE ~inputClosed
    <3>1. Told(a, app.focused) /\ app.focused \in BOOLEAN
      BY <1>4, <2>2 DEF Apps
    <3>2. app'.focused <=> Any(a)
      BY <3>1, <2>2, <1>3 DEF Told, Any
    <3>3. Told(arb', app'.focused) /\ app'.focused \in BOOLEAN
      BY <1>1, <1>6, <3>2 DEF Told, Apps
    <3> QED BY <3>3 DEF Owed
  <2> QED BY <2>1, <2>2
<1> QED BY <1>1, <1>3, <1>5, <1>6, <1>7

(* The facts of the invariant that arbitration rests on. *)
LEMMA ArbFacts ==
    ASSUME IInv
    PROVE  /\ ArbOK(arb) /\ arb \in Arbiters /\ app \in Apps /\ ~app.repeated
           /\ Owed(arb, app, inputClosed)
           /\ inputClosed \in BOOLEAN /\ tracking \in BOOLEAN
           /\ ~inputClosed => app.held \subseteq arb.held \cup arb.fx.releases
           /\ ~tracking => app.held = {}
BY DEF IInv, ArbInv, ButtonInv, TypeOK

(* Steps that leave the arbiter and the application alone. *)
LEMMA FrameArb ==
    ASSUME IInv, UNCHANGED <<arb, app, tracking>>,
           inputClosed' = inputClosed \/ inputClosed' = TRUE,
           pc' = "retire" => todo' \subseteq arb.entries
    PROVE  ArbStep /\ EntriesKept
<1>1. Owed(arb, app, inputClosed')
  BY ArbFacts DEF Owed
<1>2. ArbInv' /\ ButtonInv'
  BY <1>1, ArbFacts DEF ArbInv, ButtonInv
<1> QED BY <1>2, ArbFacts DEF ArbStep, EntriesKept, GestureStep

(* The first loop of the sync keeps the arbitration invariant. *)
LEMMA AdoptArb ==
    ASSUME IInv, NEW v \in Viewers, Adopt(v)
    PROVE  /\ ArbStep
           /\ arb.entries' = IF v \in arb.entries \/ Finished(v) THEN arb.entries
                             ELSE arb.entries \cup {v}
<1>0. /\ UNCHANGED <<app, tracking, inputClosed>> /\ pc' # "retire"
      /\ initial[v] \in Initials
  BY DEF Adopt, appVars, IInv, TypeOK
<1>1. CASE v \in arb.entries
  BY <1>0, <1>1, FrameArb DEF Adopt, EntriesKept
<1>2. CASE v \notin arb.entries /\ Finished(v)
  <2>1. arb.owner # v
    BY <1>2, ArbFacts, NoneAssumption DEF ArbOK, MouseOK
  <2>2. arb' = arb
    BY <1>2, <2>1 DEF Adopt, FinalizeMouse
  <2> QED BY <1>0, <1>2, <2>2, FrameArb DEF EntriesKept
<1>3. CASE v \notin arb.entries /\ ~Finished(v)
  <2> DEFINE i == initial[v]
             r == AddEntry(arb, v, i)
  <2>1. /\ i.focused \in BOOLEAN /\ i.size \in Sizes \cup {None}
        /\ i.look \in Looks \cup {None}
    BY <1>0 DEF Initials
  <2>2. PICK known \in BOOLEAN :
            Told(arb, known) /\ (~inputClosed => known = app.focused)
    BY ArbFacts DEF Owed
  <2> HIDE DEF i
  <2>3. /\ ArbOK(r) /\ Told(r, known)
        /\ r.entries = arb.entries \cup {v} /\ SameMouse(arb, r)
    BY <1>3, <2>1, <2>2, ArbFacts, AddEntryOK
  <2>4. arb' = r
    BY <1>3 DEF Adopt, i
  <2> HIDE DEF r
  <2>5. Owed(arb', app', inputClosed')
    BY <1>0, <2>2, <2>3, <2>4 DEF Owed
  <2>6. /\ ArbOK(arb') /\ arb.entries' = arb.entries \cup {v}
        /\ arb.owner' = arb.owner /\ arb.held' = arb.held
        /\ arb'.fx.releases = arb.fx.releases
    BY <2>3, <2>4 DEF SameMouse
  <2>7. ArbInv' /\ ButtonInv'
    BY <1>0, <2>5, <2>6, ArbFacts DEF ArbInv, ButtonInv
  <2> QED BY <1>0, <1>3, <2>6, <2>7, ArbFacts DEF ArbStep, GestureStep
<1> QED BY <1>1, <1>2, <1>3

(* The second loop of the sync keeps it: a finalized owner's buttons move  *)
(* to the releases.                                                        *)
LEMMA RetireArb ==
    ASSUME IInv, NEW v \in Viewers, Retire(v)
    PROVE  /\ ArbStep
           /\ v \in arb.entries
           /\ arb.entries' = IF Finished(v) THEN arb.entries \ {v} ELSE arb.entries
<1>0. /\ UNCHANGED <<app, tracking, inputClosed>> /\ pc = "retire"
      /\ todo' = todo \ {v} /\ v \in todo /\ todo \subseteq arb.entries
  BY DEF Retire, appVars, First, IInv, ArbInv
<1>1. CASE ~Finished(v)
  BY <1>0, <1>1, FrameArb DEF Retire, EntriesKept
<1>2. CASE Finished(v)
  <2> DEFINE r == Finalize(arb, v)
  <2>1. PICK known \in BOOLEAN :
            Told(arb, known) /\ (~inputClosed => known = app.focused)
    BY ArbFacts DEF Owed
  <2>2. /\ ArbOK(r) /\ Told(r, known) /\ r.entries = arb.entries \ {v}
        /\ arb.held \cup arb.fx.releases \subseteq r.held \cup r.fx.releases
        /\ \/ r.owner = arb.owner
           \/ r.owner = None /\ arb.owner = v
    BY <1>0, <2>1, ArbFacts, FinalizeOK
  <2>3. arb' = r
    BY <1>2 DEF Retire
  <2> HIDE DEF r
  <2>4. Owed(arb', app', inputClosed')
    BY <1>0, <2>1, <2>2, <2>3 DEF Owed
  <2>5. /\ ArbOK(arb') /\ arb.entries' = arb.entries \ {v}
        /\ arb.held \cup arb.fx.releases \subseteq arb'.held \cup arb'.fx.releases
        /\ \/ arb.owner' = arb.owner
           \/ arb.owner' = None /\ arb.owner = v
    BY <2>2, <2>3
  <2>6. todo' \subseteq arb.entries'
    BY <1>0, <2>5
  <2>7. ArbInv' /\ ButtonInv'
    BY <1>0, <2>4, <2>5, <2>6, ArbFacts DEF ArbInv, ButtonInv
  <2>8. GestureStep
    BY <2>5 DEF GestureStep
  <2> QED BY <1>0, <1>2, <2>5, <2>7, <2>8, ArbFacts DEF ArbStep
<1> QED BY <1>1, <1>2

(* The end of the sync, which applies the effects, keeps it. *)
LEMMA SyncedArb ==
    ASSUME IInv, Synced
    PROVE  ArbStep /\ EntriesKept
<1> DEFINE r == Recompute(arb, order, Barred)
<1>0. UNCHANGED <<tracking, inputClosed>> /\ pc' # "retire"
  BY DEF Synced
<1>1. PICK known \in BOOLEAN :
          Told(arb, known) /\ (~inputClosed => known = app.focused)
  BY ArbFacts DEF Owed
<1>2. /\ ArbOK(r) /\ r.entries = arb.entries /\ SameMouse(arb, r)
      /\ \A k \in BOOLEAN : Told(arb, k) => Told(r, k)
  BY ArbFacts, RecomputeOK
<1>3. Apply(r)
  BY DEF Synced
<1> HIDE DEF r
<1>4. Owed(r, app, inputClosed)
  BY <1>1, <1>2 DEF Owed
<1>5. ~inputClosed => app.held \subseteq r.held \cup r.fx.releases
  BY <1>2, ArbFacts DEF SameMouse
<1>6. /\ ArbOK(arb') /\ Owed(arb', app', inputClosed')
      /\ (app \in Apps)' /\ ~app'.repeated
      /\ app'.held \subseteq app.held
      /\ ~inputClosed' => app'.held \subseteq arb'.held
      /\ arb.entries' = r.entries /\ arb.owner' = r.owner /\ arb.held' = r.held
  BY <1>0, <1>2, <1>3, <1>4, <1>5, ArbFacts, ApplyOK
<1>7. ArbInv' /\ ButtonInv'
  BY <1>0, <1>6, ArbFacts DEF ArbInv, ButtonInv
<1> QED BY <1>2, <1>6, <1>7 DEF ArbStep, EntriesKept, GestureStep, SameMouse

(* A chunk of output that ends tracking keeps it. *)
LEMMA OutputArb ==
    ASSUME IInv, Output
    PROVE  ArbStep /\ EntriesKept
<1>0. /\ UNCHANGED inputClosed /\ pc' # "retire" /\ tracking' \in BOOLEAN
      /\ app' = app \/ app' = [app EXCEPT !.held = {}]
      /\ ~tracking' => app' = [app EXCEPT !.held = {}]
  BY DEF Output
<1>1. /\ app' \in Apps /\ app'.focused = app.focused
      /\ app'.repeated = app.repeated /\ app'.held \subseteq app.held
      /\ ~tracking' => app'.held = {}
  BY <1>0, ArbFacts DEF Apps
<1>2. CASE tracking'
  <2>1. arb' = arb
    BY <1>2 DEF Output
  <2>2. ArbInv' /\ ButtonInv'
    BY <1>0, <1>1, <1>2, <2>1, ArbFacts DEF ArbInv, ButtonInv, Owed
  <2> QED BY <1>1, <2>1, <2>2 DEF ArbStep, EntriesKept, GestureStep
<1>3. CASE ~tracking'
  <2> DEFINE r == TrackingDisabled(arb)
  <2>1. /\ ArbOK(r) /\ SameFocus(arb, r) /\ r.fx = arb.fx
        /\ r.entries = arb.entries /\ r.owner = arb.owner
    BY ArbFacts, TrackingDisabledOK
  <2>2. arb' = r
    BY <1>3 DEF Output
  <2> HIDE DEF r
  <2>3. Owed(arb', app', inputClosed')
    BY <1>0, <1>1, <2>1, <2>2, ArbFacts DEF Owed, Told, Any, SameFocus
  <2>4. ArbInv' /\ ButtonInv'
    BY <1>0, <1>1, <1>3, <2>1, <2>2, <2>3, ArbFacts DEF ArbInv, ButtonInv
  <2> QED BY <1>1, <2>1, <2>2, <2>4 DEF ArbStep, EntriesKept, GestureStep
<1> QED BY <1>2, <1>3

(* Settling finalizes at most the viewer whose last request ran. *)
LEMMA SettleArb ==
    ASSUME IInv, Settle
    PROVE  LET v == current.viewer
               last == v \in arb.entries /\ v \in dropped /\ queued[v] - 1 = 0
           IN  /\ ArbStep
               /\ arb.entries' = IF last THEN arb.entries \ {v} ELSE arb.entries
<1> DEFINE v == current.viewer
           last == v \in arb.entries /\ v \in dropped /\ queued[v] - 1 = 0
           f == Finalize(arb, v)
           r == Recompute(f, order, Barred)
           a == IF last THEN r ELSE arb
<1>0. UNCHANGED <<tracking, inputClosed>> /\ pc' # "retire"
  BY DEF Settle
<1>1. PICK known \in BOOLEAN :
          Told(arb, known) /\ (~inputClosed => known = app.focused)
  BY ArbFacts DEF Owed
<1>2. Apply(a)
  BY DEF Settle
<1>3. /\ ArbOK(a) /\ Told(a, known)
      /\ a.entries = IF last THEN arb.entries \ {v} ELSE arb.entries
      /\ arb.held \cup arb.fx.releases \subseteq a.held \cup a.fx.releases
      /\ \/ a.owner = arb.owner
         \/ a.owner = None /\ arb.owner = v /\ last
  <2>1. CASE ~last
    <3>1. a = arb
      BY <2>1
    <3> HIDE DEF a, last
    <3> QED BY <1>1, <2>1, <3>1, ArbFacts
  <2>2. CASE last
    <3>1. v \in arb.entries
      BY <2>2
    <3>2. /\ ArbOK(f) /\ Told(f, known) /\ f.entries = arb.entries \ {v}
          /\ arb.held \cup arb.fx.releases \subseteq f.held \cup f.fx.releases
          /\ \/ f.owner = arb.owner
             \/ f.owner = None /\ arb.owner = v
      BY <1>1, <3>1, ArbFacts, FinalizeOK
    <3> HIDE DEF f
    <3>3. /\ ArbOK(r) /\ r.entries = f.entries /\ SameMouse(f, r)
          /\ \A k \in BOOLEAN : Told(f, k) => Told(r, k)
      BY <3>2, RecomputeOK
    <3>4. a = r
      BY <2>2
    <3> HIDE DEF r, a, last
    <3> QED BY <2>2, <3>2, <3>3, <3>4 DEF SameMouse
  <2> QED BY <2>1, <2>2
<1> HIDE DEF a, last
<1>4. Owed(a, app, inputClosed)
  BY <1>1, <1>3 DEF Owed
<1>5. ~inputClosed => app.held \subseteq a.held \cup a.fx.releases
  BY <1>3, ArbFacts
<1>6. /\ ArbOK(arb') /\ Owed(arb', app', inputClosed')
      /\ (app \in Apps)' /\ ~app'.repeated
      /\ app'.held \subseteq app.held
      /\ ~inputClosed' => app'.held \subseteq arb'.held
      /\ arb.entries' = a.entries /\ arb.owner' = a.owner /\ arb.held' = a.held
  BY <1>0, <1>2, <1>3, <1>4, <1>5, ArbFacts, ApplyOK
<1>7. ArbInv' /\ ButtonInv'
  BY <1>0, <1>6, ArbFacts DEF ArbInv, ButtonInv
<1>8. GestureStep
  BY <1>3, <1>6 DEF GestureStep
<1>9. ArbStep /\ arb.entries' = IF last THEN arb.entries \ {v} ELSE arb.entries
  BY <1>3, <1>6, <1>7, <1>8 DEF ArbStep
<1> QED BY <1>9 DEF last

(* A handler that only moves focus, sizes or activity. *)
LEMMA ReportArb ==
    ASSUME IInv, NEW r, ArbOK(r), r.entries = arb.entries, SameMouse(arb, r),
           \A known \in BOOLEAN : Told(arb, known) => Told(r, known),
           arb' = r, UNCHANGED <<app, tracking, inputClosed>>, pc' # "retire"
    PROVE  ArbStep /\ EntriesKept
<1>1. Owed(arb', app', inputClosed')
  BY ArbFacts DEF Owed
<1>2. ArbInv' /\ ButtonInv'
  BY <1>1, ArbFacts DEF ArbInv, ButtonInv, SameMouse
<1> QED BY <1>2, ArbFacts DEF ArbStep, EntriesKept, GestureStep, SameMouse

(* What the running handler knows of its request. *)
LEMMA RunFacts ==
    ASSUME IInv, NEW kind, Running(kind)
    PROVE  /\ current \in Requests /\ current.kind = kind /\ current.viewer \in Viewers
           /\ Known /\ pc = "run" /\ pc' # "retire" /\ UNCHANGED inputClosed
<1>1. pc = "run" /\ current # None /\ current \in Requests
  BY DEF IInv, TypeOK, CallInv, Running
<1>2. current.viewer \notin revoked
  BY DEF Running, Permitted
<1> QED BY <1>1, <1>2, RequestFields DEF IInv, EntryInv, Running, Known

(* A focus report keeps it. *)
LEMMA RunFocusArb ==
    ASSUME IInv, RunFocus
    PROVE  ArbStep /\ EntriesKept
<1> DEFINE v == current.viewer
           on == current.on
           f == SetFocus(arb, v, on)
           r == Recompute(f, order, Barred)
<1>1. /\ v \in arb.entries /\ on \in BOOLEAN
      /\ UNCHANGED <<app, tracking, inputClosed>> /\ pc' # "retire" /\ arb' = r
  BY RunFacts, RequestFields DEF RunFocus, Known
<1> HIDE DEF v, on
<1>2. PICK known \in BOOLEAN : Told(arb, known)
  BY ArbFacts DEF Owed
<1>3. FocusOK(f) /\ f.entries = arb.entries /\ SameMouse(arb, f)
  BY <1>1, <1>2, ArbFacts, SetFocusOK DEF ArbOK
<1>4. \A k \in BOOLEAN : Told(arb, k) => Told(f, k)
  BY <1>1, ArbFacts, SetFocusOK DEF ArbOK
<1> HIDE DEF f
<1>5. ArbOK(f)
  BY <1>3, ArbFacts DEF ArbOK, MouseOK, SameMouse
<1>6. /\ ArbOK(r) /\ r.entries = f.entries /\ SameMouse(f, r)
      /\ \A k \in BOOLEAN : Told(f, k) => Told(r, k)
  BY <1>5, RecomputeOK
<1> HIDE DEF r
<1>7. SameMouse(arb, r)
  BY <1>3, <1>6 DEF SameMouse
<1> QED BY <1>1, <1>3, <1>4, <1>6, <1>7, ReportArb

(* A size report keeps it. *)
LEMMA RunGeometryArb ==
    ASSUME IInv, RunGeometry
    PROVE  ArbStep /\ EntriesKept
<1> DEFINE v == current.viewer
           size == current.size
           f == Report(arb, v, size)
           r == Recompute(f, order, Barred)
<1>1. /\ v \in Viewers /\ size \in Sizes
      /\ UNCHANGED <<app, tracking, inputClosed>> /\ pc' # "retire" /\ arb' = r
  BY RunFacts, RequestFields DEF RunGeometry
<1> HIDE DEF v, size
<1>2. /\ ArbOK(f) /\ f.entries = arb.entries /\ SameMouse(arb, f)
      /\ \A k \in BOOLEAN : Told(arb, k) => Told(f, k)
  BY <1>1, ArbFacts, ReportOK
<1> HIDE DEF f
<1>3. /\ ArbOK(r) /\ r.entries = f.entries /\ SameMouse(f, r)
      /\ \A k \in BOOLEAN : Told(f, k) => Told(r, k)
  BY <1>2, RecomputeOK
<1> HIDE DEF r
<1>4. SameMouse(arb, r)
  BY <1>2, <1>3 DEF SameMouse
<1> QED BY <1>1, <1>2, <1>3, <1>4, ReportArb

(* A presentation keeps it. *)
LEMMA RunPresentationArb ==
    ASSUME IInv, RunPresentation
    PROVE  ArbStep /\ EntriesKept
<1> DEFINE v == current.viewer
           look == current.look
           f == Present(arb, v, look)
           r == Recompute(f, order, Barred)
<1>1. /\ v \in Viewers /\ look \in Looks
      /\ UNCHANGED <<app, tracking, inputClosed>> /\ pc' # "retire" /\ arb' = r
  BY RunFacts, RequestFields DEF RunPresentation
<1> HIDE DEF v, look
<1>2. /\ ArbOK(f) /\ f.entries = arb.entries /\ SameMouse(arb, f)
      /\ \A k \in BOOLEAN : Told(arb, k) => Told(f, k)
  BY <1>1, ArbFacts, PresentOK
<1> HIDE DEF f
<1>3. /\ ArbOK(r) /\ r.entries = f.entries /\ SameMouse(f, r)
      /\ \A k \in BOOLEAN : Told(f, k) => Told(r, k)
  BY <1>2, RecomputeOK
<1> HIDE DEF r
<1>4. SameMouse(arb, r)
  BY <1>2, <1>3 DEF SameMouse
<1> QED BY <1>1, <1>2, <1>3, <1>4, ReportArb

(* Typing, which moves control and applies the effects first, keeps it. *)
LEMMA RunTypingArb ==
    ASSUME IInv, RunTyping
    PROVE  ArbStep /\ EntriesKept
<1> DEFINE v == current.viewer
           f == Touch(arb, v)
           r == Recompute(f, order, Barred)
<1>1. /\ v \in Viewers /\ UNCHANGED <<tracking, inputClosed>>
      /\ pc' # "retire" /\ Apply(r)
  BY RunFacts DEF RunTyping
<1> HIDE DEF v
<1>2. /\ ArbOK(f) /\ f.entries = arb.entries /\ SameMouse(arb, f)
      /\ \A k \in BOOLEAN : Told(arb, k) => Told(f, k)
  BY <1>1, ArbFacts, TouchOK
<1> HIDE DEF f
<1>3. /\ ArbOK(r) /\ r.entries = f.entries /\ SameMouse(f, r)
      /\ \A k \in BOOLEAN : Told(f, k) => Told(r, k)
  BY <1>2, RecomputeOK
<1> HIDE DEF r
<1>4. Owed(r, app, inputClosed)
  BY <1>2, <1>3, ArbFacts DEF Owed
<1>5. SameMouse(arb, r) /\ r.entries = arb.entries
  BY <1>2, <1>3 DEF SameMouse
<1>6. ~inputClosed => app.held \subseteq r.held \cup r.fx.releases
  BY <1>5, ArbFacts DEF SameMouse
<1>7. /\ ArbOK(arb') /\ Owed(arb', app', inputClosed')
      /\ (app \in Apps)' /\ ~app'.repeated
      /\ app'.held \subseteq app.held
      /\ ~inputClosed' => app'.held \subseteq arb'.held
      /\ arb.entries' = r.entries /\ arb.owner' = r.owner /\ arb.held' = r.held
  BY <1>1, <1>3, <1>4, <1>6, ArbFacts, ApplyOK
<1>8. ArbInv' /\ ButtonInv'
  BY <1>1, <1>7, ArbFacts DEF ArbInv, ButtonInv
<1> QED BY <1>5, <1>7, <1>8 DEF ArbStep, EntriesKept, GestureStep, SameMouse

(* A handler that changes the gesture and the buttons the application      *)
(* holds.                                                                  *)
LEMMA MouseArb ==
    ASSUME IInv, NEW r, NEW held \in SUBSET Buttons, ArbOK(r), SameFocus(arb, r),
           r.fx = arb.fx, r.entries = arb.entries,
           arb' = r, app' = [app EXCEPT !.held = held],
           UNCHANGED inputClosed, pc' # "retire",
           ~inputClosed => held \subseteq r.held \cup r.fx.releases,
           ~tracking' => held = {},
           \/ r.owner = arb.owner \/ arb.held = {}
           \/ /\ r.owner = None /\ pc = "run"
              /\ current.kind = "release" /\ current.viewer = arb.owner
    PROVE  ArbStep /\ EntriesKept
<1>1. /\ app' \in Apps /\ app'.focused = app.focused
      /\ app'.repeated = app.repeated /\ app'.held = held
  BY ArbFacts DEF Apps
<1>2. Owed(arb', app', inputClosed')
  BY <1>1, ArbFacts DEF Owed, Told, Any, SameFocus
<1>3. ArbInv' /\ ButtonInv'
  BY <1>1, <1>2, ArbFacts DEF ArbInv, ButtonInv
<1> QED BY <1>1, <1>3 DEF ArbStep, EntriesKept, GestureStep

(* A press, admitted or not, keeps it. *)
LEMMA RunPressArb ==
    ASSUME IInv, RunPress
    PROVE  ArbStep /\ EntriesKept
<1> DEFINE v == current.viewer
           b == current.button
<1>1. /\ v \in Viewers /\ v \in arb.entries /\ b \in Buttons
      /\ UNCHANGED <<tracking, inputClosed>> /\ pc' # "retire"
  BY RunFacts, RequestFields DEF RunPress, Known
<1>2. app = [app EXCEPT !.held = app.held] /\ app.held \in SUBSET Buttons
  BY ArbFacts DEF Apps
<1>3. CASE inputClosed
  BY <1>1, <1>3, FrameArb DEF RunPress
<1>4. CASE ~inputClosed /\ ~tracking
  <2> DEFINE r == TrackingDisabled(arb)
  <2>1. /\ ArbOK(r) /\ SameFocus(arb, r) /\ r.fx = arb.fx
        /\ r.entries = arb.entries /\ r.owner = arb.owner
    BY ArbFacts, TrackingDisabledOK
  <2>2. arb' = r /\ app' = [app EXCEPT !.held = app.held]
    BY <1>2, <1>4 DEF RunPress
  <2>3. app.held = {}
    BY <1>4, ArbFacts
  <2> HIDE DEF r
  <2> QED BY <1>1, <1>2, <2>1, <2>2, <2>3, MouseArb
<1>5. CASE /\ ~inputClosed /\ tracking
           /\ PressAdmitted(arb, v, current.stamp)
  <2> DEFINE r == Press(arb, v, b)
             held == app.held \cup {b}
  <2>1. /\ ArbOK(r) /\ SameFocus(arb, r) /\ r.fx = arb.fx
        /\ r.entries = arb.entries /\ r.held = arb.held \cup {b} /\ r.owner = v
    BY <1>1, <1>5, ArbFacts, PressOK
  <2>2. arb' = r /\ app' = [app EXCEPT !.held = held]
    BY <1>5 DEF RunPress
  <2>3. r.owner = arb.owner \/ arb.held = {}
    BY <1>5, <2>1 DEF PressAdmitted
  <2>4. held \in SUBSET Buttons /\ held \subseteq r.held \cup r.fx.releases
    BY <1>1, <1>2, <1>5, <2>1, ArbFacts
  <2> HIDE DEF r, held
  <2> QED BY <1>1, <1>5, <2>1, <2>2, <2>3, <2>4, MouseArb
<1>6. CASE /\ ~inputClosed /\ tracking
           /\ ~PressAdmitted(arb, v, current.stamp)
  BY <1>1, <1>6, FrameArb DEF RunPress
<1> QED BY <1>3, <1>4, <1>5, <1>6

(* A release, admitted or not, keeps it. *)
LEMMA RunReleaseArb ==
    ASSUME IInv, RunRelease
    PROVE  ArbStep /\ EntriesKept
<1> DEFINE v == current.viewer
           b == current.button
           a == IF tracking THEN arb ELSE TrackingDisabled(arb)
           admitted == ReleaseAdmitted(a, v, b)
           r == IF admitted THEN Release(a, v, b) ELSE a
           held == IF admitted /\ tracking THEN app.held \ {b} ELSE app.held
<1>1. /\ v \in Viewers /\ b \in Buttons /\ current.kind = "release" /\ pc = "run"
      /\ UNCHANGED <<tracking, inputClosed>> /\ pc' # "retire"
  BY RunFacts, RequestFields DEF RunRelease
<1>2. app = [app EXCEPT !.held = app.held] /\ app.held \in SUBSET Buttons
  BY ArbFacts DEF Apps
<1>3. CASE inputClosed
  BY <1>1, <1>3, FrameArb DEF RunRelease
<1>4. CASE ~inputClosed
  <2>1. arb' = r /\ app' = [app EXCEPT !.held = held]
    BY <1>2, <1>4 DEF RunRelease
  <2>2. /\ ArbOK(a) /\ SameFocus(arb, a) /\ a.fx = arb.fx
        /\ a.entries = arb.entries /\ a.owner = arb.owner
        /\ tracking => a.held = arb.held
    <3>1. CASE tracking
      BY <3>1, ArbFacts DEF SameFocus
    <3>2. CASE ~tracking
      BY <3>2, ArbFacts, TrackingDisabledOK
    <3> QED BY <3>1, <3>2
  <2> HIDE DEF a
  <2>3. /\ ArbOK(r) /\ SameFocus(a, r) /\ r.fx = a.fx /\ r.entries = a.entries
        /\ r.held = IF admitted THEN a.held \ {b} ELSE a.held
        /\ \/ r.owner = a.owner
           \/ r.owner = None /\ a.owner = v
    <3>1. CASE admitted
      <4>1. a.owner = v
        BY <3>1 DEF ReleaseAdmitted
      <4>2. LET q == Release(a, v, b)
            IN  /\ ArbOK(q) /\ SameFocus(a, q) /\ q.fx = a.fx
                /\ q.entries = a.entries /\ q.held = a.held \ {b}
                /\ q.owner \in {None, v}
        BY <1>1, <2>2, <3>1, ReleaseOK
      <4> QED BY <3>1, <4>1, <4>2
    <3>2. CASE ~admitted
      BY <2>2, <3>2 DEF SameFocus
    <3> QED BY <3>1, <3>2
  <2> HIDE DEF r, admitted
  <2>4. SameFocus(arb, r) /\ r.fx = arb.fx /\ r.entries = arb.entries
    BY <2>2, <2>3 DEF SameFocus
  <2>5. held \in SUBSET Buttons /\ (~tracking => held = {})
    BY <1>2, ArbFacts
  <2>6. held \subseteq r.held \cup r.fx.releases
    <3>1. CASE tracking
      BY <3>1, <1>4, <2>2, <2>3, <2>4, ArbFacts
    <3>2. CASE ~tracking
      BY <3>2, <2>5
    <3> QED BY <3>1, <3>2
  <2>7. \/ r.owner = arb.owner
        \/ r.owner = None /\ current.viewer = arb.owner
    BY <2>2, <2>3
  <2> HIDE DEF held
  <2> QED BY <1>1, <2>1, <2>3, <2>4, <2>5, <2>6, <2>7, MouseArb
<1> QED BY <1>3, <1>4

(* A reset, after which the application tracks nothing, keeps it. *)
LEMMA RunResetArb ==
    ASSUME IInv, RunReset
    PROVE  ArbStep /\ EntriesKept
<1> DEFINE r == TrackingDisabled(arb)
<1>1. /\ ArbOK(r) /\ SameFocus(arb, r) /\ r.fx = arb.fx
      /\ r.entries = arb.entries /\ r.owner = arb.owner
  BY ArbFacts, TrackingDisabledOK
<1>2. arb' = r /\ app' = [app EXCEPT !.held = {}] /\ pc' # "retire"
      /\ UNCHANGED inputClosed
  BY RunFacts DEF RunReset
<1>3. {} \in SUBSET Buttons /\ {} \subseteq r.held \cup r.fx.releases
  OBVIOUS
<1> HIDE DEF r
<1> DEFINE held == {}
<1>4. held \in SUBSET Buttons /\ app' = [app EXCEPT !.held = held] /\ held = {}
      /\ held \subseteq r.held \cup r.fx.releases
  BY <1>2, <1>3
<1> HIDE DEF held
<1> QED BY <1>1, <1>2, <1>4, MouseArb

(* Whatever handler runs keeps the arbitration invariant. *)
LEMMA HandlerArbOK ==
    ASSUME IInv, Handler
    PROVE  ArbStep /\ EntriesKept
<1>1. CASE RunRefused
  <2>1. UNCHANGED <<arb, app, tracking, inputClosed>> /\ pc' # "retire"
    BY <1>1 DEF RunRefused, appVars
  <2> QED BY <2>1, FrameArb
<1> QED BY <1>1, RunFocusArb, RunGeometryArb, RunPresentationArb, RunTypingArb,
           RunPressArb, RunReleaseArb, RunResetArb DEF Handler

(* The steps of clients, of the surroundings and of the owner between      *)
(* its handlers that do not reach the arbiter.                             *)
Quiet ==
    \/ Turn \/ ListSlots \/ Adopted \/ Flush \/ Dequeue \/ Idle \/ Woken
    \/ WriterDequeues \/ OutputArrives \/ InputCloses \/ Stop
    \/ \E v \in Viewers : Client(v) \/ Call(v)
    \/ UNCHANGED vars

(* So does a step that never reaches the arbiter or the application. *)
LEMMA QuietArb ==
    ASSUME IInv, Quiet
    PROVE  ArbStep /\ EntriesKept
<1>1. UNCHANGED <<arb, app, tracking>>
  BY DEF Quiet, Turn, ListSlots, Adopted, Flush, Dequeue, Idle, Woken, WriterDequeues,
         OutputArrives, InputCloses, Stop, Client, Call, Register, Drop, Revoke,
         StartSend, MarkChanged, Sent, Refused, appVars, vars
<1>2. inputClosed' = inputClosed \/ inputClosed' = TRUE
  BY DEF Quiet, Turn, ListSlots, Adopted, Flush, Dequeue, Idle, Woken, WriterDequeues,
         OutputArrives, InputCloses, Stop, Client, Call, Register, Drop, Revoke,
         StartSend, MarkChanged, Sent, Refused, appVars, vars
<1>3. ASSUME pc' = "retire" PROVE todo' \subseteq arb.entries
  <2>1. CASE Adopted
    BY <2>1 DEF Adopted
  <2>2. CASE UNCHANGED <<pc, todo>>
    BY <1>3, <2>2 DEF IInv, ArbInv
  <2> QED BY <1>3, <2>1, <2>2 DEF Quiet, Turn, ListSlots, Adopted, Flush, Dequeue, Idle, Woken,
        WriterDequeues, OutputArrives, InputCloses, Stop, Client, Call, Register,
        Drop, Revoke, StartSend, MarkChanged, Sent, Refused, vars
<1> QED BY <1>1, <1>2, <1>3, FrameArb

(* Every step is quiet or one of those that reach the arbiter. *)
LEMMA NextCases ==
    ASSUME [Next]_vars
    PROVE  \/ Quiet \/ Synced \/ Output \/ Handler \/ Settle
           \/ \E v \in Viewers : Adopt(v) \/ Retire(v)
BY DEF Next, Owner, Quiet

(* Every step keeps the arbitration invariant. *)
LEMMA ArbNext ==
    ASSUME IInv, [Next]_vars
    PROVE  ArbStep
BY NextCases, QuietArb, SyncedArb, OutputArb, HandlerArbOK, SettleArb, AdoptArb, RetireArb

-----------------------------------------------------------------------------
(* Requests are counted *)

(* A new request is its viewer's own. *)
LEMMA RequestsNowOK ==
    ASSUME NEW v \in Viewers, NEW m \in RequestsNow(v), IInv
    PROVE  m \in Requests /\ m.viewer = v
<1>1. arb.revision \in Nat
  BY ArbFacts DEF Arbiters
<1>2. 0..arb.revision \subseteq Nat
  BY <1>1
<1> QED BY <1>2 DEF RequestsNow, Requests

(* Only sends, refusals, dequeues and settling move requests. *)
LEMMA NextKeepsRequests ==
    ASSUME [Next]_vars
    PROVE  \/ UNCHANGED <<queued, queue, sending, current>>
           \/ \E v \in Viewers : StartSend(v) \/ Sent(v) \/ Refused(v)
           \/ Dequeue \/ Settle
<1>1. CASE Handler
  BY <1>1 DEF Handler, RunRefused, RunFocus, RunGeometry, RunPresentation, RunTyping,
     RunPress, RunRelease, RunReset, Running, clientVars
<1>2. CASE \E v \in Viewers : Adopt(v) \/ Retire(v)
  BY <1>2 DEF Adopt, Retire, clientVars
<1>3. CASE Quiet
  BY <1>3 DEF Quiet, Turn, ListSlots, Adopted, Flush, Idle, Woken, WriterDequeues, OutputArrives,
     InputCloses, Stop, Client, Call, Register, Drop, Revoke, MarkChanged,
     clientVars, vars
<1> QED BY <1>1, <1>2, <1>3, NextCases DEF Synced, Output, clientVars

(* Every step keeps the counts of queued requests exact. *)
LEMMA CountNext ==
    ASSUME IInv, [Next]_vars
    PROVE  CountInv'
<1> SUFFICES ASSUME NEW w \in Viewers
             PROVE  queued'[w] = CountOf(queue', w) + SendingOf(w)' + CurrentOf(w)'
  BY DEF CountInv
<1>0. /\ queued[w] = CountOf(queue, w) + SendingOf(w) + CurrentOf(w)
      /\ queued \in [Viewers -> Nat] /\ queue \in Seq(Requests)
      /\ sending \in [Viewers -> Requests \cup {None}]
      /\ CountOf(queue, w) \in Nat
  BY CountNat DEF IInv, CountInv, TypeOK
<1>1. CASE UNCHANGED <<queued, queue, sending, current>>
  BY <1>0, <1>1 DEF SendingOf, CurrentOf
<1>2. ASSUME NEW v \in Viewers, StartSend(v) PROVE
        queued'[w] = CountOf(queue', w) + SendingOf(w)' + CurrentOf(w)'
  <2>1. PICK m \in RequestsNow(v) : sending' = [sending EXCEPT ![v] = m]
    BY <1>2 DEF StartSend
  <2>2. m.viewer = v /\ m # None
    BY <2>1, RequestsNowOK, RequestFields
  <2>3. sending[v] = None
    BY <1>2 DEF StartSend, Holds
  <2>4. UNCHANGED <<queue, current>> /\ queued' = [queued EXCEPT ![v] = @ + 1]
    BY <1>2 DEF StartSend
  <2>5. CurrentOf(w)' = CurrentOf(w) /\ CurrentOf(w) \in {0, 1}
    BY <2>4 DEF CurrentOf
  <2> QED BY <1>0, <2>1, <2>2, <2>3, <2>4, <2>5 DEF SendingOf
<1>3. ASSUME NEW v \in Viewers, Sent(v) PROVE
        queued'[w] = CountOf(queue', w) + SendingOf(w)' + CurrentOf(w)'
  <2>1. /\ sending[v] \in Requests /\ sending[v].viewer = v
        /\ sending' = [sending EXCEPT ![v] = None]
        /\ queue' = Append(queue, sending[v])
        /\ UNCHANGED <<queued, current>>
    BY <1>0, <1>3 DEF Sent, IInv, CallInv
  <2>2. CountOf(queue', w) = CountOf(queue, w) + (IF v = w THEN 1 ELSE 0)
    BY <1>0, <2>1, CountAppend
  <2>3. CurrentOf(w)' = CurrentOf(w) /\ CurrentOf(w) \in {0, 1}
    BY <2>1 DEF CurrentOf
  <2>4. SendingOf(w)' = SendingOf(w) - (IF v = w THEN 1 ELSE 0) /\ SendingOf(w) \in {0, 1}
    BY <1>0, <1>3, <2>1 DEF SendingOf, Sent
  <2> QED BY <1>0, <2>1, <2>2, <2>3, <2>4
<1>4. ASSUME NEW v \in Viewers, Refused(v) PROVE
        queued'[w] = CountOf(queue', w) + SendingOf(w)' + CurrentOf(w)'
  <2>1. /\ sending' = [sending EXCEPT ![v] = None] /\ sending[v] # None
        /\ queued' = [queued EXCEPT ![v] = @ - 1]
        /\ UNCHANGED <<queue, current>>
    BY <1>4 DEF Refused
  <2>2. CurrentOf(w)' = CurrentOf(w) /\ CurrentOf(w) \in {0, 1}
    BY <2>1 DEF CurrentOf
  <2>3. SendingOf(w)' = SendingOf(w) - (IF v = w THEN 1 ELSE 0) /\ SendingOf(w) \in {0, 1}
    BY <1>0, <2>1 DEF SendingOf
  <2> QED BY <1>0, <2>1, <2>2, <2>3
<1>5. CASE Dequeue
  <2>1. /\ queue # <<>> /\ current = None
        /\ current' = Head(queue) /\ queue' = Tail(queue)
        /\ UNCHANGED <<queued, sending>> /\ Head(queue) \in Requests
    BY <1>0, <1>5, HeadTailProperties DEF Dequeue, IInv, CallInv, clientVars
  <2>2. CountOf(queue, w) = CountOf(queue', w) + (IF Head(queue).viewer = w THEN 1 ELSE 0)
    BY <1>0, <2>1, CountTail
  <2>3. CurrentOf(w)' = (IF Head(queue).viewer = w THEN 1 ELSE 0) /\ CurrentOf(w) = 0
    BY <2>1, RequestFields DEF CurrentOf
  <2>4. SendingOf(w)' = SendingOf(w) /\ SendingOf(w) \in {0, 1}
    BY <2>1 DEF SendingOf
  <2>5. queue' \in Seq(Requests) /\ CountOf(queue', w) \in Nat
    BY <1>0, <2>1, HeadTailProperties, CountNat
  <2> QED BY <1>0, <2>1, <2>2, <2>3, <2>4, <2>5
<1>6. CASE Settle
  <2>1. /\ current # None /\ current' = None
        /\ queued' = [queued EXCEPT ![current.viewer] = queued[current.viewer] - 1]
        /\ UNCHANGED <<queue, sending>>
    BY <1>6 DEF Settle, IInv, CallInv, clientVars
  <2>2. CurrentOf(w)' = 0 /\ CurrentOf(w) = (IF current.viewer = w THEN 1 ELSE 0)
    BY <2>1 DEF CurrentOf
  <2>3. SendingOf(w)' = SendingOf(w) /\ SendingOf(w) \in {0, 1}
    BY <2>1 DEF SendingOf
  <2> QED BY <1>0, <2>1, <2>2, <2>3
<1> QED BY <1>1, <1>2, <1>3, <1>4, <1>5, <1>6, NextKeepsRequests

(* A request under way or being handled is counted. *)
LEMMA CountedOnce ==
    ASSUME IInv
    PROVE  /\ \A v \in Viewers : sending[v] # None => queued[v] >= 1
           /\ current # None => current.viewer \in Viewers /\ queued[current.viewer] >= 1
           /\ \A i \in 1..Len(queue) :
                 queue[i].viewer \in Viewers /\ queued[queue[i].viewer] >= 1
<1>1. /\ queue \in Seq(Requests) /\ current \in Requests \cup {None}
      /\ \A v \in Viewers : queued[v] = CountOf(queue, v) + SendingOf(v) + CurrentOf(v)
  BY DEF IInv, TypeOK, CountInv
<1>2. \A v \in Viewers : CountOf(queue, v) \in Nat /\ SendingOf(v) \in {0, 1}
                         /\ CurrentOf(v) \in {0, 1}
  BY <1>1, CountNat DEF SendingOf, CurrentOf
<1>3. \A v \in Viewers : sending[v] # None => queued[v] >= 1
  BY <1>1, <1>2 DEF SendingOf
<1>4. current # None => current.viewer \in Viewers /\ queued[current.viewer] >= 1
  <2> SUFFICES ASSUME current # None
               PROVE  current.viewer \in Viewers /\ queued[current.viewer] >= 1
    OBVIOUS
  <2>1. current.viewer \in Viewers
    BY <1>1, RequestFields
  <2>2. CurrentOf(current.viewer) = 1
    BY DEF CurrentOf
  <2> QED BY <1>1, <1>2, <2>1, <2>2
<1>5. ASSUME NEW i \in 1..Len(queue)
      PROVE  queue[i].viewer \in Viewers /\ queued[queue[i].viewer] >= 1
  <2>1. queue[i] \in Requests
    BY <1>1, ElementOfSeq
  <2>2. queue[i].viewer \in Viewers
    BY <2>1, RequestFields
  <2>3. CountOf(queue, queue[i].viewer) >= 1
    BY <1>1, CountHas
  <2> QED BY <1>1, <1>2, <2>2, <2>3
<1> QED BY <1>3, <1>4, <1>5

-----------------------------------------------------------------------------
(* Types *)

RequestTypes ==
    /\ queued \in [Viewers -> Nat]
    /\ sending \in [Viewers -> Requests \cup {None}]
    /\ queue \in Seq(Requests)
    /\ current \in Requests \cup {None}

(* Every step keeps the types of the requests under way. *)
LEMMA RequestTypesNext ==
    ASSUME IInv, [Next]_vars
    PROVE  RequestTypes'
<1>0. RequestTypes
  BY DEF IInv, TypeOK, RequestTypes
<1>1. CASE UNCHANGED <<queued, queue, sending, current>>
  BY <1>0, <1>1 DEF RequestTypes
<1>2. ASSUME NEW v \in Viewers, StartSend(v) PROVE RequestTypes'
  <2>1. PICK m \in RequestsNow(v) : sending' = [sending EXCEPT ![v] = m]
    BY <1>2 DEF StartSend
  <2>2. m \in Requests
    BY <2>1, RequestsNowOK
  <2> QED BY <1>0, <1>2, <2>1, <2>2 DEF StartSend, RequestTypes
<1>3. ASSUME NEW v \in Viewers, Sent(v) PROVE RequestTypes'
  <2>1. sending[v] \in Requests
    BY <1>0, <1>3 DEF Sent, RequestTypes
  <2>2. Append(queue, sending[v]) \in Seq(Requests)
    BY <1>0, <2>1, AppendProperties DEF RequestTypes
  <2> QED BY <1>0, <1>3, <2>2 DEF Sent, RequestTypes
<1>4. ASSUME NEW v \in Viewers, Refused(v) PROVE RequestTypes'
  <2>1. queued[v] - 1 \in Nat
    BY <1>0, <1>4, CountedOnce DEF Refused, RequestTypes
  <2> QED BY <1>0, <1>4, <2>1 DEF Refused, RequestTypes
<1>5. CASE Dequeue
  <2>1. Head(queue) \in Requests /\ Tail(queue) \in Seq(Requests)
    BY <1>0, <1>5, HeadTailProperties DEF Dequeue, RequestTypes
  <2> QED BY <1>0, <1>5, <2>1 DEF Dequeue, RequestTypes, clientVars
<1>6. CASE Settle
  <2>1. queued[current.viewer] - 1 \in Nat
    BY <1>0, <1>6, CountedOnce DEF Settle, RequestTypes, IInv, CallInv
  <2>2. queued' = [queued EXCEPT ![current.viewer] = queued[current.viewer] - 1]
    BY <1>6 DEF Settle
  <2> QED BY <1>0, <1>6, <2>1, <2>2 DEF Settle, RequestTypes, clientVars
<1> QED BY <1>1, <1>2, <1>3, <1>4, <1>5, <1>6, NextKeepsRequests

ThreadTypes ==
    /\ slots \subseteq Viewers
    /\ order \in [Viewers -> Nat]
    /\ registered \in Nat
    /\ closed \in BOOLEAN /\ changed \in BOOLEAN
    /\ dropped \subseteq Viewers /\ revoked \subseteq Viewers
    /\ initial \in [Viewers -> Initials]
    /\ unmarked \subseteq Viewers
    /\ sent \in Nat
    /\ pc \in OwnerStates
    /\ todo \subseteq Viewers
    /\ wake \in BOOLEAN /\ writerFull \in BOOLEAN /\ spilled \in BOOLEAN
    /\ outputTurn \in BOOLEAN /\ inputClosed \in BOOLEAN /\ tracking \in BOOLEAN

(* Every step keeps the types of the registry's and the threads'           *)
(* variables.                                                              *)
LEMMA ThreadTypesNext ==
    ASSUME IInv, [Next]_vars
    PROVE  ThreadTypes'
<1>0. ThreadTypes /\ arb \in Arbiters
  BY ArbFacts DEF IInv, TypeOK, ThreadTypes
<1> USE DEF OwnerStates, registryVars, clientVars, appVars, writerVars
<1>a. NoInitial \in Initials
  BY DEF NoInitial, Initials
<1>1. ASSUME NEW v \in Viewers, Register(v) PROVE ThreadTypes'
  <2>1. PICK i \in InitialsNow : initial' = [initial EXCEPT ![v] = i]
    BY <1>1 DEF Register
  <2>2. i \in Initials
    BY <1>a, <2>1 DEF InitialsNow
  <2> QED BY <1>0, <1>1, <2>1, <2>2 DEF Register, ThreadTypes
<1>2. ASSUME NEW v \in Viewers, Adopt(v) \/ Retire(v) PROVE ThreadTypes'
  BY <1>0, <1>2, <1>a DEF Adopt, Retire, ThreadTypes
<1>3. ASSUME NEW v \in Viewers, MarkChanged(v) PROVE ThreadTypes'
  BY <1>0, <1>3 DEF MarkChanged, ThreadTypes
<1>4. ASSUME NEW v \in Viewers, Drop(v) PROVE ThreadTypes'
  BY <1>0, <1>4 DEF Drop, ThreadTypes
<1>5. ASSUME NEW v \in Viewers, Revoke(v) PROVE ThreadTypes'
  BY <1>0, <1>5 DEF Revoke, ThreadTypes
<1>6. ASSUME NEW v \in Viewers, StartSend(v) PROVE ThreadTypes'
  BY <1>0, <1>6 DEF StartSend, ThreadTypes
<1>7. ASSUME NEW v \in Viewers, Sent(v) PROVE ThreadTypes'
  BY <1>0, <1>7 DEF Sent, ThreadTypes
<1>8. ASSUME NEW v \in Viewers, Refused(v) PROVE ThreadTypes'
  BY <1>0, <1>8 DEF Refused, ThreadTypes
<1>9. CASE Turn
  BY <1>0, <1>9 DEF Turn, ThreadTypes
<1>24. CASE ListSlots
  BY <1>0, <1>24 DEF ListSlots, ThreadTypes
<1>10. CASE Adopted
  BY <1>0, <1>10 DEF Adopted, ThreadTypes, Arbiters
<1>11. CASE Flush
  BY <1>0, <1>11 DEF Flush, ThreadTypes
<1>12. CASE Idle
  BY <1>0, <1>12 DEF Idle, ThreadTypes
<1>13. CASE Woken
  BY <1>0, <1>13 DEF Woken, ThreadTypes
<1>14. CASE Dequeue
  <2>1. outputTurn' \in BOOLEAN
    <3>1. outputTurn' = ("output" \in Surroundings)
      BY <1>14 DEF Dequeue
    <3> QED BY <3>1
  <2>2. /\ pc' \in {"list", "run"} /\ changed' \in BOOLEAN /\ todo' \subseteq Viewers
        /\ UNCHANGED <<slots, order, registered, closed, dropped, revoked, initial,
                       unmarked, sent, wake, writerFull, spilled, inputClosed, tracking>>
    BY <1>0, <1>14 DEF Dequeue, ThreadTypes
  <2> QED BY <1>0, <2>1, <2>2 DEF ThreadTypes
<1>15. CASE WriterDequeues
  BY <1>0, <1>15 DEF WriterDequeues, ThreadTypes
<1>16. CASE OutputArrives
  BY <1>0, <1>16 DEF OutputArrives, ThreadTypes
<1>17. CASE InputCloses
  BY <1>0, <1>17 DEF InputCloses, ThreadTypes
<1>18. CASE Stop
  BY <1>0, <1>18 DEF Stop, ThreadTypes
<1>19. CASE Synced
  BY <1>0, <1>19 DEF Synced, ThreadTypes, WriteEffects, Write
<1>20. CASE Output
  BY <1>0, <1>20 DEF Output, ThreadTypes, Write
<1>21. CASE Settle
  BY <1>0, <1>21 DEF Settle, ThreadTypes, WriteEffects, Write
<1>22. CASE Handler
  <2>1. /\ pc' = "settle" /\ tracking' \in BOOLEAN
        /\ writerFull' \in BOOLEAN /\ spilled' \in BOOLEAN
        /\ UNCHANGED <<slots, order, registered, closed, changed, dropped, revoked,
                       initial, unmarked, sent, todo, wake, outputTurn, inputClosed>>
    BY <1>0, <1>22 DEF Handler, RunRefused, RunFocus, RunGeometry, RunPresentation,
       RunTyping, RunPress, RunRelease, RunReset, Running, Write, ThreadTypes
  <2> QED BY <1>0, <2>1 DEF ThreadTypes
<1>23. CASE UNCHANGED vars
  BY <1>0, <1>23 DEF vars, ThreadTypes
<1> QED BY <1>1, <1>2, <1>3, <1>4, <1>5, <1>6, <1>7, <1>8, <1>9, <1>10, <1>11, <1>12, <1>13, <1>14, <1>15, <1>16, <1>17, <1>18, <1>19, <1>20, <1>21, <1>22, <1>23, <1>24, NextCases
       DEF Quiet, Client, Call

(* Every step keeps the type invariant. *)
LEMMA TypeNext ==
    ASSUME IInv, [Next]_vars
    PROVE  TypeOK'
BY RequestTypesNext, ThreadTypesNext, ArbNext
   DEF TypeOK, RequestTypes, ThreadTypes, ArbStep, ArbInv, ArbOK, FocusOK

-----------------------------------------------------------------------------
(* Calls *)

(* No step unregisters, unrevokes or revives a viewer; what can change for *)
(* each, apart from the calls that do.                                     *)
LEMMA NextKeepsHandles ==
    ASSUME [Next]_vars
    PROVE  \/ UNCHANGED <<order, dropped, revoked, unmarked, slots>>
           \/ \E v \in Viewers : \/ Register(v) \/ MarkChanged(v) \/ Drop(v) \/ Revoke(v)
                                 \/ Adopt(v) \/ Retire(v)
           \/ Settle
<1> USE DEF registryVars, clientVars
<1>1. CASE Handler
  BY <1>1 DEF Handler, RunRefused, RunFocus, RunGeometry, RunPresentation, RunTyping,
     RunPress, RunRelease, RunReset, Running
<1>2. CASE Quiet
  BY <1>2 DEF Quiet, Turn, ListSlots, Adopted, Flush, Idle, Woken, Dequeue, WriterDequeues,
     OutputArrives, InputCloses, Stop, Client, Call, StartSend, Sent, Refused, vars
<1> QED BY <1>1, <1>2, NextCases DEF Synced, Output

(* The request being handled and the owner's place agree. *)
PcInv ==
    /\ pc \in {"turn", "flush", "next", "waiting", "stopped"} => current = None
    /\ pc \in {"run", "settle"} => current # None

(* The owner has a current request exactly while it handles one. *)
LEMMA PcNext ==
    ASSUME IInv, [Next]_vars
    PROVE  PcInv'
<1>0. PcInv /\ queue \in Seq(Requests)
  BY DEF IInv, CallInv, PcInv, TypeOK
<1>1. CASE UNCHANGED <<pc, current>>
  BY <1>0, <1>1 DEF PcInv
<1>2. CASE Dequeue
  <2>1. Head(queue) # None
    BY <1>0, <1>2, HeadTailProperties, RequestFields DEF Dequeue
  <2> QED BY <1>2, <2>1 DEF Dequeue, PcInv
<1>3. CASE Handler
  BY <1>0, <1>3 DEF Handler, RunRefused, RunFocus, RunGeometry, RunPresentation, RunTyping,
     RunPress, RunRelease, RunReset, Running, PcInv
<1>4. CASE Turn \/ ListSlots \/ Adopted \/ Flush \/ Idle \/ Woken \/ Stop
  BY <1>0, <1>4 DEF Turn, ListSlots, Adopted, Flush, Idle, Woken, Stop, PcInv
<1>5. CASE Synced \/ Output \/ Settle
  BY <1>0, <1>5 DEF Synced, Output, Settle, PcInv
<1>6. CASE WriterDequeues \/ OutputArrives \/ InputCloses
  BY <1>1, <1>6 DEF WriterDequeues, OutputArrives, InputCloses
<1>7. ASSUME NEW v \in Viewers, Client(v) \/ Call(v) \/ Adopt(v) \/ Retire(v)
      PROVE  PcInv'
  BY <1>1, <1>7 DEF Client, Call, Register, Drop, Revoke, StartSend, MarkChanged,
     Sent, Refused, Adopt, Retire
<1>8. CASE UNCHANGED vars
  BY <1>1, <1>8 DEF vars
<1> QED BY <1>2, <1>3, <1>4, <1>5, <1>6, <1>7, <1>8, NextCases DEF Quiet

HandleInv(v) ==
    /\ order[v] = 0 => /\ v \notin slots \cup dropped \cup revoked \cup unmarked
                       /\ queued[v] = 0
    /\ sending[v] # None => sending[v].viewer = v /\ v \notin dropped
    /\ v \in unmarked /\ v \notin dropped \cup revoked => queued[v] = 0

(* Every step keeps what is known of a handle's flags and calls. *)
LEMMA HandleNext ==
    ASSUME IInv, [Next]_vars, NEW w \in Viewers
    PROVE  HandleInv(w)'
<1>0. /\ HandleInv(w) /\ queued \in [Viewers -> Nat] /\ order \in [Viewers -> Nat]
      /\ registered \in Nat /\ sending \in [Viewers -> Requests \cup {None}]
      /\ slots \subseteq Viewers /\ queued' \in [Viewers -> Nat]
  BY TypeNext DEF IInv, CallInv, TypeOK, HandleInv
<1>a. CASE UNCHANGED <<order, dropped, revoked, unmarked, slots>>
  <2>1. CASE UNCHANGED <<queued, sending>>
    BY <1>0, <1>a, <2>1 DEF HandleInv
  <2>2. ASSUME NEW v \in Viewers, StartSend(v) PROVE HandleInv(w)'
    <3>1. PICK m \in RequestsNow(v) : sending' = [sending EXCEPT ![v] = m]
      BY <2>2 DEF StartSend
    <3>2. m.viewer = v
      BY <3>1, RequestsNowOK
    <3> QED BY <1>0, <1>a, <2>2, <3>1, <3>2 DEF HandleInv, StartSend, Holds
  <2>3. ASSUME NEW v \in Viewers, Sent(v) \/ Refused(v) PROVE HandleInv(w)'
    BY <1>0, <1>a, <2>3, CountedOnce DEF HandleInv, Sent, Refused
  <2>4. CASE Dequeue
    BY <2>1, <2>4 DEF Dequeue, clientVars
  <2>5. CASE Settle
    <3>1. current.viewer \in Viewers /\ queued[current.viewer] >= 1
      BY <2>5, CountedOnce DEF Settle, IInv, CallInv
    <3>2. /\ queued' = [queued EXCEPT ![current.viewer] = queued[current.viewer] - 1]
          /\ UNCHANGED sending
      BY <2>5 DEF Settle, clientVars
    <3> QED BY <1>0, <1>a, <3>1, <3>2 DEF HandleInv
  <2> QED BY <2>1, <2>2, <2>3, <2>4, <2>5, NextKeepsRequests
<1>1. ASSUME NEW v \in Viewers, Register(v) PROVE HandleInv(w)'
  BY <1>0, <1>1 DEF HandleInv, Register
<1>2. ASSUME NEW v \in Viewers, MarkChanged(v) PROVE HandleInv(w)'
  BY <1>0, <1>2 DEF HandleInv, MarkChanged, registryVars
<1>3. ASSUME NEW v \in Viewers, Drop(v) PROVE HandleInv(w)'
  BY <1>0, <1>3 DEF HandleInv, Drop, Holds
<1>4. ASSUME NEW v \in Viewers, Revoke(v) PROVE HandleInv(w)'
  BY <1>0, <1>4 DEF HandleInv, Revoke
<1>5. ASSUME NEW v \in Viewers, Adopt(v) \/ Retire(v) PROVE HandleInv(w)'
  BY <1>0, <1>5 DEF HandleInv, Adopt, Retire, clientVars
<1>6. CASE Settle
  <2>1. current.viewer \in Viewers /\ queued[current.viewer] >= 1
    BY <1>6, CountedOnce DEF Settle, IInv, CallInv
  <2>2. /\ queued' = [queued EXCEPT ![current.viewer] = queued[current.viewer] - 1]
        /\ UNCHANGED <<order, dropped, revoked, sending, unmarked>>
        /\ slots' \subseteq slots
    BY <1>6 DEF Settle, clientVars
  <2> QED BY <1>0, <2>1, <2>2 DEF HandleInv
<1> QED BY <1>a, <1>1, <1>2, <1>3, <1>4, <1>5, <1>6, NextKeepsHandles

(* Every step keeps what is known of where requests and flags come from. *)
LEMMA CallNext ==
    ASSUME IInv, [Next]_vars
    PROVE  CallInv'
<1>1. \A v \in Viewers : HandleInv(v)'
  BY HandleNext
<1> QED BY <1>1, PcNext DEF CallInv, PcInv, HandleInv

-----------------------------------------------------------------------------
(* Slots and entries *)

SlotKept(v) == order[v] # 0 /\ ~Finished(v) => v \in slots

(* Every step keeps the slot of a viewer that has something left to run. *)
LEMMA SlotKeptNext ==
    ASSUME IInv, [Next]_vars, NEW w \in Viewers
    PROVE  SlotKept(w)'
<1>0. /\ SlotKept(w) /\ queued \in [Viewers -> Nat] /\ order \in [Viewers -> Nat]
      /\ slots \subseteq Viewers /\ HandleInv(w)
  BY DEF IInv, SlotInv, SlotKept, TypeOK, CallInv, HandleInv
<1>a. CASE UNCHANGED <<order, dropped, revoked, unmarked, slots>>
  <2>1. CASE UNCHANGED queued
    BY <1>0, <1>a, <2>1 DEF SlotKept, Finished
  <2>2. ASSUME NEW v \in Viewers, StartSend(v) PROVE SlotKept(w)'
    BY <1>0, <1>a, <2>2 DEF SlotKept, Finished, StartSend, Holds
  <2>3. ASSUME NEW v \in Viewers, Sent(v) \/ Refused(v) PROVE SlotKept(w)'
    BY <1>0, <1>a, <2>3, CountedOnce DEF SlotKept, Finished, Sent, Refused
  <2>4. CASE Dequeue
    BY <2>1, <2>4 DEF Dequeue
  <2>5. CASE Settle
    <3>1. current.viewer \in Viewers /\ queued[current.viewer] >= 1
      BY <2>5, CountedOnce DEF Settle, IInv, CallInv
    <3>2. queued' = [queued EXCEPT ![current.viewer] = queued[current.viewer] - 1]
      BY <2>5 DEF Settle
    <3> QED BY <1>0, <1>a, <3>1, <3>2 DEF SlotKept, Finished
  <2> QED BY <2>1, <2>2, <2>3, <2>4, <2>5, NextKeepsRequests
<1>1. ASSUME NEW v \in Viewers, Register(v) PROVE SlotKept(w)'
  BY <1>0, <1>1 DEF SlotKept, Finished, Register
<1>2. ASSUME NEW v \in Viewers, MarkChanged(v) PROVE SlotKept(w)'
  BY <1>0, <1>2 DEF SlotKept, Finished, MarkChanged, registryVars
<1>3. ASSUME NEW v \in Viewers, Drop(v) PROVE SlotKept(w)'
  BY <1>0, <1>3 DEF SlotKept, Finished, Drop
<1>4. ASSUME NEW v \in Viewers, Revoke(v) PROVE SlotKept(w)'
  BY <1>0, <1>4 DEF SlotKept, Finished, Revoke
<1>5. ASSUME NEW v \in Viewers, Adopt(v) PROVE SlotKept(w)'
  BY <1>0, <1>5 DEF SlotKept, Finished, Adopt
<1>6. ASSUME NEW v \in Viewers, Retire(v) PROVE SlotKept(w)'
  BY <1>0, <1>6 DEF SlotKept, Finished, Retire
<1>7. CASE Settle
  <2> DEFINE v == current.viewer
             last == v \in arb.entries /\ v \in dropped /\ queued[v] - 1 = 0
  <2>1. v \in Viewers /\ queued[v] >= 1
    BY <1>7, CountedOnce DEF Settle, IInv, CallInv
  <2>2. /\ queued' = [queued EXCEPT ![v] = queued[v] - 1]
        /\ slots' = IF last THEN slots \ {v} ELSE slots
        /\ UNCHANGED <<order, dropped, revoked>>
    BY <1>7 DEF Settle
  <2> QED BY <1>0, <2>1, <2>2 DEF SlotKept, Finished
<1> QED BY <1>a, <1>1, <1>2, <1>3, <1>4, <1>5, <1>6, <1>7, NextKeepsHandles

EntryPromised(v) ==
    v \in slots \ revoked =>
        \/ v \in arb.entries
        \/ changed
        \/ v \in unmarked /\ v \notin dropped
        \/ pc = "list"
        \/ pc = "adopt" /\ v \in todo

(* Every step keeps the promise of an entry for each live slot. *)
LEMMA EntryPromisedNext ==
    ASSUME IInv, [Next]_vars, NEW w \in Viewers
    PROVE  EntryPromised(w)'
<1>0. EntryPromised(w) /\ HandleInv(w)
  BY DEF IInv, SlotInv, EntryPromised, CallInv, HandleInv
<1> USE DEF EntryPromised, registryVars, clientVars
<1>1. ASSUME NEW v \in Viewers,
             \/ Register(v) \/ Drop(v) \/ Revoke(v) \/ StartSend(v)
             \/ MarkChanged(v) \/ Sent(v) \/ Refused(v)
      PROVE  EntryPromised(w)'
  BY <1>0, <1>1 DEF Register, Drop, Revoke, StartSend, MarkChanged, Sent, Refused,
     Holds, HandleInv
<1>2. CASE Turn \/ ListSlots \/ Adopted \/ Flush \/ Idle \/ Woken \/ Dequeue
  BY <1>0, <1>2 DEF Turn, ListSlots, Adopted, Flush, Idle, Woken, Dequeue
<1>3. CASE WriterDequeues \/ OutputArrives \/ InputCloses \/ Stop \/ UNCHANGED vars
  BY <1>0, <1>3 DEF WriterDequeues, OutputArrives, InputCloses, Stop, vars
<1>4. ASSUME NEW v \in Viewers, Adopt(v) PROVE EntryPromised(w)'
  BY <1>0, <1>4, AdoptArb DEF Adopt
<1>5. ASSUME NEW v \in Viewers, Retire(v) PROVE EntryPromised(w)'
  BY <1>0, <1>5, RetireArb DEF Retire
<1>6. CASE Synced
  BY <1>0, <1>6, SyncedArb DEF Synced, EntriesKept
<1>7. CASE Output
  BY <1>0, <1>7, OutputArb DEF Output, EntriesKept
<1>8. CASE Handler
  <2>1. /\ pc = "run" /\ arb.entries' = arb.entries
        /\ UNCHANGED <<slots, revoked, changed, unmarked, dropped, todo>>
    BY <1>8, HandlerArbOK DEF Handler, RunRefused, RunFocus, RunGeometry, RunPresentation,
       RunTyping, RunPress, RunRelease, RunReset, Running, EntriesKept
  <2> QED BY <1>0, <2>1
<1>9. CASE Settle
  <2> DEFINE v == current.viewer
             last == v \in arb.entries /\ v \in dropped /\ queued[v] - 1 = 0
  <2>1. /\ pc = "settle"
        /\ slots' = IF last THEN slots \ {v} ELSE slots
        /\ UNCHANGED <<revoked, changed, unmarked, dropped, todo>>
    BY <1>9 DEF Settle
  <2>2. arb.entries' = IF last THEN arb.entries \ {v} ELSE arb.entries
    BY <1>9, SettleArb
  <2> QED BY <1>0, <2>1, <2>2
<1> QED BY <1>1, <1>2, <1>3, <1>4, <1>5, <1>6, <1>7, <1>8, <1>9, NextCases
       DEF Quiet, Client, Call

(* Every step keeps the slot invariant. *)
LEMMA SlotNext ==
    ASSUME IInv, [Next]_vars
    PROVE  SlotInv'
<1>1. \A v \in Viewers : SlotKept(v)' /\ EntryPromised(v)'
  BY SlotKeptNext, EntryPromisedNext
<1> QED BY <1>1 DEF SlotInv, SlotKept, EntryPromised

(* A viewer whose request is counted and which keeps its authority is      *)
(* registered.                                                             *)
LEMMA CountedSlot ==
    ASSUME IInv, NEW v \in Viewers, queued[v] >= 1, v \notin revoked
    PROVE  v \in slots
<1>1. order[v] # 0
  BY DEF IInv, CallInv, TypeOK
<1>2. ~Finished(v)
  BY DEF Finished
<1> QED BY <1>1, <1>2 DEF IInv, SlotInv

(* The request taken finds its viewer's entry, and no step before it runs  *)
(* removes it.                                                             *)
LEMMA EntryNext ==
    ASSUME IInv, [Next]_vars
    PROVE  EntryInv'
<1>0. /\ EntryInv
      /\ current # None => current.viewer \in Viewers /\ queued[current.viewer] >= 1
      /\ queue \in Seq(Requests)
  BY CountedOnce DEF IInv, TypeOK
<1> USE DEF EntryInv, registryVars, clientVars
<1>1. ASSUME NEW v \in Viewers, Client(v) \/ Call(v) PROVE EntryInv'
  BY <1>0, <1>1 DEF Client, Call, Register, Drop, Revoke, StartSend, MarkChanged, Sent,
     Refused
<1>2. CASE Turn \/ Adopted \/ Flush \/ Idle \/ Woken
  BY <1>0, <1>2 DEF Turn, Adopted, Flush, Idle, Woken, IInv, CallInv
<1>11. CASE ListSlots
  <2>1. current # None /\ current.viewer \notin revoked => current.viewer \in slots
    BY <1>0, CountedSlot
  <2> QED BY <1>11, <2>1 DEF ListSlots
<1>3. CASE WriterDequeues \/ OutputArrives \/ InputCloses \/ Stop \/ UNCHANGED vars
  BY <1>0, <1>3 DEF WriterDequeues, OutputArrives, InputCloses, Stop, vars
<1>4. CASE Dequeue
  <2> DEFINE v == Head(queue).viewer
  <2>1. /\ queue # <<>> /\ pc = "next" /\ current' = Head(queue)
        /\ UNCHANGED <<slots, revoked, dropped, arb>>
    BY <1>4 DEF Dequeue
  <2>2. v \in Viewers /\ queued[v] >= 1
    <3>1. 1 \in 1..Len(queue) /\ Head(queue) = queue[1]
      BY <1>0, <2>1, EmptySeq, LenProperties
    <3> QED BY <3>1, CountedOnce
  <2>3. v \in revoked \/ v \in slots
    BY <2>2, CountedSlot
  <2>4. CASE changed
    BY <1>4, <2>4 DEF Dequeue
  <2>5. CASE ~changed
    <3>1. ~(v \in unmarked /\ v \notin dropped /\ v \notin revoked)
      BY <2>2 DEF IInv, CallInv
    <3>2. v \in revoked \/ v \in arb.entries
      BY <2>1, <2>2, <2>3, <2>5, <3>1 DEF IInv, SlotInv
    <3> QED BY <2>1, <3>2
  <2> QED BY <2>4, <2>5
<1>5. ASSUME NEW v \in Viewers, Adopt(v) PROVE EntryInv'
  <2>1. current # None /\ current.viewer \notin revoked => ~Finished(current.viewer)
    BY <1>0 DEF Finished
  <2>2. arb.entries' = IF v \in arb.entries \/ Finished(v) THEN arb.entries
                       ELSE arb.entries \cup {v}
    BY <1>5, AdoptArb
  <2> QED BY <1>0, <1>5, <2>1, <2>2 DEF Adopt
<1>6. ASSUME NEW v \in Viewers, Retire(v) PROVE EntryInv'
  <2>1. current # None /\ current.viewer \notin revoked => ~Finished(current.viewer)
    BY <1>0 DEF Finished
  <2>2. arb.entries' = IF Finished(v) THEN arb.entries \ {v} ELSE arb.entries
    BY <1>6, RetireArb
  <2> QED BY <1>0, <1>6, <2>1, <2>2 DEF Retire
<1>7. CASE Synced
  BY <1>0, <1>7, SyncedArb DEF Synced, EntriesKept
<1>8. CASE Output
  BY <1>0, <1>8, OutputArb DEF Output, EntriesKept
<1>9. CASE Handler
  <2>1. /\ pc = "run" /\ arb.entries' = arb.entries /\ UNCHANGED <<current, revoked, todo>>
    BY <1>9, HandlerArbOK DEF Handler, RunRefused, RunFocus, RunGeometry, RunPresentation,
       RunTyping, RunPress, RunRelease, RunReset, Running, EntriesKept
  <2> QED BY <1>0, <2>1
<1>10. CASE Settle
  BY <1>10 DEF Settle
<1> QED BY <1>1, <1>2, <1>3, <1>4, <1>5, <1>6, <1>7, <1>8, <1>9, <1>10, <1>11, NextCases
       DEF Quiet

-----------------------------------------------------------------------------
(* The theorems *)

(* The initial state satisfies the inductive invariant. *)
LEMMA IInvInit ==
    ASSUME Init
    PROVE  IInv
<1> USE DEF Init
<1>1. NewArbiter \in Arbiters
  BY DEF NewArbiter, Arbiters, AllSizes, AllLooks, NoEffects, Effects, FocusReports
<1>2. FocusOK(NewArbiter)
  <2>1. Cardinality({} \cap InputViewers) = 0
    <3>1. {} \cap InputViewers = {}
      OBVIOUS
    <3> QED BY <3>1, FS_EmptySet
  <2> QED BY <1>1, <2>1, FS_EmptySet DEF FocusOK, NewArbiter
<1>3. ArbOK(NewArbiter) /\ Told(NewArbiter, FALSE)
  BY <1>2 DEF ArbOK, MouseOK, Told, Any, NewArbiter, NoEffects
<1>4. ArbInv
  BY <1>3 DEF ArbInv, Owed
<1>5. ButtonInv
  BY DEF ButtonInv
<1>6. CountInv
  BY CountEmpty DEF CountInv, SendingOf, CurrentOf
<1>7. TypeOK
  <2>1. NoInitial \in Initials /\ <<>> \in Seq(Requests)
    BY EmptySeq DEF NoInitial, Initials
  <2>2. app \in Apps
    BY DEF Apps, AllSizes, AllLooks
  <2> QED BY <1>1, <2>1, <2>2 DEF TypeOK, OwnerStates
<1>8. CallInv /\ SlotInv /\ EntryInv
  BY DEF CallInv, SlotInv, EntryInv
<1> QED BY <1>4, <1>5, <1>6, <1>7, <1>8 DEF IInv

(* Every step preserves the inductive invariant. *)
LEMMA IInvNext ==
    ASSUME IInv, [Next]_vars
    PROVE  IInv'
BY TypeNext, ArbNext, CountNext, CallNext, SlotNext, EntryNext DEF IInv, ArbStep

(* The inductive invariant holds throughout. *)
THEOREM Invariant == Spec => []IInv
<1>1. Init => IInv
  BY IInvInit
<1>2. IInv /\ [Next]_vars => IInv'
  BY IInvNext
<1> QED BY <1>1, <1>2, PTL DEF Spec

(* Every variable keeps its type: no counter of focused viewers or queued  *)
(* requests is ever taken below zero.                                      *)
THEOREM TypeCorrect == Spec => []TypeOK
<1>1. IInv => TypeOK
  BY DEF IInv
<1> QED BY <1>1, Invariant, PTL

(* The owner of a gesture always has an entry, so its buttons are released *)
(* when it is finalized.                                                   *)
THEOREM GestureOwned == Spec => []GestureOwnerLive
<1>1. IInv => GestureOwnerLive
  BY DEF IInv, ArbInv, ArbOK, MouseOK, GestureOwnerLive
<1> QED BY <1>1, Invariant, PTL

(* The application never holds a button that no gesture holds and no       *)
(* pending release names.                                                  *)
THEOREM ButtonsReleased == Spec => []NoStuckButton
<1>1. IInv => NoStuckButton
  BY DEF IInv, ButtonInv, NoStuckButton
<1> QED BY <1>1, Invariant, PTL

(* The focus the application was told, with the report it is still owed,   *)
(* is that of the input viewers as a whole, and nothing is reported twice. *)
THEOREM FocusReported == Spec => []FocusFaithful
<1>1. IInv => FocusFaithful
  <2> SUFFICES ASSUME IInv PROVE FocusFaithful
    OBVIOUS
  <2>1. ~app.repeated /\ app.focused \in BOOLEAN
    BY ArbFacts DEF Apps
  <2>2. CASE inputClosed
    BY <2>1, <2>2 DEF FocusFaithful
  <2>3. CASE ~inputClosed
    <3>1. Told(arb, app.focused)
      BY <2>3, ArbFacts DEF Owed
    <3> QED BY <2>1, <3>1 DEF FocusFaithful, Told, Any
  <2> QED BY <2>2, <2>3
<1> QED BY <1>1, Invariant, PTL

(* A request of a viewer that keeps its authority runs against that        *)
(* viewer's slot and entry.                                                *)
THEOREM RequestsFindSlot == Spec => []RequestsKeepSlot
<1>1. IInv => RequestsKeepSlot
  <2> SUFFICES ASSUME IInv PROVE RequestsKeepSlot
    OBVIOUS
  <2>1. \A i \in 1..Len(queue) : queue[i].viewer \notin revoked => queue[i].viewer \in slots
    BY CountedOnce, CountedSlot
  <2>2. current # None /\ current.viewer \notin revoked => current.viewer \in slots
    BY CountedOnce, CountedSlot
  <2>3. pc = "run" /\ Permitted(current) => Known
    BY DEF IInv, CallInv, EntryInv, Permitted, Known
  <2> QED BY <2>1, <2>2, <2>3 DEF RequestsKeepSlot
<1> QED BY <1>1, Invariant, PTL

(* A gesture that holds buttons ends only by its owner. *)
THEOREM GestureExclusive == Spec => GestureEndsByOwner
<1>1. IInv /\ [Next]_vars => GestureStep
  BY ArbNext DEF ArbStep
<1>2. Spec => [][GestureStep]_vars
  BY <1>1, Invariant, PTL DEF Spec
<1> QED BY <1>2, PTL DEF GestureEndsByOwner, GestureStep

-----------------------------------------------------------------------------
(* Slots and the screen *)

(* No entry outlives its slot, and a slot with no entry, or with nothing   *)
(* left to run, is still to be visited: a change is marked or about to be, *)
(* or the running sync has it ahead.                                       *)
LeakInv ==
    /\ arb.entries \subseteq slots
    /\ pc = "adopt" => todo \subseteq slots
    /\ \A v \in slots :
          /\ \/ v \in arb.entries \/ changed \/ v \in unmarked \/ pc = "list"
             \/ pc = "adopt" /\ v \in todo
          /\ Finished(v) =>
                \/ changed \/ v \in unmarked \/ pc \in {"list", "adopt"}
                \/ pc = "retire" /\ v \in todo

(* Registrations are numbered apart. *)
OrderInv ==
    \A v, w \in Viewers : /\ order[v] <= registered
                          /\ order[v] = order[w] /\ order[v] # 0 => v = w

(* Only a handler leaves a size or a presentation to be applied. *)
ShownInv ==
    /\ Presented(arb, app.size, app.look)
    /\ pc # "settle" => arb.fx.resize = None /\ arb.fx.look = None

(* The controller decides unless a sync is due or under way. *)
ControlInv ==
    \/ changed \/ unmarked # {} \/ pc \in {"list", "adopt", "retire"}
    \/ Decided(arb, order, Barred)

ScreenInv == LeakInv /\ OrderInv /\ ShownInv /\ ControlInv

(* Registrations are numbered in the order they are made. *)
LEMMA OrderNext ==
    ASSUME IInv, OrderInv, [Next]_vars
    PROVE  OrderInv'
<1>0. order \in [Viewers -> Nat] /\ registered \in Nat
  BY DEF IInv, TypeOK
<1>1. ASSUME NEW v \in Viewers, Register(v) PROVE OrderInv'
  <2>1. /\ registered' = registered + 1
        /\ order' = [order EXCEPT ![v] = registered + 1]
    BY <1>1 DEF Register
  <2> QED BY <1>0, <2>1 DEF OrderInv
<1>2. CASE UNCHANGED <<order, registered>>
  BY <1>2 DEF OrderInv
<1>3. CASE Handler
  BY <1>2, <1>3 DEF Handler, RunRefused, RunFocus, RunGeometry, RunPresentation, RunTyping,
     RunPress, RunRelease, RunReset, Running, registryVars
<1>4. CASE Quiet
  BY <1>1, <1>2, <1>4 DEF Quiet, Turn, ListSlots, Adopted, Flush, Idle, Woken, Dequeue,
     WriterDequeues, OutputArrives, InputCloses, Stop, Client, Call, Drop, Revoke,
     MarkChanged, StartSend, Sent, Refused, registryVars, vars
<1>5. CASE Synced \/ Output \/ Settle \/ \E v \in Viewers : Adopt(v) \/ Retire(v)
  BY <1>2, <1>5 DEF Synced, Output, Settle, Adopt, Retire, registryVars
<1> QED BY <1>3, <1>4, <1>5, NextCases

(* A slot is freed with its entry, and before that the sync reaches it. *)
LEMMA LeakNext ==
    ASSUME IInv, LeakInv, [Next]_vars
    PROVE  LeakInv'
<1>0. /\ queued \in [Viewers -> Nat] /\ slots \subseteq Viewers
      /\ \A v \in Viewers : HandleInv(v)
  BY DEF IInv, TypeOK, CallInv, HandleInv
<1> USE DEF LeakInv, registryVars, clientVars
<1>1. ASSUME NEW v \in Viewers, Register(v) \/ MarkChanged(v) \/ Drop(v) \/ Revoke(v)
      PROVE  LeakInv'
  BY <1>0, <1>1 DEF Register, MarkChanged, Drop, Revoke, Finished, HandleInv
<1>2. ASSUME NEW v \in Viewers, StartSend(v) \/ Sent(v) PROVE LeakInv'
  BY <1>0, <1>2 DEF StartSend, Sent, Finished, Holds
<1>3. ASSUME NEW v \in Viewers, Refused(v) PROVE LeakInv'
  <2>1. v \notin dropped
    BY <1>0, <1>3 DEF Refused, HandleInv
  <2> QED BY <1>0, <1>3, <2>1 DEF Refused, Finished
<1>4. CASE Turn \/ ListSlots \/ Flush \/ Idle \/ Woken \/ Dequeue
  BY <1>4 DEF Turn, ListSlots, Flush, Idle, Woken, Dequeue, Finished
<1>5. CASE Adopted
  BY <1>5 DEF Adopted, Finished
<1>6. CASE WriterDequeues \/ OutputArrives \/ InputCloses \/ Stop \/ UNCHANGED vars
  BY <1>6 DEF WriterDequeues, OutputArrives, InputCloses, Stop, Finished, vars
<1>7. ASSUME NEW v \in Viewers, Adopt(v) PROVE LeakInv'
  <2>1. arb.entries' = IF v \in arb.entries \/ Finished(v) THEN arb.entries
                       ELSE arb.entries \cup {v}
    BY <1>7, AdoptArb
  <2>2. /\ pc = "adopt" /\ pc' = "adopt" /\ v \in todo /\ todo' = todo \ {v}
        /\ slots' = IF v \notin arb.entries /\ Finished(v) THEN slots \ {v} ELSE slots
        /\ UNCHANGED <<changed, unmarked, revoked, dropped, queued>>
    BY <1>7 DEF Adopt, First
  <2> QED BY <2>1, <2>2 DEF Finished
<1>8. ASSUME NEW v \in Viewers, Retire(v) PROVE LeakInv'
  <2>1. /\ v \in arb.entries
        /\ arb.entries' = IF Finished(v) THEN arb.entries \ {v} ELSE arb.entries
    BY <1>8, RetireArb
  <2>2. /\ pc = "retire" /\ pc' = "retire" /\ todo' = todo \ {v}
        /\ slots' = IF Finished(v) THEN slots \ {v} ELSE slots
        /\ UNCHANGED <<changed, unmarked, revoked, dropped, queued>>
    BY <1>8 DEF Retire
  <2> QED BY <2>1, <2>2 DEF Finished
<1>9. CASE Synced
  BY <1>9, SyncedArb DEF Synced, EntriesKept, Finished
<1>10. CASE Output
  BY <1>10, OutputArb DEF Output, EntriesKept, Finished
<1>11. CASE Handler
  <2>1. /\ pc = "run" /\ pc' = "settle" /\ arb.entries' = arb.entries
        /\ UNCHANGED <<slots, revoked, dropped, queued, changed, unmarked, todo>>
    BY <1>11, HandlerArbOK DEF Handler, RunRefused, RunFocus, RunGeometry, RunPresentation,
       RunTyping, RunPress, RunRelease, RunReset, Running, EntriesKept
  <2> QED BY <2>1 DEF Finished
<1>12. CASE Settle
  <2> DEFINE v == current.viewer
             left == queued[v] - 1
             last == v \in arb.entries /\ v \in dropped /\ left = 0
  <2>1. /\ pc = "settle" /\ pc' = "turn" /\ queued' = [queued EXCEPT ![v] = left]
        /\ slots' = IF last THEN slots \ {v} ELSE slots
        /\ UNCHANGED <<changed, unmarked, revoked, dropped>>
    BY <1>12 DEF Settle
  <2>2. arb.entries' = IF last THEN arb.entries \ {v} ELSE arb.entries
    BY <1>12, SettleArb
  <2>3. v \in Viewers
    BY <1>12, CountedOnce DEF Settle, IInv, CallInv
  <2> HIDE DEF v
  <2>4. \A w \in slots' : Finished(w)' => Finished(w) \/ (w = v /\ ~last /\ w \in dropped /\ left = 0)
    BY <1>0, <2>1, <2>3 DEF Finished
  <2>5. \A w \in slots' : w \in slots /\ (last => w # v)
    BY <2>1
  <2> HIDE DEF left, last
  <2>6. ASSUME NEW w \in slots'
        PROVE  /\ w \in arb.entries' \/ changed' \/ w \in unmarked'
               /\ Finished(w)' => changed' \/ w \in unmarked'
    <3>1. w \in arb.entries' \/ changed' \/ w \in unmarked'
      BY <2>1, <2>2, <2>5
    <3>2. ASSUME Finished(w)' PROVE changed' \/ w \in unmarked'
      BY <2>1, <2>4, <2>5, <3>2 DEF last
    <3> QED BY <3>1, <3>2
  <2>7. arb.entries' \subseteq slots'
    BY <2>1, <2>2
  <2> QED BY <2>1, <2>6, <2>7
<1> QED BY <1>1, <1>2, <1>3, <1>4, <1>5, <1>6, <1>7, <1>8, <1>9, <1>10, <1>11, <1>12,
           NextCases DEF Quiet, Client, Call

(* What a step does to the choice of a controller and to the screen. *)
Steady ==
    /\ Presented(arb, app.size, app.look)'
    /\ Decided(arb, order, Barred) => Decided(arb', order, Barred)

Decisive ==
    Presented(arb, app.size, app.look)' /\ Decided(arb', order, Barred)

Clean(a) == a.fx.resize = None /\ a.fx.look = None

(* A step that keeps claims and screen, and the application's. *)
LEMMA SteadyStep ==
    ASSUME ShownInv, SameClaims(arb, arb'), SameScreen(arb, arb'),
           app'.size = app.size, app'.look = app.look
    PROVE  Steady /\ (Clean(arb) => Clean(arb'))
<1>1. Presented(arb, app.size, app.look)'
  BY DEF ShownInv, Presented, SameScreen
<1>2. Decided(arb, order, Barred) => Decided(arb', order, Barred)
  BY DecidedStays DEF SameScreen
<1> QED BY <1>1, <1>2 DEF Steady, Clean, SameScreen

(* Applying the effects brings the screen to what was chosen. *)
LEMMA ApplyPresents ==
    ASSUME NEW a \in Arbiters, Presented(a, app.size, app.look), Apply(a)
    PROVE  /\ Presented(arb, app.size, app.look)' /\ Clean(arb')
           /\ SameClaims(a, arb') /\ arb'.canonical = a.canonical /\ arb'.shown = a.shown
<1>1. arb' = Cleared(a)
  BY DEF Apply
<1>2. /\ SameClaims(a, arb') /\ arb'.fx = NoEffects
      /\ arb'.canonical = a.canonical /\ arb'.shown = a.shown
  BY <1>1 DEF Cleared, Arbiters, SameClaims
<1>3. /\ app'.size = IF a.fx.resize = None THEN app.size ELSE a.fx.resize
      /\ app'.look = IF a.fx.look = None THEN app.look ELSE a.fx.look
  BY DEF Apply
<1>4. Clean(arb')
  BY <1>2 DEF Clean, NoEffects
<1>5. app'.size = arb'.canonical /\ app'.look = arb'.shown
  BY <1>2, <1>3 DEF Presented
<1> QED BY <1>2, <1>4, <1>5 DEF Presented, Clean

(* A choice left to be applied. *)
LEMMA ChoicePresents ==
    ASSUME IInv, ShownInv, NEW f \in Arbiters, SameScreen(arb, f),
           arb' = Recompute(f, order, Barred), UNCHANGED app
    PROVE  Decisive
<1>1. order \in [Viewers -> Nat] /\ Presented(f, app.size, app.look)
  BY DEF IInv, TypeOK, ShownInv, Presented, SameScreen
<1>2. /\ Presented(arb', app.size, app.look) /\ Decided(arb', order, Barred)
  BY <1>1, RecomputeDecides
<1> QED BY <1>2 DEF Decisive

(* A choice applied at once. *)
LEMMA ChoiceApplied ==
    ASSUME IInv, ShownInv, NEW f, f \in Arbiters, SameScreen(arb, f),
           Apply(Recompute(f, order, Barred))
    PROVE  Decisive /\ Clean(arb')
<1> DEFINE r == Recompute(f, order, Barred)
<1>1. order \in [Viewers -> Nat] /\ Presented(f, app.size, app.look)
  BY DEF IInv, TypeOK, ShownInv, Presented, SameScreen
<1>2. Presented(r, app.size, app.look) /\ Decided(r, order, Barred)
  BY <1>1, RecomputeDecides
<1>3. r \in Arbiters
  BY RecomputeFrame
<1>4. Apply(r)
  OBVIOUS
<1> HIDE DEF r
<1>5. /\ Presented(arb, app.size, app.look)' /\ Clean(arb')
      /\ SameClaims(r, arb') /\ arb'.canonical = r.canonical /\ arb'.shown = r.shown
  BY <1>2, <1>3, <1>4, ApplyPresents
<1>6. Decided(arb', order, Barred)
  BY <1>2, <1>5, DecidedStays
<1> QED BY <1>5, <1>6 DEF Decisive

(* Every handler keeps what the screen is owed: those that move control    *)
(* choose again.                                                           *)
LEMMA HandlerScreen ==
    ASSUME IInv, ShownInv, Handler
    PROVE  Steady
<1>0. arb \in Arbiters /\ app \in Apps
  BY ArbFacts
<1>a. Decisive => Steady
  BY DEF Decisive, Steady
<1>1. CASE RunRefused
  <2>1. arb' = arb /\ app' = app
    BY <1>1 DEF RunRefused, appVars
  <2> QED BY <2>1 DEF Steady, ShownInv
<1>2. CASE RunFocus
  <2> DEFINE f == SetFocus(arb, current.viewer, current.on)
  <2>1. /\ arb' = Recompute(f, order, Barred) /\ UNCHANGED app
        /\ current.viewer \in arb.entries /\ current.on \in BOOLEAN
    BY <1>2, RunFacts, RequestFields DEF RunFocus, Known
  <2>2. PICK known \in BOOLEAN : Told(arb, known)
    BY ArbFacts DEF Owed
  <2>3. f \in Arbiters
    BY <2>1, <2>2, ArbFacts, SetFocusOK DEF ArbOK, FocusOK
  <2>4. SameScreen(arb, f)
    BY <1>0, <2>1, ReportsKeepScreen
  <2> HIDE DEF f
  <2> QED BY <1>a, <2>1, <2>3, <2>4, ChoicePresents
<1>3. CASE RunGeometry
  <2> DEFINE f == Report(arb, current.viewer, current.size)
  <2>1. /\ arb' = Recompute(f, order, Barred) /\ UNCHANGED app
        /\ current.viewer \in Viewers /\ current.size \in Sizes
    BY <1>3, RunFacts, RequestFields DEF RunGeometry
  <2>2. f \in Arbiters /\ SameScreen(arb, f)
    BY <1>0, <2>1, ArbFacts, ReportOK, ReportsKeepScreen DEF ArbOK, FocusOK
  <2> HIDE DEF f
  <2> QED BY <1>a, <2>1, <2>2, ChoicePresents
<1>4. CASE RunPresentation
  <2> DEFINE f == Present(arb, current.viewer, current.look)
  <2>1. /\ arb' = Recompute(f, order, Barred) /\ UNCHANGED app
        /\ current.viewer \in Viewers /\ current.look \in Looks
    BY <1>4, RunFacts, RequestFields DEF RunPresentation
  <2>2. f \in Arbiters /\ SameScreen(arb, f)
    BY <1>0, <2>1, ArbFacts, PresentOK, ReportsKeepScreen DEF ArbOK, FocusOK
  <2> HIDE DEF f
  <2> QED BY <1>a, <2>1, <2>2, ChoicePresents
<1>5. CASE RunTyping
  <2> DEFINE f == Touch(arb, current.viewer)
  <2>1. Apply(Recompute(f, order, Barred)) /\ current.viewer \in Viewers
    BY <1>5, RunFacts DEF RunTyping
  <2>2. f \in Arbiters /\ SameScreen(arb, f)
    BY <1>0, <2>1, TouchFrame, ReportsKeepScreen
  <2> HIDE DEF f
  <2> QED BY <1>a, <2>1, <2>2, ChoiceApplied
<1>6. CASE RunPress \/ RunReset
  <2> DEFINE t == TrackingDisabled(arb)
             p == Press(arb, current.viewer, current.button)
  <2>1. /\ arb' \in {arb, t, p}
        /\ app'.size = app.size /\ app'.look = app.look
    BY <1>0, <1>6 DEF RunPress, RunReset, Apps
  <2>2. /\ SameClaims(arb, t) /\ SameScreen(arb, t)
        /\ SameClaims(arb, p) /\ SameScreen(arb, p)
    BY <1>0, MouseKeepsClaims
  <2>3. SameClaims(arb, arb) /\ SameScreen(arb, arb)
    BY DEF SameClaims, SameScreen
  <2> HIDE DEF t, p
  <2> QED BY <2>1, <2>2, <2>3, SteadyStep
<1>7. CASE RunRelease
  <2> DEFINE a == IF tracking THEN arb ELSE TrackingDisabled(arb)
             r == Release(a, current.viewer, current.button)
  <2>1. /\ arb' \in {arb, a, r}
        /\ app'.size = app.size /\ app'.look = app.look
    BY <1>0, <1>7 DEF RunRelease, Apps
  <2>2. a \in Arbiters /\ SameClaims(arb, a) /\ SameScreen(arb, a)
    <3> DEFINE t == TrackingDisabled(arb)
    <3>1. t \in Arbiters /\ SameClaims(arb, t) /\ SameScreen(arb, t)
      BY <1>0, ArbFacts, TrackingDisabledOK, MouseKeepsClaims DEF ArbOK, FocusOK
    <3> HIDE DEF t
    <3>2. a \in {arb, t}
      BY DEF t
    <3> QED BY <1>0, <3>1, <3>2 DEF SameClaims, SameScreen
  <2> HIDE DEF a
  <2>3. SameClaims(a, r) /\ SameScreen(a, r)
    BY <2>2, MouseKeepsClaims
  <2> HIDE DEF r
  <2>4. SameClaims(arb, arb') /\ SameScreen(arb, arb')
    BY <2>1, <2>2, <2>3 DEF SameClaims, SameScreen
  <2> QED BY <2>1, <2>4, SteadyStep
<1> QED BY <1>1, <1>2, <1>3, <1>4, <1>5, <1>6, <1>7 DEF Handler

(* Settling applies what the handler left, with the choice that follows    *)
(* the last request of a dropped viewer.                                   *)
LEMMA SettleScreen ==
    ASSUME IInv, ShownInv, Settle
    PROVE  Steady /\ Clean(arb')
<1> DEFINE v == current.viewer
           last == v \in arb.entries /\ v \in dropped /\ queued[v] - 1 = 0
           f == Finalize(arb, v)
<1>1. CASE last
  <2>1. PICK known \in BOOLEAN : Told(arb, known)
    BY ArbFacts DEF Owed
  <2>2. v \in arb.entries
    BY <1>1
  <2>3. ArbOK(f) /\ SameScreen(arb, f)
    BY <2>1, <2>2, ArbFacts, FinalizeOK, FinalizeKeepsScreen
  <2>4. Apply(Recompute(f, order, Barred))
    BY <1>1 DEF Settle
  <2> HIDE DEF f
  <2>5. Decisive /\ Clean(arb')
    BY <2>3, <2>4, ChoiceApplied DEF ArbOK, FocusOK
  <2> QED BY <2>5 DEF Decisive, Steady
<1>2. CASE ~last
  <2>1. Apply(arb)
    BY <1>2 DEF Settle
  <2>2. /\ Presented(arb, app.size, app.look)' /\ Clean(arb')
        /\ SameClaims(arb, arb') /\ arb'.canonical = arb.canonical /\ arb'.shown = arb.shown
    BY <2>1, ArbFacts, ApplyPresents DEF ShownInv
  <2>3. Decided(arb, order, Barred) => Decided(arb', order, Barred)
    BY <2>2, DecidedStays
  <2> QED BY <2>2, <2>3 DEF Steady
<1> QED BY <1>1, <1>2

(* The sync ends with a choice, applied. *)
LEMMA SyncedScreen ==
    ASSUME IInv, ShownInv, Synced
    PROVE  Decisive /\ Clean(arb')
<1>1. arb \in Arbiters /\ SameScreen(arb, arb)
  BY ArbFacts DEF SameScreen
<1> QED BY <1>1, ChoiceApplied DEF Synced

(* While it runs, entries come and go without a choice. *)
LEMMA SyncScreen ==
    ASSUME IInv, ShownInv, NEW v \in Viewers, Adopt(v) \/ Retire(v)
    PROVE  Presented(arb, app.size, app.look)' /\ Clean(arb')
<1>0. arb \in Arbiters /\ pc # "settle" /\ app' = app
  BY ArbFacts DEF Adopt, Retire, appVars
<1>1. SameScreen(arb, arb')
  <2>1. CASE arb' = arb
    BY <2>1 DEF SameScreen
  <2>2. CASE arb' = FinalizeMouse(arb, v)
    BY <1>0, <2>2, MouseKeepsClaims
  <2>3. CASE arb' = AddEntry(arb, v, initial[v])
    <3>1. initial[v].size \in Sizes \cup {None} /\ initial[v].look \in Looks \cup {None}
      BY DEF IInv, TypeOK, Initials
    <3> QED BY <1>0, <2>3, <3>1, AddEntryKeepsScreen
  <2>4. CASE Retire(v) /\ arb' = Finalize(arb, v)
    <3>1. v \in arb.entries
      BY <2>4, RetireArb
    <3>2. PICK known \in BOOLEAN : Told(arb, known)
      BY ArbFacts DEF Owed
    <3> QED BY <2>4, <3>1, <3>2, ArbFacts, FinalizeKeepsScreen
  <2> QED BY <2>1, <2>2, <2>3, <2>4 DEF Adopt, Retire
<1> QED BY <1>0, <1>1 DEF ShownInv, Presented, SameScreen, Clean

(* Output may end a gesture, nothing else. *)
LEMMA OutputScreen ==
    ASSUME IInv, ShownInv, Output
    PROVE  Steady /\ Clean(arb')
<1>1. /\ arb \in Arbiters /\ app \in Apps /\ arb' \in {arb, TrackingDisabled(arb)}
      /\ pc = "next"
  BY ArbFacts DEF Output
<1>2. app'.size = app.size /\ app'.look = app.look
  BY <1>1 DEF Output, Apps
<1>3. SameClaims(arb, arb') /\ SameScreen(arb, arb')
  BY <1>1, MouseKeepsClaims DEF SameClaims, SameScreen
<1>4. Clean(arb)
  BY <1>1 DEF ShownInv, Clean
<1> QED BY <1>2, <1>3, <1>4, SteadyStep

(* The other steps leave the arbiter and the screen alone. *)
LEMMA QuietScreen ==
    ASSUME Quiet
    PROVE  /\ UNCHANGED <<arb, app>>
           /\ pc' = "settle" => pc = "settle"
           /\ pc = "settle" => pc' = "settle"
BY DEF Quiet, Turn, ListSlots, Adopted, Flush, Dequeue, Idle, Woken, WriterDequeues,
       OutputArrives, InputCloses, Stop, Client, Call, Register, Drop, Revoke,
       StartSend, MarkChanged, Sent, Refused, appVars, vars

(* Every step keeps the screen and the effects it is owed. *)
LEMMA ShownNext ==
    ASSUME IInv, ShownInv, [Next]_vars
    PROVE  ShownInv'
<1>1. CASE Quiet
  BY <1>1, QuietScreen DEF ShownInv
<1>2. CASE Handler
  <2>1. pc' = "settle"
    BY <1>2 DEF Handler, RunRefused, RunFocus, RunGeometry, RunPresentation, RunTyping,
       RunPress, RunRelease, RunReset, Running
  <2> QED BY <1>2, <2>1, HandlerScreen DEF Steady, ShownInv
<1>3. CASE Synced \/ Output \/ Settle
  BY <1>3, SyncedScreen, OutputScreen, SettleScreen DEF Decisive, Steady, Clean, ShownInv
<1>4. CASE \E v \in Viewers : Adopt(v) \/ Retire(v)
  BY <1>4, SyncScreen DEF Clean, ShownInv
<1> QED BY <1>1, <1>2, <1>3, <1>4, NextCases

(* Every step keeps the controller's decision, or leaves a sync to make it *)
(* again.                                                                  *)
LEMMA ControlNext ==
    ASSUME IInv, ShownInv, ControlInv, [Next]_vars
    PROVE  ControlInv'
<1> USE DEF ControlInv, registryVars, clientVars
<1>1. CASE Quiet
  <2>1. ASSUME NEW v \in Viewers, Register(v) \/ Drop(v) \/ Revoke(v) PROVE ControlInv'
    BY <2>1 DEF Register, Drop, Revoke
  <2>2. ASSUME NEW v \in Viewers, MarkChanged(v) PROVE ControlInv'
    BY <2>2 DEF MarkChanged
  <2>3. CASE ListSlots \/ Adopted
    BY <2>3 DEF ListSlots, Adopted
  <2>4. CASE /\ UNCHANGED <<arb, order, dropped, revoked, unmarked>>
             /\ pc \notin {"list", "adopt", "retire"} \/ UNCHANGED pc
             /\ UNCHANGED changed \/ pc' = "list"
    BY <2>4 DEF Barred
  <2>5. CASE Turn \/ Flush \/ Dequeue \/ Idle \/ Woken \/ Stop
    BY <2>4, <2>5 DEF Turn, Flush, Dequeue, Idle, Woken, Stop
  <2>6. CASE WriterDequeues \/ OutputArrives \/ InputCloses \/ UNCHANGED vars
    BY <2>4, <2>6 DEF WriterDequeues, OutputArrives, InputCloses, vars
  <2>7. ASSUME NEW v \in Viewers, StartSend(v) \/ Sent(v) \/ Refused(v) PROVE ControlInv'
    BY <2>4, <2>7 DEF StartSend, Sent, Refused
  <2> QED BY <1>1, <2>1, <2>2, <2>3, <2>5, <2>6, <2>7 DEF Quiet, Client, Call
<1>2. CASE Handler
  <2>1. /\ pc = "run" /\ UNCHANGED <<order, dropped, revoked, changed, unmarked>>
    BY <1>2 DEF Handler, RunRefused, RunFocus, RunGeometry, RunPresentation, RunTyping,
       RunPress, RunRelease, RunReset, Running
  <2> QED BY <1>2, <2>1, HandlerScreen DEF Steady, Barred
<1>3. CASE Synced
  <2>1. UNCHANGED <<order, dropped, revoked>>
    BY <1>3 DEF Synced
  <2> QED BY <1>3, <2>1, SyncedScreen DEF Decisive, Barred
<1>4. CASE Output
  <2>1. pc = "next" /\ UNCHANGED <<order, dropped, revoked, changed, unmarked>>
    BY <1>4 DEF Output
  <2> QED BY <1>4, <2>1, OutputScreen DEF Steady, Barred
<1>5. CASE Settle
  <2>1. pc = "settle" /\ UNCHANGED <<order, dropped, revoked, changed, unmarked>>
    BY <1>5 DEF Settle
  <2> QED BY <1>5, <2>1, SettleScreen DEF Steady, Barred
<1>6. ASSUME NEW v \in Viewers, Adopt(v) \/ Retire(v) PROVE ControlInv'
  BY <1>6 DEF Adopt, Retire
<1> QED BY <1>1, <1>2, <1>3, <1>4, <1>5, <1>6, NextCases

(* The slots, the numbering and the screen keep their invariants. *)
THEOREM ScreenInvariant == Spec => []ScreenInv
<1>1. Init => ScreenInv
  <2> SUFFICES ASSUME Init PROVE ScreenInv
    OBVIOUS
  <2>1. LeakInv
    BY DEF Init, LeakInv, NewArbiter
  <2>2. OrderInv
    BY DEF Init, OrderInv
  <2>3. ShownInv
    BY DEF Init, ShownInv, Presented, NewArbiter, NoEffects
  <2>4. ControlInv
    BY DEF Init, ControlInv, Decided, IsController, Candidates, NewArbiter
  <2> QED BY <2>1, <2>2, <2>3, <2>4 DEF ScreenInv
<1>2. IInv /\ ScreenInv /\ [Next]_vars => ScreenInv'
  BY LeakNext, OrderNext, ShownNext, ControlNext DEF ScreenInv
<1> QED BY <1>1, <1>2, Invariant, PTL DEF Spec

(* Once settled, the slots are the entries. *)
LEMMA SettledSlots ==
    ASSUME LeakInv, Settled
    PROVE  slots = arb.entries /\ \A v \in slots : ~Finished(v)
<1>1. pc \in {"flush", "next", "waiting"} /\ ~changed /\ unmarked = {}
  BY DEF Settled
<1>2. slots \subseteq arb.entries /\ \A v \in slots : ~Finished(v)
  BY <1>1 DEF LeakInv
<1> QED BY <1>2 DEF LeakInv

(* Once every change is marked and reconciled the registry holds exactly   *)
(* the arbiter's viewers, and none that has nothing left to run.           *)
THEOREM SlotsFreed == Spec => []NoLeakedSlot
<1>1. ScreenInv => NoLeakedSlot
  BY SettledSlots DEF ScreenInv, NoLeakedSlot
<1> QED BY <1>1, ScreenInvariant, PTL

(* And the application has the size and the presentation of the most       *)
(* recently active live viewer that wants a size.                          *)
THEOREM ControllerObeyed == Spec => []ControllerDecides
<1>1. IInv /\ ScreenInv => ControllerDecides
  <2> SUFFICES ASSUME IInv, ScreenInv, Settled,
                      NEW live, live = {v \in (slots \cap SizeViewers) \ (dropped \cup revoked) :
                                          arb.geometry[v] # None}
               PROVE  /\ app.size = arb.canonical
                      /\ \A v \in live :
                            (\A w \in live : \/ arb.activity[w] < arb.activity[v]
                                            \/ /\ arb.activity[w] = arb.activity[v]
                                               /\ order[w] <= order[v])
                            => /\ app.size = arb.geometry[v]
                               /\ arb.look[v] # None => app.look = arb.look[v]
    BY DEF ControllerDecides
  <2>1. slots = arb.entries
    BY SettledSlots DEF ScreenInv
  <2>2. live = Candidates(arb, Barred)
    BY <2>1 DEF Candidates, Barred
  <2>3. /\ arb.activity \in [Viewers -> Nat] /\ order \in [Viewers -> Nat]
        /\ slots \subseteq Viewers
    BY ArbFacts DEF Arbiters, IInv, TypeOK
  <2>4. app.size = arb.canonical /\ app.look = arb.shown
    BY DEF ScreenInv, ShownInv, Settled, Presented
  <2>5. Decided(arb, order, Barred)
    BY DEF ScreenInv, ControlInv, Settled
  <2>6. ASSUME NEW v \in live,
               \A w \in live : \/ arb.activity[w] < arb.activity[v]
                               \/ /\ arb.activity[w] = arb.activity[v]
                                  /\ order[w] <= order[v]
        PROVE  IsController(arb, order, Barred, v)
    <3> SUFFICES ASSUME NEW w \in live, w # v PROVE Outranks(arb, order, v, w)
      BY <2>2 DEF IsController
    <3>1. v \in Viewers /\ w \in Viewers /\ order[v] # 0 /\ order[w] # 0
      <4>1. v \in slots /\ w \in slots
        OBVIOUS
      <4> QED BY <2>3, <4>1 DEF IInv, CallInv
    <3>2. order[v] # order[w]
      BY <3>1 DEF ScreenInv, OrderInv
    <3> QED BY <2>3, <2>6, <3>1, <3>2 DEF Outranks
  <2>7. \A v \in live : v \in Viewers
    BY <2>3
  <2> QED BY <2>4, <2>5, <2>6, <2>7 DEF Decided
<1> QED BY <1>1, Invariant, ScreenInvariant, PTL
=============================================================================
