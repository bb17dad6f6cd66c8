---------------------------- MODULE HostEffects ----------------------------
(***************************************************************************)
(* How terminal content reaches a client's clipboard and notifications     *)
(* (huterm-core/src/host_effects.rs): the runtime thread of a terminal     *)
(* admits an effect for one recipient, the UI thread takes it from the     *)
(* recipient's queue and carries it out, and permissions are withdrawn or  *)
(* recipients revoked by other threads meanwhile.                          *)
(*                                                                         *)
(* Threads: the runtime thread of each terminal (opc), and two workers:    *)
(* "ui" owns the recipients' handles, "mux" closes and invalidates.        *)
(* A lock is not a variable: who holds it follows from where the threads   *)
(* are, and the operators StateFree .. QueueFree say so.                   *)
(***************************************************************************)
EXTENDS Integers, FiniteSetsExt, Sequences

CONSTANTS
    Terminals, Recipients, Kinds,
    Sizes,              \* what an effect may weigh, in bytes
    TerminalEffects, TerminalBytes, ProcessEffects, ProcessBytes,
    RecipientLimit,
    LastGeneration,     \* u64::MAX
    MaxAdmits,          \* bound: calls of admit
    MaxCancels,         \* bound: closes, invalidations and withdrawals
    Scenarios,          \* bound: who may register where, and with what effects
    None

ASSUME LimitsAssumption ==
    /\ TerminalEffects \in Nat /\ TerminalBytes \in Nat
    /\ ProcessEffects \in Nat /\ ProcessBytes \in Nat
    /\ RecipientLimit \in Nat
    /\ Sizes \subseteq Nat
    /\ LastGeneration \in Nat \ {0}
    /\ MaxAdmits \in Nat /\ MaxCancels \in Nat
    /\ Kinds # {}
    /\ \A s \in Scenarios :
          /\ s.homes \subseteq Recipients \X Terminals
          /\ s.kinds \subseteq Kinds /\ s.sizes \subseteq Sizes
          /\ s.granted \subseteq SUBSET Kinds

ASSUME NoneAssumption ==
    /\ None \notin Terminals
    /\ None \notin Recipients

Workers == {"ui", "mux"}

VARIABLES
    home,        \* the terminal a recipient is registered with
    handle,      \* whether the UI holds the recipient
    active, allowed, generation,   \* Registration
    closed,      \* SinkInner::closed
    effects,     \* every effect admitted, in the order of admission
    used,        \* the budget of each terminal
    shared,      \* the budget of the process
    signal,      \* RecipientLink::activity, a channel of one
    draining,    \* the recipient whose queue the UI is emptying
    missed,      \* recipients whose queue was locked when their view last looked
    opc, adm,    \* where admission is, and what it knows
    rev,         \* the revocation or clean-up a worker is in
    admits, cancels,
    scenario

regVars == <<home, handle, active, allowed, generation>>
budgetVars == <<used, shared>>
viewVars == <<signal, draining, missed>>
bounds == <<admits, cancels, scenario>>
vars == <<regVars, closed, effects, budgetVars, viewVars, opc, adm, rev, bounds>>

-----------------------------------------------------------------------------
(* Data.                                                                   *)

Budgets == [effects : Nat, bytes : Nat]

\* Where an effect is: queued, popped by the UI, dropped and about to be freed,
\* freed from its terminal's budget, freed from both.
Places == {"queued", "popped", "dropped", "halfway", "gone"}

Effects == [terminal : Terminals, to : Recipients, kind : Kinds, bytes : Sizes,
            generation : 1..LastGeneration, at : Places, by : Workers,
            withdrawn : BOOLEAN, carried : BOOLEAN]

Queued(r) == {i \in DOMAIN effects : effects[i].to = r /\ effects[i].at = "queued"}

DroppedBy(w) ==
    {i \in DOMAIN effects :
        effects[i].by = w /\ effects[i].at \in {"dropped", "halfway"}}

First(S) == CHOOSE i \in S : \A j \in S : i <= j

\* Mutant: the budget is compared before the effect is added to it.
CanReserveAtLimit(budget, limit, most, bytes) ==
    budget.effects < limit /\ budget.bytes <= most

CanReserve(budget, limit, most, bytes) ==
    budget.effects < limit /\ budget.bytes + bytes <= most

Reserve(budget, bytes) ==
    [effects |-> budget.effects + 1, bytes |-> budget.bytes + bytes]

Unreserve(budget, bytes) ==
    [effects |-> budget.effects - 1, bytes |-> budget.bytes - bytes]

HasRoom(t, bytes) ==
    /\ CanReserve(used[t], TerminalEffects, TerminalBytes, bytes)
    /\ CanReserve(shared, ProcessEffects, ProcessBytes, bytes)

IsEligible(r, k) == active[r] /\ allowed[r][k]

\* Mutant: only the flags are looked at.
IsEligibleEffect(e) == IsEligible(e.to, e.kind)

IsCurrent(e) == IsEligible(e.to, e.kind) /\ generation[e.to][e.kind] = e.generation

-----------------------------------------------------------------------------
(* Locks.                                                                  *)

StateFree(t) ==
    /\ opc[t] # "generation"
    /\ ~(rev["mux"].sink = t /\ rev["mux"].step \notin {"idle", "lock"})

TerminalFree(t) == opc[t] \notin {"process", "queue", "eligible", "commit", "signal"}

ProcessFree ==
    \A t \in Terminals : opc[t] \notin {"queue", "eligible", "commit", "signal"}

\* Mutant: reservations are freed while the queue is still locked.
QueueFreeAfterDrop(r) ==
    /\ \A t \in Terminals : adm[t].to = r => opc[t] \notin {"eligible", "commit"}
    /\ \A w \in Workers : rev[w].who = r => rev[w].step # "free"

QueueFree(r) ==
    \A t \in Terminals : adm[t].to = r => opc[t] \notin {"eligible", "commit"}

-----------------------------------------------------------------------------
(* Admission, on the runtime thread of terminal t.                         *)

NoAdmission == [kind |-> None, bytes |-> 0, to |-> None, generation |-> 0]

Goto(t, step) == opc' = [opc EXCEPT ![t] = step]

Return(t) ==
    /\ Goto(t, "idle")
    /\ adm' = [adm EXCEPT ![t] = NoAdmission]

\* A closed sink admits nothing.
Admit(t, k, bytes) ==
    /\ opc[t] = "idle" /\ ~closed[t] /\ admits < MaxAdmits
    /\ admits' = admits + 1
    /\ Goto(t, "pick")
    /\ adm' = [adm EXCEPT ![t] = [NoAdmission EXCEPT !.kind = k, !.bytes = bytes]]
    /\ UNCHANGED <<regVars, closed, effects, budgetVars, viewVars, rev, cancels, scenario>>

Candidates(t) ==
    {r \in Recipients : home[r] = t /\ IsEligible(r, adm[t].kind)}

\* The most recently used eligible recipient; any may be the one. The sink's
\* state stays locked until its generation is read.
Pick(t) ==
    /\ opc[t] = "pick" /\ StateFree(t)
    /\ \/ /\ Candidates(t) = {}
          /\ Return(t)
       \/ \E r \in Candidates(t) :
             /\ Goto(t, "generation")
             /\ adm' = [adm EXCEPT ![t].to = r]
    /\ UNCHANGED <<regVars, closed, effects, budgetVars, viewVars, rev, bounds>>

ReadGeneration(t) ==
    /\ opc[t] = "generation"
    /\ Goto(t, "terminal")
    /\ adm' = [adm EXCEPT ![t].generation = generation[adm[t].to][adm[t].kind]]
    /\ UNCHANGED <<regVars, closed, effects, budgetVars, viewVars, rev, bounds>>

\* Nobody else holds the lock of a terminal's budget across a step.
LockTerminal(t) ==
    /\ opc[t] = "terminal"
    /\ Goto(t, "process")
    /\ UNCHANGED <<regVars, closed, effects, budgetVars, viewVars, adm, rev,
                   bounds>>

LockProcess(t) ==
    /\ opc[t] = "process" /\ ProcessFree
    /\ IF HasRoom(t, adm[t].bytes)
       THEN Goto(t, "queue") /\ UNCHANGED adm
       ELSE Return(t)
    /\ UNCHANGED <<regVars, closed, effects, budgetVars, viewVars, rev, bounds>>

LockQueue(t) ==
    /\ opc[t] = "queue" /\ QueueFree(adm[t].to)
    /\ Goto(t, "eligible")
    /\ UNCHANGED <<regVars, closed, effects, budgetVars, viewVars, adm, rev,
                   bounds>>

RecheckEligible(t) ==
    /\ opc[t] = "eligible"
    /\ IF IsEligible(adm[t].to, adm[t].kind)
       THEN Goto(t, "commit") /\ UNCHANGED adm
       ELSE Return(t)
    /\ UNCHANGED <<regVars, closed, effects, budgetVars, viewVars, rev, bounds>>

\* Mutant: the generation is not compared.
AnyGeneration(t) == TRUE

SameGeneration(t) == generation[adm[t].to][adm[t].kind] = adm[t].generation

\* An effect weighs what it was estimated to: the text is copied at its length
\* and a notification is moved, so the second check for room never fails.
Commit(t) ==
    LET bytes == adm[t].bytes IN
    /\ opc[t] = "commit"
    /\ IF SameGeneration(t)
       THEN /\ Goto(t, "signal")
            /\ effects' = Append(effects,
                   [terminal |-> t, to |-> adm[t].to, kind |-> adm[t].kind,
                    bytes |-> bytes, generation |-> adm[t].generation,
                    at |-> "queued", by |-> "ui",
                    withdrawn |-> FALSE, carried |-> FALSE])
            /\ used' = [used EXCEPT ![t] = Reserve(@, bytes)]
            /\ shared' = Reserve(shared, bytes)
            /\ UNCHANGED adm
       ELSE Return(t) /\ UNCHANGED <<effects, budgetVars>>
    /\ UNCHANGED <<regVars, closed, viewVars, rev, bounds>>

\* The queue is unlocked; the recipient is told, and the budgets are unlocked.
Signal(t) ==
    /\ opc[t] = "signal"
    /\ signal' = [signal EXCEPT ![adm[t].to] = TRUE]
    /\ Return(t)
    /\ UNCHANGED <<regVars, closed, effects, budgetVars, draining, missed, rev,
                   bounds>>

-----------------------------------------------------------------------------
(* Revocation: flags and generations change first, then the queue is       *)
(* emptied under its lock, and what it held is freed after the unlock.     *)

Idle == [step |-> "idle", who |-> None, advance |-> {}, clear |-> {},
         todo |-> {}, sink |-> None]

Work(w, field) == rev' = [rev EXCEPT ![w] = field]

Revoking(w, r, kinds) ==
    Work(w, [rev[w] EXCEPT !.step = "advance", !.who = r, !.advance = kinds,
                           !.clear = kinds, !.todo = @ \ {r}])

\* One kind after the other. A generation that cannot be counted any further
\* deactivates the recipient.
Advance(w) ==
    LET r == rev[w].who
        k == CHOOSE k \in Kinds : k \in rev[w].advance
    IN
    /\ rev[w].step = "advance"
    /\ IF generation[r][k] < LastGeneration
       THEN generation' = [generation EXCEPT ![r][k] = @ + 1] /\ UNCHANGED active
       ELSE active' = [active EXCEPT ![r] = FALSE] /\ UNCHANGED generation
    /\ Work(w, [rev[w] EXCEPT !.advance = @ \ {k},
                   !.step = IF rev[w].advance = {k} THEN "clear" ELSE "advance"])
    /\ UNCHANGED <<home, handle, allowed, closed, effects, budgetVars, viewVars,
                   opc, adm, bounds>>

\* "withdrawn" remembers, for the properties, which effects had been queued under
\* a permission that is now withdrawn.
Clear(w) ==
    LET r == rev[w].who IN
    /\ rev[w].step = "clear" /\ QueueFree(r)
    /\ effects' = [i \in DOMAIN effects |->
           IF effects[i].to = r /\ effects[i].kind \in rev[w].clear
           THEN CASE effects[i].at = "queued" ->
                       [effects[i] EXCEPT !.withdrawn = TRUE, !.at = "dropped", !.by = w]
                  [] effects[i].at = "popped" -> [effects[i] EXCEPT !.withdrawn = TRUE]
                  [] OTHER -> effects[i]
           ELSE effects[i]]
    /\ Work(w, [rev[w] EXCEPT !.step = "free"])
    /\ UNCHANGED <<regVars, closed, budgetVars, viewVars, opc, adm, bounds>>

\* EffectReservation::drop gives back to the terminal first, then to the process.
\* Mutant: the effect is not marked, and is freed again.
FreeTerminalAgain(w) ==
    LET i == First(DroppedBy(w)) IN
    /\ rev[w].step = "free" /\ DroppedBy(w) # {}
    /\ effects[i].at = "dropped" /\ TerminalFree(effects[i].terminal)
    /\ used' = [used EXCEPT ![effects[i].terminal] = Unreserve(@, effects[i].bytes)]
    /\ UNCHANGED <<regVars, closed, effects, shared, viewVars, opc, adm, rev, bounds>>

FreeTerminal(w) ==
    LET i == First(DroppedBy(w))
        e == effects[i]
    IN
    /\ rev[w].step = "free" /\ DroppedBy(w) # {}
    /\ e.at = "dropped" /\ TerminalFree(e.terminal)
    /\ used' = [used EXCEPT ![e.terminal] = Unreserve(@, e.bytes)]
    /\ effects' = [effects EXCEPT ![i].at = "halfway"]
    /\ UNCHANGED <<regVars, closed, shared, viewVars, opc, adm, rev, bounds>>

FreeProcess(w) ==
    LET i == First(DroppedBy(w))
        e == effects[i]
    IN
    /\ rev[w].step = "free" /\ DroppedBy(w) # {}
    /\ e.at = "halfway" /\ ProcessFree
    /\ shared' = Unreserve(shared, e.bytes)
    /\ effects' = [effects EXCEPT ![i].at = "gone"]
    /\ UNCHANGED <<regVars, closed, used, viewVars, opc, adm, rev, bounds>>

FreeDone(w) ==
    /\ rev[w].step = "free" /\ DroppedBy(w) = {}
    /\ Work(w, IF rev[w].sink = None THEN Idle ELSE [rev[w] EXCEPT !.step = "next"])
    /\ handle' = [r \in Recipients |->
           IF w = "ui" /\ handle[r] = "dropping" THEN "dropped" ELSE handle[r]]
    /\ UNCHANGED <<home, active, allowed, generation, closed, effects, budgetVars,
                   viewVars, opc, adm, bounds>>

-----------------------------------------------------------------------------
(* Closes and invalidations, on the thread that drives the mux.            *)

Cancel ==
    /\ rev["mux"].step = "idle" /\ cancels < MaxCancels
    /\ cancels' = cancels + 1

\* HostEffectSink::close.
Close(t) ==
    /\ Cancel
    /\ closed' = [closed EXCEPT ![t] = TRUE]
    /\ Work("mux", [Idle EXCEPT !.step = "lock", !.sink = t, !.todo = Recipients])
    /\ UNCHANGED <<regVars, effects, budgetVars, viewVars, opc, adm, admits, scenario>>

\* The recipients of one attachment, or all: any set may be meant.
Invalidate(t, meant) ==
    /\ Cancel
    /\ Work("mux", [Idle EXCEPT !.step = "lock", !.sink = t, !.todo = meant])
    /\ UNCHANGED <<regVars, closed, effects, budgetVars, viewVars, opc, adm,
                   admits, scenario>>

LockState ==
    /\ rev["mux"].step = "lock" /\ StateFree(rev["mux"].sink)
    /\ Work("mux", [rev["mux"] EXCEPT !.step = "next",
                       !.todo = {r \in @ : home[r] = rev["mux"].sink}])
    /\ UNCHANGED <<regVars, closed, effects, budgetVars, viewVars, opc, adm,
                   bounds>>

\* revoke_permanently for each registration that is still held, with the sink's
\* state locked from the first to the last.
RevokeNext ==
    /\ rev["mux"].step = "next"
    /\ \/ /\ rev["mux"].todo = {}
          /\ Work("mux", Idle)
          /\ UNCHANGED active
       \/ \E r \in rev["mux"].todo :
             IF handle[r] # "dropped"
             THEN /\ active' = [active EXCEPT ![r] = FALSE]
                  /\ Revoking("mux", r, Kinds)
             ELSE /\ Work("mux", [rev["mux"] EXCEPT !.todo = @ \ {r}])
                  /\ UNCHANGED active
    /\ UNCHANGED <<home, handle, allowed, generation, closed, effects, budgetVars,
                   viewVars, opc, adm, bounds>>

-----------------------------------------------------------------------------
(* The UI.                                                                 *)

\* Mutant: a closed sink takes registrations.
RegisterClosed(r, t, permissions) ==
    /\ rev["ui"].step = "idle" /\ handle[r] = "new" /\ StateFree(t)
    /\ home' = [home EXCEPT ![r] = t]
    /\ handle' = [handle EXCEPT ![r] = "live"]
    /\ active' = [active EXCEPT ![r] = TRUE]
    /\ allowed' = [allowed EXCEPT ![r] = permissions]
    /\ UNCHANGED <<generation, closed, effects, budgetVars, viewVars, opc, adm, rev,
                   bounds>>

\* The closed flag is read with the sink's state locked; revoked registrations
\* do not count toward the limit.
Register(r, t, permissions) ==
    /\ rev["ui"].step = "idle" /\ handle[r] = "new" /\ StateFree(t)
    /\ ~closed[t]
    /\ Cardinality({q \in Recipients : home[q] = t /\ active[q]}) < RecipientLimit
    /\ home' = [home EXCEPT ![r] = t]
    /\ handle' = [handle EXCEPT ![r] = "live"]
    /\ active' = [active EXCEPT ![r] = TRUE]
    /\ allowed' = [allowed EXCEPT ![r] = permissions]
    /\ UNCHANGED <<generation, closed, effects, budgetVars, viewVars, opc, adm, rev,
                   bounds>>

\* HostEffectRecipient::set_allowed.
Grant(r, k) ==
    /\ rev["ui"].step = "idle" /\ handle[r] = "live" /\ active[r]
    /\ allowed' = [allowed EXCEPT ![r][k] = TRUE]
    /\ UNCHANGED <<home, handle, active, generation, closed, effects, budgetVars,
                   viewVars, opc, adm, rev, bounds>>

Withdraw(r, k) ==
    /\ rev["ui"].step = "idle" /\ handle[r] = "live" /\ cancels < MaxCancels
    /\ cancels' = cancels + 1
    /\ allowed' = [allowed EXCEPT ![r][k] = FALSE]
    /\ Revoking("ui", r, {k})
    /\ UNCHANGED <<home, handle, active, generation, closed, effects, budgetVars,
                   viewVars, opc, adm, admits, scenario>>

\* HostEffectRecipient::drop. The registration goes when this revocation ends.
DropHandle(r) ==
    /\ rev["ui"].step = "idle" /\ handle[r] = "live"
    /\ handle' = [handle EXCEPT ![r] = "dropping"]
    /\ active' = [active EXCEPT ![r] = FALSE]
    /\ Revoking("ui", r, Kinds)
    /\ draining' = IF draining = r THEN None ELSE draining
    /\ UNCHANGED <<home, allowed, generation, closed, effects, budgetVars, signal,
                   missed, opc, adm, bounds>>

\* The view wakes and begins to empty its queue; one effect a turn.
Drain(r) ==
    /\ rev["ui"].step = "idle" /\ handle[r] = "live"
    /\ draining = None /\ signal[r]
    /\ signal' = [signal EXCEPT ![r] = FALSE]
    /\ draining' = r
    /\ missed' = missed \ {r}
    /\ UNCHANGED <<regVars, closed, effects, budgetVars, opc, adm, rev, bounds>>

\* Mutant: the view looks once for each wake.
StopDraining(r, current) == None

\* The view looks again until its queue is empty.
StillDraining(r, current) == IF current = {} THEN None ELSE r

\* Stale effects are dropped on the way; a queue that is locked counts as empty.
TryNext ==
    LET r == draining
        current == {i \in Queued(r) : IsCurrent(effects[i])}
        stale == {i \in Queued(r) : \A j \in current : i < j}
    IN
    /\ rev["ui"].step = "idle" /\ r # None
    /\ IF ~QueueFree(r)
       THEN draining' = None /\ missed' = missed \cup {r} /\ UNCHANGED <<effects, rev>>
       ELSE /\ draining' = StillDraining(r, current)
            /\ UNCHANGED missed
            /\ effects' = [i \in DOMAIN effects |->
                   IF i \in stale THEN [effects[i] EXCEPT !.at = "dropped", !.by = "ui"]
                   ELSE IF i \in current /\ i = First(current)
                   THEN [effects[i] EXCEPT !.at = "popped"]
                   ELSE effects[i]]
            /\ Work("ui", IF stale = {} THEN Idle ELSE [Idle EXCEPT !.step = "free"])
    /\ UNCHANGED <<regVars, closed, budgetVars, signal, opc, adm, bounds>>

\* Permission is checked once more immediately before the platform is called;
\* an effect whose view is gone is dropped.
CarryOut(i) ==
    /\ rev["ui"].step = "idle" /\ effects[i].at = "popped"
    /\ effects' = [effects EXCEPT ![i].at = "dropped", ![i].by = "ui",
           ![i].carried = handle[effects[i].to] = "live" /\ IsCurrent(effects[i])]
    /\ Work("ui", [Idle EXCEPT !.step = "free"])
    /\ UNCHANGED <<regVars, closed, budgetVars, viewVars, opc, adm, bounds>>

-----------------------------------------------------------------------------
Init ==
    /\ home = [r \in Recipients |-> None]
    /\ handle = [r \in Recipients |-> "new"]
    /\ active = [r \in Recipients |-> FALSE]
    /\ allowed = [r \in Recipients |-> [k \in Kinds |-> FALSE]]
    /\ generation = [r \in Recipients |-> [k \in Kinds |-> 1]]
    /\ closed = [t \in Terminals |-> FALSE]
    /\ effects = <<>>
    /\ used = [t \in Terminals |-> [effects |-> 0, bytes |-> 0]]
    /\ shared = [effects |-> 0, bytes |-> 0]
    /\ signal = [r \in Recipients |-> FALSE]
    /\ opc = [t \in Terminals |-> "idle"]
    /\ adm = [t \in Terminals |-> NoAdmission]
    /\ rev = [w \in Workers |-> Idle]
    /\ draining = None
    /\ missed = {}
    /\ admits = 0
    /\ cancels = 0
    /\ scenario \in Scenarios

\* An admission that has begun.
Admission(t) ==
    \/ Pick(t) \/ ReadGeneration(t) \/ LockTerminal(t) \/ LockProcess(t) \/ LockQueue(t)
    \/ RecheckEligible(t) \/ Commit(t) \/ Signal(t)

\* Recipients that may register with a terminal.
Meant(t) == {r \in Recipients : <<r, t>> \in scenario.homes}

\* A revocation or clean-up that has begun.
Revocation(w) ==
    Advance(w) \/ Clear(w) \/ FreeTerminal(w) \/ FreeProcess(w) \/ FreeDone(w)

\* What the UI does of its own accord with effects it was told of.
Delivery ==
    (\E r \in Recipients : Drain(r)) \/ TryNext \/ (\E i \in DOMAIN effects : CarryOut(i))

Next ==
    \/ \E t \in Terminals :
          \/ \E k \in scenario.kinds, bytes \in scenario.sizes : Admit(t, k, bytes)
          \/ Admission(t)
          \/ Meant(t) # {} /\ Close(t)
          \/ \E meant \in (SUBSET Meant(t)) \ {{}} : Invalidate(t, meant)
    \/ \E w \in Workers : Revocation(w)
    \/ LockState \/ RevokeNext
    \/ \E r \in Recipients :
          \/ \E t \in Terminals, granted \in scenario.granted :
                <<r, t>> \in scenario.homes /\ Register(r, t, [k \in Kinds |-> k \in granted])
          \/ \E k \in scenario.kinds : Grant(r, k) \/ Withdraw(r, k)
          \/ DropHandle(r)
    \/ Delivery

\* Threads run on once they have begun; a view serves its wakes. Nobody need
\* admit, register, grant, withdraw, drop or close.
Fairness ==
    /\ \A t \in Terminals : WF_vars(Admission(t))
    /\ \A w \in Workers : WF_vars(Revocation(w))
    /\ WF_vars(LockState \/ RevokeNext)
    /\ WF_vars(Delivery)

Spec == Init /\ [][Next]_vars /\ Fairness

-----------------------------------------------------------------------------
(* Properties.                                                             *)

AdmissionSteps == {"idle", "pick", "generation", "terminal", "process", "queue",
                   "eligible", "commit", "signal"}

RevocationSteps == {"idle", "lock", "next", "advance", "clear", "free"}

\* Types of the registrations, the budgets, the effects and the threads.
TypeOK ==
    /\ home \in [Recipients -> Terminals \cup {None}]
    /\ handle \in [Recipients -> {"new", "live", "dropping", "dropped"}]
    /\ active \in [Recipients -> BOOLEAN]
    /\ allowed \in [Recipients -> [Kinds -> BOOLEAN]]
    /\ generation \in [Recipients -> [Kinds -> 1..LastGeneration]]
    /\ closed \in [Terminals -> BOOLEAN]
    /\ effects \in Seq(Effects)
    /\ used \in [Terminals -> Budgets]
    /\ shared \in Budgets
    /\ signal \in [Recipients -> BOOLEAN]
    /\ opc \in [Terminals -> AdmissionSteps]
    /\ adm \in [Terminals -> [kind : Kinds \cup {None}, bytes : Sizes \cup {0},
                             to : Recipients \cup {None}, generation : 0..LastGeneration]]
    /\ rev \in [Workers -> [step : RevocationSteps, who : Recipients \cup {None},
                           advance : SUBSET Kinds, clear : SUBSET Kinds,
                           todo : SUBSET Recipients, sink : Terminals \cup {None}]]
    /\ draining \in Recipients \cup {None}
    /\ missed \subseteq Recipients
    /\ admits \in 0..MaxAdmits /\ cancels \in 0..MaxCancels /\ scenario \in Scenarios

ChargedTo(t) ==
    {i \in DOMAIN effects :
        effects[i].terminal = t /\ effects[i].at \in {"queued", "popped", "dropped"}}

Charged == {i \in DOMAIN effects : effects[i].at # "gone"}

\* The bytes of some effects, counted one by one.
Weight(S) == Cardinality(UNION {{i} \X (1..effects[i].bytes) : i \in S})

\* Each budget counts the effects that still exist, each exactly once and
\* whoever frees it, and never more than it allows.
BudgetExact ==
    /\ \A t \in Terminals :
          /\ used[t].effects = Cardinality(ChargedTo(t))
          /\ used[t].effects <= TerminalEffects
          /\ used[t].bytes = Weight(ChargedTo(t))
          /\ used[t].bytes <= TerminalBytes
    /\ shared.effects = Cardinality(Charged) /\ shared.effects <= ProcessEffects
    /\ shared.bytes = Weight(Charged) /\ shared.bytes <= ProcessBytes

BeingRevoked(r, k) ==
    \E w \in Workers : /\ rev[w].step \in {"advance", "clear"}
                       /\ rev[w].who = r /\ k \in rev[w].clear

OutOfGenerations(r) == ~active[r] /\ \E k \in Kinds : generation[r][k] = LastGeneration

\* An effect whose permission is gone does not stay in the queue, where it
\* would hold on to the budgets: it is valid, or somebody is about to remove
\* it. (A recipient whose generations ran out leaves that to its view.)
NothingStaleQueued ==
    \A i \in DOMAIN effects :
        LET e == effects[i] IN
        e.at = "queued" =>
            IsCurrent(e) \/ BeingRevoked(e.to, e.kind) \/ OutOfGenerations(e.to)

\* Once a withdrawal or a revocation has returned, no effect that was queued or
\* popped before is carried out, even if the permission was granted again since.
NeverAfterWithdrawal ==
    \A i \in DOMAIN effects : ~(effects[i].carried /\ effects[i].withdrawn)

\* After a close, and not only at its end, a terminal has no active recipient
\* and no queued effect, whoever registered or was admitted meanwhile.
CloseSettles ==
    \A t \in Terminals :
        closed[t] /\ rev["mux"].sink # t =>
            /\ \A r \in Recipients : home[r] = t => ~active[r]
            /\ \A i \in DOMAIN effects :
                  effects[i].terminal = t => effects[i].at # "queued"

\* A valid effect in a queue has a view that was told of it, is emptying the
\* queue, or is about to be told. The exception is a view that found its queue
\* locked by an admission: it does not look again, and the admission may be
\* denied and never wake it.
NoneStranded ==
    \A r \in Recipients :
        (\E i \in Queued(r) : IsCurrent(effects[i])) =>
            \/ signal[r] \/ draining = r \/ r \in missed
            \/ \E t \in Terminals : opc[t] = "signal" /\ adm[t].to = r

\* Every effect leaves and gives its reservation back, but for the exception of
\* NoneStranded: wakes are not lost, and admissions, revocations and dropped
\* reservations never wait for each other's locks in a circle. (MaxAdmits bounds
\* the admissions, so that all effects are gone at once.)
EffectsSettle ==
    []<>(\A i \in DOMAIN effects :
            effects[i].at = "gone" \/ effects[i].to \in missed)
=============================================================================
