-------------------------- MODULE HostEffectsProofs --------------------------
(***************************************************************************)
(* Host effects, for any terminals, recipients, kinds and limits: types,   *)
(* what withdrawals and closes leave behind, that no effect is stranded,   *)
(* and that both budgets are exact.                                        *)
(***************************************************************************)
EXTENDS HostEffects, FiniteSetTheorems, WellFoundedInduction, TLAPS

(* Where an admission knows its recipient, and where it also knows the      *)
(* generation; where it holds the process's budget, and where it was told   *)
(* that there is room.                                                      *)
Chosen == {"generation", "terminal", "process", "queue", "eligible", "commit", "signal"}
Stamped == Chosen \ {"generation"}
Holding == {"queue", "eligible", "commit", "signal"}
Granted == {"queue", "eligible", "commit"}

(* A registration has a terminal from its beginning. *)
HomeInv ==
    \A r \in Recipients :
        /\ handle[r] = "new" <=> home[r] = None
        /\ handle[r] = "new" => ~active[r]

(* Effects and admissions belong to the terminal of their recipient and are *)
(* not ahead of its generation.                                             *)
EffectInv ==
    \A i \in DOMAIN effects :
        /\ home[effects[i].to] = effects[i].terminal
        /\ effects[i].generation <= generation[effects[i].to][effects[i].kind]

AdmissionInv ==
    \A t \in Terminals :
        /\ opc[t] # "idle" => adm[t].kind \in Kinds /\ adm[t].bytes \in Sizes
        /\ opc[t] \in Chosen => adm[t].to \in Recipients /\ home[adm[t].to] = t
        /\ opc[t] \in Stamped =>
              adm[t].generation \in 1..generation[adm[t].to][adm[t].kind]

(* One admission at a time holds the process's budget, and room that was    *)
(* found stays until it is used.                                            *)
LockInv ==
    \A t, u \in Terminals : opc[t] \in Holding /\ opc[u] \in Holding => t = u

RoomInv == \A t \in Terminals : opc[t] \in Granted => HasRoom(t, adm[t].bytes)

(* The workers' bookkeeping: what is being revoked cannot be granted again  *)
(* meanwhile.                                                               *)
RevocationInv ==
    /\ rev["ui"].step \notin {"lock", "next"} /\ rev["ui"].sink = None
    /\ rev["mux"].step = "idle" <=> rev["mux"].sink = None
    /\ \A w \in Workers :
        rev[w].step \in {"advance", "clear"} =>
            /\ rev[w].who \in Recipients /\ handle[rev[w].who] # "new"
            /\ rev[w].advance \subseteq rev[w].clear
            /\ rev[w].step = "advance" <=> rev[w].advance # {}
            /\ \A k \in rev[w].clear : ~IsEligible(rev[w].who, k)
    /\ rev["mux"].step \in {"advance", "clear"} =>
          rev["mux"].clear = Kinds /\ ~active[rev["mux"].who]
    /\ rev["mux"].step \notin {"idle", "lock"} =>
          \A r \in rev["mux"].todo : home[r] = rev["mux"].sink

(* No effect of this recipient, kind and generation is valid ever again.    *)
Dead(r, k, g) ==
    \/ g < generation[r][k]
    \/ ~active[r] /\ handle[r] # "new"

(* The same of the next state. *)
DeadNext(r, k, g) ==
    \/ g < generation'[r][k]
    \/ ~active'[r] /\ handle'[r] # "new"

(* Once a generation has advanced, every effect and every admission from    *)
(* before it is dead.                                                       *)
WindowInv ==
    \A w \in Workers :
        rev[w].step \in {"advance", "clear"} =>
            \A k \in rev[w].clear \ rev[w].advance :
                /\ \A i \in DOMAIN effects :
                      effects[i].to = rev[w].who /\ effects[i].kind = k =>
                          Dead(rev[w].who, k, effects[i].generation)
                /\ \A t \in Terminals :
                      opc[t] = "commit" /\ adm[t].to = rev[w].who /\ adm[t].kind = k =>
                          Dead(rev[w].who, k, adm[t].generation)

DeadInv ==
    \A i \in DOMAIN effects :
        effects[i].withdrawn => Dead(effects[i].to, effects[i].kind, effects[i].generation)

(* What was carried out was valid, and had left the queue for good.         *)
SpentInv ==
    \A i \in DOMAIN effects :
        effects[i].carried =>
            ~effects[i].withdrawn /\ effects[i].at \notin {"queued", "popped"}

(* An admission about to commit is permitted, or the revocation that ended  *)
(* its permission still has to empty the queue.                             *)
CommitInv ==
    \A t \in Terminals :
        opc[t] = "commit" =>
            \/ IsEligible(adm[t].to, adm[t].kind)
            \/ BeingRevoked(adm[t].to, adm[t].kind)
            \/ OutOfGenerations(adm[t].to)

(* What may be left of a permission that is gone, and the same of the next  *)
(* state.                                                                   *)
Ending(r, k) == BeingRevoked(r, k) \/ OutOfGenerations(r)

EndingNext(r, k) ==
    \/ \E w \in Workers : /\ rev'[w].step \in {"advance", "clear"}
                          /\ rev'[w].who = r /\ k \in rev'[w].clear
    \/ ~active'[r] /\ \E l \in Kinds : generation'[r][l] = LastGeneration

(* A recipient that is over: nothing is queued for it and nothing will be.  *)
Swept(r) ==
    /\ ~active[r] /\ handle[r] # "new"
    /\ \A i \in DOMAIN effects : effects[i].to = r => effects[i].at # "queued"
    /\ \A t \in Terminals : opc[t] = "commit" => adm[t].to # r

Sweeping(w, r) == rev[w].step \in {"advance", "clear"} /\ rev[w].who = r

SweptNext(r) ==
    /\ ~active'[r] /\ handle'[r] # "new"
    /\ \A i \in DOMAIN effects' : effects'[i].to = r => effects'[i].at # "queued"
    /\ \A t \in Terminals : opc'[t] = "commit" => adm'[t].to # r

(* Handles that were dropped, and the recipients a close has been through,  *)
(* are over.                                                                *)
SweepInv ==
    /\ \A r \in Recipients :
        /\ handle[r] = "dropped" => Swept(r)
        /\ handle[r] = "dropping" =>
              /\ ~active[r] /\ rev["ui"].step # "idle" /\ rev["ui"].clear = Kinds
              /\ Sweeping("ui", r) \/ Swept(r)
    /\ \A t \in Terminals : closed[t] =>
        \A r \in Recipients : home[r] = t =>
            \/ Swept(r)
            \/ rev["mux"].sink = t /\ (r \in rev["mux"].todo \/ Sweeping("mux", r))

IInv ==
    /\ TypeOK /\ BudgetExact
    /\ HomeInv /\ EffectInv /\ AdmissionInv
    /\ LockInv /\ RoomInv
    /\ RevocationInv /\ WindowInv /\ DeadInv /\ SpentInv
    /\ CommitInv /\ NothingStaleQueued
    /\ SweepInv /\ NoneStranded

-----------------------------------------------------------------------------
(* A set of positions has a first one. *)
LEMMA FirstMember ==
    ASSUME NEW n \in Nat, NEW S \in SUBSET (1..n), S # {}
    PROVE  First(S) \in S
<1> DEFINE Prefixes == {1..i : i \in S}
<1>1. Prefixes \subseteq FiniteSubsetsOf(Nat) /\ Prefixes # {}
  <2>1. ASSUME NEW i \in S PROVE 1..i \in SUBSET Nat /\ IsFiniteSet(1..i)
    BY FS_Interval
  <2> QED BY <2>1 DEF FiniteSubsetsOf
<1>2. PICK P \in Prefixes : \A Q \in Prefixes : ~(<<Q, P>> \in StrictSubsetOrdering(Nat))
  BY <1>1, WFMin, FS_StrictSubsetOrderingWellFounded
<1>3. PICK i \in S : P = 1..i
  BY <1>2
<1>4. ASSUME NEW j \in S PROVE i <= j
  <2>1. SUFFICES ASSUME j < i PROVE FALSE
    OBVIOUS
  <2>2. 1..j \subseteq 1..i /\ 1..j # 1..i /\ 1..j \subseteq Nat /\ 1..i \subseteq Nat
    BY <2>1
  <2>3. <<1..j, P>> \in StrictSubsetOrdering(Nat)
    BY <2>2, <1>3 DEF StrictSubsetOrdering
  <2> QED BY <2>3, <1>2
<1> QED BY <1>3, <1>4 DEF First

-----------------------------------------------------------------------------
(* What a step changes. *)

LEMMA RegistrationSteps ==
    ASSUME TypeOK, [Next]_vars
    PROVE  \/ UNCHANGED regVars
           \/ \E w \in Workers : Advance(w) \/ FreeDone(w)
           \/ RevokeNext
           \/ \E r \in Recipients :
                \/ \E t \in Terminals, granted \in SUBSET Kinds :
                      Register(r, t, [k \in Kinds |-> k \in granted])
                \/ \E k \in Kinds : Grant(r, k) \/ Withdraw(r, k)
                \/ DropHandle(r)
<1>1. CASE UNCHANGED vars
  BY <1>1 DEF vars, regVars
<1>2. ASSUME NEW t \in Terminals, Admission(t) PROVE UNCHANGED regVars
  BY <1>2 DEF Admission, Pick, ReadGeneration, LockTerminal, LockProcess, LockQueue,
              RecheckEligible, Commit, Signal
<1>3. ASSUME NEW t \in Terminals, NEW k, NEW bytes, NEW meant,
             Admit(t, k, bytes) \/ Close(t) \/ Invalidate(t, meant)
      PROVE  UNCHANGED regVars
  BY <1>3 DEF Admit, Close, Invalidate
<1>4. ASSUME NEW w \in Workers, Clear(w) \/ FreeTerminal(w) \/ FreeProcess(w)
      PROVE  UNCHANGED regVars
  BY <1>4 DEF Clear, FreeTerminal, FreeProcess
<1>5. ASSUME LockState \/ Delivery PROVE UNCHANGED regVars
  BY <1>5 DEF LockState, Delivery, Drain, TryNext, CarryOut
<1>6. scenario.kinds \subseteq Kinds /\ scenario.granted \subseteq SUBSET Kinds
  BY LimitsAssumption DEF TypeOK
<1> QED BY <1>1, <1>2, <1>3, <1>4, <1>5, <1>6 DEF Next, Revocation

LEMMA EffectSteps ==
    ASSUME [Next]_vars
    PROVE  \/ UNCHANGED <<effects, used, shared>>
           \/ \E t \in Terminals : Commit(t)
           \/ \E w \in Workers : Clear(w) \/ FreeTerminal(w) \/ FreeProcess(w)
           \/ TryNext
           \/ \E i \in DOMAIN effects : CarryOut(i)
<1>1. CASE UNCHANGED vars
  BY <1>1 DEF vars, budgetVars
<1>2. ASSUME NEW t \in Terminals, Admission(t), ~Commit(t)
      PROVE  UNCHANGED <<effects, used, shared>>
  BY <1>2 DEF Admission, Pick, ReadGeneration, LockTerminal, LockProcess, LockQueue,
              RecheckEligible, Signal, budgetVars
<1>3. ASSUME NEW t \in Terminals, NEW k, NEW bytes, NEW meant,
             Admit(t, k, bytes) \/ Close(t) \/ Invalidate(t, meant)
      PROVE  UNCHANGED <<effects, used, shared>>
  BY <1>3 DEF Admit, Close, Invalidate, budgetVars
<1>4. ASSUME NEW w \in Workers, Advance(w) \/ FreeDone(w)
      PROVE  UNCHANGED <<effects, used, shared>>
  BY <1>4 DEF Advance, FreeDone, budgetVars
<1>5. ASSUME LockState \/ RevokeNext PROVE UNCHANGED <<effects, used, shared>>
  BY <1>5 DEF LockState, RevokeNext, budgetVars
<1>6. ASSUME NEW r \in Recipients, NEW t, NEW k, NEW permissions,
             \/ Register(r, t, permissions) \/ Grant(r, k) \/ Withdraw(r, k)
             \/ DropHandle(r) \/ Drain(r)
      PROVE  UNCHANGED <<effects, used, shared>>
  BY <1>6 DEF Register, Grant, Withdraw, DropHandle, Drain, budgetVars
<1> QED BY <1>1, <1>2, <1>3, <1>4, <1>5, <1>6 DEF Next, Revocation, Delivery

LEMMA AdmittingSteps ==
    ASSUME TypeOK, [Next]_vars
    PROVE  \/ UNCHANGED <<opc, adm>>
           \/ \E t \in Terminals : \/ Admission(t)
                                   \/ \E k \in Kinds, bytes \in Sizes : Admit(t, k, bytes)
<1>1. CASE UNCHANGED vars
  BY <1>1 DEF vars
<1>2. ASSUME NEW t, NEW meant, Close(t) \/ Invalidate(t, meant)
      PROVE  UNCHANGED <<opc, adm>>
  BY <1>2 DEF Close, Invalidate
<1>3. ASSUME NEW w \in Workers, Revocation(w) PROVE UNCHANGED <<opc, adm>>
  BY <1>3 DEF Revocation, Advance, Clear, FreeTerminal, FreeProcess, FreeDone
<1>4. ASSUME LockState \/ RevokeNext \/ Delivery PROVE UNCHANGED <<opc, adm>>
  BY <1>4 DEF LockState, RevokeNext, Delivery, Drain, TryNext, CarryOut
<1>5. ASSUME NEW r \in Recipients, NEW t, NEW k, NEW permissions,
             \/ Register(r, t, permissions) \/ Grant(r, k) \/ Withdraw(r, k) \/ DropHandle(r)
      PROVE  UNCHANGED <<opc, adm>>
  BY <1>5 DEF Register, Grant, Withdraw, DropHandle
<1>6. scenario.kinds \subseteq Kinds /\ scenario.sizes \subseteq Sizes
  BY LimitsAssumption DEF TypeOK
<1> QED BY <1>1, <1>2, <1>3, <1>4, <1>5, <1>6 DEF Next

LEMMA WorkerSteps ==
    ASSUME TypeOK, [Next]_vars
    PROVE  \/ UNCHANGED rev
           \/ \E t \in Terminals : \/ Close(t)
                                   \/ \E meant \in SUBSET Recipients : Invalidate(t, meant)
           \/ \E w \in Workers : Advance(w) \/ Clear(w) \/ FreeDone(w)
           \/ LockState \/ RevokeNext
           \/ \E r \in Recipients : DropHandle(r) \/ \E k \in Kinds : Withdraw(r, k)
           \/ TryNext
           \/ \E i \in DOMAIN effects : CarryOut(i)
<1>1. CASE UNCHANGED vars
  BY <1>1 DEF vars
<1>2. ASSUME NEW t \in Terminals, Admission(t) PROVE UNCHANGED rev
  BY <1>2 DEF Admission, Pick, ReadGeneration, LockTerminal, LockProcess, LockQueue,
              RecheckEligible, Commit, Signal
<1>3. ASSUME NEW t \in Terminals, NEW k, NEW bytes, Admit(t, k, bytes)
      PROVE  UNCHANGED rev
  BY <1>3 DEF Admit
<1>4. ASSUME NEW w \in Workers, FreeTerminal(w) \/ FreeProcess(w) PROVE UNCHANGED rev
  BY <1>4 DEF FreeTerminal, FreeProcess
<1>5. ASSUME NEW r \in Recipients, NEW t, NEW k, NEW permissions,
             Register(r, t, permissions) \/ Grant(r, k) \/ Drain(r)
      PROVE  UNCHANGED rev
  BY <1>5 DEF Register, Grant, Drain
<1>6. scenario.kinds \subseteq Kinds /\ \A t : Meant(t) \subseteq Recipients
  BY LimitsAssumption DEF TypeOK, Meant
<1> QED BY <1>1, <1>2, <1>3, <1>4, <1>5, <1>6 DEF Next, Revocation, Delivery

LEMMA ControlSteps ==
    ASSUME TypeOK, [Next]_vars
    PROVE  \/ UNCHANGED <<regVars, rev>>
           \/ \E t \in Terminals : \/ Close(t)
                                   \/ \E meant \in SUBSET Recipients : Invalidate(t, meant)
           \/ \E w \in Workers : Advance(w) \/ Clear(w) \/ FreeDone(w)
           \/ LockState \/ RevokeNext
           \/ \E r \in Recipients :
                \/ \E t \in Terminals, granted \in SUBSET Kinds :
                      Register(r, t, [k \in Kinds |-> k \in granted])
                \/ \E k \in Kinds : Grant(r, k) \/ Withdraw(r, k)
                \/ DropHandle(r)
           \/ TryNext
           \/ \E i \in DOMAIN effects : CarryOut(i)
BY RegistrationSteps, WorkerSteps

(* A registration stays with its terminal, an ended one stays ended, and    *)
(* generations only grow.                                                   *)
LEMMA Lasting ==
    ASSUME TypeOK, HomeInv, RevocationInv, [Next]_vars, NEW r \in Recipients
    PROVE  /\ home[r] # None => home'[r] = home[r]
           /\ handle[r] # "new" => handle'[r] # "new"
           /\ active'[r] => active[r] \/ (handle[r] = "new" /\ handle'[r] = "live")
           /\ \A k \in Kinds : /\ generation[r][k] \in Nat /\ generation'[r][k] \in Nat
                               /\ generation[r][k] <= generation'[r][k]
<1>t. /\ home \in [Recipients -> Terminals \cup {None}]
      /\ handle \in [Recipients -> {"new", "live", "dropping", "dropped"}]
      /\ active \in [Recipients -> BOOLEAN]
      /\ generation \in [Recipients -> [Kinds -> 1..LastGeneration]]
      /\ LastGeneration \in Nat
  BY LimitsAssumption DEF TypeOK
<1> DEFINE Stays ==
        /\ home[r] # None => home'[r] = home[r]
        /\ handle[r] # "new" => handle'[r] # "new"
        /\ active'[r] => active[r] \/ (handle[r] = "new" /\ handle'[r] = "live")
    Grows ==
        \A k \in Kinds : /\ generation[r][k] \in Nat /\ generation'[r][k] \in Nat
                         /\ generation[r][k] <= generation'[r][k]
<1> SUFFICES Stays /\ Grows
  OBVIOUS
<1>g. UNCHANGED generation => Grows
  BY <1>t
<1>1. ASSUME Stays, UNCHANGED generation PROVE Stays /\ Grows
  BY <1>1, <1>g
<1>3. CASE UNCHANGED regVars
  <2>1. Stays /\ UNCHANGED generation
    BY <1>3, <1>t DEF regVars
  <2> QED BY <2>1, <1>1
<1>2. CASE \E w \in Workers : Advance(w)
  <2>1. PICK w \in Workers : Advance(w)
    BY <1>2
  <2>2. rev[w].who \in Recipients /\ UNCHANGED <<home, handle>>
    BY <2>1 DEF Advance, RevocationInv
  <2>3. \/ active' = [active EXCEPT ![rev[w].who] = FALSE] /\ UNCHANGED generation
        \/ /\ UNCHANGED active
           /\ \E k \in Kinds : /\ generation[rev[w].who][k] < LastGeneration
                               /\ generation' = [generation EXCEPT ![rev[w].who][k] = @ + 1]
    <3>1. (CHOOSE k \in Kinds : k \in rev[w].advance) \in Kinds
      BY <2>1 DEF Advance, RevocationInv, TypeOK
    <3> QED BY <2>1, <3>1 DEF Advance
  <2>4. active'[r] => active[r]
    BY <2>2, <2>3, <1>t
  <2>5. ASSUME NEW k \in Kinds, generation' = [generation EXCEPT ![rev[w].who][k] = @ + 1]
        PROVE  Grows
    <3>1. \A l \in Kinds : generation'[r][l] \in {generation[r][l], generation[r][l] + 1}
      BY <2>5, <2>2, <1>t
    <3>2. \A l \in Kinds : generation[r][l] \in Nat
      BY <1>t
    <3> QED BY <3>1, <3>2
  <2>6. Stays
    BY <2>2, <2>4
  <2> HIDE DEF Stays, Grows
  <2> QED BY <2>3, <2>5, <2>6, <1>g
<1>4. CASE \E w \in Workers : FreeDone(w)
  <2>1. Stays /\ UNCHANGED generation
    BY <1>4, <1>t DEF FreeDone
  <2> QED BY <2>1, <1>1
<1>5. CASE RevokeNext
  <2>1. /\ UNCHANGED <<home, handle, generation>>
        /\ UNCHANGED active \/ \E q : active' = [active EXCEPT ![q] = FALSE]
    BY <1>5 DEF RevokeNext
  <2>2. active'[r] => active[r]
    BY <2>1, <1>t
  <2> QED BY <2>1, <2>2, <1>1, <1>t
<1>6. CASE \E q \in Recipients, t \in Terminals, granted \in SUBSET Kinds :
              Register(q, t, [k \in Kinds |-> k \in granted])
  <2>1. PICK q \in Recipients, t \in Terminals, granted \in SUBSET Kinds :
              Register(q, t, [k \in Kinds |-> k \in granted])
    BY <1>6
  <2>2. q = r => Stays
    BY <2>1, <1>t, NoneAssumption DEF Register, HomeInv
  <2>3. q # r => Stays
    BY <2>1, <1>t DEF Register
  <2>4. UNCHANGED generation
    BY <2>1 DEF Register
  <2> QED BY <2>2, <2>3, <2>4, <1>1
<1>7. CASE \E q \in Recipients, k \in Kinds : Grant(q, k) \/ Withdraw(q, k)
  <2>1. Stays /\ UNCHANGED generation
    BY <1>7, <1>t DEF Grant, Withdraw
  <2> QED BY <2>1, <1>1
<1>8. CASE \E q \in Recipients : DropHandle(q)
  <2>1. Stays /\ UNCHANGED generation
    BY <1>8, <1>t DEF DropHandle
  <2> QED BY <2>1, <1>1
<1> QED BY <1>2, <1>3, <1>4, <1>5, <1>6, <1>7, <1>8, RegistrationSteps

(* An effect keeps what it is, and none returns to the queue.               *)
Kept ==
    /\ DOMAIN effects' = DOMAIN effects
    /\ \A i \in DOMAIN effects :
        LET e == effects[i]
            f == effects'[i]
        IN /\ f.terminal = e.terminal /\ f.to = e.to /\ f.kind = e.kind
           /\ f.bytes = e.bytes /\ f.generation = e.generation
           /\ f.at = "queued" => e.at = "queued"
           /\ f.at = "popped" => e.at \in {"queued", "popped"}

LEMMA EffectsKept ==
    ASSUME TypeOK, [Next]_vars
    PROVE  Kept \/ \E t \in Terminals : Commit(t) /\ SameGeneration(t)
<1>t. effects \in Seq(Effects)
  BY DEF TypeOK
<1>e. ASSUME NEW i \in DOMAIN effects PROVE effects[i] \in Effects
  BY <1>t
<1>1. CASE UNCHANGED <<effects, used, shared>>
  BY <1>1 DEF Kept
<1>2. ASSUME NEW t \in Terminals, Commit(t), ~SameGeneration(t) PROVE Kept
  BY <1>2 DEF Commit, Kept
<1>3. ASSUME NEW w \in Workers, Clear(w) PROVE Kept
  BY <1>3, <1>e DEF Clear, Kept, Effects
<1>4. ASSUME NEW w \in Workers, FreeTerminal(w) PROVE Kept
  BY <1>4, <1>e DEF FreeTerminal, Kept, Effects
<1>5. ASSUME NEW w \in Workers, FreeProcess(w) PROVE Kept
  BY <1>5, <1>e DEF FreeProcess, Kept, Effects
<1>6. CASE TryNext
  <2>1. CASE UNCHANGED effects
    BY <2>1 DEF Kept
  <2> DEFINE current == {i \in Queued(draining) : IsCurrent(effects[i])}
             stale == {i \in Queued(draining) : \A j \in current : i < j}
  <2>2. CASE effects' = [i \in DOMAIN effects |->
                   IF i \in stale THEN [effects[i] EXCEPT !.at = "dropped", !.by = "ui"]
                   ELSE IF i \in current /\ i = First(current)
                   THEN [effects[i] EXCEPT !.at = "popped"]
                   ELSE effects[i]]
    <3>1. \A i \in current : effects[i].at = "queued"
      BY DEF Queued
    <3> HIDE DEF current, stale
    <3>2. ASSUME NEW i \in DOMAIN effects
          PROVE  effects'[i] \in
                    {effects[i], [effects[i] EXCEPT !.at = "dropped", !.by = "ui"],
                     [effects[i] EXCEPT !.at = "popped"]}
      BY <2>2
    <3>3. ASSUME NEW i \in DOMAIN effects, effects'[i].at = "popped"
          PROVE  effects[i].at \in {"queued", "popped"}
      BY <2>2, <3>1, <3>3, <1>e DEF Effects
    <3> QED BY <2>2, <3>2, <3>3, <1>e DEF Kept, Effects
  <2> QED BY <1>6, <2>1, <2>2 DEF TryNext
<1>7. ASSUME NEW i \in DOMAIN effects, CarryOut(i) PROVE Kept
  BY <1>7, <1>e DEF CarryOut, Kept, Effects
<1> QED BY <1>1, <1>2, <1>3, <1>4, <1>5, <1>6, <1>7, EffectSteps

(* A new effect is the last one. *)
LEMMA Appended ==
    ASSUME TypeOK, NEW t \in Terminals, Commit(t), SameGeneration(t)
    PROVE  /\ Len(effects) \in Nat /\ DOMAIN effects = 1..Len(effects)
           /\ DOMAIN effects' = 1..Len(effects) + 1
           /\ \A i \in DOMAIN effects : effects'[i] = effects[i]
           /\ LET e == effects'[Len(effects) + 1]
              IN /\ e.terminal = t /\ e.to = adm[t].to /\ e.kind = adm[t].kind
                 /\ e.bytes = adm[t].bytes /\ e.generation = adm[t].generation
                 /\ e.at = "queued" /\ ~e.withdrawn /\ ~e.carried
<1>1. effects \in Seq(Effects)
  BY DEF TypeOK
<1> QED BY <1>1 DEF Commit

-----------------------------------------------------------------------------
(* Each part of the invariant is kept. *)

LEMMA HomeKept ==
    ASSUME TypeOK, HomeInv, RevocationInv, [Next]_vars
    PROVE  HomeInv'
<1>t. /\ home \in [Recipients -> Terminals \cup {None}]
      /\ handle \in [Recipients -> {"new", "live", "dropping", "dropped"}]
      /\ active \in [Recipients -> BOOLEAN]
  BY DEF TypeOK
<1>1. CASE UNCHANGED regVars
  BY <1>1 DEF regVars, HomeInv
<1>2. ASSUME UNCHANGED <<home, handle>> PROVE HomeInv'
  BY <1>2, Lasting DEF HomeInv
<1>3. CASE \E w \in Workers : Advance(w) \/ FreeDone(w)
  <2>1. CASE \E w \in Workers : FreeDone(w)
    BY <2>1, <1>t DEF FreeDone, HomeInv
  <2> QED BY <1>3, <2>1, <1>2 DEF Advance
<1>4. CASE RevokeNext
  BY <1>4, <1>2 DEF RevokeNext
<1>5. CASE \E q \in Recipients, t \in Terminals, granted \in SUBSET Kinds :
              Register(q, t, [k \in Kinds |-> k \in granted])
  BY <1>5, <1>t, NoneAssumption DEF Register, HomeInv
<1>6. CASE \E q \in Recipients, k \in Kinds : Grant(q, k) \/ Withdraw(q, k)
  BY <1>6, <1>2 DEF Grant, Withdraw
<1>7. CASE \E q \in Recipients : DropHandle(q)
  BY <1>7, <1>t DEF DropHandle, HomeInv
<1> QED BY <1>1, <1>3, <1>4, <1>5, <1>6, <1>7, RegistrationSteps

LEMMA EffectInvKept ==
    ASSUME TypeOK, HomeInv, RevocationInv, EffectInv, AdmissionInv, [Next]_vars
    PROVE  EffectInv'
<1>e. ASSUME NEW i \in DOMAIN effects
      PROVE  /\ effects[i].to \in Recipients /\ effects[i].kind \in Kinds
             /\ effects[i].generation \in Nat
             /\ home[effects[i].to] = effects[i].terminal /\ effects[i].terminal \in Terminals
             /\ effects[i].generation <= generation[effects[i].to][effects[i].kind]
  <2>1. effects[i] \in Effects
    BY DEF TypeOK
  <2> QED BY <2>1 DEF Effects, EffectInv
<1>1. ASSUME NEW i \in DOMAIN effects
      PROVE  /\ home'[effects[i].to] = effects[i].terminal
             /\ effects[i].generation <= generation'[effects[i].to][effects[i].kind]
  BY <1>e, Lasting, NoneAssumption
<1>2. CASE Kept
  BY <1>1, <1>2 DEF Kept, EffectInv
<1>3. ASSUME NEW t \in Terminals, Commit(t), SameGeneration(t) PROVE EffectInv'
  <2>1. /\ adm[t].to \in Recipients /\ adm[t].kind \in Kinds /\ home[adm[t].to] = t
        /\ adm[t].generation = generation[adm[t].to][adm[t].kind]
    BY <1>3 DEF Commit, SameGeneration, AdmissionInv, Chosen
  <2>2. UNCHANGED <<home, generation>>
    BY <1>3 DEF Commit, regVars
  <2>3. generation[adm[t].to][adm[t].kind] \in Nat
    BY <2>1, Lasting
  <2>4. /\ home'[adm[t].to] = t
        /\ adm[t].generation <= generation'[adm[t].to][adm[t].kind]
    BY <2>1, <2>2, <2>3
  <2>5. ASSUME NEW i \in DOMAIN effects'
        PROVE  \/ i \in DOMAIN effects /\ effects'[i] = effects[i]
               \/ i = Len(effects) + 1
    <3>1. /\ Len(effects) \in Nat /\ DOMAIN effects = 1..Len(effects)
          /\ DOMAIN effects' = 1..Len(effects) + 1
          /\ \A j \in DOMAIN effects : effects'[j] = effects[j]
      BY <1>3, Appended
    <3>2. i \in 1..Len(effects) \/ i = Len(effects) + 1
      BY <3>1, <2>5
    <3> QED BY <3>1, <3>2
  <2>6. ASSUME NEW i \in DOMAIN effects'
        PROVE  /\ home'[effects'[i].to] = effects'[i].terminal
               /\ effects'[i].generation <= generation'[effects'[i].to][effects'[i].kind]
    <3>1. CASE i = Len(effects) + 1
      <4>1. /\ effects'[i].to = adm[t].to /\ effects'[i].kind = adm[t].kind
            /\ effects'[i].terminal = t /\ effects'[i].generation = adm[t].generation
        BY <3>1, <1>3, Appended
      <4> QED BY <4>1, <2>4
    <3>2. CASE i \in DOMAIN effects /\ effects'[i] = effects[i]
      BY <3>2, <1>1
    <3> QED BY <3>1, <3>2, <2>5
  <2> QED BY <2>6 DEF EffectInv
<1> QED BY <1>2, <1>3, EffectsKept

LEMMA LockKept ==
    ASSUME TypeOK, LockInv, [Next]_vars
    PROVE  LockInv'
<1>t. opc \in [Terminals -> AdmissionSteps]
  BY DEF TypeOK
<1>1. CASE UNCHANGED <<opc, adm>>
  BY <1>1 DEF LockInv
<1>2. ASSUME NEW t \in Terminals, NEW step, opc' = [opc EXCEPT ![t] = step],
             step \in Holding => opc[t] \in Holding
      PROVE  LockInv'
  BY <1>2, <1>t DEF LockInv
<1>3. ASSUME NEW t \in Terminals, LockProcess(t) PROVE LockInv'
  BY <1>3, <1>t DEF LockProcess, Goto, Return, ProcessFree, LockInv, Holding
<1>4. ASSUME NEW t \in Terminals, NEW k \in Kinds, NEW bytes \in Sizes, Admit(t, k, bytes)
      PROVE  LockInv'
  BY <1>4, <1>2 DEF Admit, Goto, Holding
<1>5. ASSUME NEW t \in Terminals, Admission(t), ~LockProcess(t) PROVE LockInv'
  BY <1>5, <1>2 DEF Admission, Pick, ReadGeneration, LockTerminal, LockQueue,
                    RecheckEligible, Commit, Signal, Goto, Return, Holding
<1> QED BY <1>1, <1>3, <1>4, <1>5, AdmittingSteps

LEMMA AdmissionKept ==
    ASSUME TypeOK, HomeInv, RevocationInv, AdmissionInv, [Next]_vars
    PROVE  AdmissionInv'
<1>t. /\ opc \in [Terminals -> AdmissionSteps] /\ LastGeneration \in Nat
      /\ generation \in [Recipients -> [Kinds -> 1..LastGeneration]]
      /\ DOMAIN adm = Terminals
  BY LimitsAssumption DEF TypeOK
<1> DEFINE Ok(t) ==
        /\ opc[t] # "idle" => adm[t].kind \in Kinds /\ adm[t].bytes \in Sizes
        /\ opc[t] \in Chosen => adm[t].to \in Recipients /\ home[adm[t].to] = t
        /\ opc[t] \in Stamped =>
              adm[t].generation \in 1..generation[adm[t].to][adm[t].kind]
<1>1. ASSUME NEW t \in Terminals, opc'[t] = opc[t], adm'[t] = adm[t] PROVE Ok(t)'
  <2>1. Ok(t)
    BY DEF AdmissionInv
  <2>2. CASE opc[t] \in Chosen
    <3>1. adm[t].to \in Recipients /\ home[adm[t].to] # None /\ adm[t].kind \in Kinds
      BY <2>1, <2>2, NoneAssumption DEF Chosen
    <3>2. /\ home'[adm[t].to] = home[adm[t].to]
          /\ generation[adm[t].to][adm[t].kind] \in Nat
          /\ generation'[adm[t].to][adm[t].kind] \in Nat
          /\ generation[adm[t].to][adm[t].kind] <= generation'[adm[t].to][adm[t].kind]
      BY <3>1, Lasting
    <3>3. opc[t] \in Stamped =>
              adm[t].generation \in 1..generation'[adm[t].to][adm[t].kind]
      BY <2>1, <3>2
    <3> QED BY <1>1, <2>1, <2>2, <3>2, <3>3 DEF Stamped
  <2> QED BY <1>1, <2>1, <2>2 DEF Stamped
<1>2. CASE UNCHANGED <<opc, adm>>
  BY <1>1, <1>2 DEF AdmissionInv
<1>3. ASSUME NEW t \in Terminals,
             Admission(t) \/ \E k \in Kinds, bytes \in Sizes : Admit(t, k, bytes)
      PROVE  AdmissionInv'
  <2>1. ASSUME NEW u \in Terminals \ {t} PROVE opc'[u] = opc[u] /\ adm'[u] = adm[u]
    BY <1>3, <1>t DEF Admission, Admit, Pick, ReadGeneration, LockTerminal, LockProcess,
       LockQueue, RecheckEligible, Commit, Signal, Goto, Return
  <2>2. Ok(t)
    BY DEF AdmissionInv
  <2>3. (\E k \in Kinds, bytes \in Sizes : Admit(t, k, bytes)) => Ok(t)'
    BY <1>t DEF Admit, Goto, NoAdmission, Chosen, Stamped
  <2>4. ASSUME Return(t) PROVE Ok(t)'
    BY <2>4, <1>t DEF Return, Goto, NoAdmission, Chosen, Stamped
  <2>5. ASSUME Pick(t) PROVE Ok(t)'
    <3>1. CASE Return(t)
      BY <3>1, <2>4
    <3>2. ASSUME NEW r \in Candidates(t), Goto(t, "generation"),
                 adm' = [adm EXCEPT ![t].to = r]
          PROVE  Ok(t)'
      BY <2>2, <2>5, <3>2, <1>t DEF Pick, Goto, Candidates, regVars, Chosen, Stamped
    <3> QED BY <2>5, <3>1, <3>2 DEF Pick
  <2>6. ASSUME ReadGeneration(t) PROVE Ok(t)'
    <3>1. /\ adm[t].kind \in Kinds /\ adm[t].bytes \in Sizes
          /\ adm[t].to \in Recipients /\ home[adm[t].to] = t
      BY <2>2, <2>6 DEF ReadGeneration, Chosen
    <3>2. adm'[t] = [adm[t] EXCEPT !.generation = generation[adm[t].to][adm[t].kind]]
      BY <2>6, <1>t DEF ReadGeneration
    <3>3. adm'[t].generation \in 1..generation[adm[t].to][adm[t].kind]
      <4>1. generation[adm[t].to][adm[t].kind] \in 1..LastGeneration
        BY <3>1, <1>t
      <4>2. adm'[t].generation = generation[adm[t].to][adm[t].kind]
        BY <2>6, <1>t, <3>1 DEF ReadGeneration, TypeOK
      <4> QED BY <4>1, <4>2, <1>t
    <3>4. UNCHANGED <<home, generation>> /\ opc'[t] = "terminal"
      BY <2>6, <1>t DEF ReadGeneration, Goto, regVars
    <3> QED BY <3>1, <3>2, <3>3, <3>4
  <2>7. ASSUME LockTerminal(t) \/ LockProcess(t) \/ LockQueue(t) \/ RecheckEligible(t)
               \/ Commit(t) \/ Signal(t), ~Return(t)
        PROVE  Ok(t)'
    BY <2>2, <2>7, <1>t DEF LockTerminal, LockProcess, LockQueue, RecheckEligible, Commit,
       Signal, Goto, regVars, Chosen, Stamped
  <2>8. Ok(t)'
    <3> HIDE DEF Ok
    <3> QED BY <1>3, <2>3, <2>4, <2>5, <2>6, <2>7 DEF Admission
  <2> QED BY <1>1, <2>1, <2>8 DEF AdmissionInv
<1> QED BY <1>2, <1>3, AdmittingSteps

(* Room that was found: only who holds the process's budget takes any. *)
LEMMA RoomKept ==
    ASSUME TypeOK, AdmissionInv, LockInv, RoomInv, [Next]_vars
    PROVE  RoomInv'
<1>t. /\ opc \in [Terminals -> AdmissionSteps]
      /\ used \in [Terminals -> Budgets] /\ shared \in Budgets
      /\ DOMAIN adm = Terminals
      /\ \A t \in Terminals : opc[t] # "idle" => adm[t].bytes \in Nat
  BY LimitsAssumption DEF TypeOK, AdmissionInv
<1>1. ASSUME UNCHANGED <<used, shared>> PROVE RoomInv'
  <2>1. CASE UNCHANGED <<opc, adm>>
    BY <1>1, <2>1 DEF RoomInv, HasRoom
  <2>2. ASSUME NEW t \in Terminals,
               Admission(t) \/ \E k \in Kinds, bytes \in Sizes : Admit(t, k, bytes)
        PROVE  RoomInv'
    <3>1. ASSUME NEW u \in Terminals \ {t} PROVE opc'[u] = opc[u] /\ adm'[u] = adm[u]
      BY <2>2, <1>t DEF Admission, Admit, Pick, ReadGeneration, LockTerminal, LockProcess,
         LockQueue, RecheckEligible, Commit, Signal, Goto, Return
    <3>2. opc'[t] \in Granted => HasRoom(t, adm[t].bytes) /\ adm'[t] = adm[t]
      BY <2>2, <1>t DEF Admission, Admit, Pick, ReadGeneration, LockTerminal, LockProcess,
         LockQueue, RecheckEligible, Commit, Signal, Goto, Return, Granted, RoomInv
    <3> QED BY <1>1, <3>1, <3>2 DEF RoomInv, HasRoom
  <2> QED BY <2>1, <2>2, AdmittingSteps
<1>2. ASSUME NEW t \in Terminals, Commit(t) PROVE RoomInv'
  <2>1. opc'[t] \notin Granted /\ \A u \in Terminals \ {t} : opc'[u] = opc[u]
    BY <1>2, <1>t DEF Commit, Goto, Return, Granted
  <2>2. \A u \in Terminals \ {t} : opc[u] \notin Holding
    BY <1>2 DEF Commit, LockInv, Holding
  <2> QED BY <2>1, <2>2 DEF RoomInv, Granted, Holding
<1>3. ASSUME NEW w \in Workers, FreeTerminal(w) \/ FreeProcess(w) PROVE RoomInv'
  <2>1. PICK i : effects[i].terminal \in Terminals /\ effects[i].bytes \in Nat /\
               \/ /\ used' = [used EXCEPT ![effects[i].terminal] =
                                           Unreserve(@, effects[i].bytes)]
                  /\ UNCHANGED shared
               \/ shared' = Unreserve(shared, effects[i].bytes) /\ UNCHANGED used
    <3>1. DroppedBy(w) \subseteq 1..Len(effects) /\ Len(effects) \in Nat
      BY DEF DroppedBy, TypeOK
    <3>2. First(DroppedBy(w)) \in DOMAIN effects
      BY <1>3, <3>1, FirstMember DEF FreeTerminal, FreeProcess, DroppedBy
    <3>3. effects[First(DroppedBy(w))] \in Effects
      BY <3>2 DEF TypeOK
    <3> QED BY <1>3, <3>3, LimitsAssumption DEF FreeTerminal, FreeProcess, Effects
  <2>2. UNCHANGED <<opc, adm>>
    BY <1>3 DEF FreeTerminal, FreeProcess
  <2>3. ASSUME NEW t \in Terminals, opc[t] \in Granted PROVE HasRoom(t, adm[t].bytes)'
    <3>1. HasRoom(t, adm[t].bytes) /\ adm[t].bytes \in Nat
      BY <2>3, <1>t DEF RoomInv, Granted
    <3>2. /\ used[t].effects \in Nat /\ used[t].bytes \in Nat
          /\ shared.effects \in Nat /\ shared.bytes \in Nat
      BY <1>t DEF Budgets
    <3>3. /\ used'[t].effects \in Int /\ used'[t].effects <= used[t].effects
          /\ used'[t].bytes \in Int /\ used'[t].bytes <= used[t].bytes
      BY <2>1, <3>2, <1>t DEF Unreserve
    <3>4. /\ shared'.effects \in Int /\ shared'.effects <= shared.effects
          /\ shared'.bytes \in Int /\ shared'.bytes <= shared.bytes
      BY <2>1, <3>2 DEF Unreserve
    <3> QED BY <3>1, <3>2, <3>3, <3>4, <2>2, LimitsAssumption DEF HasRoom, CanReserve
  <2> QED BY <2>2, <2>3 DEF RoomInv
<1>4. CASE TryNext \/ \E i \in DOMAIN effects : CarryOut(i)
  BY <1>4, <1>1 DEF TryNext, CarryOut, budgetVars
<1>5. ASSUME NEW w \in Workers, Clear(w) PROVE RoomInv'
  BY <1>5, <1>1 DEF Clear, budgetVars
<1> QED BY <1>1, <1>2, <1>3, <1>4, <1>5, EffectSteps

(* What is being revoked stays without permission, whatever happens.        *)
LEMMA Ineligible ==
    ASSUME TypeOK, HomeInv, RevocationInv, [Next]_vars,
           NEW w \in Workers, rev[w].step \in {"advance", "clear"}
    PROVE  /\ \A k \in rev[w].clear : ~(active'[rev[w].who] /\ allowed'[rev[w].who][k])
           /\ handle'[rev[w].who] # "new"
           /\ ~active[rev[w].who] => ~active'[rev[w].who]
<1> DEFINE r == rev[w].who
<1>t. /\ active \in [Recipients -> BOOLEAN]
      /\ allowed \in [Recipients -> [Kinds -> BOOLEAN]]
      /\ rev[w].clear \subseteq Kinds
  BY DEF TypeOK
<1>1. /\ r \in Recipients /\ handle[r] # "new"
      /\ \A k \in rev[w].clear : ~IsEligible(r, k)
      /\ w = "mux" => ~active[r]
  BY DEF RevocationInv
<1>2. handle'[r] # "new" /\ (active'[r] => active[r])
  BY <1>1, Lasting
<1>3. ASSUME allowed'[r] = allowed[r] PROVE \A k \in rev[w].clear : ~(active'[r] /\ allowed'[r][k])
  BY <1>1, <1>2, <1>3 DEF IsEligible
<1>4. CASE UNCHANGED allowed
  BY <1>2, <1>3, <1>4
<1>5. ASSUME NEW q \in Recipients, NEW t, NEW permissions, Register(q, t, permissions)
      PROVE  allowed'[r] = allowed[r]
  BY <1>1, <1>5, <1>t DEF Register
<1>6. ASSUME NEW q \in Recipients, NEW k \in Kinds, Grant(q, k)
      PROVE  allowed'[r] = allowed[r]
  <2>1. w # "ui"
    BY <1>6 DEF Grant
  <2> QED BY <2>1, <1>1, <1>6, <1>t DEF Grant, Workers
<1>7. ASSUME NEW q \in Recipients, NEW k \in Kinds, Withdraw(q, k)
      PROVE  \A l \in Kinds : allowed'[r][l] => allowed[r][l]
  BY <1>1, <1>7, <1>t DEF Withdraw
<1>8. ASSUME \A l \in Kinds : allowed'[r][l] => allowed[r][l]
      PROVE  \A k \in rev[w].clear : ~(active'[r] /\ allowed'[r][k])
  BY <1>1, <1>2, <1>8, <1>t DEF IsEligible
<1>9. ASSUME ~UNCHANGED allowed
      PROVE  \E q \in Recipients :
                \/ \E t \in Terminals, granted \in SUBSET Kinds :
                      Register(q, t, [k \in Kinds |-> k \in granted])
                \/ \E k \in Kinds : Grant(q, k) \/ Withdraw(q, k)
  BY <1>9, RegistrationSteps DEF regVars, Advance, FreeDone, RevokeNext, DropHandle
<1> HIDE DEF r
<1>10. \A k \in rev[w].clear : ~(active'[r] /\ allowed'[r][k])
  BY <1>3, <1>4, <1>5, <1>6, <1>7, <1>8, <1>9
<1> QED BY <1>2, <1>10 DEF r

LEMMA RevocationKept ==
    ASSUME TypeOK, HomeInv, RevocationInv, [Next]_vars
    PROVE  RevocationInv'
<1>t. /\ rev \in [Workers -> [step : RevocationSteps, who : Recipients \cup {None},
                              advance : SUBSET Kinds, clear : SUBSET Kinds,
                              todo : SUBSET Recipients, sink : Terminals \cup {None}]]
      /\ active \in [Recipients -> BOOLEAN]
      /\ allowed \in [Recipients -> [Kinds -> BOOLEAN]]
  BY DEF TypeOK
<1> DEFINE
    Of(w) ==
        rev[w].step \in {"advance", "clear"} =>
            /\ rev[w].who \in Recipients /\ handle[rev[w].who] # "new"
            /\ rev[w].advance \subseteq rev[w].clear
            /\ rev[w].step = "advance" <=> rev[w].advance # {}
            /\ \A k \in rev[w].clear : ~IsEligible(rev[w].who, k)
    OfUI == rev["ui"].step \notin {"lock", "next"} /\ rev["ui"].sink = None
    OfMux ==
        /\ rev["mux"].step = "idle" <=> rev["mux"].sink = None
        /\ rev["mux"].step \in {"advance", "clear"} =>
              rev["mux"].clear = Kinds /\ ~active[rev["mux"].who]
        /\ rev["mux"].step \notin {"idle", "lock"} =>
              \A r \in rev["mux"].todo : home[r] = rev["mux"].sink
<1>1. Of("ui") /\ Of("mux") /\ OfUI /\ OfMux
  BY DEF RevocationInv, Workers
<1> SUFFICES (Of("ui") /\ OfUI)' /\ (Of("mux") /\ OfMux)'
  BY DEF RevocationInv, Workers
<1>2. ASSUME NEW w \in Workers, rev'[w] = rev[w] PROVE Of(w)'
  BY <1>1, <1>2, Ineligible DEF Workers, IsEligible
<1>3. ASSUME rev'["ui"] = rev["ui"] PROVE (Of("ui") /\ OfUI)'
  BY <1>1, <1>2, <1>3 DEF Workers
<1>h. ASSUME rev["mux"].step \notin {"idle", "lock"}
      PROVE  \A r \in rev["mux"].todo : home'[r] = rev["mux"].sink
  <2>1. rev["mux"].sink # None /\ rev["mux"].todo \subseteq Recipients
    BY <1>1, <1>h, <1>t DEF Workers
  <2> QED BY <2>1, <1>1, <1>h, Lasting
<1>4. ASSUME rev'["mux"] = rev["mux"] PROVE (Of("mux") /\ OfMux)'
  <2>1. Of("mux")'
    BY <1>2, <1>4 DEF Workers
  <2>2. rev["mux"].step \in {"advance", "clear"} => ~active'[rev["mux"].who]
    BY <1>1, Ineligible DEF Workers
  <2> QED BY <2>1, <2>2, <1>1, <1>4, <1>h
<1>5. CASE UNCHANGED <<regVars, rev>>
  BY <1>3, <1>4, <1>5
<1>6. ASSUME NEW t \in Terminals, NEW meant \in SUBSET Recipients,
             Close(t) \/ Invalidate(t, meant)
      PROVE  (Of("ui") /\ OfUI)' /\ (Of("mux") /\ OfMux)'
  <2>1. /\ rev'["ui"] = rev["ui"]
        /\ rev'["mux"].step = "lock" /\ rev'["mux"].sink = t
    BY <1>6, <1>t DEF Close, Invalidate, Work, Workers, Idle
  <2> QED BY <2>1, <1>3, NoneAssumption
<1>7. ASSUME NEW w \in Workers, Advance(w)
      PROVE  (Of("ui") /\ OfUI)' /\ (Of("mux") /\ OfMux)'
  <2>1. PICK k \in rev[w].advance :
            rev' = [rev EXCEPT ![w] = [rev[w] EXCEPT !.advance = @ \ {k},
                       !.step = IF rev[w].advance = {k} THEN "clear" ELSE "advance"]]
    <3>1. (CHOOSE k \in Kinds : k \in rev[w].advance) \in rev[w].advance
      BY <1>1, <1>7, <1>t DEF Advance, Workers
    <3> QED BY <1>7, <3>1 DEF Advance, Work
  <2>2. /\ rev[w].step = "advance"
        /\ rev'[w].who = rev[w].who /\ rev'[w].clear = rev[w].clear
        /\ rev'[w].advance = rev[w].advance \ {k} /\ rev'[w].step \in {"advance", "clear"}
        /\ rev'[w].step = "clear" <=> rev[w].advance = {k}
        /\ rev'[w].todo = rev[w].todo /\ rev'[w].sink = rev[w].sink
        /\ \A v \in Workers \ {w} : rev'[v] = rev[v]
    BY <1>7, <2>1, <1>t DEF Advance
  <2>3. Of(w)'
    <3>1. /\ rev[w].who \in Recipients /\ handle'[rev[w].who] # "new"
          /\ rev[w].advance \subseteq rev[w].clear
          /\ \A l \in rev[w].clear : ~(active'[rev[w].who] /\ allowed'[rev[w].who][l])
      BY <1>1, <2>2, Ineligible DEF Workers
    <3> QED BY <2>1, <2>2, <3>1 DEF IsEligible
  <2>4. CASE w = "ui"
    BY <1>1, <1>4, <2>2, <2>3, <2>4 DEF Workers
  <2>5. CASE w = "mux"
    <3>1. ~active'[rev["mux"].who] /\ rev["mux"].clear = Kinds
      BY <1>1, <2>2, <2>5, Ineligible DEF Workers
    <3>2. OfMux'
      BY <1>1, <1>h, <2>2, <2>5, <3>1
    <3> QED BY <1>3, <2>2, <2>3, <2>5, <3>2 DEF Workers
  <2> QED BY <2>4, <2>5 DEF Workers
<1>8. ASSUME NEW w \in Workers, Clear(w) \/ FreeDone(w)
      PROVE  (Of("ui") /\ OfUI)' /\ (Of("mux") /\ OfMux)'
  <2>1. /\ rev[w].step \in {"clear", "free"} /\ UNCHANGED home
        /\ \A v \in Workers \ {w} : rev'[v] = rev[v]
        /\ \/ rev'[w] = [rev[w] EXCEPT !.step = "free"]
           \/ rev[w].sink = None /\ rev'[w] = Idle
           \/ rev[w].sink # None /\ rev'[w] = [rev[w] EXCEPT !.step = "next"]
    BY <1>8, <1>t DEF Clear, FreeDone, Work, regVars
  <2>2. CASE w = "ui"
    BY <1>1, <1>4, <2>1, <2>2, <1>t DEF Workers, Idle
  <2>3. CASE w = "mux"
    BY <1>1, <1>3, <2>1, <2>3, <1>t DEF Workers, Idle
  <2> QED BY <2>2, <2>3 DEF Workers
<1>9. CASE LockState
  <2>1. /\ rev["mux"].step = "lock" /\ UNCHANGED home /\ rev'["ui"] = rev["ui"]
        /\ rev'["mux"] = [rev["mux"] EXCEPT !.step = "next",
                             !.todo = {r \in @ : home[r] = rev["mux"].sink}]
    BY <1>9, <1>t DEF LockState, Work, regVars, Workers
  <2> QED BY <1>1, <1>3, <2>1, <1>t DEF Workers
<1>10. CASE RevokeNext
  <2>1. /\ rev["mux"].step = "next" /\ UNCHANGED <<home, handle>> /\ rev'["ui"] = rev["ui"]
    BY <1>10, <1>t DEF RevokeNext, Work, Revoking, Workers
  <2>2. CASE Work("mux", Idle)
    BY <1>3, <2>1, <2>2, <1>t DEF Work, Workers, Idle
  <2>3. ASSUME NEW r \in rev["mux"].todo, active' = [active EXCEPT ![r] = FALSE],
               Revoking("mux", r, Kinds)
        PROVE  (Of("ui") /\ OfUI)' /\ (Of("mux") /\ OfMux)'
    <3>1. r \in Recipients /\ home[r] = rev["mux"].sink /\ rev["mux"].sink # None
      BY <1>1, <2>1, <1>t DEF Workers
    <3>2. handle[r] # "new" /\ ~active'[r]
      BY <2>3, <3>1, <1>t DEF HomeInv
    <3>3. rev'["mux"] = [rev["mux"] EXCEPT !.step = "advance", !.who = r,
                          !.advance = Kinds, !.clear = Kinds, !.todo = @ \ {r}]
      BY <2>3, <1>t DEF Revoking, Work, Workers
    <3>4. /\ rev'["mux"].step = "advance" /\ rev'["mux"].who = r
          /\ rev'["mux"].advance = Kinds /\ rev'["mux"].clear = Kinds
          /\ rev'["mux"].sink = rev["mux"].sink /\ rev'["mux"].todo \subseteq rev["mux"].todo
      BY <3>3, <1>t DEF Workers
    <3>5. Of("mux")'
      BY <2>1, <3>1, <3>2, <3>4, LimitsAssumption DEF IsEligible
    <3>6. OfMux'
      BY <1>h, <2>1, <3>1, <3>2, <3>4
    <3> QED BY <1>3, <2>1, <3>5, <3>6
  <2>4. ASSUME NEW r \in rev["mux"].todo, Work("mux", [rev["mux"] EXCEPT !.todo = @ \ {r}])
        PROVE  (Of("ui") /\ OfUI)' /\ (Of("mux") /\ OfMux)'
    BY <1>1, <1>3, <2>1, <2>4, <1>t DEF Work, Workers
  <2> QED BY <1>10, <2>2, <2>3, <2>4 DEF RevokeNext
<1>11. ASSUME NEW r \in Recipients, NEW t, NEW permissions, NEW k,
              Register(r, t, permissions) \/ Grant(r, k)
       PROVE  (Of("ui") /\ OfUI)' /\ (Of("mux") /\ OfMux)'
  BY <1>3, <1>4, <1>11 DEF Register, Grant
<1>12. ASSUME NEW r \in Recipients, NEW kinds \in SUBSET Kinds, kinds # {},
              rev["ui"].step = "idle", handle[r] = "live", Revoking("ui", r, kinds),
              \A k \in kinds : ~IsEligible(r, k)'
       PROVE  (Of("ui") /\ OfUI)' /\ (Of("mux") /\ OfMux)'
  <2>1. rev' = [rev EXCEPT !["ui"] =
           [rev["ui"] EXCEPT !.step = "advance", !.who = r, !.advance = kinds,
                             !.clear = kinds, !.todo = @ \ {r}]]
    BY <1>12 DEF Revoking, Work
  <2>2. /\ rev'["ui"].step = "advance" /\ rev'["ui"].who = r
        /\ rev'["ui"].advance = kinds /\ rev'["ui"].clear = kinds
        /\ rev'["ui"].sink = rev["ui"].sink /\ rev'["mux"] = rev["mux"]
    BY <2>1, <1>t DEF Workers
  <2>3. handle'[r] # "new"
    BY <1>12, Lasting
  <2> QED BY <1>1, <1>4, <1>12, <2>2, <2>3 DEF IsEligible
<1>13. ASSUME NEW r \in Recipients, NEW k \in Kinds, Withdraw(r, k)
       PROVE  (Of("ui") /\ OfUI)' /\ (Of("mux") /\ OfMux)'
  <2>1. ~IsEligible(r, k)'
    BY <1>13, <1>t DEF Withdraw, IsEligible
  <2>2. rev["ui"].step = "idle" /\ handle[r] = "live" /\ Revoking("ui", r, {k})
    BY <1>13 DEF Withdraw
  <2> QED BY <1>12, <2>1, <2>2
<1>14. ASSUME NEW r \in Recipients, DropHandle(r)
       PROVE  (Of("ui") /\ OfUI)' /\ (Of("mux") /\ OfMux)'
  <2>1. \A k \in Kinds : ~IsEligible(r, k)'
    BY <1>14, <1>t DEF DropHandle, IsEligible
  <2>2. rev["ui"].step = "idle" /\ handle[r] = "live" /\ Revoking("ui", r, Kinds)
    BY <1>14 DEF DropHandle
  <2> QED BY <1>12, <2>1, <2>2, LimitsAssumption
<1>15. CASE TryNext \/ \E i \in DOMAIN effects : CarryOut(i)
  <2>1. /\ rev'["mux"] = rev["mux"]
        /\ rev'["ui"] \in {rev["ui"], Idle, [Idle EXCEPT !.step = "free"]}
    BY <1>15, <1>t DEF TryNext, CarryOut, Work, Workers
  <2>2. \/ rev'["ui"] = rev["ui"]
        \/ rev'["ui"].step \in {"idle", "free"} /\ rev'["ui"].sink = None
    BY <2>1 DEF Idle
  <2> QED BY <1>3, <1>4, <2>1, <2>2
<1> HIDE DEF Of, OfUI, OfMux
<1> QED BY <1>5, <1>6, <1>7, <1>8, <1>9, <1>10, <1>11, <1>13, <1>14, <1>15, ControlSteps

-----------------------------------------------------------------------------
(* Types. *)

LEMMA RegistrationTypes ==
    ASSUME TypeOK, RevocationInv, [Next]_vars
    PROVE  /\ home' \in [Recipients -> Terminals \cup {None}]
           /\ handle' \in [Recipients -> {"new", "live", "dropping", "dropped"}]
           /\ active' \in [Recipients -> BOOLEAN]
           /\ allowed' \in [Recipients -> [Kinds -> BOOLEAN]]
           /\ generation' \in [Recipients -> [Kinds -> 1..LastGeneration]]
<1>t. /\ home \in [Recipients -> Terminals \cup {None}]
      /\ handle \in [Recipients -> {"new", "live", "dropping", "dropped"}]
      /\ active \in [Recipients -> BOOLEAN]
      /\ allowed \in [Recipients -> [Kinds -> BOOLEAN]]
      /\ generation \in [Recipients -> [Kinds -> 1..LastGeneration]]
      /\ LastGeneration \in Nat
  BY LimitsAssumption DEF TypeOK
<1>1. CASE UNCHANGED regVars
  BY <1>1, <1>t DEF regVars
<1>2. ASSUME NEW w \in Workers, Advance(w)
      PROVE  /\ active' \in [Recipients -> BOOLEAN]
             /\ generation' \in [Recipients -> [Kinds -> 1..LastGeneration]]
  <2>1. rev[w].who \in Recipients
    BY <1>2 DEF Advance, RevocationInv
  <2>2. CASE active' = [active EXCEPT ![rev[w].who] = FALSE] /\ UNCHANGED generation
    BY <2>2, <1>t
  <2>3. ASSUME NEW k \in Kinds, UNCHANGED active,
               generation[rev[w].who][k] < LastGeneration,
               generation' = [generation EXCEPT ![rev[w].who][k] = @ + 1]
        PROVE  /\ active' \in [Recipients -> BOOLEAN]
               /\ generation' \in [Recipients -> [Kinds -> 1..LastGeneration]]
    <3>1. generation[rev[w].who][k] + 1 \in 1..LastGeneration
      <4>1. generation[rev[w].who][k] \in 1..LastGeneration
        BY <2>1, <1>t
      <4> QED BY <2>3, <4>1, <1>t
    <3>2. generation[rev[w].who] \in [Kinds -> 1..LastGeneration]
      BY <2>1, <1>t
    <3>3. [generation[rev[w].who] EXCEPT ![k] = @ + 1] \in [Kinds -> 1..LastGeneration]
      BY <3>1, <3>2
    <3>4. generation' = [generation EXCEPT ![rev[w].who] =
                            [generation[rev[w].who] EXCEPT ![k] = @ + 1]]
      BY <2>3
    <3> QED BY <2>3, <3>3, <3>4, <1>t
  <2>4. (CHOOSE k \in Kinds : k \in rev[w].advance) \in Kinds
    BY <1>2 DEF Advance, RevocationInv, TypeOK
  <2> QED BY <1>2, <2>2, <2>3, <2>4 DEF Advance
<1>3. CASE \E w \in Workers : Advance(w)
  BY <1>3, <1>2, <1>t DEF Advance
<1>4. CASE \E w \in Workers : FreeDone(w)
  <2>1. PICK w \in Workers : FreeDone(w)
    BY <1>4
  <2>2. handle' \in [Recipients -> {"new", "live", "dropping", "dropped"}]
    BY <2>1, <1>t DEF FreeDone
  <2> QED BY <2>1, <2>2, <1>t DEF FreeDone
<1>5. CASE RevokeNext
  BY <1>5, <1>t DEF RevokeNext
<1>6. ASSUME NEW r \in Recipients, NEW t \in Terminals, NEW granted \in SUBSET Kinds,
             Register(r, t, [k \in Kinds |-> k \in granted])
      PROVE  /\ home' \in [Recipients -> Terminals \cup {None}]
             /\ handle' \in [Recipients -> {"new", "live", "dropping", "dropped"}]
             /\ active' \in [Recipients -> BOOLEAN]
             /\ allowed' \in [Recipients -> [Kinds -> BOOLEAN]]
             /\ generation' = generation
  <2>1. [k \in Kinds |-> k \in granted] \in [Kinds -> BOOLEAN]
    OBVIOUS
  <2> DEFINE permissions == [k \in Kinds |-> k \in granted]
  <2> HIDE DEF permissions
  <2>2. Register(r, t, permissions) /\ permissions \in [Kinds -> BOOLEAN]
    BY <1>6, <2>1 DEF permissions
  <2> QED BY <2>2, <1>t DEF Register
<1>7. ASSUME NEW r \in Recipients, NEW k \in Kinds, Grant(r, k) \/ Withdraw(r, k)
      PROVE  allowed' \in [Recipients -> [Kinds -> BOOLEAN]]
  <2>1. PICK x \in BOOLEAN : allowed' = [allowed EXCEPT ![r][k] = x]
    BY <1>7 DEF Grant, Withdraw
  <2>2. [allowed[r] EXCEPT ![k] = x] \in [Kinds -> BOOLEAN]
    BY <1>t
  <2>3. allowed' = [allowed EXCEPT ![r] = [allowed[r] EXCEPT ![k] = x]]
    BY <2>1
  <2> QED BY <2>2, <2>3, <1>t
<1>8. CASE \E r \in Recipients, k \in Kinds : Grant(r, k) \/ Withdraw(r, k)
  BY <1>8, <1>7, <1>t DEF Grant, Withdraw
<1>9. CASE \E r \in Recipients : DropHandle(r)
  BY <1>9, <1>t DEF DropHandle
<1> QED BY <1>1, <1>3, <1>4, <1>5, <1>6, <1>8, <1>9, <1>t, RegistrationSteps

LEMMA EffectTypes ==
    ASSUME TypeOK, AdmissionInv, RevocationInv, [Next]_vars
    PROVE  effects' \in Seq(Effects)
<1>t. /\ effects \in Seq(Effects)
      /\ \A i \in DOMAIN effects : effects[i] \in Effects
      /\ Len(effects) \in Nat /\ DOMAIN effects = 1..Len(effects)
  BY DEF TypeOK
<1>1. ASSUME DOMAIN effects' = DOMAIN effects,
             effects' = [i \in DOMAIN effects |-> effects'[i]],
             \A i \in DOMAIN effects : effects'[i] \in Effects
      PROVE  effects' \in Seq(Effects)
  BY <1>1, <1>t
<1>2. ASSUME NEW t \in Terminals, Commit(t), SameGeneration(t)
      PROVE  effects' \in Seq(Effects)
  <2> DEFINE e == [terminal |-> t, to |-> adm[t].to, kind |-> adm[t].kind,
                   bytes |-> adm[t].bytes, generation |-> adm[t].generation,
                   at |-> "queued", by |-> "ui", withdrawn |-> FALSE, carried |-> FALSE]
  <2>1. /\ adm[t].to \in Recipients /\ adm[t].kind \in Kinds /\ adm[t].bytes \in Sizes
        /\ generation[adm[t].to][adm[t].kind] = adm[t].generation
    BY <1>2 DEF Commit, SameGeneration, AdmissionInv, Chosen
  <2>2. adm[t].generation \in 1..LastGeneration
    BY <2>1 DEF TypeOK
  <2>3. e \in Effects
    BY <2>1, <2>2 DEF Effects, Places, Workers
  <2>4. effects' = Append(effects, e)
    BY <1>2 DEF Commit
  <2> QED BY <2>3, <2>4, <1>t
<1>3. ASSUME NEW w \in Workers, Clear(w) PROVE effects' \in Seq(Effects)
  <2>1. ASSUME NEW i \in DOMAIN effects PROVE effects'[i] \in Effects
    BY <1>3, <1>t DEF Clear, Effects, Places
  <2> QED BY <1>3, <2>1, <1>1 DEF Clear
<1>4. ASSUME NEW w \in Workers, FreeTerminal(w) PROVE effects' \in Seq(Effects)
  <2>1. ASSUME NEW i \in DOMAIN effects PROVE effects'[i] \in Effects
    BY <1>4, <1>t DEF FreeTerminal, Effects, Places
  <2> QED BY <1>4, <2>1, <1>1 DEF FreeTerminal
<1>5. ASSUME NEW w \in Workers, FreeProcess(w) PROVE effects' \in Seq(Effects)
  <2>1. ASSUME NEW i \in DOMAIN effects PROVE effects'[i] \in Effects
    BY <1>5, <1>t DEF FreeProcess, Effects, Places
  <2> QED BY <1>5, <2>1, <1>1 DEF FreeProcess
<1>6. CASE TryNext
  <2> DEFINE current == {i \in Queued(draining) : IsCurrent(effects[i])}
             stale == {i \in Queued(draining) : \A j \in current : i < j}
  <2>1. CASE effects' = [i \in DOMAIN effects |->
                   IF i \in stale THEN [effects[i] EXCEPT !.at = "dropped", !.by = "ui"]
                   ELSE IF i \in current /\ i = First(current)
                   THEN [effects[i] EXCEPT !.at = "popped"]
                   ELSE effects[i]]
    <3> HIDE DEF current, stale
    <3>1. ASSUME NEW i \in DOMAIN effects PROVE effects'[i] \in Effects
      BY <2>1, <1>t DEF Effects, Places, Workers
    <3> QED BY <2>1, <3>1, <1>1
  <2> QED BY <1>6, <2>1, <1>t DEF TryNext
<1>7. ASSUME NEW j \in DOMAIN effects, CarryOut(j) PROVE effects' \in Seq(Effects)
  <2>1. IsCurrent(effects[j]) \in BOOLEAN
    BY DEF IsCurrent
  <2>2. PICK x \in BOOLEAN :
           effects' = [effects EXCEPT ![j] =
                          [effects[j] EXCEPT !.at = "dropped", !.by = "ui", !.carried = x]]
    BY <1>7, <2>1, <1>t DEF CarryOut, Effects
  <2>3. ASSUME NEW i \in DOMAIN effects PROVE effects'[i] \in Effects
    BY <2>2, <1>t DEF Effects, Places, Workers
  <2> QED BY <2>2, <2>3, <1>1
<1>8. ASSUME NEW t \in Terminals, Commit(t), ~SameGeneration(t)
      PROVE  effects' \in Seq(Effects)
  BY <1>8, <1>t DEF Commit
<1> QED BY <1>2, <1>3, <1>4, <1>5, <1>6, <1>7, <1>8, <1>t, EffectSteps

LEMMA AdmissionTypes ==
    ASSUME TypeOK, AdmissionInv, [Next]_vars
    PROVE  /\ opc' \in [Terminals -> AdmissionSteps]
           /\ adm' \in [Terminals -> [kind : Kinds \cup {None}, bytes : Sizes \cup {0},
                             to : Recipients \cup {None}, generation : 0..LastGeneration]]
<1> DEFINE A == [kind : Kinds \cup {None}, bytes : Sizes \cup {0},
                 to : Recipients \cup {None}, generation : 0..LastGeneration]
<1>t. /\ opc \in [Terminals -> AdmissionSteps] /\ adm \in [Terminals -> A]
      /\ LastGeneration \in Nat /\ 0 \in 0..LastGeneration
      /\ \A r \in Recipients, k \in Kinds : generation[r][k] \in 0..LastGeneration
  BY LimitsAssumption DEF TypeOK
<1>1. NoAdmission \in A
  BY <1>t DEF NoAdmission
<1>2. ASSUME NEW t \in Terminals, NEW step \in AdmissionSteps, NEW a \in A,
             Goto(t, step), adm' = [adm EXCEPT ![t] = a] \/ UNCHANGED adm
      PROVE  opc' \in [Terminals -> AdmissionSteps] /\ adm' \in [Terminals -> A]
  BY <1>2, <1>t DEF Goto
<1>3. ASSUME NEW t \in Terminals, Return(t)
      PROVE  opc' \in [Terminals -> AdmissionSteps] /\ adm' \in [Terminals -> A]
  <2> HIDE DEF A
  <2> QED BY <1>1, <1>2, <1>3 DEF Return, AdmissionSteps
<1>4. ASSUME NEW t \in Terminals, NEW k \in Kinds, NEW bytes \in Sizes, Admit(t, k, bytes)
      PROVE  opc' \in [Terminals -> AdmissionSteps] /\ adm' \in [Terminals -> A]
  <2>1. [NoAdmission EXCEPT !.kind = k, !.bytes = bytes] \in A
    BY <1>t DEF NoAdmission
  <2> HIDE DEF A
  <2> QED BY <1>2, <1>4, <2>1 DEF Admit, AdmissionSteps
<1>5. ASSUME NEW t \in Terminals, Pick(t), ~Return(t)
      PROVE  opc' \in [Terminals -> AdmissionSteps] /\ adm' \in [Terminals -> A]
  <2>1. PICK r \in Recipients : /\ Goto(t, "generation")
                                /\ adm' = [adm EXCEPT ![t] = [adm[t] EXCEPT !.to = r]]
    BY <1>5 DEF Pick, Candidates
  <2>2. [adm[t] EXCEPT !.to = r] \in A
    BY <1>t
  <2> HIDE DEF A
  <2> QED BY <1>2, <2>1, <2>2 DEF AdmissionSteps
<1>6. ASSUME NEW t \in Terminals, ReadGeneration(t)
      PROVE  opc' \in [Terminals -> AdmissionSteps] /\ adm' \in [Terminals -> A]
  <2> DEFINE g == generation[adm[t].to][adm[t].kind]
  <2>1. g \in 0..LastGeneration
    BY <1>6, <1>t DEF ReadGeneration, AdmissionInv, Chosen
  <2>2. Goto(t, "terminal") /\ adm' = [adm EXCEPT ![t] = [adm[t] EXCEPT !.generation = g]]
    BY <1>6 DEF ReadGeneration
  <2>3. [adm[t] EXCEPT !.generation = g] \in A
    BY <1>t, <2>1
  <2> HIDE DEF A, g
  <2> QED BY <1>2, <2>2, <2>3 DEF AdmissionSteps
<1>7. ASSUME NEW t \in Terminals, ~Return(t),
             \/ LockTerminal(t) \/ LockProcess(t) \/ LockQueue(t) \/ RecheckEligible(t)
             \/ Commit(t) \/ Signal(t)
      PROVE  opc' \in [Terminals -> AdmissionSteps] /\ adm' \in [Terminals -> A]
  <2>1. PICK step \in AdmissionSteps : Goto(t, step) /\ UNCHANGED adm
    BY <1>7 DEF LockTerminal, LockProcess, LockQueue, RecheckEligible, Commit, Signal,
                AdmissionSteps
  <2> HIDE DEF A
  <2> QED BY <1>2, <2>1, <1>1
<1> HIDE DEF A
<1>8. opc' \in [Terminals -> AdmissionSteps] /\ adm' \in [Terminals -> A]
  BY <1>3, <1>4, <1>5, <1>6, <1>7, <1>t, AdmittingSteps DEF Admission
<1> QED BY <1>8 DEF A

LEMMA WorkerTypes ==
    ASSUME TypeOK, RevocationInv, [Next]_vars
    PROVE  rev' \in [Workers -> [step : RevocationSteps, who : Recipients \cup {None},
                           advance : SUBSET Kinds, clear : SUBSET Kinds,
                           todo : SUBSET Recipients, sink : Terminals \cup {None}]]
<1> DEFINE R == [step : RevocationSteps, who : Recipients \cup {None},
                 advance : SUBSET Kinds, clear : SUBSET Kinds,
                 todo : SUBSET Recipients, sink : Terminals \cup {None}]
<1>t. rev \in [Workers -> R] /\ rev["ui"] \in R /\ rev["mux"] \in R
  BY DEF TypeOK, Workers
<1>1. ASSUME NEW w \in Workers, NEW x \in R, Work(w, x) PROVE rev' \in [Workers -> R]
  <2> HIDE DEF R
  <2> QED BY <1>1, <1>t DEF Work
<1>2. /\ Idle \in R /\ [Idle EXCEPT !.step = "free"] \in R
      /\ \A t \in Terminals, todo \in SUBSET Recipients :
            [Idle EXCEPT !.step = "lock", !.sink = t, !.todo = todo] \in R
  BY DEF Idle, RevocationSteps
<1>3. ASSUME NEW t \in Terminals, NEW meant \in SUBSET Recipients,
             Close(t) \/ Invalidate(t, meant)
      PROVE  rev' \in [Workers -> R]
  <2> HIDE DEF R
  <2> QED BY <1>1, <1>2, <1>3 DEF Close, Invalidate, Workers
<1>4. ASSUME NEW w \in Workers, Advance(w) \/ Clear(w) \/ FreeDone(w)
      PROVE  rev' \in [Workers -> R]
  <2>1. rev[w] \in R
    BY <1>t
  <2>2. \A k : [rev[w] EXCEPT !.advance = @ \ {k},
                   !.step = IF rev[w].advance = {k} THEN "clear" ELSE "advance"] \in R
    BY <2>1 DEF RevocationSteps
  <2>3. [rev[w] EXCEPT !.step = "free"] \in R /\ [rev[w] EXCEPT !.step = "next"] \in R
    BY <2>1 DEF RevocationSteps
  <2> HIDE DEF R
  <2> QED BY <1>1, <1>2, <1>4, <2>2, <2>3 DEF Advance, Clear, FreeDone
<1>5. ASSUME LockState PROVE rev' \in [Workers -> R]
  <2>1. [rev["mux"] EXCEPT !.step = "next",
            !.todo = {r \in @ : home[r] = rev["mux"].sink}] \in R
    BY <1>t DEF RevocationSteps
  <2> HIDE DEF R
  <2> QED BY <1>1, <1>5, <2>1 DEF LockState, Workers
<1>6. ASSUME NEW w \in Workers, NEW r \in Recipients, NEW kinds \in SUBSET Kinds,
             Revoking(w, r, kinds)
      PROVE  rev' \in [Workers -> R]
  <2>1. [rev[w] EXCEPT !.step = "advance", !.who = r, !.advance = kinds,
                       !.clear = kinds, !.todo = @ \ {r}] \in R
    BY <1>t DEF RevocationSteps
  <2> HIDE DEF R
  <2> QED BY <1>1, <1>6, <2>1 DEF Revoking
<1>7. ASSUME RevokeNext PROVE rev' \in [Workers -> R]
  <2>1. rev["mux"].todo \subseteq Recipients
    BY <1>t
  <2>2. \A r : [rev["mux"] EXCEPT !.todo = @ \ {r}] \in R
    BY <1>t
  <2> HIDE DEF R
  <2> QED BY <1>1, <1>2, <1>6, <1>7, <2>1, <2>2 DEF RevokeNext, Workers
<1>8. ASSUME NEW r \in Recipients, DropHandle(r) \/ \E k \in Kinds : Withdraw(r, k)
      PROVE  rev' \in [Workers -> R]
  <2> HIDE DEF R
  <2>1. \A k \in Kinds : {k} \in SUBSET Kinds
    OBVIOUS
  <2> QED BY <1>6, <1>8, <2>1 DEF DropHandle, Withdraw, Workers
<1>9. ASSUME TryNext \/ \E i \in DOMAIN effects : CarryOut(i)
      PROVE  rev' \in [Workers -> R]
  <2> HIDE DEF R
  <2>1. UNCHANGED rev \/ Work("ui", Idle) \/ Work("ui", [Idle EXCEPT !.step = "free"])
    BY <1>9 DEF TryNext, CarryOut
  <2> QED BY <2>1, <1>1, <1>2, <1>t DEF Workers
<1> HIDE DEF R
<1>10. rev' \in [Workers -> R]
  BY <1>3, <1>4, <1>5, <1>7, <1>8, <1>9, <1>t, WorkerSteps
<1> QED BY <1>10 DEF R

LEMMA OtherTypes ==
    ASSUME TypeOK, AdmissionInv, [Next]_vars
    PROVE  /\ closed' \in [Terminals -> BOOLEAN]
           /\ signal' \in [Recipients -> BOOLEAN]
           /\ draining' \in Recipients \cup {None}
           /\ missed' \subseteq Recipients
           /\ admits' \in 0..MaxAdmits /\ cancels' \in 0..MaxCancels
           /\ scenario' \in Scenarios
<1>t. /\ closed \in [Terminals -> BOOLEAN] /\ signal \in [Recipients -> BOOLEAN]
      /\ draining \in Recipients \cup {None} /\ missed \subseteq Recipients
      /\ admits \in 0..MaxAdmits /\ cancels \in 0..MaxCancels
      /\ scenario \in Scenarios /\ MaxAdmits \in Nat /\ MaxCancels \in Nat
  BY LimitsAssumption DEF TypeOK
<1> USE DEF viewVars, bounds
<1>1. CASE UNCHANGED vars
  BY <1>1, <1>t DEF vars
<1>2. ASSUME NEW t \in Terminals, Admission(t), ~Signal(t)
      PROVE  UNCHANGED <<closed, signal, draining, missed, admits, cancels, scenario>>
  BY <1>2 DEF Admission, Pick, ReadGeneration, LockTerminal, LockProcess, LockQueue,
              RecheckEligible, Commit
<1>3. ASSUME NEW t \in Terminals, NEW k, NEW bytes, Admit(t, k, bytes)
      PROVE  /\ admits' \in 0..MaxAdmits
             /\ UNCHANGED <<closed, signal, draining, missed, cancels, scenario>>
  BY <1>3, <1>t DEF Admit
<1>4. ASSUME NEW t \in Terminals, Signal(t)
      PROVE  /\ signal' \in [Recipients -> BOOLEAN]
             /\ UNCHANGED <<closed, draining, missed, admits, cancels, scenario>>
  BY <1>4, <1>t DEF Signal
<1>5. ASSUME NEW t \in Terminals, NEW meant, Close(t) \/ Invalidate(t, meant)
      PROVE  /\ cancels' \in 0..MaxCancels
             /\ closed' \in [Terminals -> BOOLEAN]
             /\ UNCHANGED <<signal, draining, missed, admits, scenario>>
  <2>1. cancels' \in 0..MaxCancels
    BY <1>5, <1>t DEF Close, Invalidate, Cancel
  <2>2. closed' \in [Terminals -> BOOLEAN]
    BY <1>5, <1>t DEF Close, Invalidate
  <2> QED BY <1>5, <2>1, <2>2 DEF Close, Invalidate
<1>6. ASSUME \/ \E w \in Workers : Revocation(w)
             \/ LockState \/ RevokeNext
             \/ \E i \in DOMAIN effects : CarryOut(i)
      PROVE  UNCHANGED <<closed, signal, draining, missed, admits, cancels, scenario>>
  BY <1>6 DEF Revocation, Advance, Clear, FreeTerminal, FreeProcess, FreeDone, LockState,
              RevokeNext, CarryOut
<1>7. ASSUME NEW r \in Recipients, NEW t, NEW k, NEW permissions,
             Register(r, t, permissions) \/ Grant(r, k)
      PROVE  UNCHANGED <<closed, signal, draining, missed, admits, cancels, scenario>>
  BY <1>7 DEF Register, Grant
<1>8. ASSUME NEW r \in Recipients, NEW k, Withdraw(r, k)
      PROVE  /\ cancels' \in 0..MaxCancels
             /\ UNCHANGED <<closed, signal, draining, missed, admits, scenario>>
  BY <1>8, <1>t DEF Withdraw
<1>9. ASSUME NEW r \in Recipients, DropHandle(r)
      PROVE  /\ draining' \in Recipients \cup {None}
             /\ UNCHANGED <<closed, signal, missed, admits, cancels, scenario>>
  BY <1>9, <1>t DEF DropHandle
<1>10. ASSUME NEW r \in Recipients, Drain(r)
       PROVE  /\ draining' \in Recipients \cup {None} /\ missed' \subseteq Recipients
              /\ signal' \in [Recipients -> BOOLEAN]
              /\ UNCHANGED <<closed, admits, cancels, scenario>>
  BY <1>10, <1>t DEF Drain
<1>11. ASSUME TryNext
       PROVE  /\ draining' \in Recipients \cup {None} /\ missed' \subseteq Recipients
              /\ UNCHANGED <<closed, signal, admits, cancels, scenario>>
  BY <1>11, <1>t DEF TryNext, StillDraining
<1> QED BY <1>1, <1>2, <1>3, <1>4, <1>5, <1>6, <1>7, <1>8, <1>9, <1>10, <1>11, <1>t
        DEF Next, Delivery

-----------------------------------------------------------------------------
(* What withdrawals leave behind. *)

LEMMA DeadLasts ==
    ASSUME TypeOK, HomeInv, RevocationInv, [Next]_vars,
           NEW r \in Recipients, NEW k \in Kinds, NEW g \in Nat, Dead(r, k, g)
    PROVE  Dead(r, k, g)'
<1>1. ASSUME g < generation[r][k] PROVE g < generation'[r][k]
  BY <1>1, Lasting
<1>2. ASSUME ~active[r], handle[r] # "new" PROVE ~active'[r] /\ handle'[r] # "new"
  BY <1>2, Lasting
<1> QED BY <1>1, <1>2 DEF Dead

LEMMA DeadIsNotCurrent ==
    ASSUME TypeOK, NEW i \in DOMAIN effects,
           Dead(effects[i].to, effects[i].kind, effects[i].generation)
    PROVE  ~IsCurrent(effects[i])
<1>1. effects[i] \in Effects
  BY DEF TypeOK
<1>2. /\ effects[i].to \in Recipients /\ effects[i].kind \in Kinds
      /\ effects[i].generation \in 1..LastGeneration
  BY <1>1 DEF Effects
<1>3. ASSUME effects[i].generation < generation[effects[i].to][effects[i].kind]
      PROVE  generation[effects[i].to][effects[i].kind] # effects[i].generation
  <2>1. effects[i].generation \in Int
    BY <1>2, LimitsAssumption
  <2> QED BY <1>3, <2>1
<1> QED BY <1>3 DEF Dead, IsCurrent, IsEligible

(* A revocation's window stays as it is until the queue is emptied.         *)
LEMMA WindowLasts ==
    ASSUME TypeOK, RevocationInv, [Next]_vars,
           NEW w \in Workers, rev[w].step \in {"advance", "clear"}
    PROVE  \/ Clear(w)
           \/ /\ rev'[w].step \in {"advance", "clear"}
              /\ rev'[w].who = rev[w].who /\ rev'[w].clear = rev[w].clear
              /\ rev'[w].todo = rev[w].todo /\ rev'[w].sink = rev[w].sink
              /\ \/ rev'[w].advance = rev[w].advance
                 \/ /\ Advance(w)
                    /\ rev'[w].advance =
                          rev[w].advance \ {CHOOSE k \in Kinds : k \in rev[w].advance}
<1>t. rev \in [Workers -> [step : RevocationSteps, who : Recipients \cup {None},
                              advance : SUBSET Kinds, clear : SUBSET Kinds,
                              todo : SUBSET Recipients, sink : Terminals \cup {None}]]
  BY DEF TypeOK
<1> DEFINE Same == rev'[w] = rev[w]
<1>1. ASSUME NEW t \in Terminals, NEW meant \in SUBSET Recipients,
             Close(t) \/ Invalidate(t, meant)
      PROVE  Same
  BY <1>1, <1>t DEF Close, Invalidate, Cancel, Work
<1>2. ASSUME NEW v \in Workers, v # w, Advance(v) \/ Clear(v) \/ FreeDone(v)
      PROVE  Same
  BY <1>2, <1>t DEF Advance, Clear, FreeDone, Work
<1>3. ~FreeDone(w)
  BY DEF FreeDone
<1>4. ASSUME Advance(w)
      PROVE  /\ rev'[w].step \in {"advance", "clear"}
             /\ rev'[w].who = rev[w].who /\ rev'[w].clear = rev[w].clear
             /\ rev'[w].todo = rev[w].todo /\ rev'[w].sink = rev[w].sink
             /\ rev'[w].advance = rev[w].advance \ {CHOOSE k \in Kinds : k \in rev[w].advance}
  <2> DEFINE k == CHOOSE k \in Kinds : k \in rev[w].advance
  <2>1. rev'[w] = [rev[w] EXCEPT !.advance = @ \ {k},
                       !.step = IF rev[w].advance = {k} THEN "clear" ELSE "advance"]
    BY <1>4, <1>t DEF Advance, Work
  <2> HIDE DEF k
  <2>2. /\ rev'[w].step \in {"advance", "clear"}
        /\ rev'[w].who = rev[w].who /\ rev'[w].clear = rev[w].clear
        /\ rev'[w].todo = rev[w].todo /\ rev'[w].sink = rev[w].sink
        /\ rev'[w].advance = rev[w].advance \ {k}
    BY <2>1, <1>t
  <2> QED BY <2>2 DEF k
<1>5. ASSUME LockState \/ RevokeNext PROVE Same
  BY <1>5, <1>t DEF LockState, RevokeNext, Work, Revoking
<1>6. ASSUME NEW r, NEW t, NEW permissions, NEW k,
             \/ Register(r, t, permissions) \/ Grant(r, k) \/ Withdraw(r, k)
             \/ DropHandle(r)
      PROVE  Same
  BY <1>6, <1>t DEF Register, Grant, Withdraw, DropHandle, Revoking, Work
<1>7. ASSUME TryNext \/ \E i \in DOMAIN effects : CarryOut(i) PROVE Same
  BY <1>7, <1>t DEF TryNext, CarryOut, Work
<1>8. UNCHANGED <<regVars, rev>> => Same
  OBVIOUS
<1>9. Same \/ Clear(w) \/ Advance(w)
  <2> HIDE DEF Same
  <2> QED BY <1>1, <1>2, <1>3, <1>5, <1>6, <1>7, <1>8, ControlSteps
<1> QED BY <1>4, <1>9

(* An admission comes to its commit with permission.                        *)
LEMMA ToCommit ==
    ASSUME TypeOK, [Next]_vars, NEW t \in Terminals, opc'[t] = "commit"
    PROVE  /\ adm'[t] = adm[t]
           /\ \/ opc[t] = "commit"
              \/ RecheckEligible(t) /\ IsEligible(adm[t].to, adm[t].kind)
<1>t. opc \in [Terminals -> AdmissionSteps] /\ DOMAIN adm = Terminals
  BY DEF TypeOK
<1>1. CASE UNCHANGED <<opc, adm>>
  BY <1>1
<1>2. ASSUME NEW u \in Terminals,
             Admission(u) \/ \E l \in Kinds, bytes \in Sizes : Admit(u, l, bytes)
      PROVE  /\ adm'[t] = adm[t]
             /\ \/ opc[t] = "commit"
                \/ RecheckEligible(t) /\ IsEligible(adm[t].to, adm[t].kind)
  <2>1. CASE u # t
    BY <1>2, <2>1, <1>t DEF Admission, Admit, Pick, ReadGeneration, LockTerminal,
       LockProcess, LockQueue, RecheckEligible, Commit, Signal, Goto, Return
  <2>2. CASE u = t
    BY <1>2, <2>2, <1>t DEF Admission, Admit, Pick, ReadGeneration, LockTerminal,
       LockProcess, LockQueue, RecheckEligible, Commit, Signal, Goto, Return
  <2> QED BY <2>1, <2>2
<1> QED BY <1>1, <1>2, AdmittingSteps

LEMMA WindowKept ==
    ASSUME TypeOK, HomeInv, RevocationInv, EffectInv, AdmissionInv, WindowInv, [Next]_vars
    PROVE  WindowInv'
<1>t. /\ opc \in [Terminals -> AdmissionSteps] /\ DOMAIN adm = Terminals
      /\ generation \in [Recipients -> [Kinds -> 1..LastGeneration]]
      /\ active \in [Recipients -> BOOLEAN] /\ LastGeneration \in Nat
      /\ rev \in [Workers -> [step : RevocationSteps, who : Recipients \cup {None},
                              advance : SUBSET Kinds, clear : SUBSET Kinds,
                              todo : SUBSET Recipients, sink : Terminals \cup {None}]]
  BY LimitsAssumption DEF TypeOK
<1>e. ASSUME NEW i \in DOMAIN effects PROVE effects[i].generation \in Nat
  <2>1. effects[i] \in Effects
    BY DEF TypeOK
  <2> QED BY <2>1, <1>t DEF Effects
<1> SUFFICES ASSUME NEW w \in Workers, rev'[w].step \in {"advance", "clear"},
                    NEW k \in rev'[w].clear \ rev'[w].advance
             PROVE  /\ \A i \in DOMAIN effects' :
                         effects'[i].to = rev'[w].who /\ effects'[i].kind = k =>
                            DeadNext(rev'[w].who, k, effects'[i].generation)
                    /\ \A t \in Terminals :
                         opc'[t] = "commit" /\ adm'[t].to = rev'[w].who /\ adm'[t].kind = k =>
                            DeadNext(rev'[w].who, k, adm'[t].generation)
  BY DEF WindowInv, Dead, DeadNext
<1>0. rev[w].step \in {"advance", "clear"}
  <2>1. SUFFICES ASSUME rev[w].step \notin {"advance", "clear"}
                 PROVE  rev'[w].step \in {"advance", "clear"} => k \in rev'[w].advance
    OBVIOUS
  <2>2. ASSUME NEW v \in Workers, NEW r \in Recipients, NEW kinds,
               Revoking(v, r, kinds)
        PROVE  rev'[w] = rev[w] \/ rev'[w].advance = rev'[w].clear
    BY <2>2 DEF Revoking, Work, TypeOK
  <2>3. ASSUME NEW v \in Workers, NEW x, x.step \notin {"advance", "clear"}, Work(v, x)
        PROVE  rev'[w].step \notin {"advance", "clear"}
    BY <2>1, <2>3 DEF Work, TypeOK
  <2>4. ASSUME NEW t \in Terminals, NEW meant, Close(t) \/ Invalidate(t, meant)
        PROVE  rev'[w].step \notin {"advance", "clear"}
    BY <2>3, <2>4 DEF Close, Invalidate, Idle, Workers
  <2>5. ASSUME NEW v \in Workers, Advance(v)
        PROVE  rev'[w] = rev[w]
    BY <2>1, <2>5 DEF Advance, Work, TypeOK
  <2>6. ASSUME NEW v \in Workers, Clear(v) \/ FreeDone(v)
        PROVE  rev'[w] = rev[w] \/ rev'[w].step \notin {"advance", "clear"}
    <3>1. rev[v] \in [step : RevocationSteps, who : Recipients \cup {None},
                      advance : SUBSET Kinds, clear : SUBSET Kinds,
                      todo : SUBSET Recipients, sink : Terminals \cup {None}]
      BY <1>t
    <3>2. /\ [rev[v] EXCEPT !.step = "free"].step = "free"
          /\ [rev[v] EXCEPT !.step = "next"].step = "next"
          /\ Idle.step = "idle"
      BY <3>1 DEF Idle
    <3>3. \/ Work(v, [rev[v] EXCEPT !.step = "free"])
          \/ Work(v, [rev[v] EXCEPT !.step = "next"]) \/ Work(v, Idle)
      BY <2>6 DEF Clear, FreeDone, Work
    <3> QED BY <2>3, <3>2, <3>3
  <2>7. ASSUME LockState \/ TryNext \/ \E i \in DOMAIN effects : CarryOut(i)
        PROVE  rev'[w] = rev[w] \/ rev'[w].step \notin {"advance", "clear"}
    <3>1. rev["mux"] \in [step : RevocationSteps, who : Recipients \cup {None},
                      advance : SUBSET Kinds, clear : SUBSET Kinds,
                      todo : SUBSET Recipients, sink : Terminals \cup {None}]
      BY <1>t DEF Workers
    <3> DEFINE locked == [rev["mux"] EXCEPT !.step = "next",
                             !.todo = {r \in @ : home[r] = rev["mux"].sink}]
    <3>2. /\ locked.step = "next"
          /\ [Idle EXCEPT !.step = "free"].step = "free"
          /\ Idle.step = "idle"
      BY <3>1 DEF Idle
    <3>3. \/ UNCHANGED rev \/ Work("mux", locked)
          \/ Work("ui", [Idle EXCEPT !.step = "free"]) \/ Work("ui", Idle)
      BY <2>7 DEF LockState, TryNext, CarryOut
    <3> HIDE DEF locked
    <3> QED BY <2>3, <3>2, <3>3 DEF Workers
  <2>8. ASSUME RevokeNext
        PROVE  rev'[w] = rev[w] \/ rev'[w].step \notin {"advance", "clear"}
               \/ rev'[w].advance = rev'[w].clear
    <3>1. CASE Work("mux", Idle)
      BY <2>1, <3>1 DEF Work, TypeOK, Idle
    <3>2. CASE \E r \in rev["mux"].todo : Revoking("mux", r, Kinds)
      <4>1. rev["mux"].todo \subseteq Recipients
        BY DEF TypeOK, Workers
      <4> QED BY <3>2, <4>1, <2>2 DEF Workers
    <3>3. CASE \E r : Work("mux", [rev["mux"] EXCEPT !.todo = @ \ {r}])
      BY <2>1, <2>8, <3>3 DEF Work, TypeOK, RevokeNext
    <3> QED BY <2>8, <3>1, <3>2, <3>3 DEF RevokeNext
  <2>9. ASSUME NEW r \in Recipients, NEW t, NEW permissions, NEW l,
               \/ Register(r, t, permissions) \/ Grant(r, l) \/ Withdraw(r, l)
               \/ DropHandle(r)
        PROVE  rev'[w] = rev[w] \/ rev'[w].advance = rev'[w].clear
    BY <2>2, <2>9 DEF Register, Grant, Withdraw, DropHandle, Workers
  <2>10. UNCHANGED <<regVars, rev>> => rev'[w] = rev[w]
    OBVIOUS
  <2> QED BY <2>1, <2>4, <2>5, <2>6, <2>7, <2>8, <2>9, <2>10, ControlSteps
<1> DEFINE r == rev[w].who
<1>1. /\ rev'[w].who = r /\ rev'[w].clear = rev[w].clear
      /\ \/ k \notin rev[w].advance
         \/ Advance(w) /\ k = CHOOSE l \in Kinds : l \in rev[w].advance
  <2>1. ~Clear(w)
    BY <1>t DEF Clear, Work
  <2> QED BY <1>0, <2>1, WindowLasts
<1>2. /\ r \in Recipients /\ k \in Kinds /\ k \in rev[w].clear
      /\ handle[r] # "new" /\ ~IsEligible(r, k)
  BY <1>0, <1>1 DEF RevocationInv, TypeOK
<1> HIDE DEF r
<1>3. ASSUME NEW g \in Nat, g <= generation[r][k], k \in rev[w].advance
      PROVE  DeadNext(r, k, g)
  <2>1. Advance(w) /\ k = CHOOSE l \in Kinds : l \in rev[w].advance
    BY <1>1, <1>3
  <2>2. generation[r][k] \in Nat
    BY <1>2, <1>t
  <2>3. CASE generation' = [generation EXCEPT ![r][k] = @ + 1]
    <3>1. generation'[r][k] = generation[r][k] + 1
      BY <2>3, <1>2, <1>t
    <3> QED BY <3>1, <2>2, <1>3 DEF DeadNext
  <2>4. CASE active' = [active EXCEPT ![r] = FALSE]
    <3>1. ~active'[r] /\ handle'[r] # "new"
      BY <2>4, <1>2, <1>t, Lasting
    <3> QED BY <3>1 DEF DeadNext
  <2> QED BY <2>1, <2>3, <2>4 DEF Advance, r
<1>4. ASSUME NEW i \in DOMAIN effects, effects[i].to = r, effects[i].kind = k
      PROVE  Dead(r, k, effects[i].generation)
             \/ k \in rev[w].advance
  BY <1>0, <1>2, <1>4 DEF WindowInv, r
<1>5. ASSUME NEW i \in DOMAIN effects, effects[i].to = r, effects[i].kind = k,
             NEW g, g = effects[i].generation
      PROVE  DeadNext(r, k, g)
  <2>1. g \in Nat /\ g <= generation[r][k]
    BY <1>5, <1>e DEF EffectInv
  <2> QED BY <1>2, <1>3, <1>4, <1>5, <2>1, DeadLasts DEF Dead, DeadNext
<1>6. ASSUME NEW t \in Terminals, opc[t] = "commit", adm[t].to = r, adm[t].kind = k,
             NEW g, g = adm[t].generation
      PROVE  DeadNext(r, k, g)
  <2>1. g \in Nat /\ g <= generation[r][k]
    <3>1. g \in 1..generation[r][k] /\ generation[r][k] \in Nat
      BY <1>2, <1>6, <1>t DEF AdmissionInv, Stamped, Chosen
    <3> QED BY <3>1
  <2>2. Dead(r, k, g) \/ k \in rev[w].advance
    BY <1>0, <1>2, <1>6 DEF WindowInv, r
  <2> QED BY <1>2, <1>3, <2>1, <2>2, DeadLasts DEF Dead, DeadNext
<1>7. ASSUME NEW i \in DOMAIN effects', effects'[i].to = r, effects'[i].kind = k,
             NEW g, g = effects'[i].generation
      PROVE  DeadNext(r, k, g)
  <2>1. CASE Kept
    BY <1>5, <1>7, <2>1 DEF Kept
  <2>2. ASSUME NEW t \in Terminals, Commit(t), SameGeneration(t)
        PROVE  DeadNext(r, k, g)
    <3>1. CASE i \in DOMAIN effects
      BY <1>5, <1>7, <2>2, <3>1, Appended
    <3>2. CASE i \notin DOMAIN effects
      <4>1. i = Len(effects) + 1
        <5>1. /\ Len(effects) \in Nat /\ DOMAIN effects = 1..Len(effects)
              /\ DOMAIN effects' = 1..Len(effects) + 1
          BY <2>2, Appended
        <5> QED BY <3>2, <5>1, <1>7
      <4>2. adm[t].to = r /\ adm[t].kind = k /\ g = adm[t].generation
        BY <1>7, <2>2, <4>1, Appended
      <4> QED BY <1>6, <2>2, <4>2 DEF Commit
    <3> QED BY <3>1, <3>2
  <2> QED BY <2>1, <2>2, EffectsKept
<1>8. ASSUME NEW t \in Terminals, opc'[t] = "commit", adm'[t].to = r, adm'[t].kind = k
      PROVE  opc[t] = "commit" /\ adm'[t] = adm[t]
  BY <1>2, <1>8, ToCommit
<1> QED BY <1>1, <1>6, <1>7, <1>8

(* An effect is marked withdrawn when its queue is emptied, and carried when it  *)
(* is carried out.                                                               *)
LEMMA Marks ==
    ASSUME TypeOK, [Next]_vars, NEW i \in DOMAIN effects
    PROVE  /\ effects'[i].withdrawn =>
                \/ effects[i].withdrawn
                \/ \E w \in Workers : /\ Clear(w) /\ effects[i].to = rev[w].who
                                      /\ effects[i].kind \in rev[w].clear
                                      /\ effects[i].at \in {"queued", "popped"}
           /\ effects'[i].carried =>
                \/ effects[i].carried
                \/ CarryOut(i) /\ IsCurrent(effects[i]) /\ effects'[i].at = "dropped"
<1>t. effects \in Seq(Effects) /\ effects[i] \in Effects
  BY DEF TypeOK
<1>1. CASE UNCHANGED <<effects, used, shared>>
  BY <1>1
<1>2. ASSUME NEW t \in Terminals, Commit(t)
      PROVE  effects'[i] = effects[i]
  <2>1. CASE SameGeneration(t)
    BY <1>2, <2>1, Appended
  <2> QED BY <1>2, <2>1 DEF Commit
<1>3. ASSUME NEW w \in Workers, Clear(w)
      PROVE  /\ effects'[i].carried = effects[i].carried
             /\ effects'[i].withdrawn =>
                   \/ effects[i].withdrawn
                   \/ /\ effects[i].to = rev[w].who /\ effects[i].kind \in rev[w].clear
                      /\ effects[i].at \in {"queued", "popped"}
  <2>1. CASE effects[i].to = rev[w].who /\ effects[i].kind \in rev[w].clear
    BY <1>3, <1>t, <2>1 DEF Clear, Effects
  <2>2. CASE ~(effects[i].to = rev[w].who /\ effects[i].kind \in rev[w].clear)
    BY <1>3, <1>t, <2>2 DEF Clear
  <2> QED BY <2>1, <2>2
<1>4. ASSUME NEW w \in Workers, FreeTerminal(w) \/ FreeProcess(w)
      PROVE  effects'[i].withdrawn = effects[i].withdrawn
             /\ effects'[i].carried = effects[i].carried
  BY <1>4, <1>t DEF FreeTerminal, FreeProcess, Effects
<1>5. ASSUME TryNext
      PROVE  effects'[i].withdrawn = effects[i].withdrawn
             /\ effects'[i].carried = effects[i].carried
  <2>1. CASE UNCHANGED effects
    BY <2>1
  <2> DEFINE current == {j \in Queued(draining) : IsCurrent(effects[j])}
             stale == {j \in Queued(draining) : \A k \in current : j < k}
  <2>2. CASE effects' = [j \in DOMAIN effects |->
                   IF j \in stale THEN [effects[j] EXCEPT !.at = "dropped", !.by = "ui"]
                   ELSE IF j \in current /\ j = First(current)
                   THEN [effects[j] EXCEPT !.at = "popped"]
                   ELSE effects[j]]
    <3> HIDE DEF current, stale
    <3>1. effects'[i] \in {effects[i], [effects[i] EXCEPT !.at = "dropped", !.by = "ui"],
                           [effects[i] EXCEPT !.at = "popped"]}
      BY <2>2
    <3> QED BY <3>1, <1>t DEF Effects
  <2> QED BY <1>5, <2>1, <2>2 DEF TryNext
<1>6. ASSUME NEW j \in DOMAIN effects, CarryOut(j)
      PROVE  /\ effects'[i].withdrawn = effects[i].withdrawn
             /\ effects'[i].carried =>
                   \/ effects[i].carried
                   \/ i = j /\ IsCurrent(effects[i]) /\ effects'[i].at = "dropped"
  <2>1. CASE i = j
    BY <1>6, <1>t, <2>1 DEF CarryOut, Effects
  <2>2. CASE i # j
    BY <1>6, <1>t, <2>2 DEF CarryOut
  <2> QED BY <2>1, <2>2
<1> QED BY <1>1, <1>2, <1>3, <1>4, <1>5, <1>6, EffectSteps

(* Effects of the next state: the ones there were, and one that was admitted.    *)
LEMMA NewEffect ==
    ASSUME TypeOK, [Next]_vars, NEW i \in DOMAIN effects'
    PROVE  \/ i \in DOMAIN effects
           \/ /\ i \notin DOMAIN effects
              /\ \E t \in Terminals :
                    /\ Commit(t) /\ SameGeneration(t)
                    /\ effects'[i].terminal = t /\ effects'[i].to = adm[t].to
                    /\ effects'[i].kind = adm[t].kind
                    /\ effects'[i].generation = adm[t].generation
                    /\ effects'[i].at = "queued"
                    /\ ~effects'[i].withdrawn /\ ~effects'[i].carried
<1>1. CASE Kept
  BY <1>1 DEF Kept
<1>2. ASSUME NEW t \in Terminals, Commit(t), SameGeneration(t), i \notin DOMAIN effects
      PROVE  /\ effects'[i].terminal = t /\ effects'[i].to = adm[t].to
             /\ effects'[i].kind = adm[t].kind
             /\ effects'[i].generation = adm[t].generation
             /\ effects'[i].at = "queued"
             /\ ~effects'[i].withdrawn /\ ~effects'[i].carried
  <2>1. /\ Len(effects) \in Nat /\ DOMAIN effects = 1..Len(effects)
        /\ DOMAIN effects' = 1..Len(effects) + 1
    BY <1>2, Appended
  <2>2. i = Len(effects) + 1
    BY <1>2, <2>1
  <2> QED BY <1>2, <2>2, Appended
<1> QED BY <1>1, <1>2, EffectsKept

(* And the ones there were are the same but for where they are.                  *)
LEMMA OldEffect ==
    ASSUME TypeOK, [Next]_vars, NEW i \in DOMAIN effects
    PROVE  /\ i \in DOMAIN effects'
           /\ effects'[i].terminal = effects[i].terminal /\ effects'[i].to = effects[i].to
           /\ effects'[i].kind = effects[i].kind /\ effects'[i].bytes = effects[i].bytes
           /\ effects'[i].generation = effects[i].generation
           /\ effects'[i].at = "queued" => effects[i].at = "queued"
           /\ effects'[i].at = "popped" => effects[i].at \in {"queued", "popped"}
<1>1. CASE Kept
  BY <1>1 DEF Kept
<1>2. ASSUME NEW t \in Terminals, Commit(t), SameGeneration(t)
      PROVE  i \in DOMAIN effects' /\ effects'[i] = effects[i]
  <2>1. /\ Len(effects) \in Nat /\ DOMAIN effects = 1..Len(effects)
        /\ DOMAIN effects' = 1..Len(effects) + 1
        /\ effects'[i] = effects[i]
    BY <1>2, Appended
  <2> QED BY <2>1
<1> QED BY <1>1, <1>2, EffectsKept

LEMMA EffectFields ==
    ASSUME TypeOK, NEW i \in DOMAIN effects
    PROVE  /\ effects[i].terminal \in Terminals /\ effects[i].to \in Recipients
           /\ effects[i].kind \in Kinds /\ effects[i].bytes \in Nat
           /\ effects[i].generation \in Nat
<1>1. effects[i] \in Effects
  BY DEF TypeOK
<1>2. /\ effects[i].terminal \in Terminals /\ effects[i].to \in Recipients
      /\ effects[i].kind \in Kinds /\ effects[i].bytes \in Sizes
      /\ effects[i].generation \in 1..LastGeneration
  BY <1>1 DEF Effects
<1>3. Sizes \subseteq Nat /\ LastGeneration \in Nat
  BY LimitsAssumption
<1>4. effects[i].bytes \in Nat
  BY <1>2, <1>3
<1>5. effects[i].generation \in Nat
  BY <1>2, <1>3
<1> QED BY <1>2, <1>4, <1>5

LEMMA DeadKept ==
    ASSUME TypeOK, HomeInv, EffectInv, RevocationInv, WindowInv, DeadInv, [Next]_vars
    PROVE  DeadInv'
<1> SUFFICES ASSUME NEW i \in DOMAIN effects', effects'[i].withdrawn
             PROVE  DeadNext(effects'[i].to, effects'[i].kind, effects'[i].generation)
  BY DEF DeadInv, Dead, DeadNext
<1>1. i \in DOMAIN effects
  BY NewEffect
<1>2. ASSUME NEW r \in Recipients, NEW k \in Kinds, NEW g \in Nat, Dead(r, k, g)
      PROVE  DeadNext(r, k, g)
  BY <1>2, DeadLasts DEF Dead, DeadNext
<1>3. Dead(effects[i].to, effects[i].kind, effects[i].generation)
  <2>1. CASE effects[i].withdrawn
    BY <1>1, <2>1 DEF DeadInv
  <2>2. ASSUME NEW w \in Workers, Clear(w), effects[i].to = rev[w].who,
               effects[i].kind \in rev[w].clear
        PROVE  Dead(effects[i].to, effects[i].kind, effects[i].generation)
    <3>1. rev[w].step = "clear"
      BY <2>2 DEF Clear
    <3>2. rev[w].advance = {}
      BY <3>1 DEF RevocationInv
    <3> QED BY <1>1, <2>2, <3>1, <3>2 DEF WindowInv
  <2> QED BY <1>1, <2>1, <2>2, Marks
<1> QED BY <1>1, <1>2, <1>3, OldEffect, EffectFields

LEMMA SpentKept ==
    ASSUME TypeOK, DeadInv, SpentInv, [Next]_vars
    PROVE  SpentInv'
<1> SUFFICES ASSUME NEW i \in DOMAIN effects', effects'[i].carried
             PROVE  ~effects'[i].withdrawn /\ effects'[i].at \notin {"queued", "popped"}
  BY DEF SpentInv
<1>1. i \in DOMAIN effects
  BY NewEffect
<1>2. CASE effects[i].carried
  <2>1. ~effects[i].withdrawn /\ effects[i].at \notin {"queued", "popped"}
    BY <1>1, <1>2 DEF SpentInv
  <2> QED BY <1>1, <2>1, Marks, OldEffect
<1>3. CASE CarryOut(i) /\ IsCurrent(effects[i]) /\ effects'[i].at = "dropped"
  <2>1. ~effects[i].withdrawn
    BY <1>1, <1>3, DeadIsNotCurrent DEF DeadInv
  <2>2. \A w \in Workers : ~Clear(w)
    <3>1. effects[i] \in Effects
      BY <1>1 DEF TypeOK
    <3>2. UNCHANGED opc /\ rev' = [rev EXCEPT !["ui"] = [Idle EXCEPT !.step = "free"]]
      BY <1>3 DEF CarryOut, Work
    <3>3. rev["ui"].step = "idle"
      BY <1>3 DEF CarryOut
    <3>4. ASSUME Clear("mux") PROVE FALSE
      <4>1. rev["mux"].step = "clear" /\ rev'["mux"].step = "free"
        BY <3>4 DEF Clear, Work, TypeOK, Workers
      <4> QED BY <3>2, <4>1 DEF TypeOK, Workers
    <3>5. ~Clear("ui")
      BY <3>3 DEF Clear
    <3> QED BY <3>4, <3>5 DEF Workers
  <2> QED BY <1>1, <1>3, <2>1, <2>2, Marks
<1> QED BY <1>1, <1>2, <1>3, Marks

-----------------------------------------------------------------------------
(* Nothing stale stays in a queue. *)

LEMMA EndingLasts ==
    ASSUME TypeOK, HomeInv, RevocationInv, [Next]_vars,
           NEW r \in Recipients, handle[r] # "new", NEW k \in Kinds, Ending(r, k)
    PROVE  \/ EndingNext(r, k)
           \/ \E w \in Workers : Clear(w) /\ rev[w].who = r /\ k \in rev[w].clear
<1>1. CASE BeingRevoked(r, k)
  <2>1. PICK w \in Workers : /\ rev[w].step \in {"advance", "clear"}
                             /\ rev[w].who = r /\ k \in rev[w].clear
    BY <1>1 DEF BeingRevoked
  <2> QED BY <2>1, WindowLasts DEF EndingNext
<1>2. CASE OutOfGenerations(r)
  <2>1. PICK l \in Kinds : ~active[r] /\ generation[r][l] = LastGeneration
    BY <1>2 DEF OutOfGenerations
  <2>2. ~active'[r]
    BY <2>1, Lasting
  <2>3. generation'[r][l] = LastGeneration
    <3>1. generation'[r][l] \in 1..LastGeneration
      BY RegistrationTypes
    <3>2. LastGeneration <= generation'[r][l]
      BY <2>1, Lasting
    <3> QED BY <3>1, <3>2, LimitsAssumption
  <2> QED BY <2>2, <2>3 DEF EndingNext
<1> QED BY <1>1, <1>2 DEF Ending

LEMMA EligibleEnds ==
    ASSUME TypeOK, HomeInv, RevocationInv, [Next]_vars,
           NEW r \in Recipients, NEW k \in Kinds, IsEligible(r, k)
    PROVE  \/ EndingNext(r, k)
           \/ /\ active'[r] /\ allowed'[r][k]
              /\ generation'[r][k] = generation[r][k]
<1>t. /\ active \in [Recipients -> BOOLEAN]
      /\ allowed \in [Recipients -> [Kinds -> BOOLEAN]]
      /\ generation \in [Recipients -> [Kinds -> 1..LastGeneration]]
      /\ rev \in [Workers -> [step : RevocationSteps, who : Recipients \cup {None},
                              advance : SUBSET Kinds, clear : SUBSET Kinds,
                              todo : SUBSET Recipients, sink : Terminals \cup {None}]]
  BY DEF TypeOK
<1>e. active[r] /\ allowed[r][k]
  BY DEF IsEligible
<1> DEFINE Goal == \/ EndingNext(r, k)
                   \/ /\ active'[r] /\ allowed'[r][k]
                      /\ generation'[r][k] = generation[r][k]
<1>1. CASE UNCHANGED regVars
  BY <1>1, <1>e DEF regVars
<1>2. ASSUME NEW w \in Workers, Advance(w) PROVE Goal
  <2> DEFINE l == CHOOSE l \in Kinds : l \in rev[w].advance
  <2>1. rev[w].step = "advance" /\ rev[w].who \in Recipients
    BY <1>2 DEF Advance, RevocationInv
  <2>2. l \in Kinds /\ l \in rev[w].clear
    BY <2>1 DEF RevocationInv, TypeOK
  <2>3. UNCHANGED allowed
    BY <1>2 DEF Advance
  <2> HIDE DEF l
  <2>4. CASE rev[w].who # r
    <3>1. active'[r] = active[r] /\ generation'[r] = generation[r]
      BY <1>2, <1>t, <2>1, <2>4 DEF Advance
    <3> QED BY <3>1, <2>3, <1>e
  <2>5. CASE rev[w].who = r
    <3>1. k \notin rev[w].clear
      BY <2>1, <2>5 DEF RevocationInv
    <3>2. l # k
      BY <2>2, <3>1
    <3>3. CASE generation[r][l] < LastGeneration
      <4>1. generation' = [generation EXCEPT ![r][l] = @ + 1] /\ UNCHANGED active
        BY <1>2, <2>5, <3>3 DEF Advance, l
      <4>2. generation'[r][k] = generation[r][k]
        BY <4>1, <3>2, <1>t
      <4> QED BY <4>1, <4>2, <2>3, <1>e
    <3>4. CASE ~(generation[r][l] < LastGeneration)
      <4>1. active' = [active EXCEPT ![r] = FALSE] /\ UNCHANGED generation
        BY <1>2, <2>5, <3>4 DEF Advance, l
      <4>2. ~active'[r]
        BY <4>1, <1>t
      <4>3. generation[r][l] = LastGeneration
        <5>1. generation[r][l] \in 1..LastGeneration
          BY <2>2, <1>t
        <5> QED BY <5>1, <3>4, LimitsAssumption
      <4> QED BY <4>1, <4>2, <4>3, <2>2 DEF EndingNext
    <3> QED BY <3>3, <3>4
  <2> QED BY <2>4, <2>5
<1>3. CASE \E w \in Workers : FreeDone(w)
  BY <1>3, <1>e DEF FreeDone
<1>4. ASSUME NEW w \in Workers, NEW kinds \in SUBSET Kinds, k \in kinds,
             Revoking(w, r, kinds)
      PROVE  Goal
  <2>1. rev'[w].step = "advance" /\ rev'[w].who = r /\ rev'[w].clear = kinds
    BY <1>4, <1>t DEF Revoking, Work
  <2> QED BY <2>1, <1>4 DEF EndingNext
<1>5. CASE RevokeNext
  <2>1. UNCHANGED <<allowed, generation>>
    BY <1>5 DEF RevokeNext
  <2>2. CASE UNCHANGED active
    BY <2>1, <2>2, <1>e
  <2>3. ASSUME NEW q \in Recipients, active' = [active EXCEPT ![q] = FALSE],
               Revoking("mux", q, Kinds)
        PROVE  Goal
    <3>1. CASE q = r
      BY <2>3, <3>1, <1>4 DEF Workers
    <3>2. CASE q # r
      BY <2>1, <2>3, <3>2, <1>e, <1>t
    <3> QED BY <3>1, <3>2
  <2>4. rev["mux"].todo \subseteq Recipients
    BY <1>t DEF Workers
  <2> QED BY <1>5, <2>2, <2>3, <2>4 DEF RevokeNext
<1>6. ASSUME NEW q \in Recipients, NEW t, NEW permissions, Register(q, t, permissions)
      PROVE  Goal
  <2>1. q # r
    BY <1>6, <1>e DEF Register, HomeInv
  <2> QED BY <1>6, <2>1, <1>e, <1>t DEF Register
<1>7. ASSUME NEW q \in Recipients, NEW l \in Kinds, Grant(q, l)
      PROVE  Goal
  <2>1. UNCHANGED <<active, generation>> /\ allowed' = [allowed EXCEPT ![q][l] = TRUE]
    BY <1>7 DEF Grant
  <2>2. allowed'[r][k]
    BY <2>1, <1>e, <1>t
  <2> QED BY <2>1, <2>2, <1>e
<1>8. ASSUME NEW q \in Recipients, NEW l \in Kinds, Withdraw(q, l)
      PROVE  Goal
  <2>1. /\ UNCHANGED <<active, generation>> /\ allowed' = [allowed EXCEPT ![q][l] = FALSE]
        /\ Revoking("ui", q, {l})
    BY <1>8 DEF Withdraw
  <2>2. CASE q = r /\ l = k
    BY <2>1, <2>2, <1>4 DEF Workers
  <2>3. CASE ~(q = r /\ l = k)
    <3>1. allowed'[r][k]
      BY <2>1, <2>3, <1>e, <1>t
    <3> QED BY <2>1, <3>1, <1>e
  <2> QED BY <2>2, <2>3
<1>9. ASSUME NEW q \in Recipients, DropHandle(q)
      PROVE  Goal
  <2>1. CASE q = r
    BY <1>9, <2>1, <1>4 DEF DropHandle, Workers
  <2>2. CASE q # r
    BY <1>9, <2>2, <1>e, <1>t DEF DropHandle
  <2> QED BY <2>1, <2>2
<1> QED BY <1>1, <1>2, <1>3, <1>5, <1>6, <1>7, <1>8, <1>9, RegistrationSteps

LEMMA CommitKept ==
    ASSUME TypeOK, HomeInv, RevocationInv, AdmissionInv, CommitInv, [Next]_vars
    PROVE  CommitInv'
<1> SUFFICES ASSUME NEW t \in Terminals, opc'[t] = "commit",
                    NEW r, r = adm'[t].to, NEW k, k = adm'[t].kind
             PROVE  (active'[r] /\ allowed'[r][k]) \/ EndingNext(r, k)
  BY DEF CommitInv, IsEligible, BeingRevoked, OutOfGenerations, EndingNext
<1>1. adm[t] = adm'[t]
  BY ToCommit
<1>2. CASE RecheckEligible(t) /\ IsEligible(adm[t].to, adm[t].kind)
  BY <1>1, <1>2 DEF RecheckEligible, IsEligible, regVars
<1>3. CASE opc[t] = "commit"
  <2>1. r \in Recipients /\ k \in Kinds /\ handle[r] # "new"
    BY <1>1, <1>3, NoneAssumption DEF AdmissionInv, Chosen, HomeInv
  <2>2. ASSUME NEW w \in Workers, Clear(w), rev[w].who = r PROVE FALSE
    BY <1>1, <1>3, <2>2 DEF Clear, QueueFree
  <2>3. IsEligible(r, k) \/ Ending(r, k)
    BY <1>1, <1>3 DEF CommitInv, Ending
  <2>4. Ending(r, k) => EndingNext(r, k)
    BY <2>1, <2>2, EndingLasts
  <2>5. IsEligible(r, k) => (active'[r] /\ allowed'[r][k]) \/ EndingNext(r, k)
    BY <2>1, EligibleEnds
  <2> QED BY <2>3, <2>4, <2>5
<1> QED BY <1>2, <1>3, ToCommit

LEMMA StaleKept ==
    ASSUME TypeOK, HomeInv, EffectInv, RevocationInv, AdmissionInv, CommitInv,
           NothingStaleQueued, [Next]_vars
    PROVE  NothingStaleQueued'
<1> SUFFICES ASSUME NEW i \in DOMAIN effects', effects'[i].at = "queued",
                    NEW r, r = effects'[i].to, NEW k, k = effects'[i].kind,
                    NEW g, g = effects'[i].generation
             PROVE  \/ active'[r] /\ allowed'[r][k] /\ generation'[r][k] = g
                    \/ EndingNext(r, k)
  BY DEF NothingStaleQueued, IsCurrent, IsEligible, BeingRevoked, OutOfGenerations,
         EndingNext
<1>1. CASE i \in DOMAIN effects
  <2>1. /\ effects[i].at = "queued" /\ effects[i].to = r /\ effects[i].kind = k
        /\ effects[i].generation = g
    BY <1>1, OldEffect
  <2>2. r \in Recipients /\ k \in Kinds /\ handle[r] # "new"
    BY <1>1, <2>1, EffectFields, NoneAssumption DEF EffectInv, HomeInv
  <2>3. ASSUME NEW w \in Workers, Clear(w), rev[w].who = r, k \in rev[w].clear PROVE FALSE
    <3>1. effects'[i] = [effects[i] EXCEPT !.withdrawn = TRUE, !.at = "dropped", !.by = w]
      BY <1>1, <2>1, <2>3 DEF Clear
    <3>2. effects[i] \in Effects
      BY <1>1 DEF TypeOK
    <3> QED BY <3>1, <3>2 DEF Effects
  <2>4. (IsEligible(r, k) /\ generation[r][k] = g) \/ Ending(r, k)
    BY <1>1, <2>1 DEF NothingStaleQueued, IsCurrent, Ending
  <2>5. Ending(r, k) => EndingNext(r, k)
    BY <2>2, <2>3, EndingLasts
  <2> QED BY <2>2, <2>4, <2>5, EligibleEnds
<1>2. ASSUME NEW t \in Terminals, Commit(t), SameGeneration(t),
             r = adm[t].to, k = adm[t].kind, g = adm[t].generation
      PROVE  \/ active'[r] /\ allowed'[r][k] /\ generation'[r][k] = g
             \/ EndingNext(r, k)
  <2>1. UNCHANGED <<active, allowed, generation, rev>> /\ opc[t] = "commit"
    BY <1>2 DEF Commit, regVars
  <2>2. IsEligible(r, k) \/ BeingRevoked(r, k) \/ OutOfGenerations(r)
    BY <1>2, <2>1 DEF CommitInv
  <2>3. generation[r][k] = g
    BY <1>2 DEF SameGeneration
  <2> QED BY <2>1, <2>2, <2>3 DEF IsEligible, BeingRevoked, OutOfGenerations, EndingNext
<1> QED BY <1>1, <1>2, NewEffect

-----------------------------------------------------------------------------
(* Recipients that are over. *)

LEMMA ClosedSteps ==
    ASSUME [Next]_vars
    PROVE  UNCHANGED closed \/ \E t \in Terminals : Close(t)
<1>1. CASE UNCHANGED vars
  BY <1>1 DEF vars
<1>2. ASSUME NEW t \in Terminals, NEW k, NEW bytes, NEW meant,
             Admission(t) \/ Admit(t, k, bytes) \/ Invalidate(t, meant)
      PROVE  UNCHANGED closed
  BY <1>2 DEF Admission, Admit, Invalidate, Pick, ReadGeneration, LockTerminal,
     LockProcess, LockQueue, RecheckEligible, Commit, Signal
<1>3. ASSUME NEW w \in Workers, Revocation(w) PROVE UNCHANGED closed
  BY <1>3 DEF Revocation, Advance, Clear, FreeTerminal, FreeProcess, FreeDone
<1>4. ASSUME LockState \/ RevokeNext \/ Delivery PROVE UNCHANGED closed
  BY <1>4 DEF LockState, RevokeNext, Delivery, Drain, TryNext, CarryOut
<1>5. ASSUME NEW r \in Recipients, NEW t, NEW k, NEW permissions,
             \/ Register(r, t, permissions) \/ Grant(r, k) \/ Withdraw(r, k) \/ DropHandle(r)
      PROVE  UNCHANGED closed
  BY <1>5 DEF Register, Grant, Withdraw, DropHandle
<1> QED BY <1>1, <1>2, <1>3, <1>4, <1>5 DEF Next

LEMMA SweptLasts ==
    ASSUME TypeOK, HomeInv, RevocationInv, [Next]_vars, NEW r \in Recipients, Swept(r)
    PROVE  SweptNext(r)
<1>1. ~active'[r] /\ handle'[r] # "new"
  BY Lasting DEF Swept
<1>2. ASSUME NEW i \in DOMAIN effects', effects'[i].to = r PROVE effects'[i].at # "queued"
  <2>1. CASE i \in DOMAIN effects
    BY <1>2, <2>1, OldEffect DEF Swept
  <2>2. ASSUME NEW t \in Terminals, Commit(t), effects'[i].to = adm[t].to PROVE FALSE
    BY <1>2, <2>2 DEF Swept, Commit
  <2> QED BY <2>1, <2>2, NewEffect
<1>3. ASSUME NEW t \in Terminals, opc'[t] = "commit" PROVE adm'[t].to # r
  BY <1>3, ToCommit DEF Swept, IsEligible
<1> QED BY <1>1, <1>2, <1>3 DEF SweptNext

(* A recipient is over when its queue is emptied while it is inactive.      *)
LEMMA SweptByClear ==
    ASSUME TypeOK, HomeInv, RevocationInv, [Next]_vars,
           NEW w \in Workers, Clear(w), NEW r \in Recipients, rev[w].who = r,
           rev[w].clear = Kinds, ~active[r]
    PROVE  SweptNext(r)
<1>1. UNCHANGED <<active, handle, opc, adm>> /\ handle[r] # "new"
  BY DEF Clear, regVars, RevocationInv
<1>2. ASSUME NEW i \in DOMAIN effects', effects'[i].to = r PROVE effects'[i].at # "queued"
  <2>1. i \in DOMAIN effects
    BY <1>2 DEF Clear
  <2>2. effects[i] \in Effects /\ effects[i].to = r /\ effects[i].kind \in Kinds
    BY <1>2, <2>1, OldEffect, EffectFields DEF TypeOK
  <2>3. CASE effects[i].at = "queued"
    <3>1. effects'[i] = [effects[i] EXCEPT !.withdrawn = TRUE, !.at = "dropped", !.by = w]
      BY <2>1, <2>2, <2>3 DEF Clear
    <3> QED BY <2>2, <3>1 DEF Effects
  <2> QED BY <2>1, <2>3, OldEffect
<1>3. ASSUME NEW t \in Terminals, opc'[t] = "commit" PROVE adm'[t].to # r
  BY <1>1, <1>3 DEF Clear, QueueFree
<1> QED BY <1>1, <1>2, <1>3 DEF SweptNext

LEMMA SweepKept ==
    ASSUME TypeOK, HomeInv, RevocationInv, SweepInv, [Next]_vars
    PROVE  SweepInv'
<1>t. /\ rev \in [Workers -> [step : RevocationSteps, who : Recipients \cup {None},
                              advance : SUBSET Kinds, clear : SUBSET Kinds,
                              todo : SUBSET Recipients, sink : Terminals \cup {None}]]
      /\ home \in [Recipients -> Terminals \cup {None}]
      /\ handle \in [Recipients -> {"new", "live", "dropping", "dropped"}]
      /\ active \in [Recipients -> BOOLEAN]
      /\ closed \in [Terminals -> BOOLEAN]
  BY DEF TypeOK
<1> DEFINE
    Next1(r) == handle'[r] = "dropped" => SweptNext(r)
    Next2(r) ==
        handle'[r] = "dropping" =>
            /\ ~active'[r] /\ rev'["ui"].step # "idle" /\ rev'["ui"].clear = Kinds
            /\ \/ rev'["ui"].step \in {"advance", "clear"} /\ rev'["ui"].who = r
               \/ SweptNext(r)
    Next3(t, r) ==
        closed'[t] /\ home'[r] = t =>
            \/ SweptNext(r)
            \/ /\ rev'["mux"].sink = t
               /\ \/ r \in rev'["mux"].todo
                  \/ rev'["mux"].step \in {"advance", "clear"} /\ rev'["mux"].who = r
<1> SUFFICES \A r \in Recipients : Next1(r) /\ Next2(r) /\ \A t \in Terminals : Next3(t, r)
  BY DEF SweepInv, Swept, Sweeping, SweptNext
<1>1. ASSUME NEW r \in Recipients PROVE Next1(r)
  <2>1. CASE handle[r] = "dropped"
    BY <2>1, SweptLasts DEF SweepInv
  <2>2. ASSUME handle'[r] = "dropped", handle[r] # "dropped"
        PROVE  handle[r] = "dropping" /\ rev["ui"].step = "free"
    <3>1. CASE \E w \in Workers : FreeDone(w)
      BY <2>2, <3>1, <1>t DEF FreeDone
    <3>2. CASE UNCHANGED handle
      BY <2>2, <3>2
    <3>3. CASE \E q \in Recipients : DropHandle(q)
      BY <2>2, <3>3, <1>t DEF DropHandle
    <3>4. CASE \E q \in Recipients, t \in Terminals, granted \in SUBSET Kinds :
                  Register(q, t, [k \in Kinds |-> k \in granted])
      BY <2>2, <3>4, <1>t DEF Register
    <3> QED BY <3>1, <3>2, <3>3, <3>4, RegistrationSteps
            DEF regVars, Advance, RevokeNext, Grant, Withdraw
  <2> QED BY <2>1, <2>2, SweptLasts DEF SweepInv, Sweeping
<1>2. ASSUME NEW r \in Recipients PROVE Next2(r)
  <2>1. CASE handle[r] = "dropping"
    <3>1. /\ ~active[r] /\ rev["ui"].step # "idle" /\ rev["ui"].clear = Kinds
          /\ Sweeping("ui", r) \/ Swept(r)
      BY <2>1 DEF SweepInv
    <3>2. ~active'[r]
      BY <2>1, <3>1, Lasting
    <3>3. CASE Sweeping("ui", r)
      <4>1. CASE Clear("ui")
        <5>1. rev'["ui"].step = "free" /\ rev'["ui"].clear = Kinds
          BY <3>1, <4>1, <1>t DEF Clear, Work, Workers
        <5>2. SweptNext(r)
          BY <3>1, <3>3, <4>1, SweptByClear DEF Sweeping, Workers
        <5> QED BY <3>2, <5>1, <5>2
      <4>2. CASE ~Clear("ui")
        BY <3>1, <3>2, <3>3, <4>2, WindowLasts DEF Sweeping, Workers
      <4> QED BY <4>1, <4>2
    <3>4. CASE ~Sweeping("ui", r)
      <4>1. SweptNext(r)
        BY <3>1, <3>4, SweptLasts
      <4>2. CASE rev["ui"].step \in {"advance", "clear"}
        <5>1. CASE Clear("ui")
          BY <3>1, <3>2, <4>1, <5>1, <1>t DEF Clear, Work, Workers
        <5> QED BY <3>1, <3>2, <4>1, <4>2, <5>1, WindowLasts DEF Workers
      <4>3. CASE rev["ui"].step = "free"
        <5>1. CASE FreeDone("ui")
          BY <2>1, <5>1, <1>t DEF FreeDone
        <5>2. CASE ~FreeDone("ui")
          <6>1. rev'["ui"] = rev["ui"]
            <7>1. ASSUME NEW v \in Workers, Advance(v) \/ Clear(v) \/ FreeDone(v)
                  PROVE  rev'["ui"] = rev["ui"]
              BY <4>3, <5>2, <7>1, <1>t DEF Advance, Clear, FreeDone, Work, Workers
            <7>2. ASSUME NEW t, NEW meant, Close(t) \/ Invalidate(t, meant)
                  PROVE  rev'["ui"] = rev["ui"]
              BY <7>2, <1>t DEF Close, Invalidate, Work, Workers
            <7>3. ASSUME LockState \/ RevokeNext
                  PROVE  rev'["ui"] = rev["ui"]
              BY <7>3, <1>t DEF LockState, RevokeNext, Revoking, Work, Workers
            <7>4. ASSUME NEW q \in Recipients, NEW t, NEW permissions, NEW l,
                         \/ Register(q, t, permissions) \/ Grant(q, l) \/ Withdraw(q, l)
                         \/ DropHandle(q)
                  PROVE  FALSE
              BY <4>3, <7>4 DEF Register, Grant, Withdraw, DropHandle
            <7>5. ASSUME TryNext \/ \E i \in DOMAIN effects : CarryOut(i)
                  PROVE  FALSE
              BY <4>3, <7>5 DEF TryNext, CarryOut
            <7> QED BY <7>1, <7>2, <7>3, <7>4, <7>5, ControlSteps
          <6> QED BY <3>1, <3>2, <4>1, <6>1
        <5> QED BY <5>1, <5>2
      <4>4. rev["ui"].step \in {"advance", "clear", "free"}
        BY <3>1, <1>t DEF RevocationInv, RevocationSteps, Workers
      <4> QED BY <4>2, <4>3, <4>4
    <3> QED BY <3>3, <3>4
  <2>2. CASE handle[r] # "dropping"
    <3>1. ASSUME handle'[r] = "dropping" PROVE DropHandle(r)
      <4>1. CASE \E w \in Workers : FreeDone(w)
        BY <2>2, <3>1, <4>1, <1>t DEF FreeDone
      <4>2. CASE UNCHANGED handle
        BY <2>2, <3>1, <4>2
      <4>3. CASE \E q \in Recipients : DropHandle(q)
        BY <2>2, <3>1, <4>3, <1>t DEF DropHandle
      <4>4. CASE \E q \in Recipients, t \in Terminals, granted \in SUBSET Kinds :
                    Register(q, t, [k \in Kinds |-> k \in granted])
        BY <2>2, <3>1, <4>4, <1>t DEF Register
      <4> QED BY <4>1, <4>2, <4>3, <4>4, RegistrationSteps
              DEF regVars, Advance, RevokeNext, Grant, Withdraw
    <3>2. ASSUME DropHandle(r)
          PROVE  /\ ~active'[r] /\ rev'["ui"].step = "advance" /\ rev'["ui"].clear = Kinds
                 /\ rev'["ui"].who = r
      <4>1. ~active'[r]
        BY <3>2, <1>t DEF DropHandle
      <4>2. rev'["ui"].step = "advance" /\ rev'["ui"].clear = Kinds /\ rev'["ui"].who = r
        BY <3>2, <1>t DEF DropHandle, Revoking, Work, Workers
      <4> QED BY <4>1, <4>2
    <3> QED BY <3>1, <3>2
  <2> QED BY <2>1, <2>2
<1>3. ASSUME NEW r \in Recipients, NEW t \in Terminals, closed'[t], home'[r] = t
      PROVE  Next3(t, r)
  <2>1. ASSUME Close(t)
        PROVE  rev'["mux"].sink = t /\ rev'["mux"].todo = Recipients
    BY <2>1, <1>t DEF Close, Work, Workers, Idle
  <2>2. CASE ~Close(t)
    <3>1. closed[t]
      <4>1. \A u : Close(u) => u # t
        BY <2>2
      <4>2. CASE \E u \in Terminals : Close(u)
        BY <4>1, <4>2, <1>3, <1>t DEF Close
      <4>3. closed' = closed \/ \E u \in Terminals : Close(u)
        BY ClosedSteps
      <4> QED BY <1>3, <4>2, <4>3
    <3>2. home[r] = t /\ handle[r] # "new"
      <4>1. CASE home[r] # None
        BY <1>3, <4>1, Lasting DEF HomeInv
      <4>2. CASE home[r] = None
        <5>1. PICK q \in Recipients, u \in Terminals, granted \in SUBSET Kinds :
                     Register(q, u, [k \in Kinds |-> k \in granted])
          <6>1. home' # home
            BY <1>3, <4>2, NoneAssumption
          <6> QED BY <6>1, RegistrationSteps
                  DEF regVars, Advance, FreeDone, RevokeNext, Grant, Withdraw, DropHandle
        <5>2. q = r /\ u = t
          BY <1>3, <4>2, <5>1, <1>t, NoneAssumption DEF Register
        <5> QED BY <3>1, <5>1, <5>2 DEF Register
      <4> QED BY <4>1, <4>2
    <3>3. \/ Swept(r)
          \/ rev["mux"].sink = t /\ (r \in rev["mux"].todo \/ Sweeping("mux", r))
      BY <3>1, <3>2 DEF SweepInv
    <3>4. CASE Swept(r)
      BY <3>4, SweptLasts
    <3>5. CASE rev["mux"].sink = t /\ (r \in rev["mux"].todo \/ Sweeping("mux", r))
      <4>1. CASE rev["mux"].step \in {"advance", "clear"}
        <5>1. CASE Clear("mux")
          <6>1. rev'["mux"].sink = t /\ rev'["mux"].todo = rev["mux"].todo
            BY <3>5, <5>1, <1>t DEF Clear, Work, Workers
          <6>2. rev["mux"].who = r => SweptNext(r)
            BY <4>1, <5>1, SweptByClear DEF RevocationInv, Workers
          <6> QED BY <3>5, <6>1, <6>2 DEF Sweeping
        <5> QED BY <3>5, <4>1, <5>1, WindowLasts DEF Sweeping, Workers
      <4>2. CASE rev["mux"].step \notin {"advance", "clear"}
        <5>1. rev["mux"].sink # None /\ r \in rev["mux"].todo /\ rev["mux"].step # "idle"
          BY <3>5, <4>2, NoneAssumption DEF Sweeping, RevocationInv
        <5>2. CASE rev'["mux"] = rev["mux"]
          BY <3>5, <5>1, <5>2
        <5>3. CASE FreeDone("mux")
          BY <3>5, <5>1, <5>3, <1>t DEF FreeDone, Work, Workers
        <5>4. CASE LockState
          BY <3>2, <3>5, <5>1, <5>4, <1>t DEF LockState, Work, Workers
        <5>5. CASE RevokeNext
          <6>1. CASE Work("mux", [rev["mux"] EXCEPT !.todo = @ \ {r}])
                     /\ handle[r] = "dropped"
            BY <6>1, SweptLasts DEF SweepInv
          <6>2. ASSUME NEW q, q # r, Work("mux", [rev["mux"] EXCEPT !.todo = @ \ {q}])
                PROVE  rev'["mux"].sink = t /\ r \in rev'["mux"].todo
            BY <3>5, <5>1, <6>2, <1>t DEF Work, Workers
          <6>3. ASSUME NEW q, Revoking("mux", q, Kinds)
                PROVE  /\ rev'["mux"].sink = t
                       /\ IF q = r THEN rev'["mux"].step = "advance" /\ rev'["mux"].who = r
                          ELSE r \in rev'["mux"].todo
            BY <3>5, <5>1, <6>3, <1>t DEF Revoking, Work, Workers
          <6> QED BY <5>1, <5>5, <6>1, <6>2, <6>3 DEF RevokeNext
        <5>6. \/ rev'["mux"] = rev["mux"] \/ FreeDone("mux") \/ LockState \/ RevokeNext
          <6>1. ASSUME NEW v \in Workers, Advance(v) \/ Clear(v) \/ FreeDone(v),
                       ~FreeDone("mux")
                PROVE  rev'["mux"] = rev["mux"]
            BY <4>2, <6>1, <1>t DEF Advance, Clear, FreeDone, Work, Workers
          <6>2. ASSUME NEW u, NEW meant, Close(u) \/ Invalidate(u, meant)
                PROVE  FALSE
            BY <5>1, <6>2 DEF Close, Invalidate, Cancel
          <6>3. ASSUME NEW q \in Recipients, NEW u, NEW permissions, NEW l,
                       \/ Register(q, u, permissions) \/ Grant(q, l) \/ Withdraw(q, l)
                       \/ DropHandle(q)
                PROVE  rev'["mux"] = rev["mux"]
            BY <6>3, <1>t DEF Register, Grant, Withdraw, DropHandle, Revoking, Work, Workers
          <6>4. ASSUME TryNext \/ \E i \in DOMAIN effects : CarryOut(i)
                PROVE  rev'["mux"] = rev["mux"]
            BY <6>4, <1>t DEF TryNext, CarryOut, Work, Workers
          <6> QED BY <6>1, <6>2, <6>3, <6>4, ControlSteps
        <5> QED BY <5>2, <5>3, <5>4, <5>5, <5>6
      <4> QED BY <4>1, <4>2
    <3> QED BY <3>3, <3>4, <3>5
  <2> QED BY <2>1, <2>2
<1> QED BY <1>1, <1>2, <1>3

-----------------------------------------------------------------------------
(* No effect is stranded. *)

LEMMA ViewSteps ==
    ASSUME [Next]_vars
    PROVE  \/ UNCHANGED viewVars
           \/ \E r \in Recipients : Drain(r) \/ DropHandle(r)
           \/ TryNext
           \/ \E t \in Terminals : Signal(t)
<1>1. CASE UNCHANGED vars
  BY <1>1 DEF vars
<1>2. ASSUME NEW t \in Terminals, NEW k, NEW bytes, NEW meant,
             \/ Admission(t) \/ Admit(t, k, bytes) \/ Close(t) \/ Invalidate(t, meant)
      PROVE  UNCHANGED viewVars \/ Signal(t)
  BY <1>2 DEF Admission, Admit, Close, Invalidate, Pick, ReadGeneration, LockTerminal,
     LockProcess, LockQueue, RecheckEligible, Commit
<1>3. ASSUME NEW w \in Workers, Revocation(w) PROVE UNCHANGED viewVars
  BY <1>3 DEF Revocation, Advance, Clear, FreeTerminal, FreeProcess, FreeDone
<1>4. ASSUME LockState \/ RevokeNext \/ \E i \in DOMAIN effects : CarryOut(i)
      PROVE  UNCHANGED viewVars
  BY <1>4 DEF LockState, RevokeNext, CarryOut
<1>5. ASSUME NEW r \in Recipients, NEW t, NEW k, NEW permissions,
             \/ Register(r, t, permissions) \/ Grant(r, k) \/ Withdraw(r, k)
      PROVE  UNCHANGED viewVars
  BY <1>5 DEF Register, Grant, Withdraw
<1> QED BY <1>1, <1>2, <1>3, <1>4, <1>5 DEF Next, Delivery

(* An effect that was withdrawn is not valid again while it is queued.      *)
LEMMA NeverCurrentAgain ==
    ASSUME TypeOK, HomeInv, EffectInv, RevocationInv, NothingStaleQueued, [Next]_vars,
           NEW i \in DOMAIN effects, effects[i].at = "queued",
           NEW r, r = effects[i].to, NEW k, k = effects[i].kind,
           active'[r], allowed'[r][k]
    PROVE  IsCurrent(effects[i])
<1>1. r \in Recipients /\ k \in Kinds /\ handle[r] # "new"
  BY EffectFields, NoneAssumption DEF EffectInv, HomeInv
<1>2. ~BeingRevoked(r, k)
  BY Ineligible DEF BeingRevoked
<1>3. ~OutOfGenerations(r)
  BY <1>1, Lasting DEF OutOfGenerations
<1> QED BY <1>2, <1>3 DEF NothingStaleQueued

LEMMA StrandedKept ==
    ASSUME TypeOK, HomeInv, EffectInv, RevocationInv, NothingStaleQueued,
           AdmissionInv, NoneStranded, [Next]_vars
    PROVE  NoneStranded'
<1>t. /\ opc \in [Terminals -> AdmissionSteps] /\ DOMAIN adm = Terminals
      /\ signal \in [Recipients -> BOOLEAN]
      /\ active \in [Recipients -> BOOLEAN]
  BY DEF TypeOK
<1> SUFFICES ASSUME NEW r \in Recipients, NEW i \in DOMAIN effects',
                    effects'[i].to = r, effects'[i].at = "queued",
                    active'[r], allowed'[r][effects'[i].kind]
             PROVE  \/ signal'[r] \/ draining' = r \/ r \in missed'
                    \/ \E t \in Terminals : opc'[t] = "signal" /\ adm'[t].to = r
  BY DEF NoneStranded, Queued, IsCurrent, IsEligible
<1>1. ASSUME NEW t \in Terminals, Commit(t), SameGeneration(t), r = adm[t].to
      PROVE  opc'[t] = "signal" /\ adm'[t].to = r
  BY <1>1, <1>t DEF Commit, Goto
<1>2. CASE i \in DOMAIN effects
  <2>1. effects[i].to = r /\ effects[i].at = "queued" /\ effects[i].kind = effects'[i].kind
    BY <1>2, OldEffect
  <2>2. IsCurrent(effects[i])
    BY <1>2, <2>1, NeverCurrentAgain
  <2>3. i \in {j \in Queued(r) : IsCurrent(effects[j])}
    BY <1>2, <2>1, <2>2 DEF Queued
  <2>4. \/ signal[r] \/ draining = r \/ r \in missed
        \/ \E t \in Terminals : opc[t] = "signal" /\ adm[t].to = r
    BY <2>3 DEF NoneStranded
  <2>5. CASE signal[r] \/ draining = r \/ r \in missed
    <3>1. CASE UNCHANGED viewVars
      BY <2>5, <3>1 DEF viewVars
    <3>2. ASSUME NEW q \in Recipients, Drain(q)
          PROVE  signal'[r] \/ draining' = r \/ r \in missed'
      BY <2>5, <3>2, <1>t, NoneAssumption DEF Drain
    <3>3. ASSUME NEW q \in Recipients, DropHandle(q)
          PROVE  signal'[r] \/ draining' = r \/ r \in missed'
      <4>1. q # r
        BY <3>3, <1>t DEF DropHandle
      <4> QED BY <2>5, <3>3, <4>1 DEF DropHandle
    <3>4. CASE TryNext
      <4>1. CASE draining # r
        BY <2>5, <3>4, <4>1 DEF TryNext
      <4>2. CASE draining = r
        BY <2>3, <3>4, <4>2 DEF TryNext, StillDraining
      <4> QED BY <4>1, <4>2
    <3>5. ASSUME NEW t \in Terminals, Signal(t)
          PROVE  signal'[r] \/ draining' = r \/ r \in missed'
      BY <2>5, <3>5, <1>t DEF Signal
    <3> QED BY <3>1, <3>2, <3>3, <3>4, <3>5, ViewSteps
  <2>6. ASSUME NEW t \in Terminals, opc[t] = "signal", adm[t].to = r
        PROVE  signal'[r] \/ (opc'[t] = "signal" /\ adm'[t].to = r)
    <3>1. CASE UNCHANGED <<opc, adm>>
      BY <2>6, <3>1
    <3>2. ASSUME NEW u \in Terminals, u # t,
                 Admission(u) \/ \E l \in Kinds, bytes \in Sizes : Admit(u, l, bytes)
          PROVE  opc'[t] = opc[t] /\ adm'[t] = adm[t]
      BY <3>2, <1>t DEF Admission, Admit, Pick, ReadGeneration, LockTerminal,
         LockProcess, LockQueue, RecheckEligible, Commit, Signal, Goto, Return
    <3>3. ASSUME Admission(t) \/ \E l \in Kinds, bytes \in Sizes : Admit(t, l, bytes)
          PROVE  Signal(t)
      BY <2>6, <3>3 DEF Admission, Admit, Pick, ReadGeneration, LockTerminal,
         LockProcess, LockQueue, RecheckEligible, Commit
    <3>4. Signal(t) => signal'[r]
      BY <2>6, <1>t DEF Signal
    <3> QED BY <2>6, <3>1, <3>2, <3>3, <3>4, AdmittingSteps
  <2> QED BY <2>4, <2>5, <2>6
<1> QED BY <1>1, <1>2, NewEffect

-----------------------------------------------------------------------------
(* The budgets. *)

(* One unit for each byte of the effects in S.                              *)
Units(e, S) == UNION {{i} \X (1..e[i].bytes) : i \in S}

(* What a budget holds when exactly the effects in S are charged to it.     *)
Exact(e, S, budget) ==
    budget.effects = Cardinality(S) /\ budget.bytes = Cardinality(Units(e, S))

LEMMA UnitsOfOne ==
    ASSUME NEW e, NEW i, e[i].bytes \in Nat
    PROVE  /\ IsFiniteSet({i} \X (1..e[i].bytes))
           /\ Cardinality({i} \X (1..e[i].bytes)) = e[i].bytes
<1>0. ASSUME NEW n \in Nat PROVE IsFiniteSet(1..n) /\ Cardinality(1..n) = n
  <2>1. IsFiniteSet(1..n) /\ Cardinality(1..n) = IF 1 > n THEN 0 ELSE n - 1 + 1
    BY FS_Interval
  <2> QED BY <2>1
<1>1. IsFiniteSet(1..e[i].bytes) /\ Cardinality(1..e[i].bytes) = e[i].bytes
  BY <1>0
<1>2. IsFiniteSet({i}) /\ Cardinality({i}) = 1
  BY FS_Singleton
<1>3. Cardinality({i} \X (1..e[i].bytes)) = Cardinality({i}) * Cardinality(1..e[i].bytes)
  BY <1>1, <1>2, FS_Product
<1>4. IsFiniteSet({i} \X (1..e[i].bytes))
  BY <1>1, <1>2, FS_Product
<1> QED BY <1>1, <1>2, <1>3, <1>4

LEMMA UnitsFinite ==
    ASSUME NEW e, NEW S, IsFiniteSet(S), \A i \in S : e[i].bytes \in Nat
    PROVE  IsFiniteSet(Units(e, S))
<1> DEFINE f == [i \in S |-> {i} \X (1..e[i].bytes)]
           T == {{i} \X (1..e[i].bytes) : i \in S}
<1>1. f \in Surjection(S, T)
  BY DEF Surjection
<1>2. IsFiniteSet(T)
  BY <1>1, FS_Surjection
<1>3. \A U \in T : IsFiniteSet(U)
  BY UnitsOfOne
<1> HIDE DEF T
<1>4. IsFiniteSet(UNION T)
  BY <1>2, <1>3, FS_UNION
<1> QED BY <1>4 DEF T, Units

LEMMA UnitsOfOneMore ==
    ASSUME NEW e, NEW S, IsFiniteSet(S), NEW i, i \notin S,
           \A j \in S \cup {i} : e[j].bytes \in Nat
    PROVE  /\ Cardinality(Units(e, S \cup {i})) = Cardinality(Units(e, S)) + e[i].bytes
           /\ Cardinality(Units(e, S)) \in Nat
<1>1. IsFiniteSet(Units(e, S)) /\ Cardinality(Units(e, S)) \in Nat
  BY UnitsFinite, FS_CardinalityType
<1> DEFINE One == {i} \X (1..e[i].bytes)
<1>2. IsFiniteSet(One) /\ Cardinality(One) = e[i].bytes /\ e[i].bytes \in Nat
  BY UnitsOfOne
<1>3. Units(e, S \cup {i}) = Units(e, S) \cup One
  BY DEF Units
<1>4. Units(e, S) \cap One = {}
  <2>1. ASSUME NEW x, x \in Units(e, S), x \in One PROVE FALSE
    <3>1. PICK j \in S : x \in {j} \X (1..e[j].bytes)
      BY <2>1 DEF Units
    <3>2. x[1] = j /\ x[1] = i
      BY <2>1, <3>1
    <3> QED BY <3>2
  <2> QED BY <2>1
<1> HIDE DEF One
<1>5. Cardinality(Units(e, S) \cup One)
          = Cardinality(Units(e, S)) + Cardinality(One) - Cardinality(Units(e, S) \cap One)
  BY <1>1, <1>2, FS_Union
<1>6. Cardinality(Units(e, S) \cap One) = 0
  BY <1>4, FS_EmptySet
<1>7. Cardinality(Units(e, S \cup {i}))
          = Cardinality(Units(e, S)) + e[i].bytes - Cardinality(Units(e, S) \cap One)
  BY <1>2, <1>3, <1>5
<1>8. Cardinality(Units(e, S \cup {i})) = Cardinality(Units(e, S)) + e[i].bytes
  BY <1>1, <1>2, <1>6, <1>7
<1> QED BY <1>1, <1>8

LEMMA UnitsSame ==
    ASSUME NEW e, NEW f, NEW S, \A i \in S : e[i].bytes = f[i].bytes
    PROVE  Units(e, S) = Units(f, S)
<1>1. ASSUME NEW x PROVE x \in Units(e, S) <=> x \in Units(f, S)
  <2>1. x \in Units(e, S) <=> \E i \in S : x \in {i} \X (1..e[i].bytes)
    BY DEF Units
  <2>2. x \in Units(f, S) <=> \E i \in S : x \in {i} \X (1..f[i].bytes)
    BY DEF Units
  <2>3. \A i \in S : (1..e[i].bytes) = (1..f[i].bytes)
    OBVIOUS
  <2> QED BY <2>1, <2>2, <2>3
<1> QED BY <1>1

LEMMA ExactAdd ==
    ASSUME NEW e, NEW S, IsFiniteSet(S), NEW i, i \notin S,
           \A j \in S \cup {i} : e[j].bytes \in Nat,
           NEW budget, Exact(e, S, budget)
    PROVE  Exact(e, S \cup {i}, Reserve(budget, e[i].bytes))
<1>1. Cardinality(S \cup {i}) = Cardinality(S) + 1
  BY FS_AddElement
<1>2. Cardinality(Units(e, S \cup {i})) = Cardinality(Units(e, S)) + e[i].bytes
  BY UnitsOfOneMore
<1> QED BY <1>1, <1>2 DEF Exact, Reserve

LEMMA ExactRemove ==
    ASSUME NEW e, NEW S, IsFiniteSet(S), NEW i \in S,
           \A j \in S : e[j].bytes \in Nat,
           NEW budget, Exact(e, S, budget)
    PROVE  Exact(e, S \ {i}, Unreserve(budget, e[i].bytes))
<1>1. IsFiniteSet(S \ {i}) /\ Cardinality(S \ {i}) = Cardinality(S) - 1
  BY FS_RemoveElement
<1> DEFINE R == S \ {i}
<1>2. IsFiniteSet(R) /\ i \notin R /\ R \cup {i} = S
  BY <1>1
<1> HIDE DEF R
<1>3. /\ Cardinality(Units(e, S)) = Cardinality(Units(e, R)) + e[i].bytes
      /\ Cardinality(Units(e, R)) \in Nat /\ e[i].bytes \in Nat
  BY <1>2, UnitsOfOneMore
<1>4. Cardinality(Units(e, R)) = Cardinality(Units(e, S)) - e[i].bytes
  BY <1>3
<1>5. Cardinality(R) = Cardinality(S) - 1
  BY <1>1 DEF R
<1>6. Exact(e, R, Unreserve(budget, e[i].bytes))
  BY <1>4, <1>5 DEF Exact, Unreserve
<1> QED BY <1>6 DEF R

LEMMA ExactSame ==
    ASSUME NEW e, NEW f, NEW S, \A i \in S : e[i].bytes = f[i].bytes,
           NEW budget, Exact(e, S, budget)
    PROVE  Exact(f, S, budget)
BY UnitsSame DEF Exact

(* Which effects are charged changes only with the budgets.                 *)
LEMMA PlacesKept ==
    ASSUME TypeOK, [Next]_vars,
           \/ \E w \in Workers : Clear(w)
           \/ TryNext
           \/ \E i \in DOMAIN effects : CarryOut(i)
    PROVE  /\ DOMAIN effects' = DOMAIN effects /\ UNCHANGED <<used, shared>>
           /\ \A i \in DOMAIN effects :
                 \/ effects'[i].at = effects[i].at
                 \/ /\ effects[i].at \in {"queued", "popped", "dropped"}
                    /\ effects'[i].at \in {"queued", "popped", "dropped"}
<1>e. ASSUME NEW i \in DOMAIN effects PROVE effects[i] \in Effects
  BY DEF TypeOK
<1>1. ASSUME NEW w \in Workers, Clear(w), NEW i \in DOMAIN effects
      PROVE  \/ effects'[i].at = effects[i].at
             \/ /\ effects[i].at \in {"queued", "popped", "dropped"}
                /\ effects'[i].at \in {"queued", "popped", "dropped"}
  BY <1>1, <1>e DEF Clear, Effects
<1>2. ASSUME TryNext, NEW i \in DOMAIN effects
      PROVE  \/ effects'[i].at = effects[i].at
             \/ /\ effects[i].at \in {"queued", "popped", "dropped"}
                /\ effects'[i].at \in {"queued", "popped", "dropped"}
  <2> DEFINE current == {j \in Queued(draining) : IsCurrent(effects[j])}
             stale == {j \in Queued(draining) : \A k \in current : j < k}
  <2>1. \A j \in stale \cup current : effects[j].at = "queued"
    BY DEF Queued
  <2>2. \/ UNCHANGED effects
        \/ effects' = [j \in DOMAIN effects |->
                   IF j \in stale THEN [effects[j] EXCEPT !.at = "dropped", !.by = "ui"]
                   ELSE IF j \in current /\ j = First(current)
                   THEN [effects[j] EXCEPT !.at = "popped"]
                   ELSE effects[j]]
    BY <1>2 DEF TryNext
  <2> HIDE DEF current, stale
  <2>3. CASE i \in stale \cup current
    <3>1. effects[i].at = "queued"
      BY <2>1, <2>3
    <3>2. effects'[i] \in {effects[i], [effects[i] EXCEPT !.at = "dropped", !.by = "ui"],
                           [effects[i] EXCEPT !.at = "popped"]}
      BY <2>2
    <3> QED BY <3>1, <3>2, <1>e DEF Effects
  <2>4. CASE i \notin stale \cup current
    BY <2>2, <2>4
  <2> QED BY <2>3, <2>4
<1>3. ASSUME NEW j \in DOMAIN effects, CarryOut(j), NEW i \in DOMAIN effects
      PROVE  \/ effects'[i].at = effects[i].at
             \/ /\ effects[i].at \in {"queued", "popped", "dropped"}
                /\ effects'[i].at \in {"queued", "popped", "dropped"}
  <2>1. CASE i = j
    BY <1>3, <2>1, <1>e DEF CarryOut, Effects
  <2>2. CASE i # j
    BY <1>3, <2>2, <1>e DEF CarryOut
  <2> QED BY <2>1, <2>2
<1>4. UNCHANGED <<used, shared>>
  BY DEF Clear, TryNext, CarryOut, budgetVars
<1>5. DOMAIN effects' = DOMAIN effects
  BY DEF Clear, TryNext, CarryOut
<1> QED BY <1>1, <1>2, <1>3, <1>4, <1>5

(* The effect that is freed next was dropped by this worker.                *)
LEMMA FreedEffect ==
    ASSUME TypeOK, NEW w \in Workers, DroppedBy(w) # {}
    PROVE  First(DroppedBy(w)) \in DOMAIN effects
<1>1. DroppedBy(w) \subseteq 1..Len(effects) /\ Len(effects) \in Nat
  BY DEF DroppedBy, TypeOK
<1> QED BY <1>1, FirstMember DEF DroppedBy

LEMMA BudgetKept ==
    ASSUME TypeOK, AdmissionInv, RoomInv, BudgetExact, [Next]_vars
    PROVE  BudgetExact'
<1>d. Len(effects) \in Nat /\ DOMAIN effects = 1..Len(effects) /\ IsFiniteSet(DOMAIN effects)
  <2>1. Len(effects) \in Nat /\ DOMAIN effects = 1..Len(effects)
    BY DEF TypeOK
  <2> QED BY <2>1, FS_Interval
<1>f. /\ \A t \in Terminals : IsFiniteSet(ChargedTo(t)) /\ ChargedTo(t) \subseteq DOMAIN effects
      /\ IsFiniteSet(Charged) /\ Charged \subseteq DOMAIN effects
  BY <1>d, FS_Subset DEF ChargedTo, Charged
<1>b. \A i \in DOMAIN effects : effects[i].bytes \in Nat /\ effects[i].terminal \in Terminals
  BY EffectFields
<1>t. /\ used \in [Terminals -> Budgets] /\ shared \in Budgets
      /\ TerminalEffects \in Nat /\ TerminalBytes \in Nat
      /\ ProcessEffects \in Nat /\ ProcessBytes \in Nat
  BY LimitsAssumption DEF TypeOK
<1> DEFINE
    WithinTerminal(budget) ==
        budget.effects <= TerminalEffects /\ budget.bytes <= TerminalBytes
    WithinProcess(budget) ==
        budget.effects <= ProcessEffects /\ budget.bytes <= ProcessBytes
    GoodTo(t) == Exact(effects', ChargedTo(t)', used'[t]) /\ WithinTerminal(used'[t])
    Good == Exact(effects', Charged', shared') /\ WithinProcess(shared')
<1>x. /\ \A t \in Terminals : Exact(effects, ChargedTo(t), used[t]) /\ WithinTerminal(used[t])
      /\ Exact(effects, Charged, shared) /\ WithinProcess(shared)
  BY DEF BudgetExact, Exact, Weight, Units
<1> SUFFICES Good /\ \A t \in Terminals : GoodTo(t)
  BY DEF BudgetExact, Exact, Weight, Units
<1>o. \A i \in DOMAIN effects : /\ i \in DOMAIN effects'
                                /\ effects'[i].bytes = effects[i].bytes
                                /\ effects'[i].terminal = effects[i].terminal
  BY OldEffect
<1>s. ASSUME NEW S \in SUBSET DOMAIN effects, NEW budget, Exact(effects, S, budget)
      PROVE  Exact(effects', S, budget)
  BY <1>s, <1>o, ExactSame
<1>p. /\ \A t \in Terminals : Exact(effects', ChargedTo(t), used[t])
      /\ Exact(effects', Charged, shared)
  BY <1>x, <1>f, <1>s
<1>1. CASE UNCHANGED <<effects, used, shared>>
  BY <1>1, <1>x DEF ChargedTo, Charged
<1>2. CASE \/ \E w \in Workers : Clear(w)
           \/ TryNext
           \/ \E i \in DOMAIN effects : CarryOut(i)
  <2>1. DOMAIN effects' = DOMAIN effects /\ UNCHANGED <<used, shared>>
    BY <1>2, PlacesKept
  <2>2. \A t \in Terminals : ChargedTo(t)' = ChargedTo(t)
    BY <1>2, <1>o, <2>1, PlacesKept DEF ChargedTo
  <2>3. Charged' = Charged
    BY <1>2, <1>o, <2>1, PlacesKept DEF Charged
  <2> QED BY <1>p, <1>x, <2>1, <2>2, <2>3
<1>3. ASSUME NEW t \in Terminals, Commit(t), SameGeneration(t)
      PROVE  Good /\ \A u \in Terminals : GoodTo(u)
  <2> DEFINE n == Len(effects) + 1
             b == adm[t].bytes
  <2>1. /\ DOMAIN effects' = 1..n /\ n \notin DOMAIN effects
        /\ \A i \in DOMAIN effects : effects'[i] = effects[i]
        /\ effects'[n].terminal = t /\ effects'[n].bytes = b /\ effects'[n].at = "queued"
    BY <1>3, <1>d, Appended
  <2>2. b \in Nat
    BY <1>3, LimitsAssumption DEF Commit, AdmissionInv
  <2>3. ASSUME NEW i \in DOMAIN effects' PROVE i \in DOMAIN effects \/ i = n
    BY <2>1, <2>3, <1>d
  <2>4. n \in DOMAIN effects'
    BY <2>1, <1>d
  <2>5. used' = [used EXCEPT ![t] = Reserve(used[t], b)] /\ shared' = Reserve(shared, b)
    BY <1>3 DEF Commit
  <2> HIDE DEF n, b
  <2>6. ASSUME NEW S \in SUBSET DOMAIN effects, IsFiniteSet(S), NEW budget,
               Exact(effects', S, budget)
        PROVE  Exact(effects', S \cup {n}, Reserve(budget, b))
    <3>1. n \notin S /\ \A j \in S \cup {n} : effects'[j].bytes \in Nat
      BY <1>b, <1>o, <2>1, <2>2
    <3> QED BY <2>1, <2>6, <3>1, ExactAdd
  <2>7. ChargedTo(t)' = ChargedTo(t) \cup {n}
    BY <2>1, <2>3, <2>4, <1>o DEF ChargedTo
  <2>8. \A u \in Terminals : u # t => ChargedTo(u)' = ChargedTo(u)
    BY <2>1, <2>3, <2>4, <1>o DEF ChargedTo
  <2>9. Charged' = Charged \cup {n}
    BY <2>1, <2>3, <2>4, <1>o DEF Charged
  <2>10. HasRoom(t, b)
    BY <1>3 DEF RoomInv, Granted, Commit, b
  <2>11. /\ used[t].effects \in Nat /\ used[t].bytes \in Nat
         /\ shared.effects \in Nat /\ shared.bytes \in Nat
    BY <1>t DEF Budgets
  <2>12. WithinTerminal(Reserve(used[t], b)) /\ WithinProcess(Reserve(shared, b))
    BY <2>2, <2>10, <2>11, <1>t DEF HasRoom, CanReserve, Reserve
  <2>13. used'[t] = Reserve(used[t], b) /\ \A u \in Terminals : u # t => used'[u] = used[u]
    BY <2>5, <1>t
  <2>14. Exact(effects', ChargedTo(t)', used'[t])
    BY <2>6, <2>7, <2>13, <1>f, <1>p
  <2>15. Good
    BY <2>5, <2>6, <2>9, <2>12, <1>f, <1>p
  <2>16. ASSUME NEW u \in Terminals PROVE GoodTo(u)
    BY <2>8, <2>12, <2>13, <2>14, <1>p, <1>x
  <2> QED BY <2>15, <2>16
<1>4. ASSUME NEW w \in Workers, FreeTerminal(w)
      PROVE  Good /\ \A u \in Terminals : GoodTo(u)
  <2> DEFINE i == First(DroppedBy(w))
  <2>1. i \in DOMAIN effects /\ effects[i].at = "dropped" /\ effects[i] \in Effects
    BY <1>4, FreedEffect DEF FreeTerminal, TypeOK
  <2>0. PICK t \in Terminals : t = effects[i].terminal
    BY <1>b, <2>1
  <2>2. /\ used' = [used EXCEPT ![t] = Unreserve(used[t], effects[i].bytes)]
        /\ effects' = [effects EXCEPT ![i].at = "halfway"] /\ UNCHANGED shared
    BY <1>4, <2>0 DEF FreeTerminal
  <2>3. effects[i].bytes \in Nat
    BY <1>b, <2>1
  <2> HIDE DEF i
  <2>4. /\ DOMAIN effects' = DOMAIN effects /\ effects'[i].at = "halfway"
        /\ \A j \in DOMAIN effects : j # i => effects'[j] = effects[j]
    BY <2>1, <2>2 DEF Effects
  <2>5. ChargedTo(t)' = ChargedTo(t) \ {i}
    BY <2>1, <2>4, <1>o DEF ChargedTo
  <2>6. \A u \in Terminals : u # t => ChargedTo(u)' = ChargedTo(u)
    BY <2>0, <2>1, <2>4, <1>o DEF ChargedTo
  <2>7. Charged' = Charged
    BY <2>1, <2>4, <1>o DEF Charged
  <2>8. i \in ChargedTo(t)
    BY <2>0, <2>1 DEF ChargedTo
  <2>9. Exact(effects', ChargedTo(t) \ {i}, Unreserve(used[t], effects[i].bytes))
    <3>1. \A j \in ChargedTo(t) : effects'[j].bytes \in Nat
      BY <1>b, <1>f, <1>o, <2>3
    <3>2. Exact(effects', ChargedTo(t), used[t]) /\ IsFiniteSet(ChargedTo(t))
      BY <1>f, <1>p, <2>3
    <3>3. Exact(effects', ChargedTo(t) \ {i}, Unreserve(used[t], effects'[i].bytes))
      BY <2>8, <3>1, <3>2, ExactRemove
    <3> QED BY <3>3, <1>o, <2>1
  <2>10. WithinTerminal(Unreserve(used[t], effects[i].bytes))
    <3>1. used[t].effects \in Nat /\ used[t].bytes \in Nat
      BY <1>t, <2>3 DEF Budgets
    <3>2. WithinTerminal(used[t])
      BY <1>x, <2>3
    <3> QED BY <1>t, <2>3, <3>1, <3>2 DEF Unreserve
  <2>11. /\ used'[t] = Unreserve(used[t], effects[i].bytes)
         /\ \A u \in Terminals : u # t => used'[u] = used[u]
    BY <2>2, <2>3, <1>t
  <2>12. Good
    BY <1>p, <1>x, <2>2, <2>7
  <2>13. ASSUME NEW u \in Terminals PROVE GoodTo(u)
    BY <1>p, <1>x, <2>5, <2>6, <2>9, <2>10, <2>11
  <2> QED BY <2>12, <2>13
<1>5. ASSUME NEW w \in Workers, FreeProcess(w)
      PROVE  Good /\ \A u \in Terminals : GoodTo(u)
  <2> DEFINE i == First(DroppedBy(w))
  <2>1. i \in DOMAIN effects /\ effects[i].at = "halfway" /\ effects[i] \in Effects
    BY <1>5, FreedEffect DEF FreeProcess, TypeOK
  <2>2. /\ shared' = Unreserve(shared, effects[i].bytes)
        /\ effects' = [effects EXCEPT ![i].at = "gone"] /\ UNCHANGED used
    BY <1>5 DEF FreeProcess
  <2>3. effects[i].bytes \in Nat
    BY <1>b, <2>1
  <2> HIDE DEF i
  <2>4. /\ DOMAIN effects' = DOMAIN effects /\ effects'[i].at = "gone"
        /\ \A j \in DOMAIN effects : j # i => effects'[j] = effects[j]
    BY <2>1, <2>2 DEF Effects
  <2>5. \A u \in Terminals : ChargedTo(u)' = ChargedTo(u)
    BY <2>1, <2>4, <1>o DEF ChargedTo
  <2>6. Charged' = Charged \ {i} /\ i \in Charged
    BY <2>1, <2>4, <1>o DEF Charged
  <2>7. Exact(effects', Charged \ {i}, Unreserve(shared, effects[i].bytes))
    <3>1. \A j \in Charged : effects'[j].bytes \in Nat
      BY <1>b, <1>f, <1>o
    <3>2. Exact(effects', Charged \ {i}, Unreserve(shared, effects'[i].bytes))
      BY <1>f, <1>p, <2>6, <3>1, ExactRemove
    <3> QED BY <3>2, <1>o, <2>1
  <2>8. WithinProcess(Unreserve(shared, effects[i].bytes))
    <3>1. shared.effects \in Nat /\ shared.bytes \in Nat
      BY <1>t DEF Budgets
    <3>2. WithinProcess(shared)
      BY <1>x
    <3> QED BY <1>t, <2>3, <3>1, <3>2 DEF Unreserve
  <2> QED BY <1>p, <1>x, <2>2, <2>5, <2>6, <2>7, <2>8
<1>6. ASSUME NEW t \in Terminals, Commit(t), ~SameGeneration(t)
      PROVE  UNCHANGED <<effects, used, shared>>
  BY <1>6 DEF Commit, budgetVars
<1> QED BY <1>1, <1>2, <1>3, <1>4, <1>5, <1>6, EffectSteps

LEMMA BudgetTypes ==
    ASSUME TypeOK, [Next]_vars, BudgetExact', effects' \in Seq(Effects)
    PROVE  used' \in [Terminals -> Budgets] /\ shared' \in Budgets
<1>t. used \in [Terminals -> Budgets] /\ shared \in Budgets
  BY DEF TypeOK
<1> DEFINE B == [effects : Int, bytes : Int]
<1>1. ASSUME NEW b \in B, NEW n \in Nat PROVE Reserve(b, n) \in B /\ Unreserve(b, n) \in B
  BY DEF Reserve, Unreserve
<1>2. used \in [Terminals -> B] /\ shared \in B
  BY <1>t DEF Budgets
<1>3. used' \in [Terminals -> B] /\ shared' \in B
  <2> HIDE DEF B
  <2>1. CASE UNCHANGED <<effects, used, shared>>
    BY <2>1, <1>2
  <2>2. ASSUME NEW t \in Terminals, Commit(t)
        PROVE  used' \in [Terminals -> B] /\ shared' \in B
    <3>1. CASE SameGeneration(t)
      <4>1. /\ used' = [used EXCEPT ![t] = Reserve(used[t], adm[t].bytes)]
            /\ shared' = Reserve(shared, adm[t].bytes)
        BY <2>2, <3>1 DEF Commit
      <4>2. adm[t].bytes \in Nat
        <5>1. adm[t].bytes \in Sizes \cup {0}
          BY DEF TypeOK
        <5>2. Sizes \subseteq Nat
          BY LimitsAssumption
        <5>3. ASSUME NEW x \in Sizes \cup {0} PROVE x \in Nat
          BY <5>2
        <5> QED BY <5>1, <5>3
      <4> QED BY <4>1, <4>2, <1>1, <1>2
    <3>2. CASE ~SameGeneration(t)
      BY <2>2, <3>2, <1>2 DEF Commit, budgetVars
    <3> QED BY <3>1, <3>2
  <2>3. ASSUME NEW w \in Workers, FreeTerminal(w)
        PROVE  used' \in [Terminals -> B] /\ shared' \in B
    <3> DEFINE e == effects[First(DroppedBy(w))]
    <3>1. e.terminal \in Terminals /\ e.bytes \in Nat
      BY <2>3, FreedEffect, EffectFields DEF FreeTerminal
    <3>2. /\ used' = [used EXCEPT ![e.terminal] = Unreserve(used[e.terminal], e.bytes)]
          /\ UNCHANGED shared
      BY <2>3 DEF FreeTerminal
    <3> HIDE DEF e
    <3> QED BY <3>1, <3>2, <1>1, <1>2
  <2>4. ASSUME NEW w \in Workers, FreeProcess(w)
        PROVE  used' \in [Terminals -> B] /\ shared' \in B
    <3>1. effects[First(DroppedBy(w))].bytes \in Nat
      BY <2>4, FreedEffect, EffectFields DEF FreeProcess
    <3> QED BY <2>4, <3>1, <1>1, <1>2 DEF FreeProcess
  <2>5. CASE \/ \E w \in Workers : Clear(w)
             \/ TryNext
             \/ \E i \in DOMAIN effects : CarryOut(i)
    BY <2>5, <1>2, PlacesKept
  <2> QED BY <2>1, <2>2, <2>3, <2>4, <2>5, EffectSteps
<1>4. IsFiniteSet(DOMAIN effects')
  <2>1. Len(effects') \in Nat /\ DOMAIN effects' = 1..Len(effects')
    OBVIOUS
  <2> QED BY <2>1, FS_Interval
<1>5. ASSUME NEW S \in SUBSET DOMAIN effects'
      PROVE  /\ Cardinality(S) \in Nat
             /\ Cardinality(Units(effects', S)) \in Nat
  <2>1. IsFiniteSet(S)
    BY <1>4, FS_Subset
  <2>2. \A i \in S : effects'[i].bytes \in Nat
    <3>1. \A i \in S : effects'[i] \in Effects
      OBVIOUS
    <3> QED BY <3>1, LimitsAssumption DEF Effects
  <2>3. IsFiniteSet(Units(effects', S))
    BY <2>1, <2>2, UnitsFinite
  <2> QED BY <2>1, <2>3, FS_CardinalityType
<1>6. ASSUME NEW t \in Terminals PROVE used'[t].effects \in Nat /\ used'[t].bytes \in Nat
  <2>1. ChargedTo(t)' \subseteq DOMAIN effects'
    BY DEF ChargedTo
  <2>2. /\ used'[t].effects = Cardinality(ChargedTo(t)')
        /\ used'[t].bytes = Cardinality(Units(effects', ChargedTo(t)'))
    BY DEF BudgetExact, Weight, Units
  <2> QED BY <2>1, <2>2, <1>5
<1>7. shared'.effects \in Nat /\ shared'.bytes \in Nat
  <2>1. Charged' \subseteq DOMAIN effects'
    BY DEF Charged
  <2>2. /\ shared'.effects = Cardinality(Charged')
        /\ shared'.bytes = Cardinality(Units(effects', Charged'))
    BY DEF BudgetExact, Weight, Units
  <2> QED BY <2>1, <2>2, <1>5
<1>8. ASSUME NEW t \in Terminals PROVE used'[t] \in Budgets
  BY <1>3, <1>6 DEF Budgets
<1>9. shared' \in Budgets
  BY <1>3, <1>7 DEF Budgets
<1> QED BY <1>3, <1>8, <1>9

-----------------------------------------------------------------------------
(* Theorems. *)

LEMMA Initially ==
    ASSUME Init
    PROVE  IInv
<1> USE DEF Init
<1>1. DOMAIN effects = {} /\ effects \in Seq(Effects)
  OBVIOUS
<1>2. \A r \in Recipients : home[r] = None /\ handle[r] = "new" /\ ~active[r]
  OBVIOUS
<1>3. /\ \A t \in Terminals : opc[t] = "idle"
      /\ \A w \in Workers : rev[w].step = "idle" /\ rev[w].sink = None
  BY DEF Idle
<1>4. TypeOK
  <2>1. /\ 1 \in 1..LastGeneration /\ 0 \in 0..LastGeneration
        /\ 0 \in 0..MaxAdmits /\ 0 \in 0..MaxCancels
    BY LimitsAssumption
  <2>2. /\ home \in [Recipients -> Terminals \cup {None}]
        /\ handle \in [Recipients -> {"new", "live", "dropping", "dropped"}]
        /\ active \in [Recipients -> BOOLEAN]
        /\ allowed \in [Recipients -> [Kinds -> BOOLEAN]]
        /\ generation \in [Recipients -> [Kinds -> 1..LastGeneration]]
        /\ closed \in [Terminals -> BOOLEAN]
        /\ signal \in [Recipients -> BOOLEAN]
    BY <2>1
  <2>3. used \in [Terminals -> Budgets] /\ shared \in Budgets
    BY DEF Budgets
  <2>4. opc \in [Terminals -> AdmissionSteps]
    BY DEF AdmissionSteps
  <2>5. adm \in [Terminals -> [kind : Kinds \cup {None}, bytes : Sizes \cup {0},
                              to : Recipients \cup {None}, generation : 0..LastGeneration]]
    BY <2>1 DEF NoAdmission
  <2>6. rev \in [Workers -> [step : RevocationSteps, who : Recipients \cup {None},
                            advance : SUBSET Kinds, clear : SUBSET Kinds,
                            todo : SUBSET Recipients, sink : Terminals \cup {None}]]
    BY DEF Idle, RevocationSteps
  <2> QED BY <1>1, <2>1, <2>2, <2>3, <2>4, <2>5, <2>6 DEF TypeOK
<1>5. BudgetExact
  <2>1. Charged = {} /\ \A t \in Terminals : ChargedTo(t) = {}
    BY <1>1 DEF Charged, ChargedTo
  <2>2. Weight({}) = 0
    <3>1. UNION {{i} \X (1..effects[i].bytes) : i \in {}} = {}
      OBVIOUS
    <3> QED BY <3>1, FS_EmptySet DEF Weight
  <2>3. /\ shared.effects = 0 /\ shared.bytes = 0
        /\ \A t \in Terminals : used[t].effects = 0 /\ used[t].bytes = 0
    OBVIOUS
  <2>4. /\ 0 <= TerminalEffects /\ 0 <= TerminalBytes
        /\ 0 <= ProcessEffects /\ 0 <= ProcessBytes
    BY LimitsAssumption
  <2>5. Cardinality({}) = 0
    BY FS_EmptySet
  <2>6. ASSUME NEW t \in Terminals
        PROVE  /\ used[t].effects = Cardinality(ChargedTo(t))
               /\ used[t].effects <= TerminalEffects
               /\ used[t].bytes = Weight(ChargedTo(t))
               /\ used[t].bytes <= TerminalBytes
    BY <2>1, <2>2, <2>3, <2>4, <2>5
  <2> QED BY <2>1, <2>2, <2>3, <2>4, <2>5, <2>6 DEF BudgetExact
<1>6. HomeInv
  BY <1>2 DEF HomeInv
<1>7. EffectInv /\ DeadInv /\ SpentInv /\ NothingStaleQueued
  BY <1>1 DEF EffectInv, DeadInv, SpentInv, NothingStaleQueued
<1>8. AdmissionInv /\ LockInv /\ RoomInv /\ CommitInv
  BY <1>3 DEF AdmissionInv, LockInv, RoomInv, CommitInv, Chosen, Stamped, Holding, Granted
<1>9. RevocationInv /\ WindowInv
  BY <1>3 DEF RevocationInv, WindowInv, Workers
<1>10. SweepInv
  BY <1>2 DEF SweepInv
<1>11. NoneStranded
  BY <1>1 DEF NoneStranded, Queued
<1> QED BY <1>4, <1>5, <1>6, <1>7, <1>8, <1>9, <1>10, <1>11 DEF IInv

LEMMA TypesKept ==
    ASSUME TypeOK, AdmissionInv, RevocationInv, RoomInv, BudgetExact, [Next]_vars
    PROVE  TypeOK'
<1>1. effects' \in Seq(Effects)
  BY EffectTypes
<1>2. used' \in [Terminals -> Budgets] /\ shared' \in Budgets
  BY <1>1, BudgetKept, BudgetTypes
<1> QED BY <1>1, <1>2, RegistrationTypes, AdmissionTypes, WorkerTypes, OtherTypes DEF TypeOK

LEMMA Inductive ==
    ASSUME IInv, [Next]_vars
    PROVE  IInv'
<1> USE DEF IInv
<1>1. TypeOK' /\ BudgetExact'
  BY TypesKept, BudgetKept
<1>2. HomeInv' /\ EffectInv' /\ AdmissionInv'
  BY HomeKept, EffectInvKept, AdmissionKept
<1>3. LockInv' /\ RoomInv'
  BY LockKept, RoomKept
<1>4. RevocationInv' /\ WindowInv' /\ DeadInv' /\ SpentInv'
  BY RevocationKept, WindowKept, DeadKept, SpentKept
<1>5. CommitInv' /\ NothingStaleQueued'
  BY CommitKept, StaleKept
<1>6. SweepInv' /\ NoneStranded'
  BY SweepKept, StrandedKept
<1> QED BY <1>1, <1>2, <1>3, <1>4, <1>5, <1>6

(* All of it, for every number of terminals, recipients, kinds and for      *)
(* every limit.                                                             *)
THEOREM Invariance == Spec => []IInv
BY Initially, Inductive, PTL DEF Spec

(* The types of the registrations, budgets, effects and threads             *)
(* (host_effects.rs).                                                       *)
THEOREM HostEffectTypes == Spec => []TypeOK
<1>1. IInv => TypeOK
  BY DEF IInv
<1> QED BY <1>1, Invariance, PTL

(* Both budgets count each effect that exists once, whichever of the many   *)
(* ways it leaves by, and admission never exceeds either                    *)
(* (EffectReservation, ProcessBudget).                                      *)
THEOREM BudgetsAreExact == Spec => []BudgetExact
<1>1. IInv => BudgetExact
  BY DEF IInv
<1> QED BY <1>1, Invariance, PTL

(* No effect stays queued without permission but while its removal is       *)
(* under way (revoke, set_allowed and admit_reserved in any order).         *)
THEOREM NothingStaleStays == Spec => []NothingStaleQueued
<1>1. IInv => NothingStaleQueued
  BY DEF IInv
<1> QED BY <1>1, Invariance, PTL

(* What had been queued or popped when a withdrawal returned is never       *)
(* carried out, even if the permission comes back (generations).            *)
THEOREM WithdrawalIsFinal == Spec => []NeverAfterWithdrawal
<1>1. IInv => NeverAfterWithdrawal
  BY DEF IInv, SpentInv, NeverAfterWithdrawal
<1> QED BY <1>1, Invariance, PTL

(* A closed sink stays without active recipients and queued effects         *)
(* (HostEffectSink::close against registrations and admissions).            *)
THEOREM CloseIsFinal == Spec => []CloseSettles
<1>1. ASSUME IInv PROVE CloseSettles
  <2> SUFFICES ASSUME NEW t \in Terminals, closed[t], rev["mux"].sink # t
               PROVE  /\ \A r \in Recipients : home[r] = t => ~active[r]
                      /\ \A i \in DOMAIN effects :
                            effects[i].terminal = t => effects[i].at # "queued"
    BY DEF CloseSettles
  <2>1. ASSUME NEW r \in Recipients, home[r] = t PROVE Swept(r)
    BY <1>1, <2>1 DEF IInv, SweepInv
  <2>2. ASSUME NEW i \in DOMAIN effects, effects[i].terminal = t
        PROVE  effects[i].at # "queued"
    <3>1. effects[i].to \in Recipients /\ home[effects[i].to] = t
      BY <1>1, <2>2, EffectFields DEF IInv, EffectInv
    <3> QED BY <2>1, <3>1 DEF Swept
  <2> QED BY <2>1, <2>2 DEF Swept
<1> QED BY <1>1, Invariance, PTL

(* Nothing valid waits in a queue whose view was not and will not be told,  *)
(* but where the view found the queue locked (activity, try_next).          *)
THEOREM NothingIsStranded == Spec => []NoneStranded
<1>1. IInv => NoneStranded
  BY DEF IInv
<1> QED BY <1>1, Invariance, PTL
=============================================================================
