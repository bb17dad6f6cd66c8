---------------------------- MODULE Projection ----------------------------
(* The desktop's copy of the runtime's structure                             *)
(* (huterm-gpui/src/desktop/windows/projection.rs, windows.rs), fed by one   *)
(* subscription.  The UI thread drains it when it is signalled and when a    *)
(* structural operation completes; a completion whose change is not in the   *)
(* copy yet parks on a waiter.  A subscription that lagged is replaced from  *)
(* a snapshot a worker takes, and Quit freezes the copy.                     *)
EXTENDS Mux

CONSTANT Scenarios    \* [ops, kinds]: how many operations, and of what kinds

Kinds == {"create", "arrange", "move", "restore", "close", "view"}
ASSUME ProjectionConstants ==
    \A s \in Scenarios : s.ops \in Nat /\ s.kinds \subseteq Kinds

VARIABLES
    view,         \* the copy: a structure and the sequence it is current through
    shown,        \* the structure the windows were last reconciled with
    resyncing,    \* drains defer to a resubscription
    worker,       \* the resubscription: "idle", "asked" or "taken"
    taken,        \* the snapshot of the latest subscription
    frozen,       \* nothing more applies
    terminating,  \* Quit has committed
    completions,  \* sequences of operations whose completion has not run
    waits,        \* sequences completions are parked on
    kinds         \* kinds of operations that happen (bound)

clientVars == <<view, shown, resyncing, worker, taken, frozen, waits>>
vars == <<muxVars, clientVars, terminating, completions, kinds>>

NoSnapshot == [h |-> EmptyHierarchy, seq |-> 0]

ProjectionInit ==
    \E s \in Scenarios :
        /\ MuxBegins(s.ops, Subscribed)
        /\ kinds = s.kinds
        /\ view = [h |-> Start, seq |-> 0] /\ shown = Start
        /\ resyncing = FALSE /\ worker = "idle" /\ taken = NoSnapshot
        /\ frozen = FALSE /\ terminating = FALSE
        /\ completions = {} /\ waits = {}

-----------------------------------------------------------------------------
(* One event of the queue, until one ends the drain: the Reset of Quit, or    *)
(* one that is not the next of the copy or contradicts it.                    *)
Received(copy, envelope) ==
    IF copy.outcome # "current" THEN copy
    ELSE IF envelope.event.kind = "Reset" THEN [copy EXCEPT !.outcome = "frozen"]
    ELSE IF envelope.seq <= copy.seq THEN copy
    ELSE IF envelope.seq # copy.seq + 1 \/ ~Accepts(copy.h, envelope.event)
    THEN [copy EXCEPT !.outcome = "resync"]
    ELSE [copy EXCEPT !.h = Applied(@, envelope.event), !.seq = envelope.seq]

(* Every queued event in turn; a lagged subscription has none left.           *)
Drained(copy) ==
    LET done[i \in 0..Len(queue.events)] ==
          IF i = 0 THEN [h |-> copy.h, seq |-> copy.seq, outcome |-> "current"]
          ELSE Received(done[i - 1], queue.events[i])
        end == done[Len(queue.events)]
    IN IF end.outcome = "current" /\ queue.lagged THEN [end EXCEPT !.outcome = "resync"] ELSE end

\* Mutant: a waiter for the very sequence that was applied stays parked.
WaitingAt(W, applied) == {s \in W : s >= applied}

(* Waiters at or below the sequence the copy applied are answered. *)
Waiting(W, applied) == {s \in W : s > applied}

(* Quit ends every wait and any resubscription. *)
Freeze == frozen' = TRUE /\ waits' = {} /\ resyncing' = FALSE

Holds(copy) == view' = [h |-> copy.h, seq |-> copy.seq]

(* Drain what is queued; then the completion that asked, if one did, parks on *)
(* a sequence that was not reached.  The windows are reconciled and the other *)
(* waiters answered only when no event was lost.                              *)
Drain(asked) ==
    \E copy \in {Drained(view)} :
        /\ Holds(copy)
        /\ \/ /\ copy.outcome = "current"
              /\ shown' = copy.h
              /\ waits' = Waiting(waits \cup asked, copy.seq)
              /\ UNCHANGED <<resyncing, worker, frozen>>
           \/ /\ copy.outcome = "resync"
              /\ resyncing' = TRUE /\ worker' = "asked"
              /\ waits' = waits \cup Waiting(asked, copy.seq)
              /\ UNCHANGED <<shown, frozen>>
           \/ /\ copy.outcome = "frozen"
              /\ shown' = copy.h /\ Freeze
              /\ UNCHANGED worker

(* Quit may be marked right after a step looked whether it was. *)
Sampled == {terminating, FALSE}

(* While a resubscription is under way nothing drains. *)
Sync(asked, wake) ==
    /\ UNCHANGED taken
    /\ \E quits \in Sampled :
        \/ /\ quits \/ frozen
           /\ Freeze
           /\ queue' = [queue EXCEPT !.wake = wake]
           /\ UNCHANGED <<view, shown, worker>>
        \/ /\ ~quits /\ ~frozen /\ resyncing
           /\ waits' = waits \cup Waiting(asked, view.seq)
           /\ queue' = [queue EXCEPT !.wake = wake]
           /\ UNCHANGED <<view, shown, resyncing, worker, frozen>>
        \/ /\ ~quits /\ ~frozen /\ ~resyncing
           /\ Drain(asked)
           /\ queue' = [queue EXCEPT !.events = <<>>, !.wake = wake]

structureVars == <<h, terminals, viewers, next, revision, seq, history, left>>

(* The subscription's task takes the signal.  A subscription that is not      *)
(* installed yet has none.                                                    *)
Woken ==
    /\ queue.wake /\ worker # "taken"
    /\ Sync({}, FALSE)
    /\ UNCHANGED <<structureVars, terminating, completions, kinds>>

(* A structural operation's completion asks for the sequence it committed at. *)
Completed(s) ==
    /\ s \in completions /\ completions' = completions \ {s}
    /\ Sync({s}, queue.wake)
    /\ UNCHANGED <<structureVars, terminating, kinds>>

(* The worker's snapshot and its new subscription, taken under the lock.  The *)
(* replaced subscription is never drained again.                              *)
Resubscribe ==
    /\ worker = "asked" /\ worker' = "taken"
    /\ taken' = [h |-> h, seq |-> seq] /\ queue' = Subscribed
    /\ UNCHANGED <<structureVars, view, shown, resyncing, frozen, waits, terminating, completions, kinds>>

(* The snapshot replaces the copy together with what followed it.  When the   *)
(* new subscription lagged again another is taken and nothing is reconciled.  *)
Install ==
    /\ worker = "taken" /\ taken' = NoSnapshot
    /\ \E quits \in Sampled :
        \/ /\ quits \/ frozen
           /\ Freeze /\ worker' = "idle"
           /\ UNCHANGED <<view, shown, queue>>
        \/ /\ ~quits /\ ~frozen
           /\ queue' = [queue EXCEPT !.events = <<>>]
           /\ \E copy \in {Drained(taken)} :
                 /\ Holds(copy)
                 /\ \/ /\ copy.outcome = "current"
                       /\ shown' = copy.h /\ waits' = Waiting(waits, copy.seq)
                       /\ resyncing' = FALSE /\ worker' = "idle"
                       /\ UNCHANGED frozen
                    \/ /\ copy.outcome = "resync"
                       /\ worker' = "asked"
                       /\ UNCHANGED <<shown, waits, resyncing, frozen>>
                    \/ /\ copy.outcome = "frozen"
                       /\ shown' = copy.h /\ Freeze /\ worker' = "idle"
    /\ UNCHANGED <<structureVars, terminating, completions, kinds>>

-----------------------------------------------------------------------------
(* The runtime.  Quit is marked before its teardown empties the structure;    *)
(* between the two only closes that were prepared before may commit.          *)

Structure ==
    \/ "create" \in kinds /\ Creates
    \/ "arrange" \in kinds /\ Arranges
    \/ "move" \in kinds /\ Moves
    \/ "restore" \in kinds /\ Restores
    \/ "close" \in kinds /\ Closes
    \/ "view" \in kinds /\ Views

Operate ==
    /\ IF terminating THEN Closes ELSE Structure
    /\ completions' = completions \cup {seq'}
    /\ UNCHANGED <<clientVars, terminating, kinds>>

Terminate ==
    /\ "close" \in kinds /\ ~terminating /\ terminating' = TRUE
    /\ UNCHANGED <<muxVars, clientVars, completions, kinds>>

Teardown ==
    /\ terminating /\ Shutdown
    /\ UNCHANGED <<clientVars, terminating, completions, kinds>>

(* What follows Quit's commit ends the waits that are left. *)
Settle ==
    /\ terminating /\ waits # {} /\ waits' = {}
    /\ UNCHANGED <<muxVars, view, shown, resyncing, worker, taken, frozen, terminating, completions, kinds>>

Next ==
    \/ Operate \/ Terminate \/ Teardown \/ Settle
    \/ Woken \/ Resubscribe \/ Install
    \/ \E s \in completions : Completed(s)

(* The UI thread and the executor run what stays ready; nobody has to operate *)
(* and a Quit that was marked may never tear down.  This is weak fairness of  *)
(* the four steps, written out: each can be taken exactly when its guard      *)
(* holds, whatever the drain in it then finds.                                *)
Fairness ==
    /\ <>[](queue.wake /\ worker # "taken") => []<><<Woken>>_vars
    /\ <>[](worker = "asked") => []<><<Resubscribe>>_vars
    /\ <>[](worker = "taken") => []<><<Install>>_vars
    /\ <>[](completions # {}) => []<><<\E s \in completions : Completed(s)>>_vars

ProjectionSpec == ProjectionInit /\ [][Next]_vars /\ Fairness

-----------------------------------------------------------------------------
(* Whatever operations ran, the events a live subscription still holds are    *)
(* exactly those that lead from the copy to the runtime's structure: the copy *)
(* accepts each of them in turn and ends equal to it, so that no drain ever   *)
(* diverges.  A snapshot that was taken and not installed stands the same     *)
(* way towards the new subscription.                                          *)
FollowsStream ==
    LET Leads(copy) ==
          LET done == Drained(copy)
          IN queue.lagged \/ done.outcome = "frozen" \/ [h |-> done.h, seq |-> done.seq] = [h |-> h, seq |-> seq]
    IN /\ worker = "taken" => Leads(taken)
       /\ ~resyncing /\ ~frozen => Leads(view)

(* Once operations cease, no completion stays parked, and unless Quit was     *)
(* under way the windows were reconciled with the structure that is there,    *)
(* however many subscriptions lagged meanwhile.                               *)
CatchesUp == <>[](waits = {} /\ (terminating \/ shown = h))
=============================================================================
