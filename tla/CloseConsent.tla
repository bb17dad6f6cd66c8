---------------------------- MODULE CloseConsent ----------------------------
(* Closing with the user's consent (huterm-core/src/mux/lifecycle.rs,        *)
(* jobs.rs, jobs/lifecycle.rs).  Under the lock a request is resolved to an  *)
(* effect, its terminals and the revision; off the lock the terminals' jobs  *)
(* are listed and, if any run, shown to the user; off the lock they are      *)
(* listed again; under the lock the close is refused unless the revision     *)
(* still holds and the jobs stay within those that were shown.  Meanwhile    *)
(* other windows change the structure, jobs come and go, shells exit and     *)
(* runtimes stop.                                                            *)
EXTENDS Mux

CONSTANTS Groups,   \* process group numbers the system hands out
          Budgets   \* [ops, closes, processes, ends]: what one behaviour may hold

ASSUME CloseConstants ==
    \A b \in Budgets : \A what \in {"ops", "closes", "processes", "ends"} : b[what] \in Nat

VARIABLES
    ticket,     \* the close under way, and how far it is
    table,      \* the processes listed for it
    consent,    \* per terminal, the jobs the user was asked about
    current,    \* per terminal, the jobs found right before the commit
    processes,  \* jobs that run: id, pane, group, instance of it, leader or not
    born,       \* processes started so far
    exited,     \* terminals whose shell was seen to exit
    retired,    \* terminals whose runtime is tearing down
    stopped,    \* terminals whose runtime has stopped by itself
    budget      \* what is left of closes, processes and ends (bound)

closeVars == <<ticket, table, consent, current>>
jobVars == <<processes, born, exited, retired, stopped, budget>>
vars == <<muxVars, closeVars, jobVars>>

NoTicket == [phase |-> "none"]
Nothing == <<>>
Unlisted == [stopped |-> {}, readable |-> TRUE, jobs |-> {}]

CloseInit ==
    \E b \in Budgets :
        /\ MuxBegins(b.ops, Unsubscribed)
        /\ budget = b
        /\ ticket = NoTicket /\ table = Unlisted /\ consent = Nothing /\ current = Nothing
        /\ processes = {} /\ born = 0
        /\ exited = {} /\ retired = {} /\ stopped = {}

-----------------------------------------------------------------------------
(* What a request would do now. *)

Viewing(g, s) == {a \in DOMAIN g.attachments : g.attachments[a] = s}

Requests ==
    [kind : {"window"}, attachment : DOMAIN h.attachments]
      \cup [kind : {"session"}, session : DOMAIN h.workspaces]
      \cup {[kind |-> "tab", workspace |-> WorkspaceOf(h, t), tab |-> t] : t \in DOMAIN h.layout}
      \cup {[kind |-> "pane", tab |-> TabOf(h, p), pane |-> p] : p \in Panes(h)}
      \cup {[kind |-> "tabs", workspace |-> w, tabs |-> h.tabs[w]] :
              w \in {w \in DOMAIN h.tabs : h.tabs[w] # <<>>}}
      \cup {[kind |-> "application"]}
      \cup [kind : {"emptied"}, attachment : DOMAIN h.attachments, workspace : DOMAIN h.tabs]

Detaches(a) == [kind |-> "detach", attachment |-> a]
EndsSession(s) == [kind |-> "session", session |-> s]
EndsTab(t) == [kind |-> "tab", workspace |-> WorkspaceOf(h, t), tab |-> t]

(* A window's close ends its session when no other attachment views it; an    *)
(* emptied window ends it only when it holds no tab either.                   *)
Resolved(request) ==
    LET s == h.attachments[request.attachment]
        shared == Cardinality(Viewing(h, s)) > 1
    IN CASE request.kind = "window" ->
              IF shared THEN Detaches(request.attachment) ELSE EndsSession(s)
         [] request.kind = "emptied" ->
              IF shared \/ TabsIn(h, ToSet(h.workspaces[s])) # {}
              THEN Detaches(request.attachment) ELSE EndsSession(s)
         [] request.kind = "pane" /\ Len(h.layout[request.tab].panes) = 1 -> EndsTab(request.tab)
         [] OTHER -> request

(* Whether the targets of a request exist where it names them. *)
Resolves(request) ==
    CASE request.kind = "window" -> request.attachment \in DOMAIN h.attachments
      [] request.kind = "session" -> request.session \in DOMAIN h.workspaces
      [] request.kind = "tab" ->
            request.workspace \in DOMAIN h.tabs /\ Contains(h.tabs[request.workspace], request.tab)
      [] request.kind = "pane" ->
            request.tab \in DOMAIN h.layout /\ Contains(h.layout[request.tab].panes, request.pane)
      [] request.kind = "tabs" ->
            request.workspace \in DOMAIN h.tabs
              /\ ToSet(request.tabs) \subseteq ToSet(h.tabs[request.workspace])
      [] request.kind = "application" -> TRUE
      [] request.kind = "emptied" ->
            /\ request.attachment \in DOMAIN h.attachments
            /\ request.workspace \in DOMAIN h.tabs =>
                 \/ h.tabs[request.workspace] = <<>>
                 \/ SessionOf(h, request.workspace) # h.attachments[request.attachment]

(* The terminals an effect stops. *)
Covered(effect) ==
    CASE effect.kind = "detach" -> {}
      [] effect.kind = "session" -> PanesIn(h, TabsIn(h, ToSet(h.workspaces[effect.session])))
      [] effect.kind = "tab" -> ToSet(h.layout[effect.tab].panes)
      [] effect.kind = "pane" -> {effect.pane}
      [] effect.kind = "tabs" -> PanesIn(h, ToSet(effect.tabs))
      [] effect.kind = "application" -> terminals

-----------------------------------------------------------------------------
(* Jobs.  A listing shows, for every process, its identity, its group and     *)
(* when the group's leader, if it still runs, was started.                    *)

Idle == [kind |-> "idle", jobs |-> {}]
Unknown == [kind |-> "unknown", jobs |-> {}]
Running(jobs) == [kind |-> "running", jobs |-> jobs]

(* The start of a group's leader, its instance here; none once it is gone. *)
Started(jobs, group) ==
    LET leaders == {x \in jobs : x.group = group /\ x.leader}
    IN IF leaders = {} THEN 0 ELSE (CHOOSE x \in leaders : TRUE).instance

\* Mutant: a group is its number.
SameNumber(now, then, previous) == \E member \in now : member.group = previous.group
SameGroup(now, then, previous) ==
    LET started == Started(now, previous.group)
        before == Started(then, previous.group)
    IN IF started # 0 THEN started = before
       ELSE \E member \in now : member.group = previous.group /\ member.id = previous.id

CoveredBy(now, then) ==
    \/ now.kind = "idle"
    \/ now.kind = "unknown" /\ then.kind = "unknown"
    \/ /\ now.kind = "running" /\ then.kind = "running"
       /\ \A x \in now.jobs : \E y \in then.jobs :
            x.group = y.group /\ SameGroup(now.jobs, then.jobs, y)

(* A process of another program that holds an identity the shell gave up. *)
Stranger(p) == [id |-> 0, pane |-> p, group |-> CHOOSE g \in Groups : TRUE, instance |-> 0, leader |-> TRUE]

(* Terminals that stopped are not asked; the others' processes are listed in  *)
(* one table, which may fail to be read.  Once a shell is gone its identity   *)
(* may be another program's.                                                  *)
Listing ==
    [stopped |-> stopped, readable |-> TRUE,
     jobs |-> {x \in processes : x.pane \in ticket.terminals}
                \cup {Stranger(p) : p \in ticket.terminals \cap exited}]

Unread == [stopped |-> stopped, readable |-> FALSE, jobs |-> {}]

(* Read again after the listing: an exit or a teardown since overrides it. *)
Assess(p) ==
    LET listed == {x \in table.jobs : x.pane = p}
    IN IF p \in table.stopped \/ p \in exited \ retired THEN Idle
       ELSE IF p \in retired \/ ~table.readable THEN Unknown
       ELSE IF listed = {} THEN Idle ELSE Running(listed)

Assessment == [p \in ticket.terminals |-> Assess(p)]

NeedsConfirmation(evidence) == \E p \in DOMAIN evidence : evidence[p].kind # "idle"

-----------------------------------------------------------------------------
(* The close itself. *)

Prepare(request) ==
    /\ ticket.phase = "none" /\ budget.closes > 0
    /\ Resolves(request)
    /\ ticket' = [phase |-> "prepared", request |-> request, effect |-> Resolved(request),
                  revision |-> revision, terminals |-> Covered(Resolved(request))]
    /\ budget' = [budget EXCEPT !.closes = @ - 1]
    /\ UNCHANGED <<muxVars, table, consent, current, processes, born, exited, retired, stopped>>

List(phase, listed) ==
    /\ ticket.phase = phase /\ ticket' = [ticket EXCEPT !.phase = listed]
    /\ \/ table' = Listing /\ UNCHANGED budget
       \/ budget.ends > 0 /\ table' = Unread /\ budget' = [budget EXCEPT !.ends = @ - 1]
    /\ UNCHANGED <<muxVars, consent, current, processes, born, exited, retired, stopped>>

CheckJobs == List("prepared", "listed")

(* The user sees what runs. *)
Ask ==
    /\ ticket.phase = "listed" /\ ticket' = [ticket EXCEPT !.phase = "asked"]
    /\ consent' = Assessment
    /\ UNCHANGED <<muxVars, table, current, jobVars>>

(* Nothing runs, or the user agrees. *)
Recheck == List("asked", "relisted")

Rechecked ==
    /\ ticket.phase = "relisted" /\ ticket' = [ticket EXCEPT !.phase = "rechecked"]
    /\ current' = Assessment
    /\ UNCHANGED <<muxVars, table, consent, jobVars>>

GiveUp == ticket' = NoTicket /\ table' = Unlisted /\ consent' = Nothing /\ current' = Nothing

(* The user declines, or the evidence is older than two seconds. *)
Abandon ==
    /\ ticket.phase \in {"asked", "rechecked"}
    /\ GiveUp
    /\ UNCHANGED <<muxVars, jobVars>>

(* The revision is the one the user was asked at and no job has joined.  The  *)
(* user who was shown no job was not asked.                                   *)
Valid ==
    /\ ticket.revision = revision
    /\ \A p \in ticket.terminals : CoveredBy(current[p], consent[p])
    /\ NeedsConfirmation(current) => NeedsConfirmation(consent)

Perform(effect) ==
    CASE effect.kind = "detach" -> DetachSession(effect.attachment)
      [] effect.kind = "session" -> CloseSession(effect.session)
      [] effect.kind = "tab" -> CloseTab(effect.tab)
      [] effect.kind = "pane" -> ClosePane(effect.pane)
      [] effect.kind = "tabs" -> CloseTabs(effect.tabs)
      [] effect.kind = "application" -> Shutdown

(* Whatever stops a terminal stops its jobs. *)
JobsEnd == processes' = {x \in processes : x.pane \in terminals'}

CommitClose ==
    /\ ticket.phase = "rechecked" /\ Valid
    /\ Perform(ticket.effect) /\ JobsEnd
    /\ GiveUp
    /\ UNCHANGED <<born, exited, retired, stopped, budget>>

RefuseClose ==
    /\ ticket.phase = "rechecked" /\ ~Valid
    /\ GiveUp
    /\ UNCHANGED <<muxVars, jobVars>>

-----------------------------------------------------------------------------
(* Jobs, shells and runtimes. *)

(* A group number is free once no process holds it. *)
StartJob(p, g) ==
    /\ budget.processes > 0 /\ budget' = [budget EXCEPT !.processes = @ - 1]
    /\ p \in terminals \ (exited \cup retired)
    /\ \A x \in processes : x.group # g
    /\ born' = born + 1
    /\ processes' = processes \cup
         {[id |-> born + 1, pane |-> p, group |-> g, instance |-> born + 1, leader |-> TRUE]}
    /\ UNCHANGED <<muxVars, closeVars, exited, retired, stopped>>

Fork(x) ==
    /\ budget.processes > 0 /\ budget' = [budget EXCEPT !.processes = @ - 1]
    /\ born' = born + 1
    /\ processes' = processes \cup {[x EXCEPT !.id = born + 1, !.leader = FALSE]}
    /\ UNCHANGED <<muxVars, closeVars, exited, retired, stopped>>

ProcessExits(x) ==
    /\ processes' = processes \ {x}
    /\ UNCHANGED <<muxVars, closeVars, born, exited, retired, stopped, budget>>

Ends(p) == budget.ends > 0 /\ budget' = [budget EXCEPT !.ends = @ - 1] /\ p \in terminals

ShellExits(p) ==
    /\ Ends(p) /\ p \notin exited \cup retired
    /\ exited' = exited \cup {p}
    /\ UNCHANGED <<muxVars, closeVars, processes, born, retired, stopped>>

(* The runtime's teardown ends what still runs, then its registry closes. *)
Retire(p) ==
    /\ Ends(p) /\ p \notin retired
    /\ retired' = retired \cup {p}
    /\ processes' = {x \in processes : x.pane # p}
    /\ UNCHANGED <<muxVars, closeVars, born, exited, stopped>>

RuntimeStops(p) ==
    /\ p \in retired \ stopped /\ stopped' = stopped \cup {p}
    /\ UNCHANGED <<muxVars, closeVars, processes, born, exited, retired, budget>>

Happens ==
    \/ \E p \in terminals : ShellExits(p) \/ Retire(p) \/ RuntimeStops(p)
    \/ \E p \in terminals, g \in Groups : StartJob(p, g)
    \/ \E x \in processes : Fork(x) \/ ProcessExits(x)

(* While a close may still commit, one operation is left to it (bound). *)
Operate ==
    /\ left > IF budget.closes > 0 \/ ticket # NoTicket THEN 1 ELSE 0
    /\ MuxNext /\ JobsEnd
    /\ UNCHANGED <<closeVars, born, exited, retired, stopped, budget>>

Next ==
    \/ Operate \/ Happens
    \/ \E request \in Requests : Prepare(request)
    \/ CheckJobs \/ Ask \/ Recheck \/ Rechecked
    \/ Abandon \/ CommitClose \/ RefuseClose

CloseSpec == CloseInit /\ [][Next]_vars

-----------------------------------------------------------------------------
(* A committed close does what its request means at that moment, which is     *)
(* what the user was told it would do: it stops the terminals that were       *)
(* assessed, all of them and no other.                                        *)
ConsentedScope ==
    [][CommitClose => /\ Resolves(ticket.request)
                      /\ Resolved(ticket.request) = ticket.effect
                      /\ terminals \ terminals' = ticket.terminals]_vars

(* The groups the user was asked about: every process that was listed for the *)
(* commit and still runs belongs to one, unless its terminal could not be     *)
(* read at either time or its shell is gone.  What the user was shown were    *)
(* jobs of the terminals themselves.                                          *)
ConsentedJobs ==
    [][CommitClose =>
        \A p \in ticket.terminals :
            /\ consent[p].kind = "unknown" \/ p \in exited \/
                 \A x \in processes \cap table.jobs :
                    x.pane = p => \E y \in consent[p].jobs : y.instance = x.instance
            /\ Stranger(p) \notin consent[p].jobs \cup current[p].jobs]_vars
=============================================================================
