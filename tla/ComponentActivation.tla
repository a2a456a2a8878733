------------------------ MODULE ComponentActivation ------------------------
(***************************************************************************)
(* One host of the component runtime replaces its set of components:       *)
(* reconcile() resolves the desired manifests into a set, compares it with *)
(* the current one and runs an activation transaction, which brings up the *)
(* new fibers, drains and disposes the prior ones, and unwinds the new     *)
(* ones when a drain does not end.  Operations and effects of the          *)
(* components go on between its turns.                                     *)
(*                                                                         *)
(* createFiber is a parameter of reconcile().  The host here keeps a table *)
(* of its fibers and hands out the one that serves an identity, another    *)
(* one when there is none.  A fiber is what ComponentFiber makes of it,    *)
(* with one effect and at most one operation.                              *)
(***************************************************************************)
EXTENDS Integers, Sequences, FiniteSets, SequencesExt

CONSTANTS
    Names,          \* the identities componentId@version, in the order of their names
    ComponentId,    \* identity -> component id
    Provides,       \* identity -> set of [capability, version]
    Requires,       \* identity -> set of [capability, range, optional]
    Grants,         \* identity -> set of [scope, resource] it requests
    Owners,         \* identity -> owners named by its resource bounds
    EffectClass,    \* identity -> class of its effect
    Profiles,       \* the sets of manifests that may be desired
    Offers,         \* the sets of artifacts that may be available
    Admissions,     \* the sets of grants that may be admitted
    MaxRuns,        \* bound: calls of reconcile()
    MaxEvents       \* bound: calls of handlers, and components that fail

VARIABLES
    fiber,          \* the host's table: identity -> fiber
    current,        \* the set the host believes active
    tx,             \* the transaction
    outcome,        \* what the last reconcile() returned
    runs,
    events

vars == <<fiber, current, tx, outcome, runs, events>>

Identity == {Names[i] : i \in DOMAIN Names}
None == "none"

Lifecycle == {"declared", "waiting", "loading", "active", "draining", "unloading",
              "disposed", "failed", "quarantined"}
Bad == {"quarantined", "failed-rollback"}

-----------------------------------------------------------------------------
(* The resolver *)

\* The ranges a manifest may state are more than these three forms: any other
\* form is accepted by the schema and satisfied by no version.
SemverSatisfies(v, range) ==
    LET r == range.version
    IN  \/ /\ range.form = "caret" /\ r[1] = v[1]
           /\ \/ v[2] > r[2]
              \/ v[2] = r[2] /\ v[3] >= r[3]
        \/ range.form = "tilde" /\ r[1] = v[1] /\ r[2] = v[2]
        \/ range.form = "exact" /\ r = v

LawKernelGrantScopes == {"certify", "administer"}

\* A manifest requests no scope reserved to the kernel and bounds nobody
\* else's resources.
ParseComponentManifest(i) ==
    /\ \A g \in Grants[i] : g.scope \notin LawKernelGrantScopes
    /\ Owners[i] \subseteq {ComponentId[i]}

FindProviders(capability, desired) ==
    {<<m, p>> \in desired \X UNION {Provides[m] : m \in desired} :
        p \in Provides[m] /\ p.capability = capability}

Compatible(q, desired) ==
    {mp \in FindProviders(q.capability, desired) : SemverSatisfies(mp[2].version, q.range)}

\* A requirement that is not optional has one compatible provider, and none
\* has two.
RequirementsMet(desired) ==
    \A i \in desired : \A q \in Requires[i] :
        /\ Cardinality(Compatible(q, desired)) <= 1
        /\ q.optional \/ Compatible(q, desired) # {}

\* From the component that requires to the one that provides.
Edges(desired) ==
    {<<i, m>> \in desired \X desired :
        i # m /\ \E q \in Requires[i] : \E mp \in Compatible(q, desired) : mp[1] = m}

\* In every part of a graph without a cycle somebody requires nothing of it.
DetectCycle(edges, nodes) ==
    \E part \in SUBSET nodes \ {{}} :
        \A i \in part : \E m \in part : <<i, m>> \in edges

\* Who is required by nobody left comes first, in the order of the names.
TopologicalSort(edges, nodes) ==
    LET order[left \in SUBSET nodes] ==
          IF left = {} THEN <<>>
          ELSE LET free == {i \in left : \A m \in left : <<m, i>> \notin edges}
                   first == Head(SelectSeq(Names, LAMBDA i : i \in free))
               IN  <<first>> \o order[left \ {first}]
    IN  order[nodes]

\* The steps of resolve() up to the set; each one blocks on its own.
Resolve(desired, offer, admitted) ==
    /\ \A i \in desired : ParseComponentManifest(i)
    /\ desired \subseteq offer
    /\ \A i \in desired : Grants[i] \subseteq admitted
    /\ RequirementsMet(desired)
    /\ ~DetectCycle(Edges(desired), desired)

ResolvedSet(desired) == TopologicalSort(Edges(desired), desired)

\* What must go and what must come: the ids no longer there, the new ones, and
\* those whose version differs.
ComputeReconciliationPlan(from, to) ==
    [unload |-> from \ to, load |-> to \ from]

-----------------------------------------------------------------------------
(* The effect handlers: each operator is the handler after the call and the
   outcome it returns, when the function it wraps succeeds or fails.         *)

NewHandler == [prepared |-> FALSE, committed |-> FALSE, undone |-> FALSE,
               withheld |-> TRUE, inForce |-> FALSE]

Answer(h, o) == [handler |-> h, outcome |-> o]

\* A revertible effect is in force from its registration.
RevertibleDispose(h, ok) ==
    CASE h.undone -> Answer(h, "aborted")
      [] ~h.undone /\ ok -> Answer([h EXCEPT !.undone = TRUE, !.inForce = FALSE], "aborted")
      [] OTHER -> Answer(h, "failed-rollback")

TransactionalPrepare(h, ok) ==
    CASE h.prepared \/ h.committed \/ h.undone -> Answer(h, "committed")
      [] OTHER -> IF ok THEN Answer([h EXCEPT !.prepared = TRUE], "committed")
                        ELSE Answer(h, "failed-rollback")

\* It does not ask whether the transaction was aborted.
TransactionalCommit(h, ok) ==
    CASE h.committed -> Answer(h, "committed")
      [] ~h.committed /\ h.prepared /\ ok ->
            Answer([h EXCEPT !.committed = TRUE, !.inForce = TRUE], "committed")
      [] OTHER -> Answer(h, "failed-rollback")

TransactionalAbort(h, ok) ==
    CASE h.undone \/ h.committed -> Answer(h, "aborted")
      [] OTHER -> IF ok THEN Answer([h EXCEPT !.undone = TRUE], "aborted")
                        ELSE Answer(h, "failed-rollback")

TransactionalDispose(h, ok) ==
    IF h.committed THEN Answer(h, "committed") ELSE TransactionalAbort(h, ok)

CompensatableCommit(h, ok) ==
    CASE h.committed -> Answer(h, "committed")
      [] OTHER -> IF ok THEN Answer([h EXCEPT !.committed = TRUE, !.inForce = TRUE], "committed")
                        ELSE Answer(h, "failed-rollback")

\* abort() of a committed effect is its compensation.
Compensate(h, ok) ==
    CASE h.undone -> Answer(h, "compensated")
      [] ~h.undone /\ ~h.committed -> Answer(h, "aborted")
      [] OTHER -> IF ok THEN Answer([h EXCEPT !.undone = TRUE, !.inForce = FALSE], "compensated")
                        ELSE Answer(h, "quarantined")

\* Fault: an effect that was committed is left to its owner.
LeaveCommitted(h, ok) == Answer(h, IF h.undone THEN "compensated" ELSE "aborted")

CompensatableDispose(h, ok) ==
    IF h.committed /\ ~h.undone THEN Compensate(h, ok)
    ELSE Answer(h, IF h.undone THEN "compensated" ELSE "aborted")

\* Emitting asks neither whether the emission was aborted.
EmissionCommit(h, ok) ==
    CASE h.committed -> Answer(h, "committed")
      [] OTHER -> IF ok THEN Answer([h EXCEPT !.committed = TRUE, !.withheld = FALSE,
                                              !.inForce = TRUE], "committed")
                        ELSE Answer(h, "failed-rollback")

EmissionAbort(h) ==
    IF h.committed THEN Answer(h, "quarantined")
    ELSE Answer([h EXCEPT !.withheld = FALSE], "aborted")

EmissionDispose(h) ==
    Answer(h, CASE h.withheld -> "withheld" [] h.committed -> "committed" [] OTHER -> "aborted")

HandlerDispose(class, h, ok) ==
    CASE class = "revertible" -> RevertibleDispose(h, ok)
      [] class = "transactional" -> TransactionalDispose(h, ok)
      [] class = "compensatable" -> CompensatableDispose(h, ok)
      [] class = "irreversible-emission" -> EmissionDispose(h)

\* What the code of a component may call on its handler.
HandlerCalls(class, h, ok) ==
    CASE class = "revertible" -> {RevertibleDispose(h, ok)}
      [] class = "transactional" ->
            {TransactionalPrepare(h, ok), TransactionalCommit(h, ok), TransactionalAbort(h, ok)}
      [] class = "compensatable" -> {CompensatableCommit(h, ok), Compensate(h, ok)}
      [] class = "irreversible-emission" -> {EmissionCommit(h, ok), EmissionAbort(h)}

\* An effect an ended component may leave: a committed transaction, an emission.
Lasting(i) == EffectClass[i] \in {"transactional", "irreversible-emission"}

CreateEffectHandler(i) == [NewHandler EXCEPT !.inForce = EffectClass[i] = "revertible"]

-----------------------------------------------------------------------------
(* The host, its components, and reconcile() *)

Fiber(i) == [state |-> "declared", busy |-> FALSE, handler |-> CreateEffectHandler(i)]
Absent == [state |-> "disposed", busy |-> FALSE,
           handler |-> [NewHandler EXCEPT !.undone = TRUE]]

CanAcceptNewCalls(i) == fiber[i].state = "active"

\* The host hands out the fiber that serves; what may still run on one it
\* replaces is no longer followed.
CreateFiber(i) == IF fiber[i].state \in {"active", "draining"} THEN fiber[i] ELSE Fiber(i)

Idle == [state |-> "idle", prior |-> {}, proposed |-> {}, step |-> "none", todo |-> <<>>,
         drained |-> {}]

Init ==
    /\ fiber = [i \in Identity |-> Absent]
    /\ current = {} /\ tx = Idle /\ outcome = None
    /\ runs = 0 /\ events = 0

\* The order is that of the names, whatever the dependencies.
SortByDependency(S) == SelectSeq(Names, LAMBDA i : i \in S)

\* prepare() has no turn of its own: each fiber is taken to waiting, loading and
\* active.  One that serves already cannot be: those after it are left as they
\* were made, those before it waiting, and the abort begins.
Prepare(desired) ==
    LET order == SortByDependency(desired)
        made == [i \in desired |-> CreateFiber(i)]
        stuck == {k \in DOMAIN order : made[order[k]].state # "declared"}
        first == CHOOSE k \in stuck : \A j \in stuck : k <= j
        at(i) == CHOOSE k \in DOMAIN order : order[k] = i
        reached(i) ==
            CASE stuck = {} -> [made[i] EXCEPT !.state = "active"]
              [] stuck # {} /\ at(i) < first -> [made[i] EXCEPT !.state = "waiting"]
              [] OTHER -> made[i]
    IN  /\ fiber' = [i \in Identity |-> IF i \in desired THEN reached(i) ELSE fiber[i]]
        /\ tx' = [state |-> IF stuck = {} THEN "committing" ELSE "aborting",
                  prior |-> current, proposed |-> desired,
                  step |-> IF stuck = {} THEN "drain" ELSE "dispose",
                  todo |-> Reverse(IF stuck = {} THEN SortByDependency(current) ELSE order),
                  drained |-> {}]

\* The hash of a set covers its profile, grants and policies beside its
\* components; samePolicies: those are as the current set has them.
Reconcile(desired, offer, admitted, samePolicies) ==
    LET to == Range(ResolvedSet(desired))
        plan == ComputeReconciliationPlan(current, to)
        same == plan.unload = {} /\ plan.load = {} /\ samePolicies
    IN  /\ tx.step = "none" /\ runs < MaxRuns
        /\ runs' = runs + 1
        /\ \/ /\ ~Resolve(desired, offer, admitted)
              /\ outcome' = "blocked" /\ tx' = Idle
              /\ UNCHANGED fiber
           \/ /\ Resolve(desired, offer, admitted)
              /\ same
              /\ outcome' = "no-op" /\ tx' = Idle
              /\ UNCHANGED fiber
           \/ /\ Resolve(desired, offer, admitted)
              /\ ~same
              /\ Prepare(to)
              /\ outcome' = None
        /\ UNCHANGED <<current, events>>

Next1 == Head(tx.todo)

\* A drain that does not end aborts the transaction; the prior fibers drained
\* so far stay so.
TimedOut ==
    [tx EXCEPT !.state = "aborting", !.step = "dispose",
               !.todo = Reverse(SortByDependency(tx.proposed))]

\* commit() drains the prior fibers one after the other, the last name first.
\* A fiber that does not serve cannot enter draining and is passed over,
\* whatever runs on it.
Drain ==
    /\ tx.step = "drain" /\ tx.todo # <<>>
    /\ LET i == Next1
           f == CreateFiber(i)
       IN  \/ /\ f.state = "active"
              /\ fiber' = [fiber EXCEPT ![i] = [f EXCEPT !.state = "draining"]]
              /\ tx' = [tx EXCEPT !.step = "wait"]
           \/ /\ f.state # "active"
              /\ fiber' = [fiber EXCEPT ![i] = f]
              /\ tx' = [tx EXCEPT !.todo = Tail(@)]
    /\ UNCHANGED <<current, outcome, runs, events>>

DrainEnds ==
    /\ tx.step = "wait" /\ ~fiber[Next1].busy
    /\ tx' = [tx EXCEPT !.step = "drain", !.todo = Tail(@), !.drained = @ \cup {Next1}]
    /\ UNCHANGED <<fiber, current, outcome, runs, events>>

DrainTimesOut ==
    /\ tx.step = "wait" /\ fiber[Next1].busy
    /\ tx' = TimedOut
    /\ UNCHANGED <<fiber, current, outcome, runs, events>>

\* Every prior fiber drained, or passed over: their disposal begins.
Drained ==
    /\ tx.step = "drain" /\ tx.todo = <<>>
    /\ tx' = [tx EXCEPT !.step = "dispose", !.todo = Reverse(SortByDependency(tx.prior))]
    /\ UNCHANGED <<fiber, current, outcome, runs, events>>

\* dispose() of the next fiber.  Those that abort() would skip, because they
\* have ended, are disposed by nobody else here.
Dispose ==
    /\ tx.step = "dispose" /\ tx.todo # <<>>
    /\ fiber' = [fiber EXCEPT ![Next1].state =
                    IF @ \in {"active", "draining"} THEN "unloading" ELSE @]
    /\ tx' = [tx EXCEPT !.step = "unwind"]
    /\ UNCHANGED <<current, outcome, runs, events>>

\* Fault: an effect that could not be unwound is only reported.
KeepGoing(a) == FALSE

Quarantines(a) == a.outcome \in Bad

\* The handler answers: the fiber ends, unless its state does not allow that.
\* A rollback that failed ends the transaction where it stands.
Unwind ==
    /\ tx.step = "unwind"
    /\ \E ok \in BOOLEAN :
          LET i == Next1
              f == fiber[i]
              a == HandlerDispose(EffectClass[i], f.handler, ok)
              ends == IF a.outcome \in Bad THEN {"active", "draining", "unloading", "failed"}
                      ELSE {"unloading"}
          IN  /\ fiber' = [fiber EXCEPT ![i].handler = a.handler,
                    ![i].state = IF @ \notin ends THEN @
                                 ELSE IF a.outcome \in Bad THEN "quarantined" ELSE "disposed"]
              /\ IF Quarantines(a)
                 THEN /\ tx' = [tx EXCEPT !.state = "quarantined", !.step = "none", !.todo = <<>>]
                      /\ outcome' = "quarantined"
                 ELSE /\ tx' = [tx EXCEPT !.step = "dispose", !.todo = Tail(@)]
                      /\ UNCHANGED outcome
    /\ UNCHANGED <<current, runs, events>>

\* Every fiber of the round disposed.
Ended ==
    /\ tx.step = "dispose" /\ tx.todo = <<>>
    /\ LET end == IF tx.state = "committing" THEN "committed" ELSE "aborted"
       IN  /\ tx' = [tx EXCEPT !.state = end, !.step = "none"]
           /\ outcome' = end
           /\ current' = IF end = "committed" THEN tx.proposed ELSE current
    /\ UNCHANGED <<fiber, runs, events>>

-----------------------------------------------------------------------------
(* The components at work *)

RunOperation(i) ==
    /\ CanAcceptNewCalls(i) /\ ~fiber[i].busy
    /\ fiber' = [fiber EXCEPT ![i].busy = TRUE]
    /\ UNCHANGED <<current, tx, outcome, runs, events>>

OperationSettles(i) ==
    /\ fiber[i].busy
    /\ fiber' = [fiber EXCEPT ![i].busy = FALSE]
    /\ UNCHANGED <<current, tx, outcome, runs, events>>

\* A running operation calls the handler of its component.
UseEffect(i) ==
    /\ fiber[i].busy /\ events < MaxEvents /\ events' = events + 1
    /\ ~(tx.step = "unwind" /\ Next1 = i)
    /\ \E ok \in BOOLEAN : \E a \in HandlerCalls(EffectClass[i], fiber[i].handler, ok) :
          /\ a.handler # fiber[i].handler
          /\ fiber' = [fiber EXCEPT ![i].handler = a.handler]
    /\ UNCHANGED <<current, tx, outcome, runs>>

ComponentFails(i) ==
    /\ fiber[i].state \in {"active", "draining"}
    /\ events < MaxEvents /\ events' = events + 1
    /\ fiber' = [fiber EXCEPT ![i].state = "failed"]
    /\ UNCHANGED <<current, tx, outcome, runs>>

Next ==
    \/ \E d \in Profiles, o \in Offers, g \in Admissions, samePolicies \in BOOLEAN :
          Reconcile(d, o, g, samePolicies)
    \/ Drain \/ DrainEnds \/ DrainTimesOut \/ Drained \/ Dispose \/ Unwind \/ Ended
    \/ \E i \in Identity : \/ RunOperation(i) \/ OperationSettles(i) \/ UseEffect(i)
                           \/ ComponentFails(i)

Spec == Init /\ [][Next]_vars

-----------------------------------------------------------------------------
(* What is observed of it *)

ToReflectedState(s) ==
    CASE s \in {"declared", "loading"} -> "waiting"
      [] s = "unloading" -> "draining"
      [] s = "disposed" -> "failed"
      [] OTHER -> s

\* The catalogue of what the set provides, from observations made now.
CreateCapabilityCatalog(S) ==
    UNION {{[capability |-> p.capability, identity |-> i,
             callable |-> ToReflectedState(fiber[i].state) = "active"] : p \in Provides[i]} :
           i \in S}

TypeOK ==
    /\ \A i \in Identity : fiber[i].state \in Lifecycle /\ fiber[i].busy \in BOOLEAN
    /\ current \subseteq Identity
    /\ tx.state \in {"idle", "committing", "aborting", "committed", "aborted", "quarantined"}
    /\ outcome \in {None, "blocked", "no-op", "committed", "aborted", "quarantined"}

\* A commit is the end of the prior set: none of its fibers serves, those it
\* drained have left nothing in force but what cannot be taken back, and the
\* catalogue of both sets offers a component in one version only.
CommittedReplacesThePrior ==
    outcome = "committed" =>
        /\ \A i \in tx.prior :
              /\ fiber[i].state \notin {"active", "draining", "unloading"}
              /\ i \in tx.drained /\ fiber[i].handler.inForce => Lasting(i)
        /\ \A e, f \in CreateCapabilityCatalog(current \cup tx.prior) :
              e.callable /\ f.callable /\ ComponentId[e.identity] = ComponentId[f.identity]
                => e.identity = f.identity

\* A commit drains every prior fiber first.  Not kept, and in no run: a retry
\* after a timeout finds the fiber draining, which drain() reports as not timed
\* out, and disposes it under its operation.
CommitDrains == outcome = "committed" => tx.prior \subseteq tx.drained

\* An abort takes back what the transaction started: none of the new fibers
\* serves, and a failed rollback was not passed over.
AbortedServesNothingNew ==
    outcome = "aborted" =>
        \A i \in tx.proposed : fiber[i].state \notin {"active", "unloading", "quarantined"}

\* An abort leaves the prior set in service.  Not kept, and in no run: the fibers
\* drained before the timeout stay draining, and a component that both sets have
\* is disposed with the new ones.
AbortedRestoresThePrior ==
    outcome = "aborted" => \A i \in tx.prior : fiber[i].state \in {"active", "failed"}

=============================================================================
