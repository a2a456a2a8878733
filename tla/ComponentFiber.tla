---------------------------- MODULE ComponentFiber ----------------------------
(***************************************************************************)
(* Component fibers: the lifecycle machine of a loaded component           *)
(* (component-runtime/lifecycle.ts), the fiber that owns the component's   *)
(* running operations, effects and child fibers (fiber.ts), and the        *)
(* revertible effect handlers it unwinds (effects.ts).                     *)
(*                                                                         *)
(* drain() and dispose() are asynchronous and hold no lock: between two    *)
(* awaits of one call any other call on the same fiber may run.  A call of *)
(* dispose() is a stack of frames, one per fiber it has descended into.    *)
(***************************************************************************)
EXTENDS Integers, Sequences, FiniteSets, SequencesExt

CONSTANTS
    Fiber, Handler, Op, Caller,
    HandlerOf,    \* the fiber an effect handler is registered with
    HandlerId,    \* the effect id it is registered under
    OpOf, OpId,   \* the fiber an operation runs on, and its operation id
    Kids,         \* the fibers that may be attached to a fiber as children
    DisposeFrom   \* the lifecycle states in which owners attach and dispose

ASSUME OpOfAssumption == OpOf \in [Op -> Fiber]
ASSUME HandlerAssumption == HandlerOf \in [Handler -> Fiber] /\ DOMAIN HandlerId = Handler

\* The caller gives every operation of a fiber an id of its own.
DistinctIds ==
    \A o, e \in Op : <<OpOf[o], OpId[o]>> = <<OpOf[e], OpId[e]>> => o = e

Lifecycle == {"declared", "waiting", "loading", "active", "draining", "unloading",
              "disposed", "failed", "quarantined"}

VARIABLES
    state,        \* LifecycleMachine._state
    operations,   \* the operations map: its entries, at most one per id
    running,      \* operations whose execute() has not settled
    aborted,      \* operations whose AbortController was told to abort
    effects,      \* the effects map of a fiber, in insertion order
    children,
    disposed,     \* fibers whose dispose() has run to its end
    drain,        \* where drain() stands, or what it returned
    stack,        \* the frames of the dispose() calls in progress
    attempts,     \* how often a handler's disposer function was called
    reverted,     \* RevertibleEffectHandler.disposed
    botched,      \* handlers whose disposer rejected
    registered,   \* handlers that were ever registered
    late          \* handlers and children added behind an unwinding's back

fiberVars == <<state, operations, running, aborted>>
effectVars == <<attempts, reverted, botched, registered>>
vars == <<fiberVars, effects, children, disposed, drain, stack, effectVars, late>>

-----------------------------------------------------------------------------
(* lifecycle.ts *)

ValidTransitions ==
    [declared    |-> {"waiting", "failed"},
     waiting     |-> {"loading", "failed"},
     loading     |-> {"active", "failed"},
     active      |-> {"draining", "failed", "quarantined"},
     draining    |-> {"unloading", "failed", "quarantined"},
     unloading   |-> {"disposed", "failed", "quarantined"},
     disposed    |-> {},
     failed      |-> {"quarantined"},
     quarantined |-> {}]

\* transitionTo: an invalid transition changes nothing and says so.
TransitionTo(from, to) == IF to \in ValidTransitions[from] THEN to ELSE from

-----------------------------------------------------------------------------
Init ==
    /\ state = [f \in Fiber |-> "declared"]
    /\ operations = {} /\ running = {} /\ aborted = {}
    /\ effects = [f \in Fiber |-> <<>>]
    /\ children = [f \in Fiber |-> <<>>]
    /\ disposed = {}
    /\ drain = [f \in Fiber |-> "none"]
    /\ stack = [c \in Caller |-> <<>>]
    /\ attempts = [h \in Handler |-> 0] /\ reverted = {} /\ botched = {}
    /\ registered = {}
    /\ late = {}

\* The owner of the component moves it through its lifecycle.
Transition(f) ==
    /\ \E to \in {"waiting", "loading", "active", "failed"} :
          /\ to \in ValidTransitions[state[f]]
          /\ state' = [state EXCEPT ![f] = to]
    /\ UNCHANGED <<operations, running, aborted, effects, children, disposed, drain,
                   stack, effectVars, late>>

\* Some call of dispose() has taken its snapshot of the fiber's effects.
Unwinding(f) ==
    \E c \in Caller : \E i \in DOMAIN stack[c] :
        stack[c][i].fiber = f /\ stack[c][i].phase = "effects"

\* registerEffect: Map.set keeps the place of an id that is already there.
RegisterEffect(h) ==
    LET f    == HandlerOf[h]
        same == {i \in DOMAIN effects[f] : HandlerId[effects[f][i]] = HandlerId[h]}
    IN  /\ f \notin disposed
        /\ h \notin registered
        /\ registered' = registered \cup {h}
        /\ effects' = [effects EXCEPT ![f] =
                          IF same = {} THEN Append(@, h)
                          ELSE [i \in DOMAIN @ |-> IF i \in same THEN h ELSE @[i]]]
        /\ late' = IF Unwinding(f) THEN late \cup {h} ELSE late
        /\ UNCHANGED <<fiberVars, children, disposed, drain, stack, attempts, reverted,
                       botched>>

AddChild(f, k) ==
    /\ k \in Kids[f] /\ ~Contains(children[f], k)
    /\ state[k] \in DisposeFrom
    /\ f \notin disposed
    /\ children' = [children EXCEPT ![f] = Append(@, k)]
    /\ late' = IF Unwinding(f) THEN late \cup {k} ELSE late
    /\ UNCHANGED <<fiberVars, effects, disposed, drain, stack, effectVars>>

-----------------------------------------------------------------------------
(* run *)

\* The operations map is keyed by id: a second operation with the id of a
\* running one takes its entry.
RunOperation(o) ==
    /\ o \notin running \cup aborted
    /\ state[OpOf[o]] = "active"
    /\ running' = running \cup {o}
    /\ operations' = {e \in operations : <<OpOf[e], OpId[e]>> # <<OpOf[o], OpId[o]>>} \cup {o}
    /\ UNCHANGED <<state, aborted, effects, children, disposed, drain, stack,
                   effectVars, late>>

\* An operation settles; its id leaves the map.
OperationSettles(o) ==
    /\ o \in running
    /\ running' = running \ {o}
    /\ operations' = {e \in operations : <<OpOf[e], OpId[e]>> # <<OpOf[o], OpId[o]>>}
    /\ UNCHANGED <<state, aborted, effects, children, disposed, drain, stack,
                   effectVars, late>>

OperationsOf(f) == {o \in operations : OpOf[o] = f}

-----------------------------------------------------------------------------
(* drain *)

\* A fiber that cannot enter draining is reported as it stands.
DrainCalled(f) ==
    /\ drain[f] = "none"
    /\ IF "draining" \in ValidTransitions[state[f]]
       THEN /\ state' = [state EXCEPT ![f] = "draining"]
            /\ drain' = [drain EXCEPT ![f] = "waiting"]
       ELSE /\ UNCHANGED state
            /\ drain' = [drain EXCEPT ![f] =
                            IF OperationsOf(f) = {} THEN "idle" ELSE "busy"]
    /\ UNCHANGED <<operations, running, aborted, effects, children, disposed, stack,
                   effectVars, late>>

\* Fault: drain() does not wait.
DrainReturnsAtOnce(f) ==
    /\ drain[f] = "waiting"
    /\ drain' = [drain EXCEPT ![f] = "drained"]
    /\ UNCHANGED <<fiberVars, effects, children, disposed, stack, effectVars, late>>

DrainReturns(f) ==
    /\ drain[f] = "waiting"
    /\ OperationsOf(f) = {}
    /\ drain' = [drain EXCEPT ![f] = "drained"]
    /\ UNCHANGED <<fiberVars, effects, children, disposed, stack, effectVars, late>>

\* The deadline has passed, or its signal was aborted.
DrainTimesOut(f) ==
    /\ drain[f] = "waiting"
    /\ OperationsOf(f) # {}
    /\ drain' = [drain EXCEPT ![f] = "timedOut"]
    /\ UNCHANGED <<fiberVars, effects, children, disposed, stack, effectVars, late>>

-----------------------------------------------------------------------------
(* dispose *)

Frame(f) == [fiber |-> f, phase |-> "children", next |-> 1, todo |-> <<>>,
             busy |-> {}, bad |-> FALSE]

\* The synchronous part of dispose(): active or draining becomes unloading, and
\* the running operations are told to abort.
Enter(c, f, frames) ==
    LET s == TransitionTo(TransitionTo(state[f], "draining"), "unloading")
    IN  /\ state' = [state EXCEPT ![f] =
                        IF state[f] \in {"active", "draining"} THEN s ELSE @]
        /\ aborted' = aborted \cup
              (IF state'[f] \in {"draining", "unloading"} THEN OperationsOf(f) ELSE {})
        /\ stack' = [stack EXCEPT ![c] = Append(frames, Frame(f))]
        /\ UNCHANGED <<operations, running>>

DisposeCalled(c, f) ==
    /\ stack[c] = <<>>
    /\ f \notin disposed
    /\ state[f] \in DisposeFrom
    /\ Enter(c, f, <<>>)
    /\ UNCHANGED <<effects, children, disposed, drain, effectVars, late>>

Top(c) == Last(stack[c])
WithTop(c, frame) == [stack[c] EXCEPT ![Len(stack[c])] = frame]

\* Fault: the loop waits for a child that is disposed already.
StuckOnDisposedChild(c) ==
    /\ stack[c] # <<>> /\ Top(c).phase = "children"
    /\ Top(c).next <= Len(children[Top(c).fiber])
    /\ LET k == children[Top(c).fiber][Top(c).next]
       IN  k \notin disposed /\ Enter(c, k, stack[c])
    /\ UNCHANGED <<effects, children, disposed, drain, effectVars, late>>

\* The loop over the children: a child that is disposed already returns at
\* once, into another one the call descends.
DisposeChild(c) ==
    /\ stack[c] # <<>> /\ Top(c).phase = "children"
    /\ Top(c).next <= Len(children[Top(c).fiber])
    /\ LET k == children[Top(c).fiber][Top(c).next]
           frames == WithTop(c, [Top(c) EXCEPT !.next = Top(c).next + 1])
       IN  IF k \in disposed
           THEN stack' = [stack EXCEPT ![c] = frames] /\ UNCHANGED fiberVars
           ELSE Enter(c, k, frames)
    /\ UNCHANGED <<effects, children, disposed, drain, effectVars, late>>

\* Fault: first registered, first unwound.
EffectIdsInOrder(f) == [i \in DOMAIN effects[f] |-> HandlerId[effects[f][i]]]

EffectIds(f) == Reverse([i \in DOMAIN effects[f] |-> HandlerId[effects[f][i]]])

\* Fault: the effects are unwound before, and instead of, the children.
CollectBeforeChildren(c) ==
    /\ stack[c] # <<>> /\ Top(c).phase = "children"
    /\ stack' = [stack EXCEPT ![c] =
          WithTop(c, [Top(c) EXCEPT !.phase = "effects", !.todo = EffectIds(Top(c).fiber)])]
    /\ UNCHANGED <<fiberVars, effects, children, disposed, drain, effectVars, late>>

\* All children done: the ids of the effects are collected, last one first.
CollectEffects(c) ==
    /\ stack[c] # <<>> /\ Top(c).phase = "children"
    /\ Top(c).next > Len(children[Top(c).fiber])
    /\ stack' = [stack EXCEPT ![c] =
          WithTop(c, [Top(c) EXCEPT !.phase = "effects", !.todo = EffectIds(Top(c).fiber)])]
    /\ UNCHANGED <<fiberVars, effects, children, disposed, drain, effectVars, late>>

HandlersUnder(f, id) ==
    {h \in Handler : HandlerOf[h] = f /\ HandlerId[h] = id /\ Contains(effects[f], h)}

\* handler.dispose() is called; one that has been reverted does nothing.  When
\* another call has cleared the map meanwhile there is no handler to call, and
\* the whole call of dispose() rejects.
BeginUnwind(c) ==
    /\ stack[c] # <<>> /\ Top(c).phase = "effects"
    /\ Top(c).busy = {} /\ Top(c).todo # <<>>
    /\ LET hs == HandlersUnder(Top(c).fiber, Head(Top(c).todo))
       IN  /\ stack' = [stack EXCEPT ![c] =
                IF hs = {} THEN <<>>
                ELSE WithTop(c, [Top(c) EXCEPT !.todo = Tail(Top(c).todo), !.busy = hs \ reverted])]
           /\ attempts' = [h \in Handler |->
                              IF h \in hs \ reverted THEN attempts[h] + 1 ELSE attempts[h]]
    /\ UNCHANGED <<fiberVars, effects, children, disposed, drain, reverted, botched,
                   registered, late>>

\* Fault: the report is that of the last effect.
EndUnwindForgetful(c) ==
    /\ stack[c] # <<>> /\ Top(c).busy # {}
    /\ \E ok \in BOOLEAN :
          /\ reverted' = IF ok THEN reverted \cup Top(c).busy ELSE reverted
          /\ botched' = IF ok THEN botched ELSE botched \cup Top(c).busy
          /\ stack' = [stack EXCEPT ![c] =
                WithTop(c, [Top(c) EXCEPT !.busy = {}, !.bad = ~ok])]
    /\ UNCHANGED <<fiberVars, effects, children, disposed, drain, attempts, registered,
                   late>>

\* The disposer function settles.
EndUnwind(c) ==
    /\ stack[c] # <<>> /\ Top(c).busy # {}
    /\ \E ok \in BOOLEAN :
          /\ reverted' = IF ok THEN reverted \cup Top(c).busy ELSE reverted
          /\ botched' = IF ok THEN botched ELSE botched \cup Top(c).busy
          /\ stack' = [stack EXCEPT ![c] =
                WithTop(c, [Top(c) EXCEPT !.busy = {}, !.bad = Top(c).bad \/ ~ok])]
    /\ UNCHANGED <<fiberVars, effects, children, disposed, drain, attempts, registered,
                   late>>

\* Every effect unwound: the map is cleared and the lifecycle ended.  The call
\* above, if there is one, ignores the report.
FinishDispose(c) ==
    /\ stack[c] # <<>> /\ Top(c).phase = "effects"
    /\ Top(c).busy = {} /\ Top(c).todo = <<>>
    /\ LET f == Top(c).fiber
       IN  /\ effects' = [effects EXCEPT ![f] = <<>>]
           /\ disposed' = disposed \cup {f}
           /\ state' = [state EXCEPT ![f] =
                 TransitionTo(@, IF Top(c).bad THEN "quarantined" ELSE "disposed")]
    /\ stack' = [stack EXCEPT ![c] = Front(@)]
    /\ UNCHANGED <<operations, running, aborted, children, drain, effectVars, late>>

-----------------------------------------------------------------------------
DisposeStep(c) == \/ DisposeChild(c) \/ CollectEffects(c)
                  \/ BeginUnwind(c) \/ EndUnwind(c) \/ FinishDispose(c)

Next ==
    \/ \E f \in Fiber : \/ Transition(f) \/ DrainCalled(f) \/ DrainReturns(f)
                        \/ DrainTimesOut(f) \/ \E k \in Fiber : AddChild(f, k)
    \/ \E h \in Handler : RegisterEffect(h)
    \/ \E o \in Op : RunOperation(o) \/ OperationSettles(o)
    \/ \E c \in Caller : \/ DisposeStep(c) \/ \E f \in Fiber : DisposeCalled(c, f)

\* The timer of drain() fires, disposer functions settle and continuations
\* run; an operation need not heed its signal.
Fairness ==
    /\ \A f \in Fiber : WF_vars(DrainReturns(f) \/ DrainTimesOut(f))
    /\ \A c \in Caller : WF_vars(DisposeStep(c))

Spec == Init /\ [][Next]_vars
FairSpec == Spec /\ Fairness

-----------------------------------------------------------------------------
TypeOK ==
    /\ state \in [Fiber -> Lifecycle]
    /\ operations \subseteq Op /\ running \subseteq Op /\ aborted \subseteq Op
    /\ effects \in [Fiber -> Seq(Handler)] /\ children \in [Fiber -> Seq(Fiber)]
    /\ disposed \subseteq Fiber
    /\ drain \in [Fiber -> {"none", "waiting", "idle", "busy", "drained", "timedOut"}]
    /\ stack \in [Caller -> Seq([fiber : Fiber, phase : {"children", "effects"},
                                 next : Nat \ {0}, todo : Seq(Range(HandlerId)),
                                 busy : SUBSET Handler, bad : BOOLEAN])]
    /\ attempts \in [Handler -> Nat] /\ reverted \subseteq Handler
    /\ botched \subseteq Handler /\ registered \subseteq Handler
    /\ late \subseteq Handler \cup Fiber

\* drain() returned drained: nothing runs on the fiber, then or ever after,
\* although operations could be started until the moment it was called.
DrainedMeansQuiet ==
    \A f \in Fiber : drain[f] = "drained" => \A o \in running : OpOf[o] # f

\* A fiber that reads disposed has told every operation still running on it to
\* stop, whenever that operation slipped in.
DisposeCancels ==
    \A o \in running : state[OpOf[o]] = "disposed" => o \in aborted

\* An effect is unwound only after every effect registered after it, also one
\* registered while the children were being disposed.
UnwindsLastFirst ==
    [][ \A h \in Handler : attempts'[h] > attempts[h] =>
          LET e == effects[HandlerOf[h]]
          IN  \A i, j \in DOMAIN e :
                 e[i] = h /\ i < j /\ e[j] \notin late => attempts[e[j]] > 0 ]_vars

\* Nothing is left behind: when a fiber is disposed its effects have been
\* unwound and its children disposed, save what was added too late to be seen.
NothingLeftBehind ==
    \A f \in disposed :
        /\ \A h \in registered \ late : HandlerOf[h] = f => attempts[h] > 0
        /\ \A i \in DOMAIN children[f] : children[f][i] \in disposed \cup late

\* A failed unwinding is never taken for a clean end.
FailureIsQuarantined ==
    \A h \in botched : HandlerOf[h] \in disposed => state[HandlerOf[h]] = "quarantined"

\* What dispose() leaves, within the types of the fiber: no effect that was
\* registered is left behind, and a disposer that failed quarantines it.
UnwindIsWhole == TypeOK /\ NothingLeftBehind /\ FailureIsQuarantined

\* dispose() is idempotent: the disposer of an effect is called at most once.
\* Not kept, and in no run: two overlapping calls both pass the disposed check.
DisposedOnce == \A h \in Handler : attempts[h] <= 1

\* dispose() ends the lifecycle of the fiber.  Not kept, and in no run: outside
\* active and draining the last transition is refused and its outcome ignored.
DisposeEndsLifecycle == \A f \in disposed : state[f] \in {"disposed", "quarantined", "failed"}

\* dispose() returns, however deep the tree and whatever its effects do.
DisposeReturns == \A c \in Caller : stack[c] # <<>> ~> stack[c] = <<>>

=============================================================================
