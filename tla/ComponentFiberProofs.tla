------------------------- MODULE ComponentFiberProofs -------------------------
(***************************************************************************)
(* Proofs about ComponentFiber, for every tree of fibers, set of           *)
(* operations and number of overlapping dispose() calls: a fiber that has  *)
(* drained runs nothing, and one that has been disposed has told whatever  *)
(* still runs to stop.  Both need the callers to keep the ids of the       *)
(* operations of a fiber apart: the map of running operations is keyed by  *)
(* them, and an operation without its entry is neither waited for nor told *)
(* to stop.                                                                *)
(***************************************************************************)
EXTENDS ComponentFiber, SequenceTheorems, TLAPS

\* The states in which a fiber takes no new operation, and never will again.
Past == {"draining", "unloading", "disposed", "failed", "quarantined"}

\* The inductive invariant: what runs is what the map holds, a drain that was
\* begun stays behind the active state, and unloading told everybody.
FiberInv ==
    /\ state \in [Fiber -> Lifecycle]
    /\ drain \in [Fiber -> {"none", "waiting", "idle", "busy", "drained", "timedOut"}]
    /\ running \subseteq Op
    /\ operations = running
    /\ \A f \in Fiber : drain[f] \in {"waiting", "drained", "timedOut"} => state[f] \in Past
    /\ DrainedMeansQuiet
    /\ \A o \in running : state[OpOf[o]] \in {"unloading", "disposed"} => o \in aborted

-----------------------------------------------------------------------------
(* The lifecycle machine.                                                   *)

\* A transition ends in a state, refused or not.
LEMMA TransitionType ==
  ASSUME NEW from \in Lifecycle, NEW to \in Lifecycle
  PROVE  TransitionTo(from, to) \in Lifecycle
BY DEF TransitionTo

\* dispose() takes an active or draining fiber to unloading.
LEMMA DisposeUnloads ==
  ASSUME NEW s \in {"active", "draining"}
  PROVE  TransitionTo(TransitionTo(s, "draining"), "unloading") = "unloading"
<1>1. CASE s = "active"
  <2>1. TransitionTo(s, "draining") = "draining"
    BY <1>1 DEF TransitionTo, ValidTransitions
  <2>2. TransitionTo("draining", "unloading") = "unloading"
    BY DEF TransitionTo, ValidTransitions
  <2>. QED
    BY <2>1, <2>2
<1>2. CASE s = "draining"
  <2>1. TransitionTo(s, "draining") = "draining"
    BY <1>2 DEF TransitionTo
  <2>2. TransitionTo("draining", "unloading") = "unloading"
    BY DEF TransitionTo, ValidTransitions
  <2>. QED
    BY <2>1, <2>2
<1>. QED
  BY <1>1, <1>2

\* The owner's transitions do not lead back to active.
LEMMA OwnerTransitions ==
  ASSUME NEW from \in Past, NEW to \in {"waiting", "loading", "active", "failed"},
         to \in ValidTransitions[from]
  PROVE  to = "failed"
BY DEF Past, ValidTransitions

\* The last transition of dispose(): only an unloading fiber ends disposed, and
\* whatever the outcome the fiber is not brought back.
LEMMA FinalTransition ==
  ASSUME NEW from \in Lifecycle, NEW to \in {"quarantined", "disposed"}
  PROVE  /\ TransitionTo(from, to) \in Lifecycle
         /\ from \in Past => TransitionTo(from, to) \in Past
         /\ TransitionTo(from, to) \in {"unloading", "disposed"} =>
               from \in {"unloading", "disposed"}
<1>1. "disposed" \in ValidTransitions[from] => from = "unloading"
  BY DEF ValidTransitions, Lifecycle
<1>. QED
  BY <1>1 DEF TransitionTo, Past, Lifecycle

-----------------------------------------------------------------------------
(* One lemma per kind of step.                                              *)

\* A step that leaves the operations alone, and moves the fibers on.
LEMMA MovesOn ==
  ASSUME FiberInv,
         UNCHANGED <<operations, running>>, aborted \subseteq aborted',
         state' \in [Fiber -> Lifecycle],
         drain' \in [Fiber -> {"none", "waiting", "idle", "busy", "drained", "timedOut"}],
         \A f \in Fiber : drain'[f] \in {"waiting", "drained", "timedOut"} => state'[f] \in Past,
         \A f \in Fiber : drain'[f] = "drained" => drain[f] = "drained" \/ OperationsOf(f) = {},
         \A f \in Fiber : state'[f] \in {"unloading", "disposed"} =>
            state[f] \in {"unloading", "disposed"} \/ OperationsOf(f) \subseteq aborted'
  PROVE  FiberInv'
<1>1. \A o \in running : OpOf[o] \in Fiber /\ o \in OperationsOf(OpOf[o])
  BY OpOfAssumption DEF FiberInv, OperationsOf
<1>2. DrainedMeansQuiet'
  BY <1>1 DEF FiberInv, DrainedMeansQuiet
<1>3. \A o \in running' : state'[OpOf[o]] \in {"unloading", "disposed"} => o \in aborted'
  BY <1>1 DEF FiberInv
<1>. QED
  BY <1>2, <1>3 DEF FiberInv

LEMMA TransitionLemma ==
  ASSUME FiberInv, NEW f \in Fiber, Transition(f)
  PROVE  FiberInv'
<1>1. PICK to \in {"waiting", "loading", "active", "failed"} :
         to \in ValidTransitions[state[f]] /\ state' = [state EXCEPT ![f] = to]
  BY DEF Transition
<1>2. /\ UNCHANGED <<operations, running, aborted, drain>>
      /\ state \in [Fiber -> Lifecycle] /\ state[f] \in Lifecycle
  BY DEF Transition, FiberInv
<1>3. state' \in [Fiber -> Lifecycle]
  BY <1>1, <1>2 DEF Lifecycle
<1>4. \A g \in Fiber : state[g] \in Past => state'[g] \in Past
  BY <1>1, <1>2, OwnerTransitions DEF Past
<1>5. \A g \in Fiber : state'[g] \in {"unloading", "disposed"} =>
         state[g] \in {"unloading", "disposed"}
  BY <1>1, <1>2
<1>. QED
  BY <1>2, <1>3, <1>4, <1>5, MovesOn DEF FiberInv

LEMMA DrainLemma ==
  ASSUME FiberInv, NEW f \in Fiber,
         DrainCalled(f) \/ DrainReturns(f) \/ DrainTimesOut(f)
  PROVE  FiberInv'
<1>1. CASE DrainCalled(f)
  <2>1. UNCHANGED <<operations, running, aborted>>
    BY <1>1 DEF DrainCalled
  <2>2. CASE "draining" \in ValidTransitions[state[f]]
    <3>1. /\ state' = [state EXCEPT ![f] = "draining"]
          /\ drain' = [drain EXCEPT ![f] = "waiting"]
      BY <1>1, <2>2 DEF DrainCalled
    <3>. QED
      BY <2>1, <3>1, MovesOn DEF FiberInv, Lifecycle, Past
  <2>3. CASE "draining" \notin ValidTransitions[state[f]]
    <3>1. /\ state' = state
          /\ \E d \in {"idle", "busy"} : drain' = [drain EXCEPT ![f] = d]
      BY <1>1, <2>3 DEF DrainCalled
    <3>. QED
      BY <2>1, <3>1, MovesOn DEF FiberInv
  <2>. QED
    BY <2>2, <2>3
<1>2. CASE DrainReturns(f)
  BY <1>2, MovesOn DEF DrainReturns, FiberInv, fiberVars
<1>3. CASE DrainTimesOut(f)
  BY <1>3, MovesOn DEF DrainTimesOut, FiberInv, fiberVars
<1>. QED
  BY <1>1, <1>2, <1>3

\* With ids of their own, operations enter and leave the map one by one.
LEMMA OperationLemma ==
  ASSUME FiberInv, DistinctIds, NEW o \in Op, RunOperation(o) \/ OperationSettles(o)
  PROVE  FiberInv'
<1>1. /\ running \subseteq Op /\ operations = running /\ OpOf[o] \in Fiber
      /\ UNCHANGED <<state, drain, aborted>>
  BY OpOfAssumption DEF FiberInv, RunOperation, OperationSettles
<1>2. {e \in operations : <<OpOf[e], OpId[e]>> # <<OpOf[o], OpId[o]>>} = running \ {o}
  BY <1>1 DEF DistinctIds
<1>3. CASE RunOperation(o)
  <2>1. /\ running' = running \cup {o} /\ operations' = running \cup {o}
        /\ state[OpOf[o]] = "active"
    BY <1>2, <1>3 DEF RunOperation
  <2>2. drain[OpOf[o]] # "drained"
    BY <1>1, <2>1 DEF FiberInv, Past
  <2>. QED
    BY <1>1, <2>1, <2>2 DEF FiberInv, DrainedMeansQuiet
<1>4. CASE OperationSettles(o)
  <2>1. running' = running \ {o} /\ operations' = running \ {o}
    BY <1>2, <1>4 DEF OperationSettles
  <2>. QED
    BY <1>1, <2>1 DEF FiberInv, DrainedMeansQuiet
<1>. QED
  BY <1>3, <1>4

\* The synchronous part of dispose(), on whatever fiber it is called.
LEMMA EnterLemma ==
  ASSUME FiberInv, NEW c, NEW f, NEW frames, Enter(c, f, frames), UNCHANGED drain
  PROVE  FiberInv'
<1>. DEFINE s == TransitionTo(TransitionTo(state[f], "draining"), "unloading")
<1>1. /\ state' = [state EXCEPT ![f] = IF state[f] \in {"active", "draining"} THEN s ELSE @]
      /\ aborted' = aborted \cup
            (IF state'[f] \in {"draining", "unloading"} THEN OperationsOf(f) ELSE {})
      /\ UNCHANGED <<operations, running>>
  BY DEF Enter
<1>2. state[f] \in {"active", "draining"} => s = "unloading"
  BY DisposeUnloads
<1>. HIDE DEF s
<1>3. /\ state \in [Fiber -> Lifecycle]
      /\ state' = [state EXCEPT ![f] = IF @ \in {"active", "draining"} THEN "unloading" ELSE @]
  BY <1>1, <1>2 DEF FiberInv
<1>4. state' \in [Fiber -> Lifecycle]
  BY <1>3 DEF Lifecycle
<1>5. \A g \in Fiber : state[g] \in Past => state'[g] \in Past
  BY <1>3 DEF Past
<1>6. \A g \in Fiber : state'[g] \in {"unloading", "disposed"} =>
         state[g] \in {"unloading", "disposed"} \/ OperationsOf(g) \subseteq aborted'
  BY <1>1, <1>3
<1>. QED
  BY <1>1, <1>4, <1>5, <1>6, MovesOn DEF FiberInv

LEMMA FinishLemma ==
  ASSUME FiberInv, NEW c \in Caller, FinishDispose(c)
  PROVE  FiberInv'
<1>1. PICK to \in {"quarantined", "disposed"} :
         state' = [state EXCEPT ![Top(c).fiber] = TransitionTo(@, to)]
  BY DEF FinishDispose
<1>2. UNCHANGED <<operations, running, aborted, drain>>
  BY DEF FinishDispose
<1>3. state \in [Fiber -> Lifecycle]
  BY DEF FiberInv
<1>4. state' \in [Fiber -> Lifecycle]
  BY <1>1, <1>3, FinalTransition
<1>5. \A g \in Fiber : state[g] \in Past => state'[g] \in Past
  BY <1>1, <1>3, FinalTransition
<1>6. \A g \in Fiber : state'[g] \in {"unloading", "disposed"} =>
         state[g] \in {"unloading", "disposed"}
  BY <1>1, <1>3, FinalTransition
<1>. QED
  BY <1>2, <1>4, <1>5, <1>6, MovesOn DEF FiberInv

LEMMA DisposeLemma ==
  ASSUME FiberInv, NEW c \in Caller,
         DisposeStep(c) \/ \E f \in Fiber : DisposeCalled(c, f)
  PROVE  FiberInv'
<1>1. CASE \E f \in Fiber : DisposeCalled(c, f)
  BY <1>1, EnterLemma DEF DisposeCalled
<1>2. CASE DisposeChild(c)
  <2>1. UNCHANGED drain /\ (UNCHANGED fiberVars \/ \E k, frames : Enter(c, k, frames))
    BY <1>2 DEF DisposeChild
  <2>2. CASE UNCHANGED fiberVars
    BY <2>1, <2>2 DEF fiberVars, FiberInv, DrainedMeansQuiet
  <2>. QED
    BY <2>1, <2>2, EnterLemma
<1>3. CASE CollectEffects(c) \/ BeginUnwind(c) \/ EndUnwind(c)
  <2>1. UNCHANGED <<fiberVars, drain>>
    BY <1>3 DEF CollectEffects, BeginUnwind, EndUnwind
  <2>. QED
    BY <2>1 DEF fiberVars, FiberInv, DrainedMeansQuiet
<1>4. CASE FinishDispose(c)
  BY <1>4, FinishLemma
<1>. QED
  BY <1>1, <1>2, <1>3, <1>4 DEF DisposeStep

-----------------------------------------------------------------------------
(* The theorems.                                                            *)

LEMMA FiberInit ==
  ASSUME Init
  PROVE  FiberInv
BY DEF Init, FiberInv, Lifecycle, DrainedMeansQuiet

LEMMA FiberStep ==
  ASSUME FiberInv, DistinctIds, [Next]_vars
  PROVE  FiberInv'
<1>1. CASE \E f \in Fiber : Transition(f)
  BY <1>1, TransitionLemma
<1>2. CASE \E f \in Fiber : DrainCalled(f) \/ DrainReturns(f) \/ DrainTimesOut(f)
  BY <1>2, DrainLemma
<1>3. CASE \E o \in Op : RunOperation(o) \/ OperationSettles(o)
  BY <1>3, OperationLemma
<1>4. CASE \E c \in Caller : DisposeStep(c) \/ \E f \in Fiber : DisposeCalled(c, f)
  BY <1>4, DisposeLemma
<1>5. CASE \/ \E f, k \in Fiber : AddChild(f, k)
           \/ \E h \in Handler : RegisterEffect(h)
           \/ UNCHANGED vars
  <2>1. UNCHANGED <<fiberVars, drain>>
    BY <1>5 DEF AddChild, RegisterEffect, vars
  <2>. QED
    BY <2>1 DEF fiberVars, FiberInv, DrainedMeansQuiet
<1>. QED
  BY <1>1, <1>2, <1>3, <1>4, <1>5 DEF Next

LEMMA FiberInvariance ==
  ASSUME DistinctIds
  PROVE  Spec => []FiberInv
<1>1. Init => FiberInv
  BY FiberInit
<1>2. FiberInv /\ [Next]_vars => FiberInv'
  BY FiberStep
<1>. QED
  BY <1>1, <1>2, PTL DEF Spec

\* A fiber whose drain() has answered drained runs nothing, then or later, if
\* its callers keep the ids of operations apart.
THEOREM DrainedIsQuiet ==
  ASSUME DistinctIds
  PROVE  Spec => []DrainedMeansQuiet
BY FiberInvariance, PTL DEF FiberInv

\* A fiber that reads disposed has told every operation still running on it to
\* stop, whenever the operation slipped in, under the same condition.
THEOREM DisposedIsCancelled ==
  ASSUME DistinctIds
  PROVE  Spec => []DisposeCancels
<1>1. FiberInv => DisposeCancels
  BY DEF FiberInv, DisposeCancels
<1>. QED
  BY <1>1, FiberInvariance, PTL

-----------------------------------------------------------------------------
(* The unwinding of the effects, for any tree and any effects, when one     *)
(* call of dispose() at a time is under way, the effects of a fiber have    *)
(* ids of their own, and owners dispose what was active once.               *)

OneCall == \A c, d \in Caller : c = d
DistinctEffects ==
    \A h, g \in Handler : <<HandlerOf[h], HandlerId[h]>> = <<HandlerOf[g], HandlerId[g]>> => h = g

\* The states of a fiber that was active once.
Alive == {"active", "draining", "unloading", "failed", "quarantined", "disposed"}

Orderly == OneCall /\ DistinctEffects /\ DisposeFrom \subseteq Alive

FrameSet == [fiber : Fiber, phase : {"children", "effects"}, next : Nat \ {0},
             todo : Seq(Range(HandlerId)), busy : SUBSET Handler, bad : BOOLEAN]

\* The effects map holds what was registered with the fiber, each handler once,
\* until the fiber is disposed.
EffectsHeld ==
    \A f \in Fiber :
        /\ \A i \in DOMAIN effects[f] :
              HandlerOf[effects[f][i]] = f /\ effects[f][i] \in registered
        /\ \A i, j \in DOMAIN effects[f] : effects[f][i] = effects[f][j] => i = j
        /\ f \notin disposed =>
              \A h \in registered : HandlerOf[h] = f => \E i \in DOMAIN effects[f] : effects[f][i] = h
        /\ f \in disposed => effects[f] = <<>>

\* Where the frames of the call stand: everything before `next` is disposed or
\* being disposed by the frame above, everything not on the list was attempted.
Descending(c, i) ==
    LET fr == stack[c][i] IN
    /\ fr.next <= Len(children[fr.fiber]) + 1
    /\ \A j \in DOMAIN children[fr.fiber] :
          j < fr.next =>
            \/ children[fr.fiber][j] \in disposed \cup late
            \/ i + 1 \in DOMAIN stack[c] /\ stack[c][i + 1].fiber = children[fr.fiber][j]

Reverting(fr) ==
    LET e == effects[fr.fiber]
        n == Len(fr.todo)
    IN  /\ \A j \in DOMAIN children[fr.fiber] : children[fr.fiber][j] \in disposed \cup late
        /\ \A h \in fr.busy : HandlerOf[h] = fr.fiber /\ attempts[h] > 0
        /\ n <= Len(e)
        /\ \A i \in 1 .. n : fr.todo[i] = HandlerId[e[n + 1 - i]]
        /\ \A j \in DOMAIN e : j > n => e[j] \in late \/ attempts[e[j]] > 0
        /\ fr.fiber \in disposed => fr.busy = {} /\ ~fr.bad

FrameSound(c, i) ==
    LET fr == stack[c][i] IN
    /\ state[fr.fiber] \in Alive
    /\ fr.phase = "children" => fr.busy = {} /\ ~fr.bad /\ fr.todo = <<>> /\ Descending(c, i)
    /\ fr.phase = "effects" => i = Len(stack[c]) /\ Reverting(fr)

\* A disposer that failed is on the report of the frame that called it, until
\* the fiber is quarantined.
Reported(h) ==
    LET f == HandlerOf[h] IN
    IF f \in disposed THEN state[f] = "quarantined"
    ELSE \E c \in Caller : /\ stack[c] # <<>> /\ Top(c).fiber = f
                           /\ Top(c).phase = "effects" /\ Top(c).bad

UnwindInv ==
    /\ TypeOK /\ EffectsHeld /\ NothingLeftBehind
    /\ \A h \in reverted : attempts[h] > 0
    /\ \A c \in Caller : \A i \in DOMAIN stack[c] : FrameSound(c, i)
    /\ \A f \in Fiber : \A j \in DOMAIN children[f] : state[children[f][j]] \in Alive
    /\ \A f \in Fiber : state[f] = "disposed" => f \in disposed
    /\ \A h \in botched : Reported(h)

-----------------------------------------------------------------------------
(* Types.                                                                   *)

LEMMA StackType ==
  ASSUME TypeOK, NEW c \in Caller
  PROVE  /\ stack \in [Caller -> Seq(FrameSet)] /\ stack[c] \in Seq(FrameSet)
         /\ Len(stack[c]) \in Nat /\ DOMAIN stack[c] = 1 .. Len(stack[c])
         /\ \A i \in DOMAIN stack[c] : stack[c][i] \in FrameSet
         /\ stack[c] # <<>> =>
              /\ Len(stack[c]) \in DOMAIN stack[c]
              /\ Top(c) = stack[c][Len(stack[c])] /\ Top(c) \in FrameSet
<1>1. stack \in [Caller -> Seq(FrameSet)] /\ stack[c] \in Seq(FrameSet)
  BY DEF TypeOK, FrameSet
<1>2. Len(stack[c]) \in Nat /\ DOMAIN stack[c] = 1 .. Len(stack[c])
  BY <1>1
<1>3. \A i \in DOMAIN stack[c] : stack[c][i] \in FrameSet
  BY <1>1
<1>4. stack[c] # <<>> => Len(stack[c]) \in DOMAIN stack[c]
  BY <1>1, EmptySeq
<1> QED
  BY <1>1, <1>2, <1>3, <1>4 DEF Top, Last

\* The ids collected are those of the effects.
LEMMA EffectIdsType ==
  ASSUME TypeOK, NEW f \in Fiber
  PROVE  /\ EffectIds(f) \in Seq(Range(HandlerId))
         /\ Len(EffectIds(f)) = Len(effects[f])
         /\ \A i \in 1 .. Len(effects[f]) :
               EffectIds(f)[i] = HandlerId[effects[f][Len(effects[f]) + 1 - i]]
<1> DEFINE n == Len(effects[f])
           ids == [i \in DOMAIN effects[f] |-> HandlerId[effects[f][i]]]
           back == [i \in 1 .. n |-> HandlerId[effects[f][n + 1 - i]]]
<1>1. effects[f] \in Seq(Handler) /\ n \in Nat /\ DOMAIN effects[f] = 1 .. n
  BY DEF TypeOK
<1>2. \A i \in 1 .. n : effects[f][i] \in Handler
  BY <1>1
<1>3. \A i \in 1 .. n : HandlerId[effects[f][i]] \in Range(HandlerId)
  BY <1>2, HandlerAssumption DEF Range
<1>4. \A i \in 1 .. n : n - i + 1 \in 1 .. n /\ n - i + 1 = n + 1 - i
  BY <1>1
<1>5. ids \in Seq(Range(HandlerId)) /\ Len(ids) = n
  BY <1>1, <1>3
<1>6. EffectIds(f) = [i \in 1 .. n |-> ids[n - i + 1]]
  BY <1>5 DEF EffectIds, Reverse
<1>7. EffectIds(f) = back
  BY <1>1, <1>4, <1>6
<1>8. back \in Seq(Range(HandlerId)) /\ Len(back) = n
  <2>1. \A i \in 1 .. n : HandlerId[effects[f][n + 1 - i]] \in Range(HandlerId)
    BY <1>3, <1>4
  <2> QED
    BY <1>1, <2>1
<1> QED
  BY <1>7, <1>8

LEMMA FrameType ==
  ASSUME NEW f \in Fiber
  PROVE  Frame(f) \in FrameSet
BY DEF Frame, FrameSet

LEMMA EnterType ==
  ASSUME TypeOK, NEW c \in Caller, NEW f \in Fiber, NEW frames \in Seq(FrameSet),
         Enter(c, f, frames),
         UNCHANGED <<effects, children, disposed, drain, effectVars, late>>
  PROVE  TypeOK'
<1>1. TransitionTo(TransitionTo(state[f], "draining"), "unloading") \in Lifecycle
  <2>1. state[f] \in Lifecycle /\ "draining" \in Lifecycle /\ "unloading" \in Lifecycle
    BY DEF TypeOK, Lifecycle
  <2> QED
    BY <2>1, TransitionType
<1>2. state' \in [Fiber -> Lifecycle]
  BY <1>1 DEF TypeOK, Enter
<1>3. Append(frames, Frame(f)) \in Seq(FrameSet)
  BY FrameType
<1>4. stack' \in [Caller -> Seq(FrameSet)]
  BY <1>3, StackType DEF Enter
<1>5. aborted' \subseteq Op /\ operations' \subseteq Op /\ running' \subseteq Op
  BY DEF TypeOK, Enter, OperationsOf
<1> QED
  BY <1>2, <1>4, <1>5 DEF TypeOK, FrameSet, effectVars

\* A step that rewrites the top frame.
LEMMA TopType ==
  ASSUME TypeOK, NEW c \in Caller, stack[c] # <<>>, NEW fr \in FrameSet
  PROVE  /\ WithTop(c, fr) \in Seq(FrameSet) /\ Len(WithTop(c, fr)) = Len(stack[c])
         /\ DOMAIN WithTop(c, fr) = DOMAIN stack[c]
         /\ \A i \in DOMAIN stack[c] :
              WithTop(c, fr)[i] = IF i = Len(stack[c]) THEN fr ELSE stack[c][i]
         /\ [stack EXCEPT ![c] = WithTop(c, fr)] \in [Caller -> Seq(FrameSet)]
<1>1. /\ stack[c] \in Seq(FrameSet) /\ Len(stack[c]) \in 1 .. Len(stack[c])
      /\ DOMAIN stack[c] = 1 .. Len(stack[c])
  BY StackType
<1>2. WithTop(c, fr) \in Seq(FrameSet) /\ Len(WithTop(c, fr)) = Len(stack[c])
  BY <1>1, ExceptSeq DEF WithTop
<1> QED
  BY <1>1, <1>2, StackType DEF WithTop

LEMMA TypeStep ==
  ASSUME TypeOK, [Next]_vars
  PROVE  TypeOK'
<1>1. CASE \E f \in Fiber : Transition(f) \/ DrainCalled(f) \/ DrainReturns(f) \/ DrainTimesOut(f)
  <2>1. state' \in [Fiber -> Lifecycle]
    BY <1>1 DEF Transition, DrainCalled, DrainReturns, DrainTimesOut, TypeOK, fiberVars, Lifecycle
  <2>2. drain' \in [Fiber -> {"none", "waiting", "idle", "busy", "drained", "timedOut"}]
    BY <1>1 DEF Transition, DrainCalled, DrainReturns, DrainTimesOut, TypeOK
  <2>3. UNCHANGED <<operations, running, aborted, effects, children, disposed, stack,
                    effectVars, late>>
    BY <1>1 DEF Transition, DrainCalled, DrainReturns, DrainTimesOut, fiberVars
  <2> QED
    BY <2>1, <2>2, <2>3 DEF TypeOK, effectVars
<1>2. CASE \E o \in Op : RunOperation(o) \/ OperationSettles(o)
  BY <1>2 DEF RunOperation, OperationSettles, TypeOK, effectVars
<1>3. ASSUME NEW f \in Fiber, NEW k \in Fiber, AddChild(f, k) PROVE TypeOK'
  <2>1. children' \in [Fiber -> Seq(Fiber)]
    BY <1>3 DEF AddChild, TypeOK
  <2>2. late' \subseteq Handler \cup Fiber
    BY <1>3 DEF AddChild, TypeOK
  <2> QED
    BY <1>3, <2>1, <2>2 DEF AddChild, TypeOK, effectVars, fiberVars
<1>4. ASSUME NEW h \in Handler, RegisterEffect(h) PROVE TypeOK'
  <2> DEFINE f == HandlerOf[h]
             same == {i \in DOMAIN effects[f] : HandlerId[effects[f][i]] = HandlerId[h]}
  <2>1. f \in Fiber /\ effects[f] \in Seq(Handler)
    BY HandlerAssumption DEF TypeOK
  <2>2. [i \in DOMAIN effects[f] |-> IF i \in same THEN h ELSE effects[f][i]] \in Seq(Handler)
    BY <2>1
  <2>3. Append(effects[f], h) \in Seq(Handler)
    BY <2>1
  <2>4. effects' = [effects EXCEPT ![f] =
                       IF same = {} THEN Append(effects[f], h)
                       ELSE [i \in DOMAIN effects[f] |-> IF i \in same THEN h ELSE effects[f][i]]]
    BY <1>4 DEF RegisterEffect
  <2>5. effects' \in [Fiber -> Seq(Handler)]
    BY <2>1, <2>2, <2>3, <2>4 DEF TypeOK
  <2>6. late' \subseteq Handler \cup Fiber /\ registered' \subseteq Handler
    BY <1>4 DEF RegisterEffect, TypeOK
  <2> QED
    BY <1>4, <2>5, <2>6 DEF RegisterEffect, TypeOK, fiberVars
<1>5. ASSUME NEW c \in Caller, NEW f \in Fiber, DisposeCalled(c, f) PROVE TypeOK'
  <2>1. <<>> \in Seq(FrameSet)
    OBVIOUS
  <2> QED
    BY <1>5, <2>1, EnterType DEF DisposeCalled
<1>6. ASSUME NEW c \in Caller, DisposeChild(c) PROVE TypeOK'
  <2> DEFINE k == children[Top(c).fiber][Top(c).next]
             frames == WithTop(c, [Top(c) EXCEPT !.next = Top(c).next + 1])
  <2>0. stack[c] # <<>>
    BY <1>6 DEF DisposeChild
  <2>1. Top(c) \in FrameSet /\ Len(stack[c]) \in 1 .. Len(stack[c])
    BY <2>0, StackType
  <2>2. [Top(c) EXCEPT !.next = Top(c).next + 1] \in FrameSet
    BY <2>1 DEF FrameSet
  <2>3. frames \in Seq(FrameSet) /\ [stack EXCEPT ![c] = frames] \in [Caller -> Seq(FrameSet)]
    BY <2>0, <2>2, TopType
  <2>5. CASE k \in disposed
    <3>1. stack' = [stack EXCEPT ![c] = frames] /\ UNCHANGED fiberVars
      BY <1>6, <2>5 DEF DisposeChild
    <3>2. stack' \in [Caller -> Seq(FrameSet)]
      BY <3>1, <2>3
    <3> QED
      BY <1>6, <3>1, <3>2 DEF DisposeChild, TypeOK, FrameSet, fiberVars, effectVars
  <2>6. CASE k \notin disposed
    <3>1. Enter(c, k, frames)
      BY <1>6, <2>6 DEF DisposeChild
    <3>2. k \in Fiber
      <4>1. Top(c).fiber \in Fiber /\ Top(c).next \in Nat \ {0}
        BY <2>1 DEF FrameSet
      <4> QED
        BY <4>1, <1>6 DEF DisposeChild, TypeOK
    <3> QED
      BY <1>6, <2>3, <3>1, <3>2, EnterType DEF DisposeChild
  <2> QED
    BY <2>5, <2>6
<1>7. ASSUME NEW c \in Caller, CollectEffects(c) \/ EndUnwind(c) PROVE TypeOK'
  <2>0. stack[c] # <<>> /\ Top(c) \in FrameSet
    BY <1>7, StackType DEF CollectEffects, EndUnwind
  <2>1. Top(c).fiber \in Fiber
    BY <2>0 DEF FrameSet
  <2>2. \E fr \in FrameSet : stack' = [stack EXCEPT ![c] = WithTop(c, fr)]
    <3>1. CASE CollectEffects(c)
      <4>1. [Top(c) EXCEPT !.phase = "effects", !.todo = EffectIds(Top(c).fiber)] \in FrameSet
        BY <2>0, <2>1, EffectIdsType DEF FrameSet
      <4> QED
        BY <3>1, <4>1 DEF CollectEffects
    <3>2. CASE EndUnwind(c)
      <4>1. PICK ok \in BOOLEAN :
              stack' = [stack EXCEPT ![c] =
                          WithTop(c, [Top(c) EXCEPT !.busy = {}, !.bad = Top(c).bad \/ ~ok])]
        BY <3>2 DEF EndUnwind
      <4>2. [Top(c) EXCEPT !.busy = {}, !.bad = Top(c).bad \/ ~ok] \in FrameSet
        BY <2>0 DEF FrameSet
      <4> QED
        BY <4>1, <4>2
    <3> QED
      BY <1>7, <3>1, <3>2
  <2>3. stack' \in [Caller -> Seq(FrameSet)]
    BY <2>0, <2>2, TopType
  <2>4. reverted' \subseteq Handler /\ botched' \subseteq Handler
    BY <1>7, <2>0 DEF CollectEffects, EndUnwind, TypeOK, effectVars, FrameSet
  <2> QED
    BY <1>7, <2>3, <2>4 DEF CollectEffects, EndUnwind, TypeOK, FrameSet, fiberVars, effectVars
<1>8. ASSUME NEW c \in Caller, BeginUnwind(c) PROVE TypeOK'
  <2> DEFINE hs == HandlersUnder(Top(c).fiber, Head(Top(c).todo))
             fr == [Top(c) EXCEPT !.todo = Tail(Top(c).todo), !.busy = hs \ reverted]
  <2>0. stack[c] # <<>> /\ Top(c) \in FrameSet /\ Top(c).todo # <<>>
    BY <1>8, StackType DEF BeginUnwind
  <2>1. Top(c).todo \in Seq(Range(HandlerId)) /\ Tail(Top(c).todo) \in Seq(Range(HandlerId))
    BY <2>0 DEF FrameSet
  <2>2. hs \subseteq Handler
    BY DEF HandlersUnder
  <2>3. fr \in FrameSet
    BY <2>0, <2>1, <2>2 DEF FrameSet
  <2>4. stack' = [stack EXCEPT ![c] = IF hs = {} THEN <<>> ELSE WithTop(c, fr)]
    BY <1>8 DEF BeginUnwind
  <2>5. WithTop(c, fr) \in Seq(FrameSet) /\ <<>> \in Seq(FrameSet)
    BY <2>0, <2>3, TopType
  <2>6. stack' \in [Caller -> Seq(FrameSet)]
    BY <2>4, <2>5, StackType
  <2>7. attempts' \in [Handler -> Nat]
    BY <1>8 DEF BeginUnwind, TypeOK
  <2> QED
    BY <1>8, <2>6, <2>7 DEF BeginUnwind, TypeOK, FrameSet, fiberVars
<1>9. ASSUME NEW c \in Caller, FinishDispose(c) PROVE TypeOK'
  <2>0. stack[c] # <<>> /\ Top(c) \in FrameSet
    BY <1>9, StackType DEF FinishDispose
  <2>1. stack' = [stack EXCEPT ![c] = Front(@)] /\ Front(stack[c]) \in Seq(FrameSet)
    BY <1>9, <2>0, StackType DEF FinishDispose, Front
  <2>2. stack' \in [Caller -> Seq(FrameSet)]
    BY <2>1, StackType
  <2>3. Top(c).fiber \in Fiber
    BY <2>0 DEF FrameSet
  <2>4. state' \in [Fiber -> Lifecycle]
    <3>1. PICK to \in {"quarantined", "disposed"} :
             state' = [state EXCEPT ![Top(c).fiber] = TransitionTo(@, to)]
      BY <1>9 DEF FinishDispose
    <3> QED
      BY <3>1, FinalTransition DEF TypeOK
  <2>5. effects' \in [Fiber -> Seq(Handler)] /\ disposed' \subseteq Fiber
    BY <1>9, <2>3 DEF FinishDispose, TypeOK
  <2> QED
    BY <1>9, <2>2, <2>4, <2>5 DEF FinishDispose, TypeOK, FrameSet, effectVars
<1>10. CASE UNCHANGED vars
  BY <1>10 DEF vars, fiberVars, effectVars, TypeOK
<1> QED
  BY <1>1, <1>2, <1>3, <1>4, <1>5, <1>6, <1>7, <1>8, <1>9, <1>10 DEF Next, DisposeStep

-----------------------------------------------------------------------------
(* The steps.                                                               *)

\* What the invariant says of the top frame.
LEMMA TopSound ==
  ASSUME UnwindInv, NEW c \in Caller, stack[c] # <<>>
  PROVE  /\ Top(c) \in FrameSet /\ Top(c).fiber \in Fiber /\ state[Top(c).fiber] \in Alive
         /\ Top(c).phase = "children" =>
              /\ Top(c).busy = {} /\ ~Top(c).bad /\ Top(c).todo = <<>>
              /\ \A j \in DOMAIN children[Top(c).fiber] :
                   j < Top(c).next => children[Top(c).fiber][j] \in disposed \cup late
         /\ Top(c).phase = "effects" => Reverting(Top(c))
         /\ \A i \in DOMAIN stack[c] : i # Len(stack[c]) => stack[c][i].phase = "children"
<1>1. TypeOK
  BY DEF UnwindInv
<1>2. /\ Len(stack[c]) \in DOMAIN stack[c] /\ Top(c) = stack[c][Len(stack[c])]
      /\ Top(c) \in FrameSet /\ DOMAIN stack[c] = 1 .. Len(stack[c]) /\ Len(stack[c]) \in Nat
  BY <1>1, StackType
<1>3. FrameSound(c, Len(stack[c]))
  BY <1>2 DEF UnwindInv
<1>4. Len(stack[c]) + 1 \notin DOMAIN stack[c]
  BY <1>2
<1>5. \A i \in DOMAIN stack[c] : stack[c][i].phase \in {"children", "effects"}
  BY <1>1, StackType DEF FrameSet
<1>6. \A i \in DOMAIN stack[c] : i # Len(stack[c]) => stack[c][i].phase = "children"
  BY <1>5 DEF UnwindInv, FrameSound
<1> QED
  BY <1>2, <1>3, <1>4, <1>6 DEF FrameSound, Descending, FrameSet

\* A step that moves fibers on and leaves effects, children and calls alone.
LEMMA StateMoves ==
  ASSUME UnwindInv, TypeOK',
         UNCHANGED <<effects, children, disposed, stack, effectVars, late>>,
         \A f \in Fiber : state[f] \in Alive => state'[f] \in Alive,
         \A f \in Fiber : state'[f] = "disposed" => state[f] = "disposed",
         \A f \in Fiber : state[f] = "quarantined" => state'[f] = "quarantined"
  PROVE  UnwindInv'
<1>0. TypeOK
  BY DEF UnwindInv
<1>1. EffectsHeld' /\ NothingLeftBehind'
  BY DEF UnwindInv, EffectsHeld, NothingLeftBehind, effectVars
<1>2. ASSUME NEW c \in Caller, NEW i \in DOMAIN stack'[c] PROVE FrameSound(c, i)'
  <2>1. FrameSound(c, i) /\ stack[c][i].fiber \in Fiber
    BY <1>0, <1>2, StackType DEF UnwindInv, FrameSet
  <2> QED
    BY <2>1 DEF FrameSound, Descending, Reverting, effectVars
<1>3. \A f \in Fiber : \A j \in DOMAIN children'[f] : state'[children'[f][j]] \in Alive
  BY <1>0 DEF UnwindInv, TypeOK
<1>4. \A h \in botched' : Reported(h)'
  BY <1>0, HandlerAssumption DEF UnwindInv, Reported, Top, effectVars, TypeOK
<1> QED
  BY <1>1, <1>2, <1>3, <1>4 DEF UnwindInv, effectVars

\* A call of dispose() enters a fiber.
LEMMA EnterKeeps ==
  ASSUME UnwindInv, TypeOK', Orderly, NEW c \in Caller, NEW f \in Fiber, state[f] \in Alive,
         NEW frames \in Seq(FrameSet), Enter(c, f, frames),
         UNCHANGED <<effects, children, disposed, effectVars, late>>,
         \A i \in DOMAIN frames :
           LET fr == frames[i] IN
           /\ state[fr.fiber] \in Alive /\ fr.phase = "children"
           /\ fr.busy = {} /\ ~fr.bad /\ fr.todo = <<>>
           /\ fr.next <= Len(children[fr.fiber]) + 1
           /\ \A j \in DOMAIN children[fr.fiber] :
                j < fr.next =>
                  \/ children[fr.fiber][j] \in disposed \cup late
                  \/ IF i = Len(frames) THEN children[fr.fiber][j] = f
                     ELSE frames[i + 1].fiber = children[fr.fiber][j],
         \A h \in botched : HandlerOf[h] \in disposed
  PROVE  UnwindInv'
<1>0. TypeOK /\ \A d \in Caller : d = c
  BY DEF UnwindInv, Orderly, OneCall
<1>1. /\ Len(frames) \in Nat /\ DOMAIN frames = 1 .. Len(frames)
      /\ \A i \in DOMAIN frames : frames[i] \in FrameSet /\ frames[i].fiber \in Fiber
  <2>1. \A fr \in FrameSet : fr.fiber \in Fiber
    BY DEF FrameSet
  <2> QED
    BY <2>1
<1>2. stack' = [stack EXCEPT ![c] = Append(frames, Frame(f))]
  BY DEF Enter
<1>3. /\ DOMAIN stack'[c] = 1 .. Len(frames) + 1
      /\ \A i \in 1 .. Len(frames) : stack'[c][i] = frames[i]
      /\ stack'[c][Len(frames) + 1] = Frame(f)
      /\ Len(stack'[c]) = Len(frames) + 1
  <2>1. Frame(f) \in FrameSet
    BY FrameType
  <2>2. stack'[c] = Append(frames, Frame(f))
    BY <1>2, <1>0, StackType
  <2> QED
    BY <1>1, <2>1, <2>2, AppendProperties
<1>4. \A g \in Fiber : /\ state[g] \in Alive => state'[g] \in Alive
                       /\ state'[g] = "disposed" => state[g] = "disposed"
                       /\ state[g] = "quarantined" => state'[g] = "quarantined"
  <2>1. state' = [state EXCEPT ![f] =
                    IF state[f] \in {"active", "draining"}
                    THEN TransitionTo(TransitionTo(state[f], "draining"), "unloading") ELSE @]
    BY DEF Enter
  <2>2. state[f] \in {"active", "draining"} =>
          TransitionTo(TransitionTo(state[f], "draining"), "unloading") = "unloading"
    BY DisposeUnloads
  <2> QED
    BY <1>0, <2>1, <2>2 DEF Alive, TypeOK
<1>5. EffectsHeld' /\ NothingLeftBehind'
  BY DEF UnwindInv, EffectsHeld, NothingLeftBehind, effectVars
<1>6. ASSUME NEW d \in Caller, NEW i \in DOMAIN stack'[d] PROVE FrameSound(d, i)'
  <2>1. d = c
    BY <1>0
  <2>2. CASE i \in 1 .. Len(frames)
    <3>1. stack'[c][i] = frames[i] /\ i \in DOMAIN frames /\ i + 1 \in DOMAIN stack'[c]
      BY <1>1, <1>3, <2>2
    <3>2. stack'[c][i + 1].fiber = IF i = Len(frames) THEN f ELSE frames[i + 1].fiber
      BY <1>1, <1>3, <2>2 DEF Frame
    <3>3. Descending(c, i)'
      BY <1>0, <1>1, <3>1, <3>2 DEF Descending
    <3> QED
      BY <1>1, <1>4, <2>1, <3>1, <3>3 DEF FrameSound
  <2>3. CASE i = Len(frames) + 1
    <3>1. stack'[c][i] = Frame(f)
      BY <1>3, <2>3
    <3>2. Descending(c, i)'
      <4>1. 1 <= Len(children[f]) + 1 /\ \A j \in DOMAIN children[f] : ~(j < 1)
        <5>1. children[f] \in Seq(Fiber)
          BY <1>0 DEF TypeOK
        <5> QED
          BY <5>1
      <4> QED
        BY <3>1, <4>1 DEF Descending, Frame
    <3> QED
      BY <1>4, <2>1, <3>1, <3>2 DEF FrameSound, Frame
  <2> QED
    BY <1>1, <1>3, <1>6, <2>1, <2>2, <2>3
<1>7. \A g \in Fiber : \A j \in DOMAIN children'[g] : state'[children'[g][j]] \in Alive
  BY <1>0, <1>4 DEF UnwindInv, TypeOK
<1>8. \A h \in botched' : Reported(h)'
  BY <1>0, <1>4, HandlerAssumption DEF UnwindInv, Reported, effectVars, TypeOK
<1> QED
  BY <1>4, <1>5, <1>6, <1>7, <1>8 DEF UnwindInv, effectVars

\* A step of the top frame, which stays: the frames below see the same fiber.
LEMMA BelowKeeps ==
  ASSUME UnwindInv, NEW c \in Caller, stack[c] # <<>>, NEW fr \in FrameSet,
         stack' = [stack EXCEPT ![c] = WithTop(c, fr)], fr.fiber = Top(c).fiber,
         UNCHANGED <<state, children, disposed, late>>
  PROVE  /\ DOMAIN stack'[c] = DOMAIN stack[c] /\ Len(stack'[c]) = Len(stack[c])
         /\ stack'[c] # <<>> /\ Top(c)' = fr
         /\ \A i \in DOMAIN stack[c] : i # Len(stack[c]) => FrameSound(c, i)'
<1>0. TypeOK
  BY DEF UnwindInv
<1>1. /\ Len(stack[c]) \in 1 .. Len(stack[c]) /\ DOMAIN stack[c] = 1 .. Len(stack[c])
      /\ Top(c) = stack[c][Len(stack[c])] /\ stack[c] \in Seq(FrameSet)
  BY <1>0, StackType
<1>2. stack'[c] = WithTop(c, fr)
  BY <1>0, StackType
<1>3. /\ DOMAIN stack'[c] = DOMAIN stack[c] /\ Len(stack'[c]) = Len(stack[c])
      /\ \A i \in DOMAIN stack[c] :
           stack'[c][i] = IF i = Len(stack[c]) THEN fr ELSE stack[c][i]
  BY <1>0, <1>2, TopType
<1>4. stack'[c] # <<>> /\ Top(c)' = fr
  BY <1>1, <1>3 DEF Top, Last
<1>5. ASSUME NEW i \in DOMAIN stack[c], i # Len(stack[c]) PROVE FrameSound(c, i)'
  <2>1. FrameSound(c, i) /\ stack'[c][i] = stack[c][i]
    BY <1>3, <1>5 DEF UnwindInv
  <2>2. stack[c][i].phase = "children"
    BY <1>5, TopSound
  <2>3. i + 1 \in DOMAIN stack[c] => stack'[c][i + 1].fiber = stack[c][i + 1].fiber
    BY <1>1, <1>3
  <2>4. Descending(c, i)'
    BY <1>3, <2>1, <2>2, <2>3 DEF FrameSound, Descending
  <2> QED
    BY <2>1, <2>2, <2>4 DEF FrameSound
<1> QED
  BY <1>3, <1>4, <1>5

LEMMA DisposeChildKeeps ==
  ASSUME UnwindInv, TypeOK', Orderly, NEW c \in Caller, DisposeChild(c)
  PROVE  UnwindInv'
<1> DEFINE k == children[Top(c).fiber][Top(c).next]
           fr == [Top(c) EXCEPT !.next = Top(c).next + 1]
           frames == WithTop(c, fr)
<1>0. /\ TypeOK /\ \A d \in Caller : d = c
      /\ stack[c] # <<>> /\ Top(c).phase = "children"
      /\ Top(c).next <= Len(children[Top(c).fiber])
  BY DEF UnwindInv, Orderly, OneCall, DisposeChild
<1>1. /\ Top(c) \in FrameSet /\ Top(c).fiber \in Fiber /\ state[Top(c).fiber] \in Alive
      /\ Top(c).busy = {} /\ ~Top(c).bad /\ Top(c).todo = <<>>
      /\ \A j \in DOMAIN children[Top(c).fiber] :
           j < Top(c).next => children[Top(c).fiber][j] \in disposed \cup late
  BY <1>0, TopSound
<1>2. /\ Top(c).next \in Nat \ {0} /\ Top(c).next \in DOMAIN children[Top(c).fiber]
      /\ DOMAIN children[Top(c).fiber] \subseteq Nat
      /\ k \in Fiber /\ state[k] \in Alive
  <2>1. Top(c).next \in Nat \ {0}
    BY <1>1 DEF FrameSet
  <2>2. children[Top(c).fiber] \in Seq(Fiber)
    BY <1>0, <1>1 DEF TypeOK
  <2>3. Top(c).next \in DOMAIN children[Top(c).fiber] /\ k \in Fiber
    BY <1>0, <2>1, <2>2
  <2> QED
    BY <1>1, <2>1, <2>2, <2>3 DEF UnwindInv
<1>3. /\ fr \in FrameSet /\ fr.fiber = Top(c).fiber /\ fr.phase = "children"
      /\ fr.busy = {} /\ ~fr.bad /\ fr.todo = <<>> /\ fr.next = Top(c).next + 1
  BY <1>0, <1>1, <1>2 DEF FrameSet
<1>3a. fr.next <= Len(children[fr.fiber]) + 1
  <2>1. Len(children[Top(c).fiber]) \in Nat
    BY <1>0, <1>1 DEF TypeOK
  <2> QED
    BY <1>0, <1>2, <1>3, <2>1
<1>4. \A h \in botched : HandlerOf[h] \in disposed
  BY <1>0 DEF UnwindInv, Reported
<1>5. \A j \in DOMAIN children[fr.fiber] :
        j < fr.next => children[fr.fiber][j] \in disposed \cup late \/ children[fr.fiber][j] = k
  BY <1>1, <1>2, <1>3
<1>6. UNCHANGED <<effects, children, disposed, effectVars, late>>
  BY DEF DisposeChild
<1>7. CASE k \in disposed
  <2>1. stack' = [stack EXCEPT ![c] = WithTop(c, fr)] /\ UNCHANGED fiberVars
    BY <1>7 DEF DisposeChild
  <2> HIDE DEF fr, k
  <2>2. /\ DOMAIN stack'[c] = DOMAIN stack[c] /\ Len(stack'[c]) = Len(stack[c])
        /\ stack'[c] # <<>> /\ Top(c)' = fr
        /\ \A i \in DOMAIN stack[c] : i # Len(stack[c]) => FrameSound(c, i)'
    BY <1>0, <1>3, <1>6, <2>1, BelowKeeps DEF fiberVars
  <2>3. ASSUME NEW i, i = Len(stack[c]) PROVE FrameSound(c, i)'
    <3>1. stack'[c][i] = fr
      BY <2>2, <2>3 DEF Top, Last
    <3>2. k \in disposed'
      BY <1>6, <1>7
    <3>3. \A j \in DOMAIN children'[fr.fiber] :
             j < fr.next => children'[fr.fiber][j] \in disposed' \cup late'
      BY <1>5, <1>6, <3>2
    <3>4. Descending(c, i)'
      BY <1>3a, <1>6, <3>1, <3>3 DEF Descending
    <3>5. state'[fr.fiber] \in Alive
      BY <1>1, <1>3, <2>1 DEF fiberVars
    <3> QED
      BY <1>3, <3>1, <3>4, <3>5 DEF FrameSound
  <2>4. \A d \in Caller : \A i \in DOMAIN stack'[d] : FrameSound(d, i)'
    BY <1>0, <2>2, <2>3
  <2>5. EffectsHeld' /\ NothingLeftBehind'
    BY <1>6 DEF UnwindInv, EffectsHeld, NothingLeftBehind, effectVars
  <2>6. \A h \in botched' : Reported(h)'
    BY <1>4, <1>6, <2>1 DEF UnwindInv, Reported, effectVars, fiberVars
  <2> QED
    BY <1>6, <2>1, <2>4, <2>5, <2>6 DEF UnwindInv, effectVars, fiberVars
<1>8. CASE k \notin disposed
  <2>1. Enter(c, k, frames)
    BY <1>8 DEF DisposeChild
  <2>2. /\ frames \in Seq(FrameSet) /\ Len(frames) = Len(stack[c])
        /\ DOMAIN frames = DOMAIN stack[c] /\ DOMAIN stack[c] = 1 .. Len(stack[c])
        /\ Len(stack[c]) \in Nat
        /\ \A i \in DOMAIN stack[c] : frames[i] = IF i = Len(stack[c]) THEN fr ELSE stack[c][i]
    BY <1>0, <1>3, TopType, StackType
  <2>3. ASSUME NEW i \in DOMAIN frames, i # Len(frames)
        PROVE  /\ state[frames[i].fiber] \in Alive /\ frames[i].phase = "children"
               /\ frames[i].busy = {} /\ ~frames[i].bad /\ frames[i].todo = <<>>
               /\ frames[i].next <= Len(children[frames[i].fiber]) + 1
               /\ \A j \in DOMAIN children[frames[i].fiber] :
                    j < frames[i].next =>
                      \/ children[frames[i].fiber][j] \in disposed \cup late
                      \/ frames[i + 1].fiber = children[frames[i].fiber][j]
    <3>1. frames[i] = stack[c][i] /\ i \in DOMAIN stack[c] /\ FrameSound(c, i)
      BY <2>2, <2>3 DEF UnwindInv
    <3>2. stack[c][i].phase = "children"
      BY <1>0, <2>2, <2>3, TopSound
    <3>3. i + 1 \in DOMAIN stack[c] /\ stack[c][i + 1].fiber = frames[i + 1].fiber
      <4>1. i + 1 \in DOMAIN stack[c]
        BY <2>2, <2>3
      <4>2. Top(c) = stack[c][Len(stack[c])]
        BY <1>0, StackType
      <4> HIDE DEF fr, frames
      <4> QED
        BY <1>3, <2>2, <4>1, <4>2
    <3> HIDE DEF frames
    <3> QED
      BY <3>1, <3>2, <3>3 DEF FrameSound, Descending
  <2>4. frames[Len(frames)] = fr
    BY <2>2, <1>0, StackType
  <2>5. \A i \in DOMAIN frames :
          LET g == frames[i] IN
          /\ state[g.fiber] \in Alive /\ g.phase = "children"
          /\ g.busy = {} /\ ~g.bad /\ g.todo = <<>>
          /\ g.next <= Len(children[g.fiber]) + 1
          /\ \A j \in DOMAIN children[g.fiber] :
               j < g.next =>
                 \/ children[g.fiber][j] \in disposed \cup late
                 \/ IF i = Len(frames) THEN children[g.fiber][j] = k
                    ELSE frames[i + 1].fiber = children[g.fiber][j]
    <3> HIDE DEF frames, fr, k
    <3> QED
      BY <1>1, <1>3, <1>3a, <1>5, <2>3, <2>4
  <2> HIDE DEF frames, fr, k
  <2> QED
    BY <1>2, <1>4, <1>6, <2>1, <2>2, <2>5, EnterKeeps, ZenonT(60)
<1> QED
  BY <1>7, <1>8

LEMMA DisposeCalledKeeps ==
  ASSUME UnwindInv, TypeOK', Orderly, NEW c \in Caller, NEW f \in Fiber, DisposeCalled(c, f)
  PROVE  UnwindInv'
<1>1. state[f] \in Alive /\ <<>> \in Seq(FrameSet) /\ DOMAIN <<>> = {}
  BY DEF DisposeCalled, Orderly
<1>2. \A h \in botched : HandlerOf[h] \in disposed
  BY DEF DisposeCalled, Orderly, OneCall, UnwindInv, Reported
<1> QED
  BY <1>1, <1>2, EnterKeeps DEF DisposeCalled

\* The top frame of the only call changes and stays on its fiber.
LEMMA TopChanges ==
  ASSUME UnwindInv, Orderly, NEW c \in Caller, stack[c] # <<>>, NEW fr \in FrameSet,
         stack' = [stack EXCEPT ![c] = WithTop(c, fr)], fr.fiber = Top(c).fiber,
         fr.phase = "effects", Reverting(fr)',
         UNCHANGED <<fiberVars, children, disposed, late>>
  PROVE  /\ \A d \in Caller : \A i \in DOMAIN stack'[d] : FrameSound(d, i)'
         /\ stack'[c] # <<>> /\ Top(c)' = fr
<1>1. /\ DOMAIN stack'[c] = DOMAIN stack[c] /\ Len(stack'[c]) = Len(stack[c])
      /\ stack'[c] # <<>> /\ Top(c)' = fr
      /\ \A i \in DOMAIN stack[c] : i # Len(stack[c]) => FrameSound(c, i)'
  BY BelowKeeps DEF fiberVars
<1>2. ASSUME NEW i, i = Len(stack[c]) PROVE FrameSound(c, i)'
  <2>1. stack'[c][i] = fr /\ i = Len(stack'[c])
    BY <1>1, <1>2 DEF Top, Last
  <2>2. state'[fr.fiber] \in Alive
    BY TopSound DEF fiberVars
  <2> QED
    BY <2>1, <2>2 DEF FrameSound
<1>3. \A d \in Caller : d = c
  BY DEF Orderly, OneCall
<1> QED
  BY <1>1, <1>2, <1>3

\* What is left of a frame whose effects are being reverted, told of the new state.
LEMMA RevertingNext ==
  ASSUME NEW fr, NEW f, fr.fiber = f,
         UNCHANGED <<effects, children, disposed, late>>,
         \A j \in DOMAIN children[f] : children[f][j] \in disposed \cup late,
         \A h \in fr.busy : HandlerOf[h] = f /\ attempts'[h] > 0,
         Len(fr.todo) <= Len(effects[f]),
         \A i \in 1 .. Len(fr.todo) : fr.todo[i] = HandlerId[effects[f][Len(fr.todo) + 1 - i]],
         \A j \in DOMAIN effects[f] :
           j > Len(fr.todo) => effects[f][j] \in late \/ attempts'[effects[f][j]] > 0,
         f \in disposed => fr.busy = {} /\ ~fr.bad
  PROVE  Reverting(fr)'
BY DEF Reverting

LEMMA CollectKeeps ==
  ASSUME UnwindInv, TypeOK', Orderly, NEW c \in Caller, CollectEffects(c)
  PROVE  UnwindInv'
<1>f. PICK f : f = Top(c).fiber
  OBVIOUS
<1>fr. PICK fr : fr = [Top(c) EXCEPT !.phase = "effects", !.todo = EffectIds(f)]
  OBVIOUS
<1>0. /\ TypeOK /\ stack[c] # <<>> /\ Top(c).phase = "children"
      /\ Top(c).next > Len(children[f])
      /\ UNCHANGED <<fiberVars, effects, children, disposed, drain, effectVars, late>>
      /\ stack' = [stack EXCEPT ![c] = WithTop(c, fr)]
  BY <1>f, <1>fr DEF UnwindInv, CollectEffects
<1>1. /\ Top(c) \in FrameSet /\ f \in Fiber
      /\ Top(c).busy = {} /\ ~Top(c).bad
      /\ \A j \in DOMAIN children[f] : j < Top(c).next => children[f][j] \in disposed \cup late
  BY <1>0, <1>f, TopSound
<1>2. /\ EffectIds(f) \in Seq(Range(HandlerId)) /\ Len(EffectIds(f)) = Len(effects[f])
      /\ \A i \in 1 .. Len(effects[f]) :
            EffectIds(f)[i] = HandlerId[effects[f][Len(effects[f]) + 1 - i]]
  BY <1>0, <1>1, EffectIdsType
<1>3. fr \in FrameSet /\ fr.fiber = f /\ fr.phase = "effects" /\ fr.todo = EffectIds(f)
      /\ fr.busy = {} /\ ~fr.bad
  BY <1>1, <1>2, <1>f, <1>fr DEF FrameSet
<1>4. \A j \in DOMAIN children[f] : children[f][j] \in disposed \cup late
  <2>1. Top(c).next \in Nat
    BY <1>1 DEF FrameSet
  <2>2. children[f] \in Seq(Fiber)
    BY <1>0, <1>1 DEF TypeOK
  <2> QED
    BY <1>0, <1>1, <2>1, <2>2
<1>5. Len(effects[f]) \in Nat /\ DOMAIN effects[f] = 1 .. Len(effects[f])
  <2>1. effects[f] \in Seq(Handler)
    BY <1>0, <1>1 DEF TypeOK
  <2> QED
    BY <2>1
<1>6. Reverting(fr)'
  <2>1. Len(fr.todo) = Len(effects[f])
    BY <1>2, <1>3
  <2>2. \A j \in DOMAIN effects[f] : ~(j > Len(fr.todo))
    BY <1>5, <2>1
  <2>3. Len(fr.todo) <= Len(effects[f])
    BY <1>5, <2>1
  <2>4. \A i \in 1 .. Len(fr.todo) : fr.todo[i] = HandlerId[effects[f][Len(fr.todo) + 1 - i]]
    BY <1>2, <1>3, <2>1
  <2>5. UNCHANGED <<effects, children, disposed, late>>
    BY <1>0
  <2> QED
    BY <1>3, <1>4, <2>2, <2>3, <2>4, <2>5, RevertingNext
<1>7. /\ \A d \in Caller : \A i \in DOMAIN stack'[d] : FrameSound(d, i)'
      /\ stack'[c] # <<>> /\ Top(c)' = fr
  BY <1>0, <1>3, <1>6, <1>f, TopChanges
<1>8. EffectsHeld' /\ NothingLeftBehind'
  BY <1>0 DEF UnwindInv, EffectsHeld, NothingLeftBehind, effectVars
<1>9. \A h \in botched' : Reported(h)'
  <2>1. \A h \in botched : HandlerOf[h] \in disposed
    BY <1>0 DEF UnwindInv, Reported, Orderly, OneCall
  <2> QED
    BY <1>0, <2>1 DEF UnwindInv, Reported, effectVars, fiberVars
<1> QED
  BY <1>0, <1>7, <1>8, <1>9 DEF UnwindInv, effectVars, fiberVars

\* The handler whose turn it is: the last one registered that is still listed.
LEMMA Turn ==
  ASSUME UnwindInv, Orderly, NEW c \in Caller, BeginUnwind(c)
  PROVE  LET f == Top(c).fiber
             n == Len(Top(c).todo)
             h == effects[f][n]
         IN  /\ n \in Nat \ {0} /\ n \in DOMAIN effects[f] /\ f \notin disposed
             /\ h \in Handler /\ HandlerOf[h] = f
             /\ HandlersUnder(f, Head(Top(c).todo)) = {h}
<1> DEFINE f == Top(c).fiber
           n == Len(Top(c).todo)
           h == effects[f][n]
<1>0. TypeOK /\ stack[c] # <<>> /\ Top(c).phase = "effects" /\ Top(c).todo # <<>>
  BY DEF UnwindInv, BeginUnwind
<1>1. Top(c) \in FrameSet /\ f \in Fiber /\ Reverting(Top(c))
  BY <1>0, TopSound
<1>2. Top(c).todo \in Seq(Range(HandlerId))
  BY <1>1 DEF FrameSet
<1>3. n \in Nat \ {0} /\ Head(Top(c).todo) = Top(c).todo[1]
  BY <1>0, <1>2
<1>4. effects[f] \in Seq(Handler)
  BY <1>0, <1>1 DEF TypeOK
<1>5. n <= Len(effects[f]) /\ Top(c).todo[1] = HandlerId[effects[f][n + 1 - 1]]
  BY <1>1, <1>3 DEF Reverting
<1>6. n \in DOMAIN effects[f] /\ h \in Handler /\ Top(c).todo[1] = HandlerId[h]
  BY <1>3, <1>4, <1>5
<1>7. HandlerOf[h] = f /\ f \notin disposed
  <2>1. effects[f] # <<>>
    BY <1>3, <1>4, <1>5
  <2> QED
    BY <1>1, <1>6, <2>1 DEF UnwindInv, EffectsHeld
<1>8. Contains(effects[f], h)
  BY <1>4, <1>6 DEF Contains
<1> HIDE DEF f, n, h
<1>9. HandlersUnder(f, Head(Top(c).todo)) = {h}
  BY <1>3, <1>6, <1>7, <1>8 DEF HandlersUnder, Orderly, DistinctEffects
<1> QED
  BY <1>3, <1>6, <1>7, <1>9 DEF f, n, h

LEMMA BeginUnwindKeeps ==
  ASSUME UnwindInv, TypeOK', Orderly, NEW c \in Caller, BeginUnwind(c)
  PROVE  UnwindInv'
<1>p. PICK f, n, h : f = Top(c).fiber /\ n = Len(Top(c).todo) /\ h = effects[f][n]
  OBVIOUS
<1>fr. PICK fr : fr = [Top(c) EXCEPT !.todo = Tail(Top(c).todo), !.busy = {h} \ reverted]
  OBVIOUS
<1>0. /\ TypeOK /\ stack[c] # <<>> /\ Top(c).phase = "effects" /\ Top(c).todo # <<>>
      /\ UNCHANGED <<fiberVars, effects, children, disposed, drain, reverted, botched,
                     registered, late>>
  BY DEF UnwindInv, BeginUnwind
<1>1. Top(c) \in FrameSet /\ f \in Fiber /\ Reverting(Top(c))
  BY <1>0, <1>p, TopSound
<1>2. /\ n \in Nat \ {0} /\ n \in DOMAIN effects[f] /\ f \notin disposed
      /\ h \in Handler /\ HandlerOf[h] = f
      /\ HandlersUnder(f, Head(Top(c).todo)) = {h}
  BY <1>p, Turn
<1>3. /\ stack' = [stack EXCEPT ![c] = WithTop(c, fr)]
      /\ attempts' = [g \in Handler |->
                        IF g \in {h} \ reverted THEN attempts[g] + 1 ELSE attempts[g]]
  BY <1>2, <1>p, <1>fr DEF BeginUnwind
<1>4. /\ Top(c).todo \in Seq(Range(HandlerId)) /\ Tail(Top(c).todo) \in Seq(Range(HandlerId))
      /\ Len(Tail(Top(c).todo)) = n - 1
      /\ \A i \in 1 .. n - 1 : Tail(Top(c).todo)[i] = Top(c).todo[i + 1]
  <2>1. Top(c).todo \in Seq(Range(HandlerId))
    BY <1>1 DEF FrameSet
  <2> QED
    BY <1>0, <1>p, <2>1, HeadTailProperties
<1>5. /\ fr \in FrameSet /\ fr.fiber = f /\ fr.phase = "effects"
      /\ fr.todo = Tail(Top(c).todo) /\ fr.busy = {h} \ reverted /\ fr.bad = Top(c).bad
  BY <1>0, <1>1, <1>2, <1>4, <1>p, <1>fr DEF FrameSet
<1>6. /\ \A g \in Handler : attempts[g] > 0 => attempts'[g] > 0
      /\ attempts'[h] > 0
  <2>1. \A g \in Handler : attempts[g] \in Nat
    BY <1>0 DEF TypeOK
  <2>2. h \in reverted => attempts[h] > 0
    BY DEF UnwindInv
  <2> QED
    BY <1>2, <1>3, <2>1, <2>2
<1>7. /\ Len(effects[f]) \in Nat /\ DOMAIN effects[f] = 1 .. Len(effects[f])
      /\ \A j \in DOMAIN effects[f] : effects[f][j] \in Handler
  <2>1. effects[f] \in Seq(Handler)
    BY <1>0, <1>1 DEF TypeOK
  <2> QED
    BY <2>1
<1>8. /\ n <= Len(effects[f])
      /\ \A i \in 1 .. n : Top(c).todo[i] = HandlerId[effects[f][n + 1 - i]]
      /\ \A j \in DOMAIN effects[f] : j > n => effects[f][j] \in late \/ attempts[effects[f][j]] > 0
      /\ \A j \in DOMAIN children[f] : children[f][j] \in disposed \cup late
  BY <1>1, <1>p DEF Reverting
<1>9. \A j \in DOMAIN effects[f] : j > n - 1 =>
         effects[f][j] \in late \/ attempts'[effects[f][j]] > 0
  <2> SUFFICES ASSUME NEW j \in DOMAIN effects[f], j > n - 1, effects[f][j] \notin late
               PROVE  attempts'[effects[f][j]] > 0
    OBVIOUS
  <2>1. CASE j = n
    BY <1>6, <1>p, <2>1
  <2>2. CASE j # n
    <3>1. effects[f][j] \in Handler /\ j > n
      BY <1>2, <1>7, <2>2
    <3> QED
      BY <1>6, <1>8, <3>1
  <2> QED
    BY <2>1, <2>2
<1>10. \A i \in 1 .. n - 1 : fr.todo[i] = HandlerId[effects[f][n - 1 + 1 - i]]
  <2> SUFFICES ASSUME NEW i \in 1 .. n - 1
               PROVE  fr.todo[i] = HandlerId[effects[f][n - 1 + 1 - i]]
    OBVIOUS
  <2>1. i + 1 \in 1 .. n /\ n + 1 - (i + 1) = n - 1 + 1 - i
    BY <1>2
  <2>2. fr.todo[i] = Top(c).todo[i + 1]
    BY <1>4, <1>5
  <2>3. Top(c).todo[i + 1] = HandlerId[effects[f][n + 1 - (i + 1)]]
    BY <1>8, <2>1
  <2> QED
    BY <2>1, <2>2, <2>3
<1>11. Reverting(fr)'
  <2>1. Len(fr.todo) = n - 1 /\ n - 1 <= Len(effects[f])
    BY <1>2, <1>4, <1>5, <1>7, <1>8
  <2>2. \A g \in fr.busy : HandlerOf[g] = f /\ attempts'[g] > 0
    BY <1>2, <1>5, <1>6
  <2>3. UNCHANGED <<effects, children, disposed, late>>
    BY <1>0
  <2>4. \A i \in 1 .. Len(fr.todo) : fr.todo[i] = HandlerId[effects[f][Len(fr.todo) + 1 - i]]
    BY <1>10, <2>1
  <2>5. \A j \in DOMAIN effects[f] :
           j > Len(fr.todo) => effects[f][j] \in late \/ attempts'[effects[f][j]] > 0
    BY <1>9, <2>1
  <2>6. Len(fr.todo) <= Len(effects[f])
    BY <2>1
  <2> QED
    BY <1>2, <1>5, <1>8, <2>2, <2>3, <2>4, <2>5, <2>6, RevertingNext
<1>12. /\ \A d \in Caller : \A i \in DOMAIN stack'[d] : FrameSound(d, i)'
       /\ stack'[c] # <<>> /\ Top(c)' = fr
  BY <1>0, <1>3, <1>5, <1>11, <1>p, TopChanges
<1>13. EffectsHeld'
  BY <1>0 DEF UnwindInv, EffectsHeld
<1>14. NothingLeftBehind'
  <2>1. registered \subseteq Handler
    BY <1>0 DEF TypeOK
  <2> QED
    BY <1>0, <1>6, <2>1 DEF UnwindInv, NothingLeftBehind
<1>15. \A g \in reverted' : attempts'[g] > 0
  <2>1. reverted \subseteq Handler
    BY <1>0 DEF TypeOK
  <2> QED
    BY <1>0, <1>6, <2>1 DEF UnwindInv
<1>16. \A g \in botched' : Reported(g)'
  <2>1. \A d \in Caller : d = c
    BY DEF Orderly, OneCall
  <2>2. \A g \in botched : HandlerOf[g] \notin disposed => HandlerOf[g] = f /\ Top(c).bad
    BY <1>p, <2>1 DEF UnwindInv, Reported
  <2> QED
    BY <1>0, <1>5, <1>12, <2>2 DEF UnwindInv, Reported, fiberVars
<1> QED
  BY <1>0, <1>12, <1>13, <1>14, <1>15, <1>16 DEF UnwindInv, fiberVars

LEMMA EndUnwindKeeps ==
  ASSUME UnwindInv, TypeOK', Orderly, NEW c \in Caller, EndUnwind(c)
  PROVE  UnwindInv'
<1>p. PICK f : f = Top(c).fiber
  OBVIOUS
<1>0. /\ TypeOK /\ stack[c] # <<>> /\ Top(c).busy # {}
      /\ UNCHANGED <<fiberVars, effects, children, disposed, drain, attempts, registered, late>>
  BY DEF UnwindInv, EndUnwind
<1>1. /\ Top(c) \in FrameSet /\ f \in Fiber
      /\ Top(c).phase = "effects" /\ Reverting(Top(c))
  <2>1. Top(c) \in FrameSet /\ Top(c).phase = "effects"
    <3>1. \A fr \in FrameSet : fr.phase \in {"children", "effects"}
      BY DEF FrameSet
    <3> QED
      BY <1>0, <3>1, TopSound
  <2> QED
    BY <1>0, <1>p, <2>1, TopSound
<1>2. PICK ok \in BOOLEAN :
        /\ reverted' = IF ok THEN reverted \cup Top(c).busy ELSE reverted
        /\ botched' = IF ok THEN botched ELSE botched \cup Top(c).busy
        /\ stack' = [stack EXCEPT ![c] =
              WithTop(c, [Top(c) EXCEPT !.busy = {}, !.bad = Top(c).bad \/ ~ok])]
  BY DEF EndUnwind
<1>fr. PICK fr : fr = [Top(c) EXCEPT !.busy = {}, !.bad = Top(c).bad \/ ~ok]
  OBVIOUS
<1>3. /\ fr \in FrameSet /\ fr.fiber = f /\ fr.phase = "effects" /\ fr.busy = {}
      /\ fr.todo = Top(c).todo /\ (fr.bad <=> Top(c).bad \/ ~ok)
  BY <1>1, <1>p, <1>fr DEF FrameSet
<1>4. f \notin disposed /\ \A h \in Top(c).busy : HandlerOf[h] = f /\ attempts[h] > 0
  BY <1>0, <1>1, <1>p DEF Reverting
<1>5. stack' = [stack EXCEPT ![c] = WithTop(c, fr)]
  BY <1>2, <1>fr
<1>6. Reverting(fr)'
  BY <1>0, <1>1, <1>3, <1>4, <1>p, RevertingNext DEF Reverting
<1>7. /\ \A d \in Caller : \A i \in DOMAIN stack'[d] : FrameSound(d, i)'
      /\ stack'[c] # <<>> /\ Top(c)' = fr
  BY <1>0, <1>1, <1>3, <1>5, <1>6, <1>p, TopChanges
<1>8. EffectsHeld' /\ NothingLeftBehind'
  BY <1>0 DEF UnwindInv, EffectsHeld, NothingLeftBehind
<1>9. \A h \in reverted' : attempts'[h] > 0
  BY <1>0, <1>2, <1>4 DEF UnwindInv
<1>10. ASSUME NEW h \in botched' PROVE Reported(h)'
  <2>1. \A d \in Caller : d = c
    BY DEF Orderly, OneCall
  <2>2. CASE h \in botched
    BY <1>p, <1>0, <1>3, <1>7, <2>1, <2>2 DEF UnwindInv, Reported, fiberVars
  <2>3. CASE h \notin botched
    <3>1. ~ok /\ h \in Top(c).busy
      BY <1>2, <1>10, <2>3
    <3> QED
      BY <1>0, <1>3, <1>4, <1>7, <3>1 DEF Reported
  <2> QED
    BY <2>2, <2>3
<1> QED
  BY <1>0, <1>7, <1>8, <1>9, <1>10 DEF UnwindInv, fiberVars


\* An effect is registered: under an id of its own, and late when the fiber is
\* being unwound.
LEMMA RegisterKeeps ==
  ASSUME UnwindInv, TypeOK', Orderly, NEW h \in Handler, RegisterEffect(h)
  PROVE  UnwindInv'
<1>p. PICK f, e, n : f = HandlerOf[h] /\ e = effects[f] /\ n = Len(e)
  OBVIOUS
<1>0. /\ TypeOK /\ f \notin disposed /\ h \notin registered
      /\ registered' = registered \cup {h} /\ late \subseteq late'
      /\ UNCHANGED <<fiberVars, children, disposed, drain, stack, attempts, reverted, botched>>
  BY <1>p DEF UnwindInv, RegisterEffect
<1>1. f \in Fiber /\ e \in Seq(Handler) /\ n \in Nat /\ DOMAIN e = 1 .. n
  BY <1>0, <1>p, HandlerAssumption DEF TypeOK
<1>2. \A i \in DOMAIN e : e[i] \in Handler /\ HandlerOf[e[i]] = f /\ e[i] # h
  BY <1>0, <1>1, <1>p DEF UnwindInv, EffectsHeld
<1>3. {i \in DOMAIN e : HandlerId[e[i]] = HandlerId[h]} = {}
  BY <1>1, <1>2, <1>p DEF Orderly, DistinctEffects
<1>4. effects' = [effects EXCEPT ![f] = Append(e, h)]
  BY <1>0, <1>3, <1>p DEF RegisterEffect
<1>5. /\ effects'[f] = Append(e, h) /\ \A g \in Fiber : g # f => effects'[g] = effects[g]
      /\ Len(effects'[f]) = n + 1 /\ DOMAIN effects'[f] = 1 .. n + 1
      /\ effects'[f][n + 1] = h /\ \A i \in 1 .. n : effects'[f][i] = e[i]
  BY <1>0, <1>1, <1>4, <1>p DEF TypeOK
<1>6. EffectsHeld'
  <2> SUFFICES ASSUME NEW g \in Fiber
               PROVE  /\ \A i \in DOMAIN effects'[g] :
                           HandlerOf[effects'[g][i]] = g /\ effects'[g][i] \in registered'
                      /\ \A i, j \in DOMAIN effects'[g] :
                           effects'[g][i] = effects'[g][j] => i = j
                      /\ g \notin disposed' =>
                           \A k \in registered' :
                             HandlerOf[k] = g => \E i \in DOMAIN effects'[g] : effects'[g][i] = k
                      /\ g \in disposed' => effects'[g] = <<>>
    BY DEF EffectsHeld
  <2>1. CASE g # f
    BY <1>0, <1>5, <1>p, <2>1 DEF UnwindInv, EffectsHeld
  <2>2. CASE g = f
    <3>1. \A i \in 1 .. n + 1 : i = n + 1 \/ i \in 1 .. n
      BY <1>1
    <3>2. n + 1 \in 1 .. n + 1 /\ \A i \in 1 .. n : i \in 1 .. n + 1
      BY <1>1
    <3>3. \A i \in DOMAIN effects'[f] :
             HandlerOf[effects'[f][i]] = f /\ effects'[f][i] \in registered'
      BY <1>0, <1>1, <1>5, <1>p, <3>1 DEF UnwindInv, EffectsHeld
    <3>4. \A i, j \in DOMAIN e : e[i] = e[j] => i = j
      BY <1>1, <1>p DEF UnwindInv, EffectsHeld
    <3>5. \A i, j \in DOMAIN effects'[f] : effects'[f][i] = effects'[f][j] => i = j
      BY <1>1, <1>2, <1>5, <3>1, <3>4
    <3>6. \A k \in registered : HandlerOf[k] = f => \E i \in DOMAIN e : e[i] = k
      BY <1>0, <1>1, <1>p DEF UnwindInv, EffectsHeld
    <3>7. ASSUME NEW k \in registered', HandlerOf[k] = f
          PROVE  \E i \in DOMAIN effects'[f] : effects'[f][i] = k
      BY <1>0, <1>1, <1>5, <3>2, <3>6, <3>7
    <3> QED
      BY <1>0, <2>2, <3>3, <3>5, <3>7
  <2> QED
    BY <2>1, <2>2
<1>7. NothingLeftBehind'
  BY <1>0, <1>p DEF UnwindInv, NothingLeftBehind
<1>8. ASSUME NEW c \in Caller, NEW i \in DOMAIN stack'[c] PROVE FrameSound(c, i)'
  <2>p. PICK fr : fr = stack[c][i]
    OBVIOUS
  <2>1. /\ FrameSound(c, i) /\ i \in DOMAIN stack[c] /\ fr \in FrameSet /\ stack'[c][i] = fr
        /\ fr.fiber \in Fiber /\ fr.todo \in Seq(Range(HandlerId))
    BY <1>0, <1>8, <2>p, StackType DEF UnwindInv, FrameSet
  <2>2. CASE fr.phase = "children"
    <3>1. Descending(c, i)'
      BY <1>0, <2>1, <2>2, <2>p DEF FrameSound, Descending
    <3> QED
      BY <1>0, <2>1, <2>2, <2>p, <3>1 DEF FrameSound, fiberVars
  <2>3. CASE fr.phase = "effects" /\ fr.fiber # f
    <3>1. Reverting(fr)
      BY <2>1, <2>3, <2>p DEF FrameSound
    <3>2. effects'[fr.fiber] = effects[fr.fiber]
      BY <1>5, <2>1, <2>3
    <3>3. children' = children /\ disposed' = disposed /\ late \subseteq late' /\ attempts' = attempts
      BY <1>0
    <3>4. Reverting(fr)'
      BY <3>1, <3>2, <3>3 DEF Reverting
    <3> QED
      BY <1>0, <2>1, <2>3, <2>p, <3>4 DEF FrameSound, fiberVars
  <2>4. CASE fr.phase = "effects" /\ fr.fiber = f
    <3>p. PICK m : m = Len(fr.todo)
      OBVIOUS
    <3>1. /\ Reverting(fr) /\ m \in Nat /\ m <= n
          /\ \A j \in 1 .. m : fr.todo[j] = HandlerId[e[m + 1 - j]]
          /\ \A j \in DOMAIN e : j > m => e[j] \in late \/ attempts[e[j]] > 0
      <4>1. Reverting(fr) /\ m \in Nat
        BY <2>1, <2>4, <2>p, <3>p DEF FrameSound
      <4> QED
        BY <1>p, <2>4, <3>p, <4>1 DEF Reverting
    <3>2. Unwinding(f)
      BY <2>1, <2>4, <2>p DEF Unwinding
    <3>3. h \in late'
      BY <1>p, <3>2 DEF RegisterEffect
    <3>4. m <= n + 1
      BY <1>1, <3>1
    <3>5. \A j \in 1 .. m : fr.todo[j] = HandlerId[effects'[f][m + 1 - j]]
      <4> SUFFICES ASSUME NEW j \in 1 .. m
                   PROVE  fr.todo[j] = HandlerId[effects'[f][m + 1 - j]]
        OBVIOUS
      <4>1. m + 1 - j \in 1 .. n
        BY <1>1, <3>1
      <4> QED
        BY <1>5, <3>1, <4>1
    <3>6. \A j \in DOMAIN effects'[f] :
            j > m => effects'[f][j] \in late' \/ attempts[effects'[f][j]] > 0
      <4> SUFFICES ASSUME NEW j \in DOMAIN effects'[f], j > m
                   PROVE  effects'[f][j] \in late' \/ attempts[effects'[f][j]] > 0
        OBVIOUS
      <4>1. CASE j = n + 1
        BY <1>5, <3>3, <4>1
      <4>2. CASE j # n + 1
        <5>1. j \in 1 .. n
          BY <1>1, <1>5, <4>2
        <5> QED
          BY <1>0, <1>1, <1>5, <3>1, <5>1
      <4> QED
        BY <4>1, <4>2
    <3>7. Reverting(fr)'
      BY <1>0, <1>5, <2>4, <3>p, <3>1, <3>4, <3>5, <3>6 DEF Reverting
    <3> QED
      BY <1>0, <2>1, <2>4, <2>p, <3>7 DEF FrameSound, fiberVars
  <2>5. fr.phase \in {"children", "effects"}
    BY <2>1 DEF FrameSet
  <2> QED
    BY <2>2, <2>3, <2>4, <2>5
<1>9. \A g \in botched' : Reported(g)'
  BY <1>0 DEF UnwindInv, Reported, Top, fiberVars
<1> QED
  BY <1>0, <1>6, <1>7, <1>8, <1>9 DEF UnwindInv, fiberVars

\* A child is attached: behind every frame of the fiber, and late when the
\* fiber is being unwound.
LEMMA AddChildKeeps ==
  ASSUME UnwindInv, TypeOK', Orderly, NEW f \in Fiber, NEW k \in Fiber, AddChild(f, k)
  PROVE  UnwindInv'
<1>p. PICK s, n : s = children[f] /\ n = Len(s)
  OBVIOUS
<1>0. /\ TypeOK /\ f \notin disposed /\ state[k] \in Alive /\ late \subseteq late'
      /\ UNCHANGED <<fiberVars, effects, disposed, drain, stack, effectVars>>
      /\ children' = [children EXCEPT ![f] = Append(s, k)]
  BY <1>p DEF UnwindInv, AddChild, Orderly
<1>1. s \in Seq(Fiber) /\ n \in Nat /\ DOMAIN s = 1 .. n
  BY <1>0, <1>p DEF TypeOK
<1>2. /\ \A g \in Fiber : g # f => children'[g] = children[g]
      /\ Len(children'[f]) = n + 1 /\ DOMAIN children'[f] = 1 .. n + 1
      /\ children'[f][n + 1] = k /\ \A i \in 1 .. n : children'[f][i] = s[i]
  BY <1>0, <1>1, <1>p DEF TypeOK
<1>3. \A j \in DOMAIN children'[f] : j \in DOMAIN s \/ j = n + 1
  BY <1>1, <1>2
<1>4. \A g \in Fiber : \A j \in DOMAIN children'[g] : state'[children'[g][j]] \in Alive
  BY <1>0, <1>1, <1>2, <1>3, <1>p DEF UnwindInv, fiberVars
<1>5. EffectsHeld' /\ \A h \in botched' : Reported(h)'
  BY <1>0 DEF UnwindInv, EffectsHeld, Reported, Top, effectVars, fiberVars
<1>6. NothingLeftBehind'
  <2>1. \A g \in disposed : g # f /\ g \in Fiber
    BY <1>0 DEF TypeOK
  <2> QED
    BY <1>0, <1>2, <2>1 DEF UnwindInv, NothingLeftBehind, effectVars
<1>7. ASSUME NEW c \in Caller, NEW i \in DOMAIN stack'[c] PROVE FrameSound(c, i)'
  <2>p. PICK fr : fr = stack[c][i]
    OBVIOUS
  <2>1. /\ FrameSound(c, i) /\ i \in DOMAIN stack[c] /\ fr \in FrameSet /\ stack'[c][i] = fr
        /\ fr.fiber \in Fiber /\ fr.next \in Nat
    BY <1>0, <1>7, <2>p, StackType DEF UnwindInv, FrameSet
  <2>2. CASE fr.fiber # f
    <3>1. Descending(c, i) => Descending(c, i)'
      BY <1>0, <1>2, <2>1, <2>2, <2>p DEF Descending
    <3>2. Reverting(fr) => Reverting(fr)'
      BY <1>0, <1>2, <2>1, <2>2 DEF Reverting, effectVars
    <3> QED
      BY <1>0, <2>1, <2>p, <3>1, <3>2 DEF FrameSound, fiberVars
  <2>3. CASE fr.fiber = f /\ fr.phase = "children"
    <3>1. /\ fr.next <= n + 1
          /\ \A j \in DOMAIN s :
               j < fr.next =>
                 \/ s[j] \in disposed \cup late
                 \/ i + 1 \in DOMAIN stack[c] /\ stack[c][i + 1].fiber = s[j]
      BY <1>p, <2>1, <2>3, <2>p DEF FrameSound, Descending
    <3>2. fr.next <= n + 1 + 1 /\ ~(n + 1 < fr.next)
      BY <1>1, <2>1, <3>1
    <3>3. Descending(c, i)'
      BY <1>0, <1>1, <1>2, <1>3, <2>1, <2>3, <3>1, <3>2 DEF Descending
    <3> QED
      BY <1>0, <2>1, <2>3, <2>p, <3>3 DEF FrameSound, fiberVars
  <2>4. CASE fr.fiber = f /\ fr.phase = "effects"
    <3>1. k \in late'
      BY <2>1, <2>4, <2>p DEF AddChild, Unwinding
    <3>2. Reverting(fr)'
      BY <1>0, <1>1, <1>2, <1>3, <1>p, <2>1, <2>4, <2>p, <3>1 DEF FrameSound, Reverting, effectVars
    <3> QED
      BY <1>0, <2>1, <2>4, <2>p, <3>2 DEF FrameSound, fiberVars
  <2>5. fr.phase \in {"children", "effects"}
    BY <2>1 DEF FrameSet
  <2> QED
    BY <2>2, <2>3, <2>4, <2>5
<1> QED
  BY <1>0, <1>4, <1>5, <1>6, <1>7 DEF UnwindInv, effectVars, fiberVars

\* What the last transition of dispose() does to a fiber that was active once.
LEMMA LastTransition ==
  ASSUME NEW s \in Alive, NEW bad \in BOOLEAN
  PROVE  LET t == TransitionTo(s, IF bad THEN "quarantined" ELSE "disposed")
         IN  /\ t \in Alive
             /\ s = "quarantined" => t = "quarantined"
             /\ bad /\ s # "disposed" => t = "quarantined"
BY DEF Alive, TransitionTo, ValidTransitions

LEMMA FinishKeeps ==
  ASSUME UnwindInv, TypeOK', Orderly, NEW c \in Caller, FinishDispose(c)
  PROVE  UnwindInv'
<1>p. PICK f, s, t : f = Top(c).fiber /\ s = stack[c]
                     /\ t = TransitionTo(state[f], IF Top(c).bad THEN "quarantined" ELSE "disposed")
  OBVIOUS
<1>0. /\ TypeOK /\ s # <<>> /\ Top(c).phase = "effects" /\ Top(c).busy = {} /\ Top(c).todo = <<>>
      /\ effects' = [effects EXCEPT ![f] = <<>>] /\ disposed' = disposed \cup {f}
      /\ state' = [state EXCEPT ![f] = t] /\ stack' = [stack EXCEPT ![c] = Front(s)]
      /\ UNCHANGED <<operations, running, aborted, children, drain, effectVars, late>>
      /\ \A d \in Caller : d = c
  BY <1>p DEF UnwindInv, FinishDispose, Orderly, OneCall
<1>1. /\ Top(c) \in FrameSet /\ f \in Fiber /\ state[f] \in Alive /\ Reverting(Top(c))
      /\ Top(c).bad \in BOOLEAN
      /\ \A i \in DOMAIN s : i # Len(s) => s[i].phase = "children"
  BY <1>0, <1>p, TopSound DEF FrameSet
<1>2. /\ t \in Alive
      /\ state[f] = "quarantined" => t = "quarantined"
      /\ Top(c).bad /\ state[f] # "disposed" => t = "quarantined"
  BY <1>1, <1>p, LastTransition
<1>3. \A g \in Fiber : /\ state'[g] = IF g = f THEN t ELSE state[g]
                       /\ state[g] \in Alive => state'[g] \in Alive
                       /\ state[g] = "quarantined" => state'[g] = "quarantined"
  BY <1>0, <1>2 DEF TypeOK
<1>4. /\ \A j \in DOMAIN children[f] : children[f][j] \in disposed \cup late
      /\ \A j \in DOMAIN effects[f] : effects[f][j] \in late \/ attempts[effects[f][j]] > 0
      /\ f \in disposed => ~Top(c).bad
  <2>1. \A j \in DOMAIN effects[f] : j > 0
    BY <1>0, <1>1 DEF TypeOK
  <2>2. Len(Top(c).todo) = 0
    BY <1>0
  <2> QED
    BY <1>1, <1>p, <2>1, <2>2 DEF Reverting
<1>5. EffectsHeld'
  <2>1. effects'[f] = <<>> /\ \A g \in Fiber : g # f => effects'[g] = effects[g]
    BY <1>0, <1>1 DEF TypeOK
  <2>2. DOMAIN <<>> = {}
    OBVIOUS
  <2> QED
    BY <1>0, <2>1, <2>2 DEF UnwindInv, EffectsHeld, effectVars
<1>6. NothingLeftBehind'
  <2>1. ASSUME NEW h \in registered \ late, HandlerOf[h] = f PROVE attempts[h] > 0
    <3>1. CASE f \in disposed
      BY <2>1, <3>1 DEF UnwindInv, NothingLeftBehind
    <3>2. CASE f \notin disposed
      BY <1>1, <1>4, <2>1, <3>2 DEF UnwindInv, EffectsHeld
    <3> QED
      BY <3>1, <3>2
  <2> QED
    BY <1>0, <1>4, <2>1 DEF UnwindInv, NothingLeftBehind, effectVars
<1>7. /\ s \in Seq(FrameSet) /\ Len(s) \in Nat /\ DOMAIN s = 1 .. Len(s) /\ s[Len(s)].fiber = f
      /\ stack'[c] = Front(s) /\ DOMAIN Front(s) = 1 .. Len(s) - 1
      /\ \A i \in 1 .. Len(s) - 1 : Front(s)[i] = s[i]
  <2>1. s \in Seq(FrameSet) /\ Len(s) \in DOMAIN s /\ s[Len(s)].fiber = f
    BY <1>0, <1>p, StackType
  <2>2. stack'[c] = Front(s)
    BY <1>0, StackType
  <2>3. Front(s) = [i \in 1 .. Len(s) - 1 |-> s[i]]
    BY <2>1 DEF Front
  <2> QED
    BY <2>1, <2>2, <2>3
<1>8. ASSUME NEW d \in Caller, NEW i \in DOMAIN stack'[d] PROVE FrameSound(d, i)'
  <2>p. PICK fr : fr = s[i]
    OBVIOUS
  <2>1. /\ d = c /\ i \in DOMAIN s /\ i # Len(s) /\ stack'[c][i] = fr
        /\ i + 1 \in DOMAIN s /\ i \in 1 .. Len(s) - 1
    BY <1>0, <1>7, <1>8, <2>p
  <2>2. FrameSound(c, i) /\ fr.phase = "children" /\ fr.fiber \in Fiber
    <3>1. fr \in FrameSet
      BY <1>7, <2>1, <2>p
    <3> QED
      BY <1>1, <1>p, <2>1, <2>p, <3>1 DEF UnwindInv, FrameSet
  <2>3. s[i + 1].fiber = f \/ (i + 1 \in DOMAIN stack'[c] /\ stack'[c][i + 1] = s[i + 1])
    <3>1. CASE i + 1 = Len(s)
      BY <1>7, <3>1
    <3>2. CASE i + 1 # Len(s)
      <4>1. i + 1 \in 1 .. Len(s) - 1
        BY <1>7, <2>1, <3>2
      <4> QED
        BY <1>7, <4>1
    <3> QED
      BY <3>1, <3>2
  <2>4. Descending(c, i)'
    BY <1>0, <1>p, <2>1, <2>2, <2>3, <2>p DEF FrameSound, Descending
  <2> QED
    BY <1>3, <1>p, <2>1, <2>2, <2>4, <2>p DEF FrameSound
<1>9. \A g \in Fiber : \A j \in DOMAIN children'[g] : state'[children'[g][j]] \in Alive
  BY <1>0, <1>3 DEF UnwindInv, TypeOK
<1>10. \A g \in Fiber : state'[g] = "disposed" => g \in disposed'
  BY <1>0, <1>3 DEF UnwindInv
<1>11. ASSUME NEW h \in botched' PROVE Reported(h)'
  <2>1. h \in botched /\ HandlerOf[h] \in Fiber /\ Reported(h)
    BY <1>0, <1>11, HandlerAssumption DEF UnwindInv, TypeOK, effectVars
  <2>2. CASE HandlerOf[h] \in disposed
    BY <1>0, <1>3, <2>1, <2>2 DEF Reported
  <2>3. CASE HandlerOf[h] \notin disposed
    <3>1. HandlerOf[h] = f /\ Top(c).bad
      BY <1>0, <1>p, <2>1, <2>3 DEF Reported
    <3>2. state[f] # "disposed"
      BY <1>1, <2>3, <3>1 DEF UnwindInv
    <3> QED
      BY <1>0, <1>2, <1>3, <2>1, <3>1, <3>2 DEF Reported
  <2> QED
    BY <2>2, <2>3
<1> QED
  BY <1>0, <1>5, <1>6, <1>8, <1>9, <1>10, <1>11 DEF UnwindInv, effectVars

LEMMA UnwindStep ==
  ASSUME UnwindInv, Orderly, [Next]_vars
  PROVE  UnwindInv'
<1>1. TypeOK /\ TypeOK'
  BY TypeStep DEF UnwindInv
<1>2. CASE \E f \in Fiber : Transition(f) \/ DrainCalled(f) \/ DrainReturns(f) \/ DrainTimesOut(f)
  <2>1. \A f \in Fiber : /\ state[f] \in Alive => state'[f] \in Alive
                         /\ state'[f] = "disposed" => state[f] = "disposed"
                         /\ state[f] = "quarantined" => state'[f] = "quarantined"
    <3>1. ASSUME NEW f \in Fiber, NEW to \in {"waiting", "loading", "active", "failed", "draining"},
                 to \in ValidTransitions[state[f]], state' = [state EXCEPT ![f] = to]
          PROVE  \A g \in Fiber : /\ state[g] \in Alive => state'[g] \in Alive
                                  /\ state'[g] = "disposed" => state[g] = "disposed"
                                  /\ state[g] = "quarantined" => state'[g] = "quarantined"
      <4>1. state[f] \in Lifecycle /\ \A g \in Fiber : state'[g] = IF g = f THEN to ELSE state[g]
        BY <1>1, <3>1 DEF TypeOK
      <4>2. state[f] \in Alive => to \in Alive
        BY <3>1, <4>1 DEF ValidTransitions, Alive, Lifecycle
      <4>3. state[f] # "quarantined"
        BY <3>1 DEF ValidTransitions
      <4> QED
        BY <3>1, <4>1, <4>2, <4>3
    <3>2. CASE UNCHANGED state
      BY <3>2
    <3>3. CASE \E f \in Fiber : Transition(f)
      BY <3>1, <3>3 DEF Transition
    <3>4. CASE \E f \in Fiber : DrainCalled(f)
      BY <3>1, <3>2, <3>4 DEF DrainCalled
    <3> QED
      BY <1>2, <3>2, <3>3, <3>4 DEF DrainReturns, DrainTimesOut, fiberVars
  <2>2. UNCHANGED <<effects, children, disposed, stack, effectVars, late>>
    BY <1>2 DEF Transition, DrainCalled, DrainReturns, DrainTimesOut
  <2> QED
    BY <1>1, <2>1, <2>2, StateMoves
<1>3. CASE \E o \in Op : RunOperation(o) \/ OperationSettles(o)
  BY <1>1, <1>3, StateMoves DEF RunOperation, OperationSettles
<1>4. CASE UNCHANGED vars
  BY <1>1, <1>4, StateMoves DEF vars, fiberVars
<1>5. CASE \E f, k \in Fiber : AddChild(f, k)
  BY <1>1, <1>5, AddChildKeeps
<1>6. CASE \E h \in Handler : RegisterEffect(h)
  BY <1>1, <1>6, RegisterKeeps
<1>7. CASE \E c \in Caller : \E f \in Fiber : DisposeCalled(c, f)
  BY <1>1, <1>7, DisposeCalledKeeps
<1>8. CASE \E c \in Caller : DisposeStep(c)
  BY <1>1, <1>8, DisposeChildKeeps, CollectKeeps, BeginUnwindKeeps, EndUnwindKeeps, FinishKeeps
     DEF DisposeStep
<1> QED
  BY <1>2, <1>3, <1>4, <1>5, <1>6, <1>7, <1>8 DEF Next

LEMMA UnwindInit == Init => UnwindInv
<1> SUFFICES ASSUME Init PROVE UnwindInv
  OBVIOUS
<1>1. \A c \in Caller : stack[c] = <<>>
  BY DEF Init
<1>2. \A f \in Fiber : effects[f] = <<>> /\ children[f] = <<>> /\ DOMAIN <<>> = {}
  BY DEF Init
<1>3. TypeOK
  <2>1. <<>> \in Seq(Handler) /\ <<>> \in Seq(Fiber) /\ <<>> \in Seq(FrameSet)
    OBVIOUS
  <2> QED
    BY <2>1 DEF Init, TypeOK, Lifecycle, FrameSet
<1> QED
  BY <1>1, <1>2, <1>3 DEF Init, UnwindInv, EffectsHeld, NothingLeftBehind

THEOREM UnwindHolds ==
  ASSUME Orderly
  PROVE  Spec => []UnwindInv
<1>1. UnwindInv /\ [Next]_vars => UnwindInv'
  BY UnwindStep
<1> QED
  BY <1>1, UnwindInit, PTL DEF Spec

\* However the fibers are nested and whatever is registered, attached, run or
\* drained meanwhile: dispose() (fiber.ts) leaves no effect of the fiber
\* unattempted and no child undisposed, save what came too late to be seen, and
\* a disposer that failed has quarantined its fiber.
THEOREM DisposeIsWhole ==
  ASSUME Orderly
  PROVE  Spec => []UnwindIsWhole
<1>1. UnwindInv => UnwindIsWhole
  BY DEF UnwindInv, UnwindIsWhole, Reported, FailureIsQuarantined
<1> QED
  BY <1>1, UnwindHolds, PTL

\* One caller of dispose at a time, of fibers that were active, effects with ids of
\* their own: the effects are unwound in the reverse order of their registration.
THEOREM EffectsUnwindLastFirst ==
  ASSUME Orderly
  PROVE  Spec => UnwindsLastFirst
<1> DEFINE InOrder == \A h \in Handler : attempts'[h] > attempts[h] =>
             LET e == effects[HandlerOf[h]]
             IN  \A i, j \in DOMAIN e :
                    e[i] = h /\ i < j /\ e[j] \notin late => attempts[e[j]] > 0
<1>1. ASSUME UnwindInv, Next, NEW h \in Handler, attempts'[h] > attempts[h],
             NEW i \in DOMAIN effects[HandlerOf[h]], NEW j \in DOMAIN effects[HandlerOf[h]],
             effects[HandlerOf[h]][i] = h, i < j, effects[HandlerOf[h]][j] \notin late
      PROVE  attempts[effects[HandlerOf[h]][j]] > 0
  <2>1. attempts \in [Handler -> Nat]
    BY <1>1 DEF UnwindInv, TypeOK
  <2>2. attempts' # attempts
    BY <1>1, <2>1
  <2>3. PICK c \in Caller : BeginUnwind(c)
    BY <1>1, <2>2 DEF Next, Transition, DrainCalled, DrainReturns, DrainTimesOut, AddChild,
       RegisterEffect, RunOperation, OperationSettles, DisposeCalled, DisposeStep, DisposeChild,
       CollectEffects, EndUnwind, FinishDispose, effectVars
  <2>p. PICK f, n, g : f = Top(c).fiber /\ n = Len(Top(c).todo) /\ g = effects[f][n]
    OBVIOUS
  <2>4. /\ n \in Nat /\ n \in DOMAIN effects[f] /\ g \in Handler /\ HandlerOf[g] = f
        /\ HandlersUnder(f, Head(Top(c).todo)) = {g}
    BY <1>1, <2>3, <2>p, Turn
  <2>5. h = g
    <3>1. \A k \in Handler : k \notin HandlersUnder(f, Head(Top(c).todo)) => attempts'[k] = attempts[k]
      BY <2>3, <2>p DEF BeginUnwind
    <3>2. attempts'[h] # attempts[h]
      BY <1>1, <2>1
    <3> QED
      BY <2>4, <3>1, <3>2
  <2>6. i = n
    <3>1. f \in Fiber
      BY <2>4, HandlerAssumption
    <3>2. i \in DOMAIN effects[f] /\ effects[f][i] = h /\ effects[f][n] = h
      BY <1>1, <2>4, <2>5, <2>p
    <3>3. \A a, b \in DOMAIN effects[f] : effects[f][a] = effects[f][b] => a = b
      BY <1>1, <3>1 DEF UnwindInv, EffectsHeld
    <3> QED
      BY <2>4, <3>2, <3>3
  <2>7. Reverting(Top(c))
    BY <1>1, <2>3, TopSound DEF BeginUnwind
  <2> QED
    BY <1>1, <2>4, <2>5, <2>6, <2>7, <2>p DEF Reverting
<1>2. UnwindInv /\ [Next]_vars => [InOrder]_vars
  BY <1>1
<1>3. [InOrder]_vars => [ \A h \in Handler : attempts'[h] > attempts[h] =>
             LET e == effects[HandlerOf[h]]
             IN  \A i, j \in DOMAIN e :
                    e[i] = h /\ i < j /\ e[j] \notin late => attempts[e[j]] > 0 ]_vars
  OBVIOUS
<1> QED
  BY <1>2, <1>3, UnwindHolds, PTL DEF Spec, UnwindsLastFirst

=============================================================================
