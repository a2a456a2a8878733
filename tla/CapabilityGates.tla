-------------------------- MODULE CapabilityGates --------------------------
(* The two gates in front of capabilities: the broker a sandboxed workload *)
(* calls through, with its limit on concurrent requests and its audit log, *)
(* and the agent gate of a site, with its fixed-window limit per channel,  *)
(* capability and address (isolation/, agent-gate/).                       *)
EXTENDS Integers, FiniteSets

CONSTANTS
  Capabilities, \* capabilities workloads may ask for
  Denied,       \* those that are ambient host access
  Requests,     \* requests to the broker
  Concurrent,   \* policy.maxConcurrentRequests
  Window,       \* windowSeconds
  PerWindow,    \* limits.perMinutePerIp
  MaxTime       \* bound of the model

VARIABLES
  gate,                                  \* the gate a behaviour is about
  registered, active, inflight, audited, \* the broker
  answered,                              \* history: requests that have an answer
  terminated,                            \* the workload
  clock, bucket, dispatching,            \* the agent gate
  passed                                 \* history: requests let through up to each time

vars == <<gate, registered, active, inflight, audited, answered, terminated,
          clock, bucket, passed, dispatching>>
brokerVars == <<registered, active, inflight, audited, answered, terminated>>
gateVars == <<clock, bucket, passed, dispatching>>

Channels == {"http", "mcp"}
NoBucket == [count |-> 0, expires |-> 0]

Init ==
  /\ gate \in {"broker", "agent"}
  /\ registered = {} /\ active = 0 /\ inflight = {} /\ terminated = FALSE
  /\ audited = [r \in Requests |-> 0] /\ answered = {}
  /\ clock = 0 /\ bucket = [c \in Channels |-> NoBucket]
  /\ passed = [c \in Channels |-> [t \in 0..MaxTime |-> 0]]
  /\ dispatching = [c \in Channels |-> 0]

(* registerCapability.                                                     *)
RegisterCapability(c) ==
  /\ c \notin Denied \cup registered
  /\ registered' = registered \cup {c}
  /\ UNCHANGED <<active, inflight, audited, answered, terminated>> /\ UNCHANGED gateVars

Answer(r) ==
  /\ audited' = [audited EXCEPT ![r] = @ + 1] /\ answered' = answered \cup {r}

(* invoke: the refusals in order, with an audit entry each.                *)
MayInvoke(c, allowed, granted, fits) ==
  allowed /\ c \in registered /\ granted /\ fits /\ active < Concurrent

InvokeDenied(r, c, allowed, granted, fits) ==
  /\ r \notin inflight \cup answered
  /\ ~ MayInvoke(c, allowed, granted, fits)
  /\ Answer(r)
  /\ UNCHANGED <<registered, active, inflight, terminated>> /\ UNCHANGED gateVars

InvokeStarts(r, c, allowed, granted, fits) ==
  /\ r \notin inflight \cup answered
  /\ MayInvoke(c, allowed, granted, fits)
  /\ active' = active + 1 /\ inflight' = inflight \cup {r}
  /\ UNCHANGED <<registered, audited, answered, terminated>> /\ UNCHANGED gateVars

\* Fault: an error leaves without giving the place back.
InvokeEndsUnlessError(r, error) ==
  /\ r \in inflight
  /\ inflight' = inflight \ {r} /\ active' = IF error THEN active ELSE active - 1
  /\ Answer(r)
  /\ UNCHANGED <<registered, terminated>> /\ UNCHANGED gateVars

(* The handler has returned, with a response that may be too large, or has *)
(* thrown; a terminated workload answers with an error. All of them are    *)
(* audited, and the place is given back.                                   *)
InvokeEnds(r, error) ==
  /\ r \in inflight
  /\ terminated => error
  /\ inflight' = inflight \ {r} /\ active' = active - 1
  /\ Answer(r)
  /\ UNCHANGED <<registered, terminated>> /\ UNCHANGED gateVars

Terminate ==
  /\ ~ terminated /\ terminated' = TRUE
  /\ UNCHANGED <<registered, active, inflight, audited, answered>> /\ UNCHANGED gateVars

(* createFixedWindowLimiter: an expired bucket is replaced, every request  *)
(* counts, allowed or not.                                                 *)
Renewed(channel) ==
  IF clock >= bucket[channel].expires THEN [count |-> 0, expires |-> clock + Window]
  ELSE bucket[channel]

\* Fault: the request over the limit passes.
AllowedOneMore(count) == count <= PerWindow + 1

Allowed(count) == count <= PerWindow

\* One more request, now.
Counted(upTo) == [t \in 0..MaxTime |-> IF t < clock THEN upTo[t] ELSE upTo[t] + 1]
Before(channel, t) == IF t = 0 THEN 0 ELSE passed[channel][t - 1]

(* handleAction and tools/call: the capability and the size before the     *)
(* limit, the schema after it; each channel has a limiter of its own.      *)
HandleAction(channel, known, fits, valid) ==
  LET b == [Renewed(channel) EXCEPT !.count = @ + 1]
      passes == known /\ fits /\ Allowed(b.count)
  IN  /\ b.count <= PerWindow + 2   \* bound of the model
      /\ bucket' = IF known /\ fits THEN [bucket EXCEPT ![channel] = b] ELSE bucket
      /\ passed' = IF passes THEN [passed EXCEPT ![channel] = Counted(@)] ELSE passed
      /\ dispatching' = IF passes /\ valid THEN [dispatching EXCEPT ![channel] = @ + 1] ELSE dispatching
      /\ UNCHANGED clock /\ UNCHANGED brokerVars

(* dispatch.send has answered, or failed: 502, retryable.                  *)
DispatchReturns(channel) ==
  /\ dispatching[channel] > 0
  /\ dispatching' = [dispatching EXCEPT ![channel] = @ - 1]
  /\ UNCHANGED <<clock, bucket, passed>> /\ UNCHANGED brokerVars

Tick ==
  /\ clock < MaxTime /\ clock' = clock + 1
  /\ UNCHANGED <<bucket, passed, dispatching>> /\ UNCHANGED brokerVars

BrokerNext ==
  \/ \E c \in Capabilities : RegisterCapability(c)
  \/ Terminate
  \/ \E r \in Requests :
       \/ \E c \in Capabilities, allowed, granted, fits \in BOOLEAN :
            InvokeDenied(r, c, allowed, granted, fits) \/ InvokeStarts(r, c, allowed, granted, fits)
       \/ \E error \in BOOLEAN : InvokeEnds(r, error)

GateNext ==
  \/ Tick
  \/ \E channel \in Channels :
       \/ DispatchReturns(channel)
       \/ \E known, fits, valid \in BOOLEAN : HandleAction(channel, known, fits, valid)

Next ==
  /\ UNCHANGED gate
  /\ (gate = "broker" /\ BrokerNext) \/ (gate = "agent" /\ GateNext)

Spec == Init /\ [][Next]_vars
-----------------------------------------------------------------------------
TypeOK ==
  /\ registered \subseteq Capabilities /\ active \in Nat /\ inflight \subseteq Requests
  /\ clock \in 0..MaxTime /\ \A c \in Channels : dispatching[c] \in Nat

(* However requests overlap and handlers fail, a place in the broker is    *)
(* taken exactly while a handler runs, never more than the policy allows,  *)
(* and every request has one entry in the log once it is answered.         *)
BrokerAccounts ==
  /\ active = Cardinality(inflight) /\ active <= Concurrent
  /\ \A r \in Requests : audited[r] = IF r \in answered THEN 1 ELSE 0

(* In any stretch as long as a window, wherever it starts, a channel lets  *)
(* through at most two windows' worth of requests from one address.        *)
BurstIsBounded ==
  \A channel \in Channels, t, u \in 0..MaxTime :
    u < t + Window => passed[channel][u] - Before(channel, t) <= 2 * PerWindow
=============================================================================
