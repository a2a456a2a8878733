----------------------------- MODULE GenomeLog ------------------------------
(* The append-only membership log of workshops: join and leave, reading    *)
(* with the operator's key once there is an identity, merging the logs of  *)
(* two clones, and the view derived from a log (kernel/swim/: handlers,    *)
(* genome-log).                                                            *)
EXTENDS Naturals, FiniteSets, Sequences, SequencesExt

CONSTANTS
  Workshops,    \* each with a clone and a log of its own
  OperatorKeys, \* key pairs of the operators who may set each workshop up
  MaxTime,      \* bound of the model: distinct timestamps
  MaxEntries    \* bound of the model: lines of a log

VARIABLES
  log,      \* the lines of each clone's log that parse
  torn,     \* clones whose log ends in a line a crash has cut short
  clock,    \* timestamps come from here; many entries may share one
  identity  \* the key pair of the operator a workshop has been set up for, or "none"

vars == <<log, torn, clock, identity>>

Ready(w) == identity[w] # "none"
Entry(w, event) == [workshop |-> w, event |-> event, time |-> clock, by |-> identity[w]]

(* appendGenomeEntry: behind a line that was cut short the new entry       *)
(* becomes part of that line, which never parses; it brings the newline    *)
(* that was missing, so the entry after it stands on a line of its own.    *)
AppendGenomeEntry(w, entry) ==
  /\ log' = [log EXCEPT ![w] = IF torn[w] THEN @ ELSE Append(@, entry)]
  /\ torn' = [torn EXCEPT ![w] = FALSE]

(* The lines that are among some entries, in their order.                  *)
Selected(lines, entries) ==
  LET at == {i \in DOMAIN lines : lines[i] \in entries}
  IN  [k \in 1..Cardinality(at) |->
         lines[CHOOSE i \in at : Cardinality({j \in at : j <= i}) = k]]

(* readGenomeLog: with a key, entries that others have signed are skipped. *)
ReadGenomeLog(w, key) ==
  IF key = "none" THEN log[w] ELSE Selected(log[w], {e \in ToSet(log[w]) : e.by = key})

\* Fault: what the peer has beside comes first.
PeerFirst(local, peer) ==
  Selected(peer, ToSet(peer) \ ToSet(local)) \o local

(* mergeGenomeLogs: local first, then what the peer has beside.            *)
MergeGenomeLogs(local, peer) ==
  local \o Selected(peer, ToSet(peer) \ ToSet(local))

(* The entry deriveMembershipView keeps: the first of the latest.          *)
Latest(lines, w) ==
  lines[CHOOSE i \in DOMAIN lines :
          /\ lines[i].workshop = w
          /\ \A j \in DOMAIN lines : lines[j].workshop = w =>
               lines[j].time < lines[i].time \/ (lines[j].time = lines[i].time /\ i <= j)]

Mentioned(lines) == {e.workshop : e \in ToSet(lines)}
DeriveMembershipView(lines) == [w \in Mentioned(lines) |-> Latest(lines, w)]

Init ==
  /\ log = [w \in Workshops |-> <<>>] /\ torn = [w \in Workshops |-> FALSE] /\ clock = 1
  /\ identity = [w \in Workshops |-> "none"]

(* identity.bootstrap, the signing key of the same pair in the             *)
(* environment, the configuration of a first join.                         *)
Prepare(w, key) ==
  /\ ~ Ready(w) /\ identity' = [identity EXCEPT ![w] = key]
  /\ UNCHANGED <<log, torn, clock>>

(* swim.join, once the seed has answered the probe.                        *)
RunSwimJoin(w, reachable) ==
  /\ Ready(w) /\ reachable /\ Len(log[w]) < MaxEntries
  /\ AppendGenomeEntry(w, Entry(w, "alive"))
  /\ UNCHANGED <<clock, identity>>

(* swim.leave.                                                             *)
RunSwimLeave(w) ==
  /\ Ready(w) /\ Len(log[w]) < MaxEntries
  /\ AppendGenomeEntry(w, Entry(w, "left"))
  /\ UNCHANGED <<clock, identity>>

(* The process dies in the middle of an append.                            *)
TearAppend(w) ==
  /\ Ready(w) /\ ~ torn[w]
  /\ torn' = [torn EXCEPT ![w] = TRUE]
  /\ UNCHANGED <<log, clock, identity>>

(* A clone takes over the log of another.                                  *)
Merge(w, v) ==
  LET merged == MergeGenomeLogs(ReadGenomeLog(w, "none"), ReadGenomeLog(v, "none"))
  IN  /\ w # v /\ Len(merged) <= MaxEntries
      /\ log' = [log EXCEPT ![w] = merged] /\ torn' = [torn EXCEPT ![w] = FALSE]
      /\ UNCHANGED <<clock, identity>>

(* Wall clocks may be set back.                                            *)
SetClock(t) ==
  /\ clock # t /\ clock' = t
  /\ UNCHANGED <<log, torn, identity>>

Next ==
  \/ \E t \in 1..MaxTime : SetClock(t)
  \/ \E w \in Workshops :
       \/ RunSwimLeave(w) \/ TearAppend(w)
       \/ \E key \in OperatorKeys[w] : Prepare(w, key)
       \/ \E reachable \in BOOLEAN : RunSwimJoin(w, reachable)
       \/ \E v \in Workshops : Merge(w, v)

Spec == Init /\ [][Next]_vars
-----------------------------------------------------------------------------
TypeOK ==
  /\ clock \in 1..MaxTime
  /\ \A w \in Workshops : /\ Len(log[w]) <= MaxEntries /\ torn[w] \in BOOLEAN
                          /\ identity[w] \in OperatorKeys[w] \cup {"none"}

(* swim.members and swim.status read with the operator's key as soon as    *)
(* there is an identity, and everything before.                            *)
Known(w) == ReadGenomeLog(w, identity[w])
View(w) == DeriveMembershipView(Known(w))

(* Clones that read the same entries derive the same view, whatever clocks *)
(* did, what was torn and in whatever order appends and merges brought the *)
(* entries: so do those with the same log and the same operator, or none.  *)
(* (Workshops of two operators may read one log and see each only its own.)*)
(* Merging in either direction gives the same entries.                     *)
ViewsConverge ==
  \A w, v \in Workshops :
    LET mine == ReadGenomeLog(w, "none")
        theirs == ReadGenomeLog(v, "none")
    IN  /\ ToSet(Known(w)) = ToSet(Known(v)) => View(w) = View(v)
        /\ ToSet(MergeGenomeLogs(mine, theirs)) = ToSet(MergeGenomeLogs(theirs, mine))
=============================================================================
