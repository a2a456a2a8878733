---------------------------- MODULE DhtRegistry -----------------------------
(* The table workshops share: dht.register and dht.lookup over the entry   *)
(* of a site, read, decided upon and written later, while others do the    *)
(* same, verified entries being kept in a cache file until they expire;    *)
(* dht.capacity.publish and dht.placement over the free slots workshops    *)
(* announce, asked for one after the other while they change (kernel/dht/).*)
EXTENDS Naturals, FiniteSets

CONSTANTS
  Workshops, \* clones of the workspace
  Operators, \* those with an identity and the signing key in the environment
  MaxTime,   \* bound of the model: timestamps, and the lifetime of cache entries
  MaxSlots   \* bound of the model: slots a workshop announces

VARIABLES
  about,     \* the keys of the table a behaviour is about
  site,      \* the table's value under the site's key
  cache,     \* werkstatt.dht.cache.json of each workshop: an entry and its expiry
  setup,     \* workshops with a werkstatt.dht.json
  clock,
  call,      \* the command each workshop is running
  published, \* history: entries dhtPut has stored
  capacity,  \* the table's values under capacity/<workshop>
  placed     \* history: what the last placement read and chose

vars == <<about, site, cache, setup, clock, call, published, capacity, placed>>
siteVars == <<site, cache, clock, published>>
capacityVars == <<capacity, placed>>

Nothing == [by |-> "none", time |-> 0, shape |-> "absent"]
Malformed == [by |-> "none", time |-> 0, shape |-> "malformed"]
NoEntry == [entry |-> Nothing, expires |-> 0]
NoCapacity == [of |-> "none", slots |-> 0, by |-> "none"]
Idle == [op |-> "idle", read |-> Nothing, left |-> {}, found |-> {}]

Init ==
  /\ about \in {"site", "capacity"}
  /\ site \in {Nothing, Malformed}
  /\ cache = [w \in Workshops |-> NoEntry]
  /\ setup = {}
  /\ clock = 1 /\ call = [w \in Workshops |-> Idle]
  /\ published = {}
  /\ capacity = [w \in Workshops |-> NoCapacity] /\ placed = {}

Begin(w, op) == call' = [call EXCEPT ![w] = [Idle EXCEPT !.op = op]]
End(w) == call' = [call EXCEPT ![w] = Idle]

(* dht.node.init: an existing configuration stays.                         *)
RunDhtNodeInit(w) ==
  /\ w \notin setup /\ setup' = setup \cup {w}
  /\ UNCHANGED call /\ UNCHANGED siteVars /\ UNCHANGED capacityVars

(* The refusals on the way to the network: flags, identity, key,           *)
(* configuration. Only the complete ones start a node.                     *)
MayUseTheNetwork(w) == call[w].op = "idle" /\ w \in setup \cap Operators
MayRegister(w) == MayUseTheNetwork(w)

(* startDhtNode: the node is up or the command fails; a bootstrap node     *)
(* that cannot be dialled does not count.                                  *)
StartRegister(w) ==
  /\ MayRegister(w) /\ Begin(w, "register")
  /\ UNCHANGED setup /\ UNCHANGED siteVars /\ UNCHANGED capacityVars

(* resolveConflict: only a newer candidate wins over a verified entry.     *)
CandidateWins(existing, time) == time > existing.time
VerifyDhtEntry(entry, w) == entry.shape = "entry" /\ entry.by = w

(* The get of dht.register: an entry under this operator's key that is not *)
(* older ends the command, anything else will be overwritten.              *)
RegisterReads(w) ==
  /\ call[w].op = "register"
  /\ IF VerifyDhtEntry(site, w) /\ ~ CandidateWins(site, clock) THEN End(w)
     ELSE call' = [call EXCEPT ![w] = [Idle EXCEPT !.op = "publish",
                     !.read = [by |-> w, time |-> clock, shape |-> "entry"]]]
  /\ UNCHANGED setup /\ UNCHANGED siteVars /\ UNCHANGED capacityVars

(* dhtPut, and the workshop's own cache entry is dropped.                  *)
RegisterPublishes(w) ==
  /\ call[w].op = "publish"
  /\ site' = call[w].read /\ published' = published \cup {call[w].read}
  /\ cache' = [cache EXCEPT ![w] = NoEntry]
  /\ End(w)
  /\ UNCHANGED <<setup, clock>> /\ UNCHANGED capacityVars

Fresh(w) == cache[w] # NoEntry /\ clock <= cache[w].expires

(* dht.lookup: a cached entry that has not expired answers at once, unless *)
(* --force; otherwise the node starts.                                     *)
StartLookup(w, force) ==
  /\ call[w].op = "idle" /\ (force \/ ~ Fresh(w))
  /\ w \in setup \cap Operators
  /\ Begin(w, "lookup")
  /\ UNCHANGED setup /\ UNCHANGED siteVars /\ UNCHANGED capacityVars

\* Fault: the entry is cached before its signature is checked.
ReadAndKeep(w) ==
  /\ call[w].op = "lookup"
  /\ call' = [call EXCEPT ![w] = [Idle EXCEPT !.op = "keep", !.read = site]]
  /\ UNCHANGED setup /\ UNCHANGED siteVars /\ UNCHANGED capacityVars

(* Absent, malformed or signed by somebody else: nothing is cached.        *)
LookupReads(w) ==
  /\ call[w].op = "lookup"
  /\ IF VerifyDhtEntry(site, w)
     THEN call' = [call EXCEPT ![w] = [Idle EXCEPT !.op = "keep", !.read = site]]
     ELSE End(w)
  /\ UNCHANGED setup /\ UNCHANGED siteVars /\ UNCHANGED capacityVars

(* setCachedEntry: the file is read and written again with the entry.      *)
LookupKeeps(w) ==
  /\ call[w].op = "keep"
  /\ cache' = [cache EXCEPT ![w] = [entry |-> call[w].read, expires |-> clock + 1]]
  /\ End(w)
  /\ UNCHANGED <<site, setup, clock, published>> /\ UNCHANGED capacityVars

Tick ==
  /\ clock < MaxTime /\ clock' = clock + 1
  /\ UNCHANGED <<site, cache, setup, call, published>> /\ UNCHANGED capacityVars

-----------------------------------------------------------------------------
(* dht.capacity.publish: for whatever workshop the flag names, without a   *)
(* look at what is there.                                                  *)
RunDhtCapacityPublish(w, of, slots) ==
  /\ MayUseTheNetwork(w)
  /\ capacity' = [capacity EXCEPT ![of] = [of |-> of, slots |-> slots, by |-> w]]
  /\ capacity' # capacity
  /\ UNCHANGED <<setup, call, placed>> /\ UNCHANGED siteVars

(* dht.placement asks for one workshop after the other.                    *)
StartPlacement(w, asked) ==
  /\ MayUseTheNetwork(w) /\ asked # {}
  /\ call' = [call EXCEPT ![w] = [Idle EXCEPT !.op = "place", !.left = asked]]
  /\ UNCHANGED <<capacity, setup, placed>> /\ UNCHANGED siteVars

(* An answer whose signature does not verify is passed over.               *)
PlacementReads(w, v) ==
  /\ call[w].op = "place" /\ v \in call[w].left
  /\ call' = [call EXCEPT ![w].left = @ \ {v},
                ![w].found = IF capacity[v].by = w THEN @ \cup {capacity[v]} ELSE @]
  /\ UNCHANGED <<capacity, setup, placed>> /\ UNCHANGED siteVars

Available(found) == {c \in found : c.slots > 0}

\* Fault: the order of the comparison is reversed.
SelectMostLoaded(found) ==
  IF found = {} THEN NoCapacity ELSE CHOOSE c \in found : \A d \in found : c.slots <= d.slots

(* selectLeastLoaded: among those with a free slot, the one with the most. *)
SelectLeastLoaded(found) ==
  IF Available(found) = {} THEN NoCapacity
  ELSE CHOOSE c \in Available(found) : \A d \in found : d.slots <= c.slots

(* "owner-preference" takes any with a free slot; nobody: local-fallback.  *)
PlacementChooses(w, strategy) ==
  /\ call[w].op = "place" /\ call[w].left = {}
  /\ \E winner \in IF strategy = "owner-preference" /\ Available(call[w].found) # {}
                   THEN Available(call[w].found) ELSE {SelectLeastLoaded(call[w].found)} :
       placed' = {[found |-> call[w].found, winner |-> winner, strategy |-> strategy]}
  /\ End(w)
  /\ UNCHANGED <<capacity, setup>> /\ UNCHANGED siteVars

(* A command dies, or its node does not start.                             *)
Fail(w) ==
  /\ call[w].op # "idle" /\ End(w)
  /\ UNCHANGED setup /\ UNCHANGED siteVars /\ UNCHANGED capacityVars

SiteNext(w) ==
  \/ StartRegister(w) \/ RegisterReads(w) \/ RegisterPublishes(w)
  \/ \E force \in BOOLEAN : StartLookup(w, force)
  \/ LookupReads(w) \/ LookupKeeps(w)

CapacityNext(w) ==
  \/ \E of \in Workshops, slots \in 0..MaxSlots : RunDhtCapacityPublish(w, of, slots)
  \/ \E asked \in SUBSET Workshops : StartPlacement(w, asked)
  \/ \E v \in Workshops : PlacementReads(w, v)
  \/ \E strategy \in {"least-loaded", "owner-preference"} : PlacementChooses(w, strategy)

Next ==
  /\ UNCHANGED about
  /\ \/ \E w \in Workshops : RunDhtNodeInit(w) \/ Fail(w)
     \/ about = "site" /\ (Tick \/ \E w \in Workshops : SiteNext(w))
     \/ about = "capacity" /\ \E w \in Workshops : CapacityNext(w)

Spec == Init /\ [][Next]_vars
-----------------------------------------------------------------------------
TypeOK ==
  /\ clock \in 1..MaxTime /\ setup \subseteq Workshops
  /\ \A w \in Workshops :
       /\ call[w].op \in {"idle", "register", "publish", "lookup", "keep", "place"}
       /\ call[w].left \subseteq Workshops
       /\ cache[w].expires \in 0..(MaxTime + 1)

(* A workshop's cache never answers with anything but an entry under its   *)
(* operator's key that was in the table, however registrations and lookups *)
(* of several workshops interleave.                                        *)
CacheServesThePublished ==
  \A w \in Workshops : cache[w] # NoEntry => cache[w].entry \in published /\ cache[w].entry.by = w
(* A placement never goes to a workshop without a free slot, and with      *)
(* least-loaded never to one when another it had heard of had more.        *)
NeverPlacedOnTheFull ==
  \A p \in placed :
    /\ p.winner # NoCapacity => p.winner.slots > 0
    /\ p.strategy = "least-loaded" => \A c \in p.found : c.slots <= p.winner.slots
=============================================================================
