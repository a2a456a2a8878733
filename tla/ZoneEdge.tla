------------------------------ MODULE ZoneEdge ------------------------------
(* What visitors reach a site through: DNS records, Workers routes and      *)
(* redirect rules of one Cloudflare zone, written by dns.record.upsert and  *)
(* .delete, subdomain.register, customdomain.register and redirect.register *)
(* over an API whose answers get lost and are asked for again               *)
(* (dns/, subdomain/, customdomain/, leitstand/adapters/cloudflare-api.ts). *)
(* A value is "good" when it is what a register command wants there.        *)
EXTENDS Naturals, Sequences, SequencesExt, FiniteSets

CONSTANTS
  Procs,       \* terminals and agents
  Declared,    \* the identities [name, type] of dns-records.yaml, in order
  Managed,     \* hosts whose record Workers may manage
  Attempts,    \* MAX_ATTEMPTS of fetchWithRetry
  MaxRecords,  \* bound of the model: records created
  MaxRuns      \* bound of the model: commands

VARIABLES
  records,   \* the zone's records, in the order they are listed
  managed,   \* hosts whose record Workers does manage: not listed, not created
  routes,    \* Workers routes: host -> script
  rules,     \* redirect rules of the zone
  declared,  \* dns-records.yaml: the value of each identity, by position
  job,       \* the command each process runs
  said,      \* what the last command to end answered
  disturbed, \* history: processes while whose command ran another wrote to the zone
  runs

vars == <<records, managed, routes, rules, declared, job, said, disturbed, runs>>
Zone == <<records, managed, routes, rules>>

Values == {"good", "other"}
Host == [subdomain |-> "svc", customdomain |-> "apex", redirect |-> "www"]
Type == [subdomain |-> "CNAME", customdomain |-> "A", redirect |-> "CNAME"]
Idle == [cmd |-> "none", at |-> "idle", left |-> 0, decl |-> <<>>, seen |-> <<>>, i |-> 0,
         errors |-> 0, created |-> FALSE]
Silent == [cmd |-> "none", state |-> "none", decl |-> <<>>]

Init ==
  /\ managed \in SUBSET Managed
  /\ records \in {<<>>} \cup
       {<<r>> : r \in {[id |-> 0, name |-> "apex", type |-> "A", value |-> "other"],
                       [id |-> 0, name |-> "www", type |-> "AAAA", value |-> "good"]}}
  /\ \A n \in DOMAIN records : records[n].name \notin managed
  /\ routes \in {<<>>, [h \in {"svc"} |-> "other"]} /\ rules = <<>>
  /\ \E v \in Values : declared = [i \in DOMAIN Declared |-> v]
  /\ job = [p \in Procs |-> Idle] /\ said = Silent /\ disturbed = {} /\ runs = 0

Edit ==
  /\ runs < MaxRuns
  /\ \E i \in DOMAIN Declared : \E v \in Values \ {declared[i]} : declared' = [declared EXCEPT ![i] = v]
  /\ runs' = runs + 1
  /\ UNCHANGED <<Zone, job, said, disturbed>>

-----------------------------------------------------------------------------
Is(r, identity) == r.name = identity.name /\ r.type = identity.type
(* find: the first record listed for an identity, 0 for none.              *)
Matching(rs, identity) == SelectInSeq(rs, LAMBDA r : Is(r, identity))

RecordsMatch(value, r) == r.value = value

(* The record a register command finds at its host: customdomain looks for *)
(* an A record, the others for the first of any type.                      *)
RecordAt(cmd, rs) ==
  SelectInSeq(rs, LAMBDA r : r.name = Host[cmd] /\ (cmd = "customdomain" => r.type = "A"))
(* redirect takes a proxied AAAA 100:: as well.                             *)
Accepted(cmd, r) ==
  /\ r.value = "good"
  /\ r.type = Type[cmd] \/ (cmd = "redirect" /\ r.type = "AAAA")

(* dns.record.validate, against a declaration: nothing missing or different. *)
DnsRecordValidate(decl) ==
  \A i \in DOMAIN Declared :
    LET m == Matching(records, Declared[i]) IN m # 0 /\ RecordsMatch(decl[i], records[m])

RouteIs(host, script) == host \in DOMAIN routes /\ routes[host] = script

(* subdomain.validate.                                                      *)
SubdomainValidate ==
  LET m == RecordAt("subdomain", records)
  IN  IF m # 0 /\ Accepted("subdomain", records[m]) /\ RouteIs("svc", "good") THEN "valid"
      ELSE IF m = 0 /\ "svc" \notin DOMAIN routes THEN "not-registered"
      ELSE "mismatched"

-----------------------------------------------------------------------------
(* How a command ends, and how it goes on to its next call.                 *)
Ends(p, j, state) ==
  /\ job' = [job EXCEPT ![p] = Idle]
  /\ said' = [cmd |-> j.cmd, state |-> state, decl |-> j.decl]
Calls(p, j, at, left) ==
  /\ job' = [job EXCEPT ![p] = [j EXCEPT !.at = at, !.left = left]]
  /\ UNCHANGED said

(* dns.record.upsert: the next declared record the listing does not match, *)
(* updated when its identity was listed and created when it was not.       *)
Upserts(p, j, from) ==
  LET Differs(i) == LET m == Matching(j.seen, Declared[i]) IN m = 0 \/ ~RecordsMatch(j.decl[i], j.seen[m])
      todo == {i \in DOMAIN Declared : i >= from /\ Differs(i)}
  IN  IF todo = {} THEN Ends(p, j, IF j.errors = 0 THEN "upserted" ELSE "errors")
      ELSE LET i == CHOOSE n \in todo : \A k \in todo : n <= k
           IN  Calls(p, [j EXCEPT !.i = i], IF Matching(j.seen, Declared[i]) = 0 THEN "create" ELSE "update", Attempts)

(* dns.record.delete --name --type: every record listed for it, in order.  *)
Deletes(p, j) ==
  IF j.seen = <<>> THEN Ends(p, j, "deleted") ELSE Calls(p, j, "delete", Attempts)

(* Behind its record a redirect needs a rule, the others a route.          *)
RegistersTarget(p, j) ==
  IF j.cmd = "redirect" THEN Calls(p, j, "rules", Attempts) ELSE Calls(p, j, "routes", 1)
Registered(p, j) == Ends(p, j, IF j.created THEN "registered" ELSE "already-registered")

Listed(p, j) ==
  CASE j.cmd = "upsert" -> Upserts(p, [j EXCEPT !.seen = records], 1)
    [] j.cmd = "delete" -> Deletes(p, [j EXCEPT !.seen = SelectSeq(records, LAMBDA r : Is(r, Declared[j.i]))])
    [] OTHER -> LET m == RecordAt(j.cmd, records)
                IN  IF m = 0 THEN Calls(p, j, "create", Attempts)
                    ELSE IF Accepted(j.cmd, records[m]) THEN RegistersTarget(p, j) ELSE Ends(p, j, "threw")

(* A failed call ends the command, except one of an upsert's writes, which *)
(* is counted.                                                              *)
CallFails(p, j) ==
  IF j.cmd = "upsert" /\ j.at # "list" THEN Upserts(p, [j EXCEPT !.errors = @ + 1], j.i + 1)
  ELSE Ends(p, j, "threw")

(* fetchWithRetry: a transient status or no answer at all is asked again,  *)
(* whether or not the request had been carried out.                         *)
Retried(p, answer) ==
  IF answer = "transient" /\ job[p].left > 1
  THEN job' = [job EXCEPT ![p].left = @ - 1] /\ UNCHANGED said
  ELSE CallFails(p, job[p])

(* Answers of a write: it may have been carried out and its answer lost.   *)
Answers == {<<"ok", TRUE>>, <<"transient", TRUE>>, <<"transient", FALSE>>, <<"refused", FALSE>>}
Disturbs(p, arrives) == disturbed' = IF arrives THEN disturbed \cup (Procs \ {p}) ELSE disturbed

-----------------------------------------------------------------------------
Start(p, j) ==
  /\ job[p] = Idle /\ runs < MaxRuns
  /\ runs' = runs + 1
  /\ job' = [job EXCEPT ![p] = j] /\ disturbed' = disturbed \ {p}
  /\ UNCHANGED <<Zone, declared, said>>
Command(cmd, i) ==
  [Idle EXCEPT !.cmd = cmd, !.at = "list", !.left = Attempts, !.decl = declared, !.i = i]

(* The declaration or the registry, the zone and the token are there.      *)
RunDnsRecordUpsert(p) == Start(p, Command("upsert", 0))
RunDnsRecordDelete(p) == \E i \in DOMAIN Declared : Start(p, Command("delete", i))
RunSubdomainRegister(p) == Start(p, Command("subdomain", 0))
RunCustomdomainRegister(p) == Start(p, Command("customdomain", 0))
RunRedirectRegister(p) == Start(p, Command("redirect", 0))

ListDnsRecords(p, answer) ==
  /\ job[p].at = "list"
  /\ IF answer = "ok" THEN Listed(p, job[p]) ELSE Retried(p, answer)
  /\ UNCHANGED <<Zone, declared, disturbed, runs>>

Wanted(j) ==
  IF j.cmd = "upsert" THEN [name |-> Declared[j.i].name, type |-> Declared[j.i].type, value |-> j.decl[j.i]]
  ELSE [name |-> Host[j.cmd], type |-> Type[j.cmd], value |-> "good"]

\* Fault: any refusal is taken for the one about a record Workers manages.
AnyRefusal(j, host) == j.cmd \in {"customdomain", "redirect"}

(* Error 81062 counts as done for customdomain and redirect.               *)
WorkersManaged(j, host) == j.cmd \in {"customdomain", "redirect"} /\ host \in managed

CreateDnsRecord(p, answer, arrives) ==
  LET j == job[p]  w == Wanted(j)
  IN  /\ j.at = "create"
      /\ w.name \in managed /\ w.type # "TXT" => ~arrives /\ answer # "ok"
      /\ arrives => Len(records) < MaxRecords
      /\ records' = IF arrives THEN Append(records, [id |-> Len(records) + 1, name |-> w.name,
                                                     type |-> w.type, value |-> w.value]) ELSE records
      /\ IF answer = "ok"
         THEN IF j.cmd = "upsert" THEN Upserts(p, j, j.i + 1)
              ELSE RegistersTarget(p, [j EXCEPT !.created = TRUE])
         ELSE IF answer = "refused" /\ WorkersManaged(j, w.name) THEN RegistersTarget(p, j)
         ELSE Retried(p, answer)
      /\ Disturbs(p, arrives) /\ UNCHANGED <<managed, routes, rules, declared, runs>>

(* PUT by the identifier that was listed; a record deleted since is gone.  *)
UpdateDnsRecord(p, answer, arrives) ==
  LET j == job[p]  id == j.seen[Matching(j.seen, Declared[j.i])].id
  IN  /\ j.at = "update"
      /\ arrives => \E n \in DOMAIN records : records[n].id = id
      /\ records' = IF arrives
                    THEN [n \in DOMAIN records |-> IF records[n].id = id
                                                   THEN [records[n] EXCEPT !.value = j.decl[j.i]] ELSE records[n]]
                    ELSE records
      /\ IF answer = "ok" THEN Upserts(p, j, j.i + 1) ELSE Retried(p, answer)
      /\ Disturbs(p, arrives) /\ UNCHANGED <<managed, routes, rules, declared, runs>>

DeleteDnsRecord(p, answer, arrives) ==
  LET j == job[p]  Gone(r) == r.id = Head(j.seen).id
  IN  /\ j.at = "delete"
      /\ arrives => \E n \in DOMAIN records : Gone(records[n])
      /\ records' = IF arrives THEN SelectSeq(records, LAMBDA r : ~Gone(r)) ELSE records
      /\ IF answer = "ok" THEN Deletes(p, [j EXCEPT !.seen = Tail(@)]) ELSE Retried(p, answer)
      /\ Disturbs(p, arrives) /\ UNCHANGED <<managed, routes, rules, declared, runs>>

(* Neither call about routes is retried.                                    *)
ListWorkersRoutes(p, answer) ==
  LET j == job[p]
  IN  /\ j.at = "routes"
      /\ IF answer = "ok"
         THEN IF Host[j.cmd] \notin DOMAIN routes THEN Calls(p, j, "route", 1)
              ELSE IF RouteIs(Host[j.cmd], "good") THEN Registered(p, j) ELSE Ends(p, j, "threw")
         ELSE Retried(p, answer)
      /\ UNCHANGED <<Zone, declared, disturbed, runs>>

CreateWorkersRoute(p, answer, arrives) ==
  LET j == job[p]
  IN  /\ j.at = "route"
      /\ arrives => Host[j.cmd] \notin DOMAIN routes
      /\ routes' = IF arrives THEN [h \in DOMAIN routes \cup {Host[j.cmd]} |-> IF h = Host[j.cmd] THEN "good" ELSE routes[h]]
                   ELSE routes
      /\ IF answer = "ok" THEN Registered(p, [j EXCEPT !.created = TRUE]) ELSE Retried(p, answer)
      /\ Disturbs(p, arrives) /\ UNCHANGED <<managed, records, rules, declared, runs>>

(* A token without the permission is answered 403: no rule is looked at,   *)
(* and the command says registered all the same.                            *)
GetRedirectRuleset(p, answer) ==
  LET j == job[p]
  IN  /\ j.at = "rules"
      /\ CASE answer = "ok" -> IF rules = <<>> THEN Calls(p, j, "rule", Attempts)
                               ELSE IF rules[1] = "good" THEN Registered(p, j) ELSE Ends(p, j, "threw")
           [] answer = "forbidden" -> Ends(p, j, "unverified")
           [] OTHER -> Retried(p, answer)
      /\ UNCHANGED <<Zone, declared, disturbed, runs>>

CreateRedirectRule(p, answer, arrives) ==
  LET j == job[p]
  IN  /\ j.at = "rule"
      /\ arrives => Len(rules) < MaxRecords
      /\ rules' = IF arrives THEN Append(rules, "good") ELSE rules
      /\ IF answer = "ok" THEN Registered(p, [j EXCEPT !.created = TRUE]) ELSE Retried(p, answer)
      /\ Disturbs(p, arrives) /\ UNCHANGED <<managed, records, routes, declared, runs>>

Next ==
  \/ Edit
  \/ \E p \in Procs :
       \/ RunDnsRecordUpsert(p) \/ RunDnsRecordDelete(p) \/ RunSubdomainRegister(p)
       \/ RunCustomdomainRegister(p) \/ RunRedirectRegister(p)
       \/ \E a \in {"ok", "transient", "refused"} : ListDnsRecords(p, a) \/ ListWorkersRoutes(p, a)
       \/ \E a \in {"ok", "transient", "refused", "forbidden"} : GetRedirectRuleset(p, a)
       \/ \E a \in Answers : \/ CreateDnsRecord(p, a[1], a[2]) \/ UpdateDnsRecord(p, a[1], a[2])
                             \/ DeleteDnsRecord(p, a[1], a[2]) \/ CreateWorkersRoute(p, a[1], a[2])
                             \/ CreateRedirectRule(p, a[1], a[2])

Spec == Init /\ [][Next]_vars
-----------------------------------------------------------------------------
TypeOK ==
  /\ Len(records) <= MaxRecords + 1 /\ Len(rules) <= MaxRecords /\ DOMAIN routes \subseteq {"svc", "apex"}
  /\ runs \in 0..MaxRuns /\ disturbed \subseteq Procs
  /\ \A p \in Procs : job[p].left \in 0..Attempts /\ job[p].errors \in 0..Len(Declared)

(* The zone is as the command that ended last asked for it.                *)
Reached ==
  LET c == said.cmd
  IN  CASE c = "upsert" -> DnsRecordValidate(said.decl)
        [] c = "subdomain" -> SubdomainValidate = "valid"
        [] c = "customdomain" -> (Host[c] \in managed \/ RecordAt(c, records) # 0) /\ RouteIs(Host[c], "good")
        [] OTHER -> /\ Host[c] \in managed \/ RecordAt(c, records) # 0
                    /\ said.state = "unverified" \/ rules # <<>>

(* Through lost answers and retries: a command that ends well, while whose *)
(* run nobody else wrote to the zone, leaves it as the command promises,   *)
(* by the answer of the validation of the same kind.                        *)
ReachesWhatItSays ==
  \A p \in Procs :
     /\ job[p] # Idle /\ job'[p] = Idle /\ p \notin disturbed
     /\ said'.state \in {"upserted", "registered", "already-registered", "unverified"}
     => Reached'
EndsAsAsked == [][ReachesWhatItSays]_vars
-----------------------------------------------------------------------------
(* Not kept (redirect-register.ts 6: "Idempotent: skips existing correct    *)
(* records"): a site has one redirect rule at most.  A rule whose answer    *)
(* was lost is created once more by the retry.                              *)
OneRuleAtMost == Len(rules) <= 1
=============================================================================
