----------------------------- MODULE KernelArgv -----------------------------
(* The flags of a call, token by token: the parse against a command's      *)
(* schema, the heuristic one of commands without a schema, and the flags   *)
(* the pipeline adds at the end (kernel/runtime/argv.ts, the injection of  *)
(* --site and --system in execute-command.ts and execute-pipeline.ts).     *)
EXTENDS Naturals, FiniteSets, Sequences, SequencesExt

CONSTANTS
  Schema,    \* flag -> [kind, required]: the merged schema
  Switches,  \* KERNEL_BOOLEAN_FLAGS, for commands without a schema
  Tokens,    \* tokens a caller may pass
  MaxTokens  \* bound of the model: tokens of a call

(* A token is [is: "flag" | "inline" | "value" | "end", name].             *)
VARIABLES
  strict,    \* does the command carry a schema
  argv,      \* what the caller passed
  read,      \* the tokens read so far
  flags,     \* flag -> the values it has been given
  diags,     \* the rules broken so far, in order
  passthrough

vars == <<strict, argv, read, flags, diags, passthrough>>

NoFlags == [n \in DOMAIN Schema |-> <<>>]
Entry == argv[read + 1]
NextIsValue == read + 2 <= Len(argv) /\ argv[read + 2].is = "value"

(* addFlagValue: a second text makes a list; a switch never replaces one.  *)
AddFlagValue(target, name, value) ==
  IF target[name] = <<>> \/ target[name] = <<"true">> THEN [target EXCEPT ![name] = <<value>>]
  ELSE IF value = "true" THEN target
  ELSE [target EXCEPT ![name] = Append(@, value)]

Site(is) == [is |-> is, name |-> "site"]
\* Fault: only the separate form of --site is looked for.
InjectedTwice(args) ==
  IF \E i \in DOMAIN args : args[i] = Site("flag") THEN args
  ELSE args \o <<Site("flag"), [is |-> "value", name |-> "s"]>>

(* The injection: --site is added unless the caller gave it in any form.   *)
Injected(args) ==
  IF \E i \in DOMAIN args : args[i].is \in {"flag", "inline"} /\ args[i].name = "site" THEN args
  ELSE args \o <<Site("flag"), [is |-> "value", name |-> "s"]>>

Init ==
  /\ strict \in BOOLEAN
  /\ argv \in {Injected(args) : args \in SeqOf(Tokens, MaxTokens)}
  /\ read = 0 /\ flags = NoFlags /\ diags = <<>> /\ passthrough = FALSE

Diagnose(rule) == diags' = Append(diags, rule)

(* Behind "--", and anywhere else, a bare token is an error.               *)
Positional ==
  /\ read < Len(argv)
  /\ passthrough \/ Entry.is = "value"
  /\ read' = read + 1 /\ Diagnose("KERNEL-ARG-01")
  /\ UNCHANGED <<strict, argv, flags, passthrough>>

Separator ==
  /\ read < Len(argv) /\ ~ passthrough /\ Entry.is = "end"
  /\ read' = read + 1 /\ passthrough' = TRUE
  /\ UNCHANGED <<strict, argv, flags, diags>>

UnknownFlag ==
  /\ read < Len(argv) /\ ~ passthrough /\ Entry.is \in {"flag", "inline"}
  /\ strict /\ Entry.name \notin DOMAIN Schema
  /\ read' = read + 1 /\ Diagnose("KERNEL-FLAG-01")
  /\ UNCHANGED <<strict, argv, flags, passthrough>>

Known == strict => Entry.name \in DOMAIN Schema
Record(name, value) == IF name \in DOMAIN Schema THEN AddFlagValue(flags, name, value) ELSE flags
IsSwitch(name) == IF strict THEN Schema[name].kind = "boolean" ELSE name \in Switches

(* --name=value; a switch turns any text but "false" into true.            *)
InlineValue ==
  /\ read < Len(argv) /\ ~ passthrough /\ Entry.is = "inline" /\ Known
  /\ read' = read + 1
  /\ flags' = Record(Entry.name, IF strict /\ IsSwitch(Entry.name) THEN "true" ELSE "x")
  /\ UNCHANGED <<strict, argv, diags, passthrough>>

Switch ==
  /\ read < Len(argv) /\ ~ passthrough /\ Entry.is = "flag" /\ Known /\ IsSwitch(Entry.name)
  /\ read' = read + 1 /\ flags' = Record(Entry.name, "true")
  /\ UNCHANGED <<strict, argv, diags, passthrough>>

(* --name value: the next token is taken unless it begins with "--".       *)
FlagWithValue ==
  /\ read < Len(argv) /\ ~ passthrough /\ Entry.is = "flag" /\ Known /\ ~ IsSwitch(Entry.name)
  /\ NextIsValue
  /\ read' = read + 2 /\ flags' = Record(Entry.name, argv[read + 2].name)
  /\ UNCHANGED <<strict, argv, diags, passthrough>>

(* Without a value: an error of the schema, true by the heuristic.         *)
FlagWithoutValue ==
  /\ read < Len(argv) /\ ~ passthrough /\ Entry.is = "flag" /\ Known /\ ~ IsSwitch(Entry.name)
  /\ ~ NextIsValue
  /\ read' = read + 1
  /\ IF strict THEN Diagnose("KERNEL-FLAG-02") /\ flags' = flags
     ELSE flags' = Record(Entry.name, "true") /\ diags' = diags
  /\ UNCHANGED <<strict, argv, passthrough>>

Missing == {n \in DOMAIN Schema : Schema[n].required /\ flags[n] = <<>>}

(* The schema's last pass: required flags.                                 *)
Resolve ==
  /\ read = Len(argv) /\ strict
  /\ read' = read + 1
  /\ diags' = diags \o [i \in 1..Cardinality(Missing) |-> "KERNEL-FLAG-03"]
  /\ UNCHANGED <<strict, argv, flags, passthrough>>

Next == \/ Positional \/ Separator \/ UnknownFlag \/ InlineValue \/ Switch
        \/ FlagWithValue \/ FlagWithoutValue \/ Resolve

Spec == Init /\ [][Next]_vars
-----------------------------------------------------------------------------
TypeOK ==
  /\ read \in 0..Len(argv) + 1 /\ passthrough \in BOOLEAN /\ strict \in BOOLEAN
  /\ DOMAIN flags = DOMAIN Schema

(* The pipeline adds --site behind whatever the caller wrote, even behind  *)
(* a flag that misses its value: a call that parses to the end without an  *)
(* error runs for exactly one site, and no other flag has taken the        *)
(* injected name.                                                          *)
InjectionIsInert ==
  read >= Len(argv) /\ diags = <<>> /\ Injected(SubSeq(argv, 1, Len(argv) - 2)) = argv =>
    /\ flags["site"] = <<"s">>
    /\ \A n \in DOMAIN Schema \ {"site"} : "site" \notin {flags[n][i] : i \in DOMAIN flags[n]}
=============================================================================
