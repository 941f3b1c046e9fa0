------------------------------------ MODULE Pgx ------------------------------------
(***************************************************************************)
(* From a command line to a running pipeline: main loads the configuration *)
(* once, resolves the connection, hands the profile's section to the       *)
(* pipeline, which merges it with what was typed and opens its sinks one   *)
(* after the other.  Meanwhile `pgx profiles` commands of other processes  *)
(* rewrite the file.                                                       *)
(***************************************************************************)
EXTENDS Profiles, Settings

CONSTANTS
    Runs,    \* processes that run a pipeline
    Cases    \* <<content of the file at first, command line of the runs>>

\* A command line is a command of Settings with url (typed, or DATABASE_URL) and
\* conn (--conn); a profile's sections are a function from the pipelines.
SinkKind == UNION {Kinds(op) \cup SectionKinds(op) : op \in Pipelines}
Option == UNION {General(op) \cup UNION {SinkOptions(op, kind) : kind \in Kinds(op)} :
                   op \in Pipelines}
            \cup SourceOptions("rabbitmq") \cup SourceOptions("kafka")
Source == {"none", "rabbitmq", "kafka"}
ExtraSink == [kind : SinkKind, sets : SUBSET Option]
CommandLine == [op : Pipelines, kind : SinkKind, source : Source, given : SUBSET Option,
                usual : BOOLEAN, simple : BOOLEAN, extras : Seq(ExtraSink),
                url : Urls \cup {NoUrl}, conn : Names \cup {NoName}]
Section == [kind : SinkKind, source : Source, sets : SUBSET Option,
            invalid : SUBSET Option, extras : Seq(ExtraSink)]

\* clap accepts no command line without the options it insists on, and a `consume`
\* section always names its sink.
ASSUME PgxAssumption ==
    /\ \A case \in Cases : /\ case[1] \in FirstConfigs
                           /\ case[2] \in CommandLine
                           /\ case[2].kind \in Kinds(case[2].op)
                           /\ ClapRequired(case[2].op) \subseteq case[2].given
    /\ \A s \in Sections :
         /\ s \in [Pipelines -> Section]
         /\ \A op \in Pipelines : s[op].kind \in SectionKinds(op)
         /\ s["consume"] # NoSection => s["consume"].kind # "none"
    /\ \A op \in Pipelines : NoSections[op] = NoSection

VARIABLES
    asked,    \* the command line of the runs
    stage,    \* of each run: "new", "resolved", "opening", "running" or "ended"
    target,   \* what it connects to: the URL, the profile's name and section
    opened    \* the sinks it has opened

runVars == <<asked, stage, target, opened>>
pgxVars == <<profileVars, runVars>>

-----------------------------------------------------------------------------
(* Config::resolve_from *)

MutantChosen(c) == c.default   \* --conn is passed over
Chosen(c) == IF asked.conn # NoName THEN asked.conn ELSE c.default

Found(c) == asked.url # NoUrl \/ Chosen(c) \in DOMAIN c.connections

\* With a URL there is no profile, and with no profile no section.
Resolved(c) ==
    IF asked.url # NoUrl
    THEN [url |-> asked.url, name |-> NoName, section |-> NoSection]
    ELSE LET profile == c.connections[Chosen(c)]
         IN  [url |-> profile.url, name |-> Chosen(c), section |-> profile.sections[asked.op]]

-----------------------------------------------------------------------------
(* Steps of a run *)

Ended(r) == stage' = [stage EXCEPT ![r] = "ended"]

\* main: a file that does not parse, no connection of that name, none at all.
Invoke(r) ==
    /\ stage[r] = "new"
    /\ IF file # Garbled /\ Found(file)
       THEN /\ target' = [target EXCEPT ![r] = Resolved(file)]
            /\ stage' = [stage EXCEPT ![r] = "resolved"]
       ELSE Ended(r) /\ UNCHANGED target
    /\ UNCHANGED <<profileVars, asked, opened>>

Command(r) == Settled(asked, target[r].section)
Wanted(r) == Sinks(Command(r), target[r].section)

\* The merge, and what it finds missing.
Configure(r) ==
    /\ stage[r] = "resolved"
    /\ stage' = [stage EXCEPT ![r] = IF Refused(Command(r), target[r].section)
                                     THEN "ended" ELSE "opening"]
    /\ UNCHANGED <<profileVars, asked, target, opened>>

\* The next sink is opened; the last opens the pipeline.
Open(r) ==
    /\ stage[r] = "opening"
    /\ opened' = [opened EXCEPT ![r] = Append(@, Wanted(r)[Len(@) + 1])]
    /\ stage' = [stage EXCEPT ![r] = IF Len(opened'[r]) = Len(Wanted(r)) THEN "running" ELSE @]
    /\ UNCHANGED <<profileVars, asked, target>>

\* A sink cannot be reached; the sinks opened are dropped with the process.
OpenFails(r) ==
    /\ stage[r] = "opening"
    /\ Ended(r)
    /\ opened' = [opened EXCEPT ![r] = <<>>]
    /\ UNCHANGED <<profileVars, asked, target>>

-----------------------------------------------------------------------------
PgxInit ==
    /\ Init
    /\ \E case \in Cases : file = case[1] /\ asked = case[2]
    /\ stage = [r \in Runs |-> "new"]
    /\ target = [r \in Runs |-> [url |-> NoUrl, name |-> NoName, section |-> NoSection]]
    /\ opened = [r \in Runs |-> <<>>]

RunStep(r) == Invoke(r) \/ Configure(r) \/ Open(r) \/ OpenFails(r)

PgxNext == \/ Next /\ UNCHANGED runVars
           \/ \E r \in Runs : RunStep(r)

PgxSpec == PgxInit /\ [][PgxNext]_pgxVars

-----------------------------------------------------------------------------
(* Properties *)

\* What the file says of a run's profile when the run starts: the last content
\* that was whole, or one written since by a command whose write another one races.
Known == {saved} \cup (IF file = Garbled THEN {} ELSE {file})

\* A run connects where it was told to, and what it takes from a profile comes
\* from one whole content of the file, however the profiles commands race: URL
\* and section belong together, and a typed URL takes no section.
ConnectsAsTold ==
    [][\A r \in Runs : stage'[r] = "resolved" /\ stage[r] = "new" =>
         LET t == target'[r]
         IN  \/ asked.url = t.url /\ t.url # NoUrl /\ t.section = NoSection
             \/ /\ asked.url = NoUrl
                /\ \E c \in Known :
                     /\ t.name = IF asked.conn = NoName THEN c.default ELSE asked.conn
                     /\ t.name \in DOMAIN c.connections
                     /\ c.connections[t.name].url = t.url
                     /\ c.connections[t.name].sections[asked.op] = t.section]_pgxVars

\* Whose word counts for a setting of a run that got as far as its sinks.
WordOf(c, s, o, v) ==
    LET profile == o \in s.sets \ s.invalid
    IN  CASE v = "cli"     -> o \in c.given
          [] v = "cfg"     -> profile /\ o \notin ClapRequired(c.op)
          [] v = "both"    -> o \in c.given /\ profile
          [] v = "default" -> o \notin c.given \/ c.usual
          [] v = "none"    -> o \notin c.given

\* Every setting of a run is somebody's word: what was typed is what runs, unless
\* clap has a default for it, which hides the typing from the merge; a profile's
\* word counts for the sink and source it was written for; a sink opens with all it
\* needs, as typed -- but consume opens the profile's -- and in the order typed
\* before configured.
RunsAsTold ==
    \A r \in Runs : stage[r] \in {"opening", "running"} =>
      LET c   == Command(r)
          s   == target[r].section
          eff == Effective(c, s)
      IN  /\ \A o \in DOMAIN eff :
               /\ WordOf(c, s, o, eff[o])
               /\ eff[o] = "cfg" /\ o \in c.given => o \in ClapDefault(c.op)
               /\ eff[o] \in {"cfg", "both"} =>
                    \/ o \in General(c.op)
                    \/ o \in SinkOptions(c.op, c.kind) /\ c.kind = s.kind
                    \/ o \in SourceOptions(c.source) /\ c.source = s.source
          /\ \A o \in Required(c.op, c.kind) : eff[o] \in {"cli", "cfg"}
          /\ c.kind = asked.kind \/ (asked.op = "consume" /\ c.kind = s.kind)
          /\ \A k \in DOMAIN opened[r] :
               opened[r][k] = BuiltAs((<<[kind |-> c.kind]>> \o c.extras \o s.extras)[k].kind)
          /\ stage[r] = "running" =>
               Len(opened[r]) = 1 + Len(c.extras) + Len(s.extras)
=============================================================================
