--------------------------------- MODULE Profiles ---------------------------------
(***************************************************************************)
(* ~/.pgx/config.toml and the `pgx profiles` commands.  A command reads    *)
(* the whole file, changes it in memory and writes the whole of it back;   *)
(* nothing locks the file, and fs::write empties it before it writes.      *)
(* Other processes read and write it meanwhile, and any process may be     *)
(* killed between two steps.                                               *)
(*                                                                         *)
(* Descriptions are kept like URLs and left out.  A profile's `listen`,    *)
(* `replicate` and `consume` sections are one opaque value here: the       *)
(* commands carry them along.                                              *)
(***************************************************************************)
EXTENDS Naturals, FiniteSets

CONSTANTS
    Procs,       \* the processes
    Names, NoName,
    Urls, NoUrl,
    Sections, NoSections,
    Garbled,     \* what a file holds that does not parse
    FirstConfigs,   \* what the file may hold at first
    Lines,          \* the command lines of `pgx profiles`
    MaxCommands     \* bound on the commands started

Connection == [url : Urls, sections : Sections]
Config == UNION {[default : Names \cup {NoName}, connections : [S -> Connection]] :
                   S \in SUBSET Names}

\* The default is no profile at all, or one there is.
Named(c) == c.default # NoName => c.default \in DOMAIN c.connections

Commands ==
    [op : {"add"}, name : Names, url : Urls, default : {"none", "true"}]
      \cup [op : {"edit"}, name : Names, url : Urls \cup {NoUrl}, default : {"none", "true", "false"}]
      \cup [op : {"delete", "show"}, name : Names, url : {NoUrl}, default : {"none"}]

ASSUME ProfilesAssumption ==
    /\ Names # {}
    /\ NoName \notin Names
    /\ NoUrl \notin Urls
    /\ NoSections \in Sections
    /\ Garbled \notin Config
    /\ FirstConfigs \subseteq Config
    /\ Lines \subseteq Commands
    /\ \A c \in FirstConfigs : Named(c)
    /\ MaxCommands \in Nat

\* A missing file, and an empty one.
EmptyConfig == [default |-> NoName, connections |-> [n \in {} |-> NoUrl]]

VARIABLES
    file,     \* the file's content
    pc,       \* of each process: "idle", "started", "loaded" or "writing"
    args,     \* the command each process runs
    cfg,      \* the configuration it holds in memory
    started,  \* commands started so far
    raced,    \* history: processes that loaded a file another process has changed
              \* since, or was writing
    saved     \* history: the content before the writes under way

profileVars == <<file, pc, args, cfg, started, raced, saved>>

-----------------------------------------------------------------------------
(* What the commands do to a configuration *)

Without(f, n) == [k \in DOMAIN f \ {n} |-> f[k]]
With(f, n, x) == [k \in DOMAIN f \cup {n} |-> IF k = n THEN x ELSE f[k]]

\* add bails out on a name that exists, the others on one that does not.
Accepts(c, a) == IF a.op = "add" THEN a.name \notin DOMAIN c.connections
                                 ELSE a.name \in DOMAIN c.connections

cmd_add(c, a) ==
    [default |-> IF a.default = "true" THEN a.name ELSE c.default,
     connections |-> With(c.connections, a.name, [url |-> a.url, sections |-> NoSections])]

MutantEdit(c, a) ==   \* the profile is built anew
    [default |-> IF a.default = "true" THEN a.name ELSE c.default,
     connections |-> With(c.connections, a.name, [url |-> a.url, sections |-> NoSections])]
cmd_edit(c, a) ==
    LET old == c.connections[a.name]
    IN  [default |-> CASE a.default = "true" -> a.name
                       [] a.default = "false" /\ c.default = a.name -> NoName
                       [] OTHER -> c.default,
         connections |-> With(c.connections, a.name,
                              [old EXCEPT !.url = IF a.url = NoUrl THEN old.url ELSE a.url])]

MutantDelete(c, a) ==   \* the default is left behind
    [default |-> c.default, connections |-> Without(c.connections, a.name)]
cmd_delete(c, a) ==
    [default |-> IF c.default = a.name THEN NoName ELSE c.default,
     connections |-> Without(c.connections, a.name)]

\* Profiles of d after the whole of c.
WithTail(c, d) ==
    [c EXCEPT !.connections = [k \in DOMAIN @ \cup DOMAIN d.connections |->
                                 IF k \in DOMAIN @ THEN @[k] ELSE d.connections[k]]]

Result(c, a) == CASE a.op = "add" -> cmd_add(c, a)
                  [] a.op = "edit" -> cmd_edit(c, a)
                  [] a.op = "delete" -> cmd_delete(c, a)

-----------------------------------------------------------------------------
(* Steps of a process *)

Writers == {p \in Procs : pc[p] = "writing"}

\* The content another process may count on: the last that was complete.
Settle == saved' = IF \E p \in Procs : pc'[p] = "writing" THEN saved ELSE file'

Ends(p) == pc' = [pc EXCEPT ![p] = "idle"]

\* main loads the configuration, and gives up when it does not parse.
Start(p, a) ==
    /\ pc[p] = "idle"
    /\ started < MaxCommands
    /\ started' = started + 1
    /\ args' = [args EXCEPT ![p] = a]
    /\ pc' = [pc EXCEPT ![p] = IF file = Garbled THEN "idle" ELSE "started"]
    /\ UNCHANGED <<file, cfg, raced, saved>>

\* The command loads it again and makes its change in memory, or bails out; `show`
\* (and `list`) end here.
Load(p) ==
    /\ pc[p] = "started"
    /\ IF file # Garbled /\ Accepts(file, args[p]) /\ args[p].op # "show"
       THEN /\ cfg' = [cfg EXCEPT ![p] = Result(file, args[p])]
            /\ pc' = [pc EXCEPT ![p] = "loaded"]
            /\ raced' = IF Writers = {} THEN raced \ {p} ELSE raced \cup {p}
       ELSE Ends(p) /\ UNCHANGED <<cfg, raced>>
    /\ UNCHANGED <<file, args, started, saved>>

\* fs::write opens the file and empties it ...
Truncate(p) ==
    /\ pc[p] = "loaded"
    /\ pc' = [pc EXCEPT ![p] = "writing"]
    /\ file' = EmptyConfig
    /\ raced' = raced \cup {q \in Procs \ {p} : pc[q] \in {"loaded", "writing"}}
    /\ UNCHANGED <<args, cfg, started, saved>>

\* ... and writes it from the start.  Over what another process wrote meanwhile, a
\* shorter content leaves the tail of the longer one behind, which may even parse,
\* as more profiles.
Write(p) ==
    /\ pc[p] = "writing"
    /\ Ends(p)
    /\ file' \in {cfg[p]} \cup CASE file = EmptyConfig -> {}
                                [] file = Garbled -> {Garbled}
                                [] OTHER -> {Garbled, WithTail(cfg[p], file)}
    /\ Settle
    /\ UNCHANGED <<args, cfg, started, raced>>

\* The disk is full: the command fails, after the file was emptied.
WriteFails(p) ==
    /\ pc[p] = "writing"
    /\ Ends(p)
    /\ file' = file
    /\ Settle
    /\ UNCHANGED <<args, cfg, started, raced>>

Crash(p) ==
    /\ pc[p] # "idle"
    /\ Ends(p)
    /\ file' = file
    /\ Settle
    /\ UNCHANGED <<args, cfg, started, raced>>

-----------------------------------------------------------------------------
Init ==
    /\ file \in FirstConfigs
    /\ saved = file
    /\ pc = [p \in Procs |-> "idle"]
    /\ args \in [Procs -> {CHOOSE a \in Commands : a.op = "show"}]
    /\ cfg = [p \in Procs |-> EmptyConfig]
    /\ started = 0
    /\ raced = {}

Step(p) == \/ \E a \in Lines : Start(p, a)
           \/ Load(p) \/ Truncate(p) \/ Write(p) \/ WriteFails(p) \/ Crash(p)

Next == \E p \in Procs : Step(p)

Spec == Init /\ [][Next]_profileVars

-----------------------------------------------------------------------------
(* Properties *)

\* The default names a profile there is -- in the file, and in whatever a process
\* is about to write -- although commands overlap and are cut short.
DefaultNamed ==
    /\ file # Garbled => Named(file)
    /\ \A p \in Procs : pc[p] \in {"loaded", "writing"} => Named(cfg[p])

Registry == INSTANCE ProfileRegistry WITH registry <- saved

\* A command that no other command raced changes the registry as it promises:
\* its own profile and nothing else.  Only commands that overlap, or are cut short
\* while they write, lose what others wrote.
ActsAsRegistry ==
    [][\A p \in Procs : (Write(p) /\ p \notin raced) => Registry!Step]_profileVars
=============================================================================
