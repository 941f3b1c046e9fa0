--------------------------------- MODULE PgxProofs ---------------------------------
(***************************************************************************)
(* Proofs about Profiles and Pgx: the default of the configuration file is *)
(* a profile there is, whatever the commands do to each other, and a       *)
(* command nobody raced does what the registry promises; what is proved of *)
(* the file holds beside running pipelines, and a pipeline connects where  *)
(* it was told to.                                                         *)
(***************************************************************************)
EXTENDS Pgx, TLAPS


ProfilesTypeOK ==
    /\ file \in Config \cup {Garbled}
    /\ saved \in Config \cup {Garbled}
    /\ pc \in [Procs -> {"idle", "started", "loaded", "writing"}]
    /\ args \in [Procs -> Commands]
    /\ cfg \in [Procs -> Config]

\* What a process about to write has in memory that no other process raced: its
\* change to the last whole content.
Fresh(p) ==
    /\ saved # Garbled
    /\ args[p].op # "show"
    /\ Accepts(saved, args[p])
    /\ cfg[p] = Result(saved, args[p])

Unraced ==
    /\ Writers = {} => saved = file
    /\ \A p \in Procs \ raced :
         /\ pc[p] = "loaded" => Writers = {} /\ Fresh(p)
         /\ pc[p] = "writing" => Writers = {p} /\ file = EmptyConfig /\ Fresh(p)

ProfilesInv == ProfilesTypeOK /\ DefaultNamed /\ Unraced

-----------------------------------------------------------------------------
(* Configurations *)

LEMMA ConfigParts ==
  ASSUME NEW c \in Config
  PROVE  /\ c = [default |-> c.default, connections |-> c.connections]
         /\ c.default \in Names \cup {NoName}
         /\ DOMAIN c.connections \subseteq Names
         /\ c.connections \in [DOMAIN c.connections -> Connection]
  <1>1. PICK S \in SUBSET Names :
          c \in [default : Names \cup {NoName}, connections : [S -> Connection]]
    BY DEF Config
  <1> QED  BY <1>1

LEMMA ConfigIntro ==
  ASSUME NEW d \in Names \cup {NoName}, NEW S \in SUBSET Names, NEW f \in [S -> Connection]
  PROVE  [default |-> d, connections |-> f] \in Config
  BY DEF Config

LEMMA EmptyIsConfig == EmptyConfig \in Config /\ Named(EmptyConfig)
  <1>1. [n \in {} |-> NoUrl] \in [{} -> Connection]
    OBVIOUS
  <1>2. EmptyConfig \in Config
    BY <1>1, ConfigIntro DEF EmptyConfig
  <1> QED  BY <1>2 DEF EmptyConfig, Named

LEMMA CommandParts ==
  ASSUME NEW a \in Commands
  PROVE  /\ a.name \in Names
         /\ a.op \in {"add", "edit", "delete", "show"}
         /\ a.op = "add" => a.url \in Urls
         /\ a.url \in Urls \cup {NoUrl}
  BY DEF Commands

\* Adding, editing or deleting a profile leaves a configuration whose default
\* is one of its profiles.
LEMMA ResultNamed ==
  ASSUME NEW c \in Config, NEW a \in Commands, Named(c), Accepts(c, a), a.op # "show"
  PROVE  Result(c, a) \in Config /\ Named(Result(c, a))
  <1> USE ConfigParts, CommandParts
  <1>1. CASE a.op = "add"
    <2> DEFINE f == With(c.connections, a.name, [url |-> a.url, sections |-> NoSections])
               S == DOMAIN c.connections \cup {a.name}
    <2>1. f \in [S -> Connection] /\ S \subseteq Names
      BY <1>1, ProfilesAssumption DEF With, Connection
    <2>2. cmd_add(c, a) = [default |-> IF a.default = "true" THEN a.name ELSE c.default,
                           connections |-> f]
      BY DEF cmd_add
    <2>3. cmd_add(c, a) \in Config
      <3> HIDE DEF f
      <3> QED  BY <2>1, <2>2, ConfigIntro
    <2>4. Named(cmd_add(c, a))
      <3> HIDE DEF f
      <3> QED  BY <2>1, <2>2 DEF Named
    <2> QED  BY <1>1, <2>3, <2>4 DEF Result
  <1>2. CASE a.op = "edit"
    <2> DEFINE old == c.connections[a.name]
               new == [old EXCEPT !.url = IF a.url = NoUrl THEN old.url ELSE a.url]
               f == With(c.connections, a.name, new)
               d == CASE a.default = "true" -> a.name
                      [] a.default = "false" /\ c.default = a.name -> NoName
                      [] OTHER -> c.default
    <2>1. a.name \in DOMAIN c.connections
      BY <1>2 DEF Accepts
    <2>2. new \in Connection
      <3>1. old \in Connection
        BY <2>1
      <3> QED  BY <3>1 DEF Connection
    <2>3. f \in [DOMAIN c.connections -> Connection]
      <3> HIDE DEF new
      <3> QED  BY <2>1, <2>2 DEF With
    <2>4. cmd_edit(c, a) = [default |-> d, connections |-> f]
      BY DEF cmd_edit
    <2>5. d \in {a.name, NoName, c.default}
      OBVIOUS
    <2>6. cmd_edit(c, a) \in Config
      <3> HIDE DEF f, d
      <3> QED  BY <2>3, <2>4, <2>5, ConfigIntro
    <2>7. Named(cmd_edit(c, a))
      <3> HIDE DEF f, d
      <3> QED  BY <2>1, <2>3, <2>4, <2>5 DEF Named
    <2> QED  BY <1>2, <2>6, <2>7 DEF Result
  <1>3. CASE a.op = "delete"
    <2> DEFINE f == Without(c.connections, a.name)
               S == DOMAIN c.connections \ {a.name}
    <2>1. f \in [S -> Connection] /\ S \subseteq Names
      BY DEF Without
    <2>2. cmd_delete(c, a) = [default |-> IF c.default = a.name THEN NoName ELSE c.default,
                              connections |-> f]
      BY DEF cmd_delete
    <2>3. cmd_delete(c, a) \in Config
      <3> HIDE DEF f
      <3> QED  BY <2>1, <2>2, ConfigIntro
    <2>4. Named(cmd_delete(c, a))
      <3> HIDE DEF f
      <3> QED  BY <2>1, <2>2 DEF Named
    <2> QED  BY <1>3, <2>3, <2>4 DEF Result
  <1> QED  BY <1>1, <1>2, <1>3

LEMMA TailNamed ==
  ASSUME NEW c \in Config, NEW d \in Config, Named(c)
  PROVE  WithTail(c, d) \in Config /\ Named(WithTail(c, d))
  <1> DEFINE S == DOMAIN c.connections \cup DOMAIN d.connections
             f == [k \in S |-> IF k \in DOMAIN c.connections THEN c.connections[k]
                                                             ELSE d.connections[k]]
  <1>1. f \in [S -> Connection] /\ S \subseteq Names
    BY ConfigParts
  <1>2. WithTail(c, d) = [default |-> c.default, connections |-> f]
    BY ConfigParts DEF WithTail
  <1>3. WithTail(c, d) \in Config
    <2> HIDE DEF f
    <2> QED  BY <1>1, <1>2, ConfigParts, ConfigIntro
  <1>4. Named(WithTail(c, d))
    <2> HIDE DEF f
    <2> QED  BY <1>1, <1>2 DEF Named
  <1> QED  BY <1>3, <1>4
-----------------------------------------------------------------------------
(* The invariant *)

LEMMA InitHolds == Init => ProfilesInv
  <1> SUFFICES ASSUME Init PROVE ProfilesInv
    OBVIOUS
  <1> DEFINE a0 == CHOOSE a \in Commands : a.op = "show"
  <1>1. a0 \in Commands
    <2>1. PICK n \in Names : TRUE
      BY ProfilesAssumption
    <2> DEFINE a == [op |-> "show", name |-> n, url |-> NoUrl, default |-> "none"]
    <2>2. a \in Commands /\ a.op = "show"
      BY <2>1 DEF Commands
    <2> QED  BY <2>2
  <1>2. ProfilesTypeOK
    <2>1. args \in [Procs -> Commands]
      <3> HIDE DEF a0
      <3> QED  BY <1>1 DEF Init, a0
    <2> QED  BY <2>1, EmptyIsConfig, ProfilesAssumption DEF Init, ProfilesTypeOK
  <1>3. DefaultNamed
    BY ProfilesAssumption DEF Init, DefaultNamed
  <1>4. Unraced
    BY DEF Init, Unraced, Writers
  <1> QED  BY <1>2, <1>3, <1>4 DEF ProfilesInv

LEMMA StartKeeps ==
  ASSUME ProfilesInv, NEW p \in Procs, NEW a \in Lines, Start(p, a)
  PROVE  ProfilesInv'
  <1> USE DEF ProfilesInv
  <1>1. ProfilesTypeOK'
    BY ProfilesAssumption DEF ProfilesTypeOK, Start
  <1>2. DefaultNamed'
    BY DEF ProfilesTypeOK, DefaultNamed, Start
  <1>3. Writers' = Writers
    BY DEF ProfilesTypeOK, Start, Writers
  <1>4. Unraced'
    <2>1. \A q \in Procs : pc'[q] \in {"loaded", "writing"} => q # p /\ pc'[q] = pc[q]
                                                               /\ args'[q] = args[q]
      BY DEF ProfilesTypeOK, Start
    <2>2. UNCHANGED <<file, cfg, raced, saved>>
      BY DEF Start
    <2> QED  BY <1>3, <2>1, <2>2 DEF Unraced, Fresh
  <1> QED  BY <1>1, <1>2, <1>4

LEMMA LoadKeeps ==
  ASSUME ProfilesInv, NEW p \in Procs, Load(p)
  PROVE  ProfilesInv'
  <1> USE DEF ProfilesInv
  <1>1. CASE file # Garbled /\ Accepts(file, args[p]) /\ args[p].op # "show"
    <2>1. /\ cfg' = [cfg EXCEPT ![p] = Result(file, args[p])]
          /\ pc' = [pc EXCEPT ![p] = "loaded"]
          /\ raced' = IF Writers = {} THEN raced \ {p} ELSE raced \cup {p}
          /\ pc[p] = "started"
          /\ UNCHANGED <<file, args, started, saved>>
      BY <1>1 DEF Load
    <2>2. Result(file, args[p]) \in Config /\ Named(Result(file, args[p]))
      BY <1>1, ResultNamed DEF ProfilesTypeOK, DefaultNamed
    <2>3. ProfilesTypeOK'
      BY <2>1, <2>2 DEF ProfilesTypeOK
    <2>4. DefaultNamed'
      BY <2>1, <2>2 DEF ProfilesTypeOK, DefaultNamed
    <2>5. Writers' = Writers
      BY <2>1 DEF ProfilesTypeOK, Writers
    <2>6. ASSUME NEW q \in Procs \ raced'
          PROVE  /\ pc'[q] = "loaded" => Writers' = {} /\ Fresh(q)'
                 /\ pc'[q] = "writing" => Writers' = {q} /\ file' = EmptyConfig /\ Fresh(q)'
      <3>1. CASE q = p
        BY <1>1, <2>1, <2>5, <2>6, <3>1 DEF ProfilesTypeOK, Unraced, Fresh
      <3>2. CASE q # p
        <4>1. q \notin raced /\ pc'[q] = pc[q] /\ cfg'[q] = cfg[q]
          BY <2>1, <2>6, <3>2 DEF ProfilesTypeOK
        <4> QED  BY <2>1, <2>5, <4>1 DEF Unraced, Fresh
      <3> QED  BY <3>1, <3>2
    <2>7. Unraced'
      BY <2>1, <2>5, <2>6 DEF Unraced
    <2> QED  BY <2>3, <2>4, <2>7
  <1>2. CASE ~(file # Garbled /\ Accepts(file, args[p]) /\ args[p].op # "show")
    <2>1. /\ pc' = [pc EXCEPT ![p] = "idle"]
          /\ pc[p] = "started"
          /\ UNCHANGED <<file, args, started, saved, cfg, raced>>
      BY <1>2 DEF Load, Ends
    <2>2. Writers' = Writers
      BY <2>1 DEF ProfilesTypeOK, Writers
    <2> QED  BY <2>1, <2>2 DEF ProfilesTypeOK, DefaultNamed, Unraced, Fresh
  <1> QED  BY <1>1, <1>2

LEMMA TruncateKeeps ==
  ASSUME ProfilesInv, NEW p \in Procs, Truncate(p)
  PROVE  ProfilesInv'
  <1> USE DEF ProfilesInv
  <1>1. /\ pc[p] = "loaded"
        /\ pc' = [pc EXCEPT ![p] = "writing"]
        /\ file' = EmptyConfig
        /\ raced' = raced \cup {q \in Procs \ {p} : pc[q] \in {"loaded", "writing"}}
        /\ UNCHANGED <<args, cfg, started, saved>>
    BY DEF Truncate
  <1>2. ProfilesTypeOK'
    BY <1>1, EmptyIsConfig DEF ProfilesTypeOK
  <1>3. DefaultNamed'
    BY <1>1, EmptyIsConfig DEF ProfilesTypeOK, DefaultNamed
  <1>4. Writers' = Writers \cup {p}
    BY <1>1 DEF ProfilesTypeOK, Writers
  <1>5. ASSUME NEW q \in Procs \ raced', pc'[q] \in {"loaded", "writing"}
        PROVE  q = p /\ q \notin raced
    BY <1>1, <1>5 DEF ProfilesTypeOK
  <1>6. p \notin raced => Writers = {} /\ Fresh(p)
    BY <1>1 DEF Unraced
  <1>7. Unraced'
    BY <1>1, <1>4, <1>5, <1>6 DEF ProfilesTypeOK, Unraced, Fresh
  <1> QED  BY <1>2, <1>3, <1>7

\* A process ends its command; what it did to the file, if it was writing, is a
\* configuration or garbled.
LEMMA EndKeeps ==
  ASSUME ProfilesInv, NEW p \in Procs, Ends(p), Settle,
         pc[p] = "writing" \/ file' = file,
         file' = Garbled \/ (file' \in Config /\ Named(file')),
         UNCHANGED <<args, cfg, started, raced>>
  PROVE  ProfilesInv'
  <1> USE DEF ProfilesInv
  <1>1. pc' = [pc EXCEPT ![p] = "idle"]
    BY DEF Ends
  <1>2. Writers' = Writers \ {p}
    BY <1>1 DEF ProfilesTypeOK, Writers
  <1>3. saved' = IF Writers' # {} THEN saved ELSE file'
    BY DEF Settle, Writers
  <1>4. ProfilesTypeOK'
    BY <1>1, <1>3 DEF ProfilesTypeOK
  <1>5. DefaultNamed'
    BY <1>1 DEF ProfilesTypeOK, DefaultNamed
  <1>6. ASSUME NEW q \in Procs \ raced, pc'[q] \in {"loaded", "writing"}
        PROVE  /\ q # p /\ pc'[q] = pc[q]
               /\ UNCHANGED <<file, saved>>
    <2>1. q # p /\ pc'[q] = pc[q]
      BY <1>1, <1>6 DEF ProfilesTypeOK
    <2>2. Writers \in {{}, {q}}
      BY <1>6, <2>1 DEF Unraced
    <2>3. file' = file
      BY <2>1, <2>2 DEF Writers
    <2>4. saved' = saved
      BY <1>2, <1>3, <2>1, <2>2, <2>3 DEF Unraced
    <2> QED  BY <2>1, <2>3, <2>4
  <1>7. Unraced'
    <2>1. Writers' = {} => saved' = file'
      BY <1>3
    <2>2. ASSUME NEW q \in Procs \ raced, pc'[q] = "loaded"
          PROVE  Writers' = {} /\ Fresh(q)'
      BY <1>2, <1>6, <2>2 DEF Unraced, Fresh
    <2>3. ASSUME NEW q \in Procs \ raced, pc'[q] = "writing"
          PROVE  Writers' = {q} /\ file' = EmptyConfig /\ Fresh(q)'
      BY <1>2, <1>6, <2>3 DEF Unraced, Fresh
    <2> QED  BY <2>1, <2>2, <2>3 DEF Unraced
  <1> QED  BY <1>4, <1>5, <1>7

LEMMA WriteKeeps ==
  ASSUME ProfilesInv, NEW p \in Procs, Write(p)
  PROVE  ProfilesInv'
  <1>1. cfg[p] \in Config /\ Named(cfg[p])
    BY DEF ProfilesInv, ProfilesTypeOK, DefaultNamed, Write
  <1>2. file' \in {cfg[p], Garbled} \/ (file # Garbled /\ file' = WithTail(cfg[p], file))
    BY DEF Write
  <1>3. file # Garbled => WithTail(cfg[p], file) \in Config /\ Named(WithTail(cfg[p], file))
    BY <1>1, TailNamed DEF ProfilesInv, ProfilesTypeOK
  <1>4. file' = Garbled \/ (file' \in Config /\ Named(file'))
    BY <1>1, <1>2, <1>3
  <1> QED  BY <1>4, EndKeeps DEF Write

LEMMA CutShortKeeps ==
  ASSUME ProfilesInv, NEW p \in Procs, WriteFails(p) \/ Crash(p)
  PROVE  ProfilesInv'
  <1>1. file' = Garbled \/ (file' \in Config /\ Named(file'))
    BY DEF WriteFails, Crash, ProfilesInv, ProfilesTypeOK, DefaultNamed
  <1> QED  BY <1>1, EndKeeps DEF WriteFails, Crash

LEMMA NextKeeps == ProfilesInv /\ [Next]_profileVars => ProfilesInv'
  <1> SUFFICES ASSUME ProfilesInv, [Next]_profileVars PROVE ProfilesInv'
    OBVIOUS
  <1>1. ASSUME NEW p \in Procs, Step(p) PROVE ProfilesInv'
    BY <1>1, StartKeeps, LoadKeeps, TruncateKeeps, WriteKeeps, CutShortKeeps DEF Step
  <1>2. CASE UNCHANGED profileVars
    BY <1>2 DEF profileVars, ProfilesInv, ProfilesTypeOK, DefaultNamed, Unraced, Fresh, Writers
  <1> QED  BY <1>1, <1>2 DEF Next

\* However `pgx profiles` commands overlap, fail and are killed, the default of
\* ~/.pgx/config.toml names a profile there is, in the file and in what a command
\* is about to write.
THEOREM ProfilesInvariant == Spec => []ProfilesInv
  BY InitHolds, NextKeeps, PTL DEF Spec

THEOREM DefaultIsNamed == Spec => []DefaultNamed
  <1>1. ProfilesInv => DefaultNamed
    BY DEF ProfilesInv
  <1> QED  BY <1>1, ProfilesInvariant, PTL
-----------------------------------------------------------------------------
(* The registry *)

LEMMA AddActs ==
  ASSUME NEW a \in Commands, a.op = "add", Accepts(saved, a), saved' = Result(saved, a)
  PROVE  Registry!Step
  <1>1. a.name \in Names /\ a.url \in Urls
    BY CommandParts
  <1>2. saved' = cmd_add(saved, a)
    BY DEF Result
  <1>3. Registry!Add(a.name, a.url, a.default = "true")
    BY <1>2 DEF Accepts, cmd_add, With, Registry!Add, Registry!Profiles
  <1>4. (a.default = "true") \in BOOLEAN
    OBVIOUS
  <1> QED  BY <1>1, <1>3, <1>4 DEF Registry!Step

LEMMA EditActs ==
  ASSUME NEW a \in Commands, a.op = "edit", saved \in Config, Accepts(saved, a),
         saved' = Result(saved, a)
  PROVE  Registry!Step
  <1> DEFINE n == a.name
             old == saved.connections[n]
             new == [old EXCEPT !.url = IF a.url = NoUrl THEN old.url ELSE a.url]
             d == CASE a.default = "true" -> n
                    [] a.default = "false" /\ saved.default = n -> NoName
                    [] OTHER -> saved.default
  <1>1. n \in Names /\ n \in DOMAIN saved.connections
    BY CommandParts DEF Accepts
  <1>2. saved' = [default |-> d, connections |-> With(saved.connections, n, new)]
    BY DEF Result, cmd_edit
  <1>3. old \in Connection
    BY <1>1, ConfigParts
  <1>4. new.sections = old.sections
    BY <1>3 DEF Connection
  <1>5. d \in {saved.default, n, NoName} /\ (d = NoName => saved.default \in {n, NoName} \/ n = NoName)
    OBVIOUS
  <1>6. Registry!Edit(n)
    <2> HIDE DEF new, d
    <2>1. saved'.default = d /\ saved'.connections = With(saved.connections, n, new)
      BY <1>2
    <2>2. /\ DOMAIN saved'.connections = DOMAIN saved.connections
          /\ saved'.connections[n] = new
          /\ \A k \in DOMAIN saved.connections \ {n} :
               saved'.connections[k] = saved.connections[k]
      BY <1>1, <2>1 DEF With
    <2> QED  BY <1>1, <1>4, <1>5, <2>1, <2>2, ProfilesAssumption
             DEF Registry!Edit, Registry!Profiles
  <1> QED  BY <1>1, <1>6 DEF Registry!Step

LEMMA DeleteActs ==
  ASSUME NEW a \in Commands, a.op = "delete", Accepts(saved, a), saved' = Result(saved, a)
  PROVE  Registry!Step
  <1>1. a.name \in Names /\ a.name \in DOMAIN saved.connections
    BY CommandParts DEF Accepts
  <1>2. saved' = cmd_delete(saved, a)
    BY DEF Result
  <1>3. Registry!Delete(a.name)
    BY <1>1, <1>2 DEF cmd_delete, Without, Registry!Delete, Registry!Profiles
  <1> QED  BY <1>1, <1>3 DEF Registry!Step

LEMMA UnracedWriteActs ==
  ASSUME ProfilesInv, NEW p \in Procs, Write(p), p \notin raced
  PROVE  Registry!Step
  <1>1. Writers = {p} /\ file = EmptyConfig /\ Fresh(p) /\ pc[p] = "writing"
    BY DEF ProfilesInv, Unraced, Write
  <1>2. file' = cfg[p]
    BY <1>1, EmptyIsConfig, ProfilesAssumption DEF Write
  <1>3. \A q \in Procs : pc'[q] # "writing"
    BY <1>1 DEF Write, Ends, Writers, ProfilesInv, ProfilesTypeOK
  <1>4. saved' = Result(saved, args[p])
    BY <1>1, <1>2, <1>3 DEF Write, Settle, Fresh
  <1>5. /\ args[p] \in Commands
        /\ args[p].op \in {"add", "edit", "delete"}
        /\ Accepts(saved, args[p])
        /\ saved \in Config
    BY <1>1, CommandParts DEF Fresh, ProfilesInv, ProfilesTypeOK
  <1> QED  BY <1>4, <1>5, AddActs, EditActs, DeleteActs

\* A command that no other command raced changes the registry of profiles as
\* `pgx profiles add`, `edit` and `delete` promise, and nothing else in it.
THEOREM UnracedActsAsRegistry == Spec => ActsAsRegistry
  <1>1. ProfilesInv /\ [Next]_profileVars =>
          [\A p \in Procs : (Write(p) /\ p \notin raced) => Registry!Step]_profileVars
    BY UnracedWriteActs
  <1> QED  BY <1>1, ProfilesInvariant, PTL DEF Spec, ActsAsRegistry

-----------------------------------------------------------------------------
(* Beside pipelines *)

\* Pipelines leave the file and the profiles commands alone.
THEOREM PgxImplementsProfiles == PgxSpec => Spec
  <1>1. PgxInit => Init
    BY DEF PgxInit
  <1>2. [PgxNext]_pgxVars => [Next]_profileVars
    BY DEF PgxNext, RunStep, Invoke, Configure, Open, OpenFails, pgxVars
  <1> QED  BY <1>1, <1>2, PTL DEF PgxSpec, Spec

\* Beside pipelines too, the default of the configuration file is a profile there is.
THEOREM PgxDefaultNamed == PgxSpec => []DefaultNamed
  BY PgxImplementsProfiles, DefaultIsNamed, PTL

-----------------------------------------------------------------------------
PgxTypeOK ==
    /\ stage \in [Runs -> {"new", "resolved", "opening", "running", "ended"}]
    /\ target = [r \in Runs |-> target[r]]

LEMMA PgxTyped == PgxSpec => []PgxTypeOK
  <1>1. PgxInit => PgxTypeOK
    BY DEF PgxInit, PgxTypeOK
  <1>2. PgxTypeOK /\ [PgxNext]_pgxVars => PgxTypeOK'
    <2> SUFFICES ASSUME PgxTypeOK, [PgxNext]_pgxVars PROVE PgxTypeOK'
      OBVIOUS
    <2>1. ASSUME NEW r \in Runs, Invoke(r) PROVE PgxTypeOK'
      BY <2>1 DEF Invoke, Ended, PgxTypeOK
    <2>2. ASSUME NEW r \in Runs, Configure(r) \/ Open(r) \/ OpenFails(r) PROVE PgxTypeOK'
      BY <2>2 DEF Configure, Open, OpenFails, Ended, PgxTypeOK
    <2>3. CASE UNCHANGED runVars
      BY <2>3 DEF runVars, PgxTypeOK
    <2> QED  BY <2>1, <2>2, <2>3 DEF PgxNext, RunStep, pgxVars
  <1> QED  BY <1>1, <1>2, PTL DEF PgxSpec

\* What the step of a run that resolves its connection sets.
LEMMA OnlyInvokeResolves ==
  ASSUME PgxTypeOK, [PgxNext]_pgxVars, NEW r \in Runs, stage[r] = "new", stage'[r] = "resolved"
  PROVE  Invoke(r)
  <1>1. ASSUME NEW q \in Runs, Invoke(q) PROVE q = r
    BY <1>1 DEF Invoke, Ended, PgxTypeOK
  <1>2. ASSUME NEW q \in Runs, Configure(q) \/ Open(q) \/ OpenFails(q) PROVE FALSE
    BY <1>2 DEF Configure, Open, OpenFails, Ended, PgxTypeOK
  <1>3. ~UNCHANGED runVars
    BY DEF runVars
  <1> QED  BY <1>1, <1>2, <1>3 DEF PgxNext, RunStep, pgxVars

LEMMA InvokeConnects ==
  ASSUME PgxTypeOK, NEW r \in Runs, Invoke(r), stage'[r] = "resolved"
  PROVE  LET t == target'[r]
         IN  \/ asked.url = t.url /\ t.url # NoUrl /\ t.section = NoSection
             \/ /\ asked.url = NoUrl
                /\ \E c \in Known :
                     /\ t.name = IF asked.conn = NoName THEN c.default ELSE asked.conn
                     /\ t.name \in DOMAIN c.connections
                     /\ c.connections[t.name].url = t.url
                     /\ c.connections[t.name].sections[asked.op] = t.section
  <1>1. file # Garbled /\ Found(file) /\ target' = [target EXCEPT ![r] = Resolved(file)]
    BY DEF Invoke, Ended, PgxTypeOK
  <1>2. target'[r] = Resolved(file)
    BY <1>1 DEF PgxTypeOK
  <1>3. CASE asked.url # NoUrl
    BY <1>2, <1>3 DEF Resolved
  <1>4. CASE asked.url = NoUrl
    <2> DEFINE n == Chosen(file)
    <2>1. file \in Known
      BY <1>1 DEF Known
    <2>2. n = IF asked.conn = NoName THEN file.default ELSE asked.conn
      BY DEF Chosen
    <2>3. n \in DOMAIN file.connections
      BY <1>1, <1>4 DEF Found
    <2>4. /\ target'[r].name = n
          /\ target'[r].url = file.connections[n].url
          /\ target'[r].section = file.connections[n].sections[asked.op]
      <3> HIDE DEF n
      <3> QED  BY <1>2, <1>4 DEF Resolved, n
    <2> HIDE DEF n
    <2> QED  BY <1>4, <2>1, <2>2, <2>3, <2>4
  <1> QED  BY <1>3, <1>4

\* A pipeline takes its connection and its settings from one whole content of the
\* file, or from the URL typed and no profile, however the profiles commands race.
THEOREM PgxConnectsAsTold == PgxSpec => ConnectsAsTold
  <1>1. PgxTypeOK /\ [PgxNext]_pgxVars =>
          [\A r \in Runs : stage'[r] = "resolved" /\ stage[r] = "new" =>
             LET t == target'[r]
             IN  \/ asked.url = t.url /\ t.url # NoUrl /\ t.section = NoSection
                 \/ /\ asked.url = NoUrl
                    /\ \E c \in Known :
                         /\ t.name = IF asked.conn = NoName THEN c.default ELSE asked.conn
                         /\ t.name \in DOMAIN c.connections
                         /\ c.connections[t.name].url = t.url
                         /\ c.connections[t.name].sections[asked.op] = t.section]_pgxVars
    BY OnlyInvokeResolves, InvokeConnects
  <1> QED  BY <1>1, PgxTyped, PTL DEF PgxSpec, ConnectsAsTold
-----------------------------------------------------------------------------
(* Where the settings of a run come from *)

\* What the operators of Settings are given: a command as clap and the merge leave
\* it, and a section of a profile.
Merged(c) == /\ c \in CommandLine
             /\ c.kind \in Kinds(c.op)
             /\ ClapRequired(c.op) \subseteq c.given

Rules == {"filters", "drop_cols", "rename"}

\* The options of a command that the merge treats in a way of their own.
LEMMA OptionFacts ==
  ASSUME NEW c, Merged(c)
  PROVE  /\ "channel_full_behavior" \in Options(c) =>
              "channel_full_behavior" \in ClapDefault(c.op)
         /\ "channel_full_behavior" \notin Rules \cup ClapRequired(c.op)
         /\ Rules \cap ClapDefault(c.op) = {} /\ Rules \cap ClapRequired(c.op) = {}
         /\ ClapRequired(c.op) \cap ClapDefault(c.op) = {}
  <1>1. c.op \in {"replicate", "listen", "consume"} /\ c.kind \in Kinds(c.op)
    BY DEF Merged, CommandLine, Pipelines
  <1>2. CASE c.op = "replicate"
    <2>1. "channel_full_behavior" \notin General(c.op)
      BY <1>2 DEF General, Reconnect, ReplicateOptions
    <2>2. "channel_full_behavior" \notin SinkOptions(c.op, c.kind)
      BY <1>1, <1>2 DEF SinkOptions, ReplicateSinkOptions, Kinds, Amqp
    <2> QED
      BY <1>2, <2>1, <2>2 DEF Options, Rules, ClapDefault, ClapRequired, Amqp
  <1>3. CASE c.op = "listen"
    BY <1>3 DEF Rules, ClapDefault, ClapRequired, Amqp
  <1>4. CASE c.op = "consume"
    <2>1. "channel_full_behavior" \notin General(c.op)
      BY <1>4 DEF General, Reconnect, ConsumeOptions
    <2>2. "channel_full_behavior" \notin SinkOptions(c.op, c.kind)
      BY <1>1, <1>4 DEF SinkOptions, ConsumeSinkOptions, Kinds
    <2>3. "channel_full_behavior" \notin SourceOptions(c.source)
      BY DEF SourceOptions, Amqp
    <2> QED
      BY <1>4, <2>1, <2>2, <2>3 DEF Options, Rules, ClapDefault, ClapRequired, Reconnect
  <1> QED  BY <1>1, <1>2, <1>3, <1>4

\* What a sink cannot do without is an option of the command, and has no default.
LEMMA RequiredFacts ==
  ASSUME NEW c, Merged(c), NEW o \in Required(c.op, c.kind)
  PROVE  /\ o \in Options(c)
         /\ o \notin ClapDefault(c.op) \cup LateDefault(c.op) \cup Rules
  <1>1. c.op \in {"replicate", "listen", "consume"} /\ c.kind \in Kinds(c.op)
    BY DEF Merged, CommandLine, Pipelines
  <1>2. CASE c.op = "replicate"
    <2>1. o \in SinkOptions(c.op, c.kind)
      BY <1>1, <1>2 DEF Required, SinkOptions, ReplicateSinkOptions, Kinds
    <2>2. o \in {"command", "url", "target_url"}
      BY <1>1, <1>2 DEF Required, Kinds
    <2> QED
      BY <1>2, <2>1, <2>2 DEF Options, ClapDefault, LateDefault, Reconnect, Rules, Amqp
  <1>3. CASE c.op = "listen"
    <2>1. o \in SinkOptions(c.op, c.kind)
      BY <1>1, <1>3 DEF Required, SinkOptions, ListenSinkOptions, ReplicateSinkOptions, Kinds
    <2>2. o \in {"command", "url"}
      BY <1>1, <1>3 DEF Required, Kinds
    <2> QED
      BY <1>3, <2>1, <2>2 DEF Options, ClapDefault, LateDefault, Reconnect, Rules, Amqp
  <1>4. CASE c.op = "consume"
    <2>1. o \in SinkOptions(c.op, c.kind)
      BY <1>1, <1>4 DEF Required, SinkOptions, ConsumeSinkOptions, Kinds
    <2>2. o = "webhook_url"
      BY <1>1, <1>4 DEF Required, Kinds
    <2> QED
      BY <1>4, <2>1, <2>2 DEF Options, ClapDefault, LateDefault, Reconnect, Rules
  <1> QED  BY <1>1, <1>2, <1>3, <1>4

\* The typed word: only channel_full_behavior can be typed and not count as typed.
LEMMA TypedFacts ==
  ASSUME NEW c, Merged(c), NEW o \in Options(c)
  PROVE  /\ Typed(c, o) \in {"cli", "default", "none"}
         /\ Typed(c, o) = "cli" => o \in c.given
         /\ Typed(c, o) = "default" => o \in ClapDefault(c.op) /\ (o \notin c.given \/ c.usual)
         /\ Typed(c, o) = "none" => o \notin ClapDefault(c.op) /\ o \notin c.given
         /\ Typed(c, o) # "cli" /\ o \in c.given => o = "channel_full_behavior"
  <1>1. c.usual \in BOOLEAN
    BY DEF Merged, CommandLine
  <1>2. o = "channel_full_behavior" => o \in ClapDefault(c.op)
    BY OptionFacts
  <1>3. CASE o \in c.given /\ ~(c.usual /\ o = "channel_full_behavior")
    BY <1>3 DEF Typed
  <1>4. CASE ~(o \in c.given /\ ~(c.usual /\ o = "channel_full_behavior"))
    BY <1>1, <1>2, <1>4, Zenon DEF Typed
  <1> QED  BY <1>3, <1>4

\* Each setting is somebody's word.
LEMMA SettingFacts ==
  ASSUME NEW c, Merged(c), NEW s, s \in Section, NEW o \in Options(c),
         NEW v, v = Late(c, Merge(c, s, o), o)
  PROVE  /\ v \in {"cli", "cfg", "both", "default", "none"}
         /\ v = "cli" => o \in c.given
         /\ v \in {"cfg", "both"} => o \in s.sets \ s.invalid /\ Applies(c, s, o)
         /\ v = "cfg" => o \notin ClapRequired(c.op)
         /\ v = "cfg" /\ o \in c.given => o \in ClapDefault(c.op)
         /\ v = "both" => o \in c.given /\ o \in Rules
         /\ v = "default" => o \in ClapDefault(c.op) \cup LateDefault(c.op)
         /\ v = "default" => o \notin c.given \/ c.usual
         /\ v = "none" => o \notin c.given
  <1> DEFINE t == Typed(c, o)
             f == Configured(c, s, o)
             m == Merge(c, s, o)
  <1>1. /\ t \in {"cli", "default", "none"}
        /\ t = "cli" => o \in c.given
        /\ t = "default" => o \in ClapDefault(c.op) /\ (o \notin c.given \/ c.usual)
        /\ t = "none" => o \notin ClapDefault(c.op) /\ o \notin c.given
        /\ t # "cli" /\ o \in c.given => o = "channel_full_behavior"
    BY TypedFacts
  <1>2. /\ f \in {"cfg", "none"}
        /\ f = "cfg" => o \in s.sets \ s.invalid /\ Applies(c, s, o)
    BY DEF Configured
  <1>3. /\ o = "channel_full_behavior" => o \in ClapDefault(c.op) /\ o \notin Rules
        /\ o \in Rules => o \notin ClapDefault(c.op) /\ o \notin ClapRequired(c.op)
        /\ o \in ClapRequired(c.op) =>
             o \notin ClapDefault(c.op) /\ o \in c.given /\ o # "channel_full_behavior"
    BY OptionFacts DEF Merged
  <1>4. /\ o \in Rules => m = Join(t, f)
        /\ o = "channel_full_behavior" => m = ReplaceUsual(t, f)
        /\ o \notin Rules /\ o # "channel_full_behavior" /\ o \in ClapDefault(c.op)
             => m = Replace(t, f)
        /\ o \notin Rules /\ o # "channel_full_behavior" /\ o \notin ClapDefault(c.op)
             => m = FirstOf(t, f)
    BY <1>3 DEF Merge, Rules
  <1> HIDE DEF t, f, m
  <1>5. /\ m \in {"cli", "cfg", "both", "default", "none"}
        /\ m = "cli" => t = "cli"
        /\ m \in {"cfg", "both"} => f = "cfg"
        /\ m = "cfg" => t # "cli" \/ o \in ClapDefault(c.op)
        /\ m = "both" => t # "none" /\ o \in Rules
        /\ m = "default" => t = "default"
        /\ m = "none" => t = "none"
    <2>1. CASE o \in Rules
      BY <1>1, <1>2, <1>4, <2>1 DEF Join
    <2>2. CASE o = "channel_full_behavior"
      BY <1>1, <1>2, <1>3, <1>4, <2>2 DEF ReplaceUsual, Replace
    <2>3. CASE o \notin Rules /\ o # "channel_full_behavior" /\ o \in ClapDefault(c.op)
      BY <1>1, <1>2, <1>4, <2>3 DEF Replace
    <2>4. CASE o \notin Rules /\ o # "channel_full_behavior" /\ o \notin ClapDefault(c.op)
      BY <1>1, <1>2, <1>4, <2>4 DEF FirstOf
    <2> QED  BY <2>1, <2>2, <2>3, <2>4
  <1>6. \/ v = m
        \/ m = "none" /\ v = "default" /\ o \in LateDefault(c.op)
    BY DEF Late, m
  <1>7. m = "both" => t = "cli"
    BY <1>1, <1>3, <1>5
  <1>8. m = "cfg" /\ o \in c.given => o \in ClapDefault(c.op)
    BY <1>1, <1>3, <1>5
  <1>9. m = "cfg" => o \notin ClapRequired(c.op)
    BY <1>3, <1>8
  <1> QED  BY <1>1, <1>2, <1>5, <1>6, <1>7, <1>8, <1>9
-----------------------------------------------------------------------------
(* The sinks of a run *)

Built == {BuiltAs(kind) : kind \in SinkKind}

LEMMA BuiltMap ==
  ASSUME NEW es \in Seq(ExtraSink)
  PROVE  LET b == [k \in DOMAIN es |-> BuiltAs(es[k].kind)]
         IN  /\ b \in Seq(Built) /\ Len(b) = Len(es) /\ Len(es) \in Nat
             /\ \A k \in 1 .. Len(es) : b[k] = BuiltAs(es[k].kind)
  <1>1. Len(es) \in Nat /\ DOMAIN es = 1 .. Len(es)
    OBVIOUS
  <1>2. \A k \in DOMAIN es : es[k].kind \in SinkKind
    <2>1. \A k \in DOMAIN es : es[k] \in ExtraSink
      BY <1>1
    <2> QED  BY <2>1 DEF ExtraSink
  <1>3. \A k \in DOMAIN es : BuiltAs(es[k].kind) \in Built
    BY <1>2 DEF Built
  <1>4. [k \in DOMAIN es |-> BuiltAs(es[k].kind)] \in [1 .. Len(es) -> Built]
    BY <1>1, <1>3
  <1> QED  BY <1>1, <1>4

\* Element k of three sequences one after the other.
LEMMA ThreeParts ==
  ASSUME NEW S, NEW e \in S, NEW a \in Seq(S), NEW b \in Seq(S)
  PROVE  LET w == <<e>> \o a \o b
         IN  /\ w \in Seq(S) /\ Len(w) = 1 + Len(a) + Len(b)
             /\ Len(a) \in Nat /\ Len(b) \in Nat
             /\ w[1] = e
             /\ \A k \in 1 .. Len(a) : w[1 + k] = a[k]
             /\ \A k \in 1 .. Len(b) : w[1 + Len(a) + k] = b[k]
  <1> DEFINE h == <<e>> \o a
  <1>1. <<e>> \in Seq(S) /\ Len(<<e>>) = 1 /\ <<e>>[1] = e
    OBVIOUS
  <1>2. /\ h \in Seq(S) /\ Len(h) = 1 + Len(a) /\ h[1] = e
        /\ \A k \in 1 .. Len(a) : h[1 + k] = a[k]
    <2>1. h \in Seq(S) /\ Len(h) = 1 + Len(a) /\ h[1] = e
      OBVIOUS
    <2>2. \A k \in 1 .. Len(a) : h[1 + k] = a[k]
      OBVIOUS
    <2> QED  BY <2>1, <2>2
  <1> HIDE DEF h
  <1>3. /\ h \o b \in Seq(S) /\ Len(h \o b) = Len(h) + Len(b)
        /\ Len(a) \in Nat /\ Len(b) \in Nat
        /\ \A k \in 1 .. Len(h) : (h \o b)[k] = h[k]
        /\ \A k \in 1 .. Len(b) : (h \o b)[Len(h) + k] = b[k]
    <2>1. /\ h \o b \in Seq(S) /\ Len(h \o b) = Len(h) + Len(b)
          /\ Len(a) \in Nat /\ Len(b) \in Nat /\ Len(h) \in Nat
          /\ \A k \in 1 .. Len(h) : (h \o b)[k] = h[k]
          /\ \A k \in 1 .. Len(h) + Len(b) : k > Len(h) => (h \o b)[k] = b[k - Len(h)]
      <3>1. \A x, y \in Seq(S) :
              /\ x \o y \in Seq(S) /\ Len(x \o y) = Len(x) + Len(y)
              /\ Len(x) \in Nat
              /\ \A k \in 1 .. Len(x) : (x \o y)[k] = x[k]
              /\ \A k \in 1 .. Len(x) + Len(y) : k > Len(x) => (x \o y)[k] = y[k - Len(x)]
        OBVIOUS
      <3>2. h \in Seq(S)
        BY <1>2
      <3> QED  BY <3>1, <3>2
    <2>2. ASSUME NEW k \in 1 .. Len(b) PROVE (h \o b)[Len(h) + k] = b[k]
      <3>1. Len(h) + k \in 1 .. Len(h) + Len(b) /\ Len(h) + k > Len(h) /\ (Len(h) + k) - Len(h) = k
        BY <2>1
      <3> QED  BY <2>1, <3>1
    <2> QED  BY <2>1, <2>2
  <1>4. (h \o b)[1] = e
    BY <1>2, <1>3
  <1>5. \A k \in 1 .. Len(a) : (h \o b)[1 + k] = a[k]
    <2> SUFFICES ASSUME NEW k \in 1 .. Len(a) PROVE (h \o b)[1 + k] = a[k]
      OBVIOUS
    <2>1. 1 + k \in 1 .. Len(h)
      BY <1>2, <1>3
    <2> QED  BY <1>2, <1>3, <2>1
  <1> QED  BY <1>2, <1>3, <1>4, <1>5 DEF h

\* What is built from the primary sink and two sequences of extras.
LEMMA PartsBuilt ==
  ASSUME NEW kind \in SinkKind, NEW typed \in Seq(ExtraSink), NEW conf \in Seq(ExtraSink)
  PROVE  LET built(x) == [k \in DOMAIN x |-> BuiltAs(x[k].kind)]
             w  == <<BuiltAs(kind)>> \o built(typed) \o built(conf)
             es == <<[kind |-> kind]>> \o typed \o conf
         IN  /\ w \in Seq(Built)
             /\ Len(w) = 1 + Len(typed) + Len(conf)
             /\ Len(w) \in Nat /\ Len(w) >= 1
             /\ \A k \in 1 .. Len(w) : w[k] = BuiltAs(es[k].kind)
  <1> DEFINE bc == [k \in DOMAIN typed |-> BuiltAs(typed[k].kind)]
             bs == [k \in DOMAIN conf |-> BuiltAs(conf[k].kind)]
             es == <<[kind |-> kind]>> \o typed \o conf
             w  == <<BuiltAs(kind)>> \o bc \o bs
             Sink == ExtraSink \cup {[kind |-> kind]}
  <1>2. /\ bc \in Seq(Built) /\ Len(bc) = Len(typed) /\ Len(typed) \in Nat
        /\ \A k \in 1 .. Len(typed) : bc[k] = BuiltAs(typed[k].kind)
    BY BuiltMap
  <1>3. /\ bs \in Seq(Built) /\ Len(bs) = Len(conf) /\ Len(conf) \in Nat
        /\ \A k \in 1 .. Len(conf) : bs[k] = BuiltAs(conf[k].kind)
    BY BuiltMap
  <1>5. BuiltAs(kind) \in Built
    BY DEF Built
  <1> HIDE DEF bc, bs
  <1>6. /\ w \in Seq(Built) /\ Len(w) = 1 + Len(bc) + Len(bs)
        /\ w[1] = BuiltAs(kind)
        /\ \A k \in 1 .. Len(bc) : w[1 + k] = bc[k]
        /\ \A k \in 1 .. Len(bs) : w[1 + Len(bc) + k] = bs[k]
    <2>1. \A e \in Built : \A x, y \in Seq(Built) :
            /\ <<e>> \o x \o y \in Seq(Built) /\ Len(<<e>> \o x \o y) = 1 + Len(x) + Len(y)
            /\ (<<e>> \o x \o y)[1] = e
            /\ \A k \in 1 .. Len(x) : (<<e>> \o x \o y)[1 + k] = x[k]
            /\ \A k \in 1 .. Len(y) : (<<e>> \o x \o y)[1 + Len(x) + k] = y[k]
      BY ThreeParts
    <2> DEFINE e == BuiltAs(kind)
    <2> HIDE DEF e
    <2>2. e \in Built
      BY <1>5 DEF e
    <2>3. /\ <<e>> \o bc \o bs \in Seq(Built)
          /\ Len(<<e>> \o bc \o bs) = 1 + Len(bc) + Len(bs)
          /\ (<<e>> \o bc \o bs)[1] = e
          /\ \A k \in 1 .. Len(bc) : (<<e>> \o bc \o bs)[1 + k] = bc[k]
          /\ \A k \in 1 .. Len(bs) : (<<e>> \o bc \o bs)[1 + Len(bc) + k] = bs[k]
      <3>1. bc \in Seq(Built) /\ bs \in Seq(Built)
        BY <1>2, <1>3
      <3> QED  BY <2>1, <2>2, <3>1
    <2> QED  BY <2>3 DEF e
  <1>7. typed \in Seq(Sink) /\ conf \in Seq(Sink) /\ [kind |-> kind] \in Sink
    OBVIOUS
  <1> HIDE DEF Sink
  <1>8. /\ es[1] = [kind |-> kind]
        /\ \A k \in 1 .. Len(typed) : es[1 + k] = typed[k]
        /\ \A k \in 1 .. Len(conf) : es[1 + Len(typed) + k] = conf[k]
    <2>1. \A e \in Sink : \A x, y \in Seq(Sink) :
            /\ (<<e>> \o x \o y)[1] = e
            /\ \A k \in 1 .. Len(x) : (<<e>> \o x \o y)[1 + k] = x[k]
            /\ \A k \in 1 .. Len(y) : (<<e>> \o x \o y)[1 + Len(x) + k] = y[k]
      BY ThreeParts
    <2> QED  BY <1>7, <2>1
  <1> HIDE DEF w, es
  <1>l. /\ Len(typed) \in Nat /\ Len(conf) \in Nat
        /\ Len(w) = (1 + Len(typed)) + Len(conf)
    BY <1>2, <1>3, <1>6
  <1>9. ASSUME NEW k \in 1 .. Len(w) PROVE w[k] = BuiltAs(es[k].kind)
    <2>1. CASE k = 1
      BY <1>6, <1>8, <2>1
    <2>2. CASE k > 1 /\ k <= 1 + Len(typed)
      <3>1. k - 1 \in 1 .. Len(typed) /\ 1 + (k - 1) = k
        BY <1>2, <2>2
      <3>2. w[1 + (k - 1)] = bc[k - 1] /\ es[1 + (k - 1)] = typed[k - 1]
        BY <1>2, <1>6, <1>8, <3>1
      <3>3. bc[k - 1] = BuiltAs(typed[k - 1].kind)
        BY <1>2, <3>1
      <3> QED  BY <3>1, <3>2, <3>3
    <2>3. CASE k > 1 + Len(typed)
      <3> DEFINE j == k - (1 + Len(typed))
      <3>1. j \in 1 .. Len(conf) /\ 1 + Len(typed) + j = k
        BY <1>l, <2>3
      <3>2. w[1 + Len(typed) + j] = bs[j] /\ es[1 + Len(typed) + j] = conf[j]
        <4> HIDE DEF j
        <4> QED  BY <1>2, <1>3, <1>6, <1>8, <3>1
      <3>3. bs[j] = BuiltAs(conf[j].kind)
        BY <1>3, <3>1
      <3> QED  BY <3>1, <3>2, <3>3
    <2> QED  BY <1>2, <2>1, <2>2, <2>3
  <1>10. Len(w) = 1 + Len(typed) + Len(conf) /\ Len(w) \in Nat /\ Len(w) >= 1
    BY <1>l
  <1> QED  BY <1>6, <1>9, <1>10 DEF w, es, bc, bs

\* Sinks builds them in the order typed before configured.
LEMMA SinksFacts ==
  ASSUME NEW c, Merged(c), NEW s, s \in Section
  PROVE  LET w  == Sinks(c, s)
             es == <<[kind |-> c.kind]>> \o c.extras \o s.extras
         IN  /\ w \in Seq(Built)
             /\ Len(w) = 1 + Len(c.extras) + Len(s.extras)
             /\ Len(w) \in Nat /\ Len(w) >= 1
             /\ \A k \in 1 .. Len(w) : w[k] = BuiltAs(es[k].kind)
  <1>1. c.extras \in Seq(ExtraSink) /\ s.extras \in Seq(ExtraSink) /\ c.kind \in SinkKind
    BY DEF Merged, CommandLine, Section
  <1> QED  BY <1>1, PartsBuilt, Zenon DEF Sinks

-----------------------------------------------------------------------------
(* Runs *)

SectionsOf(op) == {NoSection} \cup {s[op] : s \in Sections}

Opens(r) ==
    /\ stage[r] \in {"new", "resolved"} => opened[r] = <<>>
    /\ stage[r] \in {"opening", "running"} =>
         /\ ~Refused(Command(r), target[r].section)
         /\ opened[r] \in Seq(Built)
         /\ Len(opened[r]) <= Len(Wanted(r))
         /\ \A k \in 1 .. Len(opened[r]) : opened[r][k] = Wanted(r)[k]
         /\ stage[r] = "opening" => Len(opened[r]) < Len(Wanted(r))
         /\ stage[r] = "running" => Len(opened[r]) = Len(Wanted(r))

RunsInv ==
    /\ PgxTypeOK
    /\ opened = [r \in Runs |-> opened[r]]
    /\ \E case \in Cases : asked = case[2]
    /\ \A r \in Runs : target[r].section \in SectionsOf(asked.op)
    /\ \A r \in Runs : Opens(r)

\* What a run merges is a command and a section as Settings expects them.
LEMMA CommandFacts ==
  ASSUME NEW r \in Runs, \E case \in Cases : asked = case[2],
         target[r].section \in SectionsOf(asked.op)
  PROVE  /\ Merged(Command(r)) /\ target[r].section \in Section
         /\ Command(r).op = asked.op
         /\ \/ Command(r).kind = asked.kind
            \/ asked.op = "consume" /\ Command(r).kind = target[r].section.kind
  <1> DEFINE s == target[r].section
  <1>1. /\ asked \in CommandLine /\ asked.kind \in Kinds(asked.op)
        /\ ClapRequired(asked.op) \subseteq asked.given /\ asked.op \in Pipelines
    BY PgxAssumption DEF CommandLine
  <1>2. /\ s \in Section
        /\ asked.op = "consume" /\ s # NoSection => s.kind \in Kinds("consume")
    <2>1. CASE s = NoSection
      <3>1. <<>> \in Seq(ExtraSink) /\ "none" \in SinkKind /\ "none" \in Source
        BY DEF SinkKind, SectionKinds, Source, Pipelines
      <3> QED  BY <2>1, <3>1 DEF NoSection, Section
    <2>2. ASSUME NEW x \in Sections, s = x[asked.op]
          PROVE  /\ s \in Section
                 /\ asked.op = "consume" /\ s # NoSection => s.kind \in Kinds("consume")
      <3>1. x \in [Pipelines -> Section] /\ x[asked.op].kind \in SectionKinds(asked.op)
            /\ (x["consume"] # NoSection => x["consume"].kind # "none")
        BY <1>1, PgxAssumption
      <3>2. SectionKinds("consume") = {"none"} \cup Kinds("consume")
        BY DEF SectionKinds
      <3> QED  BY <1>1, <2>2, <3>1, <3>2
    <2> QED  BY <2>1, <2>2 DEF SectionsOf
  <1> HIDE DEF s
  <1>3. CASE asked.op = "consume" /\ s # NoSection
    <2>1. Command(r) = [asked EXCEPT !.kind = s.kind, !.source = s.source]
      BY <1>3 DEF Command, Settled, s
    <2>2. s.kind \in SinkKind /\ s.source \in Source
      BY <1>2 DEF Section
    <2>3. /\ Command(r) \in CommandLine /\ Command(r).kind = s.kind /\ Command(r).op = asked.op
          /\ Command(r).given = asked.given
      BY <1>1, <2>1, <2>2 DEF CommandLine
    <2> QED  BY <1>1, <1>2, <1>3, <2>3 DEF Merged, s
  <1>4. CASE ~(asked.op = "consume" /\ s # NoSection)
    <2>1. Command(r) = asked
      BY <1>4 DEF Command, Settled, s
    <2> QED  BY <1>1, <1>2, <2>1 DEF Merged, s
  <1> QED  BY <1>3, <1>4

LEMMA RunsInit == PgxInit => RunsInv
  <1> SUFFICES ASSUME PgxInit PROVE RunsInv
    OBVIOUS
  <1>1. PgxTypeOK /\ opened = [r \in Runs |-> opened[r]]
    BY DEF PgxInit, PgxTypeOK
  <1>2. \A r \in Runs : target[r].section = NoSection /\ stage[r] = "new" /\ opened[r] = <<>>
    BY DEF PgxInit
  <1> QED  BY <1>1, <1>2 DEF PgxInit, RunsInv, Opens, SectionsOf

\* A run finds its section in the file.
LEMMA InvokeKeeps ==
  ASSUME ProfilesInv, RunsInv, NEW r \in Runs, Invoke(r)
  PROVE  RunsInv'
  <1>1. /\ stage[r] = "new" /\ UNCHANGED <<asked, opened>> /\ PgxTypeOK
        /\ \A q \in Runs \ {r} : stage'[q] = stage[q] /\ target'[q] = target[q]
    BY DEF Invoke, Ended, RunsInv, PgxTypeOK
  <1>2. PgxTypeOK' /\ stage'[r] \in {"resolved", "ended"}
    BY DEF Invoke, Ended, RunsInv, PgxTypeOK
  <1>3. target'[r].section \in SectionsOf(asked.op)
    <2>1. CASE file # Garbled /\ Found(file)
      <3>1. target'[r] = Resolved(file)
        BY <1>1, <2>1 DEF Invoke, PgxTypeOK
      <3>2. CASE asked.url # NoUrl
        BY <3>1, <3>2 DEF Resolved, SectionsOf
      <3>3. CASE asked.url = NoUrl
        <4> DEFINE p == file.connections[Chosen(file)]
        <4>1. file \in Config /\ Chosen(file) \in DOMAIN file.connections
          BY <2>1, <3>3 DEF Found, ProfilesInv, ProfilesTypeOK
        <4>2. p \in Connection
          BY <4>1, ConfigParts
        <4>3. p.sections \in Sections
          BY <4>2 DEF Connection
        <4>4. target'[r].section = p.sections[asked.op]
          <5> HIDE DEF p
          <5>1. Resolved(file).section = p.sections[asked.op]
            BY <3>3 DEF Resolved, p
          <5> QED  BY <3>1, <5>1
        <4> HIDE DEF p
        <4> QED  BY <4>3, <4>4 DEF SectionsOf
      <3> QED  BY <3>2, <3>3
    <2>2. CASE ~(file # Garbled /\ Found(file))
      BY <2>2 DEF Invoke, RunsInv
    <2> QED  BY <2>1, <2>2
  <1>4. \A q \in Runs : target'[q].section \in SectionsOf(asked.op)
    BY <1>1, <1>3 DEF RunsInv
  <1>5. Opens(r)'
    BY <1>1, <1>2 DEF RunsInv, Opens
  <1>6. ASSUME NEW q \in Runs \ {r} PROVE Opens(q)'
    <2>1. Opens(q) /\ UNCHANGED <<stage[q], target[q], opened[q], asked>>
      BY <1>1 DEF RunsInv
    <2> QED  BY <2>1 DEF Opens, Command, Wanted
  <1>7. \A q \in Runs : Opens(q)'
    BY <1>5, <1>6
  <1>8. opened' = [q \in Runs |-> opened'[q]]
    BY <1>1 DEF RunsInv
  <1>9. \E case \in Cases : asked' = case[2]
    BY <1>1 DEF RunsInv
  <1> QED  BY <1>1, <1>2, <1>4, <1>7, <1>8, <1>9 DEF RunsInv

\* The steps of a run after it has its section.
LEMMA OthersKept ==
  ASSUME RunsInv, NEW r \in Runs, UNCHANGED <<asked, target>>,
         \A q \in Runs \ {r} : stage'[q] = stage[q] /\ opened'[q] = opened[q],
         PgxTypeOK', opened' = [q \in Runs |-> opened'[q]], Opens(r)'
  PROVE  RunsInv'
  <1>1. ASSUME NEW q \in Runs \ {r} PROVE Opens(q)'
    <2>1. Opens(q) /\ UNCHANGED <<stage[q], target[q], opened[q], asked>>
      BY DEF RunsInv
    <2> QED  BY <2>1 DEF Opens, Command, Wanted
  <1>2. \A q \in Runs : Opens(q)'
    BY <1>1
  <1>3. \A q \in Runs : target'[q].section \in SectionsOf(asked'.op)
    BY DEF RunsInv
  <1>4. \E case \in Cases : asked' = case[2]
    BY DEF RunsInv
  <1> QED  BY <1>2, <1>3, <1>4 DEF RunsInv

LEMMA OpenKeeps ==
  ASSUME RunsInv, NEW r \in Runs, Configure(r) \/ Open(r) \/ OpenFails(r)
  PROVE  RunsInv'
  <1>1. UNCHANGED <<asked, target>> /\ PgxTypeOK /\ opened = [q \in Runs |-> opened[q]]
    BY DEF Configure, Open, OpenFails, RunsInv
  <1>2. UNCHANGED <<Command(r), Wanted(r), target[r]>>
    BY <1>1 DEF Command, Wanted
  <1>3. /\ Wanted(r) \in Seq(Built) /\ Len(Wanted(r)) \in Nat /\ Len(Wanted(r)) >= 1
    <2>1. Merged(Command(r)) /\ target[r].section \in Section
      BY CommandFacts DEF RunsInv
    <2> QED  BY <2>1, SinksFacts DEF Wanted
  <1>4. Opens(r)
    BY DEF RunsInv
  <1>5. CASE Configure(r)
    <2>1. /\ stage[r] = "resolved" /\ opened' = opened
          /\ stage' = [stage EXCEPT ![r] = IF Refused(Command(r), target[r].section)
                                           THEN "ended" ELSE "opening"]
      BY <1>5 DEF Configure
    <2>2. /\ PgxTypeOK' /\ \A q \in Runs \ {r} : stage'[q] = stage[q] /\ opened'[q] = opened[q]
          /\ stage'[r] = IF Refused(Command(r), target[r].section) THEN "ended" ELSE "opening"
      BY <1>1, <2>1 DEF PgxTypeOK
    <2>3. opened'[r] = <<>> /\ Len(<<>>) = 0 /\ <<>> \in Seq(Built)
      BY <1>4, <2>1 DEF Opens
    <2>4. Opens(r)'
      BY <1>2, <1>3, <2>2, <2>3 DEF Opens
    <2> QED  BY <1>1, <2>1, <2>2, <2>4, OthersKept
  <1>6. CASE OpenFails(r)
    <2>1. /\ PgxTypeOK' /\ stage'[r] = "ended" /\ opened' = [opened EXCEPT ![r] = <<>>]
          /\ \A q \in Runs \ {r} : stage'[q] = stage[q] /\ opened'[q] = opened[q]
      BY <1>1, <1>6 DEF OpenFails, Ended, PgxTypeOK
    <2>2. opened' = [q \in Runs |-> opened'[q]]
      BY <1>1, <2>1
    <2> QED  BY <1>1, <2>1, <2>2, OthersKept DEF Opens
  <1>7. CASE Open(r)
    <2> DEFINE n == Len(opened[r]) + 1
               x == Append(opened[r], Wanted(r)[n])
    <2>1. /\ stage[r] = "opening"
          /\ opened' = [opened EXCEPT ![r] = x]
          /\ stage' = [stage EXCEPT ![r] = IF Len(opened'[r]) = Len(Wanted(r)) THEN "running" ELSE @]
      BY <1>7 DEF Open
    <2>2. /\ opened[r] \in Seq(Built) /\ Len(opened[r]) < Len(Wanted(r))
          /\ \A k \in 1 .. Len(opened[r]) : opened[r][k] = Wanted(r)[k]
          /\ ~Refused(Command(r), target[r].section)
      BY <1>4, <2>1 DEF Opens
    <2>3. n \in 1 .. Len(Wanted(r)) /\ Wanted(r)[n] \in Built
      BY <1>3, <2>2
    <2>4. /\ x \in Seq(Built) /\ Len(x) = n
          /\ \A k \in 1 .. n : x[k] = Wanted(r)[k]
      <3> HIDE DEF n
      <3>1. x \in Seq(Built) /\ Len(x) = Len(opened[r]) + 1 /\ x[Len(opened[r]) + 1] = Wanted(r)[n]
            /\ \A k \in 1 .. Len(opened[r]) : x[k] = opened[r][k]
        BY <2>2, <2>3
      <3> QED  BY <2>2, <3>1 DEF n
    <2> HIDE DEF x, n
    <2>5. /\ opened'[r] = x /\ opened' = [q \in Runs |-> opened'[q]]
          /\ \A q \in Runs \ {r} : opened'[q] = opened[q]
      BY <1>1, <2>1
    <2>6. /\ PgxTypeOK' /\ \A q \in Runs \ {r} : stage'[q] = stage[q]
          /\ stage'[r] = IF n = Len(Wanted(r)) THEN "running" ELSE "opening"
      <3>1. \A q \in Runs \ {r} : stage'[q] = stage[q]
        BY <1>1, <2>1 DEF PgxTypeOK
      <3>2. stage'[r] = IF n = Len(Wanted(r)) THEN "running" ELSE "opening"
        BY <1>1, <2>1, <2>4, <2>5 DEF PgxTypeOK
      <3>3. PgxTypeOK'
        BY <1>1, <2>1 DEF PgxTypeOK
      <3> QED  BY <3>1, <3>2, <3>3
    <2>7. n <= Len(Wanted(r)) /\ (n # Len(Wanted(r)) => n < Len(Wanted(r)))
      BY <1>3, <2>3
    <2>8. Opens(r)'
      BY <1>2, <2>2, <2>4, <2>5, <2>6, <2>7 DEF Opens
    <2> QED  BY <1>1, <2>5, <2>6, <2>8, OthersKept
  <1> QED  BY <1>5, <1>6, <1>7

THEOREM RunsInvariant == PgxSpec => []RunsInv
  <1>1. ProfilesInv /\ RunsInv /\ [PgxNext]_pgxVars => RunsInv'
    <2> SUFFICES ASSUME ProfilesInv, RunsInv, [PgxNext]_pgxVars PROVE RunsInv'
      OBVIOUS
    <2>1. CASE UNCHANGED runVars
      <3>1. \A r \in Runs : Opens(r)'
        BY <2>1 DEF RunsInv, Opens, Command, Wanted, runVars
      <3> QED  BY <2>1, <3>1 DEF RunsInv, runVars, PgxTypeOK
    <2> QED  BY <2>1, InvokeKeeps, OpenKeeps DEF PgxNext, RunStep, pgxVars
  <1> QED  BY <1>1, RunsInit, PgxImplementsProfiles, ProfilesInvariant, PTL DEF PgxSpec

\* Whatever the file and the command line, every setting of a pipeline is the word
\* it should be, every sink has what it needs, and the sinks are those typed and
\* then those configured (merge_opt, merge_vec and the set-up of the pipelines).
THEOREM PgxRunsAsTold == PgxSpec => []RunsAsTold
  <1>1. RunsInv => RunsAsTold
    <2> SUFFICES ASSUME RunsInv, NEW r \in Runs, stage[r] \in {"opening", "running"}
                 PROVE  LET c   == Command(r)
                            s   == target[r].section
                            eff == Effective(c, s)
                        IN  /\ \A o \in DOMAIN eff :
                                 /\ WordOf(c, s, o, eff[o])
                                 /\ eff[o] = "cfg" /\ o \in c.given => o \in ClapDefault(c.op)
                                 /\ eff[o] \in {"cfg", "both"} =>
                                      \/ o \in General(c.op)
                                      \/ o \in SinkOptions(c.op, c.kind) /\ c.kind = s.kind
                                      \/ o \in SourceOptions(c.source) /\ c.source = s.source
                            /\ \A o \in Required(c.op, c.kind) : eff[o] \in {"cli", "cfg"}
                            /\ c.kind = asked.kind \/ (asked.op = "consume" /\ c.kind = s.kind)
                            /\ \A k \in DOMAIN opened[r] :
                                 opened[r][k]
                                   = BuiltAs((<<[kind |-> c.kind]>> \o c.extras \o s.extras)[k].kind)
                            /\ stage[r] = "running" =>
                                 Len(opened[r]) = 1 + Len(c.extras) + Len(s.extras)
      BY DEF RunsAsTold
    <2> DEFINE c   == Command(r)
               s   == target[r].section
               eff == Effective(c, s)
    <2>1. /\ Merged(c) /\ s \in Section
          /\ c.kind = asked.kind \/ (asked.op = "consume" /\ c.kind = s.kind)
      BY CommandFacts DEF RunsInv
    <2>2. /\ ~Refused(c, s) /\ opened[r] \in Seq(Built) /\ Len(opened[r]) <= Len(Sinks(c, s))
          /\ \A k \in 1 .. Len(opened[r]) : opened[r][k] = Sinks(c, s)[k]
          /\ stage[r] = "running" => Len(opened[r]) = Len(Sinks(c, s))
      BY DEF RunsInv, Opens, Wanted
    <2> HIDE DEF c, s
    <2>3. DOMAIN eff = Options(c) /\ \A o \in Options(c) : eff[o] = Late(c, Merge(c, s, o), o)
      BY DEF Effective
    <2>4. SinkMissesOption(c, s) <=> \E o \in Required(c.op, c.kind) : eff[o] = "none"
      BY DEF SinkMissesOption
    <2> HIDE DEF eff
    <2>5. ASSUME NEW o \in Options(c)
          PROVE  /\ WordOf(c, s, o, eff[o])
                 /\ eff[o] = "cfg" /\ o \in c.given => o \in ClapDefault(c.op)
                 /\ eff[o] \in {"cfg", "both"} =>
                      \/ o \in General(c.op)
                      \/ o \in SinkOptions(c.op, c.kind) /\ c.kind = s.kind
                      \/ o \in SourceOptions(c.source) /\ c.source = s.source
      <3> DEFINE v == eff[o]
      <3>1. /\ v \in {"cli", "cfg", "both", "default", "none"}
            /\ v = "cli" => o \in c.given
            /\ v \in {"cfg", "both"} => o \in s.sets \ s.invalid /\ Applies(c, s, o)
            /\ v = "cfg" => o \notin ClapRequired(c.op)
            /\ v = "cfg" /\ o \in c.given => o \in ClapDefault(c.op)
            /\ v = "both" => o \in c.given
            /\ v = "default" => o \notin c.given \/ c.usual
            /\ v = "none" => o \notin c.given
        BY <2>1, <2>3, SettingFacts
      <3> HIDE DEF v
      <3>2. WordOf(c, s, o, v)
        <4>1. CASE v = "cli"
          BY <3>1, <4>1 DEF WordOf
        <4>2. CASE v = "cfg"
          BY <3>1, <4>2 DEF WordOf
        <4>3. CASE v = "both"
          BY <3>1, <4>3 DEF WordOf
        <4>4. CASE v = "default"
          BY <3>1, <4>4, <2>1 DEF WordOf, Merged, CommandLine
        <4>5. CASE v = "none"
          BY <3>1, <4>5 DEF WordOf
        <4> QED  BY <3>1, <4>1, <4>2, <4>3, <4>4, <4>5
      <3> QED  BY <3>1, <3>2 DEF Applies, v
    <2>6. ASSUME NEW o \in Required(c.op, c.kind) PROVE eff[o] \in {"cli", "cfg"}
      <3>1. o \in Options(c) /\ o \notin ClapDefault(c.op) \cup LateDefault(c.op) \cup Rules
        BY <2>1, RequiredFacts
      <3>2. eff[o] # "none"
        BY <2>2, <2>4 DEF Refused
      <3>3. /\ eff[o] \in {"cli", "cfg", "both", "default", "none"}
            /\ eff[o] = "both" => o \in Rules
            /\ eff[o] = "default" => o \in ClapDefault(c.op) \cup LateDefault(c.op)
        BY <2>1, <2>3, <3>1, SettingFacts
      <3> QED  BY <3>1, <3>2, <3>3
    <2>7. /\ Len(Sinks(c, s)) = 1 + Len(c.extras) + Len(s.extras) /\ Len(Sinks(c, s)) \in Nat
          /\ \A k \in 1 .. Len(Sinks(c, s)) :
               Sinks(c, s)[k]
                 = BuiltAs((<<[kind |-> c.kind]>> \o c.extras \o s.extras)[k].kind)
      BY <2>1, SinksFacts
    <2>8. \A k \in DOMAIN opened[r] : k \in 1 .. Len(opened[r]) /\ k \in 1 .. Len(Sinks(c, s))
      <3>1. DOMAIN opened[r] = 1 .. Len(opened[r]) /\ Len(opened[r]) \in Nat
        BY <2>2
      <3>2. Len(Sinks(c, s)) \in Nat /\ Len(opened[r]) <= Len(Sinks(c, s))
        BY <2>2, <2>7
      <3> QED  BY <3>1, <3>2
    <2>9. \A k \in DOMAIN opened[r] :
            opened[r][k] = BuiltAs((<<[kind |-> c.kind]>> \o c.extras \o s.extras)[k].kind)
      BY <2>2, <2>7, <2>8
    <2> QED  BY <2>1, <2>2, <2>3, <2>5, <2>6, <2>7, <2>9 DEF c, s, eff
  <1> QED  BY <1>1, RunsInvariant, PTL
=============================================================================
