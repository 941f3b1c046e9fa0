--------------------------------- MODULE Settings ---------------------------------
(***************************************************************************)
(* Where every setting of a pipeline comes from.  The pipelines --         *)
(* `replicate`, `listen` and `consume` -- merge what was typed with the    *)
(* profile's section and built-in defaults, and build their sinks from the *)
(* result.                                                                 *)
(*                                                                         *)
(* A setting's value is its origin: "cli" (typed, or from an environment   *)
(* variable), "cfg" (the profile), "both", "default" (built in) or "none". *)
(*                                                                         *)
(* A command is a record: op, kind and source (sub-command or --sink,      *)
(* --source), given (the options typed), usual (a typed option repeats the *)
(* default), simple (the query mode is the simple one, wherever it is      *)
(* set), extras (--sink of replicate).  A section has kind and source too, *)
(* sets (the options it sets), invalid (those that do not parse) and       *)
(* extras.                                                                 *)
(***************************************************************************)
EXTENDS Sequences, FiniteSets

Pipelines == {"replicate", "listen", "consume"}

\* A profile without a section for the command.
NoSection == [kind |-> "none", source |-> "none", sets |-> {}, invalid |-> {}, extras |-> <<>>]

-----------------------------------------------------------------------------
(* The options *)

Reconnect == {"max_reconnect_attempts", "reconnect_base_ms", "reconnect_max_ms"}

ReplicateOptions == {"slot", "publications", "tables", "ops", "temporary", "emit_txn_boundaries",
                     "emit_schema", "start_lsn", "reset_slot", "filters", "drop_cols", "rename"}
ListenOptions  == {"channels", "channel_full_behavior"}
ConsumeOptions == {"query_mode", "query", "max_depth", "schema_dir", "on_error", "idempotent",
                   "dedup_ttl"}

General(op) == Reconnect \cup CASE op = "replicate" -> ReplicateOptions
                                [] op = "listen" -> ListenOptions
                                [] op = "consume" -> ConsumeOptions

Kinds(op) ==
    CASE op = "replicate" ->
           {"stdout", "shell", "webhook", "rabbitmq", "kafka", "postgres", "parquet", "iceberg"}
      [] op = "listen" -> {"shell", "webhook", "rabbitmq", "kafka", "elasticsearch"}
      [] op = "consume" -> {"stdout", "elasticsearch", "webhook", "kv"}

\* The sinks a section may name: not Iceberg, but Elasticsearch for all of them.
SectionKinds(op) ==
    {"none"} \cup IF op = "consume" THEN Kinds(op)
                  ELSE (Kinds("replicate") \ {"iceberg"}) \cup {"elasticsearch"}

Amqp == {"amqp_url", "exchange", "routing_key"}

ReplicateSinkOptions(kind) ==
    CASE kind = "stdout" -> {"pretty"}
      [] kind = "shell" -> {"command", "envs"}
      [] kind = "webhook" -> {"url", "headers"}
      [] kind = "rabbitmq" -> Amqp
      [] kind = "kafka" -> {"brokers", "topic"}
      [] kind = "postgres" -> {"target_url", "schema_map", "batch_size"}
      [] kind = "parquet" -> {"output_dir", "max_rows", "flush_interval", "compression"}
      [] kind = "iceberg" -> {"warehouse_path", "namespace"}

ListenSinkOptions(kind) ==
    IF kind = "elasticsearch" THEN {"es_url", "index", "id_field", "schema_dir"}
    ELSE ReplicateSinkOptions(kind) \cup {"mode"}

ConsumeSinkOptions(kind) ==
    CASE kind = "stdout" -> {}
      [] kind = "elasticsearch" -> {"es_url", "index", "id_field"}
      [] kind = "webhook" -> {"webhook_url"}
      [] kind = "kv" -> {"kv_url", "key_field", "key_prefix", "ttl"}

SinkOptions(op, kind) == CASE op = "replicate" -> ReplicateSinkOptions(kind)
                           [] op = "listen" -> ListenSinkOptions(kind)
                           [] op = "consume" -> ConsumeSinkOptions(kind)

SourceOptions(source) ==
    CASE source = "rabbitmq" -> Amqp \cup {"queue", "prefetch_count"}
      [] source = "kafka" -> {"brokers", "topic", "group_id"}
      [] OTHER -> {}

\* Options for which clap fills in a default: typed or not, they have a value.
ClapDefault(op) ==
    CASE op = "replicate" -> {"pretty", "brokers", "topic", "batch_size", "output_dir", "max_rows",
                              "flush_interval", "compression", "warehouse_path", "namespace"} \cup Amqp
      [] op = "listen" -> {"channel_full_behavior", "mode", "brokers", "topic"} \cup Amqp
      [] op = "consume" -> Reconnect

\* Options clap insists on: what a section says of them is never used.
ClapRequired(op) == CASE op = "replicate" -> {"publications"}
                      [] op = "listen" -> {"channels"}
                      [] OTHER -> {}

\* Options of which a section knows nothing, or which the merge passes over.
CliOnly(op) ==
    CASE op = "replicate" -> {"start_lsn", "reset_slot", "envs", "headers", "output_dir", "max_rows",
                              "flush_interval", "compression", "warehouse_path", "namespace"}
      [] op = "listen" -> {"envs", "headers"}
      [] op = "consume" -> Reconnect

\* Options the code gives a default when neither side has them.
LateDefault(op) ==
    CASE op = "replicate" -> Reconnect \cup {"slot"}
      [] op = "listen" -> Reconnect \cup {"es_url", "index"}
      [] op = "consume" ->
           {"query_mode", "query", "max_depth", "schema_dir", "on_error", "dedup_ttl", "es_url",
            "index", "kv_url", "key_prefix", "ttl", "amqp_url", "queue", "brokers", "topic", "group_id",
            "prefetch_count"}

\* Options without which there is no sink, and the query of the simple mode.
Required(op, kind) ==
    CASE kind = "shell" -> {"command"}
      [] kind = "webhook" -> IF op = "consume" THEN {"webhook_url"} ELSE {"url"}
      [] kind = "postgres" -> {"target_url"}
      [] OTHER -> {}

-----------------------------------------------------------------------------
(* The merges of config.rs, and the two others *)

\* merge_opt, merge_bool (a flag is set or not) and merge_vec.
FirstOf(typed, conf) == IF typed = "none" THEN conf ELSE typed

\* An option with a clap default always has a value: the profile replaces it ...
Replace(typed, conf) == IF conf = "none" THEN typed ELSE conf

\* ... or, for channel_full_behavior, only a value that equals the default.
ReplaceUsual(typed, conf) == IF typed = "default" THEN Replace(typed, conf) ELSE typed

\* Rules that add up.
Join(typed, conf) == CASE typed = "none" -> conf
                       [] conf = "none" -> typed
                       [] OTHER -> "both"

Typed(c, o) ==
    IF o \in c.given /\ ~(c.usual /\ o = "channel_full_behavior") THEN "cli"
    ELSE IF o \in ClapDefault(c.op) THEN "default" ELSE "none"

\* A section's sink and source options count for the same kind only.
MutantApplies(c, s, o) == TRUE   \* whatever the section's sink is
Applies(c, s, o) ==
    \/ o \in General(c.op)
    \/ o \in SinkOptions(c.op, c.kind) /\ s.kind = c.kind
    \/ c.op = "consume" /\ o \in SourceOptions(c.source) /\ s.source = c.source

Configured(c, s, o) ==
    IF o \in (s.sets \ s.invalid) \ CliOnly(c.op) /\ Applies(c, s, o) THEN "cfg" ELSE "none"

Merge(c, s, o) ==
    LET typed == Typed(c, o)
        conf  == Configured(c, s, o)
    IN  CASE o \in {"filters", "drop_cols", "rename"} -> Join(typed, conf)
          [] o = "channel_full_behavior" -> ReplaceUsual(typed, conf)
          [] OTHER -> IF o \in ClapDefault(c.op) THEN Replace(typed, conf)
                                                 ELSE FirstOf(typed, conf)

-----------------------------------------------------------------------------
(* What runs *)

\* `consume` takes its source and its sink from the section, when there is one.
Settled(c, s) ==
    IF c.op = "consume" /\ s # NoSection
    THEN [c EXCEPT !.kind = s.kind, !.source = s.source]
    ELSE c

Options(c) == General(c.op) \cup SinkOptions(c.op, c.kind)
                \cup IF c.op = "consume" THEN SourceOptions(c.source) ELSE {}

Late(c, v, o) == IF v = "none" /\ o \in LateDefault(c.op) THEN "default" ELSE v

Effective(c, s) == [o \in Options(c) |-> Late(c, Merge(c, s, o), o)]

\* Extra sinks of `replicate`: parse_sink_string knows fewer kinds than a section,
\* and a sink for PostgreSQL forwards nothing.
ParsedKinds == {"stdout", "shell", "webhook", "kafka", "rabbitmq", "parquet"}
ExtraFails(e) == e.kind = "elasticsearch" \/ ~(Required("replicate", e.kind) \subseteq e.sets)
BuiltAs(kind) == IF kind = "postgres" THEN "noop" ELSE kind

SinkMissesOption(c, s) == \E o \in Required(c.op, c.kind) : Effective(c, s)[o] = "none"
ExtraRefused(c, s) ==
    \/ \E k \in DOMAIN c.extras : c.extras[k].kind \notin ParsedKinds \/ ExtraFails(c.extras[k])
    \/ \E k \in DOMAIN s.extras : ExtraFails(s.extras[k])
SimpleWithoutQuery(c, s) ==
    /\ c.op = "consume"
    /\ c.simple
    /\ Effective(c, s)["query_mode"] # "default"
    /\ Merge(c, s, "query") = "none"

Refused(c, s) == SinkMissesOption(c, s) \/ ExtraRefused(c, s) \/ SimpleWithoutQuery(c, s)

\* The primary sink, the extras typed, the extras configured.  (For PostgreSQL the
\* primary sink is a no-op too: the applier beside it does the work.)
Sinks(c, s) ==
    LET built(es) == [k \in DOMAIN es |-> BuiltAs(es[k].kind)]
    IN  <<BuiltAs(c.kind)>> \o built(c.extras) \o built(s.extras)
=============================================================================
