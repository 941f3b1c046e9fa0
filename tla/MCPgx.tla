--------------------------------- MODULE MCPgx ---------------------------------
(***************************************************************************)
(* Instances of Pgx for TLC.  There are two profiles; each command line    *)
(* below meets a configuration of its own, the same kind of sink in `a`    *)
(* and another one in `b`.                                                 *)
(***************************************************************************)
EXTENDS Pgx, TLC

CONSTANTS a, b, u, v, p, q, r

TheNames == {a, b}
TheUrls  == {u, v}

\* The command lines of `pgx profiles` that are tried.
TheLines == {
    [op |-> "add", name |-> b, url |-> v, default |-> "true"],
    [op |-> "add", name |-> b, url |-> u, default |-> "none"],
    [op |-> "edit", name |-> a, url |-> v, default |-> "none"],
    [op |-> "edit", name |-> a, url |-> NoUrl, default |-> "false"],
    [op |-> "edit", name |-> b, url |-> NoUrl, default |-> "true"],
    [op |-> "delete", name |-> a, url |-> NoUrl, default |-> "none"],
    [op |-> "delete", name |-> b, url |-> NoUrl, default |-> "none"],
    [op |-> "show", name |-> a, url |-> NoUrl, default |-> "none"]}

KindsInOrder == [replicate |-> <<"stdout", "shell", "webhook", "rabbitmq", "kafka", "postgres",
                                 "parquet", "iceberg">>,
                 listen |-> <<"shell", "webhook", "rabbitmq", "kafka", "elasticsearch">>,
                 consume |-> <<"stdout", "elasticsearch", "webhook", "kv">>]
KindAt(op, i) == KindsInOrder[op][1 + (i % Len(KindsInOrder[op]))]
SourceAt(op, i) == IF op # "consume" THEN "none" ELSE IF i % 2 = 0 THEN "rabbitmq" ELSE "kafka"

Parsed == {"mode", "ops", "on_error", "query_mode"}   \* options whose text may not parse
AllOptions(op, kind, source) == General(op) \cup SinkOptions(op, kind) \cup SourceOptions(source)

\* Extra sinks: a section knows more kinds than the command line.
Extra(kind) == [kind |-> kind, sets |-> Required("replicate", kind)]
Some == <<Extra("kafka"), Extra("shell")>>
More == <<Extra("postgres"), Extra("parquet")>>
Bad  == <<[kind |-> "shell", sets |-> {}]>>

\* A section without a sink in the place of the kinds it does not know.
SectionAt(op, i, invalid, extras) ==
    LET kind == KindAt(op, i)
        options == AllOptions(op, kind, SourceAt(op, i))
    IN  [kind |-> IF kind \in SectionKinds(op) THEN kind ELSE "none", source |-> SourceAt(op, i), sets |-> options,
         invalid |-> options \cap invalid,
         extras |-> IF op = "replicate" THEN extras ELSE <<>>]

SectionsAt(i, invalid, extras) == [op \in Pipelines |-> SectionAt(op, i, invalid, extras)]
Bare == [op \in Pipelines |-> NoSection]
OfA(i) == SectionsAt(i, {}, More)
OfB(i) == SectionsAt(i + 1, IF i % 2 = 0 THEN Parsed ELSE {"ops"}, Some)
TheSections == {Bare} \cup {OfA(i) : i \in 0 .. 7} \cup {OfB(i) : i \in 0 .. 7}

\* Two profiles, one, none; the default is a profile, or there is none.
Both(i) == [default |-> a, connections |-> a :> [url |-> u, sections |-> OfA(i)]
                                        @@ b :> [url |-> v, sections |-> OfB(i)]]
One(i)  == [default |-> NoName, connections |-> a :> [url |-> u, sections |-> OfA(i)]]
TheConfigs == {Both(i) : i \in 0 .. 7} \cup {One(0), EmptyConfig}

Line(op, i, given, usual, extras, url, conn) ==
    [op |-> op, kind |-> KindAt(op, i), source |-> SourceAt(op, i), given |-> given,
     usual |-> usual, simple |-> ~usual, extras |-> extras, url |-> url, conn |-> conn]

\* Everything typed, for the profile of another sink; almost nothing, for the
\* default; a URL, so that there is no profile.
Full(op, i) == Line(op, i, AllOptions(op, KindAt(op, i), SourceAt(op, i)), i % 2 = 0,
                    IF op = "replicate" THEN Some ELSE <<>>, NoUrl, b)
Least(op, i) == Line(op, i, ClapRequired(op), FALSE, <<>>, NoUrl, NoName)
Typing(op, i) == Line(op, i, ClapRequired(op) \cup Required(op, KindAt(op, i)), FALSE, <<>>, u, NoName)

EachKind(line(_, _)) ==
    UNION {{<<Both(i), line(op, i)>> : i \in 0 .. Len(KindsInOrder[op]) - 1} : op \in Pipelines}

\* No profile, an unknown one, no default, extra sinks that cannot be built.
Odd == {<<EmptyConfig, Least("listen", 0)>>,
        <<One(0), [Least("listen", 0) EXCEPT !.conn = b]>>,
        <<One(0), [Least("replicate", 1) EXCEPT !.conn = a]>>,
        <<Both(0), [Least("replicate", 0) EXCEPT !.extras = Bad]>>,
        <<Both(0), [Least("replicate", 0) EXCEPT !.extras = More]>>}

TheCases == EachKind(Full) \cup EachKind(Least) \cup EachKind(Typing) \cup Odd
=============================================================================
