----------------------------- MODULE ProfileRegistry -----------------------------
(***************************************************************************)
(* What the `pgx profiles` commands promise: a registry of named           *)
(* connections, changed by one command at a time, each as a whole.         *)
(***************************************************************************)
CONSTANTS Names, Urls, NoName, NoSections

VARIABLE registry   \* the default profile's name and the profiles

Profiles == registry.connections

\* A new profile; its name must be free.
Add(n, u, asDefault) ==
    /\ n \notin DOMAIN Profiles
    /\ registry' =
         [default |-> IF asDefault THEN n ELSE registry.default,
          connections |-> [k \in DOMAIN Profiles \cup {n} |->
                             IF k = n THEN [url |-> u, sections |-> NoSections]
                                      ELSE Profiles[k]]]

\* A profile's URL changes, or it becomes the default or stops being it; its
\* sections and every other profile stay.
Edit(n) ==
    /\ n \in DOMAIN Profiles
    /\ DOMAIN registry'.connections = DOMAIN Profiles
    /\ registry'.connections[n].sections = Profiles[n].sections
    /\ \A k \in DOMAIN Profiles \ {n} : registry'.connections[k] = Profiles[k]
    /\ registry'.default \in {registry.default, n, NoName}
    /\ registry'.default = NoName => registry.default \in {n, NoName}

\* A profile goes, and is the default no more.
Delete(n) ==
    /\ n \in DOMAIN Profiles
    /\ registry' = [default |-> IF registry.default = n THEN NoName ELSE registry.default,
                    connections |-> [k \in DOMAIN Profiles \ {n} |-> Profiles[k]]]

Step == \E n \in Names :
          \/ \E u \in Urls, asDefault \in BOOLEAN : Add(n, u, asDefault)
          \/ Edit(n)
          \/ Delete(n)
=============================================================================
