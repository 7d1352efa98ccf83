---------------------------- MODULE SchemaUpgrade ----------------------------
(***************************************************************************)
(* What the schema migrator promises: the schema of the database is always *)
(* that of one whole release, it only ever grows, it changes only while no *)
(* server runs, and a server runs only on a schema that has all it needs.  *)
(***************************************************************************)
CONSTANTS
    Needs,      \* for each release, the migrations its schema consists of
    Nobody      \* no release is serving

VARIABLES
    schema,     \* the migrations the database has
    serving     \* the release that serves, or Nobody

upgradeVars == <<schema, serving>>

Init ==
    /\ schema = {} \/ \E r \in DOMAIN Needs : schema = Needs[r]
    /\ serving = Nobody

Upgrade(r) ==
    /\ serving = Nobody
    /\ schema \subseteq Needs[r]
    /\ schema' = Needs[r]
    /\ UNCHANGED serving

Serve(r) ==
    /\ serving = Nobody
    /\ Needs[r] \subseteq schema
    /\ serving' = r
    /\ UNCHANGED schema

Stop ==
    /\ serving' = Nobody
    /\ UNCHANGED schema

Next == Stop \/ \E r \in DOMAIN Needs : Upgrade(r) \/ Serve(r)

Spec == Init /\ [][Next]_upgradeVars

=============================================================================
