---------------------------- MODULE Permissions ----------------------------
(***************************************************************************)
(* The Permissions Section: the grants an Operator stages, the rules file  *)
(* rendered from them, and the file read back.  Trino takes the first rule *)
(* that matches, so what a grant means depends on every rule above it.     *)
(*                                                                         *)
(* A name is its rank among the names, which is all that sorting looks at; *)
(* Wild is the level a rule or a grant leaves out, written as a star in a  *)
(* key and sorted among the names as a star is.  The catalogs and          *)
(* procedures blocks hold nothing of the Operator's, and are left out.     *)
(***************************************************************************)
EXTENDS Naturals, Sequences, SequencesExt, FiniteSets, Lists

CONSTANTS
    Apchi,              \* the identity Apchi uses
    EndUsers,           \* the other Trino Identities
    System,             \* the verification catalog
    Catalogs, Schemas, Tables,
    Privileges,         \* of Trino's six
    Select,
    MaxGrants,          \* bound: grants staged at once
    HandFiles           \* bound: the files somebody wrote before Apchi came

Wild == 2

Identities == EndUsers \cup {Apchi}

\* The rules of the two blocks, as far as they are modelled.
RulesOfTables ==
    [at: (Identities \cup {Wild}) \X (Catalogs \cup {Wild})
            \X (Schemas \cup {Wild}) \X (Tables \cup {Wild}),
     allow: SUBSET Privileges]
RulesOfQueries ==
    [user: Identities \cup {Wild}, owner: Identities \cup {Wild},
     allow: SUBSET {"execute", "view", "kill"}]

ASSUME PermissionsAssumption ==
    /\ {Apchi, System} \cup EndUsers \cup Catalogs \cup Schemas \cup Tables \subseteq Nat \ {Wild}
    /\ Apchi \notin EndUsers /\ System \in Catalogs /\ Select \in Privileges
    /\ MaxGrants \in Nat
    /\ \A file \in HandFiles : /\ file.tables \in Seq(RulesOfTables)
                               /\ file.queries \in Seq(RulesOfQueries)

VARIABLES
    grants,         \* the staged grants: from key to privileges
    enforced,       \* the Admin value enforce_permissions
    preserved       \* the Admin value preserved_access_control

permissionsVars == <<grants, enforced, preserved>>

Places == Catalogs \X Schemas \X Tables

-----------------------------------------------------------------------------
(* Grants, addressed by identity, catalog, schema and table. *)

Keys ==
    {k \in Identities \X Catalogs \X (Schemas \cup {Wild}) \X (Tables \cup {Wild}) :
        k[4] # Wild => k[3] # Wild}

\* The order of the keys, as strings compare.
Before(k, l) == \E i \in 1..4 : k[i] < l[i] /\ \A j \in 1..(i - 1) : k[j] = l[j]

\* Mutant of GrantRule: the table is forgotten, and the grant is the schema's.
GrantRuleOfSchema(k, privileges) == [at |-> [k EXCEPT ![4] = Wild], allow |-> privileges]

\* A grant as a rule: every name it has is anchored, the ones it leaves out are left out.
GrantRule(k, privileges) == [at |-> k, allow |-> privileges]

ReservedTableRule == [at |-> <<Apchi, System, Wild, Wild>>, allow |-> {Select}]
CatchAll == [at |-> <<Wild, Wild, Wild, Wild>>, allow |-> Privileges]

SortedGrants(g) ==
    LET keys == Sorted(DOMAIN g, Before)
    IN  [i \in 1..Len(keys) |-> GrantRule(keys[i], g[keys[i]])]

\* Mutant of TableRules: the catch-all stays when the grants are enforced.
TableRulesOpen(g, kept, closed) ==
    <<ReservedTableRule>> \o SortedGrants(g) \o kept \o <<CatchAll>>

\* Mutant of TableRules: Apchi's own rule is beneath the Operator's grants.
TableRulesReservedLast(g, kept, closed) ==
    SortedGrants(g) \o <<ReservedTableRule>> \o kept \o (IF closed THEN <<>> ELSE <<CatchAll>>)

TableRules(g, kept, closed) ==
    <<ReservedTableRule>> \o SortedGrants(g) \o kept \o (IF closed THEN <<>> ELSE <<CatchAll>>)

\* Who may run, see and kill queries: Apchi everyone's; each identity in a grant its own.
QueryRules(identities) ==
    LET sorted == Sorted(identities \ {Apchi}, <)
    IN  <<[user |-> Apchi, owner |-> Wild, allow |-> {"execute", "view", "kill"}]>>
        \o [i \in 1..Len(sorted) |->
               [user |-> sorted[i], owner |-> sorted[i], allow |-> {"view", "kill"}]]
        \o <<[user |-> Wild, owner |-> Wild, allow |-> {"execute"}]>>

\* The preserved rules go above the last one, which lets everyone execute.
WithPreservedQueries(generated, kept) ==
    Front(generated) \o kept \o <<Last(generated)>>

Granted(g) == {k[1] : k \in DOMAIN g}

\* The whole file.
Rendered(g, closed, kept) ==
    [tables |-> TableRules(g, kept.tables, closed),
     queries |-> WithPreservedQueries(QueryRules(Granted(g)), kept.queries)]

-----------------------------------------------------------------------------
(* The file read back.  A rule is a grant if it names one identity and one  *)
(* place, and gives something; the rest is preserved, in its order.         *)

IsGrant(rule) == rule.at \in Keys /\ rule.allow # {}

\* A later rule for the same key replaces an earlier one.
ReadGrants(rules) ==
    LET read == {i \in DOMAIN rules : IsGrant(rules[i]) /\ rules[i] # ReservedTableRule}
        Latest(k) == CHOOSE i \in read :
                        rules[i].at = k /\ \A j \in read : rules[j].at = k => j <= i
    IN  [k \in {rules[i].at : i \in read} |-> rules[Latest(k)].allow]

OtherTables(rules) ==
    Picked(rules, {i \in DOMAIN rules :
                      ~IsGrant(rules[i]) /\ rules[i] \notin {ReservedTableRule, CatchAll}})

OtherQueries(rules, generated) ==
    Picked(rules, {i \in DOMAIN rules : rules[i] \notin Range(generated)})

\* Mutant of Parsed: the posture is not read from the file.
ParsedEnforced(file) ==
    LET g == ReadGrants(file.tables)
    IN  [grants |-> g, enforced |-> TRUE,
         preserved |-> [tables |-> OtherTables(file.tables),
                        queries |-> OtherQueries(file.queries, QueryRules(Granted(g)))]]

\* Apchi's own rules are dropped; that the catch-all is missing is what says the Cluster
\* enforces its grants.
Parsed(file) ==
    LET g == ReadGrants(file.tables)
    IN  [grants |-> g, enforced |-> CatchAll \notin Range(file.tables),
         preserved |-> [tables |-> OtherTables(file.tables),
                        queries |-> OtherQueries(file.queries, QueryRules(Granted(g)))]]

-----------------------------------------------------------------------------
(* Trino's reading of the file: the first rule that matches decides.        *)

Covers(at, user, place) ==
    /\ at[1] \in {Wild, user}
    /\ \A i \in 1..3 : at[i + 1] \in {Wild, place[i]}

TableAccess(rules, user, place) ==
    LET i == SelectInSeq(rules, LAMBDA r : Covers(r.at, user, place))
    IN  IF i = 0 THEN {} ELSE rules[i].allow

\* owner is Wild when no query is asked about: a rule with an owner does not match then.
QueryAccess(rules, user, owner) ==
    LET i == SelectInSeq(rules, LAMBDA r : r.user \in {Wild, user} /\ r.owner \in {Wild, owner})
    IN  IF i = 0 THEN {} ELSE rules[i].allow

File == Rendered(grants, enforced, preserved)

-----------------------------------------------------------------------------

NothingKept == [tables |-> <<>>, queries |-> <<>>]
NoGrants == [k \in {} |-> {}]

\* A Cluster with no rules of its own, or one adopted from a file written by hand.
PermissionsInit ==
    \E found \in {[grants |-> NoGrants, enforced |-> FALSE, preserved |-> NothingKept]}
              \cup {Parsed(file) : file \in HandFiles} :
        grants = found.grants /\ enforced = found.enforced /\ preserved = found.preserved

AddGrant(k, privileges) ==
    /\ k \notin DOMAIN grants /\ Cardinality(DOMAIN grants) < MaxGrants
    /\ grants' = [l \in DOMAIN grants \cup {k} |-> IF l = k THEN privileges ELSE grants[l]]
    /\ UNCHANGED <<enforced, preserved>>

SetPrivileges(k, privileges) ==
    /\ k \in DOMAIN grants
    /\ grants' = [grants EXCEPT ![k] = privileges]
    /\ UNCHANGED <<enforced, preserved>>

DeleteGrant(k) ==
    /\ k \in DOMAIN grants
    /\ grants' = [l \in DOMAIN grants \ {k} |-> grants[l]]
    /\ UNCHANGED <<enforced, preserved>>

\* The Admin takes the catch-all away, or puts it back.
EnforcePermissions ==
    /\ enforced' = ~enforced
    /\ UNCHANGED <<grants, preserved>>

PermissionsNext ==
    \/ \E k \in Keys, p \in (SUBSET Privileges) \ {{}} : AddGrant(k, p) \/ SetPrivileges(k, p)
    \/ \E k \in Keys : DeleteGrant(k)
    \/ EnforcePermissions

PermissionsSpec == PermissionsInit /\ [][PermissionsNext]_permissionsVars

-----------------------------------------------------------------------------
(* Properties. *)

\* "An identity may reach only what it has been granted" (permissions/section.py): on a Cluster
\* that enforces, whatever somebody may do somewhere is in one of their grants on that place,
\* or in a rule that was preserved.
OnlyGranted ==
    LET tables == File.tables
    IN  enforced => \A u \in EndUsers, p \in Places :
            TableAccess(tables, u, p) \subseteq
                UNION ({grants[k] : k \in {l \in DOMAIN grants : Covers(l, u, p)}}
                       \cup {r.allow : r \in {s \in Range(preserved.tables) : Covers(s.at, u, p)}})

\* "Apchi keeps its own read access through its own rule" (permissions/section.py): no grant, no
\* preserved rule and no posture takes from Apchi the tables it verifies with, the queries it
\* counts, or the right to run one; and nobody else is given sight of another's queries.
ApchiKeepsAccess ==
    LET file == File
        Queries(u, o) == QueryAccess(file.queries, u, o)
    IN  /\ \A p \in Places : p[1] = System => Select \in TableAccess(file.tables, Apchi, p)
        /\ "execute" \in Queries(Apchi, Wild)
        /\ \A o \in Identities : {"view", "kill"} \subseteq Queries(Apchi, o)
        /\ preserved.queries = <<>> =>
              \A u \in EndUsers : "execute" \in Queries(u, Wild)
                               /\ \A o \in Identities \ {u} : "view" \notin Queries(u, o)

\* "Parse the file, render from what was parsed" (discovery.py): reading back the file Apchi
\* writes, and writing it again, leaves everyone with the access they have.
ReadBackMeansTheSame ==
    LET file == File
        read == Parsed(file)
        again == Rendered(read.grants, read.enforced, read.preserved)
    IN  /\ \A u \in Identities, p \in Places :
               TableAccess(again.tables, u, p) = TableAccess(file.tables, u, p)
        /\ \A u \in Identities, o \in Identities \cup {Wild} :
               QueryAccess(again.queries, u, o) = QueryAccess(file.queries, u, o)

\* A grant "is addressed by identity, catalog, schema, table" (permissions/model.py): staging,
\* changing or removing one changes nobody's access but its identity's, and that only where the
\* grant applies, however the rules around it are sorted.
Touched == {k \in Keys : (k \in DOMAIN grants) # (k \in DOMAIN grants')
                      \/ (k \in DOMAIN grants /\ k \in DOMAIN grants' /\ grants[k] # grants'[k])}

SameBut(before, after, touched) ==
    /\ \A u \in Identities, p \in Places :
          \/ TableAccess(after.tables, u, p) = TableAccess(before.tables, u, p)
          \/ \E k \in touched : Covers(k, u, p)
    /\ \A u \in Identities, o \in Identities \cup {Wild} :
          \/ QueryAccess(after.queries, u, o) = QueryAccess(before.queries, u, o)
          \/ \E k \in touched : k[1] = u

EditTouchesOnlyItsPlace ==
    [][grants' # grants /\ enforced' = enforced =>
         \A before \in {File}, after \in {File'} : SameBut(before, after, Touched)]_permissionsVars

\* "Staging a grant records intent; it does not revoke anyone's access" (permissions/section.py):
\* until an Admin enforces them, one more grant takes from nobody what they had before it.
StagingRevokesNothing ==
    [][/\ ~enforced /\ ~enforced' /\ grants' # grants
       /\ \A k \in DOMAIN grants : k \in DOMAIN grants' /\ grants'[k] = grants[k]
       => \A before \in {File}, after \in {File'} : \A u \in EndUsers, p \in Places :
             TableAccess(before.tables, u, p) \subseteq TableAccess(after.tables, u, p)
      ]_permissionsVars

=============================================================================
