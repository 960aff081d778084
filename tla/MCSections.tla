----------------------------- MODULE MCSections -----------------------------
(***************************************************************************)
(* The Sections that are rendered to files, what they say about one        *)
(* another, and the history of their changes.  Each is checked on its own: *)
(* focus, chosen at the start, is the one that moves, and the others stay  *)
(* as their Init has them.  The history is looked at twice: for what its   *)
(* events say, and for what a reader is shown of them, to whom all events  *)
(* are alike, so that refusals will do.                                    *)
(***************************************************************************)
EXTENDS Permissions, ResourceGroups, CertificateMapping, References, History

VARIABLE focus

Nowhere == <<>>
\* One name of the three is a template.
MCPaths == {<<"a">>, <<"a", "b">>, <<"a", "${USER}">>}
MCExpansion == "${USER}" :> "apchi"
MCLegacy == <<"global">>

\* Rules a hand may have written: everyone may read, or do anything; one identity may write to a
\* catalog, or is kept out of it; everyone may see every query.
HandRulesOfTables ==
    {[at |-> <<Wild, Wild, Wild, Wild>>, allow |-> {Select}], CatchAll}
    \cup {[at |-> <<3, System, Wild, Wild>>, allow |-> p] : p \in {{}, {"INSERT"}}}

MCHandFiles ==
    [tables : SeqOf(HandRulesOfTables, 2), queries : {<<>>}]
    \cup [tables : SeqOf({CatchAll}, 1),
          queries : {<<[user |-> Wild, owner |-> Wild, allow |-> {"view"}]>>}]

\* Nothing tells one caller from another.
Interchangeable == Permutations(Actors)

PermissionsRest == grants = NoGrants /\ enforced = FALSE /\ preserved = NothingKept
GroupsRest == groups = [p \in {} |-> FALSE] /\ selectors = <<>> /\ quota = FALSE /\ imported = FALSE
MappingRest == mapping = <<>> /\ keptPatterns = <<>> /\ adopted = <<>>

SectionsInit ==
    /\ focus \in {"permissions", "groups", "mapping", "references", "trail", "reading"}
    /\ IF focus = "permissions" THEN PermissionsInit ELSE PermissionsRest
    /\ IF focus = "groups" THEN GroupsInit ELSE GroupsRest
    /\ IF focus = "mapping" THEN MappingInit ELSE MappingRest
    /\ ReferencesInit /\ HistoryInit

SectionsNext ==
    /\ UNCHANGED focus
    /\ \/ /\ focus = "permissions" /\ PermissionsNext
          /\ UNCHANGED <<groupsVars, mappingVars, referencesVars, historyVars>>
       \/ /\ focus = "groups" /\ GroupsNext
          /\ UNCHANGED <<permissionsVars, mappingVars, referencesVars, historyVars>>
       \/ /\ focus = "mapping" /\ MappingNext
          /\ UNCHANGED <<permissionsVars, groupsVars, referencesVars, historyVars>>
       \/ /\ focus = "references" /\ ReferencesNext
          /\ UNCHANGED <<permissionsVars, groupsVars, mappingVars, historyVars>>
       \/ /\ \/ focus = "trail" /\ \E a \in Actors : Changing(a) \/ Unsaying(a)
             \/ focus = "reading" /\ ((\E a \in Actors : Refuse(a) \/ Stamp(a) \/ Record(a)) \/ Reading)
          /\ UNCHANGED <<permissionsVars, groupsVars, mappingVars, referencesVars>>

sectionsVars ==
    <<focus, permissionsVars, groupsVars, mappingVars, referencesVars, historyVars>>

SectionsSpec == SectionsInit /\ [][SectionsNext]_sectionsVars

=============================================================================
