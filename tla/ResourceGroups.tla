--------------------------- MODULE ResourceGroups ---------------------------
(***************************************************************************)
(* The Resource Groups Section: a flat map of paths in the Candidate, the  *)
(* tree and the selectors rendered from it for Trino, in either of the two *)
(* ways a deployment may mount them, and the prediction Verification makes *)
(* of the group its own query lands in.                                    *)
(*                                                                         *)
(* Of a group only its CPU limit matters here, and of a selector whether   *)
(* what it says of user, source, text, type and tags fits Apchi's query    *)
(* (fits), and whether Apchi comes, before it meets a mismatch, to         *)
(* something it cannot know about itself or to a pattern it cannot         *)
(* evaluate (hidden).                                                      *)
(*                                                                         *)
(* A name in a path may be a template, as ${USER} and ${SOURCE}: Apchi     *)
(* takes it for a name like any other, and Trino puts the query's own      *)
(* value in its place when it makes the group the query runs in.           *)
(***************************************************************************)
EXTENDS Naturals, Sequences, SequencesExt, FiniteSets

CONSTANTS
    Paths,              \* group paths, sequences of names
    Legacy,             \* the path of the group Trino uses when it has no manager
    MaxSelectors,       \* bound: selectors in the list
    NoGroup,            \* no group at all
    Expansion           \* from template to what Trino puts for it in Apchi's own query

ASSUME ResourceGroupsAssumption ==
    /\ \A p \in Paths \cup {Legacy} : p \in Seq(STRING) /\ p # <<>>
    /\ Expansion \in [DOMAIN Expansion -> STRING]
    /\ \A n \in 1..Len(Legacy) : Legacy[n] \notin DOMAIN Expansion
    /\ MaxSelectors \in Nat

VARIABLES
    groups,         \* the staged groups: from path to whether it sets a CPU limit
    selectors,      \* the staged selectors, in order
    quota,          \* whether a CPU quota period is set
    imported        \* history: the Candidate began as an imported document

groupsVars == <<groups, selectors, quota, imported>>

Selectors == [group : Paths, fits : BOOLEAN, hidden : BOOLEAN]
SelectorLists == SeqOf(Selectors, MaxSelectors)

-----------------------------------------------------------------------------
(* The tree. *)

IsRoot(p) == Len(p) = 1
ParentOf(p) == Front(p)
ChildrenOf(paths, p) == {q \in paths : ~IsRoot(q) /\ ParentOf(q) = p}

\* The tree is rebuilt from the roots down: a path is in it when all its ancestors are.
InTree(paths) == {p \in paths : \A n \in 1..Len(p) : SubSeq(p, 1, n) \in paths}

RenderRules(g, s, q) ==
    [groups |-> [p \in InTree(DOMAIN g) |-> g[p]], selectors |-> s, quota |-> q]

IsEmpty(g, s) == DOMAIN g = {} /\ s = <<>>

\* What stands for no resource groups where the file cannot be taken away.
DefaultRules ==
    [groups |-> [p \in {Legacy} |-> FALSE],
     selectors |-> <<[group |-> Legacy, fits |-> TRUE, hidden |-> FALSE]>>,
     quota |-> FALSE]

\* The files Apchi mounts itself: both, or neither.
Render(g, s, q) == IF IsEmpty(g, s) THEN {} ELSE {RenderRules(g, s, q)}

\* The one file, in a directory the deployment's own properties file points into.
RenderRulesOnly(g, s, q) == {IF IsEmpty(g, s) THEN DefaultRules ELSE RenderRules(g, s, q)}

\* The checks over the whole Candidate.  Mutant: a selector may name a group with subgroups.
CheckWithoutLeaves(g, s, q) ==
    /\ q \/ \A p \in DOMAIN g : ~g[p]
    /\ \A i \in DOMAIN s : s[i].group \in DOMAIN g

Check(g, s, q) ==
    /\ q \/ \A p \in DOMAIN g : ~g[p]
    /\ \A i \in DOMAIN s : s[i].group \in DOMAIN g /\ ChildrenOf(DOMAIN g, s[i].group) = {}

-----------------------------------------------------------------------------
(* Where Verification's own query lands, as far as Apchi can say. *)

\* Mutant of GroupFor: a selector Apchi cannot evaluate is passed over.
GroupForSkipping(s) ==
    LET i == SelectInSeq(s, LAMBDA x : x.fits /\ ~x.hidden)
    IN  [certain |-> TRUE, group |-> IF i = 0 THEN NoGroup ELSE s[i].group]

\* The first selector that either fits or cannot be evaluated; the second kind ends the answer.
GroupFor(s) ==
    LET i == SelectInSeq(s, LAMBDA x : x.fits \/ x.hidden)
    IN  IF i = 0 THEN [certain |-> TRUE, group |-> NoGroup]
        ELSE [certain |-> ~s[i].hidden, group |-> s[i].group]

\* Whether Verification accepts the group the Cluster reports.
Verify(s, reached) ==
    LET expected == GroupFor(s)
    IN  \/ s = <<>> \/ ~expected.certain \/ expected.group = NoGroup
        \/ reached = NoGroup \/ reached = expected.group

-----------------------------------------------------------------------------
(* Trino.  It refuses to start on a selector for a group it does not have,  *)
(* and on a CPU limit without a quota period.  A query goes to the group of *)
(* the first selector that matches, its templates replaced, and is refused  *)
(* if there is none or the group has subgroups; with no file, every query   *)
(* goes to the legacy group.                                                *)

TrinoStarts(files) ==
    \A f \in files :
        /\ \A i \in DOMAIN f.selectors : f.selectors[i].group \in DOMAIN f.groups
        /\ \A p \in DOMAIN f.groups : f.groups[p] => f.quota

\* A path without a template, and the path of the group a query runs in.
Literal(p) == \A n \in 1..Len(p) : p[n] \notin DOMAIN Expansion
Expand(p) == [n \in 1..Len(p) |-> IF p[n] \in DOMAIN Expansion THEN Expansion[p[n]] ELSE p[n]]

\* The group the selectors name.  facts: the positions of the hidden selectors that do match.
Chosen(f, facts) ==
    LET matching == {i \in DOMAIN f.selectors :
                        f.selectors[i].fits /\ (f.selectors[i].hidden => i \in facts)}
    IN  IF matching = {} THEN NoGroup
        ELSE f.selectors[CHOOSE i \in matching : \A j \in matching : i <= j].group

Reached(files, facts) ==
    IF files = {} THEN Legacy
    ELSE LET f == CHOOSE x \in files : TRUE
             g == Chosen(f, facts)
         IN  IF g # NoGroup /\ ChildrenOf({Expand(p) : p \in DOMAIN f.groups}, Expand(g)) = {}
             THEN Expand(g) ELSE NoGroup

-----------------------------------------------------------------------------

\* Nothing staged, or whatever an import, which looks at the shape of each resource, let in.
GroupsInit ==
    \/ groups = [p \in {} |-> FALSE] /\ selectors = <<>> /\ quota = FALSE /\ imported = FALSE
    \/ /\ groups \in UNION {[P -> BOOLEAN] : P \in SUBSET Paths}
       /\ selectors \in SelectorLists
       /\ quota \in BOOLEAN /\ imported = TRUE

\* Added under a parent that exists, or as a root.
AddGroup(p, cpu) ==
    /\ p \notin DOMAIN groups
    /\ IsRoot(p) \/ ParentOf(p) \in DOMAIN groups
    /\ groups' = [q \in DOMAIN groups \cup {p} |-> IF q = p THEN cpu ELSE groups[q]]
    /\ UNCHANGED <<selectors, quota, imported>>

EditGroup(p, cpu) ==
    /\ p \in DOMAIN groups
    /\ groups' = [groups EXCEPT ![p] = cpu]
    /\ UNCHANGED <<selectors, quota, imported>>

\* Mutant of DeleteGroup: the subgroups are left behind.
DeleteGroupAnyway(p) ==
    /\ p \in DOMAIN groups
    /\ groups' = [q \in DOMAIN groups \ {p} |-> groups[q]]
    /\ UNCHANGED <<selectors, quota, imported>>

\* Refused while it has subgroups.
DeleteGroup(p) ==
    /\ p \in DOMAIN groups /\ ChildrenOf(DOMAIN groups, p) = {}
    /\ groups' = [q \in DOMAIN groups \ {p} |-> groups[q]]
    /\ UNCHANGED <<selectors, quota, imported>>

SetSelectors(s) ==
    /\ selectors' = s
    /\ UNCHANGED <<groups, quota, imported>>

SetSettings(q) ==
    /\ quota' = q
    /\ UNCHANGED <<groups, selectors, imported>>

GroupsNext ==
    \/ \E p \in Paths, cpu \in BOOLEAN : AddGroup(p, cpu) \/ EditGroup(p, cpu)
    \/ \E p \in Paths : DeleteGroup(p)
    \/ \E s \in SelectorLists : SetSelectors(s)
    \/ \E q \in BOOLEAN : SetSettings(q)

GroupsSpec == GroupsInit /\ [][GroupsNext]_groupsVars

-----------------------------------------------------------------------------
(* Properties. *)

Deliveries == {Render(groups, selectors, quota), RenderRulesOnly(groups, selectors, quota)}

\* "Caught here turns a coordinator that will not come back into a Candidate that will not be
\* applied" (ResourceGroupsSection.check): whichever way it is mounted, a Candidate that passes
\* starts Trino, and, where no path has a template in it, no query a selector claims is refused.
\* What a template is replaced with may be the name of a group with subgroups, which the check
\* has no way to see.  An import may stage a group without its parent, which the check counts
\* and the tree leaves out; a selector naming one is for the probe to find.
CheckedStarts ==
    /\ Check(groups, selectors, quota)
    /\ imported => \A i \in DOMAIN selectors : selectors[i].group \in InTree(DOMAIN groups)
    => \A files \in Deliveries :
          /\ TrinoStarts(files)
          /\ (\A p \in DOMAIN groups : Literal(p)) =>
                \A f \in files, facts \in SUBSET (DOMAIN selectors) :
                    Chosen(f, facts) # NoGroup => Reached(files, facts) # NoGroup

\* "A wrong prediction fails Verification on a healthy Cluster and rolls back a good Apply"
\* (selectors.py:5-8): whatever the selectors Apchi cannot evaluate turn out to do, and
\* whichever templates the other groups have, Verification accepts the group that a Cluster
\* running the delivered rules puts its query in, when the group it predicts is spelled out.
\* Where that has a template the prediction is wrong: model.py:23 lets "${USER}" in, and verify
\* compares it, as it is written, with the group Trino made of it.
PredictionIsRight ==
    /\ Check(groups, selectors, quota)
    /\ GroupFor(selectors).group # NoGroup => Literal(GroupFor(selectors).group)
    => \A files \in Deliveries : TrinoStarts(files) =>
            \A facts \in SUBSET (DOMAIN selectors) : Verify(selectors, Reached(files, facts))

\* "An Operator emptying this Section gets the same Cluster either way" (render_rules_only), and
\* "an orphan renders as nothing" (delete_group): the two ways of mounting send every query to
\* the same place, and no edit leaves a staged group out of the file.
RulesSayWhatIsStaged ==
    /\ \A facts \in SUBSET (DOMAIN selectors) :
          Reached(Render(groups, selectors, quota), facts)
            = Reached(RenderRulesOnly(groups, selectors, quota), facts)
    /\ ~imported => \A files \in Deliveries : ~IsEmpty(groups, selectors) =>
          \A f \in files : DOMAIN f.groups = DOMAIN groups

=============================================================================
