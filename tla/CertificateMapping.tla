------------------------- MODULE CertificateMapping -------------------------
(***************************************************************************)
(* The Certificate Mapping Section: one pattern an Operator stages, the    *)
(* patterns an Admin keeps through a migration, the rule list rendered     *)
(* from them, and a list written by hand read back at Adoption.  Trino     *)
(* takes the first rule that matches a principal, and refuses a principal  *)
(* no rule matches.                                                        *)
(*                                                                         *)
(* A rule is what it does: the identity it derives for each principal it   *)
(* matches.  It is plain unless it says more than a pattern, a user and a  *)
(* case, which Apchi has no place for; such a rule refuses who it matches. *)
(***************************************************************************)
EXTENDS Naturals, Sequences, SequencesExt

CONSTANTS
    Self,               \* the name Apchi authenticates with
    Principals,         \* every name presented, Self among them
    Derived,            \* the identities a rule may derive
    MaxPreserved,       \* bound: MAX_PRESERVED_MAPPINGS
    MaxHandRules        \* bound: rules in a list written by hand

ASSUME CertificateMappingAssumption ==
    /\ Self \in Principals /\ Principals \subseteq Derived
    /\ MaxPreserved \in Nat /\ MaxHandRules \in Nat

VARIABLES
    mapping,        \* the staged pattern: no rule, or one
    keptPatterns,   \* the Admin value preserved_certificate_mappings
    adopted         \* history: the list the Cluster was adopted from, until an edit

mappingVars == <<mapping, keptPatterns, adopted>>

Patterns == UNION {[P -> Derived] : P \in SUBSET Principals}
PlainRules == [maps : Patterns, plain : {TRUE}]
HandRules == [maps : Patterns, plain : BOOLEAN]
PlainLists == SeqOf(PlainRules, MaxPreserved)

-----------------------------------------------------------------------------

ReservedRule == [maps |-> [p \in {Self} |-> Self], plain |-> TRUE]
UnchangedRule == [maps |-> [p \in Principals |-> p], plain |-> TRUE]

\* Apchi's own rule, the Operator's, the Admin's, and the one that leaves every name alone.
MappingRules(m, kept) == <<ReservedRule>> \o m \o kept \o <<UnchangedRule>>

\* Mutant of ParsedMapping: Apchi's own rules are looked for anywhere in the list.
ParsedMappingAnywhere(rules) ==
    LET body == SelectSeq(rules, LAMBDA r : r \notin {ReservedRule, UnchangedRule})
        operator == SelectInSeq(body, LAMBDA r : r.plain)
    IN  [mapping |-> IF operator = 0 THEN <<>> ELSE <<body[operator]>>,
         complete |-> \A i \in DOMAIN body : i = operator]

\* Apchi's own rules are dropped where it writes them and nowhere else; the first plain rule of
\* the rest is the Operator's, and anything more is unaccounted for.
ParsedMapping(rules) ==
    LET rest == IF rules # <<>> /\ Head(rules) = ReservedRule THEN Tail(rules) ELSE rules
        body == IF rest # <<>> /\ Last(rest) = UnchangedRule THEN Front(rest) ELSE rest
        operator == SelectInSeq(body, LAMBDA r : r.plain)
    IN  [mapping |-> IF operator = 0 THEN <<>> ELSE <<body[operator]>>,
         complete |-> \A i \in DOMAIN body : i = operator]

\* The identity Trino gives a principal, in a set; empty when it refuses.
Named(rules, p) ==
    LET i == SelectInSeq(rules, LAMBDA r : p \in DOMAIN r.maps)
    IN  IF i = 0 \/ ~rules[i].plain THEN {} ELSE {rules[i].maps[p]}

-----------------------------------------------------------------------------

\* A Cluster with no list of its own, or one adopted, which takes a list wholly accounted for.
MappingInit ==
    /\ keptPatterns = <<>>
    /\ \/ mapping = <<>> /\ adopted = <<>>
       \/ /\ adopted \in {r \in SeqOf(HandRules, MaxHandRules) \ {<<>>} : ParsedMapping(r).complete}
          /\ mapping = ParsedMapping(adopted).mapping

SetMapping(r) ==
    /\ mapping' = <<r>> /\ adopted' = <<>>
    /\ UNCHANGED keptPatterns

ClearMapping ==
    /\ mapping # <<>>
    /\ mapping' = <<>> /\ adopted' = <<>>
    /\ UNCHANGED keptPatterns

SetPreservedMappings(patterns) ==
    /\ keptPatterns' = patterns /\ adopted' = <<>>
    /\ UNCHANGED mapping

MappingNext ==
    \/ \E r \in PlainRules : SetMapping(r)
    \/ ClearMapping
    \/ \E patterns \in PlainLists : SetPreservedMappings(patterns)

MappingSpec == MappingInit /\ [][MappingNext]_mappingVars

-----------------------------------------------------------------------------

\* "Apchi's own identity, kept working whatever the Operator writes" and "Apchi denies nobody"
\* (generator.py), and the list read back: no pattern, staged or preserved, takes Apchi's name or
\* refuses a principal; the list Apchi writes reads back as the pattern it was written from; and
\* whoever the adopted list named keeps the name until somebody edits.  Whom that list refused
\* is refused no longer.
MappingHolds ==
    LET rules == MappingRules(mapping, keptPatterns)
    IN  /\ Named(rules, Self) = {Self}
        /\ \A p \in Principals : Named(rules, p) # {}
        /\ keptPatterns = <<>> =>
              ParsedMapping(rules) = [mapping |-> mapping, complete |-> TRUE]
        /\ \A p \in Principals \ {Self} :
              Named(adopted, p) # {} => Named(rules, p) = Named(adopted, p)

=============================================================================
