-------------------------- MODULE AppendOnlyCatalog --------------------------
(***************************************************************************)
(* What publishing promises its callers, with everything else hidden: a    *)
(* catalogue of id+version tags in which a tag is bound once, to a package *)
(* that names that tag, and never changes again.                           *)
(***************************************************************************)
CONSTANTS
  Tags,       \* skill id + version pairs
  Packages,   \* package contents, one per digest
  TagOf,      \* the id and version a package's own manifest.yaml declares
  NoPackage   \* a tag nobody has published

VARIABLE published

TypeOK == published \in [Tags -> Packages \union {NoPackage}]

Init == published = [t \in Tags |-> NoPackage]

Bind(p) ==
  /\ published[TagOf[p]] = NoPackage
  /\ published' = [published EXCEPT ![TagOf[p]] = p]

Next == \E p \in Packages : Bind(p)

Spec == Init /\ [][Next]_published
=============================================================================
