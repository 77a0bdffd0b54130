------------------------------ MODULE DesignPod ------------------------------
(***************************************************************************)
(* The design pod: product, architecture and user experience, designed by   *)
(* three workers and revised by the one whose output is blocked, in a       *)
(* bounded number of rounds.  An output is any of the instance's; beside    *)
(* each design stands the product it was made for.                          *)
(***************************************************************************)
EXTENDS Naturals, FiniteSets

CONSTANTS
  Product,             \* records of requirements, musts and criteria
  Coverage,            \* sets of requirements a design may refer to
  MaxRevisionRounds    \* max_revision_rounds

ASSUME DesignAssumption == MaxRevisionRounds \in Nat

VARIABLES
  product, architecture, ux,   \* the outputs at hand
  revision,                    \* revisions so far
  bundle                       \* where the run stands, with the bundle it returned

design == <<product, architecture, ux, revision, bundle>>

Design == [covers : Coverage, for : Product]
NoDesign == [covers |-> {}, for |-> {}]
Fresh(covers, p) == [covers |-> covers, for |-> p]

\* The blocking findings of DesignBundleValidator.validate, by the role that is
\* asked to revise.
ProductFindings(p) ==
  ~ p.criteria \subseteq p.requirements \/ ~ p.musts \subseteq p.criteria
UnknownRequirement(p, d) == ~ d.covers \subseteq p.requirements
Uncovered(p, a, u) == ~ p.musts \subseteq a.covers \cup u.covers

IsBuildReady(p, a, u) ==
  ~ (ProductFindings(p) \/ UnknownRequirement(p, a) \/ UnknownRequirement(p, u) \/ Uncovered(p, a, u))

DesignInit ==
  /\ product \in Product
  /\ architecture \in {Fresh(c, product) : c \in Coverage}
  /\ ux \in {Fresh(c, product) : c \in Coverage}
  /\ revision = 0 /\ bundle = [state |-> "open"]

Return ==
  /\ bundle.state = "open" /\ IsBuildReady(product, architecture, ux)
  /\ bundle' = [state |-> "returned", product |-> product, architecture |-> architecture, ux |-> ux]
  /\ UNCHANGED <<product, architecture, ux, revision>>

\* Mutant: what was designed for the product before is kept.
KeptDesign(d, covers, p) == d

\* downstream of a revised product everything is designed anew
Redesigned(d, covers, p) == Fresh(covers, p)

\* the three outputs after _revise, for what the workers come up with
Revised(p, a, u) ==
  LET shared == Uncovered(product, architecture, ux) IN
  IF ProductFindings(product)
  THEN <<p, Redesigned(architecture, a, p), Redesigned(ux, u, p)>>
  ELSE <<product,
         IF UnknownRequirement(product, architecture) \/ shared THEN Fresh(a, product) ELSE architecture,
         IF UnknownRequirement(product, ux) \/ shared THEN Fresh(u, product) ELSE ux>>

\* nothing this model looks at has changed
SameBundle(r) ==
  r[1] = product /\ r[2].covers = architecture.covers /\ r[3].covers = ux.covers

\* a bundle that is the same as before, its wording included, is no progress
Revise(p, a, u, reworded) ==
  LET r == Revised(p, a, u) IN
  /\ bundle.state = "open" /\ ~IsBuildReady(product, architecture, ux)
  /\ revision < MaxRevisionRounds
  /\ IF SameBundle(r) /\ ~reworded
     THEN bundle' = [state |-> "failed"] /\ UNCHANGED <<product, architecture, ux, revision>>
     ELSE /\ product' = r[1] /\ architecture' = r[2] /\ ux' = r[3]
          /\ revision' = revision + 1 /\ UNCHANGED bundle

\* the rounds are exhausted, or a worker cannot revise or raises
GiveUp ==
  /\ bundle.state = "open"
  /\ bundle' = [state |-> "failed"]
  /\ UNCHANGED <<product, architecture, ux, revision>>

DesignNext ==
  \/ Return
  \/ \E p \in Product, a, u \in Coverage, reworded \in BOOLEAN : Revise(p, a, u, reworded)
  \/ GiveUp

DesignSpec == DesignInit /\ [][DesignNext]_design

-----------------------------------------------------------------------------
\* The pod's outputs are well typed and its rounds bounded.
DesignTypeOK ==
  /\ product \in Product \cup {NoDesign}
  /\ {architecture.covers, ux.covers} \subseteq Coverage
  /\ revision \in 0..MaxRevisionRounds
  /\ bundle.state \in {"open", "returned", "failed"}

\* Every design in a returned bundle was made for the product in it, not for one
\* it superseded, and together they trace every MUST requirement to a criterion
\* and to a design, whichever of the three was revised in which round
\* ("Never keep architecture/UX that was produced against a superseded PRD").
BundleIsCoherent ==
  bundle.state = "returned" =>
    /\ bundle.architecture.for = bundle.product /\ bundle.ux.for = bundle.product
    /\ bundle.product.musts \subseteq
         bundle.product.criteria \cap (bundle.architecture.covers \cup bundle.ux.covers)
=============================================================================
