--------------------------- MODULE MCCampaignStore ---------------------------
(* Instances of CampaignStore for TLC. *)
EXTENDS CampaignStore, TLC

CONSTANTS a, b, p, w1, w2

\* Two research nodes in parallel, both needed by the package.
ForkNodes == {a, b, p}
ForkDeps == (a :> {}) @@ (b :> {}) @@ (p :> {a, b})

\* One research node before the package.
ChainNodes == {a, p}
ChainDeps == (a :> {}) @@ (p :> {a})

\* A single node, in a campaign that has no package.
SoloNodes == {p}
SoloDeps == (p :> {})

\* Two review rounds, each ended by its convergence node, before the package.
RoundDeps == (a :> {}) @@ (b :> {a}) @@ (p :> {a, b})
TwoRounds == (a :> 1) @@ (b :> 2) @@ (p :> 2)

NoRounds == [n \in Nodes |-> 0]
WorkerSymmetry == Permutations(Workers)
=============================================================================
