------------------------------- MODULE MCChain -------------------------------
(***************************************************************************)
(* Block import, and the work reports of the blocks of one chain, side by  *)
(* side: an initial state chooses one of them, and only that one runs.     *)
(***************************************************************************)
EXTENDS Importer, WorkReports, TLC

CONSTANTS
    h1, h2, h3, h4,                          \* blocks
    r1, r1b, r2, r3, big, p1, p2, p3, p4     \* reports and packages

\* Two branches from the genesis block, one of which forks again.  A state is
\* the set of blocks it has seen, so that a state that mixes two branches is
\* told from a posterior state, and of "counted" once a block was counted in
\* its statistics in memory, which stays in what is computed from them.
MCParent == (h1 :> Genesis @@ h2 :> Genesis @@ h3 :> h1 @@ h4 :> h1)
MCState == {{Genesis} \cup seen : seen \in SUBSET (Header \cup {"counted"})}
MCUpdate(state, h) == state \cup {h}
MCWrite(state, update) == state \cup update
MCCounts(state, h) == state \cup {"counted"}
MCPosterior ==
    (Genesis :> {Genesis} @@ h1 :> {Genesis, h1} @@ h2 :> {Genesis, h2}
        @@ h3 :> {Genesis, h1, h3} @@ h4 :> {Genesis, h1, h4})

\* A chain of three packages, a second report of the first one with a later
\* anchor, and a report that asks for too much gas.
MCPackageOf == (r1 :> p1 @@ r1b :> p1 @@ r2 :> p2 @@ r3 :> p3 @@ big :> p4)
MCNeeds == (r1 :> {} @@ r1b :> {} @@ r2 :> {p1} @@ r3 :> {p1, p2} @@ big :> {})
MCGasOf == (r1 :> 2 @@ r1b :> 2 @@ r2 :> 2 @@ r3 :> 2 @@ big :> 5)
MCCoreOf == (r1 :> 0 @@ r1b :> 1 @@ r2 :> 1 @@ r3 :> 1 @@ big :> 1)
MCAnchorOf == (r1 :> 1 @@ r1b :> 2 @@ r2 :> 2 @@ r3 :> 2 @@ big :> 1)

VARIABLE part    \* the one that runs

ChainInit == part \in {"importer", "reports"} /\ Init /\ ReportsInit
ChainNext ==
    /\ UNCHANGED part
    /\ IF part = "importer" THEN Next ELSE UNCHANGED vars
    /\ IF part = "reports" THEN ReportsNext ELSE UNCHANGED reportsVars
ChainSpec == ChainInit /\ [][ChainNext]_<<part, vars, reportsVars>>

\* One of them alone, for the questions asked of it only.
OneImporterSpec == ChainSpec /\ part = "importer"
OneChainSpec == ChainSpec /\ part = "reports"
=============================================================================
