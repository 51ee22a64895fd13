------------------------------ MODULE MCProgress ------------------------------
(***************************************************************************)
(* What must happen in the end: tickets reach the peers, imports end, and  *)
(* values are removed.  An initial state chooses the distribution of       *)
(* tickets or the states database, and only that one runs, fairly.         *)
(***************************************************************************)
EXTENDS TicketDistribution, TLC

CONSTANTS a, b, c, x   \* tickets

\* c is a ticket of the epoch after the one of a, b and x.
MCEpochOf == [t \in Ticket |-> IF t = c THEN 2 ELSE 1]

VARIABLES
    part,       \* the one that runs
    parent, best, lastFinalized, unfinalized, finality, pruned, restarts,
    leafs, refs, disk, cleanup, stray, pc, import, failures

\* As in MCData: a header is the number of its import.
Database == INSTANCE HybridStates WITH
    Header <- 1..4, Genesis <- 0, NotImported <- None, NoFinality <- None, Depth <- 1, MaxRestarts <- 0,
    Key <- {"k1", "k2"}, Value <- {"v1"}, Empty <- None, NoState <- None, NoDelta <- None,
    MaxWrites <- 1, MaxWriteFailures <- 0, MaxRemovalFailures <- 1
InOrder == \A h \in 1..4 : import'.header = h => \A g \in 1..(h - 1) : parent[g] # None
databaseVars == <<parent, best, lastFinalized, unfinalized, finality, pruned, restarts,
                  leafs, refs, disk, cleanup, stray, pc, import, failures>>

ProgressInit ==
    /\ part \in {"database", "tickets"}
    /\ Init
    /\ (part # "database" => leafs = [h \in 0..4 |-> IF h = 0 THEN [k \in {"k1", "k2"} |-> None] ELSE None])
    /\ Database!Init
ProgressNext ==
    /\ UNCHANGED part
    /\ IF part = "tickets" THEN Next ELSE UNCHANGED vars
    /\ IF part = "database" THEN Database!Next /\ InOrder ELSE UNCHANGED databaseVars

ProgressSpec ==
    /\ ProgressInit /\ [][ProgressNext]_<<part, vars, databaseVars>>
    /\ WF_vars(HandleMessage)
    /\ \A p \in Peer, t \in Ticket : SF_vars(SendsTo(p, t) /\ t \notin delivered[p])
    /\ WF_pc(Database!ImportGoesOn)
    /\ WF_databaseVars(Database!CleanupStep)

\* The distribution of tickets alone.
TicketsSpec == ProgressInit /\ [][ProgressNext]_<<part, vars, databaseVars>> /\ part = "tickets"

\* An import that began ends; queued removals are carried out or fail.
ImportsEnd == Database!ImportsEnd
RemovalsEnd == Database!RemovalsEnd
=============================================================================
