---------------------------- MODULE MCAccumulation ----------------------------
(***************************************************************************)
(* A small instance of Accumulation: service 1 is the manager and has      *)
(* funds, service 2 has other roles and a preimage of any history, and     *)
(* service 3 may be ejected by service 1.                                  *)
(***************************************************************************)
EXTENDS Accumulation

CONSTANTS code, blob, key

MCSlot == 10
MCCode == {blob, 1}

Account(codeHash, blobs, lookup, storage, surplus) ==
    LET items == 2 * Keys(lookup) + Keys(storage)
        bytes == Keys(lookup) * (LookupEntryBytes + PreimageBytes)
                    + Keys(storage) * (StorageEntryBytes + KeyBytes) + SumFunction(storage)
    IN  [info |-> [code |-> codeHash, balance |-> Threshold(items, bytes, 0) + surplus,
                   items |-> items, bytes |-> bytes, gratis |-> 0, last |-> 0],
         blobs |-> blobs, lookup |-> lookup, storage |-> storage]

Nobody == [info |-> None, blobs |-> {}, lookup |-> <<>>, storage |-> <<>>]

\* Requested, available, unavailable (expired or not), available again.
Histories == {<<>>, <<3>>, <<3, 5>>, <<3, 8>>, <<1, 3, 8>>, <<1, 7, 8>>}

First == Account(code, {code}, (code :> <<0>>), <<>>, 260)
Asking == Account(code, {code}, (code :> <<0>> @@ blob :> <<>>), <<>>, 100)

Accounts(first, second) ==
    (1 :> first
        @@ 2 :> second
        @@ 3 :> Account(1, {blob}, (blob :> <<0, 1>>), <<>>, 0)
        @@ [s \in Service \ {1, 2, 3} |-> Nobody])

SecondAccounts ==
    {Account(code, {code}, (code :> <<0>>), (key :> 1), 120)}
        \cup {Account(code, IF h = <<>> THEN {code} ELSE {code, blob},
                      (code :> <<0>> @@ blob :> h), <<>>, 70) : h \in Histories}

MCRolesNow == [manager |-> 1, delegator |-> 2, registrar |-> 2, auto |-> {2},
               assigners |-> (0 :> 1 @@ 1 :> 2)]
MCInitial == {[accounts |-> accounts, privileges |-> MCRolesNow] :
                accounts \in {Accounts(First, second) : second \in SecondAccounts}
                                \cup {Accounts(Asking, second) : second \in {First, Asking}}}
MCReports == {<<[service |-> 1, gas |-> 1]>>, <<[service |-> 1, gas |-> 1], [service |-> 3, gas |-> 1]>>}
MCCandidate == [s \in Service |-> IF s = 1 THEN 4 ELSE 5]
MCPrograms == {{"solicit", "forget", "provide", "provideFor"},
               {"checkpoint", "transfer", "new", "eject", "upgrade"},
               {"checkpoint", "solicit", "forget", "provide", "write", "transfer", "eject"},
               {"bless", "assign", "designate", "checkpoint", "burn"}}
\* Services provide for one another where service 1 asks for a preimage.
Matched == (state[1] = Asking) = ("provideFor" \in program)
MCRoles == {[MCRolesNow EXCEPT !.manager = 2], [MCRolesNow EXCEPT !.delegator = 1],
            [MCRolesNow EXCEPT !.registrar = 3, !.assigners = (0 :> 2 @@ 1 :> 1)]}
=============================================================================
