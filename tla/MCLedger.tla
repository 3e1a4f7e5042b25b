------------------------------ MODULE MCLedger ------------------------------
(* A small account for model checking AccountLedger.                       *)
EXTENDS AccountLedger

CONSTANTS a, b

TwoSymbols == <<a, b>>
OneSplit == {<<2, 1>>, <<1, 2>>}
FewQuotes ==
    {[tradable |-> TRUE, price |-> 20, cap |-> NoCap],
     [tradable |-> TRUE, price |-> 26, cap |-> NoCap],
     [tradable |-> TRUE, price |-> 20, cap |-> 1],
     [tradable |-> FALSE, price |-> 20, cap |-> NoCap]}
HostReports == {[cash |-> 30, lots |-> [s \in Symbols |-> IF s = a THEN 1 ELSE 0]]}
=============================================================================
