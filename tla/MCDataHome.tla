----------------------------- MODULE MCDataHome -----------------------------
(* Two processes on one directory, nested folders, and a symbol that splits. *)
EXTENDS DataHome

Two == <<"legacy", "legacy-1">>
SomeSymbols == {"a", "b"}
Listing == [s \in SomeSymbols |-> IF s = "a" THEN 1 ELSE 2]
Splits == [s \in SomeSymbols |-> IF s = "a" THEN 3 ELSE 0]
TwoProviders == <<"tiingo", "yfinance">>
Whole == {[symbol |-> "a", entry |-> 1, exit |-> 0], [symbol |-> "b", entry |-> 2, exit |-> 3]}
Part == {[symbol |-> "a", entry |-> 1, exit |-> 0]}
Lists == [d \in {"whole", "part"} |-> IF d = "whole" THEN Whole ELSE Part]
Nested == [f \in {"index", "sector"} |-> IF f = "index" THEN "top" ELSE "index"]
Shown == [u \in {"builtin"} |-> "sector"]
CustomNames == {"legacy", "legacy-1"}
AllNames == CustomNames \cup {"builtin"}

(* Universes and folders with a few requests of their own, and some together.*)
Homes ==
    {[universes |-> 2, folders |-> 0, prices |-> 0, signals |-> 0],
     [universes |-> 2, folders |-> 1, prices |-> 0, signals |-> 0],
     [universes |-> 1, folders |-> 3, prices |-> 0, signals |-> 0]}

(* The same of prices and signals.                                           *)
Markets ==
    {[universes |-> 0, folders |-> 0, prices |-> 2, signals |-> 0],
     [universes |-> 0, folders |-> 0, prices |-> 1, signals |-> 1],
     [universes |-> 0, folders |-> 0, prices |-> 0, signals |-> 3]}

Mixes == Homes \cup Markets

(* Two jobs of prices and an exit.                                           *)
JobsAndExit == {[universes |-> 0, folders |-> 0, prices |-> 3, signals |-> 0]}
=============================================================================
