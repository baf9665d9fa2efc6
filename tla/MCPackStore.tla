---------------------------- MODULE MCPackStore ----------------------------
(* PackStore with a series of two or three leaves.  The second build of    *)
(* the file series has a larger object size, and the first is installed    *)
(* again after it.  The second build of the table series has a larger row  *)
(* cap but so small a byte cap that its packs have more objects than the   *)
(* survey estimates.  The readers change nothing the others see, so        *)
(* maintenance without one gets more commits and crashes, and with one     *)
(* either the one or the other.                                            *)
EXTENDS PackStore

Size(n) == [rows |-> n, fits |-> n]
Files == <<Size(2), Size(3)>>
Tables == <<Size(2), [rows |-> 3, fits |-> 1]>>

Scenario(t, ls, n, m, rs) ==
    [table |-> t, layouts |-> ls, commits |-> n, crashes |-> m, readers |-> rs]

MCScenarios ==
    {Scenario(FALSE, Append(Files, Size(2)), 2, 2, {}), Scenario(TRUE, Tables, 2, 2, {}),
     Scenario(FALSE, Files, 2, 0, {"pull"}),
     Scenario(TRUE, Tables, 1, 0, {"pull"}), Scenario(TRUE, Tables, 0, 1, {"pull"}),
     Scenario(FALSE, Files, 1, 0, {"publish"}), Scenario(FALSE, Files, 0, 1, {"publish"})}

=============================================================================
