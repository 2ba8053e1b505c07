--------------------------- MODULE MCLoginAttempt ---------------------------
(* Instances of LoginAttempt: a handful of texts, and the settings bodies an *)
(* administrator may send.                                                   *)
EXTENDS LoginAttempt, TLC

MCNumerals == {"1", "2"}
MCNumberOf == [n \in MCNumerals |-> IF n = "1" THEN 1 ELSE 2]

Number(text) == [type |-> "NUMBER", value |-> text]
Text(text) == [type |-> "STRING", value |-> text]

MCSeedLimit == Number("2")

\* Every kind of body: the lock on, and off by a text of spaces; a limit that is a
\* number, one that is no number, and a body that checkValue refuses.
AnyMode == {SeedMode, Text("")}
AnyLimit == {Number("1"), Text("many"), Number("many")}

\* Bodies that keep the lock in force.
OnlyOn == {SeedMode}
OnlyNumbers == {Number("1"), Number("2")}
OnlySeed == {SeedLimit}

RequestSymmetry == Permutations(Requests)

=============================================================================
