------------------------------ MODULE MCClient ------------------------------
(***************************************************************************)
(* Instances of Client for TLC.                                            *)
(***************************************************************************)
EXTENDS Client, TLC

CONSTANTS c1, c2, k1, v1, v2, n1, n2

Command(kind, sequence, v) == [kind |-> kind, sequence |-> sequence, key |-> k1, value |-> v]
GetK == Command("Get", 0, NoValue)

SetDeleteAndRead == c1 :> <<Command("Set", 1, v1), Command("Delete", 2, NoValue)>> @@ c2 :> <<GetK>>
SetAndReadTwice  == c1 :> <<Command("Set", 1, v1)>> @@ c2 :> <<GetK, GetK>>
SetBoth          == c1 :> <<Command("Set", 1, v1)>> @@ c2 :> <<Command("Set", 1, v2), GetK>>
SkipsTheFirst    == c1 :> <<Command("Set", 2, v1)>> @@ c2 :> <<GetK>>
Wanted   == {SkipsTheFirst, SetDeleteAndRead, SetAndReadTwice, SetBoth}
Misread  == {SkipsTheFirst, SetDeleteAndRead, SetAndReadTwice}

Order == <<n1, n2>>
=============================================================================
