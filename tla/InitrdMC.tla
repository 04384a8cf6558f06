------------------------------ MODULE InitrdMC ------------------------------
(* Archives with files of zero, one and several blocks, one of them holding  *)
(* what looks like an archive, and a directory two levels deep.              *)
EXTENDS Initrd

File(name, size, nested) ==
    [name |-> name, prefix |-> <<>>, kind |-> NormalFile, size |-> size, time |-> 1, nested |-> nested]
Dir(name) ==
    [name |-> name, prefix |-> <<>>, kind |-> Directory, size |-> 0, time |-> 2, nested |-> FALSE]

Flat == <<File(<<"a">>, 3, TRUE), File(<<"b">>, 0, FALSE), File(<<"c">>, 2, FALSE)>>
Tree == <<Dir(<<"d", "/">>), File(<<"d", "/", "a">>, 2, TRUE), Dir(<<"d", "/", "e", "/">>),
          File(<<"d", "/", "e", "/", "b">>, 1, FALSE), File(<<"d", "c">>, 3, FALSE)>>

MCArchives == {Flat, Tree}
MCPaths == {<<>>, <<"nested">>, <<"a">>, <<"/", "c">>, <<"d", "/", "a">>, <<"/", "d">>, <<"d", "/", "e", "/">>, <<"d", "c">>}
MCOffsets == {-2, 1}
MCCounts == {1, 7}

ASSUME TidyAssumption == \A list \in Archives : Tidy(list)
=============================================================================
