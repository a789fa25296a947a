------------------------------ MODULE MCExport ------------------------------
(* Export of a namespace three levels deep: a file of two blocks beside a   *)
(* directory, a file beside another one, and there a file and an empty one. *)
EXTENDS Export

MCRoot == "/"
MCDirs == {"/", "/d", "/d/e"}
MCFiles == {"f", "g", "h", "i"}
MCChildren == [d \in MCDirs |-> CASE d = "/" -> <<"f", "/d">>
                                  [] d = "/d" -> <<"/d/e", "g">>
                                  [] OTHER -> <<"h", "i">>]
MCBlocks == [f \in MCFiles |-> CASE f = "f" -> <<"b1", "b2">>
                                 [] f = "g" -> <<"b3">>
                                 [] f = "h" -> <<"b4">>
                                 [] OTHER -> <<>>]
MCHostLists == {<<>>, <<"slave1">>, <<"slave2", "slave1">>, <<"master">>}

=============================================================================
