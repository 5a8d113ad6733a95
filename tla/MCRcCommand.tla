----------------------------- MODULE MCRcCommand ------------------------------
EXTENDS RcCommand

Outlet(type, family, group, device) ==
    [type |-> type, family |-> family, group |-> group, device |-> device]

(* Outlets that differ in one place, or in the order of group and device   *)
(* or of their bits; the first of type 1 has its codeword for off in       *)
(* common with one of type 2, the second with one of type 3.               *)
Row(a, b, c, d, e) == <<a, b, c, d, e>>
MCOutlets ==
    {Outlet("1", <<>>, Row("1", "0", "0", "0", "0"), Row("1", "0", "0", "0", "0")),
     Outlet("1", <<>>, Row("1", "0", "0", "0", "0"), Row("0", "0", "0", "1", "0")),
     Outlet("2", <<>>, <<"1">>, <<"2">>), Outlet("2", <<>>, <<"2">>, <<"1">>),
     Outlet("3", <<"o">>, <<"4">>, <<"4">>), Outlet("3", <<"o">>, <<"4">>, <<"3">>),
     Outlet("3", <<"o">>, <<"2">>, <<"4">>),
     Outlet("4", <<>>, <<"a">>, <<"1">>)}

MCFamily(o) == IF o.type = "3" THEN o.family ELSE <<"x">>

(* Each outlet on and off; commands that leave a part out or empty, give a *)
(* number or a state that does not exist, or have a part too many.         *)
MCCommands ==
    {<<<<o.type>>, MCFamily(o), o.group, o.device, <<s>>>> : o \in MCOutlets, s \in States}
      \cup {<<<<"1">>, <<>>, Row("1", "0", "0", "0", "0"), Row("1", "0", "0", "0", "0"), <<"1">>>>,
            <<<<"2">>, <<"x">>, <<"1">>, <<"2">>>>,
            <<<<"2">>, <<"x">>, <<"5">>, <<"1">>, <<"1">>>>,
            <<<<"3">>, <<"q">>, <<"1">>, <<"1">>, <<"1">>>>,
            <<<<"1">>, <<"x">>, <<"1">>, <<"2">>, <<"1">>>>,
            <<<<"2">>, <<"x">>, <<"1">>, <<"2">>, <<"2">>>>,
            <<<<"5">>, <<"x">>, <<"1">>, <<"2">>, <<"1">>, <<"1">>>>,
            <<<<"4">>, <<"x">>, <<"a">>, <<"7">>, <<"1">>>>}

MCJunk == {[j \in 1..5 |-> NUL], Row("1", "0", "0", "0", "0")}
===============================================================================
