--------------------------- MODULE MCGatewayVersions ---------------------------
EXTENDS GatewayVersions

Command(topic, parts) == [topic |-> topic, parts |-> parts]

(* An infrared command; commands for the four fixed outlets; a command of  *)
(* the later format, for the REV outlet a1.                                *)
Nec == Command("ir", <<1, 32, 7, 1, 0>>)
ForOutlet(typ, state) == Command("rc", <<typ, 0, 0, 0, state>>)
Later == Command("rc", <<4, 2, 1, 1, 1>>)

Alone == {"RC_1", "RC_1_1", "RC_2", "RC_3", "RC_3_WAN", "RC_4", "RC_4_DEL", "RC_4_1", "RC_5", "RC_6"}

(* Pairs: one name in two rooms, one in the same room, and two names in    *)
(* one room and in two.                                                    *)
Pairs == {<<"RC_4_DEL", "RC_3_WAN">>, <<"RC_4_1", "RC_1">>, <<"RC_6_USER_2", "RC_3_WAN">>, <<"RC_6", "RC_4_DEL">>}

Fleet(boards, commands, most) ==
    [boards |-> boards, commands |-> commands, faults |-> most]

MCFleets ==
    {Fleet(<<v>>, {Nec, Later, ForOutlet(1, 1), ForOutlet(2, 0), ForOutlet(3, 1),
                   ForOutlet(4, 0), ForOutlet(4, 1)}, 1) : v \in Alone}
      \cup {Fleet(<<v>>, {Nec}, 3) : v \in Alone}
      \cup {Fleet(p, {Nec}, 1) : p \in Pairs}
===============================================================================
