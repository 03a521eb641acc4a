------------------------- MODULE MCCompactProtocol -------------------------
(* Small sets of calls for CompactProtocol.                                *)
EXTENDS CompactProtocol

MCHeaders == {<<<<109, 49>>, 1, -1>>}

(* Ids that follow, equal, precede and lie one too far from each other.    *)
MCFields == {<<"bool", 1>>, <<"i16", 16>>, <<"i64", 32767>>, <<"struct", -5>>,
             <<"list", 17>>, <<"map", 2>>, <<"string", 2>>,
             <<"set", 17>>}

MCValues ==
    [byte |-> {-128}, i16 |-> {-32768}, i32 |-> {524287}, i64 |-> {-536870912, 63},
     string |-> {<<7, 200>>, <<1, 2, 3, 4>>},
     double |-> {<<0, 0, 0, 0, 0, 0, 240, 63>>},
     uuid |-> {<<1, 2, 3, 4, 5, 6, 7, 8, 9, 10, 11, 12, 13, 14, 15, 16>>}]

MCLists == {<<"bool", 1>>, <<"struct", 1>>, <<"byte", 15>>, <<"uuid", 1>>}

MCMaps == {<<"i16", "double", 0>>, <<"double", "bool", 1>>, <<"i32", "struct", 1>>}
=============================================================================
