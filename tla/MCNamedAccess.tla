---------------------------- MODULE MCNamedAccess ----------------------------
(* The constants of NamedAccess that a configuration file cannot write. *)
EXTENDS NamedAccess

Of(code, digits, type) == [code |-> code, digits |-> digits, type |-> type, bit |-> -1]
BitOf(code, digits, bit) == [code |-> code, digits |-> digits, type |-> "dot", bit |-> bit]

(* Words alone, in pairs, by the bit, and sharing a word; bits that share a *)
(* word unit, whose number depends on the profile; devices that no random   *)
(* request reads.                                                           *)
MCListTexts ==
    {Of("D", <<0>>, "U"), BitOf("D", <<1>>, 0), Of("D", <<0, 1>>, "D"),
     Of("X", <<1, 1>>, "BIT"), Of("M", <<2>>, "BIT"), Of("LZ", <<0>>, "D"), Of("TS", <<0>>, "BIT")}

MCTexts ==
    MCListTexts \cup
    {BitOf("D", <<1>>, 1), BitOf("D", <<1>>, 2), Of("D", <<2, 2>>, "U"), Of("D", <<5>>, "U"),
     Of("D", <<0>>, "none"), Of("D", <<0>>, "BIT"), Of("D", <<1>>, "S"), Of("X", <<0, 2>>, "BIT"),
     Of("G", <<0>>, "U"), BitOf("LZ", <<0>>, 0), Of("LZ", <<0>>, "U"), Of("LTN", <<0>>, "D"),
     Of("LTN", <<0>>, "U"), Of("LTS", <<0>>, "BIT"), Of("LTC", <<0>>, "BIT"),
     Of("LCN", <<0>>, "L"), Of("LCS", <<0>>, "BIT"), Of("M", <<>>, "BIT")}

MCInitialMem ==
    {Cell("D", 0, 0), Cell("D", 1, 1), Cell("D", 2, 0), Cell("X", 3, 0), Cell("X", 4, 0),
     Cell("M", 2, 0), Cell("LTN", 0, 2), Cell("LTC", 0, 0), Cell("LCN", 0, 1), Cell("LZ", 0, 3)}

(* Nothing, or the outcome of an earlier poll of a word that has changed.   *)
MCFormers == {<<>>, <<[text |-> Of("D", <<0>>, "U"), bits |-> <<FALSE, TRUE>>]>>}

MCVolatile == {Cell("D", 0, 0), Cell("D", 1, 0), Cell("X", 3, 0), Cell("LTS", 0, 0)}

=============================================================================
