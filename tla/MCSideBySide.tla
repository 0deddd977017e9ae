---------------------------- MODULE MCSideBySide ----------------------------
EXTENDS SideBySide

MCChannelNames == {<<"#", "a">>, <<"#", "b">>, <<"#", "a", "b">>, <<"#", "b", ",", "#", "a">>,
                   <<"#", "c", " ", "d">>}

MCNames == {"ab", "ab-0", "a_b", "ab_"}
MCClean == {"ab", "ab-0"}
MCBase == [n \in MCNames |-> "ab"]
MCNumber == [n \in MCClean |-> IF n = "ab" THEN -1 ELSE 0]

MCHookOrder == <<"ns_waitreg", "ns_mxcheck", "ns_goodmail", "ns_guestnoreg", "sasl_blacklist", "os_defcon">>

MCTweaks == {<<"-", "t", "+", "c">>, <<"+", "k", "-", "n", "l">>, <<"k", "-", "k">>}
MCStatuses == {"q", "a", "o", "v"}
MCFlagSets == {{}, {"autoop", "op", "useprotect"}, {"useowner", "useprotect"},
               {"useowner", "useprotect", "autoop", "autovoice"}}
=============================================================================
