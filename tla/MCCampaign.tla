----------------------------- MODULE MCCampaign -----------------------------
\* Two settings that share a protocol and one of another protocol.  The script
\* starts p1 and p2, operators p3 and p4.
EXTENDS Campaign, TLC

CONSTANTS p1, p2, p3, p4, d1, d2

ScriptProcs == {p1, p2}
MixedProcs  == {p1, p2, p3}
AllProcs    == {p1, p2, p3, p4}
Nobody      == {}
OneHand     == {p3}
TwoHands    == {p3, p4}
OneDriver   == {d1}
TwoDrivers  == {d1, d2}

Setting(protocol, runtime) == [protocol |-> protocol, runtime |-> runtime]
OneSetting == {Setting(1, 1)}
MCSettings == {Setting(1, 1), Setting(1, 2), Setting(2, 1)}

Symmetric == Permutations(ScriptProcs) \cup Permutations(TwoHands) \cup Permutations(TwoDrivers)
=============================================================================
