--------------------------- MODULE MCAssetTracker ----------------------------
(* Small instances of the asset tracker for TLC.                            *)
EXTENDS AssetTracker

CONSTANTS m1, m2, i1, i2

MCMac == {m1, m2}
MCIp  == {i1, i2}
OneMac == {m1}
OneIp  == {i1}

NoFaults  == {}
AllFaults == FaultKind
=============================================================================
