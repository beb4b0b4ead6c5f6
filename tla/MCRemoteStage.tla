------------------------------ MODULE MCRemoteStage ------------------------------
EXTENDS RemoteStage

CONSTANTS s1, s2, d1

MCTracks   == {1, 2}
MCBrowsers == {AllCounters, {"framesReceived"}}
MCSounds   == {s1, s2}
MCDisplays == {d1}
MCEngines  == {{"image", "image-set"}}
MCScopes   == {"video", "sound", "cursor"}
MCSound    == {"sound"}
=============================================================================
