----------------------------- MODULE MCScheduler -----------------------------
(* Instances of Scheduler for TLC.                                         *)
EXTENDS Scheduler
CONSTANTS site, sub, group, track, r1

MCSites == {site}
MCSubscriptions == {sub}
MCNodeGroups == {group}
MCTrackings == {track}
MCRequests == {<<sub, r1>>}
MCNone == {}
MCKindRequests == {<<group, r1>>, <<track, r1>>}
=============================================================================
