---------------------------- MODULE MCEngagements ----------------------------
(* Small instances of Profiles: one client and two workers.                  *)
EXTENDS ProfileProperties

CONSTANTS t1, t2, ann, wim, yaw

MCSkillSets == {{}, {"masonry"}}
Slots == Permutations(Txns)
=============================================================================
