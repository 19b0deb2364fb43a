------------------------------- MODULE MCMedia -------------------------------
(* Uploads, shared folders and the media cache: a behaviour is one of one of *)
(* them, and they share the model values.                                    *)
(* Uploads: two sessions of two groups, and room for one large upload.       *)
(* Shares: one guest at a time, three sessions of two groups (so that a      *)
(* video of two parts, or of one part beside another upload, is possible),   *)
(* and room for one large video.                                             *)
(* Cache: two objects and two requests, and room for one object.             *)
EXTENDS Uploads, FolderShares, MediaCache, TLC

CONSTANTS a1, a2, b1, b2, k1

VARIABLE part

Symmetry == {f @@ g : f \in Permutations({a1, a2}), g \in Permutations({b1, b2})}

mediaVars == <<part, uploadVars, shareVars, cacheVars>>

MediaInit == /\ part \in {"uploads", "shares", "cache"}
             /\ UploadsInit /\ SharesInit /\ CacheInit

MediaNext ==
    /\ UNCHANGED part
    /\ \/ part = "uploads" /\ UploadsNext /\ UNCHANGED <<shareVars, cacheVars>>
       \/ part = "shares" /\ SharesNext /\ UNCHANGED <<uploadVars, cacheVars>>
       \/ part = "cache" /\ CacheNext /\ UNCHANGED <<uploadVars, shareVars>>

MediaSpec == MediaInit /\ [][MediaNext]_mediaVars
=============================================================================
