---------------------------- MODULE MCUbootSlots ----------------------------
(***************************************************************************)
(* A device of two three-sector slots with one sector in front of them and *)
(* two behind, and four blobs: a short and a full FIT that fit a slot, one *)
(* too long for it, and a file that is no FIT.                             *)
(***************************************************************************)
EXTENDS UbootSlots

MCBlobs  == {"short", "full", "long", "junk"}
MCFit    == {"short", "full", "long"}
MCLength == [b \in MCBlobs |->
               CASE b = "short" -> 2 [] b = "full" -> 3
                 [] b = "long" -> 5 [] b = "junk" -> 1]
=============================================================================
