------------------------------ MODULE MCGuestHeap ------------------------------
(* GuestHeap on a machine of 20 addresses, a granule of 4 and an         *)
(* errno slot of 2, in the proportions of the code's 2^32, 8 and 4.        *)
EXTENDS GuestHeap

(* A region that fills memory, one that ends off the granule, one too      *)
(* small for errno, and an empty one.                                      *)
MCRegions == { <<4, 16>>, <<8, 11>>, <<8, 1>>, <<4, 0>> }

(* 0 and 17 are the sizes whose rounding is special: rounding 17 wraps     *)
(* to 0.                                                                   *)
MCRequests == { 0, 1, 2, 5, 17 }
================================================================================
