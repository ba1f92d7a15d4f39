------------------------------ MODULE MCBatch ------------------------------
(* Batch on small instances.                                               *)
EXTENDS Batch

(* Music ids are numbered as they first appear in the request.  Up to      *)
(* three songs, every pattern of duplicates; of four, the duplicates that  *)
(* meet a prefetch in the first slot, in the second slot and in both.      *)
MCRequests ==
  {r \in UNION {[1..n -> 1..3] : n \in 1..3} :
     \A k \in DOMAIN r : \A m \in 1..(r[k] - 1) : \E l \in 1..(k - 1) : r[l] = m}
  \cup {<<1, 2, 3, 4>>, <<1, 1, 2, 3>>, <<1, 2, 1, 3>>, <<1, 2, 2, 1>>}
=============================================================================
