------------------------------ MODULE MCLeased ------------------------------
(***************************************************************************)
(* Small pools for Leased: two consumers on one producer's ring, a pool    *)
(* that does not fill its rings, two producers, and a declaration without  *)
(* whole blocks.                                                           *)
(***************************************************************************)
EXTENDS Leased

Pool(p, c, capacity, batch) ==
  [New(8) EXCEPT !.topology = "Mpmc", !.codec = "Leased", !.producers = p, !.consumers = c,
                 !.batch = batch, !.capacity = Some(capacity)]
Pools == {Pool(1, 2, 4, 2), Pool(1, 1, 3, 1), Pool(2, 1, 1, 1), Pool(1, 1, 3, 2)}
Commits(d) == CASE d.producers = 2 -> 1 [] d.consumers = 2 -> 2 [] OTHER -> 4
=============================================================================
