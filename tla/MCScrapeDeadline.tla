-------------------------- MODULE MCScrapeDeadline --------------------------
(* Instances of ScrapeDeadline for TLC. *)
EXTENDS ScrapeDeadline, TLC

\* Scrapes are interchangeable.
Symmetry == Permutations(Requests)
=============================================================================
