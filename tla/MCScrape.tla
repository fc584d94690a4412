------------------------------ MODULE MCScrape ------------------------------
(* Instances of Scrape for TLC. *)
EXTENDS Scrape
=============================================================================
