---------------------------- MODULE MCProfileRecord ----------------------------
(* Instances of ProfileRecord for TLC.                                      *)
EXTENDS ProfileRecord

CONSTANTS u1, p1, p2

Surrounding(kinds, asked, overlap, flaky, threads, kills) ==
  [users |-> {u1}, kinds |-> kinds, asked |-> asked, overlap |-> overlap,
   flaky |-> flaky, threads |-> threads, kills |-> kills]

\* One handler at a time while partners fail; the same with two partners; one
\* that saves whole rows beside enrolments, with and without a partner; syncs
\* beside forms and refreshes, in threads that are killed, and in processes while
\* the partner fails.
Mixed ==
  {Surrounding(Kinds, {p1}, "none", TRUE, FALSE, FALSE),
   Surrounding({"sync", "network"}, {p1, p2}, "none", TRUE, FALSE, FALSE),
   Surrounding(Kinds \ {"sync"}, {}, "columns", FALSE, FALSE, FALSE),
   Surrounding({"sync", "primary", "remove", "enrol"}, {p2}, "columns", FALSE, FALSE, FALSE),
   Surrounding({"sync", "form", "refresh"}, {p2}, "all", FALSE, TRUE, TRUE),
   Surrounding({"sync", "form", "refresh"}, {p1}, "all", TRUE, FALSE, TRUE)}
================================================================================
