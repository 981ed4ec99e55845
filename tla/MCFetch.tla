------------------------------- MODULE MCFetch -------------------------------
(***************************************************************************)
(* Fetch for TLC: two sources that share a symbol, a list with a symbol    *)
(* that makes no URL and one that repeats a symbol, a batch with fewer     *)
(* slots than workers, answers with rows out of order, missing or          *)
(* worthless, and a configuration with usable proxies, one with a proxy    *)
(* that is no URL, and one without proxies.                                *)
(***************************************************************************)
EXTENDS Fetch

CONSTANTS s1, s2, A, Bad, p1, p2, p3, noUrl

Row(t, close) == [timestamp |-> t, close |-> close, volume |-> t]

MCBodies == {
  [previous |-> 0, rows |-> << Null, Row(1, 0) >>],
  [previous |-> 3, rows |-> << Row(2, 2), Null, Row(1, 4) >>] }

MCLists == { <<>>, << A, Bad >>, << A, A >> }

MCAcceptedLists == { << p1, p2 >>, << noUrl >> }
=============================================================================
