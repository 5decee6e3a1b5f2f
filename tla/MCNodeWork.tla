---------------------------- MODULE MCNodeWork -----------------------------
(* Instances of NodeWork for TLC.                                          *)
EXTENDS DeliverableReplay

(* Two project managers and a member.                                      *)
MCBootstrap == [p \in Principals |-> IF p = 3 THEN "member" ELSE "manager"]

=============================================================================
