------------------------------- MODULE MCSpliter -------------------------------
(***************************************************************************)
(* Spliter on texts of up to four tokens: capacities of one to three, so  *)
(* that a packet of four needs a plan, and two concurrent segments.        *)
(***************************************************************************)
EXTENDS Spliter

\* Below the defaults 0.7, 0.8 and 0.9, so that the tiers differ for a capacity
\* of three tokens.
MCCapTenths == <<3, 5, 7>>
=============================================================================
