-------------------------- MODULE MCDeliveryQueue --------------------------
(***************************************************************************)
(* An instance of DeliveryQueue, in units of 5 s, with a budget that every *)
(* backoff fits in.                                                        *)
(***************************************************************************)
EXTENDS DeliveryQueue, TLC

CONSTANTS e1, e2

\* Two short delays, so that retries go through to the end.
ShortBackoff == <<1, 2>>

\* Deliveries are interchangeable.
EntrySymmetry == Permutations(Entries)
=============================================================================
