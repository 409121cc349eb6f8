---- MODULE MCLiveOrders ----
(* LiveOrders with two tokens. *)
EXTENDS LiveOrders
MCTokens == {1, 2}
====
