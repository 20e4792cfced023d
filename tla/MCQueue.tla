------------------------------- MODULE MCQueue -------------------------------
(* A small instance of Queue for TLC: all strategies, from no room to two. *)
EXTENDS Queue
AllSettings == {<<0, "backpressure">>, <<1, "backpressure">>, <<2, "backpressure">>,
                <<1, "dropping">>, <<1, "sliding">>, <<2, "sliding">>}
=============================================================================
