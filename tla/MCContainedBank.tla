---- MODULE MCContainedBank ----
(* TLC instances of ContainedBank. *)
EXTENDS ContainedBank

\* Banks that a multiple of three fills or not, with a Wire that is faster and
\* slower than the timer, so that several values are under way.
MCParameters ==
  [width : {1, 2, 3, 5, 7, 9}, period : {3}, post : {1, 4}, latency : {1, 2, 4, 8}]
====
