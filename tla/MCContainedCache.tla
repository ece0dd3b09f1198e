---- MODULE MCContainedCache ----
(* TLC instances of ContainedCache. *)
EXTENDS ContainedCache

\* Programs whose last request is fetched or not, with a storage that is faster
\* than the requests come, that meets them, and that is overtaken by them.
MCParameters == [max_refs : {1, 4, 5, 6}, rate : {2}, delay : 1 .. 7]
====
