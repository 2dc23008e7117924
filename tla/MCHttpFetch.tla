---------------------------- MODULE MCHttpFetch -----------------------------
(* Scripts that fetch twice: URLs at the limits of the buffers, and servers *)
(* that cut the same body up in several ways.                               *)
EXTENDS HttpFetch

Url(size, hostSize, port) ==
  [http |-> TRUE, size |-> size, host |-> "h", hostSize |-> hostSize, port |-> port, path |-> "/p"]
MCUrls ==
  {Url(9, 3, -1), Url(9, 4, 8080), Url(9, 5, 80), Url(10, 3, -1), Url(9, 3, 65616),
   [Url(9, 3, -1) EXCEPT !.http = FALSE]}

Bodies == {<<>>, <<<<1, 2>>>>, <<<<1>>, <<2, 3>>, <<4>>, <<5, 6>>, <<7, 8>>>>,
           <<<<1, 2, 3>>, <<4, 5, 6>>, <<7, 8>>>>, <<<<1, 0, 2>>, <<3>>>>}
MCReplies ==
  {[status |-> s[1], reason |-> s[2], segments |-> b, length |-> l, end |-> e] :
     s \in {<<200, "OK">>, <<404, "Not Found">>}, b \in Bodies, l \in {-1, 2, 8},
     e \in {"close", "reset", "silent"}}
  \union {[status |-> 0, reason |-> "", segments |-> <<>>, length |-> -1, end |-> e] :
            e \in {"close", "silent"}}
=============================================================================
