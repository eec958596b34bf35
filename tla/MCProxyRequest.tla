--------------------------- MODULE MCProxyRequest ---------------------------
(***************************************************************************)
(* ProxyRequest for TLC.  Single bytes cut a stream at every place; the    *)
(* long chunks hold bytes that are not UTF-8, two events, and an event     *)
(* with an oversized rest, with and without a line end.                    *)
(***************************************************************************)
EXTENDS ProxyRequest

MCChunks ==
  {<<"CR">>, <<"LF">>, <<"usage">>} \cup
  {<<"usage", "LF", "invalid">>,
   <<"LF", "LF", "usage", "LF", "LF">>,
   <<"LF", "LF", "text", "text", "text", "text", "text">>,
   <<"LF", "LF", "text", "LF", "text", "text", "text">>}
=============================================================================
