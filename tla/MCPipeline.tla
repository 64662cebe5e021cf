----------------------------- MODULE MCPipeline -----------------------------
(***************************************************************************)
(* Instances of Pipeline for TLC: a plain file, one that is split into two *)
(* parts and an archive of two files, together in one process, or some of  *)
(* them while the process is stopped and killed.                           *)
(***************************************************************************)
EXTENDS Pipeline, TLC

CONSTANTS f1, big, a1, p1, p2, x1, x2

MCPlain == {f1}
MCBig == {big}
MCArchive == {a1}
MCParts == (big :> {p1, p2}) @@ (a1 :> {x1, x2})

MCScenes ==
  {[source |-> {f1, big, a1}, unzip |-> FALSE, kills |-> 0, stops |-> 0],
   [source |-> {f1, big}, unzip |-> FALSE, kills |-> 1, stops |-> 1]}
  \cup [source : {{a1}}, unzip : BOOLEAN, kills : {1}, stops : {1}]
=============================================================================
