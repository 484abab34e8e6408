------------------------------- MODULE MCLayout ------------------------------
(***************************************************************************)
(* The configurations of the runs of Layout.                               *)
(***************************************************************************)
EXTENDS Layout

\* Those of the examples: docker and local evmd (reusing the prepared layout or not),
\* reth, allegro, Tempo and Tempo in docker; then PatchImage in docker, by the
\* workflow, and locally from a directory of its own.
Working ==
  [family : {"cosmos"}, docker : BOOLEAN, skip : BOOLEAN, patch : {"off"}, out : {"same"}]
    \cup [family : {"reth", "allegro"}, docker : {FALSE}, skip : BOOLEAN, patch : {"off"},
          out : {"inside"}]
    \cup [family : {"tempo"}, docker : BOOLEAN, skip : BOOLEAN, patch : {"off"},
          out : {"inside"}]
    \cup [family : {"cosmos"}, docker : {TRUE}, skip : BOOLEAN,
          patch : {"default", "given"}, out : {"same", "inside"}]
    \cup [family : {"cosmos", "reth"}, docker : {FALSE}, skip : BOOLEAN, patch : {"given"},
          out : {"apart"}]

\* PatchImage locally, with the source left to its default.
LocalDefault ==
  [family : {"cosmos"}, docker : {FALSE}, skip : BOOLEAN, patch : {"default"},
   out : {"same", "inside"}]
=============================================================================
