--------------------------- MODULE MCChunkDownload ---------------------------
(***************************************************************************)
(* ChunkDownload on small files.                                           *)
(***************************************************************************)
EXTENDS ChunkDownload

\* Crashes, or a part file that others touch: not both in one behaviour.
Crashing == Faults \ {"remove"}
Touched == Faults \ {"crash"}

Download(size, chunks, retries, validated, fault) ==
  [size : {size}, known : {TRUE}, chunks : {chunks}, retries : {retries},
   validated : validated, fault : fault]

Unsized(size) ==
  [size : {size}, known : {FALSE}, chunks : {1}, retries : {0},
   validated : BOOLEAN, fault : {Crashing, Touched}]

\* One chunk; more chunks asked for than bytes; a first chunk that is longer;
\* three chunks and nothing wrong; a size nobody has told.
SmallPlans ==
  Download(2, 1, 1, BOOLEAN, {Crashing, Touched})
  \cup Download(2, 4, 1, {TRUE}, {Crashing, Touched})
  \cup Download(3, 2, 0, {TRUE}, {Crashing, Touched})
  \cup Download(4, 3, 0, {TRUE}, {{}})
  \cup Unsized(3)

BothFaults == Download(2, 2, 0, {TRUE}, {{"crash", "remove"}})
OnlyChange == Download(2, 2, 0, {TRUE}, {{"change"}})
=============================================================================
