--------------------------- MODULE MCCompoundFile ---------------------------
(* Three names: "a" with three bytes of data, "bc" with none, and "x",    *)
(* which is not in the directory, so that close() can fail in copyFile.   *)
(* Two threads read sub-files through one reader, in chunks of one or two *)
(* bytes.                                                                  *)
EXTENDS CompoundFile, TLC

CONSTANTS r1, r2

MCNames == {<<97>>, <<98, 99>>, <<120>>}
MCContent == <<97>> :> <<11, 12, 13>> @@ <<98, 99>> :> <<>>
=============================================================================
