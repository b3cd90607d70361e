---------------------------- MODULE MCWatchTable ----------------------------
(***************************************************************************)
(* Small instances of WatchTable.  Byte 1 is '/', 2 is 'a' and 3 is 'b'.   *)
(***************************************************************************)
EXTENDS WatchTable

CONSTANTS i1, i2

MCInodes == {i1, i2}
MCEntries == {"f"}

a == <<2>>
b == <<3>>

\* Two files, one after the other in one call, and each on its own; a new
\* prefix that collides with the other name, and one that extends the old.
MCNames == {a, b}
MCFileLists == {<<a>>, <<b>>, <<a, b>>}
MCReplacements == {<<a, b>>, <<b, b \o a>>}
=============================================================================
