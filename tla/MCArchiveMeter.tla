--------------------------- MODULE MCArchiveMeter ----------------------------
(* Values for model-checking ArchiveMeter: records the archive keeps and   *)
(* one it can only refuse.                                                 *)
EXTENDS ArchiveMeter

CONSTANTS c1, c2

MCContent == {c1, c2}
MCLarge   == {}

Junk == [decodes |-> FALSE, hash |-> MalformedHash, bytes |-> c1]

WireMeter == {[decodes |-> TRUE, hash |-> c, bytes |-> c] : c \in Content} \cup {Junk}
=============================================================================
