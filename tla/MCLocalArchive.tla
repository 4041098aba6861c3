--------------------------- MODULE MCLocalArchive ----------------------------
(* Two requests, two small payloads and a large one. *)
EXTENDS LocalArchive

CONSTANTS s1, s2, big

MCContent == {s1, s2, big}
MCLarge   == {big}
=============================================================================
