-------------------------- MODULE MCArchivePipeline --------------------------
(***************************************************************************)
(* Values for model-checking ArchivePipeline.                              *)
(***************************************************************************)
EXTENDS ArchivePipeline

CONSTANTS c1, c2

MCContent == {c1, c2}
MCLarge   == {c2}

Record(h, b) == [decodes |-> TRUE, hash |-> h, bytes |-> b]

GoodOnes   == {Record(c, c) : c \in Content}
Mismatched == {Record(c2, c1)}
NotAHash   == {Record(MalformedHash, c1)}
Junk       == {[decodes |-> FALSE, hash |-> MalformedHash, bytes |-> c1]}

(* Every kind of refusal beside one good record. *)
WireLoss == {Record(c1, c1)} \cup Mismatched \cup NotAHash \cup Junk

(* Both sizes of record, a mismatch that isolates its fetch, and junk. *)
WireLive == GoodOnes \cup Mismatched \cup Junk

(* One good record, and two refused for different reasons. *)
WireRefused == {Record(c1, c1)} \cup Mismatched \cup NotAHash
=============================================================================
