----------------------------- MODULE ByteQueue -----------------------------
(***************************************************************************)
(* What the users of a Buffer (zdq_buffer.h) see: bytes come out in the    *)
(* order in which they went in.                                            *)
(***************************************************************************)
EXTENDS Sequences, Naturals

VARIABLES
  bytes,    \* readable, oldest first
  input,    \* what was put last
  result    \* what was taken last

bqVars == <<bytes, input, result>>

From(n) == SubSeq(bytes, n + 1, Len(bytes))

Put == bytes' = bytes \o input' /\ UNCHANGED result
Drop(n) == bytes' = From(n) /\ UNCHANGED <<input, result>>
Take(n) == result' = SubSeq(bytes, 1, n) /\ bytes' = From(n) /\ UNCHANGED input

BQInit == bytes = <<>> /\ input = <<>> /\ result = <<>>

BQNext == Put \/ \E n \in 0..Len(bytes) : Drop(n) \/ Take(n)

BQSpec == BQInit /\ [][BQNext]_bqVars
=============================================================================
