------------------------------ MODULE EmitSeq -------------------------------
(***************************************************************************)
(* Positions in the emission stream (internal/emission/types.go): a pair   *)
(* of the epoch of the process that wrote the entry and the commit index   *)
(* of the DATA_EVENT it stands for.  The bucket id is the same for all     *)
(* positions of a shard and is left out.                                   *)
(***************************************************************************)
EXTENDS Naturals

EmitSeqs == [epoch : Nat, idx : Nat]

\* The Go zero value EmitSeq{}: what a lookup of a missing key returns.
ZeroSeq == [epoch |-> 0, idx |-> 0]

\* The comparison spelled out in ValidateAck, in the notifier's loop and
\* tick, and in RebindByFingerprint: lexicographic, strict.
Newer(s, t) == \/ s.epoch > t.epoch
               \/ s.epoch = t.epoch /\ s.idx > t.idx
=============================================================================
