----------------------------- MODULE BucketAppend -----------------------------
(***************************************************************************)
(* What a shard node promises the callers of ProposeAndWait (and through   *)
(* it the callers of RaftBucketLog.Append): the records of a bucket form   *)
(* one sequence, a call that succeeds is told the position of its own      *)
(* record, and a call that fails promises nothing about its record, which  *)
(* may have been appended and may even be appended later.                  *)
(***************************************************************************)
EXTENDS Integers, Sequences

CONSTANTS Calls, Buckets

VARIABLES
    order,    \* order[b]: the calls whose records bucket b holds, in order
    asked,    \* asked[c]: the buckets call c has begun to append to: at most one
    answer    \* answer[c]: Open, Failed or the position c was told

avars == <<order, asked, answer>>

Open == 0
Failed == -1

Positions(b, c) == {p \in DOMAIN order[b] : order[b][p] = c}

AInit ==
    /\ order = [b \in Buckets |-> <<>>]
    /\ asked = [c \in Calls |-> {}]
    /\ answer = [c \in Calls |-> Open]

Begin(c, b) ==
    /\ asked[c] = {}
    /\ asked' = [asked EXCEPT ![c] = {b}]
    /\ UNCHANGED <<order, answer>>

\* A record is appended once, whatever its caller has heard by then.
Place(c) ==
    \E b \in asked[c] :
        /\ Positions(b, c) = {}
        /\ order' = [order EXCEPT ![b] = Append(@, c)]
        /\ UNCHANGED <<asked, answer>>

Succeed(c) ==
    \E b \in asked[c] : \E p \in Positions(b, c) :
        /\ answer[c] = Open
        /\ answer' = [answer EXCEPT ![c] = p]
        /\ UNCHANGED <<order, asked>>

Fail(c) ==
    /\ asked[c] # {} /\ answer[c] = Open
    /\ answer' = [answer EXCEPT ![c] = Failed]
    /\ UNCHANGED <<order, asked>>

ANext ==
    \E c \in Calls :
        \/ \E b \in Buckets : Begin(c, b)
        \/ Place(c) \/ Succeed(c) \/ Fail(c)

ASpec == AInit /\ [][ANext]_avars
=============================================================================
