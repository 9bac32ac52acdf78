--------------------------- MODULE MCIngestBuffer ---------------------------
(* Small instances of IngestBuffer for TLC. *)
EXTENDS IngestBuffer, TLC

CONSTANTS c1, c2, c3, k1, k2, k3

\* Three calls on two partitions.
MixedPayload == (c1 :> (1 :> <<k1>> @@ 2 :> <<>>)) @@ (c2 :> (1 :> <<k2>> @@ 2 :> <<>>))
             @@ (c3 :> (1 :> <<>> @@ 2 :> <<k3>>))

\* c2 retries what c1 sent; c3 has records in both partitions.
RetryPayload == (c1 :> (1 :> <<k1>> @@ 2 :> <<>>)) @@ (c2 :> (1 :> <<k1>> @@ 2 :> <<>>))
             @@ (c3 :> (1 :> <<k2>> @@ 2 :> <<k3>>))
=============================================================================
