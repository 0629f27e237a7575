--------------------------- MODULE MCRemoteClient ---------------------------
(* Configs without and with retries: delays that grow to the greatest one,  *)
(* a first delay above it, and delays of 0 as in DefaultRetryBackoff.       *)
EXTENDS RemoteClient

Backoff(retries, min, max, scalar) ==
    [fetchTimeout |-> 3, retryTimeout |-> 2,
     retries |-> retries, min |-> min, max |-> max, scalar |-> scalar]

MCConfigs == {Backoff(0, 1, 1, 1), Backoff(1, 0, 10, 1),
              Backoff(3, 1, 4, 3), Backoff(2, 3, 1, 2)}

============================================================================
