------------------------------- MODULE MCWebhook -------------------------------
(* Instances of WebhookWorker for TLC. *)
EXTENDS WebhookWorker, TLC

OneOwner == [e \in Events |-> 1]
\* Each event has a tenant of its own.
OwnOwner == [e \in Events |-> e]

NoLocks == {{}}
AnyLocks == SUBSET Events

\* A status of each kind, with the ones next to the borders between them.
AllResponses == {101, 200, 299, 302, 404, 408, 425, 429, 499, 500, 599, 600}
FewResponses == {200, 302, 503}
TwoResponses == {200, 503}

\* No header, a usable one, one above the maximum delay, one beyond a duration.
AllRetryAfters == {-1, 2, 5, 9}
NoRetryAfter == {-1}

WorkerSymmetry == Permutations(Workers)
=============================================================================
