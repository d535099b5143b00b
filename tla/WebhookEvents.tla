---------------------------- MODULE WebhookEvents ----------------------------
(***************************************************************************)
(* One Stripe event and its deliveries to POST /webhooks/stripe: the       *)
(* processing lock of five minutes, the handler's transaction, the         *)
(* completion marker of 72 hours, and what Stripe hears.                   *)
(*                                                                         *)
(* Every delivery is a request of its own, with its number as the token.   *)
(* Stripe retries what it did not hear answered with 200, an hour or more  *)
(* later; it may also send an event more than once.                        *)
(***************************************************************************)
EXTENDS Integers, FiniteSets, OwnedLock

CONSTANTS MaxDeliveries,  \* bound: deliveries of the event; the last meets no fault
          Faults          \* bound: the faults of this instance

Deliveries == 1..MaxDeliveries

ASSUME WebhookAssumption ==
  /\ MaxDeliveries \in Nat \ {0}
  /\ Free # Completed /\ {Free, Completed} \cap Deliveries = {}
  /\ Faults \subseteq {"fail", "late", "redis", "crash", "slow", "duplicate", "network"}

VARIABLES
  key,          \* pp:stripe_evt:<event id>
  pc,           \* where each delivery's request is
  replayed,     \* the requests whose Redis client has used its one retry
  heard,        \* what Stripe heard of each delivery
  commits,      \* transactions the event's handler has committed
  expired,      \* the requests whose lock ran out while they held it
  interrupted,  \* a handler committed and was then kept from marking the event
  yielded       \* the requests turned away by the lock of another one

eventVars == <<key, pc, replayed, heard, commits, expired, interrupted, yielded>>

EventInit ==
  /\ key = Free
  /\ pc = [d \in Deliveries |-> "unsent"]
  /\ replayed = {}
  /\ heard = [d \in Deliveries |-> "nothing"]
  /\ commits = 0
  /\ expired = {}
  /\ interrupted = FALSE
  /\ yielded = {}

Ended == {"ended", "crashed"}
Active(d) == pc[d] \notin Ended \cup {"unsent"}
Fault(f, d) == f \in Faults /\ d < MaxDeliveries

-----------------------------------------------------------------------------
(* Stripe.                                                                 *)

\* Deliveries are numbered in the order they are sent.
Send(d) ==
  /\ pc[d] = "unsent" /\ \A e \in Deliveries : e < d => pc[e] # "unsent"
  /\ pc' = [pc EXCEPT ![d] = "acquire"]
  /\ UNCHANGED <<key, replayed, heard, commits, expired, interrupted, yielded>>

\* By the time of a retry earlier requests have ended and a processing lock has run
\* out.
SendUnheard(d) ==
  /\ \A e \in Deliveries : e < d => pc[e] \in Ended /\ heard[e] # "ok"
  /\ key \notin Deliveries
  /\ Send(d)

\* A duplicate comes at any time.
SendDuplicate(d) ==
  /\ "duplicate" \in Faults
  /\ Send(d)

\* Stripe hears the answer, or the connection breaks first.
Hear(d) ==
  /\ pc[d] \in {"ok", "error"}
  /\ \/ heard' = [heard EXCEPT ![d] = pc[d]]
     \/ Fault("network", d) /\ heard' = [heard EXCEPT ![d] = "error"]
  /\ pc' = [pc EXCEPT ![d] = "ended"]
  /\ UNCHANGED <<key, replayed, commits, expired, interrupted, yielded>>

-----------------------------------------------------------------------------
(* stripe_webhook.                                                         *)

\* The script the request sends to Redis, and where its answer leads.
AfterScript(d) ==
  IF pc[d] = "acquire" THEN AfterAcquire(key, d)
  ELSE IF pc[d] = "release" THEN AfterRelease(key, d)
  ELSE AfterComplete(key, d)

Answered(d) ==
  IF pc[d] = "acquire" THEN IF Acquired(key, d) THEN "handle" ELSE "ok"
  ELSE IF pc[d] = "release" THEN "error"
  ELSE "ok"

Calls == {"acquire", "release", "complete"}

CallRedis(d) ==
  /\ pc[d] \in Calls
  /\ key' = AfterScript(d)
  /\ pc' = [pc EXCEPT ![d] = Answered(d)]
  /\ replayed' = replayed \ {d}
  /\ yielded' = IF pc[d] = "acquire" /\ key \in Deliveries \ {d}
                THEN yielded \cup {d} ELSE yielded
  /\ UNCHANGED <<heard, commits, expired, interrupted>>

\* The answer is lost: the client sends the script once more, then raises.
ReplyLost(d) ==
  /\ Fault("redis", d) /\ pc[d] \in Calls
  /\ key' = AfterScript(d)
  /\ IF d \in replayed
     THEN /\ pc' = [pc EXCEPT ![d] = "error"]
          /\ replayed' = replayed \ {d}
          /\ interrupted' = (interrupted \/ pc[d] = "complete")
     ELSE /\ replayed' = replayed \cup {d}
          /\ UNCHANGED <<pc, interrupted>>
  /\ UNCHANGED <<heard, commits, expired, yielded>>

\* Redis is not reached; a failed release is only logged, the request fails anyway.
RedisDown(d) ==
  /\ Fault("redis", d) /\ pc[d] \in Calls
  /\ pc' = [pc EXCEPT ![d] = "error"]
  /\ replayed' = replayed \ {d}
  /\ interrupted' = (interrupted \/ pc[d] = "complete")
  /\ UNCHANGED <<key, heard, commits, expired, yielded>>

\* The handler's transaction commits.
Handle(d) ==
  /\ pc[d] = "handle"
  /\ commits' = commits + 1
  /\ pc' = [pc EXCEPT ![d] = "complete"]
  /\ UNCHANGED <<key, replayed, heard, expired, interrupted, yielded>>

\* It raises before its commit.
HandleFails(d) ==
  /\ Fault("fail", d) /\ pc[d] = "handle"
  /\ pc' = [pc EXCEPT ![d] = "release"]
  /\ UNCHANGED <<key, replayed, heard, commits, expired, interrupted, yielded>>

\* It raises after its commit: handle_invoice_created and handle_invoice_paid
\* release the overage lock there.
HandleFailsLate(d) ==
  /\ Fault("late", d) /\ pc[d] = "handle"
  /\ commits' = commits + 1
  /\ pc' = [pc EXCEPT ![d] = "release"]
  /\ interrupted' = TRUE
  /\ UNCHANGED <<key, replayed, heard, expired, yielded>>

\* The process of the request dies.
Dies(d) ==
  /\ Fault("crash", d) /\ Active(d)
  /\ pc' = [pc EXCEPT ![d] = "crashed"]
  /\ heard' = [heard EXCEPT ![d] = "error"]
  /\ interrupted' = (interrupted \/ pc[d] = "complete")
  /\ UNCHANGED <<key, replayed, commits, expired, yielded>>

\* Mutant: the lock is stored without a TTL.
ExpireNever ==
  /\ FALSE
  /\ UNCHANGED eventVars

\* _PROCESSING_LOCK_TTL: a lock left behind runs out, and so does one whose request
\* takes more than five minutes.
Expire ==
  /\ key \in Deliveries
  /\ Active(key) => "slow" \in Faults
  /\ key' = Free
  /\ expired' = expired \cup {key}
  /\ UNCHANGED <<pc, replayed, heard, commits, interrupted, yielded>>

-----------------------------------------------------------------------------

Serve(d) == CallRedis(d) \/ Handle(d) \/ Hear(d)

Trouble(d) ==
  ReplyLost(d) \/ RedisDown(d) \/ HandleFails(d) \/ HandleFailsLate(d) \/ Dies(d)

EventNext == Expire \/ \E d \in Deliveries :
                         SendUnheard(d) \/ SendDuplicate(d) \/ Serve(d) \/ Trouble(d)

EventSpec == EventInit /\ [][EventNext]_eventVars

-----------------------------------------------------------------------------
(* Properties.                                                             *)

\* Types; the key never holds anything but a token, the marker or nothing.
EventTypeOK ==
  /\ key \in Deliveries \cup {Free, Completed}
  /\ pc \in [Deliveries -> {"unsent", "acquire", "handle", "release", "complete",
                            "ok", "error", "ended", "crashed"}]
  /\ replayed \subseteq Deliveries /\ expired \subseteq Deliveries /\ yielded \subseteq Deliveries
  /\ heard \in [Deliveries -> {"nothing", "ok", "error"}]
  /\ commits \in Nat /\ interrupted \in BOOLEAN

\* While a request is inside its handler and its lock has not run out, the lock is
\* its own: no other request, failing, finishing late or repeating a script, takes
\* it away.  Two handlers of one event never run within their locks.
ExclusiveLease ==
  \A d \in Deliveries : pc[d] = "handle" /\ d \notin expired => key = d

\* The handler's effects are applied at most once unless a lock ran out or a request
\* that had committed was kept from storing the completion marker.
OnceUnlessInterrupted == expired = {} /\ ~interrupted => commits <= 1

\* An event Stripe has heard acknowledged, and will not send again, was processed,
\* unless the answer came from a duplicate that met another request's lock.
AcknowledgedIsProcessed ==
  (\E d \in Deliveries \ yielded : heard[d] = "ok") => commits > 0

\* Stripe's retries alone get the event processed, whatever befell earlier deliveries,
\* unless a duplicate was turned away by the lock of a request that then failed.
EventuallyProcessed == <>(commits > 0 \/ yielded # {})

\* Fairness: Stripe retries (it owes no duplicate), Redis lets keys expire, requests
\* go on.
FairEventSpec ==
  /\ EventSpec
  /\ WF_eventVars(Expire)
  /\ \A d \in Deliveries : WF_eventVars(SendUnheard(d)) /\ WF_eventVars(Serve(d))
==============================================================================
