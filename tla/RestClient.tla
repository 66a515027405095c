------------------------------ MODULE RestClient ------------------------------
(***************************************************************************)
(* A call of the REST client (tools/discord/src/common/http.rs): one       *)
(* request, sent again while Discord answers 429 and says how long to      *)
(* wait, and the kind of error any other failure becomes.                  *)
(***************************************************************************)
EXTENDS Absent, Integers

CONSTANTS Client,
          MaxRetries,  \* MAX_RATE_LIMIT_RETRIES
          MaxSleep     \* MAX_RETRY_SLEEP_MS, in the unit of a retry delay

ASSUME RetryAssumption == MaxRetries \in Nat /\ MaxSleep \in Nat

VARIABLE call  \* the call each client is in

\* What a 429 says in its header or in its body: a delay, or nothing that can be used
\* (absent, unparseable, negative, not finite).
Delay == 0..MaxSleep + 1 \cup {None}

\* Answers that bring the caller nothing: no permission, any other status, a success whose
\* body does not parse, too many requests.
Refusal == [status : {"auth", "other", "unreadable"}]
             \cup [status : {"limited"}, header : Delay, json : Delay]

CallKind == {"auth", "api", "rate_limit", "network"}
InCall(c) == call[c].pc \in {"sent", "backoff", "answered"}

RestInit == call = [c \in Client |-> [pc |-> "idle"]]

RestTypeOK ==
    /\ DOMAIN call = Client
    /\ \A c \in Client :
          /\ call[c].pc \in {"idle", "sent", "backoff", "answered", "ok", "failed"}
          /\ InCall(c) => call[c].retries \in 0..MaxRetries
          /\ call[c].pc = "failed" => call[c].kind \in CallKind

CallTo(c, s) == call' = [call EXCEPT ![c] = s]
Fail(c, kind) == CallTo(c, [pc |-> "failed", kind |-> kind])
Attempt(c, state, retries) == CallTo(c, [pc |-> state, req |-> call[c].req, retries |-> retries])

Issue(c, req) == CallTo(c, [pc |-> "sent", req |-> req, retries |-> 0])
HangUp(c) == CallTo(c, [pc |-> "idle"])

Respond(c, response) ==
    /\ call[c].pc = "sent"
    /\ CallTo(c, [pc |-> "answered", req |-> call[c].req, retries |-> call[c].retries,
                  response |-> response])

\* A bug to rule out: a request that got no answer is sent again.
BreakAndRetry(c) ==
    /\ call[c].pc \in {"sent", "answered"}
    /\ Attempt(c, "sent", call[c].retries)

\* No connection, a lost answer, or the client's 30 s: nobody knows what Discord did.
Break(c) ==
    /\ call[c].pc \in {"sent", "answered"}
    /\ Fail(c, "network")

\* The header goes before the body.
RetryAfter(response) == IF response.header # None THEN response.header ELSE response.json
ShouldRetryAfter(delay) == delay # None /\ delay <= MaxSleep

\* A bug to rule out: one retry too many.
MayRetryOnceMore(response, retries) ==
    /\ response.status = "limited"
    /\ ShouldRetryAfter(RetryAfter(response))
    /\ retries <= MaxRetries

MayRetry(response, retries) == /\ response.status = "limited"
                               /\ ShouldRetryAfter(RetryAfter(response))
                               /\ retries < MaxRetries

\* A bug to rule out: retries are not counted.
ReceiveUncounted(c) ==
    LET response == call[c].response
    IN /\ call[c].pc = "answered"
       /\ IF MayRetry(response, 0) THEN Attempt(c, "backoff", 0)
          ELSE IF response.status = "success"
               THEN CallTo(c, [pc |-> "ok", body |-> response.body])
               ELSE Fail(c, "api")

Receive(c) ==
    LET response == call[c].response
        again == MayRetry(response, call[c].retries)
    IN /\ call[c].pc = "answered"
       /\ \/ /\ response.status = "success"
             /\ CallTo(c, [pc |-> "ok", body |-> response.body])
          \/ again /\ Attempt(c, "backoff", call[c].retries + 1)
          \/ response.status = "limited" /\ ~again /\ Fail(c, "rate_limit")
          \/ response.status = "auth" /\ Fail(c, "auth")
          \/ response.status \in {"unreadable", "other"} /\ Fail(c, "api")

\* The delay is over: the same request again.
Resend(c) ==
    /\ call[c].pc = "backoff"
    /\ Attempt(c, "sent", call[c].retries)
===============================================================================
