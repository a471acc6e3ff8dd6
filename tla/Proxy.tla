-------------------------------- MODULE Proxy --------------------------------
(***************************************************************************)
(* RemoteModelProxy of model/proxy.rs with the endpoints of                *)
(* model/remote.rs: calls that are forwarded to a remote endpoint and      *)
(* retried.  A caller hands the proxy the endpoint it read earlier, so     *)
(* disabling or removing the endpoint does not reach calls in progress.    *)
(* The network may lose a request or an answer, and may deliver a request  *)
(* after its caller gave up on it; the server is external.  A request is   *)
(* identified by its call and attempt.  Addresses, headers and bodies are  *)
(* left out; the backoff is kept because it bounds the waiting.            *)
(***************************************************************************)
EXTENDS Integers, FiniteSets

CONSTANTS
  Calls,           \* calls of forward_request
  MaxRetries,      \* retry_config.max_retries
  InitialBackoff,
  MaxBackoff

ProxyAssumption ==
  /\ IsFiniteSet(Calls)
  /\ MaxRetries \in Nat
  /\ InitialBackoff \in Nat /\ MaxBackoff \in Nat

VARIABLES
  endpoint,   \* the endpoint in the repository: "absent", "enabled" or "disabled"
  stage,      \* stage[c]: where the call stands
  attempt,    \* attempt[c]: the attempts of c that were begun
  backoff,    \* backoff[c]: how long the next pause is
  requests,   \* requests on their way: <<call, attempt>>
  answers,    \* answers on their way: <<call, attempt, class of status>>
  executed    \* the requests the server has executed

proxyVars == <<endpoint, stage, attempt, backoff, requests, answers, executed>>

\* What convert_response tells apart, by the error it makes of it: 2xx, 2xx
\* without JSON (SerializationError), 401, 403 and 429, and all the others
\* (ResourceUnavailable and NetworkError).
Statuses  == {"success", "garbled", "refused", "unavailable"}
Retryable == {"unavailable"}

ProxyInit ==
  /\ endpoint = "absent"
  /\ stage = [c \in Calls |-> "new"]
  /\ attempt = [c \in Calls |-> 0]
  /\ backoff = [c \in Calls |-> InitialBackoff]
  /\ requests = {} /\ answers = {} /\ executed = {}

Becomes(c, s) == stage' = [stage EXCEPT ![c] = s]

NetUnchanged == UNCHANGED <<requests, answers, executed>>

-----------------------------------------------------------------------------
\* The repository: each operation fails if its precondition does not hold.
AddEndpoint ==
  /\ endpoint = "absent"
  /\ endpoint' = "enabled"
  /\ UNCHANGED <<stage, attempt, backoff>> /\ NetUnchanged

RemoveEndpoint ==
  /\ endpoint # "absent"
  /\ endpoint' = "absent"
  /\ UNCHANGED <<stage, attempt, backoff>> /\ NetUnchanged

SetEnabled ==
  /\ endpoint # "absent"
  /\ endpoint' \in {"enabled", "disabled"}
  /\ UNCHANGED <<stage, attempt, backoff>> /\ NetUnchanged

-----------------------------------------------------------------------------
\* The caller reads the endpoint and calls forward_request, which refuses one
\* that is disabled.
ForwardRequest(c) ==
  /\ stage[c] = "new" /\ endpoint # "absent"
  /\ Becomes(c, IF endpoint = "enabled" THEN "ready" ELSE "error")
  /\ UNCHANGED <<endpoint, attempt, backoff>> /\ NetUnchanged

\* The next attempt leaves, unless the method is not known.
Send(c) ==
  /\ stage[c] = "ready"
  /\ attempt' = [attempt EXCEPT ![c] = @ + 1]
  /\ \/ /\ Becomes(c, "waiting")
        /\ requests' = requests \cup {<<c, attempt[c] + 1>>}
     \/ /\ attempt[c] = 0
        /\ Becomes(c, "error")
        /\ UNCHANGED requests
  /\ UNCHANGED <<endpoint, backoff, answers, executed>>

\* Fault: max_retries attempts after the first.
AfterErrorOneMore(c, retryable) ==
  IF retryable /\ attempt[c] <= MaxRetries THEN "pause" ELSE "error"

AfterError(c, retryable) ==
  IF retryable /\ attempt[c] < MaxRetries THEN "pause" ELSE "error"

ReceiveAnswer(c) ==
  /\ stage[c] = "waiting"
  /\ \E status \in Statuses :
       /\ <<c, attempt[c], status>> \in answers
       /\ answers' = answers \ {<<c, attempt[c], status>>}
       /\ Becomes(c, IF status = "success" THEN "ok"
                     ELSE AfterError(c, status \in Retryable))
  /\ UNCHANGED <<endpoint, attempt, backoff, requests, executed>>

\* No answer within 30 seconds, or the connection breaks before one arrives.
GiveUp(c) ==
  /\ stage[c] = "waiting"
  /\ Becomes(c, AfterError(c, TRUE))
  /\ UNCHANGED <<endpoint, attempt, backoff>> /\ NetUnchanged

Lesser(a, b) == IF a < b THEN a ELSE b

\* The pause ends, and the next one is to be twice as long.
PauseEnds(c) ==
  /\ stage[c] = "pause"
  /\ Becomes(c, "ready")
  /\ backoff' = [backoff EXCEPT ![c] = Lesser(2 * @, MaxBackoff)]
  /\ UNCHANGED <<endpoint, attempt>> /\ NetUnchanged

-----------------------------------------------------------------------------
\* The server executes a request when it arrives, wanted or not, and answers.
Execute ==
  \E r \in requests, status \in Statuses :
    /\ requests' = requests \ {r}
    /\ executed' = executed \cup {r}
    /\ answers' = answers \cup {<<r[1], r[2], status>>}
    /\ UNCHANGED <<endpoint, stage, attempt, backoff>>

Lose ==
  /\ \/ /\ \E r \in requests : requests' = requests \ {r}
        /\ UNCHANGED answers
     \/ /\ \E a \in answers : answers' = answers \ {a}
        /\ UNCHANGED requests
  /\ UNCHANGED <<endpoint, stage, attempt, backoff, executed>>

CallStep(c) == Send(c) \/ ReceiveAnswer(c) \/ GiveUp(c) \/ PauseEnds(c)

ProxyNext ==
  \/ AddEndpoint \/ RemoveEndpoint \/ SetEnabled
  \/ \E c \in Calls : ForwardRequest(c) \/ CallStep(c)
  \/ Execute \/ Lose

ProxySpec == ProxyInit /\ [][ProxyNext]_proxyVars

-----------------------------------------------------------------------------
ProxyTypeOK ==
  /\ endpoint \in {"absent", "enabled", "disabled"}
  /\ stage \in [Calls -> {"new", "ready", "waiting", "pause", "ok", "error"}]
  /\ attempt \in [Calls -> Nat]
  /\ backoff \in [Calls -> Nat]
  /\ requests \subseteq Calls \X Nat
  /\ answers \subseteq Calls \X Nat \X Statuses
  /\ executed \subseteq Calls \X Nat

Executions(c) == {r \in executed \cup requests : r[1] = c}

\* The server executes a call at most max_retries times (once if that is zero),
\* counting the requests still on their way to it, also those whose caller gave
\* up on them; and a call that returns a response was executed by the attempt
\* that returned it.
ExecutionsBounded ==
  \A c \in Calls :
    /\ Cardinality(Executions(c)) <= (IF MaxRetries = 0 THEN 1 ELSE MaxRetries)
    /\ stage[c] = "ok" => <<c, attempt[c]>> \in executed
=============================================================================
