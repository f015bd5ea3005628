----------------------------- MODULE ProviderCalls -----------------------------
(***************************************************************************)
(* One call of the language model (providers/llm): a request that is       *)
(* repeated while the service is out of reach, an answer that must fit a    *)
(* schema, one more request to repair an answer that does not, and the      *)
(* record of what the requests have cost.                                   *)
(***************************************************************************)
EXTENDS Naturals, Sequences

CONSTANT MaxAttempts  \* LLM_MAX_ATTEMPTS

ASSUME MaxAttemptsAssumption == MaxAttempts \in Nat \ {0}

VARIABLES
  call,     \* where the call is, its attempts in this request, its result
  sent,     \* history: requests sent in all
  usage     \* usage_records: the purpose and the retries of each paid request

providerVars == <<call, sent, usage>>

\* RETRYABLE_MODEL_ERRORS, as _urllib_transport raises them
RetryableErrors == {"MODEL_TIMEOUT", "MODEL_RATE_LIMITED", "MODEL_SERVICE_UNAVAILABLE"}

\* MODEL_REQUEST_REJECTED is a status below 500; MODEL_RESPONSE_INVALID a reply that is
\* no JSON object; MODEL_REQUEST_FAILED anything the transport does not foresee.
FinalErrors == {"MODEL_REQUEST_REJECTED", "MODEL_RESPONSE_INVALID", "MODEL_REQUEST_FAILED"}

\* What a reply carries: no text or no sound token counts; a text that fits the schema,
\* one that does when _validate_schema_output has cleaned it (unknown keys, absent
\* lists, repeated identifiers, objects in the place of strings); one that does not.
Replies == {"unusable", "exact", "sloppy", "wrong"}
FitsSchema(reply) == reply \in {"exact", "sloppy"}

-------------------------------------------------------------------------------
(* One call *)

ProviderInit ==
  /\ call = [at |-> "idle", request |-> "draft", attempt |-> 0, result |-> "none"]
  /\ sent = 0 /\ usage = <<>>

\* draft_section, revise_section, extract_facts: each through _generate_schema
BeginCall ==
  /\ call.at = "idle"
  /\ \E purpose \in {"draft", "revise", "extract"} :
       call' = [at |-> "asking", request |-> purpose, attempt |-> 1, result |-> "none"]
  /\ sent' = 1
  /\ usage' = <<>>

\* tenacity: the attempt has failed with an error that is worth another one.
RetryRequest ==
  /\ call.at = "asking" /\ call.attempt < MaxAttempts
  /\ call' = [call EXCEPT !.attempt = @ + 1]
  /\ sent' = sent + 1
  /\ UNCHANGED usage

\* The last attempt, or an error that is not repeated: the caller sees that error.
RequestFails ==
  /\ call.at = "asking"
  /\ \/ \E e \in FinalErrors : call' = [call EXCEPT !.at = "failed", !.result = e]
     \/ call.attempt = MaxAttempts
        /\ \E e \in RetryableErrors : call' = [call EXCEPT !.at = "failed", !.result = e]
  /\ UNCHANGED <<sent, usage>>

\* Not the code: the attempts of the first request count for the repair as well.
RecordAllAttempts(purpose) ==
  usage' = Append(usage, [purpose |-> purpose, retries |-> sent - 1])

\* A record for each reply with a text: what it was for, and attempt_number - 1.
RecordUsage(purpose) ==
  usage' = Append(usage, [purpose |-> purpose, retries |-> call.attempt - 1])

\* The reply is read; an answer that does not fit is sent back once (_repair_once).
ReplyArrives ==
  /\ call.at = "asking"
  /\ \E reply \in Replies :
       \/ /\ reply = "unusable"
          /\ call' = [call EXCEPT !.at = "failed", !.result = "MODEL_RESPONSE_INVALID"]
          /\ UNCHANGED <<sent, usage>>
       \/ /\ FitsSchema(reply)
          /\ call' = [call EXCEPT !.at = "answered", !.result = reply]
          /\ RecordUsage(call.request)
          /\ UNCHANGED sent
       \/ /\ reply = "wrong" /\ call.request # "repair"
          /\ call' = [call EXCEPT !.request = "repair", !.attempt = 1]
          /\ RecordUsage(call.request)
          /\ sent' = sent + 1
       \/ /\ reply = "wrong" /\ call.request = "repair"
          /\ call' = [call EXCEPT !.at = "failed", !.result = "MODEL_SCHEMA_INVALID"]
          /\ RecordUsage(call.request)
          /\ UNCHANGED sent

EndCall ==
  /\ call.at \in {"answered", "failed"}
  /\ call' = [call EXCEPT !.at = "idle", !.request = "draft", !.attempt = 0, !.result = "none"]
  /\ sent' = 0 /\ usage' = <<>>

ProviderNext ==
  \/ BeginCall \/ RetryRequest \/ RequestFails \/ ReplyArrives \/ EndCall

ProviderSpec == ProviderInit /\ [][ProviderNext]_providerVars

-------------------------------------------------------------------------------
(* Properties *)

Sum(records) ==
  LET upTo[n \in 0 .. Len(records)] == IF n = 0 THEN 0 ELSE upTo[n - 1] + records[n].retries + 1
  IN upTo[Len(records)]

\* ModelUsageRecord: the records of a call that was answered account for every request
\* it has sent, retries and repair included, and the repair is one record of its own.
UsageAccountsForRequests ==
  call.at = "answered" =>
    /\ Sum(usage) = sent
    /\ Len(usage) = IF call.request = "repair" THEN 2 ELSE 1
===============================================================================
