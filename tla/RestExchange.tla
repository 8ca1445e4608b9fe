---------------------------- MODULE RestExchange ----------------------------
(***************************************************************************)
(* One REST request to Home Assistant (client.rs: get_json, get_image,     *)
(* post_json*, read_body) and the span that accounts for it                *)
(* (http_client.rs).                                                       *)
(*                                                                         *)
(* A response has a status, perhaps a declared length, and a body that     *)
(* arrives in chunks of any size and may break off.  The request may be    *)
(* dropped at any point, when the operation times out or is cancelled.     *)
(*                                                                         *)
(* A status stands for its class, a body is its size and whether it is     *)
(* what was asked for (JSON, or an image of the declared type).  A body    *)
(* that is declared has that length: the HTTP library fails a shorter one  *)
(* and cuts a longer one.                                                  *)
(***************************************************************************)
EXTENDS Naturals, Sequences, FiniteSets

CONSTANTS MaxResponse   \* MAX_RESPONSE_BYTES

ConstantsAssumption == MaxResponse \in Nat \ {0}

Calls == {"get_json", "get_image", "post_json", "post_json_response", "post_json_acceptance"}

Statuses == {"success", "redirect", "unauthorized", "not_found", "too_many_requests",
             "client_error", "server_error"}

\* The match of read_body and post_json_acceptance.
StatusError ==
    [unauthorized |-> "unauthorized", not_found |-> "not_found",
     too_many_requests |-> "capacity_exhausted", client_error |-> "request_rejected",
     server_error |-> "upstream_unavailable", redirect |-> "upstream_unavailable"]

\* The body of a response, whose size may be declared.
Bodies == [size : 0..MaxResponse + 2, declared : BOOLEAN, good : BOOLEAN]

VARIABLES
    call,
    status, body,   \* the response
    pc,             \* sending, head, reading, over
    read,           \* bytes of the body so far
    finished,       \* the span's flag
    outcomes,       \* the outcomes recorded on the span
    erred,          \* the span has the status ERROR
    answer,
    whole           \* history: the stream has come to its end

vars == <<call, status, body, pc, read, finished, outcomes, erred, answer, whole>>

-----------------------------------------------------------------------------
(* The span *)

\* RequestSpan::finish and its drop at the end of the call.
Record(outcome, error) ==
    /\ outcomes' = IF finished THEN outcomes ELSE Append(outcomes, outcome)
    /\ erred' = (erred \/ (error /\ ~finished))
    /\ finished' = TRUE

\* The call ends with an answer, the span with an outcome.
Finish(outcome, error, a) == Record(outcome, error) /\ pc' = "over" /\ answer' = a

-----------------------------------------------------------------------------
(* The request *)

Unreachable ==
    /\ pc = "sending"
    /\ Finish("transport_error", TRUE, "upstream_unavailable")
    /\ UNCHANGED <<call, status, body, read, whole>>

Respond ==
    /\ pc = "sending" /\ pc' = "head"
    /\ status' \in Statuses /\ body' \in Bodies
    /\ UNCHANGED <<call, read, finished, outcomes, erred, answer, whole>>

\* Mutant of Examine: a refusal is returned before the span is finished.
ExamineUnfinished ==
    /\ pc = "head"
    /\ \/ /\ status # "success"
          /\ Finish("cancelled", TRUE, StatusError[status])
       \/ /\ status = "success" /\ pc' = "reading"
          /\ UNCHANGED <<finished, outcomes, erred, answer>>
    /\ UNCHANGED <<call, status, body, read, whole>>

\* The status, and the declared length; post_json_acceptance reads no body.
Examine ==
    /\ pc = "head"
    /\ \/ /\ status # "success"
          /\ Finish("http_error", status # "redirect", StatusError[status])
       \/ /\ status = "success" /\ call = "post_json_acceptance"
          /\ Finish("success", FALSE, "ok")
       \/ /\ status = "success" /\ call # "post_json_acceptance"
          /\ body.declared /\ body.size > MaxResponse
          /\ Finish("response_error", TRUE, "response_too_large")
       \/ /\ status = "success" /\ call # "post_json_acceptance"
          /\ ~(body.declared /\ body.size > MaxResponse)
          /\ pc' = "reading" /\ UNCHANGED <<finished, outcomes, erred, answer>>
    /\ UNCHANGED <<call, status, body, read, whole>>

\* Mutant of Fits: off by one.
FitsOneMore(size) == size <= MaxResponse + 1

Fits(size) == size <= MaxResponse

Chunk ==
    /\ pc = "reading"
    /\ \E k \in 1..body.size - read :
          IF Fits(read + k)
          THEN read' = read + k /\ UNCHANGED <<pc, finished, outcomes, erred, answer>>
          ELSE Finish("response_error", TRUE, "response_too_large") /\ UNCHANGED read
    /\ UNCHANGED <<call, status, body, whole>>

\* serde_json::from_slice and the signature of the image; post_json does not look.
Decode == IF call = "post_json" \/ body.good THEN "ok" ELSE "invalid_response"

StreamEnds ==
    /\ pc = "reading" /\ read = body.size
    /\ whole' = TRUE
    /\ Finish("success", FALSE, Decode)
    /\ UNCHANGED <<call, status, body, read>>

\* Mutant of StreamFails: the loop ends like that of a complete body.
StreamFailsQuietly ==
    /\ pc = "reading"
    /\ Finish("success", FALSE, Decode)
    /\ UNCHANGED <<call, status, body, read, whole>>

StreamFails ==
    /\ pc = "reading"
    /\ Finish("transport_error", TRUE, "upstream_unavailable")
    /\ UNCHANGED <<call, status, body, read, whole>>

\* The future is dropped, and the span with it.
Drop ==
    /\ pc \in {"sending", "head", "reading"}
    /\ Finish("cancelled", TRUE, "dropped")
    /\ UNCHANGED <<call, status, body, read, whole>>

-----------------------------------------------------------------------------

Init ==
    /\ call \in Calls
    /\ status = "success" /\ body = [size |-> 0, declared |-> FALSE, good |-> FALSE]
    /\ pc = "sending" /\ read = 0
    /\ finished = FALSE /\ outcomes = <<>> /\ erred = FALSE
    /\ answer = "none" /\ whole = FALSE

Next == Unreachable \/ Respond \/ Examine \/ Chunk \/ StreamEnds \/ StreamFails \/ Drop

Spec == Init /\ [][Next]_vars

-----------------------------------------------------------------------------
(* Properties *)

\* A call that answers with data has read all of it; what broke off is never taken for
\* the whole, however the chunks fell.
BodyIsWhole == answer = "ok" /\ call # "post_json_acceptance" => whole /\ read = body.size

\* No more than the limit is ever held, declared or not, and what is refused for its
\* size is above it.
BodyBounded ==
    /\ read <= MaxResponse
    /\ answer = "response_too_large" => body.size > MaxResponse

\* Every request has one outcome, and it is the one that the caller is told of: a success
\* is an answer or a body that could not be decoded, an HTTP error a status.
SpanIsTrue ==
    pc = "over" =>
        /\ Len(outcomes) = 1
        /\ outcomes[1] = "success" => ~erred /\ answer \in {"ok", "invalid_response"}
        /\ (outcomes[1] = "http_error") = (answer # "dropped" /\ status # "success")
        /\ (outcomes[1] = "response_error") = (answer = "response_too_large")
        /\ (outcomes[1] = "cancelled") = (answer = "dropped")
        /\ outcomes[1] \in {"transport_error", "response_error", "cancelled"} => erred

=============================================================================
