----------------------------- MODULE Selection -----------------------------
(***************************************************************************)
(* Which of the responses an operation declares is served                  *)
(* (src/runtime/select.ts) and what an error of the mock's own looks like  *)
(* (src/runtime/errors.ts).                                                *)
(*                                                                         *)
(* A declared response is [status, range, media]: a range has the lowest   *)
(* status of it, the media is a sequence of at most one JSON media type.   *)
(* `default` is the media of the default response, in a sequence.          *)
(***************************************************************************)
EXTENDS Integers, Sequences

ServableAny(response) == response.status >= 100

\* A 1XX range cannot be served: a Response has a status of 200 or more.
Servable(response) == ~response.range \/ response.status >= 200

\* What `new Response` throws at: such a status, which may be declared exactly,
\* and a body where the status means that there is none.
CannotSend(status, hasBody) ==
  status \notin 200..599 \/ (hasBody /\ status \in {204, 205, 304})

\* The first response that is one of some, in a sequence.
FirstAmong(responses, some) ==
  IF some = {} THEN <<>> ELSE <<responses[CHOOSE i \in some : \A j \in some : i <= j]>>

Otherwise(first, second) == IF first # <<>> THEN first ELSE second

(***************************************************************************)
(* The status the request prefers, the one that is configured, the first   *)
(* success, the first there is, `default`.  0 stands for no status.        *)
(***************************************************************************)
SelectResponse(operation, preferred, static) ==
  LET responses == operation.responses
      servable == {i \in DOMAIN responses : Servable(responses[i])}
      OfStatus(status) == FirstAmong(responses, {i \in servable : responses[i].status = status})
      successes == {i \in servable : responses[i].status \in 200..299}
      fallback == [i \in DOMAIN operation.default |->
                     [status |-> 200, range |-> FALSE, media |-> operation.default[i]]]
  IN Otherwise(OfStatus(preferred),
     Otherwise(OfStatus(static),
     Otherwise(FirstAmong(responses, successes),
     Otherwise(FirstAmong(responses, servable), fallback))))

\* The response declared for a status: exactly, by a range, by `default`.
ResponseForStatus(operation, status) ==
  LET responses == operation.responses
      exact == {i \in DOMAIN responses : responses[i].status = status /\ ~responses[i].range}
      ranged == {i \in DOMAIN responses : responses[i].range
                   /\ status \in responses[i].status..(responses[i].status + 99)}
      Stamped(found) == [i \in DOMAIN found |-> [found[i] EXCEPT !.status = status]]
      fallback == [i \in DOMAIN operation.default |->
                     [status |-> status, range |-> FALSE, media |-> operation.default[i]]]
  IN Otherwise(FirstAmong(responses, exact),
     Otherwise(Stamped(FirstAmong(responses, ranged)), fallback))

\* The media generation reads for a status: that of the first response with
\* the number, not that of `default`.
MediaFor(operation, status) ==
  LET found == FirstAmong(operation.responses,
                 {i \in DOMAIN operation.responses : operation.responses[i].status = status})
  IN IF found = <<>> THEN <<>> ELSE found[1].media

\* In contract mode an error has the body that is declared for its status.
ErrorMedia(operation, status, mode) ==
  LET declared == ResponseForStatus(operation, status)
  IN IF mode # "contract" \/ declared = <<>> THEN <<>> ELSE declared[1].media
=============================================================================
