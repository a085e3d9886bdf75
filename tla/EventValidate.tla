--------------------------- MODULE EventValidate ---------------------------
(***************************************************************************)
(* event_validate_lambda, which asks a language model whether an image     *)
(* shows an accident, and validate_image of record_event_lambda, which     *)
(* invokes it and turns every failure into "no accident".                  *)
(*                                                                         *)
(* The text that comes back holds a document, perhaps with something       *)
(* around it: a Markdown fence ("json" opens with ```json, "fence" with    *)
(* ``` alone or with another tag), or words ("text").  Documents are told  *)
(* apart by what json.loads and .get("accident") make of them.             *)
(***************************************************************************)

\* "yes" and "no" are texts that say so ("true", "false", ...) in the place of
\* a boolean, and both true in Python; "null" is any other false value.
AccidentValues == {"true", "yes", "no", "false", "null", "absent"}

\* The object that the prompt asks for, some other JSON value, or no JSON.
Documents == [kind : {"object", "other", "prose"}, accident : AccidentValues]

Replies == [open : {"none", "json", "fence", "text"}, doc : Documents,
            close : {"none", "fence", "text"}]

\* What the body of the function's response says of "accident"; the 500
\* responses have a body as well, with "error" alone.
Body(accident) == [hasBody |-> TRUE, accident |-> accident]
FunctionError == [hasBody |-> FALSE, accident |-> "absent"]
Payloads == [hasBody : BOOLEAN, accident : AccidentValues]

(***************************************************************************)
(* What the object says to a reader, whatever stands around it.  A "quoted *)
(* no" denies the accident, but in a text.  All else is "nothing": what is *)
(* no object has not been asked for, and need not be believed.             *)
(***************************************************************************)
Sayings == {"nothing", "yes", "quoted no"}

Confirms(reply) == reply.doc.kind = "object" /\ reply.doc.accident \in {"true", "yes"}

QuotesNo(reply) == reply.doc.kind = "object" /\ reply.doc.accident = "no"

Said(reply) ==
    IF Confirms(reply) THEN "yes" ELSE IF QuotesNo(reply) THEN "quoted no" ELSE "nothing"

\* strip, drop a leading ```json, drop a trailing ```.
CleanUp(reply) ==
    [reply EXCEPT !.open = IF @ = "json" THEN "none" ELSE @,
                  !.close = IF @ = "fence" THEN "none" ELSE @]

\* json.loads of the cleaned text.
Parses(reply) ==
    LET text == CleanUp(reply)
    IN  text.open = "none" /\ text.close = "none" /\ text.doc.kind # "prose"

\* The handler once the API has replied.  A document that is no object has
\* no .get: the outer except clause reports "accident": False.
OnReply(reply) ==
    IF ~ Parses(reply) THEN Body("absent")
    ELSE IF reply.doc.kind # "object" THEN Body("false")
    ELSE Body(IF reply.doc.accident = "absent" THEN "null" ELSE reply.doc.accident)

\* Without the API key the handler answers 500; an exception of the API call
\* is caught; any other failure (a crash, the timeout) has no body.
Unanswered == {Body("absent"), Body("false"), FunctionError}

\* What a result of the validation is taken for: any text is true in Python.
Truthy(accident) == accident \in {"true", "yes", "no"}

\* Mutant: a response without a body counts as a confirmation.
ValidateImageOpen(payload) == ~ payload.hasBody \/ Truthy(payload.accident)

\* validate_image, and the truth value record_event_lambda takes of its
\* result: an invocation that fails or has no body is {"accident": False}.
ValidateImage(payload) == payload.hasBody /\ Truthy(payload.accident)

\* All that record_event_lambda may get, and what the analysis said.
Verdicts ==
    {[accident |-> ValidateImage(OnReply(reply)), said |-> Said(reply)] : reply \in Replies}
    \cup {[accident |-> ValidateImage(payload), said |-> "nothing"] :
        payload \in Unanswered}

=============================================================================
