------------------------------ MODULE ApiDispatch ------------------------------
(***************************************************************************)
(* ApiHandler::handle: what becomes of one HTTP request, from the Redis    *)
(* connection opened for it to its answer.  Each stage passes the request  *)
(* on or throws.  An Exception is answered in JSON; a PHP Error (a value   *)
(* of the wrong type) is not caught and ends in an HTML error page.        *)
(*                                                                         *)
(* A JSON value is known by whether it has the type the code wants ("ok"), *)
(* is a string that only begins with the number wanted ("odd") or neither  *)
(* ("bad").  A null is the same as a missing member.  PHP takes an odd     *)
(* value for its number and raises a notice.                               *)
(***************************************************************************)
EXTENDS Integers, Sequences

CONSTANT Unknown \* a name no endpoint and no method has

VARIABLES request,  \* the HTTP request
          stage,    \* the stage of handle it has reached
          id,       \* the id of the response: "null" or "id", the request's
          args,     \* the ordered arguments of the method
          entered,  \* whether the body of the method has been entered
          answer    \* what the client gets

vars == <<request, stage, id, args, entered, answer>>

Need(name) == [name |-> name, optional |-> FALSE]
May(name) == [name |-> name, optional |-> TRUE]

\* The methods of the endpoint classes and their parameters.
Api ==
    [player |-> [get |-> <<Need("playerId")>>,
                 insert |-> <<Need("name"), May("city")>>],
     game |-> [get |-> <<Need("gameId")>>, insert |-> <<Need("name")>>],
     scoremap |-> [get |-> <<Need("gameId"), Need("playerId"), May("extended")>>,
                   getScoreId |-> <<Need("gameId"), Need("playerId")>>,
                   insert |-> <<Need("gameId"), Need("playerId")>>],
     score |-> [get |-> <<Need("scoreId"), Need("timestamp")>>,
                insert |-> <<Need("gameId"), Need("playerId"), Need("score")>>,
                getTop |-> <<Need("gameId"), May("top")>>]]

\* What is thrown: the HTTP and JSON-RPC code of a JsonRpcException, any
\* other Exception, an Error.
JsonRpc(http, rpc) == [kind |-> "JsonRpcException", http |-> http, rpc |-> rpc]
ParseError == JsonRpc(400, -32700)
InvalidRequest == JsonRpc(400, -32600)
InvalidParams == JsonRpc(400, -32602)
InternalError == JsonRpc(500, -32603)
OtherException == [kind |-> "Exception", http |-> 0, rpc |-> 0]
TypeError == [kind |-> "Error", http |-> 0, rpc |-> 0]

\* A notice PHP raises.  Tracy is strict: in debug mode, which is on for
\* clients on the server's own machine, it shows its page and exits.  For
\* others a notice is logged and the request goes on.
Notice == [kind |-> "Notice", http |-> 0, rpc |-> 0]

Result == [kind |-> "result", http |-> 200, rpc |-> 0]
Page == [kind |-> "page", http |-> 500, rpc |-> 0]
Pending == [kind |-> "pending", http |-> 0, rpc |-> 0]

\* The requests of clients: the members of the body, with the parameters of
\* the method they name or no parameters.
Names(e, m) == {Api[e][m][i].name : i \in 1 .. Len(Api[e][m])}
NoParams == [n \in {} |-> "ok"]

\* The parameters declared int.
Numbers == {"playerId", "gameId", "scoreId", "score", "top"}
Values(S) == {p \in [S -> {"ok", "odd", "bad"}] : \A n \in S \ Numbers : p[n] # "odd"}

Targets ==
    UNION {UNION {{<<e, m, p>> : p \in UNION {Values(S) : S \in SUBSET Names(e, m)}} :
                    m \in DOMAIN Api[e]} : e \in DOMAIN Api}
    \cup {<<e, m, NoParams>> : e \in DOMAIN Api \cup {Unknown, "absent"}, m \in {Unknown, "absent"}}

Requests ==
    {[endpoint |-> t[1], method |-> t[2], params |-> t[3], shape |-> s, id |-> i,
      jsonrpc |-> j, json |-> b, post |-> p, debug |-> d] :
        t \in Targets, s \in {"absent", "list", "object"}, i \in {"absent", "bad", "odd", "ok"},
        j \in {"absent", "list", "object", "other", "2.0"},
        b \in BOOLEAN, p \in BOOLEAN, d \in BOOLEAN}

Init ==
    /\ request \in Requests
    /\ stage = "connect"
    /\ id = "null"
    /\ args = <<>>
    /\ entered = FALSE
    /\ answer = Pending

----------------------------------------------------------------------------
Pass(next) == stage' = next /\ UNCHANGED answer

ThrowWrapped(e) == \* mutant: every exception is replaced
    /\ answer' = IF e.kind \in {"Error", "Notice"} THEN Page ELSE InternalError
    /\ stage' = "done"

ThrowNarrow(e) == \* mutant: catches JsonRpcException only
    /\ answer' = IF e.kind = "JsonRpcException" THEN e ELSE Page
    /\ stage' = "done"

\* The catch of handle; neither an Error nor the end of the script stops there.
Throw(e) ==
    /\ answer' = CASE e.kind = "JsonRpcException" -> e
                   [] e.kind = "Exception" -> InternalError
                   [] e.kind \in {"Error", "Notice"} -> Page
    /\ stage' = "done"

\* The container opens the session for the handler, before handle runs.
Connect ==
    /\ stage = "connect"
    /\ \/ Pass("method")
       \/ answer' = Page /\ stage' = "done"
    /\ UNCHANGED <<request, id, args, entered>>

CheckMethod ==
    /\ stage = "method"
    /\ IF request.post THEN Pass("parse") ELSE Throw(InvalidRequest)
    /\ UNCHANGED <<request, id, args, entered>>

\* A jsonrpc that is wrong is put into the message of the exception as it
\* is: an object there raises a recoverable error, which Tracy throws as an
\* ErrorException, a list raises a notice.
ParseFault ==
    CASE ~request.json -> ParseError
      [] request.json /\ request.jsonrpc = "object" -> OtherException
      [] request.json /\ request.jsonrpc = "list" /\ request.debug -> Notice
      [] OTHER -> InvalidRequest

Lacking ==
    \/ ~request.json \/ request.jsonrpc # "2.0" \/ request.method = "absent"
    \/ request.shape = "absent" \/ request.id = "absent"

\* The constructor of JsonRpcRequest wants an object of parameters and an
\* integer id.
Misfit == request.shape = "list" \/ request.id = "bad"

Stops(value) == value = "odd" /\ request.debug

ParseNoStop == \* mutant: a fault is answered but the request goes on
    /\ stage = "parse"
    /\ answer' = IF Lacking THEN ParseFault ELSE answer
    /\ stage' = "route" /\ id' = "id"
    /\ UNCHANGED <<request, args, entered>>

ParseKeepId == \* mutant: setId comes only after the endpoint was found
    /\ stage = "parse"
    /\ IF Lacking THEN Throw(ParseFault) /\ UNCHANGED id
       ELSE IF Misfit THEN Throw(TypeError) /\ UNCHANGED id
       ELSE IF Stops(request.id) THEN Throw(Notice) /\ UNCHANGED id
       ELSE Pass("route") /\ id' = IF request.endpoint \in DOMAIN Api THEN "id" ELSE "null"
    /\ UNCHANGED <<request, args, entered>>

\* parseJsonRpcRequest.
Parse ==
    /\ stage = "parse"
    /\ \/ Lacking /\ Throw(ParseFault) /\ UNCHANGED id
       \/ ~Lacking /\ Misfit /\ Throw(TypeError) /\ UNCHANGED id
       \/ ~Lacking /\ Stops(request.id) /\ Throw(Notice) /\ UNCHANGED id
       \/ ~Lacking /\ ~Misfit /\ ~Stops(request.id) /\ Pass("route") /\ id' = "id"
    /\ UNCHANGED <<request, args, entered>>

Route ==
    /\ stage = "route"
    /\ IF request.endpoint \in DOMAIN Api THEN Pass("reflect") ELSE Throw(OtherException)
    /\ UNCHANGED <<request, id, args, entered>>

Parameters == Api[request.endpoint][request.method]

Reflect ==
    /\ stage = "reflect"
    /\ IF request.method \in DOMAIN Api[request.endpoint]
       THEN Pass("order") ELSE Throw(OtherException)
    /\ UNCHANGED <<request, id, args, entered>>

Given(p) == p.name \in DOMAIN request.params
Argument(p) == [of |-> p.name, value |-> IF Given(p) THEN request.params[p.name] ELSE "null"]

OrderParamsUnchecked == \* mutant: a missing parameter is skipped
    /\ stage = "order"
    /\ LET ps == SelectSeq(Parameters, LAMBDA p : Given(p) \/ p.optional)
       IN  args' = [i \in 1 .. Len(ps) |-> Argument(ps[i])]
    /\ Pass("call")
    /\ UNCHANGED <<request, id, entered>>

OrderParamsAll == \* mutant: an optional parameter is required too
    /\ stage = "order"
    /\ IF \E i \in 1 .. Len(Parameters) : ~Given(Parameters[i])
       THEN Throw(InvalidParams) /\ UNCHANGED args
       ELSE Pass("call") /\ args' = [i \in 1 .. Len(Parameters) |-> Argument(Parameters[i])]
    /\ UNCHANGED <<request, id, entered>>

\* The loop of getMethodParams, in the order of the declaration.
OrderParams ==
    /\ stage = "order"
    /\ IF \E i \in 1 .. Len(Parameters) : ~Given(Parameters[i]) /\ ~Parameters[i].optional
       THEN Throw(InvalidParams) /\ UNCHANGED args
       ELSE Pass("call") /\ args' = [i \in 1 .. Len(Parameters) |-> Argument(Parameters[i])]
    /\ UNCHANGED <<request, id, entered>>

\* PHP refuses too few arguments and arguments of the wrong type.  The
\* method itself (module ScoreService) returns or throws an Exception:
\* object not found, insert refused, Redis failed.
Accepts ==
    /\ \A i \in 1 .. Len(args) : args[i].value # "bad"
    /\ \A i \in 1 .. Len(Parameters) : i > Len(args) => Parameters[i].optional

Noted == \E i \in 1 .. Len(args) : Stops(args[i].value)

Call ==
    /\ stage = "call"
    /\ \/ ~Accepts /\ Throw(TypeError) /\ UNCHANGED entered
       \/ Noted /\ Throw(Notice) /\ UNCHANGED entered
       \/ Accepts /\ ~Noted /\ entered' = TRUE /\ Throw(OtherException)
       \/ Accepts /\ ~Noted /\ entered' = TRUE /\ answer' = Result /\ stage' = "done"
    /\ UNCHANGED <<request, id, args>>

Next == Connect \/ CheckMethod \/ Parse \/ Route \/ Reflect \/ OrderParams \/ Call

Spec == Init /\ [][Next]_vars

----------------------------------------------------------------------------
\* The type invariant.
TypeOK ==
    /\ request \in Requests
    /\ stage \in {"connect", "method", "parse", "route", "reflect", "order", "call", "done"}
    /\ id \in {"null", "id"}
    /\ entered \in BOOLEAN
    /\ answer \in {Pending, Result, Page, ParseError, InvalidRequest, InvalidParams, InternalError}
    /\ (stage = "done") <=> (answer # Pending)

WellFormed ==
    /\ request.post /\ request.json /\ request.jsonrpc = "2.0"
    /\ request.method # "absent" /\ request.shape # "absent" /\ request.id # "absent"

\* A method that runs gets the client's values where it declares them: each
\* argument is the one of its parameter, and a missing one is optional.
RightArguments ==
    entered =>
        \A i \in 1 .. Len(Parameters) :
            LET p == Parameters[i]
            IN  /\ i <= Len(args) /\ args[i].of = p.name
                /\ Given(p) => args[i].value = request.params[p.name]
                /\ ~Given(p) => p.optional

\* An answer in JSON to a well-formed request carries its id, whatever went
\* wrong later, so that the client can match it; another carries none.
IdEchoed ==
    stage = "done" /\ answer # Page =>
        (id = "id") <=> (WellFormed /\ ~Misfit)

\* The client is blamed (400) for its own faults only, and then nothing has
\* run: a request may be corrected and sent again.
BlameIsRight ==
    stage = "done" /\ answer.http = 400 =>
        /\ ~entered
        /\ answer # InvalidParams => ~WellFormed
        /\ answer = InvalidParams =>
              \E i \in 1 .. Len(Parameters) : ~Given(Parameters[i]) /\ ~Parameters[i].optional

\* A fault in the form of a request is answered in JSON as the client's,
\* never as the server's, but for one: a jsonrpc that is an object breaks the
\* message that was to say so, and only that one is the server's fault.
OwnFaultsAreNotOurs ==
    stage = "done" /\ ~WellFormed /\ answer # Page =>
        IF request.post /\ request.json /\ request.jsonrpc = "object"
        THEN answer = InternalError ELSE answer.http = 400

WrongType == Misfit \/ \E n \in DOMAIN request.params : request.params[n] = "bad"

\* What raises a notice that a client in debug mode is shown.
Notable ==
    /\ request.debug
    /\ \/ request.jsonrpc = "list" \/ request.id = "odd"
       \/ \E n \in DOMAIN request.params : request.params[n] = "odd"

\* Only a value of the wrong type, a notice in debug mode, or no connection
\* to Redis brings a client an answer that is not JSON.
PageNeedsTypeFault ==
    [][answer' = Page /\ answer # Page => WrongType \/ Notable \/ stage = "connect"]_vars
================================================================================
