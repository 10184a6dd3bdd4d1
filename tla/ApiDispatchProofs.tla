--------------------------- MODULE ApiDispatchProofs ---------------------------
(***************************************************************************)
(* Theorems about ApiDispatch, for every value of Unknown: whatever the    *)
(* request, it meets the faults of its form first, then those of the names *)
(* it gives, then those of its parameters, and its method last.            *)
(***************************************************************************)
EXTENDS ApiDispatch, TLAPS

----------------------------------------------------------------------------
(***************************************************************************)
(* The inductive invariant: what handle knows of a request at each stage,  *)
(* and what each answer therefore says of the request.                     *)
(***************************************************************************)

\* What parseJsonRpcRequest lets pass.
Proper == ~Lacking /\ ~Misfit

\* A request that breaks the message about its own fault.
Broken == request.post /\ request.json /\ request.jsonrpc = "object"

\* A parameter that must be given is not.
Short == \E i \in 1 .. Len(Parameters) : ~Given(Parameters[i]) /\ ~Parameters[i].optional

\* Before the body is parsed the response has no id.
Unparsed ==
    stage \in {"connect", "method", "parse"} => id = "null" /\ (stage = "parse" => request.post)

\* From the routing on the form of the request is right and its id is set;
\* two answers are given only from there on, and the fault of the server
\* otherwise only to a request that breaks its message.
Taken ==
    /\ stage \in {"route", "reflect", "order", "call"} \/ answer \in {Result, InvalidParams}
          => request.post /\ Proper /\ id = "id"
    /\ answer = InternalError =>
          \/ request.post /\ Proper /\ id = "id"
          \/ Broken /\ id = "null"

\* The endpoint is found before the method, the method before its parameters.
Found ==
    /\ stage \in {"reflect", "order", "call"} \/ entered \/ answer = InvalidParams
          => request.endpoint \in DOMAIN Api
    /\ stage \in {"order", "call"} \/ entered \/ answer = InvalidParams
          => request.method \in DOMAIN Api[request.endpoint]

\* A call has an argument for every parameter, and all that had to be given.
Ordered ==
    stage = "call" \/ entered =>
        ~Short /\ args = [i \in 1 .. Len(Parameters) |-> Argument(Parameters[i])]

\* Each code with which the client is blamed names a fault the request has.
Blamed ==
    /\ answer \in {ParseError, InvalidRequest} => ~WellFormed /\ ~Broken /\ id = "null"
    /\ answer = InvalidParams => Short

\* A method is entered once nothing but its own outcome can be answered.
Untouched == entered => answer \in {Result, InternalError}

DispatchInv == Unparsed /\ Taken /\ Found /\ Ordered /\ Blamed /\ Untouched

----------------------------------------------------------------------------
(***************************************************************************)
(* The answers and the table of the methods.                               *)
(***************************************************************************)

Blames == {ParseError, InvalidRequest, InvalidParams}

\* The answers differ from each other, and only three blame the client.
LEMMA Answers ==
    /\ Pending \notin Blames \cup {Result, Page, InternalError}
    /\ Page \notin Blames \cup {Result, InternalError}
    /\ {Result, InternalError} \cap Blames = {}
    /\ InvalidParams \notin {ParseError, InvalidRequest}
    /\ Result # InternalError
    /\ Blames = {ParseError, InvalidRequest, InvalidParams}
    /\ \A b \in Blames : b.http = 400
    /\ \A b \in {Pending, Page, Result, InternalError} : b.http # 400
  BY DEF Blames, ParseError, InvalidRequest, InvalidParams, InternalError, Result, Page,
         Pending, JsonRpc

\* What the catch of handle makes of each thing thrown.
LEMMA Caught ==
    /\ Throw(ParseError) => answer' = ParseError /\ stage' = "done"
    /\ Throw(InvalidRequest) => answer' = InvalidRequest /\ stage' = "done"
    /\ Throw(InvalidParams) => answer' = InvalidParams /\ stage' = "done"
    /\ Throw(OtherException) => answer' = InternalError /\ stage' = "done"
    /\ Throw(TypeError) => answer' = Page /\ stage' = "done"
    /\ Throw(Notice) => answer' = Page /\ stage' = "done"
  BY DEF Throw, ParseError, InvalidRequest, InvalidParams, OtherException, TypeError, Notice,
         JsonRpc

\* What the catch makes of each fault the parser finds.
LEMMA ParseFaults ==
    ASSUME Lacking, Throw(ParseFault)
    PROVE  /\ stage' = "done"
           /\ \/ answer' = ParseError /\ ~request.json
              \/ answer' = InternalError /\ request.json /\ request.jsonrpc = "object"
              \/ answer' = Page /\ request.json /\ request.jsonrpc = "list" /\ request.debug
              \/ answer' = InvalidRequest /\ ~(request.json /\ request.jsonrpc = "object")
  <1>1. CASE ~request.json
    BY <1>1, Caught DEF ParseFault
  <1>2. CASE request.json /\ request.jsonrpc = "object"
    <2>1. ParseFault = OtherException
      BY <1>2 DEF ParseFault
    <2>2. QED
      BY <1>2, <2>1, Caught
  <1>3. CASE request.json /\ request.jsonrpc = "list" /\ request.debug
    <2>1. ParseFault = Notice
      BY <1>3 DEF ParseFault
    <2>2. QED
      BY <1>3, <2>1, Caught
  <1>4. CASE /\ request.json /\ request.jsonrpc # "object"
             /\ ~(request.jsonrpc = "list" /\ request.debug)
    <2>1. ParseFault = InvalidRequest
      BY <1>4 DEF ParseFault
    <2>2. QED
      BY <1>4, <2>1, Caught
  <1>5. QED
    BY <1>1, <1>2, <1>3, <1>4

ParameterNames ==
    {"playerId", "name", "city", "gameId", "extended", "scoreId", "timestamp", "score", "top"}
Parameter == [name : ParameterNames, optional : BOOLEAN]

LEMMA Lists ==
    \A S :
        /\ \A a \in S : <<a>> \in Seq(S)
        /\ \A a, b \in S : <<a, b>> \in Seq(S)
        /\ \A a, b, c \in S : <<a, b, c>> \in Seq(S)
  OBVIOUS

\* A table of the shape of Api holds nothing but what was put into it.
LEMMA Table ==
    ASSUME NEW S,
           NEW a1 \in S, NEW a2 \in S, NEW b1 \in S, NEW b2 \in S,
           NEW c1 \in S, NEW c2 \in S, NEW d1 \in S, NEW d2 \in S, NEW d3 \in S,
           NEW A, A = [player |-> [get |-> a1, insert |-> a2],
                       game |-> [get |-> b1, insert |-> b2],
                       scoremap |-> [get |-> c1, getScoreId |-> c2, insert |-> c2],
                       score |-> [get |-> d1, insert |-> d2, getTop |-> d3]],
           NEW e \in DOMAIN A, NEW m \in DOMAIN A[e]
    PROVE  A[e][m] \in S
  <1>1. e \in {"player", "game", "scoremap", "score"}
    OBVIOUS
  <1>2. CASE e = "player"
    <2>1. A[e] = [get |-> a1, insert |-> a2]
      BY <1>2
    <2>2. m \in {"get", "insert"}
      BY <2>1
    <2>3. QED
      BY <2>1, <2>2
  <1>3. CASE e = "game"
    <2>1. A[e] = [get |-> b1, insert |-> b2]
      BY <1>3
    <2>2. m \in {"get", "insert"}
      BY <2>1
    <2>3. QED
      BY <2>1, <2>2
  <1>4. CASE e = "scoremap"
    <2>1. A[e] = [get |-> c1, getScoreId |-> c2, insert |-> c2]
      BY <1>4
    <2>2. m \in {"get", "getScoreId", "insert"}
      BY <2>1
    <2>3. QED
      BY <2>1, <2>2
  <1>5. CASE e = "score"
    <2>1. A[e] = [get |-> d1, insert |-> d2, getTop |-> d3]
      BY <1>5
    <2>2. m \in {"get", "insert", "getTop"}
      BY <2>1
    <2>3. QED
      BY <2>1, <2>2
  <1>6. QED
    BY <1>1, <1>2, <1>3, <1>4, <1>5

\* The parameters of every method are a list.
LEMMA ApiTypes ==
    ASSUME NEW e \in DOMAIN Api, NEW m \in DOMAIN Api[e]
    PROVE  Api[e][m] \in Seq(Parameter)
  <1>1. \A n \in ParameterNames : Need(n) \in Parameter /\ May(n) \in Parameter
    BY DEF Need, May, Parameter
  <1>2. /\ Need("playerId") \in Parameter /\ Need("name") \in Parameter
        /\ Need("gameId") \in Parameter /\ Need("scoreId") \in Parameter
        /\ Need("timestamp") \in Parameter /\ Need("score") \in Parameter
        /\ May("city") \in Parameter /\ May("extended") \in Parameter /\ May("top") \in Parameter
    BY <1>1 DEF ParameterNames
  <1>3. <<Need("playerId")>> \in Seq(Parameter) /\ <<Need("name"), May("city")>> \in Seq(Parameter)
    BY <1>2, Lists, Zenon
  <1>4. <<Need("gameId")>> \in Seq(Parameter) /\ <<Need("name")>> \in Seq(Parameter)
    BY <1>2, Lists, Zenon
  <1>5. <<Need("gameId"), Need("playerId"), May("extended")>> \in Seq(Parameter)
        /\ <<Need("gameId"), Need("playerId")>> \in Seq(Parameter)
    BY <1>2, Lists, Zenon
  <1>6. /\ <<Need("scoreId"), Need("timestamp")>> \in Seq(Parameter)
        /\ <<Need("gameId"), Need("playerId"), Need("score")>> \in Seq(Parameter)
        /\ <<Need("gameId"), May("top")>> \in Seq(Parameter)
    BY <1>2, Lists, Zenon
  <1>7. PICK a1 \in Seq(Parameter), a2 \in Seq(Parameter), b1 \in Seq(Parameter),
             b2 \in Seq(Parameter), c1 \in Seq(Parameter), c2 \in Seq(Parameter),
             d1 \in Seq(Parameter), d2 \in Seq(Parameter), d3 \in Seq(Parameter) :
          Api = [player |-> [get |-> a1, insert |-> a2],
                 game |-> [get |-> b1, insert |-> b2],
                 scoremap |-> [get |-> c1, getScoreId |-> c2, insert |-> c2],
                 score |-> [get |-> d1, insert |-> d2, getTop |-> d3]]
    BY <1>3, <1>4, <1>5, <1>6, Zenon DEF Api
  <1>8. QED
    BY <1>7, Table

\* The list a call is ordered by has a length, and the arguments have it too.
LEMMA OrderedCalls ==
    ASSUME DispatchInv, stage = "call" \/ entered
    PROVE  /\ Len(Parameters) \in Nat /\ Len(args) = Len(Parameters)
           /\ \A i \in 1 .. Len(Parameters) :
                 /\ args[i].of = Parameters[i].name
                 /\ Given(Parameters[i]) => args[i].value = request.params[Parameters[i].name]
                 /\ ~Given(Parameters[i]) => args[i].value = "null" /\ Parameters[i].optional
  <1>1. Parameters \in Seq(Parameter)
    BY ApiTypes DEF DispatchInv, Found, Parameters
  <1>2. Len(Parameters) \in Nat
    BY <1>1
  <1>3. ~Short /\ args = [i \in 1 .. Len(Parameters) |-> Argument(Parameters[i])]
    BY DEF DispatchInv, Ordered
  <1>4. Len(args) = Len(Parameters)
    BY <1>2, <1>3
  <1>5. ASSUME NEW i \in 1 .. Len(Parameters)
        PROVE  /\ args[i].of = Parameters[i].name
               /\ Given(Parameters[i]) => args[i].value = request.params[Parameters[i].name]
               /\ ~Given(Parameters[i]) => args[i].value = "null" /\ Parameters[i].optional
    <2>1. args[i] = Argument(Parameters[i])
      BY <1>3
    <2>2. ~Given(Parameters[i]) => Parameters[i].optional
      BY <1>3 DEF Short
    <2>3. QED
      BY <2>1, <2>2 DEF Argument
  <1>6. QED
    BY <1>2, <1>4, <1>5

----------------------------------------------------------------------------
(***************************************************************************)
(* Types.                                                                  *)
(***************************************************************************)

\* The variables keep their types, and a request is done exactly when it has
\* been answered.
THEOREM Types == Spec => []TypeOK
  <1>1. Init => TypeOK
    BY Answers DEF Init, TypeOK, Blames
  <1>2. TypeOK /\ [Next]_vars => TypeOK'
    <2> SUFFICES ASSUME TypeOK, [Next]_vars PROVE TypeOK'
      OBVIOUS
    <2>1. CASE Connect
      BY <2>1, Answers DEF TypeOK, Connect, Pass
    <2>2. CASE CheckMethod
      BY <2>2, Answers, Caught DEF TypeOK, CheckMethod, Pass, Blames
    <2>3. CASE Parse
      BY <2>3, Answers, Caught, ParseFaults DEF TypeOK, Parse, Pass, Blames
    <2>4. CASE Route
      BY <2>4, Answers, Caught DEF TypeOK, Route, Pass, Blames
    <2>5. CASE Reflect
      BY <2>5, Answers, Caught DEF TypeOK, Reflect, Pass, Blames
    <2>6. CASE OrderParams
      BY <2>6, Answers, Caught DEF TypeOK, OrderParams, Pass, Blames
    <2>7. CASE Call
      <3>1. request' = request /\ id' = id /\ entered' \in BOOLEAN
        BY <2>7 DEF TypeOK, Call
      <3>2. stage' = "done" /\ answer' \in {Page, InternalError, Result}
        BY <2>7, Caught DEF Call
      <3>3. QED
        BY <3>1, <3>2, Answers DEF TypeOK
    <2>8. CASE UNCHANGED vars
      BY <2>8 DEF TypeOK, vars
    <2>9. QED
      BY <2>1, <2>2, <2>3, <2>4, <2>5, <2>6, <2>7, <2>8 DEF Next
  <1>3. QED
    BY <1>1, <1>2, PTL DEF Spec

----------------------------------------------------------------------------
(***************************************************************************)
(* The stages.                                                             *)
(***************************************************************************)

\* What is said of the request alone does not change.
LEMMA SameRequest ==
    ASSUME request' = request
    PROVE  /\ Proper' <=> Proper
           /\ Short' <=> Short
           /\ WellFormed' <=> WellFormed
           /\ Broken' <=> Broken
           /\ Parameters' = Parameters
           /\ \A p : Argument(p)' = Argument(p)
  BY DEF Proper, Lacking, Misfit, Broken, Short, WellFormed, Parameters, Given, Argument

\* Every step takes the request one stage further and keeps what is known.
THEOREM Stages == Spec => []DispatchInv
  <1>1. Init => DispatchInv
    BY Answers DEF Init, DispatchInv, Unparsed, Taken, Found, Ordered, Blamed, Untouched, Blames
  <1>2. TypeOK /\ DispatchInv /\ [Next]_vars => DispatchInv'
    <2> SUFFICES ASSUME TypeOK, DispatchInv, [Next]_vars PROVE DispatchInv'
      OBVIOUS
    <2>0. stage # "done" => answer = Pending /\ ~entered
      BY Answers DEF TypeOK, DispatchInv, Untouched
    <2>1. CASE Connect
      BY <2>0, <2>1, Answers
         DEF Connect, Pass, DispatchInv, Unparsed, Taken, Found, Ordered, Blamed,
             Untouched, Blames
    <2>2. CASE CheckMethod
      BY <2>0, <2>2, Answers, Caught
         DEF CheckMethod, Pass, DispatchInv, Unparsed, Taken, Found, Ordered, Blamed,
             Untouched, WellFormed, Broken, Blames
    <2>3. CASE Parse
      BY <2>0, <2>3, Answers, Caught, ParseFaults, SameRequest
         DEF Parse, Pass, DispatchInv, Unparsed, Taken, Found, Ordered, Blamed,
             Untouched, WellFormed, Proper, Broken, Lacking, Blames
    <2>4. CASE Route
      BY <2>0, <2>4, Answers, Caught, SameRequest
         DEF Route, Pass, DispatchInv, Unparsed, Taken, Found, Ordered, Blamed, Untouched,
             Blames
    <2>5. CASE Reflect
      BY <2>0, <2>5, Answers, Caught, SameRequest
         DEF Reflect, Pass, DispatchInv, Unparsed, Taken, Found, Ordered, Blamed,
             Untouched, Blames
    <2>6. CASE OrderParams
      BY <2>0, <2>6, Answers, Caught, SameRequest
         DEF OrderParams, Pass, DispatchInv, Unparsed, Taken, Found, Ordered, Blamed,
             Untouched, Blames, Short
    <2>7. CASE Call
      BY <2>0, <2>7, Answers, Caught, SameRequest
         DEF Call, DispatchInv, Unparsed, Taken, Found, Ordered, Blamed, Untouched, Blames
    <2>8. CASE UNCHANGED vars
      BY <2>8, SameRequest
         DEF vars, DispatchInv, Unparsed, Taken, Found, Ordered, Blamed, Untouched
    <2>9. QED
      BY <2>1, <2>2, <2>3, <2>4, <2>5, <2>6, <2>7, <2>8 DEF Next
  <1>3. QED
    BY <1>1, <1>2, Types, PTL DEF Spec

\* A well-formed request is one that parseJsonRpcRequest finds nothing
\* lacking in, sent with POST.
LEMMA Form == WellFormed <=> request.post /\ ~Lacking
  BY DEF WellFormed, Lacking

\* A method that runs gets the client's values where it declares them.
THEOREM Arguments == Spec => []RightArguments
  <1>1. DispatchInv => RightArguments
    BY OrderedCalls DEF RightArguments
  <1>2. QED
    BY <1>1, Stages, PTL

\* An answer in JSON carries the id of a request that could be parsed, and
\* of no other, whatever went wrong later.
THEOREM Echo == Spec => []IdEchoed
  <1>1. TypeOK /\ DispatchInv => IdEchoed
    BY Answers, Form DEF TypeOK, DispatchInv, Taken, Blamed, IdEchoed, Proper, Broken,
                         WellFormed, Blames
  <1>2. QED
    BY <1>1, Types, Stages, PTL

\* The client is blamed for its own faults only, and then nothing has run.
THEOREM Blame == Spec => []BlameIsRight
  <1>1. TypeOK /\ DispatchInv => BlameIsRight
    BY Answers DEF TypeOK, DispatchInv, Blamed, Untouched, BlameIsRight, Short, Blames
  <1>2. QED
    BY <1>1, Types, Stages, PTL

\* A fault in the form of a request is answered as the client's, but for a
\* jsonrpc that is an object, which is answered as the server's.
THEOREM OwnFaults == Spec => []OwnFaultsAreNotOurs
  <1>1. TypeOK /\ DispatchInv => OwnFaultsAreNotOurs
    <2> SUFFICES ASSUME TypeOK, DispatchInv, stage = "done", ~WellFormed, answer # Page
                 PROVE  IF Broken THEN answer = InternalError ELSE answer.http = 400
      BY DEF OwnFaultsAreNotOurs, Broken
    <2>1. answer \in {ParseError, InvalidRequest} \/ (answer = InternalError /\ Broken)
      BY Form DEF TypeOK, DispatchInv, Taken, Proper
    <2>2. QED
      BY <2>1, Answers DEF DispatchInv, Blamed, Blames
  <1>2. QED
    BY <1>1, Types, Stages, PTL

\* Arguments that have all the types wanted are accepted, and no notice is
\* raised by those that are well-formed.
LEMMA Refused ==
    ASSUME DispatchInv, stage = "call", ~Accepts \/ Noted
    PROVE  WrongType \/ Notable
  <1>1. ASSUME NEW i \in 1 .. Len(Parameters), args[i].value # "null"
        PROVE  /\ Parameters[i].name \in DOMAIN request.params
               /\ args[i].value = request.params[Parameters[i].name]
    BY <1>1, OrderedCalls DEF Given
  <1>2. CASE ~Accepts
    <2>1. PICK i \in 1 .. Len(Parameters) : args[i].value = "bad"
      BY <1>2, OrderedCalls DEF Accepts
    <2>2. QED
      BY <1>1, <2>1 DEF WrongType
  <1>3. CASE Noted
    <2>1. PICK i \in 1 .. Len(Parameters) : args[i].value = "odd" /\ request.debug
      BY <1>3, OrderedCalls DEF Noted, Stops
    <2>2. QED
      BY <1>1, <2>1 DEF Notable
  <1>4. QED
    BY <1>2, <1>3

\* Only a value of the wrong type, a notice in debug mode, or no connection to
\* Redis brings a client an answer that is not JSON.
THEOREM Pages == Spec => PageNeedsTypeFault
  <1>1. TypeOK /\ DispatchInv /\ [Next]_vars
            => [answer' = Page /\ answer # Page => WrongType \/ Notable \/ stage = "connect"]_vars
    <2> SUFFICES ASSUME TypeOK, DispatchInv, Next, answer' = Page, answer # Page
                 PROVE  WrongType \/ Notable \/ stage = "connect"
      OBVIOUS
    <2>1. CASE Connect
      BY <2>1 DEF Connect
    <2>2. CASE CheckMethod
      BY <2>2, Answers, Caught DEF CheckMethod, Pass, Blames
    <2>3. CASE Parse
      BY <2>3, Answers, ParseFaults DEF Parse, Pass, Stops, WrongType, Notable, Blames
    <2>4. CASE Route
      BY <2>4, Answers, Caught DEF Route, Pass, Blames
    <2>5. CASE Reflect
      BY <2>5, Answers, Caught DEF Reflect, Pass, Blames
    <2>6. CASE OrderParams
      BY <2>6, Answers, Caught DEF OrderParams, Pass, Blames
    <2>7. CASE Call
      BY <2>7, Answers, Caught, Refused DEF Call, Blames
    <2>8. QED
      BY <2>1, <2>2, <2>3, <2>4, <2>5, <2>6, <2>7 DEF Next
  <1>2. QED
    BY <1>1, Types, Stages, PTL DEF Spec, PageNeedsTypeFault
================================================================================
