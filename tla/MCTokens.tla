------------------------------ MODULE MCTokens ------------------------------
(***************************************************************************)
(* The life of a request's tokens, checked in one run: how a reservation   *)
(* is counted (TokenLimiter) and how the usage is read from the response   *)
(* (ResponseStream).  The initial state chooses the part that moves.       *)
(***************************************************************************)
EXTENDS MCTokenLimiter, ResponseStream

VARIABLE part

\* Stream chunks: content and tool calls of two choices, usage with an alias and
\* an empty details member, a later partial count, an invalid one, and a total
\* beside a nested usage.
UsageObject(members, more) == [counts |-> members, details |-> more]
Delta(index, role, content, tools, finish) ==
    [index |-> index, role |-> role, content |-> content, tools |-> tools, finish |-> finish,
     reasoning |-> FALSE]
Call(index, arguments) == [index |-> index, arguments |-> arguments]
Says(choices) == [EmptyChunk EXCEPT !.choices = choices]
Uses(members, more) == [EmptyChunk EXCEPT !.usage = UsageObject(members, more)]
SomeSplit == {Uses([output_tokens |-> 3], <<>>)}
SomeChunks ==
    SomeSplit \cup
    {[Says(<<Delta(0, "assistant", <<"a">>, <<>>, "absent")>>) EXCEPT !.id = 1],
     Says(<<Delta(1, "", <<"b">>, <<Call(0, <<"x">>)>>, "null"),
            Delta(0, "", <<"c">>, <<Call(1, <<"y">>), Call(1, <<"z">>)>>, "stop")>>),
     Uses([prompt_tokens |-> 1, input_tokens |-> 2, completion_tokens |-> 1],
          [prompt_tokens_details |-> <<>>, input_tokens_details |-> [cached_tokens |-> 1]]),
     Uses([prompt_tokens |-> 1, total_tokens |-> -1], <<>>),
     [Uses([total_tokens |-> 3], <<>>) EXCEPT !.response = UsageObject([input_tokens |-> 2], <<>>)]}

tokensVars == <<tokenVars, streamVars, part>>

TokensInit ==
    /\ part \in {"limiter", "stream"}
    /\ Init /\ StreamInit
    /\ part # "stream" => driver = "observe"
    /\ part # "limiter" => buckets = <<>>

\* A step of one part.
Only(name, step, others) == part = name /\ step /\ UNCHANGED <<part, others>>

TokensNext ==
    \/ Only("limiter", Next, streamVars)
    \/ Only("stream", StreamNext, tokenVars)

TokensSpec == TokensInit /\ [][TokensNext]_tokensVars
=============================================================================
