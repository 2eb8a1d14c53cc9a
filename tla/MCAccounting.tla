---------------------------- MODULE MCAccounting ----------------------------
(***************************************************************************)
(* Before and after the upstream call: what a request reserves and at what *)
(* price (ReservationPlan), and the worker that corrects its charge when   *)
(* the response has been read (UsageObservation), checked in one run.  The *)
(* initial state chooses the part that moves.                              *)
(***************************************************************************)
EXTENDS UsageObservation, ReservationPlan

VARIABLE part

\* Model patterns, pricing tables, key policies and requests.
Lit(letter) == Token("literal", {letter})
Star == Token("star", {})
NameA == <<Lit("a")>>
GlobA == <<Lit("a"), Star, Star>>
Nested == <<Star, Lit("/"), Token("negated", {"a"})>>
R(model, input, output) == [model |-> model, inputRate |-> input, outputRate |-> output]
SomeTables ==
    {<<>>, <<R(GlobA, 1, 2), R(NameA, 0, 0), R(<<Star, Token("question", {})>>, 2, 1)>>,
     <<R(NameA, 1, 1), R(NameA, 2, 2)>>, <<R(GlobA, 1, 1), R(<<Lit("a"), Star>>, 2, 2)>>,
     <<R(Nested, 0, 2), R(<<Star, Token("class", {"a", "b"})>>, 1, 1)>>,
     <<R(<<Token("invalid", {})>>, 1, 1)>>}
KeyPolicy(denied, allowed, estimate, tokens, budget) ==
    [denied |-> denied, allowed |-> allowed, estimate |-> estimate, tokens |-> tokens,
     budget |-> budget]
SomeKeyPolicies ==
    {KeyPolicy({}, {}, e, t, ~t) : e, t \in BOOLEAN}
    \cup {KeyPolicy({}, {}, FALSE, FALSE, FALSE), KeyPolicy({}, {}, TRUE, TRUE, TRUE),
          KeyPolicy({Nested}, {GlobA, Nested}, TRUE, FALSE, TRUE)}
Item(field, kind, parts) == [field |-> field, kind |-> kind, parts |-> parts]
SomeItems == {<<>>, <<Item("messages", "message", <<0, 1>>), Item("instructions", "text", <<1>>)>>,
              <<Item("input", "message", <<1, Absent>>)>>,
              <<Item("input", "text", <<1>>), Item("input", "message", <<1>>),
                Item("tools", "function", <<>>)>>,
              <<Item("input", "file", <<>>)>>, <<Item("tools", "hosted", <<>>)>>}
SomeLimits == {<<>>, [max_output_tokens |-> 1, max_tokens |-> 3], [max_tokens |-> -1],
               [max_completion_tokens |-> 0, max_tokens |-> 1]}
SomeModels == {<<"a">>, <<"b">>, <<"a", "/", "b">>, <<>>}
SomeRequests ==
    {[path |-> p, json |-> TRUE, sized |-> TRUE, fits |-> TRUE, valid |-> TRUE, model |-> m,
      printable |-> TRUE, limits |-> l, items |-> i] :
        p \in {"chat", "responses"}, m \in SomeModels, l \in SomeLimits, i \in SomeItems}
    \cup {[Unread EXCEPT !.path = p, !.json = j, !.fits = f, !.valid = v, !.model = <<"a">>,
                         !.printable = FALSE] :
          p \in {"models", "other", "chat"}, j, f, v \in BOOLEAN}

AccountingInit ==
    /\ part \in {"plan", "usage"}
    /\ Init /\ PlanInit

AccountingNext ==
    /\ \/ part = "plan" /\ PlanNext /\ UNCHANGED vars
       \/ part = "usage" /\ Next /\ UNCHANGED planVars
    /\ UNCHANGED part

AccountingSpec == AccountingInit /\ [][AccountingNext]_<<vars, planVars, part>>

Symmetric == Permutations(Requests)
=============================================================================
