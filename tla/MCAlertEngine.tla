--------------------------- MODULE MCAlertEngine ---------------------------
(* The alert engine on small instances.
   Evaluation: two partitions of one event each, and a rule that both match
   and that is suppressed outside office hours; rules share nothing but the
   order of an evaluation, so one is enough.
   Dispatch: two tasks for three channels, e-mail and in-app for both, so
   that their runs can wait for each other, and an unsupported one for the
   second.
   Settings: a rule, one of another tenant, and a channel; edits that share
   columns and edits that do not.
   The two runs of one part each take the other parts empty. *)
EXTENDS AlertEngine, TLC

CONSTANTS r1, r2, g1, p1, p2, e1, e2, j1, j2, mail, inapp, pager

MCLog == (p1 :> <<e1>>) @@ (p2 :> <<e2>>)
MCMatches == {<<r1, e1>>, <<r1, e2>>}

MCEligible == {<<j1, mail>>, <<j1, inapp>>, <<j2, mail>>, <<j2, inapp>>, <<j2, pager>>}

Value(k, v) == [kind |-> k, val |-> v]
If(field, op, value) == [field |-> field, operator |-> op, value |-> value]

Above == {If("score", "gt", Value("num", 1)), If("score", "lte", Value("num", 2))}
Named == {If("region", "in", Value("text", 2)), If("region", "contains", Value("text", 1))}
Other == {If("region", "neq", Value("text", 1)), If("region", "contains", Value("text", 0))}
Edges == {If("score", "gte", Value("num", 0)), If("score", "lt", Value("num", 2)),
          If("region", "in", Value("list", {Value("text", 1), None}))}
Missing == {If("score", "eq", None)}

Row(conditions) == [active |-> TRUE, severity |-> "high", conditions |-> conditions]
Off == [active |-> FALSE]

NoLog == <<>>
NoForeign == <<>>
MCForeign == g1 :> Row(Missing)
MCBodies ==
    (r2 :> {Row(Above), Off, [conditions |-> Named], [conditions |-> Other, active |-> TRUE],
            [conditions |-> Edges], [conditions |-> Missing, severity |-> "low"]})
    @@ (g1 :> {Off})
    @@ (mail :> {Row("plain"), Off, [conditions |-> "digest"]})

Payload(score, region) == [score |-> score, region |-> region]
MCPayloads == {Payload(None, None), Payload(Value("num", 0), Value("text", 0)),
               Payload(Value("num", 2), Value("text", 1)),
               Payload(Value("text", 1), Value("num", 0))}
=============================================================================
