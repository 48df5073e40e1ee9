----------------------------- MODULE MCTelemetry ----------------------------
(* Telemetry for TLC.  Words are letters and digits. *)
EXTENDS Telemetry, TLC

MCLowered ==
    [w \in {"1", "2", "a", "-"} |-> w] @@ [w \in {"A"} |-> "a"] @@ [w \in {"/"} |-> "-"]

Named(id, name) == [id |-> id, name |-> name, topic_id |-> <<>>]

\* One that has the id of a managed object, and no name but in a pushed file,
\* beside a file that is no definition; one that is pushed twice; an id given
\* twice.
MCFiles ==
    { [inline |-> <<Named(<<"1", "2">>, <<>>)>>,
       pushed |-> <<Malformed, Named(<<"1", "2">>, <<"A", "/", "-", "1">>)>>],
      [inline |-> <<>>,
       pushed |-> <<Named(<<"1">>, <<"/">>), Named(<<"1">>, <<"1", "/">>)>>],
      [inline |-> <<Named(<<"a">>, <<"a">>), Named(<<"a">>, <<"1">>)>>, pushed |-> <<>>] }

MCGatewayId == <<"a", "/", "a">>

MCObjects == {<<"1">>, <<"1", "2">>}

Node(simplified, fragment, series, unit, statics) ==
    [simplified |-> simplified, fragment |-> fragment, series |-> series, unit |-> unit,
     statics |-> statics]

\* Two series of one fragment, one of them after its node; a fragment that is
\* also static; a unit given twice.
MCNodes ==
    << Node("n1", "f", "s", "C", {<<"g">>}),
       Node("n2", "f", None, "bar", {}),
       Node("n3", "g", "s", "F", {<<"f">>}) >>

MCDigits == {"1", "2"}

\* Two that are pulled, and a pushed one that is named like one of them.
MCTypes ==
    { [id |-> <<"1">>, pulled |-> TRUE, nodes |-> MCNodes],
      [id |-> <<"/", "1">>, pulled |-> FALSE, nodes |-> <<MCNodes[3]>>],
      [id |-> <<"2", "1">>, pulled |-> TRUE, nodes |-> <<>>] }

MCReadings ==
    { [good |-> TRUE, kind |-> "number", n |-> 7], [good |-> TRUE, kind |-> "flag", n |-> 1],
      [good |-> TRUE, kind |-> "text", n |-> 0], [good |-> FALSE, kind |-> "number", n |-> 8] }

=============================================================================
