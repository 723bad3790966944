----------------------------- MODULE MCSendMail -----------------------------
(* Instances for TLC: three correspondents, one domain pattern. *)
EXTENDS SendMail

MCMatches == [p \in Patterns |-> {"bob@d", "cyd@d"} \cup Patterns]
MCWidth == [p \in Patterns |-> IF p = "*@d" THEN 3 ELSE 2]

Card(n, e, k, p) == [name |-> n, email |-> e, aliases |-> {}, key |-> k, perms |-> (Me :> p)]

RW == <<"r", "w", "-">>
RO == <<"R", "-", "-">>
Odd == <<"r", "w">>

MCBooks ==
    {<<Card("ann", "ann@x", TRUE, RW), Card("bob", "bob@d", TRUE, RW)>>,
     <<Card("dom", "*@d", FALSE, RW), Card("bob", "bob@d", FALSE, RO), Card("ann", "ann@x", TRUE, RW)>>,
     <<Card("wide", "*@", FALSE, RW), Card("dom", "*@d", FALSE, RO), Card("ann", "ann@x", TRUE, Odd)>>}

Ask(t, c, b, s, f, x) ==
    [to |-> t, cc |-> c, bcc |-> b, subject |-> s, files |-> f, taint |-> x]

MCRequests ==
    {Ask(<<"ann">>, <<>>, <<"bob@d">>, <<"text">>, <<>>, {}),
     Ask(<<"ann@x">>, <<"cyd@d">>, <<>>, <<"fwd", "[own/b]", "text">>, <<2, 1>>, {}),
     Ask(<<"ann@x">>, <<>>, <<>>, <<"re", "[ext/c]", "text">>, <<2, 2>>, {}),
     Ask(<<"ann@x", "bob">>, <<>>, <<>>, <<>>, <<1>>, {"to", "file"}),
     Ask(<<"ann@x">>, <<>>, <<"bob@d">>, <<"text">>, <<>>, {"bcc"}),
     Ask(<<>>, <<>>, <<>>, <<"text">>, <<>>, {"subject"})}

Mail(i, rf, ir, rt, s, x) ==
    [id |-> i, refs |-> rf, irt |-> ir, replyTo |-> rt, subject |-> s,
     taint |-> x]

MCOriginals ==
    {Mail("m1", <<>>, <<>>, "ann@x", <<"text">>, ""),
     Mail("m2", <<"m0", "m1">>, <<"m1">>, "bob@d", <<"re", "[own/a]", "text">>, ""),
     Mail("m3", <<>>, <<"m0">>, "ann@x", <<"fwd", "re", "text">>, "thread"),
     Mail("", <<"m0">>, <<>>, "cyd@d", <<>>, "thread"),
     Mail("m4", <<>>, <<>>, "ann@x", <<"re">>, "subject"),
     Mail("m5", <<>>, <<>>, "", <<"text">>, "")}

MCListings ==
    {<<Rec("pub", TRUE, "future")>>, <<Rec("pub", TRUE, "none")>>, <<>>,
     <<Rec("pub", FALSE, "future"), Rec("sub", TRUE, "past"), Rec("sub", TRUE, "future")>>}
=============================================================================
