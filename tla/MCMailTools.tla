---------------------------- MODULE MCMailTools -----------------------------
(* Instances for TLC: one caller of the server and one on the command line. *)
EXTENDS MailTools

MCMatches == [p \in Patterns |-> {"bob@d"}]
MCWidth == [p \in Patterns |-> 3]

MCEmailOf == [h \in Handles |-> CASE h = "claude" -> "me@x" [] h = "sam" -> "sam@x"
                                  [] OTHER -> Broken]

Signed(v) == Entity("signed", FALSE, v, 2)
Sealed == Entity("encrypted", FALSE, "none", 2)
Note(f, r, w, t, i) == [from |-> f, repo |-> r, words |-> w, top |-> t, inner |-> i]

MCMail ==
    <<Note("ann@x", TRUE, TRUE, Signed("good"), Signed("good")),
      Note("bob@d", TRUE, FALSE, Signed("bad"), Signed("bad")),
      Note("", FALSE, TRUE, Entity("plain", TRUE, "none", 1), Entity("plain", TRUE, "none", 1)),
      Note("ann@x", TRUE, TRUE, Sealed, Signed("good"))>>

Card(n, e, ps) == [name |-> n, email |-> e, aliases |-> {}, key |-> FALSE, perms |-> ps]
RO == <<"r", "-", "-">>

MineBook == <<Card("ann", "ann@x", "me@x" :> RO), Card("dom", "*@d", "me@x" :> RO)>>
SamBook == <<Card("ann", "ann@x", ("me@x" :> RO) @@ ("sam@x" :> <<"-", "-", "-">>)),
             Card("dom", "*@d", "sam@x" :> RO)>>

OkFile == Book(<<>>)
Dir(cfg, book) == ("email.json" :> cfg) @@ ("contacts.json" :> book)

Settled == ("me@x" :> Dir(OkFile, Book(MineBook))) @@ ("sam@x" :> Dir(Absent, Book(SamBook)))
             @@ ("root" :> Dir(OkFile, Absent))
Fresh == ("me@x" :> Dir(OkFile, Absent)) @@ ("sam@x" :> Dir(Absent, Book(SamBook)))
             @@ ("root" :> Dir(OkFile, Book(MineBook)))

Bare == ("me@x" :> Dir(Torn, Absent)) @@ ("sam@x" :> Dir(Absent, Absent))
          @@ ("root" :> Dir(Absent, Absent))

Who(r, a, d) == [repo |-> r, active |-> a, default |-> d]
Plan(t, k) == ("mcp" :> t) @@ ("cli" :> k)
Setup(p, n, f, k) == [plan |-> p, names |-> n, files |-> f, calls |-> ("mcp" :> 1) @@ ("cli" :> k)]

Looking == {"list_messages", "search_messages", "read_message", "download_attachment",
            "verify_signature", "show_mime", "check_trust"}
Sorting == {"move_message", "batch_move", "mark_message", "batch_mark"}

MCSetups ==
    {Setup(Plan(Looking, {"move", "mark"}), Who("claude", "absent", "absent"), Settled, 1),
     Setup(Plan(Sorting, {"list", "search", "read", "move", "mark"}),
           Who("absent", "empty", "me@x"), Settled, 1),
     Setup(Plan({"add_contact", "remove_contact"}, {"contact_add", "contact_remove"}),
           Who("absent", "claude", "absent"), Fresh, 2),
     Setup(Plan({"add_contact"}, {"contact_add", "list"}), Who(Broken, "sam", "absent"), Fresh, 2),
     Setup(Plan({"list_messages"}, {"list"}), Who("absent", "sam", "absent"), Bare, 1)}
    \cup
    {Setup(Plan({"read_message", "download_attachment", "switch_identity"},
                {"contact_add", "contact_remove", "identity_set"}), n, Settled, 1) :
       n \in {Who("claude", "sam", "absent"), Who(Broken, "sam", "absent"),
              Who("empty", "claude", "absent")}}

MCInbox == <<1, 2, 3>>
MCQueries == [repo : BOOLEAN, unread : BOOLEAN, words : BOOLEAN]
MCPages == [count : {1, 2, 5}, offset : {0, 1, 3}]
MCIdLists == {<<>>, <<1, 1>>, <<3, 2, 1, 2>>, <<1, 0>>, <<4>>}
MCNewcomers ==
    {[name |-> "bob", email |-> "bob@d", aliases |-> {"b"}, grant |-> RO],
     [name |-> "b", email |-> "*@d", aliases |-> {}, grant |-> <<"r", "w", "-">>]}
=============================================================================
