-------------------------- MODULE MCCommandDaemon --------------------------
(* Instances for TLC: a recipe that relies on defaults, a CLI recipe with
   arguments under the same name, and one that does not validate. *)
EXTENDS CommandDaemon

Blank == [name |-> "fetch", runner |-> "", mode |-> "", prompt |-> FALSE, rounds |-> 0,
          binary |-> FALSE, fixed |-> FALSE, steps |-> <<>>, tools |-> {}, schema |-> "text",
          timeout |-> "", args |-> <<>>, servers |-> {"ethos"}, env |-> {}]

Arg(n, t, v, p, r, m) == [name |-> n, type |-> t, values |-> v, pos |-> p, required |-> r, max |-> m]

MCRecipes ==
    {[Blank EXCEPT !.prompt = TRUE, !.rounds = 1],
     [Blank EXCEPT !.runner = "cli", !.binary = TRUE, !.env = {"token"},
                   !.args = <<Arg("to", "string", {}, 1, TRUE, 2), Arg("how", "enum", {"fast"}, 0, FALSE, 0)>>],
     [Blank EXCEPT !.runner = "cli", !.binary = TRUE, !.tools = {"Bash"}]}

MCListings ==
    {<<Rec("pub", FALSE, "future"), Rec("sub", TRUE, "future"), Rec("sub", TRUE, "none")>>,
     <<Rec("pub", TRUE, "future")>>}

MCOrder == <<"a", "b">>

Empty == [x \in {} |-> 0]
MCGiven == {Empty, [to |-> [type |-> "string", text |-> "ann", len |-> 2]],
            [to |-> [type |-> "string", text |-> "bob", len |-> 3]],
            [to |-> [type |-> "string", text |-> "ann", len |-> 2],
             how |-> [type |-> "string", text |-> "fast", len |-> 4]]}
=============================================================================
