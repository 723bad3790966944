---------------------------- MODULE MCEnableRepo ----------------------------
(* Instances for TLC: files with and without a terminator, blocks closed,
   not closed and closed too short, an import quoted in a block, imports
   before, between and after the user's lines; the last field is what the
   user wrote of the file. *)
EXTENDS EnableRepo

H(ls, e, l, user) == [file |-> File(ls, e), link |-> l, prose |-> user]

MCHostFiles ==
    {H(<<>>, TRUE, FALSE, <<>>),
     H(<<>>, TRUE, TRUE, <<>>),
     H(<<"tick3", "text">>, FALSE, FALSE, <<"tick3", "text">>),
     H(<<"indented", "tick4", "tick3", "import", "tick3", "tick4", "import", "text">>, TRUE, FALSE,
       <<"indented", "tick4", "tick3", "import", "tick3", "tick4", "text">>),
     H(<<"import", "text", "import", "tilde3", "import", "tick3", "tilde3">>, FALSE, FALSE,
       <<"text", "tilde3", "import", "tick3", "tilde3">>)}

\* The processes are alike, and so are the rules.
Symmetric == Permutations(Procs) \cup Permutations(Rules)
=============================================================================
