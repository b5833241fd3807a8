---------------------------- MODULE MCConnection ----------------------------
(* A small instance of Connection.                                         *)
EXTENDS Connection

\* An empty, a plain and a second text; a number that is none, a falsy one, one
\* within and one beyond every range.
TwoTexts ==
    [text |-> {"", "a", "b"}, num |-> {"NaN", "0", "10", "65536"}, bool |-> {"true", "false"},
     list |-> {"", "a,b"}]

\* No version, one, and three of which the highest is neither first nor last.
SomeOffers == {<<>>, << <<1, 0, 0>> >>, << <<1, 0, 0>>, <<1, 10>>, <<1, 5, 0>> >>}

\* Defaults of an application that switch a feature on, without what it needs.
SharedFiles == "height" :> "600" @@ "enable-sftp" :> "true"
=============================================================================
