-------------------------- MODULE MCContainerConfig --------------------------
(***************************************************************************)
(* Images whose entrypoint is two words, none, and the one word that the   *)
(* first one is turned into; users who give an entrypoint, a command,      *)
(* both, a cleared entrypoint or nothing, and labels with each kind of key.*)
(***************************************************************************)
EXTENDS ContainerConfig, TLC

SomeImages ==
    {[entry |-> <<"init", "--">>, cmd |-> <<"serve">>, labels |-> "version" :> "1"],
     [entry |-> <<>>, cmd |-> <<"serve">>, labels |-> "version" :> "2" @@ "zone" :> "2"],
     [entry |-> <<"init">>, cmd |-> <<"--", "serve">>, labels |-> <<>>]}

SomeNetworks == <<"back", "front", "host">>

(* No words, an entrypoint of the image's or another one, a command alone, *)
(* and a command with a cleared entrypoint.                                *)
SomeWords ==
    {[entry |-> <<>>, cmd |-> <<>>], [entry |-> <<<<"init", "--">>>>, cmd |-> <<"serve">>],
     [entry |-> <<<<"tini", "-g">>>>, cmd |-> <<>>], [entry |-> <<>>, cmd |-> <<"work">>],
     [entry |-> <<<<>>>>, cmd |-> <<"work">>]}

SomeLabels == {<<>>, "zone" :> "mine" @@ "my key" :> "mine" @@ "owner" :> "mine"}

User(words, labels, nets, mode) ==
    [entry |-> words.entry, cmd |-> words.cmd, labels |-> labels, nets |-> nets, mode |-> mode]

NoWords == [entry |-> <<>>, cmd |-> <<>>]

SomeUsers ==
    {User(words, <<>>, "host" :> Plain, "host") : words \in SomeWords} \cup
    {User(NoWords, labels, "back" :> Plain, "back") : labels \in SomeLabels} \cup
    {User(NoWords, <<>>, "front" :> [alias |-> TRUE, fixed |-> TRUE] @@ "back" :> Plain, mode) :
        mode \in {"front", "back"}}
=============================================================================
