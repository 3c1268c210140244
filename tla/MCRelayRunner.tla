---------------------------- MODULE MCRelayRunner ----------------------------
(***************************************************************************)
(* Instances of RelayRunner for TLC.  "rm_a" and "rm_b" have one policy    *)
(* text and two targets; "apt" is on both policy lists, "ls" reversible.   *)
(***************************************************************************)
EXTENDS RelayRunner, TLC

CONSTANTS c1, c2, c3, c4, alice, bob

AllOps == {"confirm", "info", "rm_a", "rm_b", "apt", "ls"}
\* At most one call beside the confirmation gate in a behaviour.
SideOps == {"info", "apt", "ls"}
OneSideCall == Cardinality({c \in Calls : op[c] \in SideOps}) <= 1
\* Bob is a stranger with one call: a challenge, a confirmation or an execution.
OneStranger == Cardinality({c \in Calls : client[c] = bob}) <= 1
MCTextOf == [o \in Ops |-> IF o \in {"rm_a", "rm_b"} THEN "rm" ELSE o]
MCTierOf == [o \in Ops |-> CASE o \in {"rm_a", "rm_b"} -> IRREVERSIBLE
                             [] o = "apt" -> STATEFUL
                             [] o = "ls" -> REVERSIBLE
                             [] OTHER -> READ_ONLY]

\* The inputs of the tools: two words, a list over the cap and a bad host name, an
\* inventory that lists "db" with everything set, lines of up to four keys.
MCTexts == {<<>>, <<"w">>, <<"v">>, <<"w", "v">>, <<"shell">>, <<"/bin/bash">>}
MCSizes == {<<80, 24>>, <<24, 80>>}
MCSpecs == {<<"L", "1", "dst", "2">>, <<"R", "1", "dst", "2">>, <<"D", "1">>}
MCHostLists == SeqOf({"db", "web"}, 3) \cup {<<"db", "w;v">>}
MCTargets ==
  [host : {"db", "web"}, user : {"", "ops"}, port : {0, 2222}, key_path : {"", "k1"},
   known_hosts : {"", "strict", "STRICT", "ignore"}, jump : {<<>>, <<"gate">>}]
MCInventory == <<[name |-> "db", user |-> "ops", port |-> 2222, key_path |-> "k1",
                  jump |-> <<"gate">>, known_hosts |-> "ignore"]>>
MCTyped == SeqOf({"a", "b", "enter", "interrupt"}, 2)
MCHistories == SeqOf({"a", "b", "enter", "interrupt"}, 4)

CallSymmetry == Permutations(Calls)
=============================================================================
