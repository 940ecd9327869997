------------------------ MODULE MCPipelineScheduler ------------------------
(***************************************************************************)
(* A pipeline with a gated branch of two stages, a branch repaired once, a *)
(* third branch, and their join behind a second gate:                      *)
(*                                                                         *)
(*     a --if--> b ------> e ------> f                                     *)
(*     a ------> c --------if------> f                                     *)
(*     a ------> d ----------------> f                                     *)
(***************************************************************************)
EXTENDS PipelineScheduler, Sequences

MCOrder == <<"a", "b", "c", "d", "e", "f">>
MCIndexOf(S) == [s \in S |-> CHOOSE i \in 1..Len(MCOrder) : MCOrder[i] = s]

MCStages == {"a", "b", "c", "d", "e", "f"}
MCIndex == MCIndexOf(MCStages)
MCEdges == {<<"a", "b">>, <<"a", "c">>, <<"a", "d">>, <<"b", "e">>,
            <<"c", "f">>, <<"d", "f">>, <<"e", "f">>}
MCParents == [s \in MCStages |-> {p \in MCStages : <<p, s>> \in MCEdges}]
MCGated == {<<"a", "b">>, <<"c", "f">>}
MCOn == [f \in MCEdges |->
    IF f = <<"c", "f">> THEN {"succeeded", "failed"} ELSE {"succeeded"}]
MCMaxAttempts == [s \in MCStages |-> IF s = "c" THEN 2 ELSE 1]

(* Two branches from one root, one of them with a successor: what an answer
   in one branch races with. *)
MCFork == {"a", "b", "c", "d"}
MCForkIndex == MCIndexOf(MCFork)
MCForkEdges == {<<"a", "b">>, <<"a", "c">>, <<"b", "d">>}
MCForkParents == [s \in MCFork |-> {p \in MCFork : <<p, s>> \in MCForkEdges}]
MCForkOn == [f \in MCForkEdges |-> {"succeeded"}]
MCForkAttempts == [s \in MCFork |-> 1]
=============================================================================
