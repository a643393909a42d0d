----------------------------- MODULE MC_Launcher -----------------------------
(* A 'cargo grade' of two tests and a 'cargo run' started in the same      *)
(* grader directory; a kernel.iso of an earlier session may be on disk.    *)
EXTENDS Launcher

MCGradersTwo == {"g1", "g2"}
MCWorkTwo == [g \in MCGradersTwo |->
                IF g = "g1" THEN <<"--quite t1", "--quite t2">> ELSE <<"">>]
=============================================================================
