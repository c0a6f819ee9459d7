------------------------------ MODULE MCHiring ------------------------------
(* Instances of HiringPipeline for TLC.                                    *)
EXTENDS HiringPipeline

None == [r \in Rounds |-> "none"]

\* A chain of mails: one sent at once, one deferred, each moving the application.
ByMail == [rounds |-> 3, test |-> None, talk |-> {}, board |-> {},
           mail |-> [None EXCEPT ![1] = "nowMove", ![2] = "laterMove"],
           arms |-> {<<2, "laterMove">>, <<2, "nowMove">>}]
\* Two tests whose results move the application, and an interview on the way.
ByTest == [rounds |-> 2, test |-> [None EXCEPT ![1] = "move", ![2] = "move"],
           talk |-> {}, board |-> {}, mail |-> [None EXCEPT ![2] = "due"],
           arms |-> {}]
\* Two interviews and an onboarding in one chain, and a test that moves nothing.
InChain == [rounds |-> 2, test |-> [None EXCEPT ![1] = "stay"], talk |-> {1, 2},
            board |-> {2}, mail |-> [None EXCEPT ![1] = "nowMove"], arms |-> {}]

MCPlans == {ByMail, ByTest, InChain}
MCByTest == {ByTest}
=============================================================================
