---------------------------- MODULE MCPodRuntime ----------------------------
(* One name, whose Pod is replaced under every restart policy.             *)
EXTENDS PodRuntime

MCSpecs == {[policy |-> "Always", probe |-> TRUE],
            [policy |-> "OnFailure", probe |-> FALSE],
            [policy |-> "Never", probe |-> FALSE]}
=============================================================================
