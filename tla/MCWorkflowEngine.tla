-------------------------- MODULE MCWorkflowEngine --------------------------
(* Instances of WorkflowEngine for TLC.                                     *)
EXTENDS WorkflowEngine, TLC

CONSTANTS system, cto, security

\* _DEFAULT_ROLE_CONFIGS for one user of each kind.
DefaultRoles ==
  system :> {"auto_approve", "escalate", "close"}
    @@ cto :> {"approve", "override", "escalate", "delegate", "reject"}
    @@ security :> {"approve", "reject", "request_info", "delegate"}

\* The scheduler threads run the same code.
ThreadSymmetry == Permutations(Threads)
=============================================================================
