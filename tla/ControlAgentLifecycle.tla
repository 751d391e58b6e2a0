------------------------- MODULE ControlAgentLifecycle -------------------------
(***************************************************************************)
(* The control agent implements AgentLifecycle: the sockets, timers and    *)
(* promises of ControlAgent.ts are hidden behind the phase of its owner.   *)
(***************************************************************************)
EXTENDS ControlAgent

phaseOf(call) ==
    CASE call \in {"idle", "closed"}     -> "down"
      [] call \in {"opening", "loading"} -> "initialising"
      [] OTHER                           -> call

Lifecycle == INSTANCE AgentLifecycle WITH
    phase <- phaseOf(initCall), given <- certs # 0, alive <- exit = 0

\* Every behaviour of the agent is one PeerServer.ts relies on; in particular loadCerts()
\* resolves only after onCert has been called (ControlAgent.ts:187-201).
ImplementsLifecycle == Lifecycle!Spec
================================================================================
