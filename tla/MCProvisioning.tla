--------------------------- MODULE MCProvisioning ---------------------------
EXTENDS Provisioning, TLC

CONSTANTS d1, d2, clone

\* An argument against the environment, the environment alone, neither with a
\* development clone, and neither with PSXPORT_DIR set and empty.
MCInvocations ==
  { [arg |-> d1, env |-> d2, dir |-> "unset"],
    [arg |-> NoDisc, env |-> d2, dir |-> "unset"],
    [arg |-> NoDisc, env |-> NoDisc, dir |-> clone],
    [arg |-> NoDisc, env |-> NoDisc, dir |-> "empty"] }

LauncherSymmetry == Permutations(Launchers)
=============================================================================
