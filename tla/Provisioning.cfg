SPECIFICATION Spec
CONSTANTS
  Launchers = {l1, l2}
  d1 = d1
  d2 = d2
  clone = clone
  Discs = {d1, d2}
  Dropins = {d1, d2}
  NoDisc = NoDisc
  Pin = Pin
  Clones = {clone}
  NoFramework = NoFramework
  Invocations <- MCInvocations
SYMMETRY LauncherSymmetry
INVARIANTS
  InstalledIsVerified
  LaunchesItsOwnBuild
  PlayerReadsProvisionedDisc
