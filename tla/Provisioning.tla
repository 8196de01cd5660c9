---------------------------- MODULE Provisioning ----------------------------
(***************************************************************************)
(* tools/run.py and tools/provision_executable.py: a launcher resolves the *)
(* framework, configures and builds in one build tree, has the guest       *)
(* executable extracted from the user's disc, verified and installed, and  *)
(* launches the player.                                                    *)
(*                                                                         *)
(* Nothing locks the tree: several launchers may run at once, any of them  *)
(* may be killed between two steps, and the user may add, replace and      *)
(* remove disc images and edit .env meanwhile.  What a disc or a build     *)
(* contains is reduced to what the launcher can tell apart.                *)
(***************************************************************************)
EXTENDS FiniteSets

CONSTANTS
  Launchers,     (* processes that may run at once                         *)
  Discs,         (* paths of disc images                                   *)
  Dropins,       (* those that are *.chd at the repository root            *)
  NoDisc,
  Pin,           (* external/psxport                                       *)
  Clones,        (* psxport checkouts elsewhere                            *)
  NoFramework,
  Invocations    (* command lines with the environment they are run in     *)

ASSUME DropinsAssumption == Dropins \subseteq Discs
ASSUME NoDiscAssumption == NoDisc \notin Discs
ASSUME FrameworkAssumption == Pin \notin Clones /\ NoFramework \notin Clones \cup {Pin}

\* PSXPORT_DIR may be unset, set and empty, or name a clone.
ASSUME InvocationsAssumption ==
  Invocations \subseteq [arg : Discs \cup {NoDisc}, env : Discs \cup {NoDisc},
                         dir : {"unset", "empty"} \cup Clones]

VARIABLES
  disc,          (* what each path holds                                   *)
  dotenv,        (* the disc .env names                                    *)
  fetched,       (* external/psxport is a checkout                         *)
  configured,    (* the framework the build tree is configured for         *)
  discdump,      (* build/.../discdump is there                            *)
  player,        (* the framework build/bin/tekken3_port was built from    *)
  installed,     (* scratch/bin/tekken3/SLUS_004.02                        *)
  run            (* per launcher                                           *)

tree == <<fetched, configured, discdump, player, installed>>
user == <<disc, dotenv>>
vars == <<user, tree, run>>

Frameworks == Clones \cup {Pin}
Contents == {"absent", "usa", "other"}
Places == {"idle", "host", "fetch", "framework", "configure", "discdump", "resolve",
           "extract", "verify", "replace", "player", "launch"}
NoInvocation == [arg |-> NoDisc, env |-> NoDisc, dir |-> "unset"]

\* shared: another launcher ran at some moment of this run.
Idle == [at |-> "idle", inv |-> NoInvocation, source |-> NoDisc, staged |-> "none",
         shared |-> FALSE]

At(l, place) == run[l].at = place
Goes(l, place) == run' = [run EXCEPT ![l].at = place]

\* LauncherFailure, or the end of the launcher.
Ends(l) == run' = [run EXCEPT ![l] = Idle]

-----------------------------------------------------------------------------
(***************************************************************************)
(* Which framework and which disc.                                         *)
(***************************************************************************)
\* setting = PSXPORT_DIR or external/psxport.
Setting(inv) == IF inv.dir \in Clones THEN inv.dir ELSE Pin

IsCheckout(f) == f \in Clones \/ fetched
IsFile(d) == d \in Discs /\ disc[d] # "absent"

\* One *.chd at the root; several are ambiguous.
OnlyDropin ==
  LET there == {d \in Dropins : IsFile(d)}
  IN  IF Cardinality(there) = 1 THEN CHOOSE d \in there : TRUE ELSE NoDisc

\* resolve_disc: the first source that is configured at all.
Selected(inv) ==
  IF inv.arg # NoDisc THEN inv.arg
  ELSE IF inv.env # NoDisc THEN inv.env
  ELSE IF dotenv # NoDisc THEN dotenv
  ELSE OnlyDropin

\* It must be there; mutated: only a configured path is looked for.
AcceptsNone(d) == d = NoDisc \/ IsFile(d)
Accepts(d) == IsFile(d)

\* The disc the player is told of: the argument, else what the environment
\* says.  Mutated: an argument does not replace what the environment says.
EnvironmentFirst(inv) == IF inv.env # NoDisc THEN inv.env ELSE inv.arg
HandedDisc(inv) == IF inv.arg # NoDisc THEN inv.arg ELSE inv.env

-----------------------------------------------------------------------------
(***************************************************************************)
(* The launcher.                                                           *)
(***************************************************************************)
\* A run begins; who runs meanwhile shares the tree with it.
StartLauncher(l) ==
  /\ At(l, "idle")
  /\ LET others == {m \in Launchers \ {l} : ~At(m, "idle")}
     IN  \E inv \in Invocations :
           run' = [m \in Launchers |->
                    IF m = l THEN [Idle EXCEPT !.at = "host", !.inv = inv,
                                               !.shared = others # {}]
                    ELSE IF m \in others THEN [run[m] EXCEPT !.shared = TRUE]
                    ELSE run[m]]
  /\ UNCHANGED <<user, tree>>

\* require_tool and require_libraries; only an unset PSXPORT_DIR without a
\* checkout leads to a fetch.
CheckHost(l) ==
  /\ At(l, "host")
  /\ \/ Goes(l, IF run[l].inv.dir = "unset" /\ ~fetched THEN "fetch" ELSE "framework")
     \/ Ends(l)
  /\ UNCHANGED <<user, tree>>

FetchFramework(l) ==
  /\ At(l, "fetch")
  /\ \/ fetched' = TRUE /\ Goes(l, "framework")
     \/ fetched' \in {fetched, TRUE} /\ Ends(l)
  /\ UNCHANGED <<user, configured, discdump, player, installed>>

CheckFramework(l) ==
  /\ At(l, "framework")
  /\ IF IsCheckout(Setting(run[l].inv)) THEN Goes(l, "configure") ELSE Ends(l)
  /\ UNCHANGED <<user, tree>>

\* cmake -S . -B build -DPSXPORT_DIR=...; a failure may come after the cache
\* is written.
Configure(l) ==
  /\ At(l, "configure")
  /\ LET f == Setting(run[l].inv)
     IN  \/ configured' = f /\ Goes(l, "discdump")
         \/ configured' \in {configured, f} /\ Ends(l)
  /\ UNCHANGED <<user, fetched, discdump, player, installed>>

\* A failed build may leave the last one or nothing.
BuildDiscdump(l) ==
  /\ At(l, "discdump")
  /\ \/ discdump' = TRUE /\ Goes(l, "resolve")
     \/ discdump' \in {discdump, FALSE} /\ Ends(l)
  /\ UNCHANGED <<user, fetched, configured, player, installed>>

\* load_manifest refuses a manifest that cannot be read or lacks a field.
ManifestRefused(l) == Ends(l)

\* load_manifest and resolve_disc.
ResolveDisc(l) ==
  /\ At(l, "resolve")
  /\ LET d == Selected(run[l].inv)
     IN  \/ Accepts(d) /\ run' = [run EXCEPT ![l].at = "extract", ![l].source = d]
         \/ ~Accepts(d) /\ Ends(l)
         \/ ManifestRefused(l)
  /\ UNCHANGED <<user, tree>>

\* discdump into a directory of this process's own.  It may fail on any disc
\* and may report success without a file.
Extracted(content) == IF content = "usa" THEN "matching" ELSE "wrong"

Extract(l) ==
  /\ At(l, "extract")
  /\ LET d == run[l].source
     IN  \/ /\ discdump /\ IsFile(d)
            /\ run' = [run EXCEPT ![l].at = "verify", ![l].staged = Extracted(disc[d])]
         \/ Ends(l)
  /\ UNCHANGED <<user, tree>>

\* verify_executable: the eight facts of the manifest; mutated: a file is
\* enough.
AnyFileMatches(staged) == staged # "none"
Matches(staged) == staged = "matching"

Verify(l) ==
  /\ At(l, "verify")
  /\ IF Matches(run[l].staged) THEN Goes(l, "replace") ELSE Ends(l)
  /\ UNCHANGED <<user, tree>>

\* os.replace, and the staging directory goes.
Replace(l) ==
  /\ At(l, "replace")
  /\ installed' = run[l].staged
  /\ run' = [run EXCEPT ![l].at = "player", ![l].staged = "none"]
  /\ UNCHANGED <<user, fetched, configured, discdump, player>>

\* run_stage when the build fails; mutated: its exit is not looked at.
ExitIgnored(l) == Goes(l, "launch")
StageFails(l) == Ends(l)

BuildPlayer(l) ==
  /\ At(l, "player")
  /\ \/ player' = configured /\ Goes(l, "launch")
     \/ player' \in {player, NoFramework} /\ StageFails(l)
  /\ UNCHANGED <<user, fetched, configured, discdump, installed>>

\* The player is started, or --prepare-only ends here.
Launch(l) ==
  /\ At(l, "launch")
  /\ Ends(l)
  /\ UNCHANGED <<user, tree>>

-----------------------------------------------------------------------------
\* The process group is killed.
Kill(l) ==
  /\ ~At(l, "idle")
  /\ Ends(l)
  /\ UNCHANGED <<user, tree>>

\* The user adds, replaces or removes a disc image.
ChangeDisc ==
  /\ \E d \in Discs, c \in Contents : c # disc[d] /\ disc' = [disc EXCEPT ![d] = c]
  /\ UNCHANGED <<dotenv, tree, run>>

EditDotenv ==
  /\ \E d \in Discs \cup {NoDisc} : d # dotenv /\ dotenv' = d
  /\ UNCHANGED <<disc, tree, run>>

\* A fresh clone of the repository.
Init ==
  /\ disc = [d \in Discs |-> "absent"]
  /\ dotenv = NoDisc
  /\ fetched = FALSE
  /\ configured = NoFramework
  /\ discdump = FALSE
  /\ player = NoFramework
  /\ installed = "none"
  /\ run = [l \in Launchers |-> Idle]

LauncherStep(l) ==
  \/ StartLauncher(l)
  \/ CheckHost(l)
  \/ FetchFramework(l)
  \/ CheckFramework(l)
  \/ Configure(l)
  \/ BuildDiscdump(l)
  \/ ResolveDisc(l)
  \/ Extract(l)
  \/ Verify(l)
  \/ Replace(l)
  \/ BuildPlayer(l)
  \/ Launch(l)
  \/ Kill(l)

Next == (\E l \in Launchers : LauncherStep(l)) \/ ChangeDisc \/ EditDotenv

Spec == Init /\ [][Next]_vars

-----------------------------------------------------------------------------
\* The types; a launcher past resolve_disc has a disc, and one with a staged
\* file is about to verify or to install it.
TypeOK ==
  /\ disc \in [Discs -> Contents]
  /\ dotenv \in Discs \cup {NoDisc}
  /\ fetched \in BOOLEAN /\ discdump \in BOOLEAN
  /\ configured \in Frameworks \cup {NoFramework}
  /\ player \in Frameworks \cup {NoFramework}
  /\ installed \in {"none", "matching", "wrong"}
  /\ run \in [Launchers -> [at : Places, inv : Invocations \cup {NoInvocation},
                            source : Discs \cup {NoDisc},
                            staged : {"none", "matching", "wrong"}, shared : BOOLEAN]]
  /\ \A l \in Launchers :
       /\ run[l].at \in {"extract", "verify", "replace", "player", "launch"} =>
            run[l].source \in Discs
       /\ run[l].at \in {"verify", "replace"} <=> run[l].staged # "none"

\* The installed executable is one that matched the manifest, whatever was
\* extracted from which disc, by how many launchers, and wherever one of them
\* was killed ("failed replacement preserves the last verified executable").
InstalledIsVerified == installed # "wrong"

\* A launcher that had the tree to itself launches a player built for the
\* framework it announced and hands it a verified executable: never a build or
\* an executable some earlier, failed or killed run left behind.
LaunchesItsOwnBuild ==
  \A l \in Launchers : At(l, "launch") /\ ~run[l].shared =>
    /\ player = Setting(run[l].inv)
    /\ installed = "matching"

\* The disc the player is told to read is the one its executable came from:
\* the launcher and the provisioner choose separately and agree.
PlayerReadsProvisionedDisc ==
  \A l \in Launchers : At(l, "launch") =>
    HandedDisc(run[l].inv) \in {run[l].source, NoDisc}
=============================================================================
