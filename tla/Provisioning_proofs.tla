------------------------- MODULE Provisioning_proofs -------------------------
(***************************************************************************)
(* Proofs about Provisioning, for any number of launchers, discs, clones   *)
(* and command lines: what is installed was verified, a launcher that had  *)
(* the tree to itself launches its own build, and the player is told of    *)
(* the disc its executable came from.                                      *)
(***************************************************************************)
EXTENDS Provisioning, TLAPS

\* The places of a run whose framework the build tree is configured for, and
\* those of a run whose disc is chosen.
AfterConfigure == {"discdump", "resolve", "extract", "verify", "replace", "player", "launch"}
AfterResolve == {"extract", "verify", "replace", "player", "launch"}

\* TypeOK, in two parts: what the launchers share, and the runs.
RunType == [at : Places, inv : Invocations \cup {NoInvocation}, source : Discs \cup {NoDisc},
            staged : {"none", "matching", "wrong"}, shared : BOOLEAN]

TreeType ==
  /\ disc \in [Discs -> Contents]
  /\ dotenv \in Discs \cup {NoDisc}
  /\ fetched \in BOOLEAN /\ discdump \in BOOLEAN
  /\ configured \in Frameworks \cup {NoFramework}
  /\ player \in Frameworks \cup {NoFramework}
  /\ installed \in {"none", "matching", "wrong"}

\* Source and staged file are there when the run's place needs them.
HasWhatItNeeds(l) ==
  /\ run[l].at \in AfterResolve => run[l].source \in Discs
  /\ run[l].at \in {"verify", "replace"} <=> run[l].staged # "none"

\* Nothing but what matched the manifest is about to be installed.
OnlyVerifiedMoves(l) == At(l, "replace") => run[l].staged = "matching"

\* What a launcher alone in the tree finds there is its own.
OwnTree(l) ==
  ~run[l].shared =>
    /\ run[l].at \in AfterConfigure => configured = Setting(run[l].inv)
    /\ run[l].at \in {"player", "launch"} => installed = "matching"
    /\ At(l, "launch") => player = Setting(run[l].inv)

\* From resolve_disc on the disc of the run is the one the player will read.
DiscAgrees(l) ==
  run[l].at \in AfterResolve => HandedDisc(run[l].inv) \in {run[l].source, NoDisc}

RunIsSound(l) ==
  /\ HasWhatItNeeds(l)
  /\ OnlyVerifiedMoves(l)
  /\ OwnTree(l)
  /\ DiscAgrees(l)

\* Of two launchers at work, both know that the tree is shared.
SharingIsMutual ==
  \A l, m \in Launchers : l # m /\ ~At(l, "idle") /\ ~At(m, "idle") => run[l].shared

Inv ==
  /\ TreeType
  /\ run \in [Launchers -> RunType]
  /\ InstalledIsVerified
  /\ SharingIsMutual
  /\ \A l \in Launchers : RunIsSound(l)

-----------------------------------------------------------------------------
\* A launcher that stops leaves a record that claims nothing.
LEMMA IdleType == Idle \in RunType
BY DEF Idle, RunType, Places, NoInvocation

\* The record of a fresh run makes no claim about tree or disc.
LEMMA IdleIsSound ==
  ASSUME NEW l \in Launchers, run[l] = Idle
  PROVE  RunIsSound(l)
BY DEF RunIsSound, HasWhatItNeeds, OnlyVerifiedMoves, OwnTree, DiscAgrees, At, Idle,
       AfterConfigure, AfterResolve

\* The invariant includes the type invariant that the run checks.
LEMMA InvTypeOK == Inv => TypeOK
BY DEF Inv, TypeOK, TreeType, RunType, RunIsSound, HasWhatItNeeds, AfterResolve

LEMMA InitInv == Init => Inv
<1> SUFFICES ASSUME Init
             PROVE  Inv
  OBVIOUS
<1>1. \A l \in Launchers : run[l] = Idle
  BY DEF Init
<1>2. TreeType /\ InstalledIsVerified
  BY DEF Init, TreeType, Contents, InstalledIsVerified
<1>3. run \in [Launchers -> RunType]
  BY IdleType DEF Init
<1>4. SharingIsMutual
  BY <1>1 DEF SharingIsMutual, At, Idle
<1>5. \A l \in Launchers : RunIsSound(l)
  BY <1>1, IdleIsSound
<1> QED
  BY <1>2, <1>3, <1>4, <1>5 DEF Inv

\* What one launcher does to the tree hurts no other: another one at work knows
\* that the tree is shared and claims nothing about it.
LEMMA OneLauncherMoves ==
  ASSUME Inv, NEW l \in Launchers, ~At(l, "idle"),
         TreeType', InstalledIsVerified',
         run' \in [Launchers -> RunType],
         \A m \in Launchers \ {l} : run'[m] = run[m],
         run'[l].shared = run[l].shared \/ run'[l].at = "idle",
         RunIsSound(l)'
  PROVE  Inv'
<1>1. SharingIsMutual'
  BY DEF Inv, SharingIsMutual, At
<1>2. ASSUME NEW m \in Launchers, m # l
      PROVE  RunIsSound(m)'
  <2>1. run'[m] = run[m] /\ RunIsSound(m)
    BY <1>2 DEF Inv
  <2>2. HasWhatItNeeds(m)' /\ OnlyVerifiedMoves(m)' /\ DiscAgrees(m)'
    BY <2>1 DEF RunIsSound, HasWhatItNeeds, OnlyVerifiedMoves, DiscAgrees, At, HandedDisc
  <2>3. At(m, "idle") \/ run[m].shared
    BY <1>2 DEF Inv, SharingIsMutual
  <2>4. OwnTree(m)'
    BY <2>1, <2>3 DEF OwnTree, At, AfterConfigure
  <2> QED
    BY <2>2, <2>4 DEF RunIsSound
<1> QED
  BY <1>1, <1>2 DEF Inv

\* A run may end anywhere, whatever a failing step leaves in the tree.
LEMMA AnyRunMayEnd ==
  ASSUME Inv, NEW l \in Launchers, ~At(l, "idle"), Ends(l),
         TreeType', InstalledIsVerified'
  PROVE  Inv'
<1>1. run' \in [Launchers -> RunType] /\ run'[l] = Idle
  BY IdleType DEF Ends, Inv
<1>2. \A m \in Launchers \ {l} : run'[m] = run[m]
  BY DEF Ends, Inv
<1>3. RunIsSound(l)'
  BY <1>1 DEF RunIsSound, HasWhatItNeeds, OnlyVerifiedMoves, OwnTree, DiscAgrees, At, Idle,
              AfterConfigure, AfterResolve
<1> QED
  BY <1>1, <1>2, <1>3, OneLauncherMoves DEF Idle

\* A launcher that goes on to another place changes its place only.
LEMMA GoesKeeps ==
  ASSUME Inv, NEW l \in Launchers, NEW place \in Places, Goes(l, place)
  PROVE  /\ run' \in [Launchers -> RunType]
         /\ run'[l] = [run[l] EXCEPT !.at = place]
         /\ \A m \in Launchers \ {l} : run'[m] = run[m]
<1>1. run \in [Launchers -> RunType]
  BY DEF Inv
<1>2. [run[l] EXCEPT !.at = place] \in RunType
  BY <1>1 DEF RunType
<1> QED
  BY <1>1, <1>2 DEF Goes
-----------------------------------------------------------------------------
(***************************************************************************)
(* One lemma for each action: what it leaves in the tree when it fails is  *)
(* harmless (AnyRunMayEnd), and when it goes on its own run stays sound.   *)
(***************************************************************************)
LEMMA StartLauncherInv == ASSUME Inv, NEW l \in Launchers, StartLauncher(l) PROVE Inv'
<1> DEFINE others == {m \in Launchers \ {l} : ~At(m, "idle")}
<1>1. PICK inv \in Invocations :
        run' = [m \in Launchers |->
                 IF m = l THEN [Idle EXCEPT !.at = "host", !.inv = inv,
                                            !.shared = others # {}]
                 ELSE IF m \in others THEN [run[m] EXCEPT !.shared = TRUE]
                 ELSE run[m]]
  BY DEF StartLauncher
<1>2. run'[l] = [at |-> "host", inv |-> inv, source |-> NoDisc, staged |-> "none",
                 shared |-> others # {}]
  BY <1>1 DEF Idle
<1>3. \A m \in others : run'[m] = [run[m] EXCEPT !.shared = TRUE]
  BY <1>1
<1>4. \A m \in Launchers \ {l} : m \notin others => run'[m] = run[m]
  BY <1>1
<1>5. run'[l] \in RunType
  BY <1>2 DEF RunType, Places
<1>6. run' \in [Launchers -> RunType]
  <2>1. ASSUME NEW m \in Launchers, m # l
        PROVE  run'[m] \in RunType
    <3>1. run[m] \in RunType /\ [run[m] EXCEPT !.shared = TRUE] \in RunType
      BY DEF Inv, RunType
    <3> QED
      BY <1>3, <1>4, <2>1, <3>1
  <2>2. run' = [m \in Launchers |-> run'[m]]
    BY <1>1
  <2> QED
    BY <1>5, <2>1, <2>2
<1>7. \A m \in Launchers \ {l} :
        /\ run'[m].at = run[m].at /\ run'[m].inv = run[m].inv
        /\ run'[m].source = run[m].source /\ run'[m].staged = run[m].staged
        /\ run[m].shared => run'[m].shared
  <2> SUFFICES ASSUME NEW m \in Launchers \ {l}
               PROVE  /\ run'[m].at = run[m].at /\ run'[m].inv = run[m].inv
                      /\ run'[m].source = run[m].source /\ run'[m].staged = run[m].staged
                      /\ run[m].shared => run'[m].shared
    OBVIOUS
  <2>1. run[m] \in RunType
    BY DEF Inv
  <2>2. CASE m \in others
    BY <1>3, <2>1, <2>2 DEF RunType
  <2>3. CASE m \notin others
    BY <1>4, <2>3
  <2> QED
    BY <2>2, <2>3
<1>8. SharingIsMutual'
  <2>1. \A m \in others : run'[m].shared
    BY <1>3 DEF Inv, RunType
  <2>2. \A m \in Launchers \ {l} : ~At(m, "idle")' => m \in others
    BY <1>7 DEF At
  <2>3. others # {} => run'[l].shared
    <3>1. run'[l].shared = (others # {})
      BY <1>2
    <3> QED
      BY <3>1, Zenon
  <2> QED
    BY <2>1, <2>2, <2>3 DEF SharingIsMutual
<1>9. RunIsSound(l)'
  BY <1>2 DEF RunIsSound, HasWhatItNeeds, OnlyVerifiedMoves, OwnTree, DiscAgrees, At,
              AfterConfigure, AfterResolve
<1>10. ASSUME NEW m \in Launchers \ {l}
       PROVE  RunIsSound(m)'
  <2>1. RunIsSound(m)
    BY DEF Inv
  <2>2. UNCHANGED tree
    BY DEF StartLauncher
  <2> QED
    BY <1>7, <2>1, <2>2
    DEF RunIsSound, HasWhatItNeeds, OnlyVerifiedMoves, OwnTree, DiscAgrees, At, HandedDisc,
        Setting, tree
<1>11. TreeType' /\ InstalledIsVerified'
  BY DEF StartLauncher, Inv, TreeType, InstalledIsVerified, user, tree
<1> QED
  BY <1>6, <1>8, <1>9, <1>10, <1>11 DEF Inv

LEMMA CheckHostInv == ASSUME Inv, NEW l \in Launchers, CheckHost(l) PROVE Inv'
<1>1. ~At(l, "idle")
  BY DEF CheckHost, At
<1>2. TreeType' /\ InstalledIsVerified'
  BY DEF CheckHost, Inv, TreeType, InstalledIsVerified, user, tree
<1>3. CASE Ends(l)
  BY <1>1, <1>2, <1>3, AnyRunMayEnd
<1>4. ASSUME NEW place \in {"fetch", "framework"}, Goes(l, place)
      PROVE  Inv'
  <2>1. /\ run' \in [Launchers -> RunType]
        /\ run'[l] = [run[l] EXCEPT !.at = place]
        /\ \A m \in Launchers \ {l} : run'[m] = run[m]
    BY <1>4, GoesKeeps DEF Places
  <2>2. run[l] \in RunType /\ RunIsSound(l)
    BY DEF Inv
  <2>3. RunIsSound(l)'
    BY <1>4, <2>1, <2>2
    DEF CheckHost, RunType, RunIsSound, HasWhatItNeeds, OnlyVerifiedMoves, OwnTree, DiscAgrees,
        At, AfterConfigure, AfterResolve
  <2>4. run'[l].shared = run[l].shared
    BY <2>1, <2>2 DEF RunType
  <2> QED
    BY <1>1, <1>2, <2>1, <2>3, <2>4, OneLauncherMoves
<1> QED
  BY <1>3, <1>4 DEF CheckHost

LEMMA FetchFrameworkInv == ASSUME Inv, NEW l \in Launchers, FetchFramework(l) PROVE Inv'
<1>1. ~At(l, "idle")
  BY DEF FetchFramework, At
<1>2. TreeType' /\ InstalledIsVerified'
  BY DEF FetchFramework, Inv, TreeType, InstalledIsVerified, user, tree
<1>3. CASE Ends(l)
  BY <1>1, <1>2, <1>3, AnyRunMayEnd
<1>4. CASE Goes(l, "framework")
  <2>1. /\ run' \in [Launchers -> RunType]
        /\ run'[l] = [run[l] EXCEPT !.at = "framework"]
        /\ \A m \in Launchers \ {l} : run'[m] = run[m]
    BY <1>4, GoesKeeps DEF Places
  <2>2. run[l] \in RunType /\ RunIsSound(l)
    BY DEF Inv
  <2>3. RunIsSound(l)'
    BY <1>4, <2>1, <2>2
    DEF FetchFramework, RunType, RunIsSound, HasWhatItNeeds, OnlyVerifiedMoves, OwnTree, DiscAgrees, At,
        AfterConfigure, AfterResolve, user, tree
  <2>4. run'[l].shared = run[l].shared
    BY <2>1, <2>2 DEF RunType
  <2> QED
    BY <1>1, <1>2, <2>1, <2>3, <2>4, OneLauncherMoves
<1> QED
  BY <1>3, <1>4 DEF FetchFramework

LEMMA CheckFrameworkInv == ASSUME Inv, NEW l \in Launchers, CheckFramework(l) PROVE Inv'
<1>1. ~At(l, "idle")
  BY DEF CheckFramework, At
<1>2. TreeType' /\ InstalledIsVerified'
  BY DEF CheckFramework, Inv, TreeType, InstalledIsVerified, user, tree
<1>3. CASE Ends(l)
  BY <1>1, <1>2, <1>3, AnyRunMayEnd
<1>4. CASE Goes(l, "configure")
  <2>1. /\ run' \in [Launchers -> RunType]
        /\ run'[l] = [run[l] EXCEPT !.at = "configure"]
        /\ \A m \in Launchers \ {l} : run'[m] = run[m]
    BY <1>4, GoesKeeps DEF Places
  <2>2. run[l] \in RunType /\ RunIsSound(l)
    BY DEF Inv
  <2>3. RunIsSound(l)'
    BY <1>4, <2>1, <2>2
    DEF CheckFramework, RunType, RunIsSound, HasWhatItNeeds, OnlyVerifiedMoves, OwnTree, DiscAgrees, At,
        AfterConfigure, AfterResolve, user, tree
  <2>4. run'[l].shared = run[l].shared
    BY <2>1, <2>2 DEF RunType
  <2> QED
    BY <1>1, <1>2, <2>1, <2>3, <2>4, OneLauncherMoves
<1> QED
  BY <1>3, <1>4 DEF CheckFramework

LEMMA ConfigureInv == ASSUME Inv, NEW l \in Launchers, Configure(l) PROVE Inv'
<1>1. ~At(l, "idle")
  BY DEF Configure, At
<1>2. TreeType' /\ InstalledIsVerified'
  BY DEF Configure, Inv, TreeType, InstalledIsVerified, user, tree, Setting, Frameworks
<1>3. CASE Ends(l)
  BY <1>1, <1>2, <1>3, AnyRunMayEnd
<1>4. CASE Goes(l, "discdump") /\ configured' = Setting(run[l].inv)
  <2>1. /\ run' \in [Launchers -> RunType]
        /\ run'[l] = [run[l] EXCEPT !.at = "discdump"]
        /\ \A m \in Launchers \ {l} : run'[m] = run[m]
    BY <1>4, GoesKeeps DEF Places
  <2>2. run[l] \in RunType /\ RunIsSound(l)
    BY DEF Inv
  <2>3. RunIsSound(l)'
    BY <1>4, <2>1, <2>2
    DEF Configure, RunType, RunIsSound, HasWhatItNeeds, OnlyVerifiedMoves, OwnTree, DiscAgrees, At,
        AfterConfigure, AfterResolve, user, tree, Setting
  <2>4. run'[l].shared = run[l].shared
    BY <2>1, <2>2 DEF RunType
  <2> QED
    BY <1>1, <1>2, <2>1, <2>3, <2>4, OneLauncherMoves
<1> QED
  BY <1>3, <1>4 DEF Configure

LEMMA BuildDiscdumpInv == ASSUME Inv, NEW l \in Launchers, BuildDiscdump(l) PROVE Inv'
<1>1. ~At(l, "idle")
  BY DEF BuildDiscdump, At
<1>2. TreeType' /\ InstalledIsVerified'
  BY DEF BuildDiscdump, Inv, TreeType, InstalledIsVerified, user, tree
<1>3. CASE Ends(l)
  BY <1>1, <1>2, <1>3, AnyRunMayEnd
<1>4. CASE Goes(l, "resolve")
  <2>1. /\ run' \in [Launchers -> RunType]
        /\ run'[l] = [run[l] EXCEPT !.at = "resolve"]
        /\ \A m \in Launchers \ {l} : run'[m] = run[m]
    BY <1>4, GoesKeeps DEF Places
  <2>2. run[l] \in RunType /\ RunIsSound(l)
    BY DEF Inv
  <2>3. RunIsSound(l)'
    BY <1>4, <2>1, <2>2
    DEF BuildDiscdump, RunType, RunIsSound, HasWhatItNeeds, OnlyVerifiedMoves, OwnTree, DiscAgrees, At,
        AfterConfigure, AfterResolve, user, tree
  <2>4. run'[l].shared = run[l].shared
    BY <2>1, <2>2 DEF RunType
  <2> QED
    BY <1>1, <1>2, <2>1, <2>3, <2>4, OneLauncherMoves
<1> QED
  BY <1>3, <1>4 DEF BuildDiscdump

LEMMA BuildPlayerInv == ASSUME Inv, NEW l \in Launchers, BuildPlayer(l) PROVE Inv'
<1>1. ~At(l, "idle")
  BY DEF BuildPlayer, At
<1>2. TreeType' /\ InstalledIsVerified'
  BY DEF BuildPlayer, Inv, TreeType, InstalledIsVerified, user, tree, Frameworks
<1>3. CASE Ends(l)
  BY <1>1, <1>2, <1>3, AnyRunMayEnd
<1>4. CASE Goes(l, "launch") /\ player' = configured
  <2>1. /\ run' \in [Launchers -> RunType]
        /\ run'[l] = [run[l] EXCEPT !.at = "launch"]
        /\ \A m \in Launchers \ {l} : run'[m] = run[m]
    BY <1>4, GoesKeeps DEF Places
  <2>2. run[l] \in RunType /\ RunIsSound(l)
    BY DEF Inv
  <2>3. RunIsSound(l)'
    BY <1>4, <2>1, <2>2
    DEF BuildPlayer, RunType, RunIsSound, HasWhatItNeeds, OnlyVerifiedMoves, OwnTree, DiscAgrees, At,
        AfterConfigure, AfterResolve, user, tree
  <2>4. run'[l].shared = run[l].shared
    BY <2>1, <2>2 DEF RunType
  <2> QED
    BY <1>1, <1>2, <2>1, <2>3, <2>4, OneLauncherMoves
<1> QED
  BY <1>3, <1>4 DEF BuildPlayer, StageFails

LEMMA VerifyInv == ASSUME Inv, NEW l \in Launchers, Verify(l) PROVE Inv'
<1>1. ~At(l, "idle")
  BY DEF Verify, At
<1>2. TreeType' /\ InstalledIsVerified'
  BY DEF Verify, Inv, TreeType, InstalledIsVerified, user, tree
<1>3. CASE Ends(l)
  BY <1>1, <1>2, <1>3, AnyRunMayEnd
<1>4. CASE Goes(l, "replace") /\ Matches(run[l].staged)
  <2>1. /\ run' \in [Launchers -> RunType]
        /\ run'[l] = [run[l] EXCEPT !.at = "replace"]
        /\ \A m \in Launchers \ {l} : run'[m] = run[m]
    BY <1>4, GoesKeeps DEF Places
  <2>2. run[l] \in RunType /\ RunIsSound(l)
    BY DEF Inv
  <2>3. RunIsSound(l)'
    BY <1>4, <2>1, <2>2
    DEF Verify, RunType, RunIsSound, HasWhatItNeeds, OnlyVerifiedMoves, OwnTree, DiscAgrees, At,
        AfterConfigure, AfterResolve, user, tree, Matches
  <2>4. run'[l].shared = run[l].shared
    BY <2>1, <2>2 DEF RunType
  <2> QED
    BY <1>1, <1>2, <2>1, <2>3, <2>4, OneLauncherMoves
<1> QED
  BY <1>3, <1>4 DEF Verify

LEMMA ResolveDiscInv == ASSUME Inv, NEW l \in Launchers, ResolveDisc(l) PROVE Inv'
<1>1. ~At(l, "idle")
  BY DEF ResolveDisc, At
<1>2. run[l] \in RunType /\ RunIsSound(l)
  BY DEF Inv
<1>3. TreeType' /\ InstalledIsVerified'
  BY <1>2 DEF ResolveDisc, Inv, TreeType, InstalledIsVerified, user, tree
<1>4. CASE Ends(l)
  BY <1>1, <1>3, <1>4, AnyRunMayEnd
<1>5. CASE Accepts(Selected(run[l].inv)) /\ run' = [run EXCEPT ![l].at = "extract",
                                                       ![l].source = Selected(run[l].inv)]
  <2>1. [run[l] EXCEPT !.at = "extract", !.source = Selected(run[l].inv)] \in RunType
    BY <1>2, <1>5 DEF RunType, Places, ResolveDisc, IsFile, Accepts, Selected
  <2>2. /\ run' \in [Launchers -> RunType]
        /\ run'[l] = [run[l] EXCEPT !.at = "extract", !.source = Selected(run[l].inv)]
        /\ \A m \in Launchers \ {l} : run'[m] = run[m]
    BY <1>5, <2>1 DEF Inv
  <2>3. RunIsSound(l)'
    BY <1>2, <1>5, <2>2
    DEF ResolveDisc, RunType, RunIsSound, HasWhatItNeeds, OnlyVerifiedMoves, OwnTree, DiscAgrees, At,
        AfterConfigure, AfterResolve, IsFile, HandedDisc, user, tree, Accepts, Selected
  <2>4. run'[l].shared = run[l].shared
    BY <1>2, <2>2 DEF RunType
  <2> QED
    BY <1>1, <1>3, <2>2, <2>3, <2>4, OneLauncherMoves
<1> QED
  BY <1>4, <1>5 DEF ResolveDisc, ManifestRefused

LEMMA ExtractInv == ASSUME Inv, NEW l \in Launchers, Extract(l) PROVE Inv'
<1>1. ~At(l, "idle")
  BY DEF Extract, At
<1>2. run[l] \in RunType /\ RunIsSound(l)
  BY DEF Inv
<1>3. TreeType' /\ InstalledIsVerified'
  BY <1>2 DEF Extract, Inv, TreeType, InstalledIsVerified, user, tree
<1>4. CASE Ends(l)
  BY <1>1, <1>3, <1>4, AnyRunMayEnd
<1>5. CASE run' = [run EXCEPT ![l].at = "verify", ![l].staged = Extracted(disc[run[l].source])]
  <2>1. [run[l] EXCEPT !.at = "verify", !.staged = Extracted(disc[run[l].source])] \in RunType
    BY <1>2, <1>5 DEF RunType, Places, Extract, IsFile, Extracted
  <2>2. /\ run' \in [Launchers -> RunType]
        /\ run'[l] = [run[l] EXCEPT !.at = "verify", !.staged = Extracted(disc[run[l].source])]
        /\ \A m \in Launchers \ {l} : run'[m] = run[m]
    BY <1>5, <2>1 DEF Inv
  <2>3. RunIsSound(l)'
    BY <1>2, <1>5, <2>2
    DEF Extract, RunType, RunIsSound, HasWhatItNeeds, OnlyVerifiedMoves, OwnTree, DiscAgrees, At,
        AfterConfigure, AfterResolve, IsFile, HandedDisc, user, tree, Extracted
  <2>4. run'[l].shared = run[l].shared
    BY <1>2, <2>2 DEF RunType
  <2> QED
    BY <1>1, <1>3, <2>2, <2>3, <2>4, OneLauncherMoves
<1> QED
  BY <1>4, <1>5 DEF Extract

LEMMA ReplaceInv == ASSUME Inv, NEW l \in Launchers, Replace(l) PROVE Inv'
<1>1. ~At(l, "idle")
  BY DEF Replace, At
<1>2. run[l] \in RunType /\ RunIsSound(l)
  BY DEF Inv
<1>3. TreeType' /\ InstalledIsVerified'
  BY <1>2 DEF Replace, Inv, TreeType, InstalledIsVerified, user, tree, HasWhatItNeeds, OnlyVerifiedMoves, RunIsSound, At
<1>4. CASE Ends(l)
  BY <1>1, <1>3, <1>4, AnyRunMayEnd
<1>5. CASE run' = [run EXCEPT ![l].at = "player", ![l].staged = "none"]
  <2>1. [run[l] EXCEPT !.at = "player", !.staged = "none"] \in RunType
    BY <1>2, <1>5 DEF RunType, Places, Replace, IsFile
  <2>2. /\ run' \in [Launchers -> RunType]
        /\ run'[l] = [run[l] EXCEPT !.at = "player", !.staged = "none"]
        /\ \A m \in Launchers \ {l} : run'[m] = run[m]
    BY <1>5, <2>1 DEF Inv
  <2>3. RunIsSound(l)'
    BY <1>2, <1>5, <2>2
    DEF Replace, RunType, RunIsSound, HasWhatItNeeds, OnlyVerifiedMoves, OwnTree, DiscAgrees, At,
        AfterConfigure, AfterResolve, IsFile, HandedDisc, user, tree
  <2>4. run'[l].shared = run[l].shared
    BY <1>2, <2>2 DEF RunType
  <2> QED
    BY <1>1, <1>3, <2>2, <2>3, <2>4, OneLauncherMoves
<1> QED
  BY <1>4, <1>5 DEF Replace

LEMMA LaunchInv == ASSUME Inv, NEW l \in Launchers, Launch(l) PROVE Inv'
<1>1. ~At(l, "idle") /\ Ends(l)
  BY DEF Launch, At
<1>2. TreeType' /\ InstalledIsVerified'
  BY DEF Launch, Inv, TreeType, InstalledIsVerified, user, tree
<1> QED
  BY <1>1, <1>2, AnyRunMayEnd

LEMMA KillInv == ASSUME Inv, NEW l \in Launchers, Kill(l) PROVE Inv'
<1>1. ~At(l, "idle") /\ Ends(l)
  BY DEF Kill, At
<1>2. TreeType' /\ InstalledIsVerified'
  BY DEF Kill, Inv, TreeType, InstalledIsVerified, user, tree
<1> QED
  BY <1>1, <1>2, AnyRunMayEnd

\* Nothing the invariant says of a run depends on the discs or on .env: what a
\* run needs of them it has read already.
LEMMA UserInv ==
  ASSUME Inv, ChangeDisc \/ EditDotenv
  PROVE  Inv'
<1>1. UNCHANGED <<tree, run>>
  BY DEF ChangeDisc, EditDotenv
<1>2. disc' \in [Discs -> Contents] /\ dotenv' \in Discs \cup {NoDisc}
  BY DEF ChangeDisc, EditDotenv, Inv, TreeType
<1>3. TreeType' /\ InstalledIsVerified'
  BY <1>1, <1>2 DEF Inv, TreeType, InstalledIsVerified, tree
<1>4. \A l \in Launchers : RunIsSound(l)'
  BY <1>1 DEF Inv, RunIsSound, HasWhatItNeeds, OnlyVerifiedMoves, OwnTree, DiscAgrees, At,
              HandedDisc, Setting, tree
<1>5. SharingIsMutual' /\ run' \in [Launchers -> RunType]
  BY <1>1 DEF Inv, SharingIsMutual, At
<1> QED
  BY <1>3, <1>4, <1>5 DEF Inv

-----------------------------------------------------------------------------
\* Inv is inductive.
LEMMA NextInv == Inv /\ [Next]_vars => Inv'
<1> SUFFICES ASSUME Inv, [Next]_vars
             PROVE  Inv'
  OBVIOUS
<1>1. ASSUME NEW l \in Launchers, LauncherStep(l)
      PROVE  Inv'
  BY <1>1, StartLauncherInv, CheckHostInv, FetchFrameworkInv, CheckFrameworkInv, ConfigureInv,
     BuildDiscdumpInv, ResolveDiscInv, ExtractInv, VerifyInv, ReplaceInv, BuildPlayerInv,
     LaunchInv, KillInv
  DEF LauncherStep
<1>2. CASE ChangeDisc \/ EditDotenv
  BY <1>2, UserInv
<1>3. CASE UNCHANGED vars
  <2>1. UNCHANGED <<user, tree, run>>
    BY <1>3 DEF vars
  <2>2. TreeType' /\ InstalledIsVerified' /\ SharingIsMutual' /\ run' \in [Launchers -> RunType]
    BY <2>1 DEF Inv, TreeType, InstalledIsVerified, SharingIsMutual, At, user, tree
  <2>3. \A l \in Launchers : RunIsSound(l)'
    BY <2>1 DEF Inv, RunIsSound, HasWhatItNeeds, OnlyVerifiedMoves, OwnTree, DiscAgrees, At,
                HandedDisc, Setting, tree
  <2> QED
    BY <2>2, <2>3 DEF Inv
<1> QED
  BY <1>1, <1>2, <1>3 DEF Next

LEMMA AlwaysInv == Spec => []Inv
BY InitInv, NextInv, PTL DEF Spec

\* Every variable keeps its type, and a run past a step has what that step
\* gives it (launch.main, resolve_disc, provision).
THEOREM ProvisioningTypeOK == Spec => []TypeOK
BY AlwaysInv, InvTypeOK, PTL

\* provision: what os.replace installs has passed verify_executable, with any
\* number of launchers, failing or killed at any step.
THEOREM InstalledIsAlwaysVerified == Spec => []InstalledIsVerified
<1>1. Inv => InstalledIsVerified
  BY DEF Inv
<1> QED
  BY <1>1, AlwaysInv, PTL

\* launch.main: a launcher that had the tree to itself starts the player it
\* built for its framework, on a verified executable.
THEOREM AlwaysLaunchesItsOwnBuild == Spec => []LaunchesItsOwnBuild
<1>1. Inv => LaunchesItsOwnBuild
  BY DEF Inv, LaunchesItsOwnBuild, RunIsSound, OwnTree, At
<1> QED
  BY <1>1, AlwaysInv, PTL

\* resolve_disc and the launcher's own choice of the disc agree.
THEOREM PlayerAlwaysReadsProvisionedDisc == Spec => []PlayerReadsProvisionedDisc
<1>1. Inv => PlayerReadsProvisionedDisc
  BY DEF Inv, PlayerReadsProvisionedDisc, RunIsSound, DiscAgrees, At, AfterResolve
<1> QED
  BY <1>1, AlwaysInv, PTL
=============================================================================
