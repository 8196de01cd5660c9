------------------------------- MODULE Probes -------------------------------
(***************************************************************************)
(* The three probes of a running product, one of which is run: the pair    *)
(* probe launches its product, the other two wait for somebody else's.     *)
(***************************************************************************)
EXTENDS PairProbe

CONSTANTS
  Words, Rows, First, LastField, Values         (* LoaderProbe             *)

VARIABLES
  tool,                                         (* the probe that is run   *)
  place, connected, sockets, endpoint,          (* EndpointWait            *)
  chain, outstanding, got, said, truth,         (* CompletionProbe         *)
  field, memory, late, row, previous, printed, began    (* LoaderProbe     *)

Completion == INSTANCE CompletionProbe WITH at <- place, client <- connected
Loader == INSTANCE LoaderProbe WITH at <- place, client <- connected

ASSUME LoaderAssumption == Loader!Bounds

endpointVars == <<place, connected, sockets, endpoint>>
completionVars == <<chain, outstanding, got, said, truth>>
loaderVars == <<field, memory, late, row, previous, printed, began>>
toolVars == <<tool, vars, endpointVars, completionVars, loaderVars>>

\* The tools that are not run stand at one of their initial states.
PairIdle == Init /\ todo = Both /\ \A leg \in Legs : capture[leg] = "none"
LoaderIdle == Loader!Init /\ memory = [i \in 1..Words |-> CHOOSE value \in Values : TRUE]

ToolInit ==
  \/ tool = "pair" /\ Init /\ Completion!Init /\ LoaderIdle
  \/ tool = "completion" /\ PairIdle /\ Completion!Init /\ LoaderIdle
  \/ tool = "loader" /\ PairIdle /\ Completion!Init /\ Loader!Init

PairDoes(A) == tool = "pair" /\ A /\ UNCHANGED <<tool, endpointVars, completionVars, loaderVars>>
CompletionDoes(A) == tool = "completion" /\ A /\ UNCHANGED <<tool, vars, loaderVars>>
LoaderDoes(A) == tool = "loader" /\ A /\ UNCHANGED <<tool, vars, completionVars>>

ToolNext == PairDoes(Next) \/ CompletionDoes(Completion!Next) \/ LoaderDoes(Loader!Next)

\* The fairness of each: the probe runs, and its deadlines pass.
ToolRuns ==
  PairDoes(ProbeStep) \/ CompletionDoes(Completion!ProbeStep) \/ LoaderDoes(Loader!ProbeStep)
ToolGivesUp ==
  \/ PairDoes(GivesUp)
  \/ CompletionDoes(Completion!GivesUp /\ UNCHANGED completionVars)
  \/ LoaderDoes(Loader!GivesUp /\ UNCHANGED loaderVars)

ToolFairness ==
  /\ WF_toolVars(ToolRuns) /\ SF_toolVars(ToolGivesUp)
  /\ WF_toolVars(LoaderDoes(Loader!DeadlinePasses))

ToolSpec == ToolInit /\ [][ToolNext]_toolVars /\ ToolFairness

-----------------------------------------------------------------------------
\* What the endpoint probes print is what they read, over one connection:
\* the properties of CompletionProbe and LoaderProbe.
CompletionProbeIsTruthful ==
  tool = "completion" =>
    Completion!TypeOK /\ Completion!OneConnection /\ Completion!FlightVerdictWasTrue
LoaderProbeIsTruthful ==
  tool = "loader" => Loader!TypeOK /\ Loader!SamplesFromFirst /\ Loader!MarksTellTheHistory

\* Whichever probe is run, it ends: in order, with a refusal or by an exception,
\* whether products stall, exit early, stop answering or are never there.
ProbesEnd ==
  <>CASE tool = "pair" -> Over
      [] tool = "completion" -> Completion!Over
      [] tool = "loader" -> Loader!Over
=============================================================================
