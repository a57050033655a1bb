----------------------------- MODULE MCEndings ------------------------------
(* What has to come to an end, one component at a time: a cancellation at the *)
(* gate node (both profiles, two goals) and at the relay (two goals at once),  *)
(* the light of the two bench boards after the last word of the authorizer and *)
(* after the end of a host's run, and the way of a failed simulation's error   *)
(* to a page.  part says which of them runs; the others stay as they start, so *)
(* the run is the sum of the instances.                                        *)
EXTENDS Relay, GateNode

VARIABLES part,
  clk, board, auth, frames, relay,
  clk1, board1, wire, host, gate,
  hub, runner, browser, posts, clicked

H2 == INSTANCE PermitBench WITH Hostile <- FALSE, Permit <- 1, Lease <- 2, Bind <- 3,
        Wrap <- 5, MaxVerify <- 3, MaxGen <- 1, MaxChallenge <- 6
H1 == INSTANCE BenchSession WITH clk <- clk1, board <- board1, Permit <- 1, Challenge <- 2,
        Lease <- 3, WorldMaxAge <- 2, Wrap <- 4, Faults <- {"none"}, Start <- {2},
        MaxSeq <- 3, MaxSession <- 1
Hub == INSTANCE LiveHub WITH Browsers <- {"page"}, MaxMessages <- 1, MaxMilestones <- 1,
         MaxSequence <- 2, MaxSessions <- 2

ASSUME InstanceParameters == H1!Parameters /\ H2!Parameters /\ Hub!HubAssumption

h2Vars    == <<clk, board, auth, frames, relay>>
h1Vars    == <<clk1, board1, wire, host, gate>>
hubVars   == <<hub, runner, browser, posts, clicked>>
allVars   == <<part, nodeVars, vars, h2Vars, h1Vars, hubVars>>

MCInit ==
  /\ part \in {"node", "relay", "h2", "h1", "hub"}
  /\ NodeInit /\ (part = "node" \/ node.permits)
  /\ Init /\ (part = "relay" \/ ready)
  /\ H2!Init
  /\ H1!Init
  /\ Hub!HubInit

AtNode(step)  == part = "node"  /\ step /\ UNCHANGED <<part, vars, h2Vars, h1Vars, hubVars>>
AtRelay(step) == part = "relay" /\ step /\ UNCHANGED <<part, nodeVars, h2Vars, h1Vars, hubVars>>
AtH2(step)    == part = "h2"    /\ step /\ UNCHANGED <<part, nodeVars, vars, h1Vars, hubVars>>
AtH1(step)    == part = "h1"    /\ step /\ UNCHANGED <<part, nodeVars, vars, h2Vars, hubVars>>
AtHub(step)   == part = "hub"   /\ step /\ UNCHANGED <<part, nodeVars, vars, h2Vars, h1Vars>>

MCNext == AtNode(NodeNext) \/ AtRelay(Next) \/ AtH2(H2!Next) \/ AtH1(H1!Next) \/ AtHub(Hub!HubNext)

\* Nothing of what the node and the relay take to be fair is enabled at the
\* start, where they stay in the other parts; the rest is fair in its own part.
MCSpec ==
  /\ MCInit /\ [][MCNext]_allVars
  /\ NodeFairness /\ Fairness
  /\ WF_allVars(AtH2(H2!Time)) /\ WF_allVars(AtH2(H2!BoardVerifies))
  /\ WF_allVars(AtH1(H1!Time))
  /\ WF_allVars(AtHub(Hub!Connect("page")))
  /\ SF_allVars(AtHub(Hub!Fetch("page"))) /\ SF_allVars(AtHub(Hub!PageReceives("page")))

\* A cancellation ends: at the node, which resolves it or exits (node.py _tick,
\* _abort_tick), and at the relay, whose goal reaches an end (relay.py execute).
CancellationEnds == CancelResolves /\ CancelEnds

\* The LED goes out for good: after the authorizer's terminal answer, and after
\* the end of the host's run (permit_authorizer.py approve, bench_host.py run).
DarkInTheEnd == H2!TerminalGoesDark /\ H1!EndedStaysDark

\* LiveHub: every page learns that the run failed.
FailureReaches == Hub!FailureReaches
=============================================================================
