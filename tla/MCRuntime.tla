----------------------------- MODULE MCRuntime ------------------------------
(* What keeps a bounded memory of a stream, one component at a time.  The two  *)
(* stores of haetae-runtime: the replay window with two sources of four ids    *)
(* each and room for two, and the recorder with a ring of three, a window of    *)
(* one and a seal after every two records.  What the simulation shows and      *)
(* measures: two interchangeable pages with queues short enough that rows are  *)
(* evicted, the driver of the native scene, and the fusion of the world (one   *)
(* unit of time is 100 ms).  part says which of them runs; the others stay as  *)
(* they start, so the run is the sum of the instances.                         *)
EXTENDS Dedup, Recorder, WorldFusion, NativeScene, LiveHub, TLC

VARIABLE part

Pages == Permutations(Browsers)

storeVars == <<windowVars, recorderVars>>
viewVars == <<fusionVars, nativeVars, hubVars>>

MCInit ==
  /\ part \in {"window", "recorder", "hub", "native", "fusion"}
  /\ WindowInit /\ RecorderInit
  /\ HubInit /\ NativeInit /\ FusionInit

MCNext ==
  /\ UNCHANGED part
  /\ \/ part = "window"   /\ WindowNext   /\ UNCHANGED <<recorderVars, viewVars>>
     \/ part = "recorder" /\ RecorderNext /\ UNCHANGED <<windowVars, viewVars>>
     \/ part = "hub"      /\ HubNext      /\ UNCHANGED <<storeVars, nativeVars, fusionVars>>
     \/ part = "native"   /\ NativeNext   /\ UNCHANGED <<storeVars, hubVars, fusionVars>>
     \/ part = "fusion"   /\ FusionNext   /\ UNCHANGED <<storeVars, hubVars, nativeVars>>

MCSpec == MCInit /\ [][MCNext]_<<part, storeVars, viewVars>>
=============================================================================
